----------------------------- MODULE MCTargets ------------------------------
(* Small instances of Targets for TLC. *)
EXTENDS Targets

SmallModule == <<"m">>

\* m.R; m/a.F, m/a.G; m/a/b.H; main.main; x/y.Z
SmallPathOf == << <<"m">>, <<"m", "a">>, <<"m", "a">>, <<"m", "a", "b">>, <<"main">>, <<"x", "y">> >>

Scope(inc, exc) == [include |-> inc, exclude |-> exc]
SmallScopes == {Scope({}, {<<"a", "b">>}), Scope({<<"a">>}, {})}

-----------------------------------------------------------------------------
(* Edits: three lines of F, one of nobody, three of G, and a second version   *)
(* of F's first line.  A line may also be in neither version.                *)

L(f, d) == [fn |-> f, decl |-> d]
Text == << L(2, TRUE), L(2, TRUE), L(2, FALSE), L(2, FALSE), L(NoFunc, FALSE),
           L(3, TRUE), L(3, FALSE), L(3, FALSE) >>

Script(ops) ==
  SelectSeq([i \in DOMAIN ops |-> [op |-> ops[i], fn |-> Text[i].fn, decl |-> Text[i].decl]],
            LAMBDA l : l.op # "none")

\* A function of a file of Go has no line, or begins with its declaration, its only
\* one, and ends on another line.
Parses(script, version) ==
  \A f \in {2, 3} :
    LET body == {i \in version : script[i].fn = f}
    IN body # {} => /\ Cardinality(body) > 1
                    /\ {i \in body : script[i].decl} = {Min(body)}

Ops == {"keep", "del", "add"}

Scripts ==
  {s \in {Script(<<o1, o2, o3, o4, o5, o6, o7, o8>>) :
            o1 \in Ops \cup {"none"}, o2 \in Ops, o3 \in Ops, o4 \in Ops,
            o5 \in {"keep", "add", "none"}, o6 \in Ops, o7 \in Ops, o8 \in Ops} :
     Changes(s) # {} /\ Parses(s, New(s)) /\ Parses(s, Old(s)) /\ GoDiff(s)}

File(s, t, skip) == [script |-> s, tree |-> t, skip |-> skip]
Edit(s) == File(s, NewLines(s), FALSE)

\* One line of the function f is added.
Touch(f) ==
  << [op |-> "keep", fn |-> f, decl |-> TRUE], [op |-> "add", fn |-> f, decl |-> FALSE],
     [op |-> "keep", fn |-> f, decl |-> FALSE] >>

-----------------------------------------------------------------------------
(* Profiles *)

Profile(types, samples, local) ==
  [types |-> types, samples |-> samples, local |-> local, parses |-> TRUE]
Sample(f, v) == [leaf |-> f, value |-> v]
Garbage == [types |-> << >>, samples |-> << >>, local |-> FALSE, parses |-> FALSE]

Heap == <<"alloc_space", "inuse_space">>

\* Equal and different weights of two functions and a library, in two metrics; one
\* file is local, one cannot be read, one has a type of its own.
SmallProfiles ==
  {<< >>, <<Garbage>>} \cup
  { << Profile(<<"samples", "cpu">>, <<Sample(2, <<1, c2>>), Sample(3, <<1, c3>>), Sample(6, <<9, 1>>)>>, FALSE),
       Garbage,
       Profile(Heap, <<Sample(3, <<h3, 1>>), Sample(2, <<1, h3>>), Sample(NoFunc, <<7, 7>>)>>, local) >> :
    c2 \in 0..2, c3 \in 0..2, h3 \in 1..2, local \in BOOLEAN} \cup
  { << Profile(<<"wall">>, <<Sample(4, <<1>>), Sample(1, <<1>>)>>, FALSE),
       Profile(<<"cpu">>, <<Sample(1, <<n>>), Sample(4, <<1>>), Sample(5, <<1>>)>>, TRUE) >> : n \in 1..2 }

OneProfile == << Profile(<<"cpu">>, <<Sample(3, <<2>>), Sample(4, <<1>>), Sample(6, <<1>>)>>, FALSE) >>

W(mode, files, profiles) == [mode |-> mode, files |-> files, profiles |-> profiles]

AllTouched == {Edit(Touch(f)) : f \in {1, 2, 3, 4}}

\* Every edit in every mode; every set of profiles; trees that are not the diff's.
SmallWorlds ==
  {W(mode, {Edit(s)}, << >>) : mode \in Modes, s \in Scripts} \cup
  {W("uncommitted", AllTouched, ps) : ps \in SmallProfiles}

SmallLater ==
  { W("committed", {File(Touch(2), << >>, FALSE), Edit(Touch(4)),
                    File(Touch(1), NewLines(Touch(1)), TRUE)}, OneProfile),
    W("uncommitted", {File(Touch(2), << >>, FALSE)}, << >>) }
\* An edit is looked at once; a whole history is in the later worlds.
CommandsIn(w) == IF w \in SmallLater THEN 3 ELSE IF w.profiles = << >> THEN 1 ELSE 2
=============================================================================
