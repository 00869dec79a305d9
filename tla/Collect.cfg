CONSTANTS
  v1 = v1
  t1 = t1
  t2 = t2
  noId = noId
  s1 = s1
  Nil = Nil
  Procs = {p1}
  Services = {s1}
  Versions = {v1}
  TraceIds = {t1, t2}
  NoId = noId
  Results <- SmallResults
  Dumps = {0, 1, 2}
  MaxCommands = 2
SPECIFICATION Spec
INVARIANTS TypeOK RetriesJustified ResultIsHonest SlowestTried GapsAreReal
PROPERTIES PinsWhatItFetched CollectEnds
