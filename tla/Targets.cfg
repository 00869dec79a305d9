CONSTANTS
  Nil = Nil
  NoFunc = NoFunc
  Module <- SmallModule
  PathOf <- SmallPathOf
  Context = 1
  Worlds <- SmallWorlds
  Later <- SmallLater
  Tops = {0, 1}
  Scopes <- SmallScopes
  MaxCommands <- CommandsIn
SPECIFICATION Spec
INVARIANTS EditedFunctionsTargeted HotFirst RankReproducible TargetsInScope ExcludesSurvive
