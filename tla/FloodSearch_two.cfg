CONSTANTS
  a = a
  b = b
  c = c
  s1 = s1
  s2 = s2
  f = f
  Peers = {a, b, c}
  Neighbors <- Clique
  Files <- OneFile
  Handlers = 2
  Searches = {s1, s2}
  Origin <- FromAB
  Wanted <- AllWantF
  IdBase <- Base
  IdSpan = 16
  FirstCount <- AnyCount
  Unreliable = {c}
  Dup = Dup
  Null = Null
  NoPeer = NoPeer
SPECIFICATION Spec
INVARIANTS
  TypeOK
  SoundResult
  CompleteResult
  DupMeansSeenIfUnique
PROPERTIES
  TakesUpOnce
  SearchReturns
CHECK_DEADLOCK FALSE
