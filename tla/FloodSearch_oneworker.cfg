CONSTANTS
  a = a
  b = b
  c = c
  s1 = s1
  s2 = s2
  f = f
  Peers = {a, b, c}
  Neighbors <- Clique
  Files <- OneFile
  Handlers = 1
  Searches = {s1}
  Origin <- FromA
  Wanted <- AllWantF
  IdBase <- Base
  IdSpan = 16
  FirstCount <- AnyCount
  Unreliable = {}
  Dup = Dup
  Null = Null
  NoPeer = NoPeer
SPECIFICATION Spec
PROPERTIES
  SearchReturns
CHECK_DEADLOCK FALSE
