CONSTANTS
  Parts = {"table", "clients", "ring", "walk", "memory", "config", "bus", "wire", "list", "vector"}
  NULL = NULL
  NoSeed = NoSeed
  Nodes <- MCNodes
  Mode <- MCMode
  Seed <- MCSeed
  Values <- MCValues
  VECTOR_INITIAL_CAPACITY = 4
  MaxLen = 9
  b1 = b1
  b2 = b2
  b3 = b3
  b4 = b4
  t1 = t1
  t2 = t2
  v1 = v1
  v2 = v2
  h1 = h1
  h2 = h2
  h3 = h3
  h4 = h4
SPECIFICATION Spec
INVARIANTS
  ClientsListed LookupIsSuccessor AnswersAsMap WalkSafe CountCovers
   JoinersCounted  ReplyFits ListHolds VectorHolds
PROPERTIES ImplementsDict MovesOnlyToNewcomer
CHECK_DEADLOCK FALSE
