SPECIFICATION FairSpec
CONSTANTS
  s1 = s1
  s2 = s2
  s3 = s3
  s4 = s4
  tcp = tcp
  web = web
  alice = alice
  bob = bob
  NoSession = NoSession
  Session <- Four
  Thread <- OnePool
  ThreadOf <- InOnePool
  BaseOf <- TwoOfEach
  Account <- AliceAndBob1
  MaxUsersTotal = 2
INVARIANTS
  TypeOK NameMeansSession ClientsAreAlive SeatFollowsSession
  FoundIsAlive RowsFollowSessions
PROPERTIES
  NameComesFree
CHECK_DEADLOCK FALSE
