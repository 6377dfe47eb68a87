SPECIFICATION Spec
CONSTANTS
  s1 = s1
  s2 = s2
  s3 = s3
  s4 = s4
  tcp = tcp
  web = web
  alice = alice
  bob = bob
  NoSession = NoSession
  Session <- Three
  Thread <- TwoPools
  ThreadOf <- InTwoPools
  BaseOf <- TwoOfEach
  Account <- AliceAndBob1
  MaxUsersTotal = 0
PROPERTIES
  RemovedIsTheClient
CHECK_DEADLOCK FALSE
