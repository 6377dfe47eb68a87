SPECIFICATION Spec
CONSTANTS
  s1 = s1
  s2 = s2
  s3 = s3
  s4 = s4
  tcp = tcp
  web = web
  alice = alice
  bob = bob
  NoSession = NoSession
  Session <- Two
  Thread <- TwoPools
  ThreadOf <- InTwoPools
  BaseOf <- BobTwice
  Account <- NoAccount
  MaxUsersTotal = 0
INVARIANTS
  NoTwoUsersSameName
CHECK_DEADLOCK FALSE
