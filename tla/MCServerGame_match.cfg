SPECIFICATION Spec
CONSTANTS
  alice = alice
  bob = bob
  carol = carol
  judy = judy
  User <- Trio
  Registered <- AliceAndBob
  Judge <- NoOne
  Moderator <- JustBob
  Creator = alice
  MayPlay <- Trio
  MayWatch <- NoOne
  PermitCreateGameAsJudge = FALSE
  MaxPlayers = 3
  MaxInactivity = 0
  MaxId = 4
  MaxPendingStarts = 2
INVARIANTS
  TurnIsInPlay DecksBeforeDeals
PROPERTIES
  NobodyIsSkipped KeepsMatch
CHECK_DEADLOCK FALSE
