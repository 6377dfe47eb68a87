SPECIFICATION FairSpec
CONSTANTS
  alice = alice
  bob = bob
  carol = carol
  judy = judy
  User <- AliceBobJudy
  Registered <- AliceAndJudy
  Judge <- JustJudy
  Moderator <- NoOne
  Creator = alice
  MayPlay <- AliceBobJudy
  MayWatch <- AliceAndJudy
  PermitCreateGameAsJudge = FALSE
  MaxPlayers = 2
  MaxInactivity = 1
  MaxId = 3
  MaxPendingStarts = 2
INVARIANTS
  TypeOK OneSeatPerUser SessionSeatAgree KeptSeatsAreReferenced
  OnlineOwnersAttached NoLostStart
  TurnLoopTerminates
PROPERTIES
  HostHandover FullTableStarts AbandonedGameGoes
CHECK_DEADLOCK FALSE
