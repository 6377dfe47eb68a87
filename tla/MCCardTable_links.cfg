SPECIFICATION Spec
CONSTANTS
  p1 = p1
  p2 = p2
  p3 = p3
  None = None
  Player = {p1, p2, p3}
  Card = {1, 2, 3}
  Deck <- BigDeck
  LibrarySize = 2
  Judge = {}
  GrantZone = {}
  MoveZone = {"table"}
  Side = {FALSE}
  MaxCardId <- Bound211
  MaxArrows <- Bound020
  MaxDraws = 0
INVARIANTS
  TypeOK
  AttachmentsOnTable
  ArrowsJoinPublicCards
CHECK_DEADLOCK FALSE
