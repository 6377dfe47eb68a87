SPECIFICATION Spec
CONSTANTS
  p1 = p1
  p2 = p2
  p3 = p3
  None = None
  Player = {p1, p2}
  Card = {1, 2, 3}
  Deck <- OneDeck
  LibrarySize = 0
  Judge = {}
  GrantZone = {"hand"}
  MoveZone = {"table", "hand"}
  Side = {TRUE}
  MaxCardId <- Bound420
  MaxArrows <- Bound000
  MaxDraws = 1
INVARIANTS
  IdsAreUnique
  StashIsPlain
PROPERTIES
  DeckCardsAreKept
CHECK_DEADLOCK FALSE
