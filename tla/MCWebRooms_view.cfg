SPECIFICATION Spec
CONSTANTS
    ann = ann
    tom = tom
    g1 = g1
    m1 = m1
    Web <- OneWeb
    Desk <- OneDesk
    Game <- OneGame
    Chat <- OneMessage
    HistorySize = 1
    MaxQueue = 2
INVARIANTS
    TypeOK
    RoomUsersRight
    LobbyRight
    GamesAgree
    ChatOnce
CHECK_DEADLOCK FALSE
