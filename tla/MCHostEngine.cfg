CONSTANTS
    Cells <- MCCells
    MinPlayers = 2
    MaxPlayers = 3
    AskedSizes <- TableSizes
    MaxProfiles = 3
SPECIFICATION Spec
INVARIANTS
    LobbyTypeOK
    MembershipAgrees
    HostAlwaysPresent
    FlagsStayInRooms
    RoundsHaveFullTables
    ReadyRoomHasItsRound
PROPERTIES
    VotesAnsweredUnlessLeft
CHECK_DEADLOCK FALSE
