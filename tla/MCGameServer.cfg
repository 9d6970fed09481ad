SPECIFICATION ServerSpec
CONSTANTS
    ann = ann
    bob = bob
    c1 = c1
    Names = {ann, bob}
    Cells = {c1}
    MinPlayers = 2
    MaxPlayers = 2
    AskedSizes = {2}
    MaxProfiles = 3
    MaxConnections = 3
INVARIANTS
    SessionsAgree
    OneLoginPerName
PROPERTIES
    ImplementsSeating
    LostPlayersLeave
    LobbyServed
