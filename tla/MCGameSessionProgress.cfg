SPECIFICATION SessionSpec
CONSTANTS
    c1 = c1
    c2 = c2
    Cells = {c1}
    TopLeft = c1
    MinPlayers = 2
    MaxPlayers = 3
    AskedSizes = {2}
    MaxProfiles = 2
    Clients = {1, 2}
    Openers = {1}
    MaxRequests = 1
    MaxUnread = 0
PROPERTIES
    RoomRequestsAnswered
CHECK_DEADLOCK FALSE
