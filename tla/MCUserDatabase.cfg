SPECIFICATION Spec
CONSTANTS
    Users = {1, 2, 3}
    NoUser = NoUser
    Clients = {a, b}
    MaxAsked = 2
    MaxClicked = 1
    MaxFriends = 2
SYMMETRY ClientSymmetry
PROPERTIES
    RequestsBecomeFriendships
