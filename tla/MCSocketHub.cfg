SPECIFICATION Spec
CONSTANTS
    Base = 8
    BoardSize = 2
    Requests <- MCRequests
    Notices <- MCNotices
    Followers <- MCFollowers
    MaxSent = 2
    ReadSizes = {1, 20, 64}
INVARIANTS
    NothingStaysBehind
PROPERTIES
    RequestsInOrder
    NoticesInOrder
CHECK_DEADLOCK FALSE
