SPECIFICATION Spec
CONSTANTS
    a = a
    b = b
    Clients = {a, b}
    Capacity = 2
    MaxOutstanding = 3
PROPERTIES
    NobodyHangs
CHECK_DEADLOCK FALSE
