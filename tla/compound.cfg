SPECIFICATION Spec
CONSTANTS
    Name = {a, b}
    XattrName = {x}
    Sizes = {}
    MaxBytes = 0
    MaxId = 2
    MaxChange = 100
    NoInode = NoInode
    None = None
    Anonymous = Anonymous
    Current = Current
SYMMETRY Symmetry
VIEW Seen
INVARIANTS
    StateidsFollowFilehandles
    
CHECK_DEADLOCK FALSE
