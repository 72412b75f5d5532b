SPECIFICATION FairSpec
CONSTANTS
    Name = {1, 2, 3}
    Unreadable = {}
    Retired = {}
    Task = {t1}
    MaxMutations = 3
    None = None
INVARIANTS
    
    XattrListingsAreExact
 
