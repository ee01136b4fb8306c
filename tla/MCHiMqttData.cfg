SPECIFICATION Spec
CONSTANTS
    MaxSubs = 2
    MaxLen = 2
    Longest = 3
    Numbers = 3
INVARIANTS
    TypeOK
PROPERTIES
    Delivers
