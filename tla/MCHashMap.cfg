SPECIFICATION Spec
CONSTANTS
    k1 = k1
    k2 = k2
    k3 = k3
    k4 = k4
    Keys = {k1, k2, k3, k4}
    Values = {v1, v2}
    NULL = NULL
    fnv1a_string_hash <- MCHash
    HASH_TABLE_INTIAL_SIZE = 3
    MaxLength = 12
INVARIANTS
    LookupRight
    LoadBound
PROPERTIES
    MapSpec
CHECK_DEADLOCK FALSE
