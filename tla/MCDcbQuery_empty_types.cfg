SPECIFICATION Spec
CONSTANTS
    Types = {"opened", "enrolled", "note"}
    Keys = {"course", "student"}
    Values = {"a", "b"}
    TagKeys <- MCTagKeys
    CrossPartitionKeys = {"course"}
    EmptyTypesMatchAny = TRUE
INVARIANTS
    NarrowingIsDead
CHECK_DEADLOCK FALSE
