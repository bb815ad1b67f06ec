SPECIFICATION Spec
CONSTANTS
    Keyboards = {k1, k2}
    Servers = {s1, s2, s3}
    Posters = {p1}
    Pressed = {"key", "power", "flags"}
    MaxKeys = 2
    MaxPosts = 1
    MaxTime = 2
INVARIANTS
    TypeOK
    SingleOwner
    NoneStranded
    KeysInOrder
SYMMETRY Symmetry
CHECK_DEADLOCK FALSE
