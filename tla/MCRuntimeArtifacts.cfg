\* Three processes, two versions of the desired state, writes that are not short.
SPECIFICATION Spec
CONSTANTS
    Writers = {w1, w2, w3}
    Contents = {v1, v2}
    ShortWrites = FALSE
    RenameErrors = {"ENOTEMPTY", "EEXIST"}
    Absent = Absent
    Torn = Torn
SYMMETRY Symmetry
INVARIANTS
    TypeOK
    GenerationWhole
    UsersAgree
PROPERTY GenerationImmutable
