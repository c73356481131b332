\* Two processes that render the same content, on a file system as of ext4.
SPECIFICATION Spec
CONSTANTS
    Writers = {w1, w2}
    Contents = {v1}
    ShortWrites = FALSE
    RenameErrors = {"ENOTEMPTY"}
    Absent = Absent
    Torn = Torn
INVARIANT LoserRetains
