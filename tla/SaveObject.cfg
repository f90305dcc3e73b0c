SPECIFICATION SaveSpec
CONSTANTS
    Batch = 2
    MaxKey = 2
    Workers = {w1, w2}
    Objects = {o1, o2}
    MaxInst = 2
SYMMETRY Symm
INVARIANTS
    SaveTypeOK
    NumbersUnique
    AttachmentPresent
    FileHasReference
