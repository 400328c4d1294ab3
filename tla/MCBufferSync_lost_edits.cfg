\* Nobody but the daemon writes the file.
SPECIFICATION BufferSpec
CONSTANTS
    t1 = t1
    t2 = t2
    Texts = {t1, t2}
    Empty = Empty
    Garbled = Garbled
    MaxOpens = 1
    MaxEdits = 2
    MaxSaves = 2
    MaxWrites = 0
    MaxUses = 4
SYMMETRY Symmetry
INVARIANT SavedIsTheClients
\* The editor may be closed and the file left alone.
CHECK_DEADLOCK FALSE
