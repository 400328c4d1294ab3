\* One file opened, edited, saved, closed, opened again and written by others.
SPECIFICATION BufferSpec
CONSTANTS
    t1 = t1
    t2 = t2
    Texts = {t1, t2}
    Empty = Empty
    Garbled = Garbled
    MaxOpens = 2
    MaxEdits = 2
    MaxSaves = 2
    MaxWrites = 1
    MaxUses = 4
SYMMETRY Symmetry
INVARIANTS
    BufferTypeOK
    GarbledOutOfTurn
    DivergenceIsTold
    SavedUnlessTold
    SavesAnswered
\* The editor may be closed and the file left alone.
CHECK_DEADLOCK FALSE
