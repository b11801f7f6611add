SPECIFICATION ProcessSpec
CONSTANTS
    s = s f = f a = a b = b x = x j = j z = z e = e
    Canvases <- AllDrawings
    MaxRows = 12
    MaxLost = 1
INVARIANTS StuckOnlyByShape EndsWhole EnteredOnce ShownIsTrue AcceptedIsSound
CHECK_DEADLOCK FALSE
