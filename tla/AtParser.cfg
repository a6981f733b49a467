CONSTANTS
    Nul = Nul
    Oobs <- MCOobs
    Postfix <- MCPostfix
    Frame <- MCFrame
    BufSize = 9
    MaxFrames = 4
    MaxLost = 2
SPECIFICATION Spec
INVARIANTS
    TypeOK
    ReportedOnce
    LineEndsCapture
