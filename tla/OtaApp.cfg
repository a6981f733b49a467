CONSTANTS
    fw = fw
    conf = conf
    None = None
    File <- MCFile
    Length <- MCLength
    Size <- MCSize
    BufLen = 2
    MaxNotices = 3
    Scarce = {"md5"}
SPECIFICATION AppSpec
INVARIANTS
    AppTypeOK
    LiveContexts
    ValidMeansWritten
PROPERTIES
    WholeIsValid
    VerdictReached
CHECK_DEADLOCK FALSE
