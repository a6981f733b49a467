CONSTANTS
    fw = fw
    conf = conf
    None = None
    File <- MCFile
    Length <- MCLength
    Size <- MCSize
    BufLen = 1
    MaxNotices = 3
    Scarce = {"md5"}
SPECIFICATION Spec
INVARIANTS
    TypeOK
    CountedAndHashed
    ValidMeansWhole
PROPERTIES
    BusyIsFrozen
    EndsAtTheSize
