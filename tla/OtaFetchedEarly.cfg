CONSTANTS
    fw = fw
    conf = conf
    None = None
    File <- MCFile
    Length <- MCLength
    Size <- MCSize
    BufLen = 1
    MaxNotices = 2
    Scarce = {"md5"}
SPECIFICATION Spec
PROPERTIES
    FetchedIsFinished
