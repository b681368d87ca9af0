\* One file of one disc, read to its end with up to two seeks.
CONSTANTS
    Sync <- MCSync
    Sector = 4
    BlurayBuffer = 6
    MinChapter = 1
    Discs <- MCDiscs
    BufferOf <- MCBuffer
    MaxPacket = 3
    MaxSeeks = 2
    Cases <- MCCases
    DiscCase <- MCDiscCase
    Jobs <- MCJobs
    Device = "nv12"
    MaxQueue = 2
SPECIFICATION Spec
INVARIANTS EndIsEnd ChaptersTile ContainerWhole UploadsMatch EncodersFit
PROPERTIES InOrder OpenEnds
CHECK_DEADLOCK FALSE
