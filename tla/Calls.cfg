\* The names of a mount, or two reads of one frame set.
CONSTANTS
    Files <- MCFiles
    Media <- MCMedia
    Mounts <- MCMounts
    Titles <- MCTitles
    Members <- MCMembers
    Tracks <- MCTracks
    AudioOnly = {"mp3"}
    MaxHandles = 1
    r1 = r1
    r2 = r2
    Readers = {r1, r2}
    Target <- MCTarget
    Count = 6
    Keys = {1, 4}
    Threshold = 1
    Sources <- MCSources
SPECIFICATION Spec
INVARIANTS ListedFound ReadsReachData SuccessHasAll
PROPERTIES RunsEnd FramesServed
CHECK_DEADLOCK FALSE
