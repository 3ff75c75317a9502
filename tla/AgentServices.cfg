CONSTANTS
    Requests = {r1, r2}
    Configs = {c, d}
    MaxThreads = 3
    QUEUED_TASK_LIMIT = 2
    CallsMayFail = TRUE
    WritesMayFail = TRUE
    Writers = {w1, w2}
    MAX_DATA = 2
    MaxSends = 2
    Editors = {e1, e2}
    Posts = {p1, p2}
    Bodies = {b1, b2}
    MAX_POSTS = 2
    Shims = {r1, r2}
    Images = {i1}
    Videos = {v1}
    Renders = {g1}
    MaxChunks = 2
    CALL_SLOTS = 2
    MaxCalls = 1
    Uploads = {r1, r2}
    FileNames = {f1, f2}
    MaxSize = 2
    MaxTime = 1
    Admins = {a1, a2}
    Proxies = {q1, q2}
    Pages = {"conversation", "chat"}
    Polls = {k1, k2}
    MAX_EVENTS = 2
    PRUNE_EVERY = 2
    PageLimit = 2
    MaxSeq = 5
    MaxShows = 1
SPECIFICATION MCSpec
SYMMETRY MCSymmetry
INVARIANTS ChatsApart NoOrphanRuns FilesAreWhole UploadsAreKept ConversationHasNoGap
PROPERTIES BuildsOnWhatWasRead ApprovedIsPinned
CHECK_DEADLOCK FALSE
