SPECIFICATION Spec
CONSTANTS
    t1 = t1
    Threads = {t1}
    LOGT_MAX_CHANNEL = 3
    Levels <- JustFatal
    Filters <- JustFatal
    Calls <- ConfigCalls
    OpenFails = TRUE
    MaxMessages = 1
PROPERTY FatalReachesAll
