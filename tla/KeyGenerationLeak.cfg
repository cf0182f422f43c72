SPECIFICATION FcSpec
CONSTANTS
    Keys <- MCKeys
    Lengths <- MCLengths
    Flips <- MCFlips
    Messages <- MCMessages
    Garbage = {0, 205}
    MaxOps = 3
    Loggers = {"default", "user"}
    Threads = {t1, t2}
    Settings = {1, 3, 5}
    MaxCalls = 2
CHECK_DEADLOCK FALSE
INVARIANT
    NoKeyLeftBehind
