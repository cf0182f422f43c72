SPECIFICATION MCSpec
CONSTANTS
    Keys <- MCKeys
    Lengths <- MCLengths
    Flips <- MCFlips
CHECK_DEADLOCK FALSE
INVARIANT ChecksumLeftOut
