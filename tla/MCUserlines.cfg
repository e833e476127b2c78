\* Five tweets of three users, pages of 2 (1 with 'test').
CONSTANTS
    Names <- MCNames
    NTweets = 5
    PageLimit = 2
    TestPageLimit = 1
SPECIFICATION Spec
INVARIANT TypeOK
INVARIANT PageFull
INVARIANT SelectsMatchUserline
CHECK_DEADLOCK FALSE
