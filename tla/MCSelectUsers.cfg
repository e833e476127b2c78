\* Three eligible users of whom two are selected: eligible files of zero
\* to three lines, with and without a final line break, reach both the
\* ValueError of sample() and full runs.  Windows of three positions in a
\* file of five tweets, two tweets per page, so that two users can pick
\* the same tweet line and a page can tie with another's.
CONSTANTS
    Names = {"a", "b", "c"}
    NumberUsers = 2
    WindowSize = 3
    TweetsPerPage = 2
    NumberTweets = 5
    PageLimit = 2
SPECIFICATION Spec
INVARIANT TypeOK
INVARIANT WantedLinesExist
INVARIANT WantedPagesFull
CHECK_DEADLOCK FALSE
