---------------------------- MODULE SelectUsers ----------------------------
(***************************************************************************)
(* select_users.py from line 15 on, and the reading of its output by       *)
(* prepare_timelines.py (lines 7-20).  select_users.py samples             *)
(* number_users of the eligible users.  For each one it draws a window     *)
(* offset and a sorted sample of tweets_per_page tweet positions inside    *)
(* the window, and writes 'user;offset;id,id,...' to selected_users.txt.   *)
(* prepare_timelines.py turns every line into (user, offset + id) pairs    *)
(* and sorts all the pairs by tweet line.  Line 14 calls the undefined     *)
(* Seeds() and raises NameError, so the model starts after that line.      *)
(*                                                                         *)
(* Data abstraction.  eligible_users.txt is a sequence of distinct user    *)
(* names (the count column that split(' ')[-1] drops is left out), and a   *)
(* flag that says whether the last line ends with a line break, which is   *)
(* all that wc -l counts.  A written line is a record; its str/int         *)
(* conversions are exact for the small naturals used here.                 *)
(***************************************************************************)
EXTENDS Naturals, Sequences, SequencesExt, FiniteSets, Functions

CONSTANTS
    Names,          \* user names
    NumberUsers,    \* number_users (line 7)
    WindowSize,     \* window_size (line 8)
    TweetsPerPage,  \* tweets_per_page (line 9)
    NumberTweets,   \* number_tweets (line 12)
    PageLimit       \* page_limit of prepare_timelines.py (line 5)

ASSUME NumberTweets > WindowSize /\ TweetsPerPage <= WindowSize

\* eligible_users.txt: one line per user.
EligibleFiles == UNION {SetToSeqs(S) : S \in SUBSET Names}

\* int(popen('wc -l ...')): the number of line breaks of the file.
TotalUsers(e, lastBreak) == IF e = << >> \/ lastBreak THEN Len(e) ELSE Len(e) - 1

\* Random.sample(population, n) as a list: n distinct members, in draw order.
Sample(P, n) == {s \in [1 .. n -> P] : IsInjective(s)}

\* A slip: members drawn with replacement, as repeated choice() would draw them.
SortedSampleWithReplacement(P, n) ==
    {s \in [1 .. n -> P] : \A i \in 1 .. n - 1 : s[i] <= s[i + 1]}

\* A slip: positions counted from 1 in the window, xrange(1, window_size + 1).
SortedSampleFromOne(P, n) ==
    {s \in [1 .. n -> {p + 1 : p \in P}] : \A i \in 1 .. n - 1 : s[i] < s[i + 1]}

\* sorted(Random.sample(population, n))
SortedSample(P, n) ==
    {s \in [1 .. n -> P] : \A i \in 1 .. n - 1 : s[i] < s[i + 1]}

\* A slip: randrange(0, number_tweets), the window not subtracted.
OffsetRangeNoWindow(n) == 0 .. n + WindowSize - 1

\* randrange(0, number_tweets - window_size): its end is excluded.
OffsetRange(n) == 0 .. n - 1

VARIABLES
    eligible, lastBreak,   \* the input file, fixed by Init
    users,                 \* the sampled user names (line 26)
    k,                     \* index of the for loop of line 30
    selected,              \* lines of selected_users.txt, as records
    pc

vars == <<eligible, lastBreak, users, k, selected, pc>>

Init ==
    /\ eligible \in EligibleFiles
    /\ lastBreak \in BOOLEAN
    /\ users = << >> /\ k = 0 /\ selected = << >>
    /\ pc = "sample"

\* Lines 22-26: sample number_users line indices below total_users and keep
\* those lines' names.  A population smaller than the sample makes sample()
\* raise ValueError, before selected_users.txt is opened.
SampleUsers ==
    /\ pc = "sample"
    /\ LET total == TotalUsers(eligible, lastBreak) IN
       \/ /\ NumberUsers > total
          /\ pc' = "error"
          /\ UNCHANGED users
       \/ /\ NumberUsers <= total
          /\ \E ids \in Sample(0 .. total - 1, NumberUsers) :
                users' = [j \in 1 .. NumberUsers |-> eligible[ids[j] + 1]]
          /\ pc' = "write"
    /\ UNCHANGED <<eligible, lastBreak, k, selected>>

\* Lines 31-34, one user: draw the window offset and the sorted tweet
\* positions in the window, and write the user's line.
WriteUser ==
    /\ pc = "write"
    /\ k < Len(users)
    /\ \E offset \in OffsetRange(NumberTweets - WindowSize),
          ids \in SortedSample(0 .. WindowSize - 1, TweetsPerPage) :
          selected' = Append(selected, [user |-> users[k + 1], offset |-> offset, ids |-> ids])
    /\ k' = k + 1
    /\ UNCHANGED <<eligible, lastBreak, users, pc>>

\* The loop of line 30 ends and the file is closed.
Finish ==
    /\ pc = "write"
    /\ k = Len(users)
    /\ pc' = "done"
    /\ UNCHANGED <<eligible, lastBreak, users, k, selected>>

Next == SampleUsers \/ WriteUser \/ Finish

Spec == Init /\ [][Next]_vars

-----------------------------------------------------------------------------

\* prepare_timelines.py lines 11-19: one (username, offset + id) pair per
\* tweet, the users' lists concatenated in file order.
ConvTweetIds(sel) ==
    FlattenSeq([j \in DOMAIN sel |->
        [i \in DOMAIN sel[j].ids |-> <<sel[j].user, sel[j].offset + sel[j].ids[i]>>]])

\* prepare_timelines.py line 20: sorted(..., key = lambda x: x[1]), which
\* is stable, so ties keep the order of the concatenation.
SortedConvTweetIds(sel) ==
    LET c   == ConvTweetIds(sel)
        key == SetToSortSeq({<<c[i][2], i>> : i \in DOMAIN c},
                   LAMBDA a, b : a[1] < b[1] \/ (a[1] = b[1] /\ a[2] < b[2]))
    IN  [j \in DOMAIN key |-> c[key[j][2]]]

-----------------------------------------------------------------------------

TypeOK ==
    /\ eligible \in EligibleFiles /\ lastBreak \in BOOLEAN
    /\ users \in Seq(Names) /\ k \in 0 .. Len(users)
    /\ \A j \in DOMAIN selected :
          /\ selected[j].user \in Names
          /\ selected[j].offset \in Nat
          /\ selected[j].ids \in Seq(0 .. WindowSize - 1)
    /\ pc \in {"sample", "write", "done", "error"}

\* The pairs of user u in the list prepare_timelines.py scans for.
Wanted(u) == SelectSeq(SortedConvTweetIds(selected), LAMBDA p : p[1] = u)

(***************************************************************************)
(* Lines 17-19 promise tweets from [offset, offset + window_size) with     *)
(* offset in [0, number_tweets - window_size): every tweet line the        *)
(* finished selected_users.txt names is one of the number_tweets lines of  *)
(* tweets_clean.txt, so the scan of prepare_timelines.py, which raises     *)
(* 'Not all tweets found!' past the end of the file, reaches each one.     *)
(***************************************************************************)
WantedLinesExist ==
    pc = "done" =>
        \A p \in ToSet(SortedConvTweetIds(selected)) : p[2] \in 0 .. NumberTweets - 1

(***************************************************************************)
(* The wanted list prepare_timelines.py builds at lines 11-20 gives every  *)
(* selected user exactly page_limit distinct tweet lines: the user is on   *)
(* one line of selected_users.txt only (sample() of line 22 draws          *)
(* distinct indices), and the positions of line 32 are distinct.  This is  *)
(* what the scan is asked to look up; when it finds every line (see        *)
(* LookupRefinement of TimelineScan, one-chunk regime) the user's timeline *)
(* partition has page_limit rows and the LIMIT page_limit SELECT of line   *)
(* 89 returns all of them.                                                 *)
(***************************************************************************)
WantedPagesFull ==
    pc = "done" =>
        \A u \in {selected[j].user : j \in DOMAIN selected} :
            /\ Len(Wanted(u)) = PageLimit
            /\ Cardinality({p[2] : p \in ToSet(Wanted(u))}) = PageLimit
====
