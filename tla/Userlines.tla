----------------------------- MODULE Userlines -----------------------------
(***************************************************************************)
(* prepare_userlines.py: for every user of users_maxoffsets.txt draw a     *)
(* random page offset, fetch that page of the user's tweets from           *)
(* tweets_clean.txt with fgrep, write one userline INSERT per tweet, and   *)
(* then, in shuffled order, one pair of SELECTs per user.                  *)
(*                                                                         *)
(* Data abstraction.  A user name is a sequence of letters.  The tweet     *)
(* file is the sequence of the owners of its lines; the uuid of line j is  *)
(* <<"id", j>>.  fgrep is taken as its result: the lines that contain  *)
(* 'name;00000000-0000-'.  The pattern can only start inside the owner     *)
(* field, right before the uuid, so a line matches exactly when the name   *)
(* is a suffix of the line's owner (bodies are taken not to contain it).   *)
(* number_tweets of users_maxoffsets.txt is the user's own tweet count.    *)
(***************************************************************************)
EXTENDS Naturals, Sequences, SequencesExt, FiniteSets

CONSTANTS
    Names,          \* user names, as sequences of letters
    NTweets,        \* lines of tweets_clean.txt
    PageLimit,      \* page_limit (line 8)
    TestPageLimit   \* page_limit with the argument 'test' (line 10)

\* Number of lines of file f owned by name u.
OwnCount(f, u) == Cardinality({j \in DOMAIN f : f[j] = u})

\* users_maxoffsets.txt: distinct users, each with its tweet count.
UserFiles(f) ==
    {[j \in DOMAIN o |-> [name |-> o[j], n |-> OwnCount(f, o[j])]] :
        o \in UNION {SetToSeqs(S) : S \in SUBSET Names \ {{}}}}

\* popen('fgrep -m ' + str(m) + ' "' + u + ';00000000-0000-" ' + tweets_filename):
\* the first m lines (by line number) containing the pattern.
Fgrep(f, u, m) ==
    LET hits == SelectSeq([j \in 1 .. Len(f) |-> j], LAMBDA j : IsSuffix(u, f[j]))
    IN  SubSeq(hits, 1, IF Len(hits) < m THEN Len(hits) ELSE m)

\* s[a:b] for 0 <= a <= b
Slice(s, a, b) == SubSeq(s, a + 1, IF b > Len(s) THEN Len(s) ELSE b)

VARIABLES
    file, userFile,     \* the inputs, fixed by Init
    pageLimit,
    k,                  \* index of the for loops of lines 22 and 31
    users,              \* list of (username, offset), line 27
    inserts,            \* userline INSERTs as <<username, uuid>>
    user_uuids,         \* username -> userline_uuids
    selects,            \* SELECT pairs, in file order
    pc

vars == <<file, userFile, pageLimit, k, users, inserts, user_uuids, selects, pc>>

Init ==
    /\ file \in [1 .. NTweets -> Names]
    /\ userFile \in UserFiles(file)
    /\ pageLimit \in {PageLimit, TestPageLimit}
    /\ k = 0
    /\ users = << >> /\ inserts = << >> /\ user_uuids = << >> /\ selects = << >>
    /\ pc = "offsets"

\* A slip: randrange read as inclusive of its end.
OffsetRangeInclusive(n) == 0 .. (n - pageLimit) + 1

\* randrange(0, (number_tweets - page_limit) + 1)
OffsetRange(n) == 0 .. n - pageLimit

\* Lines 23-27, one user: draw the offset; an empty range raises ValueError.
DrawOffset ==
    /\ pc = "offsets"
    /\ k < Len(userFile)
    /\ LET u == userFile[k + 1] IN
       \/ /\ OffsetRange(u.n) = {}
          /\ pc' = "error"
          /\ UNCHANGED <<k, users>>
       \/ /\ \E off \in OffsetRange(u.n) : users' = Append(users, <<u.name, off>>)
          /\ k' = k + 1
          /\ UNCHANGED pc
    /\ UNCHANGED <<file, userFile, pageLimit, inserts, user_uuids, selects>>

EndOffsets ==
    /\ pc = "offsets"
    /\ k = Len(userFile)
    /\ k' = 0
    /\ pc' = "inserts"
    /\ UNCHANGED <<file, userFile, pageLimit, users, inserts, user_uuids, selects>>

\* tweet.split(';')[i] of line j: field 0 is the owner, field 1 the uuid.
TweetField(j, i) == IF i = 0 THEN file[j] ELSE <<"id", j>>

\* A slip: the user name field taken for the uuid.
UuidFirstField(j) == TweetField(j, 0)

\* uuid = tweet.split(';')[1] (line 36)
Uuid(j) == TweetField(j, 1)

\* A slip: userline_uuids = [] hoisted out of the loop, so it keeps the
\* uuids of the users before.
UserlineNotReset(prior, page) == prior \o page

\* userline_uuids after the loop of lines 35-38 (reset at line 32).
UserlineUuids(prior, page) == page

\* Lines 32-45, one user: fetch offset + page_limit matching lines, keep
\* the page [offset : offset + page_limit], INSERT each of its uuids.
WriteUserline ==
    /\ pc = "inserts"
    /\ k < Len(users)
    /\ LET u     == users[k + 1]
           page  == Slice(Fgrep(file, u[1], u[2] + pageLimit), u[2], u[2] + pageLimit)
           uuids == [j \in DOMAIN page |-> Uuid(page[j])]
           prior == [j \in DOMAIN inserts |-> inserts[j][2]]
       IN  /\ inserts' = inserts \o [j \in DOMAIN uuids |-> <<u[1], uuids[j]>>]
           /\ user_uuids' = (u[1] :> UserlineUuids(prior, uuids)) @@ user_uuids
    /\ k' = k + 1
    /\ UNCHANGED <<file, userFile, pageLimit, users, selects, pc>>

EndUserlines ==
    /\ pc = "inserts"
    /\ k = Len(users)
    /\ pc' = "selects"
    /\ UNCHANGED <<file, userFile, pageLimit, k, users, inserts, user_uuids, selects>>

\* Lines 47-55: shuffled indices into user_uuids.keys(); per user the
\* userline SELECT (LIMIT page_limit) and the tweets SELECT of its uuids.
WriteSelects ==
    /\ pc = "selects"
    /\ \E order \in SetToSeqs(DOMAIN user_uuids) :
          selects' = [j \in DOMAIN order |->
                        [user |-> order[j], limit |-> pageLimit, ids |-> user_uuids[order[j]]]]
    /\ pc' = "done"
    /\ UNCHANGED <<file, userFile, pageLimit, k, users, inserts, user_uuids>>

Next == DrawOffset \/ EndOffsets \/ WriteUserline \/ EndUserlines \/ WriteSelects

Spec == Init /\ [][Next]_vars

-----------------------------------------------------------------------------

UuidSet == {<<"id", j>> : j \in 1 .. NTweets}

TypeOK ==
    /\ k \in 0 .. Len(userFile)
    /\ \A ins \in ToSet(inserts) : ins[1] \in Names /\ ins[2] \in UuidSet
    /\ \A u \in DOMAIN user_uuids : u \in Names /\ ToSet(user_uuids[u]) \subseteq UuidSet
    /\ pc \in {"offsets", "inserts", "selects", "done", "error"}

\* The uuids the INSERTs put into u's userline partition.
Partition(u) == {ins[2] : ins \in {x \in ToSet(inserts) : x[1] = u}}

(***************************************************************************)
(* Line 26's promise: whatever offset randrange draws, every user's page   *)
(* is full, page_limit tweets, when the script completes.                  *)
(***************************************************************************)
PageFull ==
    pc = "done" => \A u \in DOMAIN user_uuids : Len(user_uuids[u]) = pageLimit

(***************************************************************************)
(* The two SELECTs of lines 54-55 agree with the INSERTs of line 37: every *)
(* user gets exactly one pair, its tweets SELECT names exactly the tweets  *)
(* of its userline partition, and the partition holds no more than the    *)
(* LIMIT page_limit of its userline SELECT returns.                        *)
(***************************************************************************)
SelectsMatchUserline ==
    pc = "done" =>
        /\ Len(selects) = Len(userFile)
        /\ {userFile[i].name : i \in DOMAIN userFile} = {selects[j].user : j \in DOMAIN selects}
        /\ \A j \in DOMAIN selects :
              /\ ToSet(selects[j].ids) = Partition(selects[j].user)
              /\ Cardinality(Partition(selects[j].user)) <= selects[j].limit

(***************************************************************************)
(* A user's userline holds the user's own tweets: the comment of line 26   *)
(* and the SELECT of line 54 treat the page as the user's tweets.          *)
(***************************************************************************)
PageOwnTweets == \A ins \in ToSet(inserts) : file[ins[2][2]] = ins[1]
====
