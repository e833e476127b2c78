---------------------------- MODULE TimelineScan ----------------------------
(***************************************************************************)
(* The chunked scan of prepare_timelines.py (lines 26-90): the wanted      *)
(* tweets, sorted by line number, are looked up in tweets_clean.txt by     *)
(* reading it in chunks and counting line breaks; the uuid of each line    *)
(* found goes into a timeline INSERT, and then one pair of SELECTs is      *)
(* written per user.                                                       *)
(*                                                                         *)
(* Data abstraction.  A character of the file is a pair <<kind, line>>:    *)
(* line L is the characters "u" (user name), ";", "id" (the uuid, one      *)
(* token), ";", a body of 0 or more "b", and the line break "nl".  Offsets *)
(* are 0-based as in Python; Find and Slice are str.find and s[a:b].       *)
(***************************************************************************)
EXTENDS Naturals, Sequences, SequencesExt, FiniteSets, FiniteSetsExt

CONSTANTS
    Users,          \* the users of selected_users.txt
    NLines,         \* lines of tweets_clean.txt
    BodyLengths,    \* possible body lengths of a line
    NWanted,        \* number of (user, tweet line) pairs to look up
    MaxTweetId,     \* largest tweet line selected_users.txt may name
    ChunkSizes,     \* chunksize (line 22): 512 MiB, or less than the file
    SmallChunkSize  \* small_chunksize (line 23)

ASSUME ChunkSizes \subseteq Nat \ {0} /\ SmallChunkSize >= 1 /\ NWanted >= Cardinality(Users)

Line(L, b) ==
    <<<<"u", L>>, <<";", L>>, <<"id", L>>, <<";", L>>>>
        \o [k \in 1 .. b |-> <<"b", L>>] \o <<<<"nl", L>>>>

Files == {FlattenSeq([L \in 1 .. NLines |-> Line(L - 1, lens[L])]) :
            lens \in [1 .. NLines -> BodyLengths]}

\* sorted(conv_tweet_ids, key = lambda x: x[1]): sorted by line, every
\* user of selected_users.txt owning at least one entry (lines 7-20).
WantedLists ==
    {w \in [1 .. NWanted -> Users \X (0 .. MaxTweetId)] :
        /\ \A k \in 1 .. NWanted - 1 : w[k][2] <= w[k + 1][2]
        /\ {w[k][1] : k \in 1 .. NWanted} = Users}

IsBreak(c) == c[1] = "nl"

\* chunk.count('\n')
Breaks(s) == Len(SelectSeq(s, IsBreak))

\* chunk.find('\n', start)
Find(s, start) ==
    LET at == {k \in start + 1 .. Len(s) : IsBreak(s[k])}
    IN  IF at = {} THEN -1 ELSE Min(at) - 1

\* chunk[a:b] for a >= 0, b >= -1 (a negative b counts from the end)
Slice(s, a, b) ==
    LET e == IF b < 0 THEN Len(s) + b ELSE b
    IN  SubSeq(s, a + 1, IF e > Len(s) THEN Len(s) ELSE e)

\* data = line.split(';'); <<data[1]>>, or << >> when data[1] raises IndexError
SecondField(s) ==
    LET semis == {k \in 1 .. Len(s) : s[k][1] = ";"}
        rest  == IF semis = {} THEN <<>> ELSE SubSeq(s, Min(semis) + 1, Len(s))
        ends  == {k \in 1 .. Len(rest) : rest[k][1] = ";"}
    IN  IF semis = {} THEN << >>
        ELSE << IF ends = {} THEN rest ELSE SubSeq(rest, 1, Min(ends) - 1) >>

VARIABLES
    file, wanted, chunksize,          \* the inputs, fixed by Init
    ids,                              \* sorted_conv_tweet_ids still to do
    pos,                              \* position of f in the file
    chunk, nbreaks, break_ctr, consumed_breaks, chunk_offset, old_offset,
    smallchunk, small_nbreaks,
    next_user, next_tweet_id, iters,  \* iters: for-loop rounds left
    uuid,                             \* << >> while unbound, else <<uuid>>
    user_uuids, inserts, selects,
    pc

vars == <<file, wanted, chunksize, ids, pos, chunk, nbreaks, break_ctr, consumed_breaks,
          chunk_offset, old_offset, smallchunk, small_nbreaks, next_user,
          next_tweet_id, iters, uuid, user_uuids, inserts, selects, pc>>

\* f.read(n) at position p
Read(p, n) == SubSeq(file, p + 1, IF p + n > Len(file) THEN Len(file) ELSE p + n)

\* The position of f after a read at p returned c.
ReadPos(p, c) == p + Len(c)

scanVars == <<chunk_offset, old_offset, iters>>
smallVars == <<smallchunk, small_nbreaks>>
outVars == <<uuid, user_uuids, inserts, selects>>

Init ==
    /\ file \in Files
    /\ wanted \in WantedLists
    /\ chunksize \in ChunkSizes
    /\ ids = wanted
    /\ chunk = Read(0, chunksize)                       \* line 31
    /\ pos = ReadPos(0, chunk)
    /\ nbreaks = Breaks(chunk)                          \* line 32
    /\ break_ctr = 0 /\ consumed_breaks = 0
    /\ chunk_offset = 0 /\ old_offset = 0
    /\ smallchunk = <<>> /\ small_nbreaks = 0
    /\ next_user = "none" /\ next_tweet_id = 0 /\ iters = 0
    /\ uuid = << >>
    /\ user_uuids = << >>
    /\ inserts = << >> /\ selects = {}
    /\ pc = "pop"

\* A slip: xrange(next_tweet_id - consumed_breaks), one round short.
RoundsOffByOne == LET r == next_tweet_id - consumed_breaks IN IF r < 0 THEN 0 ELSE r

\* Rounds of 'for i in xrange(next_tweet_id - consumed_breaks + 1)'
Rounds == LET r == next_tweet_id - consumed_breaks + 1 IN IF r < 0 THEN 0 ELSE r

\* Line 42: f.read returned nothing, the file is exhausted.
ChunkEmpty(c) == Len(c) = 0

\* Lines 33-36: take the next wanted tweet; when none is left, close the
\* INSERT file (line 79) and go on to the SELECTs.
Pop ==
    /\ pc = "pop"
    /\ \/ /\ ids # << >>
          /\ next_user' = Head(ids)[1]
          /\ next_tweet_id' = Head(ids)[2]
          /\ ids' = Tail(ids)
          /\ pc' = "chunk"
       \/ /\ ids = << >>
          /\ pc' = "selects"
          /\ UNCHANGED <<ids, next_user, next_tweet_id>>
    /\ UNCHANGED <<file, wanted, chunksize, pos, chunk, nbreaks, break_ctr, consumed_breaks,
                   scanVars, smallVars, outVars>>

\* Lines 38-50: one round of the new-chunk loop, or its exit into the
\* small-chunk loop (line 50) or into the for loop (line 64).
NewChunk ==
    /\ pc = "chunk"
    /\ \/ /\ break_ctr + nbreaks < next_tweet_id
          /\ LET c == Read(pos, chunksize) IN
             \/ /\ ChunkEmpty(c)
                /\ pc' = "error"
                /\ UNCHANGED <<pos, chunk, break_ctr, consumed_breaks, scanVars>>
             \/ /\ ~ChunkEmpty(c)
                /\ consumed_breaks' = break_ctr
                /\ chunk' = c
                /\ pos' = ReadPos(pos, c)
                /\ break_ctr' = break_ctr + nbreaks
                /\ chunk_offset' = 0 /\ old_offset' = 0
                /\ UNCHANGED <<pc, iters>>
          /\ UNCHANGED smallVars
       \/ /\ break_ctr + nbreaks = next_tweet_id
          /\ smallchunk' = << >> /\ small_nbreaks' = 0
          /\ pc' = "small"
          /\ UNCHANGED <<pos, chunk, break_ctr, consumed_breaks, scanVars>>
       \/ /\ break_ctr + nbreaks > next_tweet_id
          /\ iters' = Rounds
          /\ pc' = "scan"
          /\ UNCHANGED <<pos, chunk, break_ctr, consumed_breaks, chunk_offset,
                         old_offset, smallVars>>
    /\ UNCHANGED <<file, wanted, chunksize, ids, nbreaks, next_user, next_tweet_id, outVars>>

\* Lines 53-61: read small chunks until one holds a line break, then append
\* them to the chunk and enter the for loop.
SmallChunk ==
    /\ pc = "small"
    /\ \/ /\ small_nbreaks = 0
          /\ LET c == Read(pos, SmallChunkSize) IN
             \/ /\ Len(c) = 0
                /\ pc' = "error"
                /\ UNCHANGED <<pos, smallVars>>
             \/ /\ Len(c) > 0
                /\ smallchunk' = smallchunk \o c
                /\ small_nbreaks' = small_nbreaks + Breaks(c)
                /\ pos' = ReadPos(pos, c)
                /\ UNCHANGED pc
          /\ UNCHANGED <<chunk, break_ctr, iters>>
       \/ /\ small_nbreaks # 0
          /\ chunk' = chunk \o smallchunk
          /\ break_ctr' = break_ctr + small_nbreaks
          /\ iters' = Rounds
          /\ pc' = "scan"
          /\ UNCHANGED <<pos, smallVars>>
    /\ UNCHANGED <<file, wanted, chunksize, ids, nbreaks, consumed_breaks, chunk_offset,
                   old_offset, next_user, next_tweet_id, outVars>>

\* Lines 64-67: one round of the for loop, skipping to the next line break.
Scan ==
    /\ pc = "scan"
    /\ iters > 0
    /\ old_offset' = chunk_offset + 1
    /\ chunk_offset' = Find(chunk, chunk_offset + 1)
    /\ consumed_breaks' = consumed_breaks + 1
    /\ iters' = iters - 1
    /\ UNCHANGED <<file, wanted, chunksize, ids, pos, chunk, nbreaks, break_ctr, smallVars,
                   next_user, next_tweet_id, pc, outVars>>

\* Lines 68-78: cut the line out, take its uuid and write the INSERT.  When
\* the line has no second field the except branch keeps the previous uuid
\* (and a first tweet without one ends in NameError).
Extract ==
    /\ pc = "scan"
    /\ iters = 0
    /\ LET f == SecondField(Slice(chunk, old_offset, chunk_offset)) IN
       \/ /\ f # << >>
          /\ uuid' = f
          /\ user_uuids' =
                IF next_user \in DOMAIN user_uuids
                THEN [user_uuids EXCEPT ![next_user] = Append(@, f[1])]
                ELSE (next_user :> f) @@ user_uuids
          /\ inserts' = Append(inserts, <<next_user, f[1]>>)
          /\ pc' = "pop"
       \/ /\ f = << >> /\ uuid # << >>
          /\ inserts' = Append(inserts, <<next_user, uuid[1]>>)
          /\ pc' = "pop"
          /\ UNCHANGED <<uuid, user_uuids>>
       \/ /\ f = << >> /\ uuid = << >>
          /\ pc' = "error"
          /\ UNCHANGED <<uuid, user_uuids, inserts>>
    /\ UNCHANGED <<file, wanted, chunksize, ids, pos, chunk, nbreaks, break_ctr,
                   consumed_breaks, scanVars, smallVars, next_user,
                   next_tweet_id, selects>>

\* Lines 81-90: one pair of SELECTs per index of 'users'; usernames[i]
\* raises IndexError when a user has no entry in user_uuids.  The shuffle
\* only orders the file, so the SELECTs are kept as a set.
Selects ==
    /\ pc = "selects"
    /\ \/ /\ DOMAIN user_uuids # Users
          /\ pc' = "error"
          /\ UNCHANGED selects
       \/ /\ DOMAIN user_uuids = Users
          /\ selects' = {<<u, user_uuids[u]>> : u \in Users}
          /\ pc' = "done"
    /\ UNCHANGED <<file, wanted, chunksize, ids, pos, chunk, nbreaks, break_ctr,
                   consumed_breaks, scanVars, smallVars, next_user,
                   next_tweet_id, uuid, user_uuids, inserts>>

Next == Pop \/ NewChunk \/ SmallChunk \/ Scan \/ Extract \/ Selects

\* One process and no input it waits on: every enabled step is taken.
Spec == Init /\ [][Next]_vars /\ WF_vars(Next)

-----------------------------------------------------------------------------

TypeOK ==
    /\ file \in Files /\ wanted \in WantedLists
    /\ pos \in 0 .. Len(file)
    /\ {break_ctr, consumed_breaks, nbreaks, small_nbreaks, iters} \subseteq Nat
    /\ chunk_offset \in -1 .. Len(file) /\ old_offset \in 0 .. Len(file) + 1
    /\ pc \in {"pop", "chunk", "small", "scan", "selects", "done", "error"}
    /\ DOMAIN user_uuids \subseteq Users

(***************************************************************************)
(* Reference: the INSERT written for the k-th wanted tweet names its user  *)
(* and the uuid of line next_tweet_id of the file, which is what the       *)
(* comments of lines 37 and 62 promise the chunk arithmetic finds.         *)
(***************************************************************************)
LookupCorrect ==
    \A k \in 1 .. Len(inserts) :
        inserts[k] = <<wanted[k][1], << <<"id", wanted[k][2]>> >> >>

(***************************************************************************)
(* Within the first chunk the arithmetic is right: as long as the chunk   *)
(* is still the one read at line 31 (possibly extended by the small-chunk *)
(* loop of lines 53-60), every INSERT carries the uuid of its wanted line, *)
(* duplicates and line 0 included.                                         *)
(***************************************************************************)
FirstChunkCorrect == IsPrefix(chunk, file) => LookupCorrect

(***************************************************************************)
(* Refinement: the scan implements TimelineLookup.  Every INSERT is the    *)
(* wanted tweet's uuid, a tweet past the end stops the run with            *)
(* RuntimeError, the run ends, and the SELECT lists of lines 85-90 hold    *)
(* exactly the uuids of the timeline INSERTs, none stale (line 78).  This  *)
(* is promised for the 512 MiB regime, a file the first chunk holds:       *)
(* OneChunk is fixed by Init, so the property is Lookup!Spec under that    *)
(* hypothesis.  Lookup's Next is enabled exactly while its status is       *)
(* "running" and can be taken only finitely often, so its weak fairness    *)
(* amounts to the scan stopping.                                           *)
(***************************************************************************)
Lookup == INSTANCE TimelineLookup
    WITH status <- CASE pc = "done"  -> "done"
                     [] pc = "error" -> "failed"
                     [] OTHER        -> "running"

OneChunk == chunksize >= Len(file)

LookupRefinement ==
    /\ OneChunk => Lookup!Init
    /\ [][OneChunk => Lookup!Next]_Lookup!vars
    /\ OneChunk => <>(pc \in {"done", "error"})

\* The script ends, by writing its SELECTs or by an exception.
Termination == <>(pc \in {"done", "error"})
====
