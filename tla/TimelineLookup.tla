--------------------------- MODULE TimelineLookup ---------------------------
(***************************************************************************)
(* Abstract specification of prepare_timelines.py: what the chunked scan   *)
(* promises.  The wanted tweets are looked up in order; each one yields an *)
(* INSERT carrying its user and the uuid of its line, or, when the line    *)
(* lies past the end of the file, the run stops with 'Not all tweets       *)
(* found!'.  When every tweet has been found, each user gets one SELECT    *)
(* listing the uuids inserted for that user, in insertion order.           *)
(***************************************************************************)
EXTENDS Naturals, Sequences

CONSTANTS Users, NLines

VARIABLES wanted, inserts, selects, status

UuidOf(t) == << <<"id", t>> >>

\* The uuids inserted for user u, in order.
UuidsOf(u) ==
    LET IsU(x) == x[1] = u
        mine   == SelectSeq(inserts, IsU)
    IN  [k \in 1 .. Len(mine) |-> mine[k][2]]

Found ==
    /\ status = "running"
    /\ Len(inserts) < Len(wanted)
    /\ wanted[Len(inserts) + 1][2] < NLines
    /\ inserts' = Append(inserts, <<wanted[Len(inserts) + 1][1],
                                    UuidOf(wanted[Len(inserts) + 1][2])>>)
    /\ UNCHANGED <<wanted, selects, status>>

NotFound ==
    /\ status = "running"
    /\ Len(inserts) < Len(wanted)
    /\ wanted[Len(inserts) + 1][2] >= NLines
    /\ status' = "failed"
    /\ UNCHANGED <<wanted, inserts, selects>>

Finish ==
    /\ status = "running"
    /\ Len(inserts) = Len(wanted)
    /\ selects' = {<<u, UuidsOf(u)>> : u \in Users}
    /\ status' = "done"
    /\ UNCHANGED <<wanted, inserts>>

Init == inserts = << >> /\ selects = {} /\ status = "running"

Next == Found \/ NotFound \/ Finish

vars == <<wanted, inserts, selects, status>>

Spec == Init /\ [][Next]_vars /\ WF_vars(Next)
====
