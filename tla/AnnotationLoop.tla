--------------------------- MODULE AnnotationLoop ---------------------------
(***************************************************************************)
(* The annotation-combination loop of precompute-queries.py, lines 69-79,  *)
(* one iteration per step: c1, c2, c3 are the loop variables, pc the loop  *)
(* the program is in, annotations the global list the loop appends to.     *)
(* Each xrange loop has three outcomes per iteration: exhausted (return to *)
(* the enclosing loop), 'continue' (the c + 1 = number_countries skip) or  *)
(* enter the body.                                                         *)
(***************************************************************************)
EXTENDS AnnotationCombos

VARIABLES c1, c2, c3, pc, annotations

vars == <<c1, c2, c3, pc, annotations>>

Init ==
    /\ annotations = <<>>            \* annotations = list()
    /\ c1 = 0 /\ c2 = 0 /\ c3 = 0
    /\ pc = "c1"

\* Lines 72-73: 'continue' moves on to the next c1.
OuterSkip == c1' = c1 + 1

\* A slip: the skip as spec 4.1 words it, c2 the second-to-last index.
MiddleSkipSpec(c) == c + 2 = NumberCountries

\* Lines 75-76: the 'continue' test of the c2 loop.
MiddleSkip(c) == c + 1 = NumberCountries

\* A slip: xrange(c2 + 1, number_countries + 1).
InnerEndPastEnd == NumberCountries + 1

\* Line 77: the end of xrange(c2 + 1, number_countries).
InnerEnd == NumberCountries

\* for c1 in xrange(0, number_countries)
OuterLoop ==
    /\ pc = "c1"
    /\ \/ /\ c1 = NumberCountries
          /\ pc' = "done"
          /\ UNCHANGED <<c1, c2, c3, annotations>>
       \/ /\ c1 < NumberCountries /\ c1 + 1 = NumberCountries
          /\ OuterSkip
          /\ UNCHANGED <<c2, c3, pc, annotations>>
       \/ /\ c1 < NumberCountries /\ c1 + 1 # NumberCountries
          /\ c2' = c1 + 1
          /\ pc' = "c2"
          /\ UNCHANGED <<c1, c3, annotations>>

\* for c2 in xrange(c1 + 1, number_countries)
MiddleLoop ==
    /\ pc = "c2"
    /\ \/ /\ c2 = NumberCountries
          /\ c1' = c1 + 1
          /\ pc' = "c1"
          /\ UNCHANGED <<c2, c3, annotations>>
       \/ /\ c2 < NumberCountries /\ MiddleSkip(c2)
          /\ c2' = c2 + 1
          /\ UNCHANGED <<c1, c3, pc, annotations>>
       \/ /\ c2 < NumberCountries /\ ~MiddleSkip(c2)
          /\ c3' = c2 + 1
          /\ pc' = "c3"
          /\ UNCHANGED <<c1, c2, annotations>>

\* for c3 in xrange(c2 + 1, number_countries): annotations.append(...)
InnerLoop ==
    /\ pc = "c3"
    /\ \/ /\ c3 = InnerEnd
          /\ c2' = c2 + 1
          /\ pc' = "c2"
          /\ UNCHANGED <<c1, c3, annotations>>
       \/ /\ c3 < InnerEnd
          /\ annotations' = Append(annotations, <<c1, c2, c3>>)
          /\ c3' = c3 + 1
          /\ UNCHANGED <<c1, c2, pc>>

Next == OuterLoop \/ MiddleLoop \/ InnerLoop

\* The script runs the loop to its end: nothing else is scheduled meanwhile.
Spec == Init /\ [][Next]_vars /\ WF_vars(Next)

-----------------------------------------------------------------------------

TypeOK ==
    /\ {c1, c2, c3} \subseteq 0 .. NumberCountries
    /\ pc \in {"c1", "c2", "c3", "done"}
    /\ annotations \in Seq(Countries \X Countries \X Countries)

(***************************************************************************)
(* Refinement: the list the loop appends to behaves as the abstract pool,  *)
(* every append being the least triple still missing, and the pool being   *)
(* eventually complete.  In particular the 'continue' skips of lines 72-73 *)
(* and 75-76 drop no combination.                                          *)
(***************************************************************************)
Pool == INSTANCE AnnotationPool WITH pool <- annotations

PoolRefinement == Pool!Spec

(***************************************************************************)
(* Spec, section 4.1: the pool excludes every combination in which c1 or   *)
(* c2 is the second-to-last index.  Checked in a run expected to fail.     *)
(***************************************************************************)
SpecExcludesSecondToLast ==
    pc = "done" =>
        ToSet(annotations) = {t \in Triples : t[1] # NumberCountries - 2 /\ t[2] # NumberCountries - 2}
=============================================================================
