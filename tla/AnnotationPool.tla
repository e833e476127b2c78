--------------------------- MODULE AnnotationPool ---------------------------
(***************************************************************************)
(* Abstract specification of the annotation pool: what the combination    *)
(* loop of precompute-queries.py promises to the rest of the script.  The  *)
(* pool grows one entry at a time, each entry the lexicographically least  *)
(* triple not yet in it, until every increasing triple of countries is in  *)
(* it exactly once.  getAnnot() draws uniformly from it, so its size and   *)
(* order fix which annotation a seeded run attaches to each record.        *)
(***************************************************************************)
EXTENDS AnnotationCombos

VARIABLE pool

Missing == Triples \ ToSet(pool)

NextTriple == CHOOSE t \in Missing : \A u \in Missing \ {t} : LexLess(t, u)

Add ==
    /\ Missing # {}
    /\ pool' = Append(pool, NextTriple)

Init == pool = <<>>

Next == Add

Spec == Init /\ [][Next]_pool /\ WF_pool(Next)
=============================================================================
