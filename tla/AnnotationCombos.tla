-------------------------- MODULE AnnotationCombos --------------------------
(***************************************************************************)
(* The pool of 'country' annotations that precompute-queries.py attaches   *)
(* to annotated INSERTs: one entry per combination (c1, c2, c3) of country *)
(* indices, built by the triple loop of lines 69-79.  This module holds    *)
(* the constant-level operators shared by the abstract pool, the loop and  *)
(* the generator; an entry is the triple itself (the WITH ANNOTATIONS      *)
(* text around it is layout and left out).                                 *)
(***************************************************************************)
EXTENDS Naturals, FiniteSets, Sequences, SequencesExt

CONSTANT NumberCountries        \* number_countries = 10 (line 69)

ASSUME NumberCountries \in Nat

Countries == 0 .. NumberCountries - 1

\* Reference definition: every strictly increasing triple of country indices.
Triples == {t \in Countries \X Countries \X Countries : t[1] < t[2] /\ t[2] < t[3]}

\* Lexicographic order on triples, the order in which nested loops visit them.
LexLess(s, t) ==
    \/ s[1] < t[1]
    \/ s[1] = t[1] /\ s[2] < t[2]
    \/ s[1] = t[1] /\ s[2] = t[2] /\ s[3] < t[3]

(***************************************************************************)
(* The list the loop of lines 71-79 builds, as an expression: for each c1  *)
(* (skipped when c1 + 1 = number_countries), for each c2 > c1 (skipped     *)
(* when c2 + 1 = number_countries), every c3 > c2 in increasing order.     *)
(***************************************************************************)
InnerRow(c1, c2) == [k \in 1 .. NumberCountries - 1 - c2 |-> <<c1, c2, c2 + k>>]

MiddleRow(c1) ==
    FlattenSeq([k \in 1 .. NumberCountries - 1 - c1 |->
                    IF c1 + k + 1 = NumberCountries THEN <<>> ELSE InnerRow(c1, c1 + k)])

AnnotationList ==
    FlattenSeq([k \in 1 .. NumberCountries |->
                    IF k = NumberCountries THEN <<>> ELSE MiddleRow(k - 1)])
=============================================================================
