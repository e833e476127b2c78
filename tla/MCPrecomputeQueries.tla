------------------------ MODULE MCPrecomputeQueries ------------------------
(* Small instances of the generator: argv values, seeds and record counts. *)
EXTENDS PrecomputeQueries

CONSTANTS R1    \* a replication-factor argument

\* Two run ids.
MCRunIds == {<<"1">>, <<"2">>}
\* No mode word, and each mode word.
MCModes == {<<>>, <<"updates">>, <<"load">>, <<"traffic">>}
MCModesNone == {<<>>}
=============================================================================
