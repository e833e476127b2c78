--------------------------- MODULE MCTimelineScan ---------------------------
(* Model-checking instance of TimelineScan; constants come from the cfg.   *)
EXTENDS TimelineScan
====
