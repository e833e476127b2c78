--------------------------- MODULE MCSelectUsers ---------------------------
(* Model-checking instance of SelectUsers; constants come from the cfg.    *)
EXTENDS SelectUsers
====
