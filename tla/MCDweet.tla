------------------------------ MODULE MCDweet ------------------------------
(* Model-checking instance of Dweet; constants come from the cfg.          *)
EXTENDS Dweet
====
