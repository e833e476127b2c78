---------------------------- MODULE MCUserlines ----------------------------
(* Model-checking instance of Userlines.  "b" is a suffix of "jb", so     *)
(* fgrep for b also matches the lines of jb; "j" is a prefix of "jb" but   *)
(* the ';' of the pattern keeps it from matching them.                     *)
EXTENDS Userlines

MCNames == {<<"b">>, <<"j", "b">>, <<"j">>}
====
