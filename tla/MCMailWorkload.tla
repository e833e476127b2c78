--------------------------- MODULE MCMailWorkload ---------------------------
(* Model-checking instance of MailWorkload: a one-component mail folder,  *)
(* two users, and mail files whose header and body lengths exercise each  *)
(* branch of the truncation of lines 116-119 (payload 20, template 5,     *)
(* uuid 4).                                                                *)
EXTENDS MailWorkload

MCFolder == <<"maildir">>

\* fits exactly; header to cut; body to cut; body past maxPayload
MCContents == {<<5, 0, 6>>, <<6, 4, 0, 5>>, <<2, 0, 9, 3>>, <<1, 0, 25>>}

\* header and body both too long to absorb the overcut alone
MCContentsLong == {<<3, 0, 4>>, <<12, 0, 12>>}
\* maxMail = -1 (line 22): no limit
MCNoLimit == -1
====
