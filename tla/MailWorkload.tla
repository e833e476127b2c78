---------------------------- MODULE MailWorkload ----------------------------
(***************************************************************************)
(* precompute_mail.py from line 43 on: walk the maildir, group the mail    *)
(* files by user, parse each into header and body, then write the CREATE   *)
(* and INSERT files (plain and annotated), the mailbox SELECTs and a       *)
(* shuffled sample of mail SELECTs.  Line 16 formats cqlFile with one      *)
(* argument for two placeholders and raises IndexError; the model takes    *)
(* the output names as given and starts after it.                          *)
(*                                                                         *)
(* Data abstraction.  A mail file is the sequence of the lengths of its    *)
(* lines after line 89 strips and escapes them (0 is the empty line that   *)
(* ends the header).  Header and body are kept as their lengths; a mailbox *)
(* id is the user name it is computed from (line 68 is injective on the    *)
(* names it accepts).  Lengths are scaled: MaxPayload, TemplateLen (105    *)
(* in the code) and IdLen (36, a UUID) keep their roles and order.         *)
(***************************************************************************)
EXTENDS Naturals, Sequences, SequencesExt, FiniteSets

CONSTANTS
    MailFolder,      \* mailFolder split at '/' (line 11)
    Users,           \* the user directories of the maildir
    Contents,        \* possible mail files
    MaxFilesPerUser,
    NAnnotations,    \* len(annotations) = 10 (line 43)
    MaxMail,         \* maxMail (line 22), -1 for no limit
    SelectCount,     \* selectCount (line 14)
    MaxPayload,      \* maxPayload (line 21)
    TemplateLen,     \* len of the INSERT template of line 116
    IdLen            \* the 36 of line 116

Plus(a, b) == a + b

\* " ".join(lines): the lengths plus one space between two lines
JoinLen(ls) == IF ls = << >> THEN 0 ELSE FoldLeft(Plus, 0, ls) + Len(ls) - 1

\* Lines 84-97: header lines up to the first empty line, body after it.
HeaderBody(c) ==
    LET blank == {k \in 1 .. Len(c) : c[k] = 0}
        cut   == IF blank = {} THEN Len(c) + 1 ELSE Min(blank)
    IN  <<JoinLen(SubSeq(c, 1, cut - 1)), JoinLen(SubSeq(c, cut + 1, Len(c)))>>

\* len(s[:k])
SliceLen(n, k) ==
    IF k >= 0 THEN (IF n < k THEN n ELSE k)
    ELSE (IF n + k > 0 THEN n + k ELSE 0)

\* A slip: the UUID left out of query_length.
OvercutNoUuid(h, b) == TemplateLen + h + b - MaxPayload

\* Lines 116-117: overcut = query_length - maxPayload
Overcut(h, b) == TemplateLen + IdLen + h + b - MaxPayload

\* Lines 118-119: <<maxlen_header, maxlen_body>>, h0 and b0 being the
\* lengths before the [:maxPayload] cut.
Truncate(h0, b0) ==
    LET h    == SliceLen(h0, MaxPayload)
        b    == SliceLen(b0, MaxPayload)
        over == Overcut(h, b)
        mb   == b - (IF b > over THEN over ELSE 0)
    IN  <<h - (IF h > over /\ mb = b THEN over ELSE 0), mb>>

\* os.walk: each user's directory is walked as one block.
Walks ==
    LET PerUser == UNION {[1 .. n -> Contents] : n \in 1 .. MaxFilesPerUser}
    IN  {FlattenSeq([k \in 1 .. Len(o) |-> [j \in DOMAIN fs[o[k]] |-> <<o[k], fs[o[k]][j]>>]]) :
            o \in SetToSeqs(Users), fs \in [Users -> PerUser]}

\* A slip: 'mc >= maxMail', one mail short.
LimitedInclusive(n) == MaxMail # -1 /\ n >= MaxMail

\* Line 82: 'maxMail != -1 and mc > maxMail'
Limited(n) == MaxMail # -1 /\ n > MaxMail

\* m.user = file.split('/')[1] (line 66)
UserOf(dir) == (MailFolder \o <<dir, "inbox", "1.">>)[2]

VARIABLES
    walk,               \* mailFiles (lines 48-51), fixed by Init
    i, oldUser, mc,
    mails, mailboxes, userAnnotations,
    out,                \* output file name -> its lines
    pc

vars == <<walk, i, oldUser, mc, mails, mailboxes, userAnnotations, out, pc>>

Init ==
    /\ walk \in Walks
    /\ i = 0 /\ oldUser = "" /\ mc = 0
    /\ mails = << >> /\ mailboxes = {} /\ userAnnotations = << >>
    /\ out = << >>
    /\ pc = "read"

\* Lines 69-77: a file of a new user adds the user's mailbox and draws the
\* user's annotation (the uc counter and the prints are output only; skip
\* is never set True, so lines 78-79 never run).
Group(user) ==
    \/ /\ user # oldUser
       /\ mailboxes' = mailboxes \cup {user}
       /\ \E a \in 0 .. NAnnotations - 1 :
             userAnnotations' = (user :> a) @@ userAnnotations
    \/ /\ user = oldUser
       /\ UNCHANGED <<mailboxes, userAnnotations>>

\* Lines 63-98, one iteration: group, count, stop at maxMail (line 83),
\* or parse the file and append the mail.
ReadMail ==
    /\ pc = "read"
    /\ i < Len(walk)
    /\ LET user == UserOf(walk[i + 1][1])
           hb   == HeaderBody(walk[i + 1][2])
       IN  /\ Group(user)
           /\ oldUser' = user
           /\ mc' = mc + 1
           /\ \/ /\ Limited(mc + 1)
                 /\ pc' = "write"
                 /\ UNCHANGED <<i, mails>>
              \/ /\ ~Limited(mc + 1)
                 /\ mails' = Append(mails, [user |-> user, id |-> i + 1, mailbox |-> user,
                                            header |-> hb[1], body |-> hb[2]])
                 /\ i' = i + 1
                 /\ UNCHANGED pc
    /\ UNCHANGED <<walk, out>>

\* The loop of line 63 runs out of files.
EndRead ==
    /\ pc = "read"
    /\ i = Len(walk)
    /\ pc' = "write"
    /\ UNCHANGED <<walk, i, oldUser, mc, mails, mailboxes, userAnnotations, out>>

\* The INSERTs of one mail (lines 115-129); s = "" writes no annotation.
InsertsOf(s, m) ==
    LET t == Truncate(m.header, m.body)
        a == IF s = "" THEN -1 ELSE userAnnotations[m.user]
    IN  << [kind |-> "mailbox", box |-> m.mailbox, id |-> m.id,
            header |-> SliceLen(m.header, t[1]), annot |-> a],
           [kind |-> "mail", id |-> m.id, header |-> SliceLen(m.header, t[1]),
            body |-> SliceLen(m.body, t[2]), annot |-> a] >>

Schema == <<[kind |-> "keyspace"], [kind |-> "mailboxes"], [kind |-> "mails"]>>

\* Lines 107-129: the CREATE/INSERT file for s = "" and then "annot_".
WriteInserts ==
    /\ \/ pc = "write" /\ pc' = "annot"
       \/ pc = "annot" /\ pc' = "selects"
    /\ LET s == IF pc = "write" THEN "" ELSE "annot_"
       IN  out' = (s :> Schema \o FlattenSeq([k \in DOMAIN mails |-> InsertsOf(s, mails[k])]))
                  @@ out
    /\ UNCHANGED <<walk, i, oldUser, mc, mails, mailboxes, userAnnotations>>

\* Lines 133-136: one SELECT per mailbox, in set order.
SelectMailboxes ==
    /\ pc = "selects"
    /\ \E order \in SetToSeqs(mailboxes) : out' = ("i1" :> order) @@ out
    /\ pc' = "shuffle"
    /\ UNCHANGED <<walk, i, oldUser, mc, mails, mailboxes, userAnnotations>>

\* A slip: 'if i <= selectCount', one SELECT too many.
FirstSelectedPastCount(ms) == SubSeq(ms, 1, IF Len(ms) < SelectCount + 1 THEN Len(ms) ELSE SelectCount + 1)

\* Lines 146-151: the ids of the first selectCount mails.
FirstSelected(ms) == SubSeq(ms, 1, IF Len(ms) < SelectCount THEN Len(ms) ELSE SelectCount)

\* Lines 140-151: shuffle mails in place and SELECT the first selectCount.
SelectMails ==
    /\ pc = "shuffle"
    /\ \E order \in SetToSeqs(ToSet(mails)) :
          /\ mails' = order
          /\ out' = ("m1" :> [k \in DOMAIN FirstSelected(order) |-> FirstSelected(order)[k].id]) @@ out
    /\ pc' = "done"
    /\ UNCHANGED <<walk, i, oldUser, mc, mailboxes, userAnnotations>>

Next == ReadMail \/ EndRead \/ WriteInserts \/ SelectMailboxes \/ SelectMails

Spec == Init /\ [][Next]_vars

-----------------------------------------------------------------------------

TypeOK ==
    /\ walk \in Walks
    /\ i \in 0 .. Len(walk) /\ mc \in 0 .. Len(walk)
    /\ mailboxes \subseteq {UserOf(u) : u \in Users}
    /\ DOMAIN userAnnotations = mailboxes
    /\ \A m \in ToSet(mails) : m.header \in Nat /\ m.body \in Nat
    /\ pc \in {"read", "write", "annot", "selects", "shuffle", "done"}

\* The annotated mail INSERTs once written.
MailInserts(s) == IF s \in DOMAIN out THEN {r \in ToSet(out[s]) : r.kind = "mail"} ELSE {}

MailWithId(id) == CHOOSE m \in ToSet(mails) : m.id = id

\* Length of an annotated mail INSERT (the template of line 116).
QueryLen(r) == TemplateLen + IdLen + r.header + r.body

(***************************************************************************)
(* When the overcut can be taken from the body alone or from the header    *)
(* alone, the annotated mail INSERT of lines 128-129 stays within          *)
(* maxPayload, the limit line 21 says Cassandra imposes.                   *)
(***************************************************************************)
CutToPayload ==
    \A r \in MailInserts("annot_") :
        LET m    == MailWithId(r.id)
            h    == SliceLen(m.header, MaxPayload)
            b    == SliceLen(m.body, MaxPayload)
        IN  (h > Overcut(h, b) \/ b > Overcut(h, b)) => QueryLen(r) <= MaxPayload

(***************************************************************************)
(* Lines 81-83 stop reading after maxMail mails, and only then: when the   *)
(* SELECTs are written, the script has read min(maxMail, files) mails.     *)
(***************************************************************************)
MailsRead ==
    pc = "done" =>
        Len(mails) = IF MaxMail = -1 \/ MaxMail >= Len(walk) THEN Len(walk) ELSE MaxMail

(***************************************************************************)
(* The mail SELECTs of lines 140-151 ask for min(selectCount, mails)       *)
(* distinct mails, each of which both INSERT files insert.                 *)
(***************************************************************************)
SelectsInserted ==
    pc = "done" =>
        /\ Len(out["m1"]) = IF Len(mails) < SelectCount THEN Len(mails) ELSE SelectCount
        /\ Cardinality(ToSet(out["m1"])) = Len(out["m1"])
        /\ \A id \in ToSet(out["m1"]) :
              \A s \in {"", "annot_"} : \E r \in MailInserts(s) : r.id = id

(***************************************************************************)
(* Line 21: every annotated mail INSERT stays within maxPayload.           *)
(***************************************************************************)
QueryWithinPayload == \A r \in MailInserts("annot_") : QueryLen(r) <= MaxPayload
====
