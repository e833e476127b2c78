------------------------- MODULE PrecomputeQueries -------------------------
(***************************************************************************)
(* The synthetic workload generator src/eval/precompute-queries.py, run    *)
(* repeatedly by an operator in one working directory.  One invocation     *)
(* parses argv, seeds the random generator, builds the annotation pool and *)
(* then, for each category o in 0, c, r, u, d and each variant m (plain,   *)
(* annotated), truncates ${runId}_eval_cmds[_annot]_o.txt and writes its   *)
(* command lines one f.write at a time.  The process can be killed at any  *)
(* step; writes still in Python's file buffer are then lost.               *)
(*                                                                         *)
(* Data is abstracted: a key is its text as a sequence of tokens ("trn",   *)
(* "run", "id", "-", digit characters); a field is the update flag, the    *)
(* number of random characters and the position of the first of them in   *)
(* the stream of the generator seeded with `seed`; an annotation is the    *)
(* triple of country indices.  The record counts 50/1000/2000/50 are the   *)
(* constants NTestsFull, NMeasureShort, NMeasureLong and NErrorFull.       *)
(***************************************************************************)
EXTENDS Integers, AnnotationCombos

CONSTANTS
    RunIdArgs,      \* argv[1]: strings of digit characters
    ReplFArgs,      \* argv[2]: copied verbatim into the keyspace statement
    FieldLengths,   \* int(argv[3])
    ModeArgs,       \* argv[4:], as a sequence of words
    TimeSeeds,      \* seeds the interpreter picks when random.seed(0) is skipped
    NTestsFull, NMeasureShort, NMeasureLong, NErrorFull,
    KeyWidth,       \* the 13 of '{0:013d}'
    MaxInvocations  \* bound on the number of times the script is started

DigitChars == <<"0", "1", "2", "3", "4", "5", "6", "7", "8", "9">>

ASSUME RunIdArgs \subseteq Seq(ToSet(DigitChars)) \ {<<>>}
ASSUME FieldLengths \subseteq Int /\ TimeSeeds \subseteq Nat \ {0}
ASSUME {NTestsFull, NMeasureShort, NMeasureLong, NErrorFull, KeyWidth, MaxInvocations} \subseteq Nat

Cats == <<"0", "c", "r", "u", "d">>            \* line 81
LongTraffic == TRUE                            \* line 25
UpdatePrefix == 6                              \* len('update'), line 60
NFields == 10

Argv == [id : RunIdArgs, rf : ReplFArgs, fl : FieldLengths, rest : ModeArgs]

\* Lines 28-38: a mode word counts only when it is the single extra argument.
ModeIs(a, w) == Len(a.rest) = 1 /\ a.rest[1] = w
OnlyUpdates(a) == ModeIs(a, "updates")
LoadMeasurement(a) == ModeIs(a, "load")
LtMeasurement(a) == ModeIs(a, "load") \/ ModeIs(a, "traffic")

\* Lines 40-42.
NTests(a) == IF ~LtMeasurement(a) THEN NTestsFull ELSE 0
\* The count policy of spec 4.1: 2000 measurement records only in traffic mode.
NMeasureByMode(a) == IF ~ModeIs(a, "traffic") THEN NMeasureShort ELSE NMeasureLong
NMeasure(a) == IF ~LongTraffic THEN NMeasureShort ELSE NMeasureLong
NError(a) == IF ~LtMeasurement(a) THEN NErrorFull ELSE 0

\* int(s) for a string of decimal digits, and run = int(argv[1]) - 1 (line 47).
DigitOf(ch) == CHOOSE d \in 0 .. 9 : DigitChars[d + 1] = ch
ParseInt(s) == FoldLeft(LAMBDA acc, ch : 10 * acc + DigitOf(ch), 0, s)
Run(a) == ParseInt(a.id) - 1

\* '{}'.format(n) and '{0:1d}'.format(n): decimal, with a sign when negative.
RECURSIVE Digits(_)
Digits(n) == IF n < 10 THEN <<DigitChars[n + 1]>>
             ELSE Digits(n \div 10) \o <<DigitChars[(n % 10) + 1]>>
Str(n) == IF n < 0 THEN <<"-">> \o Digits(-n) ELSE Digits(n)

\* '{0:013d}'.format(i) for i >= 0: zero-padded to KeyWidth digits.
ZeroPad(n, w) == LET d == Digits(n) IN [k \in 1 .. w - Len(d) |-> "0"] \o d

\* getKeyID (lines 65-66) and the key written by every category.
GetKeyID(i, run, effective) == (IF effective THEN Str(run) ELSE <<"0">>) \o ZeroPad(i, KeyWidth)
\* A slip: the run left out of the 'trn{}id'/'run{}id' prefix.
KeyNoRunPrefix(tag, run, i, effective) == <<tag>> \o <<"id">> \o GetKeyID(i, run, effective)
Key(tag, run, i, effective) == <<tag>> \o Str(run) \o <<"id">> \o GetKeyID(i, run, effective)

\* Record j of a category: the nTests "trn" records, then nMeasure + nError "run" ones.
KeyOf(a, j) ==
    IF j < NTests(a) THEN Key("trn", Run(a), j, LtMeasurement(a))
    ELSE Key("run", Run(a), j - NTests(a), LtMeasurement(a))

\* A slip: the SELECT/DELETE loops run one record past the INSERT loop.
WritesSelectPastEnd(a, o) ==
    LET total == NTests(a) + NMeasure(a) + NError(a)
    IN CASE Cats[o] = "0" -> 1
         [] Cats[o] = "c" -> total
         [] Cats[o] = "u" -> IF ~LoadMeasurement(a) THEN total ELSE 0
         [] OTHER -> IF ~OnlyUpdates(a) /\ ~LoadMeasurement(a) THEN total + 1 ELSE 0

\* Number of f.write calls category o makes (lines 90-123).
Writes(a, o) ==
    LET total == NTests(a) + NMeasure(a) + NError(a)
    IN CASE Cats[o] = "0" -> 1
         [] Cats[o] = "c" -> total
         [] Cats[o] = "u" -> IF ~LoadMeasurement(a) THEN total ELSE 0
         [] OTHER -> IF ~OnlyUpdates(a) /\ ~LoadMeasurement(a) THEN total ELSE 0

\* The k-th value drawn from the generator seeded with s (abstract PRNG).
Draw(s, k) == (s * 7919 + k * 104729) % 1000003

\* range(length) with length < 0 is empty.
Chars(len) == IF len > 0 THEN len ELSE 0

\* getField (lines 59-62) for the 10 fields of one INSERT; `update` tags field0.
FieldsOf(update, s, k, fl) ==
    LET first == Chars(fl - (IF update THEN UpdatePrefix ELSE 0))
    IN [p \in 1 .. NFields |->
           IF p = 1 THEN [update |-> update, seed |-> s, from |-> k, n |-> first]
           ELSE [update |-> FALSE, seed |-> s, from |-> k + first + (p - 2) * Chars(fl), n |-> Chars(fl)]]
FieldDraws(update, fl) == Chars(fl - (IF update THEN UpdatePrefix ELSE 0)) + (NFields - 1) * Chars(fl)

Width(f) == (IF f.update THEN UpdatePrefix ELSE 0) + f.n

Path(a, m, o) == <<a.id, m, Cats[o]>>
Paths == RunIdArgs \X {0, 1} \X ToSet(Cats)
\* A slip: random.seed(0) of line 45 left out.
SeedAlwaysTime(a, s) == s

\* Lines 44-45: seed 0 unless load or traffic, else the interpreter's seed s.
SeedOf(a, s) == IF ~LtMeasurement(a) THEN 0 ELSE s

-----------------------------------------------------------------------------
VARIABLES
    disk,         \* path -> the lines of that file that reached the disk
    history,      \* argv and output files of every invocation that ran to its end
    invocations,  \* number of times the script was started
    phase,        \* "idle" (no process), "annot" (before line 69), "files" (line 81 on)
    argv, seed, draw, annotations,   \* the running process's globals
    o, m,         \* loop indices of lines 81-82 (o indexes Cats)
    opened,       \* the `with open(path, 'w')` block of (o, m) is entered
    j             \* records of category o already written to the open file

vars == <<disk, history, invocations, phase, argv, seed, draw, annotations, o, m, opened, j>>
Init ==
    /\ disk = [p \in Paths |-> <<>>]
    /\ history = {}
    /\ invocations = 0
    /\ phase = "idle"
    /\ argv = CHOOSE a \in Argv : TRUE
    /\ seed = 0 /\ draw = 0 /\ annotations = <<>>
    /\ o = 1 /\ m = 0 /\ opened = FALSE /\ j = 0

\* Lines 19-52: parse argv, fix the counts, and seed with 0 unless the mode is
\* load or traffic (the interpreter's own seed is then kept).
Start ==
    /\ phase = "idle"
    /\ invocations < MaxInvocations
    /\ \E a \in Argv, s \in TimeSeeds :
          /\ argv' = a
          /\ seed' = SeedOf(a, s)
    /\ invocations' = invocations + 1
    /\ phase' = "annot"
    /\ draw' = 0 /\ annotations' = <<>>
    /\ o' = 1 /\ m' = 0 /\ opened' = FALSE /\ j' = 0
    /\ UNCHANGED <<disk, history>>

\* Lines 69-79, whose result the AnnotationLoop run checks against the loop.
BuildAnnotations ==
    /\ phase = "annot"
    /\ annotations' = AnnotationList
    /\ phase' = "files"
    /\ UNCHANGED <<disk, history, invocations, argv, seed, draw, o, m, opened, j>>

OpenFile ==
    /\ phase = "files" /\ o <= Len(Cats) /\ ~opened
    /\ disk' = [disk EXCEPT ![Path(argv, m, o)] = <<>>]
    /\ opened' = TRUE
    /\ j' = 0
    /\ UNCHANGED <<history, invocations, phase, argv, seed, draw, annotations, o, m>>

\* A slip: the loop bound of lines 95-123 not checked before a write.
EmitUnbounded(c, line, n) ==
    /\ phase = "files" /\ opened /\ Cats[o] = c
    /\ disk' = [disk EXCEPT ![Path(argv, m, o)] = Append(@, line)]
    /\ draw' = draw + n
    /\ j' = j + 1
    /\ UNCHANGED <<history, invocations, phase, argv, seed, annotations, o, m, opened>>

\* One f.write of category c: append `line`, having drawn `n` random values.
Emit(c, line, n) ==
    /\ phase = "files" /\ opened /\ Cats[o] = c
    /\ j < Writes(argv, o)
    /\ disk' = [disk EXCEPT ![Path(argv, m, o)] = Append(@, line)]
    /\ draw' = draw + n
    /\ j' = j + 1
    /\ UNCHANGED <<history, invocations, phase, argv, seed, annotations, o, m, opened>>

\* getAnnot (lines 55-56): one draw picks an entry of the pool.
AnnotAt(k) == annotations[(Draw(seed, k) % Len(annotations)) + 1]

\* The annotated variant draws the annotation first, then the ten fields.
InsertLine(update) ==
    LET k == IF m = 1 THEN draw + 1 ELSE draw
    IN [op |-> "insert", key |-> KeyOf(argv, j),
        fields |-> FieldsOf(update, seed, k, argv.fl),
        annot |-> IF m = 1 THEN AnnotAt(draw) ELSE <<>>]

InsertDraws(update) == (IF m = 1 THEN 1 ELSE 0) + FieldDraws(update, argv.fl)

\* Line 91: keyspace and table creation, one write.
WriteSchema == Emit("0", [op |-> "schema", rf |-> argv.rf], 0)

\* Lines 94-100.
WriteInsert == Emit("c", InsertLine(FALSE), InsertDraws(FALSE))

\* Lines 103-107.
WriteSelect == Emit("r", [op |-> "select", key |-> KeyOf(argv, j)], 0)

\* Lines 110-116: an INSERT over the same key, field0 tagged 'update'.
WriteUpdate == Emit("u", InsertLine(TRUE), InsertDraws(TRUE))

\* Lines 119-123.
WriteDelete == Emit("d", [op |-> "delete", key |-> KeyOf(argv, j)], 0)

\* Leaving the with block closes the file; lines 81-82 move to the next (o, m).
CloseFile ==
    /\ phase = "files" /\ opened
    /\ j = Writes(argv, o)
    /\ opened' = FALSE
    /\ m' = 1 - m
    /\ o' = IF m = 1 THEN o + 1 ELSE o
    /\ UNCHANGED <<disk, history, invocations, phase, argv, seed, draw, annotations, j>>

Outputs == [mc \in {0, 1} \X ToSet(Cats) |-> disk[<<argv.id, mc[1], mc[2]>>]]

\* The loop of line 81 is done and the process exits.
Finish ==
    /\ phase = "files" /\ o > Len(Cats)
    /\ history' = history \cup {[argv |-> argv, files |-> Outputs]}
    /\ phase' = "idle"
    /\ UNCHANGED <<disk, invocations, argv, seed, draw, annotations, o, m, opened, j>>

\* The process is killed: the open file keeps only what was flushed.
Crash ==
    /\ phase # "idle"
    /\ disk' \in IF phase = "files" /\ opened
                  THEN LET p == Path(argv, m, o)
                       IN {[disk EXCEPT ![p] = SubSeq(@, 1, keep)] : keep \in 0 .. Len(disk[p])}
                  ELSE {disk}
    /\ phase' = "idle"
    /\ UNCHANGED <<history, invocations, argv, seed, draw, annotations, o, m, opened, j>>

Next ==
    \/ Start \/ BuildAnnotations \/ OpenFile
    \/ WriteSchema \/ WriteInsert \/ WriteSelect \/ WriteUpdate \/ WriteDelete
    \/ CloseFile \/ Finish \/ Crash

Spec == Init /\ [][Next]_vars
-----------------------------------------------------------------------------
TypeOK ==
    /\ DOMAIN disk = Paths
    /\ \A p \in Paths : \A k \in DOMAIN disk[p] : disk[p][k].op \in {"schema", "insert", "select", "delete"}
    /\ \A h \in history : h.argv \in Argv
    /\ invocations \in 0 .. MaxInvocations
    /\ phase \in {"idle", "annot", "files"}
    /\ argv \in Argv
    /\ o \in 1 .. Len(Cats) + 1 /\ m \in {0, 1} /\ opened \in BOOLEAN
    /\ opened => j \in 0 .. Writes(argv, o)

KeysOf(lines) == {lines[k].key : k \in {k \in DOMAIN lines : "key" \in DOMAIN lines[k]}}
FileKeys(h, mm, c) == KeysOf(h.files[<<mm, c>>])
RunKeys(h) == UNION {FileKeys(h, mm, c) : mm \in {0, 1}, c \in {"c", "r", "u", "d"}}

(***************************************************************************)
(* Reproducibility (spec 4.1, determinism rule): two invocations with the  *)
(* same argv in a mode other than load or traffic leave byte-identical     *)
(* output files, whatever ran or was killed between them.  Rests on        *)
(* random.seed(0) preceding every draw and on open(path, 'w') truncating.  *)
(***************************************************************************)
Reproducible ==
    \A h1, h2 \in history :
        h1.argv = h2.argv /\ ~LtMeasurement(h1.argv) => h1.files = h2.files

(***************************************************************************)
(* Runs do not collide: completed invocations for different run numbers    *)
(* int(argv[1]) - 1 write disjoint sets of keys, in every mode, although   *)
(* getKeyID embeds the placeholder '0' instead of the run outside          *)
(* load/traffic.                                                           *)
(***************************************************************************)
RunsDisjoint ==
    \A h1, h2 \in history :
        Run(h1.argv) # Run(h2.argv) => RunKeys(h1) \cap RunKeys(h2) = {}

(***************************************************************************)
(* Every key an invocation SELECTs, UPDATEs or DELETEs is one its create   *)
(* file INSERTs, in both variants: the loops of lines 103-123 revisit the  *)
(* keys of lines 94-100.                                                   *)
(***************************************************************************)
ReadKeysInserted ==
    \A h \in history, mm \in {0, 1}, c \in {"r", "u", "d"} :
        FileKeys(h, mm, c) \subseteq FileKeys(h, mm, "c")

(***************************************************************************)
(* The load/traffic workflow: a traffic invocation only touches rows that  *)
(* a load invocation of the same run inserted, so its SELECTs hit and its  *)
(* DELETEs remove data.  Depends on both modes sharing key derivation and  *)
(* record counts (lines 40-42).                                            *)
(***************************************************************************)
LoadCoversTraffic ==
    \A hl, ht \in history :
        LoadMeasurement(hl.argv) /\ ModeIs(ht.argv, "traffic") /\ Run(hl.argv) = Run(ht.argv)
            => \A c \in {"r", "u", "d"} : FileKeys(ht, 0, c) \subseteq FileKeys(hl, 0, "c")

(***************************************************************************)
(* Recovery from a killed invocation: an invocation that runs to its end   *)
(* leaves in each of its ten files exactly the lines it wrote, whatever a  *)
(* killed or earlier invocation of the same run id left there.             *)
(***************************************************************************)
CatIndex(c) == CHOOSE i \in 1 .. Len(Cats) : Cats[i] = c

-----------------------------------------------------------------------------
(* Claims of spec.md, each checked by a run expected to fail.               *)

(* Spec 8: every field of an update record is exactly fieldLength wide.     *)
SpecUpdateWidth ==
    \A h \in history, mm \in {0, 1} :
        LET u == h.files[<<mm, "u">>]
        IN \A k \in DOMAIN u : \A p \in 1 .. NFields : Width(u[k].fields[p]) = h.argv.fl
=============================================================================
