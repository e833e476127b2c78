------------------------------- MODULE Dweet -------------------------------
(***************************************************************************)
(* precompute_dweet.py from line 47 on: read the sensors and their message *)
(* sizes, drawing one annotation per sensor; read the measurements up to   *)
(* max_measurements into overview and data INSERTs (plain and annotated);  *)
(* write one overview SELECT per sensor that has data, then SELECTs of a   *)
(* random sample of measurement ids.  Line 46 calls the undefined Seeds()  *)
(* and raises NameError; the model starts after it.                        *)
(*                                                                         *)
(* Data abstraction.  A size-file row is its sensor (the size itself only  *)
(* feeds a print and the payload length).  A frequency-file row is its     *)
(* sensor and the format of its time stamp: "frac" parses with '%f',       *)
(* "plain" only without it, "bad" with neither.  A measurement id is the   *)
(* integer UUID(int=...) is built from.                                    *)
(***************************************************************************)
EXTENDS Naturals, Sequences, SequencesExt, FiniteSets

CONSTANTS
    Sensors,          \* sensor names
    Annotations,      \* available_annotations (line 42)
    MaxMeasurements,  \* max_measurements (line 13)
    NumberPayload,    \* number_payload (line 29)
    MaxRows           \* bound on the rows of all frequency files

TimeFormats == {"frac", "plain", "bad"}

\* The rows of the sorted '*-messagesizes.csv' files, one after the other.
SizeRows == UNION {[1 .. n -> Sensors] : n \in 1 .. 2}

\* The sorted '*-messagefrequency.csv' files: two files, at most MaxRows rows.
FreqFiles ==
    {fs \in [1 .. 2 -> UNION {[1 .. n -> Sensors \X TimeFormats] : n \in 0 .. MaxRows}] :
        Len(fs[1]) + Len(fs[2]) <= MaxRows}

VARIABLES
    sizeRows, freqFiles,              \* the inputs, fixed by Init
    sizes, annotations, counts,       \* sensor -> ... (lines 57-59)
    si, fi, ri,                       \* loop positions
    count_measurements,
    baseline, prada,                  \* the two setup files
    sensorlist, payload,              \* the two SELECT files
    pc

vars == <<sizeRows, freqFiles, sizes, annotations, counts, si, fi, ri,
          count_measurements, baseline, prada, sensorlist, payload, pc>>

Init ==
    /\ sizeRows \in SizeRows
    /\ freqFiles \in FreqFiles
    /\ sizes = {} /\ annotations = << >> /\ counts = << >>
    /\ si = 0 /\ fi = 1 /\ ri = 0
    /\ count_measurements = 0
    /\ baseline = << >> /\ prada = << >> /\ sensorlist = {} /\ payload = << >>
    /\ pc = "sizes"

\* Lines 66-69, one row: record the sensor, draw its annotation, zero its count.
ReadSize ==
    /\ pc = "sizes"
    /\ si < Len(sizeRows)
    /\ LET s == sizeRows[si + 1] IN
          /\ sizes' = sizes \cup {s}
          /\ \E a \in Annotations : annotations' = (s :> a) @@ annotations
          /\ counts' = (s :> 0) @@ counts
    /\ si' = si + 1
    /\ UNCHANGED <<sizeRows, freqFiles, fi, ri, count_measurements, baseline, prada,
                   sensorlist, payload, pc>>

Schema == <<[kind |-> "keyspace"], [kind |-> "table", name |-> "overview"], [kind |-> "table", name |-> "data"]>>

\* Lines 72-80: open both setup files and write the schema to each.
WriteSchema ==
    /\ pc = "sizes"
    /\ si = Len(sizeRows)
    /\ baseline' = Schema /\ prada' = Schema
    /\ pc' = "frequencies"
    /\ UNCHANGED <<sizeRows, freqFiles, sizes, annotations, counts, si, fi, ri,
                   count_measurements, sensorlist, payload>>

\* A slip: 'count_measurements > max_measurements', one measurement too many.
CapReachedLate(n) == n > MaxMeasurements

\* Line 86
CapReached(n) == n >= MaxMeasurements

\* A slip: the UUID built before the increment of line 88.
MeasurementIdBeforeIncrement(n) == n

\* measurement_id = UUID(int=count_measurements) after line 88
MeasurementId(n) == n + 1

\* INSERT of measurement id of sensor s, annotated with a ("": none).
Inserts(id, s, a) ==
    <<[kind |-> "overview", id |-> id, sensor |-> s, annot |-> a],
      [kind |-> "data", id |-> id, sensor |-> s, annot |-> a]>>

\* Lines 85-107, one row: the cap breaks out of this file (line 87);
\* otherwise the row becomes two INSERTs in each file, unless its time
\* stamp parses with neither format (ValueError) or its sensor has no size
\* (KeyError), which end the script after the count was raised.
ReadFrequency ==
    /\ pc = "frequencies"
    /\ fi <= 2
    /\ ri < Len(freqFiles[fi])
    /\ LET row == freqFiles[fi][ri + 1]
           s   == row[1]
           id  == MeasurementId(count_measurements)
       IN  \/ /\ CapReached(count_measurements)
              /\ fi' = fi + 1 /\ ri' = 0
              /\ UNCHANGED <<count_measurements, counts, baseline, prada, pc>>
           \/ /\ ~CapReached(count_measurements)
              /\ count_measurements' = count_measurements + 1
              /\ \/ /\ row[2] = "bad" \/ s \notin sizes
                    /\ pc' = "error"
                    /\ UNCHANGED <<fi, ri, counts, baseline, prada>>
                 \/ /\ row[2] # "bad" /\ s \in sizes
                    /\ counts' = [counts EXCEPT ![s] = @ + 1]
                    /\ baseline' = baseline \o Inserts(id, s, "")
                    /\ prada' = prada \o Inserts(id, s, annotations[s])
                    /\ ri' = ri + 1
                    /\ UNCHANGED <<fi, pc>>
    /\ UNCHANGED <<sizeRows, freqFiles, sizes, annotations, si, sensorlist, payload>>

\* The rows of a frequency file run out; the next file is opened.
EndFrequencyFile ==
    /\ pc = "frequencies"
    /\ fi <= 2
    /\ ri = Len(freqFiles[fi])
    /\ fi' = fi + 1 /\ ri' = 0
    /\ UNCHANGED <<sizeRows, freqFiles, sizes, annotations, counts, si,
                   count_measurements, baseline, prada, sensorlist, payload, pc>>

\* A slip: 'counts[sensor] >= 0', every sensor listed.
HasDataAny(n) == n >= 0

\* Line 117
HasData(n) == n > 0

\* Lines 115-125: an overview SELECT for every sensor with a measurement
\* (the order of the dict is irrelevant to the set written).
WriteSensorlist ==
    /\ pc = "frequencies"
    /\ fi = 3
    /\ sensorlist' = {s \in sizes : HasData(counts[s])}
    /\ pc' = "payload"
    /\ UNCHANGED <<sizeRows, freqFiles, sizes, annotations, counts, si, fi, ri,
                   count_measurements, baseline, prada, payload>>

\* A slip: range(0, count_measurements), which starts at an id never used.
SampleRangeFromZero(n) == 0 .. n - 1

\* range(1, count_measurements + 1)
SampleRange(n) == 1 .. n

\* Lines 131-134: sample number_payload distinct ids; a population smaller
\* than the sample raises ValueError (the file is already truncated).
WritePayload ==
    /\ pc = "payload"
    /\ \/ /\ NumberPayload > Cardinality(SampleRange(count_measurements))
          /\ pc' = "error"
          /\ UNCHANGED payload
       \/ /\ NumberPayload <= Cardinality(SampleRange(count_measurements))
          /\ \E ids \in SetToSeqs(SampleRange(count_measurements)) :
                payload' = SubSeq(ids, 1, NumberPayload)
          /\ pc' = "done"
    /\ UNCHANGED <<sizeRows, freqFiles, sizes, annotations, counts, si, fi, ri,
                   count_measurements, baseline, prada, sensorlist>>

Next == ReadSize \/ WriteSchema \/ ReadFrequency \/ EndFrequencyFile
        \/ WriteSensorlist \/ WritePayload

Spec == Init /\ [][Next]_vars

-----------------------------------------------------------------------------

TypeOK ==
    /\ sizes \subseteq Sensors
    /\ DOMAIN annotations = sizes /\ DOMAIN counts = sizes
    /\ count_measurements \in 0 .. MaxMeasurements
    /\ pc \in {"sizes", "frequencies", "payload", "done", "error"}

\* The ids of the INSERTs of one kind in a setup file, in file order.
IdsOf(f, kind) ==
    LET rows == SelectSeq(f, LAMBDA r : r.kind = kind)
    IN  [j \in DOMAIN rows |-> rows[j].id]

\* The sensors that have an overview INSERT in file f.
SensorsIn(f) == {f[j].sensor : j \in {j \in DOMAIN f : f[j].kind = "overview"}}

(***************************************************************************)
(* Measurement ids are 1 .. count_measurements, in order, each with one   *)
(* overview and one data INSERT in both setup files, the annotated ones    *)
(* carrying the one annotation drawn for the sensor: the ids line 133      *)
(* samples from are exactly the ids lines 89-107 inserted.                 *)
(***************************************************************************)
MeasurementIds ==
    pc # "error" =>
        /\ \A f \in {baseline, prada}, kind \in {"overview", "data"} :
              IdsOf(f, kind) = [j \in 1 .. count_measurements |-> j]
        /\ \A j \in DOMAIN prada :
              j > Len(Schema) => prada[j].annot = annotations[prada[j].sensor]

(***************************************************************************)
(* The sensorlist of lines 115-118 names exactly the sensors with an       *)
(* overview INSERT: no SELECT of an empty partition, none missing.         *)
(***************************************************************************)
SensorlistMatchesData ==
    pc \in {"payload", "done"} => sensorlist = SensorsIn(baseline)

(***************************************************************************)
(* The payload SELECTs of lines 131-134 ask for number_payload distinct    *)
(* measurements, each of which both setup files insert.                    *)
(***************************************************************************)
PayloadSelectsInserted ==
    pc = "done" =>
        /\ Len(payload) = NumberPayload
        /\ Cardinality(ToSet(payload)) = NumberPayload
        /\ \A id \in ToSet(payload) :
              id \in ToSet(IdsOf(baseline, "data")) /\ id \in ToSet(IdsOf(prada, "data"))
====
