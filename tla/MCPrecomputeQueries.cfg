\* Two invocations over run ids 1 and 2 in every mode, fieldLength 7,
\* counts 50/1000/2000/50 scaled to 1/1/2/1, kills at every step.
CONSTANTS
    R1 = R1
    RunIdArgs <- MCRunIds
    ReplFArgs = {R1}
    FieldLengths = {7}
    ModeArgs <- MCModes
    TimeSeeds = {5, 9}
    NTestsFull = 1
    NMeasureShort = 1
    NMeasureLong = 2
    NErrorFull = 1
    KeyWidth = 13
    MaxInvocations = 2
    NumberCountries = 10
SPECIFICATION Spec
INVARIANT TypeOK
INVARIANT Reproducible
INVARIANT RunsDisjoint
INVARIANT ReadKeysInserted
INVARIANT LoadCoversTraffic
 
\* After the last allowed invocation the operator stops.
CHECK_DEADLOCK FALSE
