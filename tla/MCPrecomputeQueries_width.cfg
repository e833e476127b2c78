\* fieldLength 4, shorter than the 'update' prefix: the width of update fields.
CONSTANTS
    R1 = R1
    RunIdArgs <- MCRunIds
    ReplFArgs = {R1}
    FieldLengths = {4}
    ModeArgs <- MCModesNone
    TimeSeeds = {5, 9}
    NTestsFull = 1
    NMeasureShort = 1
    NMeasureLong = 2
    NErrorFull = 1
    KeyWidth = 13
    MaxInvocations = 1
    NumberCountries = 10
SPECIFICATION Spec
INVARIANT SpecUpdateWidth
CHECK_DEADLOCK FALSE
