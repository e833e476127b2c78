\* Two sensors and two annotations; up to three measurement rows in two
\* files against a cap of two, and a sample of two.
CONSTANTS
    Sensors = {"s1", "s2"}
    Annotations = {"UE", "EN"}
    MaxMeasurements = 2
    NumberPayload = 2
    MaxRows = 3
SPECIFICATION Spec
INVARIANT TypeOK
INVARIANT MeasurementIds
INVARIANT SensorlistMatchesData
INVARIANT PayloadSelectsInserted
CHECK_DEADLOCK FALSE
