\* The spec's exclusion rule for the annotation pool, against the loop.
CONSTANT NumberCountries = 10
SPECIFICATION Spec
INVARIANT SpecExcludesSecondToLast
CHECK_DEADLOCK FALSE
