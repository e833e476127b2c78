\* The loop of lines 69-79 with number_countries = 10 (120 combinations).
CONSTANT NumberCountries = 10
SPECIFICATION Spec
INVARIANT TypeOK
PROPERTY PoolRefinement
\* The loop ends: the final state is the script leaving it.
CHECK_DEADLOCK FALSE
