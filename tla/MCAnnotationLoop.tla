-------------------------- MODULE MCAnnotationLoop --------------------------
(* The annotation loop with the script's own number_countries = 10.        *)
EXTENDS AnnotationLoop
=============================================================================
