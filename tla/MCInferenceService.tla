------------------------- MODULE MCInferenceService -------------------------
\* InferenceService on small sets, for TLC.
EXTENDS InferenceService

CONSTANTS q1, q2, f1    \* model values
=============================================================================
