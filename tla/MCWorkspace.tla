----------------------------- MODULE MCWorkspace -----------------------------
\* Workspace on small sets, for TLC.
EXTENDS Workspace

CONSTANTS e1    \* model value
=============================================================================
