------------------------------- MODULE MCDesk -------------------------------
\* Desk on small sets, for TLC.
EXTENDS Desk

CONSTANTS f1, words, none    \* model values
=============================================================================
