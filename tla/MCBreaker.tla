----------------------------- MODULE MCBreaker -----------------------------
\* Breaker on a small set of handlers, for TLC.
EXTENDS Breaker

CONSTANTS h1, h2, h3    \* model values
=============================================================================
