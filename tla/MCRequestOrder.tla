--------------------------- MODULE MCRequestOrder ---------------------------
\* Small instances of RequestOrder for TLC.
EXTENDS RequestOrder, TLC

CONSTANTS h1, c1
=============================================================================
