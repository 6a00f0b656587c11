---------------------------- MODULE MCSupervisor ----------------------------
\* Small instances of Supervisor for TLC.
EXTENDS Supervisor, TLC

CONSTANTS h1, c1
=============================================================================
