------------------------------- MODULE MCHub -------------------------------
\* Hub with a named caller of controls, for TLC.
EXTENDS Hub
CONSTANTS c1
=============================================================================
