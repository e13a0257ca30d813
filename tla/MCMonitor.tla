------------------------------ MODULE MCMonitor ------------------------------
\* A short trace and one page, for TLC.
EXTENDS Monitor
=============================================================================
