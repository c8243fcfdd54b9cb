----------------------------- MODULE MCMonitor -----------------------------
EXTENDS Monitor

CONSTANTS s1, s2

NoPrefix == {}
=============================================================================
