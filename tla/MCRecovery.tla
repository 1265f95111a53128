------------------------------- MODULE MCRecovery -------------------------------
EXTENDS Recovery
================================================================================
