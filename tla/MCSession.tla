------------------------------- MODULE MCSession -------------------------------
EXTENDS SessionInvariant
================================================================================
