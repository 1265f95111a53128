-------------------------------- MODULE MCClaims --------------------------------
EXTENDS Claims
=================================================================================
