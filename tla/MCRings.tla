-------------------------------- MODULE MCRings --------------------------------
EXTENDS Rings
================================================================================
