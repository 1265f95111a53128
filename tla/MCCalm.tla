--------------------------------- MODULE MCCalm ---------------------------------
EXTENDS CalmInvariant
=================================================================================
