----------------------------- MODULE MCReplication -----------------------------
EXTENDS Replication
================================================================================
