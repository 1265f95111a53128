--------------------------------- MODULE Claims ---------------------------------
(***************************************************************************)
(* What the comments and the design document promise and the code does not *)
(* keep.  Each claim is checked with the conditions of CalmReplication     *)
(* that have no part in its failure still in force.                        *)
(***************************************************************************)
EXTENDS CalmReplication

--------------------------------------------------------------------------------
(* Calm conditions, one of them lifted *)

\* Columns may have the same maximum when the senders are elected.
TiedSpec ==
  Init /\ [][\/ \E s \in Server : ServerStep(s)
             \/ Requesting
             \/ Partitioning]_vars

\* Clients do not wait for the end of a synchronisation.
EagerSpec ==
  Init /\ [][\/ \E s \in Server : ServerStep(s) /\ DistinctMaxima(s)
             \/ \E s \in Server : \E r \in ClientRequests : ClientRequest(s, r)
             \/ Partitioning]_vars

\* The network does not wait for the end of a synchronisation.
RestlessSpec ==
  /\ Init
  /\ [][\/ \E s \in Server : ServerStep(s)
        \/ Requesting
        \/ \E s \in Server : \E D \in SUBSET comp[s] : Split(s, D)
        \/ \E s, r \in Server : Merge(s, r)]_vars
  /\ \A s \in Server : WF_vars(ServerStep(s))

--------------------------------------------------------------------------------
(* Claims *)

\* sync.h: a request that comes during a synchronisation is buffered and the
\* server does not serve it until then.  So a request becomes one update.
AskedOnce ==
  \A s \in Server : \A u, v \in Logged(s) : u.obj = v.obj /\ u.obj > 0 => u = v

\* replication.c: when an object update arrives "The db file should have present":
\* an update of another server that is about to be applied finds its board.
BoardFilePresent ==
  \A s \in Server :
    Receives(s, "SyncUpdate") \/ (Receives(s, "Update") /\ ~ syncOn[s]) =>
      LET u == Head(inbox[s]).update IN u.server_id # s => ~ Fatal(s, u)

\* DesignDocument.pdf: after a partition heals the servers exchange the missing updates
\* and "will come to sync once message exchange is done".  So no server at rest goes on
\* showing an object after the server that was asked to delete it does not.
Shows(s, b) == {Keys(db[s][b])[i] : i \in {i \in DOMAIN db[s][b] : db[s][b][i].status}}
DeletedForAll ==
  \A s \in Server : AtRest(s) => \A u \in Logged(s) :
    u.op = "d" /\ u.server_id \in comp[s] =>
      LET k == <<u.obj_id, u.server_index>>
      IN k \in Shows(s, u.db_name) => k \in Shows(u.server_id, u.db_name)
================================================================================
