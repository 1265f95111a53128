---------------------------- MODULE CalmReplication ----------------------------
(***************************************************************************)
(* The replication under the conditions its design relies on.  The code    *)
(* enforces none of them, and the violation runs show what happens without *)
(* them:                                                                   *)
(*   quiet clients   no request comes while the server synchronises or has *)
(*                   a membership waiting                                  *)
(*   calm network    a component is not split or merged before its         *)
(*                   servers have ended their last synchronisation         *)
(*   distinct maxima when a server elects the senders, no column that has  *)
(*                   to be sent has the maximum of an earlier column       *)
(*   running servers no server exits (with InitialBoards = Board none has  *)
(*                   a reason to)                                          *)
(***************************************************************************)
EXTENDS Replication, SequencesExt

Waiting(s, type) == \E i \in DOMAIN inbox[s] : inbox[s][i].type = type

QuietClients(s) == ~ syncOn[s] /\ ~ Waiting(s, "Memb")

Settled(s) ==
  \A t \in comp[s] :
    /\ pc[t] = "idle" /\ ~ syncOn[t]
    /\ \A i \in DOMAIN inbox[t] : inbox[t][i].type = "Update"

\* get_db has made no file: the boards are those there were at the start.
NoBoardCreated == \A s \in Server : DOMAIN db[s] = InitialBoards

DistinctMaxima(s) ==
  pc[s] = "idle" /\ pc'[s] = "sending" =>
    \A c \in Server : ~ TiedOut(InView(s, summary'[s]), c)

Requesting == \E s \in Server : QuietClients(s) /\ \E r \in ClientRequests : ClientRequest(s, r)

Partitioning ==
  \E s \in Server :
    /\ Settled(s)
    /\ \/ \E D \in SUBSET comp[s] : Split(s, D)
       \/ \E r \in Server : Settled(r) /\ Merge(s, r)

CalmNext ==
  \/ \E s \in Server : ServerStep(s) /\ DistinctMaxima(s)
  \/ Requesting
  \/ Partitioning

CalmSpec == Init /\ [][CalmNext]_vars

--------------------------------------------------------------------------------
(* Safety *)

AtRest(s) ==
  \A t \in comp[s] : pc[t] = "idle" /\ ~ syncOn[t] /\ inbox[t] = <<>>

\* Once partitions have healed and all messages are read, the servers of a
\* component have the same updates and the same vector.
AgreeAtRest ==
  \A s \in Server : AtRest(s) =>
    \A t \in comp[s] : Logged(s) = Logged(t) /\ server_lts[s] = server_lts[t]

Keys(file) == [i \in DOMAIN file |-> <<file[i].obj_id, file[i].server_index>>]

\* Where log q has an update of object k of board b, of one of the operations given.
LoggedAt(q, b, k, ops) ==
  {n \in DOMAIN q : /\ q[n].op \in ops /\ q[n].db_name = b
                    /\ <<q[n].obj_id, q[n].server_index>> = k}

\* No other server has changed the object than the one it was posted at.
ChangedAtHome(q, b, k) == \A n \in LoggedAt(q, b, k, {"e", "d"}) : q[n].server_id = k[2]

\* No deletion of the object is before it in the log.
MadeFirst(q, b, k) ==
  \A c \in LoggedAt(q, b, k, {"a"}), d \in LoggedAt(q, b, k, {"d"}) : c < d

\* A board has each object once, and both servers have the same.  They agree on
\* whether an object is deleted when both took it up before its deletion, and on its
\* text too when it was changed at home only.  send_updates resends column by column:
\* what another server did to an object may come before the object, and is lost.
SameObject(s, t, b, i, j) ==
  LET k == Keys(db[s][b])[i] IN
    /\ MadeFirst(log[s], b, k) /\ MadeFirst(log[t], b, k) =>
         db[s][b][i].status = db[t][b][j].status
    /\ ChangedAtHome(log[s], b, k) => db[s][b][i] = db[t][b][j]

SameObjects(s, t, b) ==
  /\ ToSet(Keys(db[s][b])) = ToSet(Keys(db[t][b]))
  /\ IsInjective(Keys(db[s][b]))
  /\ \A i \in DOMAIN db[s][b], j \in DOMAIN db[t][b] :
       Keys(db[s][b])[i] = Keys(db[t][b])[j] => SameObject(s, t, b, i, j)

\* ... and the same boards, with the same objects.
ObjectsAgreeAtRest ==
  \A s \in Server : AtRest(s) => \A t \in comp[s] :
    /\ DOMAIN db[s] = DOMAIN db[t]
    /\ \A b \in DOMAIN db[s] : SameObjects(s, t, b)

\* A vector never goes back: a server does not take up an update of an
\* originator after a later one.
VectorAdvances ==
  [][\A s, o \in Server : server_lts'[s][o] >= server_lts[s][o]]_vars

\* The clients of a server are told of every object update in its log: they have
\* been, or the message that makes the server do so is on its way to it.
ClientsTold ==
  \A s \in Server : \A u \in Logged(s) :
    u.entity_type = "OBJ" => u \in served[s] \cup Carried(s)

\* The records of originator o in a log q, in the order of the log: the k-th of them is
\* the one with k of them up to it.
Places(q, o) == {i \in DOMAIN q : q[i].server_id = o}
Rank(P, i) == Cardinality({j \in P : j <= i})
Nth(P, k) == CHOOSE i \in P : Rank(P, i) = k
OfOriginator(q, o) == [k \in 1 .. Cardinality(Places(q, o)) |-> q[Nth(Places(q, o), k)]]

\* The updates of each originator arrive in its order, without gap or repetition.
Abstract ==
  INSTANCE OriginOrder WITH known <- [s \in Server |-> [o \in Server |-> OfOriginator(log[s], o)]]
OriginOrderKept == Abstract!Spec

--------------------------------------------------------------------------------
(* Liveness *)

\* Every server goes on reading its messages and does not stop in a loop.  A
\* behaviour that comes to elect senders for tied columns is none of these: the
\* server would have to take a step that is not calm.
FairCalmSpec == CalmSpec /\ \A s \in Server : WF_vars(ServerStep(s))

\* Every synchronisation ends: each server gets all vectors and all SyncEnds.
SyncEnds == \A s \in Server : syncOn[s] ~> ~ syncOn[s]

\* When the clients and the network have done all they do, the servers of each
\* component come to have the same updates for good, and have told their clients.
Converges ==
  <>[](\A s \in Server : \A t \in comp[s] :
         /\ Logged(s) = Logged(t)
         /\ \A u \in Logged(s) : u.entity_type = "OBJ" => u \in served[t])
================================================================================
