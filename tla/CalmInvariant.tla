----------------------------- MODULE CalmInvariant -----------------------------
(***************************************************************************)
(* Why the calm replication agrees: the inductive invariant behind the     *)
(* safety properties of CalmReplication.                                   *)
(*                                                                         *)
(* The first part says where each server is in a synchronisation and what  *)
(* may then wait in its inbox, the second how logs, vectors and inboxes    *)
(* fit together, the third what the vectors exchanged promise, the fourth  *)
(* what clients and boards get, the last in which order logs have updates. *)
(***************************************************************************)
EXTENDS CalmReplication

--------------------------------------------------------------------------------
(* The phases of a synchronisation *)

\* The server has exited, and its component does without it.
Gone(s) == ~ up[s] /\ comp[s] = {s}

\* No membership waits: the server acts in the component it is in.
Fresh(s) == ~ Waiting(s, "Memb") /\ ~ Gone(s)

\* It knows that the component has several members ...
Joined(s) == Fresh(s) /\ num_memb[s] > 1

\* ... has the vectors of all of them ...
Started(s) == Joined(s) /\ vector_rcvd[s] = num_memb[s]

\* ... and has sent all it was elected to send.
Finished(s) == Started(s) /\ pc[s] = "idle"
FinishedOf(s) == {t \in comp[s] : Finished(t)}
AllFinished(s) == \A t \in comp[s] : Finished(t)

\* No synchronisation is on or about to be: clients may make requests.
Live(s) == Fresh(s) /\ ~ syncOn[s]

--------------------------------------------------------------------------------
(* Sequences of messages *)

Positions(q, type) == {i \in DOMAIN q : q[i].type = type}
Carries(m) == m.type \in {"Update", "SyncUpdate"}
OnlyUpdates(q) == \A i \in DOMAIN q : q[i].type = "Update"

\* The membership, if there is one, names the component; before it are updates of
\* the last component, behind it vectors.
AroundMemb(q, C) ==
  \A i \in Positions(q, "Memb") :
    /\ q[i].members = C
    /\ \A j \in DOMAIN q : /\ j < i => q[j].type = "Update"
                           /\ j > i => q[j].type = "Vector"

OneVectorEach(q) ==
  \A i, j \in Positions(q, "Vector") : i # j => q[i].server_index # q[j].server_index

\* Behind an ordinary update are ordinary updates only.
UpdatesLast(q) ==
  \A i \in Positions(q, "Update"), j \in DOMAIN q : i < j => q[j].type = "Update"

EndFollows(q) ==
  \A i \in Positions(q, "SyncUpdate") : \E j \in Positions(q, "SyncEnd") : i < j

\* What precedes an update at its originator, a server already has or reads before.
GapFree(q, have, known) ==
  \A i \in DOMAIN q : Carries(q[i]) =>
    \A w \in known : w.server_id = q[i].update.server_id /\ w.lts < q[i].update.lts =>
      w \in have \/ \E j \in DOMAIN q : j < i /\ Carries(q[j]) /\ q[j].update = w

\* An ordinary update comes after all older ones of its originator.
Ascends(q) ==
  \A i \in Positions(q, "Update"), j \in DOMAIN q :
    j < i /\ Carries(q[j]) /\ q[j].update.server_id = q[i].update.server_id =>
      q[j].update.lts < q[i].update.lts

--------------------------------------------------------------------------------
(* Where the servers are *)

Components ==
  \A s \in Server : s \in comp[s] /\ \A t \in comp[s] : comp[t] = comp[s]

\* No server has a buffered request, and all have the same boards.
Undisturbed ==
  /\ NoBoardCreated
  /\ \A s \in Server : queue[s] = <<>> /\ pc[s] \in {"idle", "sending"}

MembOK ==
  \A s \in Server : /\ AroundMemb(inbox[s], comp[s])
                    /\ ~ Fresh(s) => ~ syncOn[s] /\ pc[s] = "idle"

CountOK ==
  \A s \in Server : /\ Fresh(s) => num_memb[s] = Cardinality(comp[s])
                    /\ syncOn[s] => num_memb[s] > 1

LiveOK ==
  \A s \in Server : Live(s) =>
    /\ pc[s] = "idle" /\ OnlyUpdates(inbox[s])
    /\ num_memb[s] > 1 => AllFinished(s)

JobOK ==
  \A s \in Server :
    /\ pc[s] = "sending" => Started(s) /\ syncOn[s]
    /\ job[s] # {} => pc[s] = "sending"
    /\ \A p \in job[s] : Sender(summary[s], p[1]) = s

\* The rows are the vectors of members that have read the membership.
RowsOK ==
  \A s \in Server : Joined(s) =>
    /\ vector_rcvd[s] = Cardinality(DOMAIN summary[s])
    /\ server_view[s] = DOMAIN summary[s]
    /\ \A r \in DOMAIN summary[s] : r \in comp[s] /\ Joined(r)

\* The vectors on their way are of such members too, and are no rows yet.
VectorsOK ==
  \A s \in Server :
    /\ OneVectorEach(inbox[s])
    /\ \A i \in Positions(inbox[s], "Vector") :
         /\ inbox[s][i].server_index \in comp[s]
         /\ Joined(inbox[s][i].server_index)
         /\ Joined(s) => inbox[s][i].server_index \notin DOMAIN summary[s]

\* The SyncEnds read and on their way are as many as the members that have finished.
EndsOK ==
  \A s \in Server : syncOn[s] =>
    /\ syncEnd_rcvd[s] < num_memb[s]
    /\ syncEnd_rcvd[s] + Cardinality(Positions(inbox[s], "SyncEnd")) = Cardinality(FinishedOf(s))

\* A server in a synchronisation finds updates made after it behind the last SyncEnd.
AfterEndsOK ==
  \A s \in Server : syncOn[s] =>
    /\ UpdatesLast(inbox[s])
    /\ \A i \in Positions(inbox[s], "Update") :
         /\ AllFinished(s)
         /\ inbox[s][i].update.server_id \in comp[s]
         /\ Live(inbox[s][i].update.server_id)
    /\ AllFinished(s) => EndFollows(inbox[s])

ControlInv ==
  /\ Components /\ Undisturbed /\ MembOK /\ CountOK /\ LiveOK /\ JobOK
  /\ RowsOK /\ VectorsOK /\ EndsOK /\ AfterEndsOK

--------------------------------------------------------------------------------
(* Logs, vectors and inboxes *)

ObjectsOnly ==
  \A u \in Known : u.entity_type = "OBJ" /\ u.db_name \in InitialBoards /\ u.lts > 0

\* The counters of an originator are past what the vectors of others say of it.
VectorWithin ==
  \A s, o \in Server : /\ server_lts[s][o] <= lts[o]
                       /\ server_updates[s][o] <= update_seq[o]

\* A log has, of each originator, the updates up to the entry of the vector.
LogIsPrefix ==
  \A s \in Server : \A u \in Known :
    /\ u \in Logged(s) <=> u.lts <= server_lts[s][u.server_id]
    /\ u \in Logged(s) <=> u.update_num <= server_updates[s][u.server_id]

NoGap == \A s \in Server : GapFree(inbox[s], Logged(s), Known)

InOrder ==
  \A s \in Server :
    /\ Ascends(inbox[s])
    /\ \A i \in Positions(inbox[s], "Update") :
         LET u == inbox[s][i].update IN
           u.server_id # s => server_lts[s][u.server_id] < u.lts

OrderInv == ObjectsOnly /\ VectorWithin /\ LogIsPrefix /\ NoGap /\ InOrder

--------------------------------------------------------------------------------
(* What the vectors promise *)

Has(s) == Logged(s) \cup Carried(s)

\* The vectors server s has received or will read, with the servers that sent them.
Rows(s) == IF Joined(s) THEN {<<r, summary[s][r]>> : r \in DOMAIN summary[s]} ELSE {}
Offered(s) ==
  {<<inbox[s][i].server_index, inbox[s][i].server_vector>> : i \in Positions(inbox[s], "Vector")}
Claims(s) == Rows(s) \cup Offered(s)

\* A vector is what its sender had, and still has until updates are resent.
ClaimsOK ==
  \A s \in Server : \A p \in Claims(s) :
    /\ \A c \in Server : p[2][c] <= server_lts[p[1]][c]
    /\ syncOn[p[1]] => p[2] = server_lts[p[1]] \/ \E t \in comp[s] : Started(t)

ClaimsAgree ==
  \A s \in Server : \A t \in comp[s] : \A p \in Claims(s), q \in Claims(t) :
    p[1] = q[1] => p[2] = q[2]

\* Nothing is resent before a member has all vectors, nor beyond their maxima.
ResentOK ==
  \A s \in Server : \A i \in Positions(inbox[s], "SyncUpdate") : \E t \in comp[s] : Started(t)

Ceiling ==
  \A t \in Server : Started(t) => \A s \in comp[t] :
    /\ syncOn[s] => \A c \in Server : server_lts[s][c] <= MaxLts(summary[t], c)
    /\ \A i \in Positions(inbox[s], "SyncUpdate") :
         inbox[s][i].update.lts <= MaxLts(summary[t], inbox[s][i].update.server_id)
    /\ \A p \in job[s] : p[2] <= MaxLts(summary[t], p[1])

\* Whatever a vector of the component claims, a member has or will be sent.
StillToSend(x, u) == ~ Started(x) \/ <<u.server_id, u.lts>> \in job[x]
Promised ==
  \A t \in Server : Started(t) => \A s \in comp[t] : \A u \in Known :
    u.lts <= MaxLts(summary[t], u.server_id) =>
      u \in Has(s) \/ StillToSend(Sender(summary[t], u.server_id), u)

\* What a server without synchronisation has, the members have or will read.
Shared == \A t \in Server : Live(t) => \A s \in comp[t] : Has(t) \subseteq Has(s)

PromiseInv == ClaimsOK /\ ClaimsAgree /\ ResentOK /\ Ceiling /\ Promised /\ Shared

--------------------------------------------------------------------------------
(* Boards *)

KeyIsStamp == \A u \in Known : u.op = "a" => u.obj_id = u.lts /\ u.server_index = u.server_id

KeyMade(u) == <<u.obj_id, u.server_index>>
Made(s, b) == {u \in Logged(s) : u.op = "a" /\ u.db_name = b}
BoardsMatch ==
  \A s \in Server, b \in InitialBoards :
    /\ ToSet(Keys(db[s][b])) = {KeyMade(u) : u \in Made(s, b)}
    /\ IsInjective(Keys(db[s][b]))

\* An object is live until there is a deletion behind its creation in the log ...
LiveInLog(q, b, o) ==
  LET k == <<o.obj_id, o.server_index>> IN
    o.status <=> \A c \in LoggedAt(q, b, k, {"a"}), d \in LoggedAt(q, b, k, {"d"}) : d < c

DeletedBefore(q, b, k, n) ==
  \E c \in LoggedAt(q, b, k, {"a"}), d \in LoggedAt(q, b, k, {"d"}) : c < d /\ d < n

\* ... and has the text of the last update before that.
TextInLog(q, b, o) ==
  LET k == <<o.obj_id, o.server_index>> IN
    \E w \in LoggedAt(q, b, k, {"a", "e"}) :
      /\ o.obj = q[w].obj /\ ~ DeletedBefore(q, b, k, w)
      /\ \A v \in LoggedAt(q, b, k, {"a", "e"}) : v > w => DeletedBefore(q, b, k, v)

BoardsShowLog ==
  \A s \in Server, b \in InitialBoards : \A i \in DOMAIN db[s][b] :
    LiveInLog(log[s], b, db[s][b][i]) /\ TextInLog(log[s], b, db[s][b][i])

\* All logs have the updates of a server in its order.
LogsAscend ==
  \A s \in Server : \A i, j \in DOMAIN log[s] :
    i < j /\ log[s][i].server_id = log[s][j].server_id => log[s][i].lts < log[s][j].lts

BoardInv == KeyIsStamp /\ BoardsMatch /\ BoardsShowLog /\ LogsAscend

--------------------------------------------------------------------------------
(* The updates of each originator in the logs *)

\* A log has all that server s has of originator o, in its order, and as the
\* originator has them.
InSequence(s, o) ==
  LET q == OfOriginator(log[s], o)
      own == OfOriginator(log[o], o)
  IN /\ q \in Seq(Update)
     /\ ToSet(q) = {u \in Logged(s) : u.server_id = o}
     /\ \A i, j \in DOMAIN q : i < j => q[i].lts < q[j].lts
     /\ Len(q) <= Len(own) /\ \A k \in DOMAIN q : q[k] = own[k]
SequenceInv == \A s, o \in Server : InSequence(s, o)

\* What holds of a server that has died and come back as well.
CoreInv == ControlInv /\ OrderInv /\ PromiseInv /\ BoardInv /\ SequenceInv

--------------------------------------------------------------------------------
(* Clients *)

\* An update that clients are not told of yet comes as an ordinary update.
Told ==
  \A s \in Server : \A u \in Logged(s) :
    u \in served[s] \/ \E i \in Positions(inbox[s], "Update") : inbox[s][i].update = u

CalmInv == CoreInv /\ Told
================================================================================
