------------------------------ MODULE Replication ------------------------------
(***************************************************************************)
(* The replicated discussion board: N servers, each with a log file and a  *)
(* file per board, in one Spread group.                                    *)
(*                                                                         *)
(* A server is one thread that loops on read_message (server/server.c).    *)
(* An action is one message handled from SP_receive to the next, except    *)
(* for the two handlers that multicast in a loop: send_updates and the     *)
(* replay of the buffered requests.  There an action is one turn of the    *)
(* loop, because other servers multicast between two turns (pc says where  *)
(* in the loop a server is).                                               *)
(*                                                                         *)
(* Spread is external.  It delivers the messages of a component in one     *)
(* order to all its members, and orders membership messages with them.     *)
(* inbox[s] holds what the daemon delivered and server s has not read: a   *)
(* server may act on an old view while a new one already waits.            *)
(***************************************************************************)
EXTENDS SyncJob, Sequences, FiniteSets

CONSTANTS
  Board,          \* names of discussion boards
  InitialBoards,  \* boards whose file every server has at the start
  Writers,        \* servers that have clients
  ClientOps,      \* operations the clients use, of {"j", "a", "e", "d"}
  MaxRequests,    \* bound: client requests
  MaxViews        \* bound: partitions and merges of the network

ASSUME BoardAssumption == InitialBoards \subseteq Board
ASSUME WritersAssumption == Writers \subseteq Server
ASSUME BoundAssumption == MaxRequests \in Nat /\ MaxViews \in Nat

VARIABLES
  (* struct server_info s_mdata, the record at the head of the log file *)
  lts,             \* Lamport clock
  update_seq,      \* number of updates this server originated
  server_lts,      \* per originator, timestamp of the last update applied
  server_updates,  \* per originator, number of the last update applied
  (* the files *)
  log,             \* update records after the head record
  db,              \* per board that has a file, its object records
  (* the synchronisation *)
  syncOn, vector_rcvd, syncEnd_rcvd, num_memb,
  summary,         \* the rows received since sync() allocated the matrix
  server_view,     \* the servers marked true
  queue,           \* requests buffered by handle_client_req
  pc,              \* "idle", "sending" (send_updates) or "draining"
  job,             \* what send_updates has still to send
  (* the process and its clients *)
  up,              \* FALSE once the process has exited or crashed
  served,          \* object updates passed to serve_clients
  requests,        \* number of requests the clients have made
  (* Spread *)
  comp,            \* the component of the network each server is in
  inbox,           \* per server, delivered and not yet received
  views            \* number of partitions and merges so far

clockVars == <<lts, update_seq, server_lts, server_updates>>
fileVars == <<log, db>>
syncVars == <<syncOn, vector_rcvd, syncEnd_rcvd, num_memb, summary, server_view>>
loopVars == <<queue, pc, job>>
clientVars == <<served, requests>>
netVars == <<comp, views>>
vars == <<clockVars, fileVars, syncVars, loopVars, up, clientVars, netVars, inbox>>

--------------------------------------------------------------------------------
(* Data *)

Update ==
  [lts : Nat, server_id : Server, update_num : Nat, op : {"a", "e", "d"},
   entity_type : {"DB", "OBJ"}, obj_id : Nat, server_index : 0 .. N,
   db_name : Board, obj : Nat]

Object ==
  [obj_id : Nat, server_index : 0 .. N, status : BOOLEAN, obj : Nat]

\* What a server has of boards: a file for some, with its records.
IsFiles(boards) == DOMAIN boards \subseteq Board /\ boards \in [DOMAIN boards -> Seq(Object)]

\* obj stands for the text: the number of the request that brought it.
Request ==
  [op : {"j", "a", "e", "d"}, obj_id : Nat, server_index : 0 .. N,
   db_name : Board, obj : Nat]

Message ==
  [type : {"Update", "SyncUpdate"}, update : Update]
    \cup [type : {"Vector"}, server_index : Server, server_vector : Vector]
    \cup [type : {"SyncEnd"}]
    \cup [type : {"Memb"}, members : SUBSET Server]

\* The matrix as sync() allocates it: no row is filled yet.
NoRows == [s \in {} |-> [o \in Server |-> 0]]

\* The system where each server has just read the membership of its own join.
Init ==
  /\ lts = [s \in Server |-> 0]
  /\ update_seq = [s \in Server |-> 0]
  /\ server_lts = [s \in Server |-> [o \in Server |-> 0]]
  /\ server_updates = [s \in Server |-> [o \in Server |-> 0]]
  /\ log = [s \in Server |-> <<>>]
  /\ db = [s \in Server |-> [b \in InitialBoards |-> <<>>]]
  /\ syncOn = [s \in Server |-> FALSE]
  /\ vector_rcvd = [s \in Server |-> 0]
  /\ syncEnd_rcvd = [s \in Server |-> 0]
  /\ num_memb = [s \in Server |-> 1]
  /\ summary = [s \in Server |-> NoRows]
  /\ server_view = [s \in Server |-> {s}]
  /\ queue = [s \in Server |-> <<>>]
  /\ pc = [s \in Server |-> "idle"]
  /\ job = [s \in Server |-> {}]
  /\ up = [s \in Server |-> TRUE]
  /\ served = [s \in Server |-> {}]
  /\ requests = 0
  /\ comp = [s \in Server |-> {s}]
  /\ inbox = [s \in Server |-> <<>>]
  /\ views = 0

--------------------------------------------------------------------------------
(* Spread, as the servers use it *)

\* SP_multicast to the replication group, own component and sender included.
Multicast(box, s, m) ==
  [t \in Server |-> IF t \in comp[s] THEN Append(box[t], m) ELSE box[t]]

\* The inboxes once server s has received the head of its own.
Received == [s \in Server |-> [inbox EXCEPT ![s] = Tail(@)]]

\* Server s is in SP_receive and the next message is of the given type.
Receives(s, type) ==
  /\ up[s] /\ pc[s] = "idle"
  /\ inbox[s] # <<>> /\ Head(inbox[s]).type = type

Announce(components) ==
  inbox' = [t \in Server |->
              IF \E C \in components : t \in C
                THEN Append(inbox[t], [type |-> "Memb", members |-> comp'[t]])
                ELSE inbox[t]]

NetworkChange ==
  /\ views < MaxViews /\ views' = views + 1
  /\ UNCHANGED <<clockVars, fileVars, syncVars, loopVars, up, clientVars>>

Split(s, D) ==
  /\ D \subseteq comp[s] /\ D # {} /\ D # comp[s]
  /\ \A t \in comp[s] : up[t]
  /\ comp' = [t \in Server |->
                IF t \in D THEN D
                ELSE IF t \in comp[s] THEN comp[s] \ D ELSE comp[t]]
  /\ Announce({comp[s]})
  /\ NetworkChange

Merge(s, r) ==
  /\ comp[s] # comp[r]
  /\ \A t \in comp[s] \cup comp[r] : up[t]
  /\ comp' = [t \in Server |->
                IF t \in comp[s] \cup comp[r] THEN comp[s] \cup comp[r] ELSE comp[t]]
  /\ Announce({comp[s], comp[r]})
  /\ NetworkChange

\* The daemon notices that server s has exited.
Disconnect(s) ==
  /\ ~ up[s] /\ comp[s] # {s}
  /\ comp' = [t \in Server |-> IF t = s THEN {s} ELSE comp[t] \ {s}]
  /\ inbox' = [t \in Server |->
                 IF t = s THEN <<>>
                 ELSE IF t \in comp[s]
                   THEN Append(inbox[t], [type |-> "Memb", members |-> comp'[t]])
                   ELSE inbox[t]]
  /\ UNCHANGED <<clockVars, fileVars, syncVars, loopVars, up, clientVars, views>>

--------------------------------------------------------------------------------
(* The board files *)

Least(S) == CHOOSE i \in S : \A j \in S : i <= j

\* search_obj: the live records of a file with the key of an update.
Matches(file, u) ==
  {i \in DOMAIN file : /\ file[i].obj_id = u.obj_id
                       /\ file[i].server_index = u.server_index
                       /\ file[i].status}

WithText(o, text) ==
  [obj_id |-> o.obj_id, server_index |-> o.server_index, status |-> o.status, obj |-> text]

Edited(file, u) ==
  IF Matches(file, u) = {} THEN file
  ELSE LET i == Least(Matches(file, u)) IN [file EXCEPT ![i] = WithText(file[i], u.obj)]

Dead(o) ==
  [obj_id |-> o.obj_id, server_index |-> o.server_index, status |-> FALSE, obj |-> o.obj]

Deleted(file, u) ==
  IF Matches(file, u) = {} THEN file
  ELSE LET i == Least(Matches(file, u)) IN [file EXCEPT ![i] = Dead(file[i])]

\* Mutant of Created: the file is opened for writing and not for appending.
Truncated(file, u) ==
  <<[obj_id |-> u.obj_id, server_index |-> u.server_index, status |-> TRUE, obj |-> u.obj]>>

Created(file, u) ==
  Append(file, [obj_id |-> u.obj_id, server_index |-> u.server_index,
                status |-> TRUE, obj |-> u.obj])

WithFile(boards, b) ==
  [c \in DOMAIN boards \cup {b} |-> IF c \in DOMAIN boards THEN boards[c] ELSE <<>>]

\* apply_create, apply_edit and apply_delete on the file of the board.
Changed(file, u) ==
  IF u.op = "a" THEN Created(file, u)
  ELSE IF u.op = "e" THEN Edited(file, u) ELSE Deleted(file, u)

Applied(boards, u) ==
  IF u.entity_type = "DB" THEN WithFile(boards, u.db_name)
  ELSE [boards EXCEPT ![u.db_name] = Changed(@, u)]

\* An object update for a board without a file ends the process: exit(0) for an
\* edit or a delete, fseek on a null stream for a create.
Fatal(s, u) == u.entity_type = "OBJ" /\ u.db_name \notin DOMAIN db[s]

--------------------------------------------------------------------------------
(* The log *)

\* Mutant of Later: the clock ignores what the server receives.
Kept(a, b) == b

\* The clock after an update with timestamp a, when it was b.
Later(a, b) == IF a > b THEN a ELSE b

\* Mutant of Accepted: nothing is discarded.
AcceptedAlways(s, u) == TRUE

\* During a synchronisation an update already in the vector is discarded.
Accepted(s, u) ==
  syncOn[s] => /\ u.lts > server_lts[s][u.server_id]
               /\ u.update_num > server_updates[s][u.server_id]

\* Mutant of Extended: own updates are not logged.
OthersOnly(s, u) == IF u.server_id = s THEN log[s] ELSE Append(log[s], u)

\* Mutant of Extended: nothing is logged during a synchronisation.
LiveOnly(s, u) == IF syncOn[s] THEN log[s] ELSE Append(log[s], u)

\* append: a record goes to the end of the log.
Extended(s, u) == Append(log[s], u)

\* apply_update.  In the log and in the head record first, then in the board.
ApplyUpdate(s, u) ==
  /\ lts' = [lts EXCEPT ![s] = Later(u.lts, @)]
  /\ IF Accepted(s, u)
       THEN /\ log' = [log EXCEPT ![s] = Extended(s, u)]
            /\ server_lts' = [server_lts EXCEPT ![s][u.server_id] = u.lts]
            /\ server_updates' = [server_updates EXCEPT ![s][u.server_id] = u.update_num]
            /\ IF Fatal(s, u)
                 THEN up' = [up EXCEPT ![s] = FALSE] /\ UNCHANGED db
                 ELSE db' = [db EXCEPT ![s] = Applied(@, u)] /\ UNCHANGED up
       ELSE UNCHANGED <<log, server_lts, server_updates, db, up>>

\* search_log: the first record with this originator and timestamp.
LogMatches(s, p) ==
  {i \in DOMAIN log[s] : log[s][i].server_id = p[1] /\ log[s][i].lts = p[2]}

\* Mutant of LogRecord: the text of the record is left out.
WithoutText(s, p) == [log[s][Least(LogMatches(s, p))] EXCEPT !.obj = 0]

LogRecord(s, p) == log[s][Least(LogMatches(s, p))]

\* Mutant of Respond: the server does not answer for its own updates.
RespondToOthers(s, u) ==
  served' = IF u.server_id # s THEN [served EXCEPT ![s] = @ \cup {u}] ELSE served

\* send_response: object updates go to the clients of the board.
Respond(s, u) ==
  served' = IF u.entity_type = "OBJ" THEN [served EXCEPT ![s] = @ \cup {u}] ELSE served

--------------------------------------------------------------------------------
(* Requests of the clients *)

\* Mutant of NewUpdate: stamped before the clock moves.
OldClockUpdate(s, r) ==
  [lts |-> lts[s], server_id |-> s, update_num |-> update_seq[s] + 1,
   op |-> r.op, entity_type |-> "OBJ", obj_id |-> lts[s], server_index |-> s,
   db_name |-> r.db_name, obj |-> r.obj]

\* Mutant of NewUpdate: numbered after the last own update applied.
NumberFromVector(s, r) ==
  [lts |-> lts[s] + 1, server_id |-> s, update_num |-> server_updates[s][s] + 1,
   op |-> r.op, entity_type |-> "OBJ",
   obj_id |-> IF r.op = "a" THEN lts[s] + 1 ELSE r.obj_id,
   server_index |-> IF r.op = "a" THEN s ELSE r.server_index,
   db_name |-> r.db_name, obj |-> r.obj]

\* update_replicas: the update a request becomes.
NewUpdate(s, r) ==
  [lts |-> lts[s] + 1, server_id |-> s, update_num |-> update_seq[s] + 1,
   op |-> r.op, entity_type |-> "OBJ",
   obj_id |-> IF r.op = "a" THEN lts[s] + 1 ELSE r.obj_id,
   server_index |-> IF r.op = "a" THEN s ELSE r.server_index,
   db_name |-> r.db_name, obj |-> r.obj]

\* Mutant of NewBoard: the originator is not filled in.
NoOrigin(s, b) ==
  [lts |-> lts[s] + 1, server_id |-> 0, update_num |-> update_seq[s] + 1,
   op |-> "a", entity_type |-> "DB", obj_id |-> 0, server_index |-> 0,
   db_name |-> b, obj |-> 0]

\* get_db: the update that announces a new board.
NewBoard(s, b) ==
  [lts |-> lts[s] + 1, server_id |-> s, update_num |-> update_seq[s] + 1,
   op |-> "a", entity_type |-> "DB", obj_id |-> 0, server_index |-> 0,
   db_name |-> b, obj |-> 0]

\* The update is applied here before it is multicast.  A server that dies while
\* applying it multicasts nothing.
UpdateReplicas(s, r) ==
  LET u == NewUpdate(s, r) IN
    /\ update_seq' = [update_seq EXCEPT ![s] = @ + 1]
    /\ ApplyUpdate(s, u)
    /\ inbox' = IF Fatal(s, u) THEN inbox
                ELSE Multicast(inbox, s, [type |-> "Update", update |-> u])

\* get_db: the clock moves and the log grows, the vector does not.
CreateBoard(s, b) ==
  LET u == NewBoard(s, b) IN
    /\ lts' = [lts EXCEPT ![s] = @ + 1]
    /\ update_seq' = [update_seq EXCEPT ![s] = @ + 1]
    /\ log' = [log EXCEPT ![s] = Extended(s, u)]
    /\ db' = [db EXCEPT ![s] = WithFile(@, b)]
    /\ inbox' = Multicast(inbox, s, [type |-> "Update", update |-> u])
    /\ UNCHANGED <<server_lts, server_updates, up>>

\* join_db as far as the replicas are concerned.
JoinDb(s, r) ==
  IF r.db_name \in DOMAIN db[s]
    THEN UNCHANGED <<clockVars, fileVars, up, inbox>>
    ELSE CreateBoard(s, r.db_name)

\* handle_client_req, after the request may have been buffered.
HandleClientReq(s, r) ==
  IF r.op = "j" THEN JoinDb(s, r) ELSE UpdateReplicas(s, r)

\* What a client can ask for: a board to join, a post on a board that exists, a
\* change of an object that some server has shown it.
Asks(op, b, i, o) ==
  [op |-> op, obj_id |-> i, server_index |-> o, db_name |-> b, obj |-> requests + 1]

Boards == UNION {DOMAIN db[t] : t \in Server}
ShownBy(t, b) == {<<b, db[t][b][i].obj_id, db[t][b][i].server_index>> : i \in DOMAIN db[t][b]}
Shown == UNION {UNION {ShownBy(t, b) : b \in DOMAIN db[t]} : t \in Server}

ClientRequests ==
  {r \in {Asks("j", b, 0, 0) : b \in Board}
           \cup {Asks("a", b, 0, 0) : b \in Boards}
           \cup {Asks(op, x[1], x[2], x[3]) : op \in {"e", "d"}, x \in Shown} :
     r.op \in ClientOps}

\* A request that comes during a synchronisation is buffered, and handled too.
ClientRequest(s, r) ==
  /\ up[s] /\ pc[s] = "idle" /\ s \in Writers
  /\ requests < MaxRequests /\ requests' = requests + 1
  /\ queue' = IF syncOn[s] THEN [queue EXCEPT ![s] = Append(@, r)] ELSE queue
  /\ HandleClientReq(s, r)
  /\ UNCHANGED <<syncVars, pc, job, served, netVars>>

\* One turn of the loop over the buffered requests at the end of a
\* synchronisation.
Drain(s) ==
  /\ up[s] /\ pc[s] = "draining"
  /\ queue' = [queue EXCEPT ![s] = Tail(@)]
  /\ pc' = [pc EXCEPT ![s] = IF Len(queue[s]) = 1 THEN "idle" ELSE "draining"]
  /\ HandleClientReq(s, Head(queue[s]))
  /\ UNCHANGED <<syncVars, job, clientVars, netVars>>

\* join_db ends the process when a client is not in the list its request says: so
\* does a buffered join when it is replayed.  The lists are not kept here, so any
\* join may end so.  A join that creates its board and then exits is two steps.
JoinExit(s) ==
  /\ up[s]
  /\ \/ pc[s] = "idle" /\ s \in Writers /\ "j" \in ClientOps
     \/ pc[s] = "draining" /\ Head(queue[s]).op = "j"
  /\ up' = [up EXCEPT ![s] = FALSE]
  /\ UNCHANGED <<clockVars, fileVars, syncVars, loopVars, clientVars, netVars, inbox>>

--------------------------------------------------------------------------------
(* Messages of the replication group *)

\* packet_Update: dropped during a synchronisation; the own one is not applied
\* again but is what makes the server answer its clients.
RecvUpdate(s) ==
  /\ Receives(s, "Update")
  /\ inbox' = Received[s]
  /\ LET u == Head(inbox[s]).update IN
       IF syncOn[s]
         THEN UNCHANGED <<lts, server_lts, server_updates, fileVars, up, served>>
         ELSE /\ IF u.server_id # s
                   THEN ApplyUpdate(s, u)
                   ELSE UNCHANGED <<lts, server_lts, server_updates, fileVars, up>>
              /\ IF up'[s] THEN Respond(s, u) ELSE UNCHANGED served
  /\ UNCHANGED <<update_seq, syncVars, loopVars, requests, netVars>>

\* packet_SyncUpdate: applied, whether or not a synchronisation is on.
RecvSyncUpdate(s) ==
  /\ Receives(s, "SyncUpdate")
  /\ inbox' = Received[s]
  /\ LET u == Head(inbox[s]).update IN
       /\ ApplyUpdate(s, u)
       /\ IF Accepted(s, u) /\ up'[s] THEN Respond(s, u) ELSE UNCHANGED served
  /\ UNCHANGED <<update_seq, syncVars, loopVars, requests, netVars>>

\* Mutant of ViewAtSync: the marks of the last view stay.
SameView(s) == server_view[s]

\* What sync() leaves of the view of the last synchronisation.
ViewAtSync(s) == {}

\* Mutant of CountAtSync: the counters are not reset.
SameCount(n) == n

\* What sync() leaves of a counter of the last synchronisation.
CountAtSync(n) == 0

\* Membership of the replication group: sync(), or a server alone.
RecvMembership(s) ==
  /\ Receives(s, "Memb")
  /\ num_memb' = [num_memb EXCEPT ![s] = Cardinality(Head(inbox[s]).members)]
  /\ IF num_memb'[s] > 1
       THEN /\ syncOn' = [syncOn EXCEPT ![s] = TRUE]
            /\ vector_rcvd' = [vector_rcvd EXCEPT ![s] = CountAtSync(@)]
            /\ syncEnd_rcvd' = [syncEnd_rcvd EXCEPT ![s] = CountAtSync(@)]
            /\ summary' = [summary EXCEPT ![s] = NoRows]
            /\ server_view' = [server_view EXCEPT ![s] = ViewAtSync(s)]
            /\ inbox' = Multicast(Received[s], s,
                          [type |-> "Vector", server_index |-> s,
                           server_vector |-> server_lts[s]])
       ELSE /\ server_view' = [server_view EXCEPT ![s] = {s}]
            /\ inbox' = Received[s]
            /\ UNCHANGED <<syncOn, vector_rcvd, syncEnd_rcvd, summary>>
  /\ UNCHANGED <<clockVars, fileVars, loopVars, up, clientVars, netVars>>

\* process_vector: one more row; with as many as there are members the server
\* starts to send.  Records the log does not have are only reported.
WithRow(rows, m) ==
  [t \in DOMAIN rows \cup {m.server_index} |->
     IF t = m.server_index THEN m.server_vector ELSE rows[t]]

\* The rows of the view.  RowsInitialised says that none of them is missing.
InView(s, rows) == [t \in server_view'[s] \cap DOMAIN rows |-> rows[t]]

RecvVector(s) ==
  /\ Receives(s, "Vector")
  /\ inbox' = Received[s]
  /\ vector_rcvd' = [vector_rcvd EXCEPT ![s] = @ + 1]
  /\ summary' = [summary EXCEPT ![s] = WithRow(@, Head(inbox[s]))]
  /\ server_view' = [server_view EXCEPT ![s] = @ \cup {Head(inbox[s]).server_index}]
  /\ IF vector_rcvd'[s] = num_memb[s]
       THEN /\ pc' = [pc EXCEPT ![s] = "sending"]
            /\ job' = [job EXCEPT ![s] =
                         {p \in Job(s, InView(s, summary'[s])) : LogMatches(s, p) # {}}]
       ELSE UNCHANGED <<pc, job>>
  /\ UNCHANGED <<clockVars, fileVars, syncOn, syncEnd_rcvd, num_memb, queue, up,
                 clientVars, netVars>>

\* One turn of the loop of send_server_updates.
SendUpdate(s) ==
  /\ up[s] /\ pc[s] = "sending" /\ job[s] # {}
  /\ job' = [job EXCEPT ![s] = @ \ {First(@)}]
  /\ inbox' = Multicast(inbox, s, [type |-> "SyncUpdate",
                                   update |-> LogRecord(s, First(job[s]))])
  /\ UNCHANGED <<clockVars, fileVars, syncVars, queue, pc, up, clientVars, netVars>>

SendSyncEnd(s) ==
  /\ up[s] /\ pc[s] = "sending" /\ job[s] = {}
  /\ pc' = [pc EXCEPT ![s] = "idle"]
  /\ inbox' = Multicast(inbox, s, [type |-> "SyncEnd"])
  /\ UNCHANGED <<clockVars, fileVars, syncVars, queue, job, up, clientVars, netVars>>

\* Mutant of AfterSync: the buffer is not replayed.
BackToIdle(s) == "idle"

\* After a synchronisation what was buffered is replayed.
AfterSync(s) == IF queue[s] = <<>> THEN "idle" ELSE "draining"

\* process_syncEnd: the last one ends the synchronisation.
RecvSyncEnd(s) ==
  /\ Receives(s, "SyncEnd")
  /\ inbox' = Received[s]
  /\ syncEnd_rcvd' = [syncEnd_rcvd EXCEPT ![s] = @ + 1]
  /\ IF syncEnd_rcvd'[s] = num_memb[s]
       THEN /\ syncOn' = [syncOn EXCEPT ![s] = FALSE]
            /\ pc' = [pc EXCEPT ![s] = AfterSync(s)]
       ELSE UNCHANGED <<syncOn, pc>>
  /\ UNCHANGED <<clockVars, fileVars, vector_rcvd, num_memb, summary, server_view,
                 queue, job, up, clientVars, netVars>>

--------------------------------------------------------------------------------
(* The specification *)

\* What server s does when there is something to do.
ServerStep(s) ==
  \/ RecvUpdate(s) \/ RecvSyncUpdate(s) \/ RecvMembership(s) \/ RecvVector(s)
  \/ RecvSyncEnd(s) \/ SendUpdate(s) \/ SendSyncEnd(s) \/ Drain(s)

Next ==
  \/ \E s \in Server : ServerStep(s) \/ JoinExit(s) \/ Disconnect(s)
  \/ \E s \in Server : \E r \in ClientRequests : ClientRequest(s, r)
  \/ \E s \in Server : \E D \in SUBSET Server : Split(s, D)
  \/ \E s, r \in Server : Merge(s, r)

Spec == Init /\ [][Next]_vars

--------------------------------------------------------------------------------
(* Properties of every behaviour, however requests, partitions and exits fall *)

ClockType ==
  /\ lts \in [Server -> Nat]
  /\ update_seq \in [Server -> Nat]
  /\ server_lts \in [Server -> Vector]
  /\ server_updates \in [Server -> Vector]

FileType ==
  /\ log \in [Server -> Seq(Update)]
  /\ db = [s \in Server |-> db[s]] /\ \A s \in Server : IsFiles(db[s])

SyncType ==
  /\ syncOn \in [Server -> BOOLEAN]
  /\ vector_rcvd \in [Server -> Nat]
  /\ syncEnd_rcvd \in [Server -> Nat]
  /\ num_memb \in [Server -> Nat]
  /\ summary = [s \in Server |-> summary[s]] /\ \A s \in Server : IsSummary(summary[s])
  /\ server_view \in [Server -> SUBSET Server]

LoopType ==
  /\ queue \in [Server -> Seq(Request)]
  /\ pc \in [Server -> {"idle", "sending", "draining"}]
  /\ job \in [Server -> SUBSET (Server \X Nat)]

ProcessType ==
  /\ up \in [Server -> BOOLEAN]
  /\ served \in [Server -> SUBSET Update]
  /\ requests \in Nat

NetType ==
  /\ comp \in [Server -> SUBSET Server]
  /\ inbox \in [Server -> Seq(Message)]
  /\ views \in Nat

TypeOK == ClockType /\ FileType /\ SyncType /\ LoopType /\ ProcessType /\ NetType

Logged(s) == {log[s][i] : i \in DOMAIN log[s]}
Carried(s) ==
  {inbox[s][i].update : i \in {i \in DOMAIN inbox[s] :
                                 inbox[s][i].type \in {"Update", "SyncUpdate"}}}
Known == UNION {Logged(s) \cup Carried(s) : s \in Server}

\* search_log finds an update by originator and timestamp alone: no two updates
\* share them, in any log or on the way.
UpdateKeyUnique ==
  \A u, v \in Known : u.server_id = v.server_id /\ u.lts = v.lts => u = v

\* The two tests of apply_update never disagree: the timestamps and the numbers
\* of the updates of one originator are in the same order.
NumbersFollowClock ==
  \A u, v \in Known :
    u.server_id = v.server_id => (u.lts < v.lts <=> u.update_num < v.update_num)

\* Nothing is applied or resent that its originator does not have in its log.
OriginatorHasIt == \A u \in Known : u \in Logged(u.server_id)

\* Lamport's rule: the clock of a server is past every update it has logged and
\* past its vector, so what it originates next is later than all it has seen.
ClockCoversLog ==
  \A s \in Server : /\ \A u \in Logged(s) : u.lts <= lts[s]
                    /\ \A o \in Server : server_lts[s][o] <= lts[s]

\* A vector claims only what the log can give back: the update it names for an
\* originator is in the log.
VectorIsLogged ==
  \A s, o \in Server :
    server_lts[s][o] > 0 =>
      \E u \in Logged(s) : u.server_id = o /\ u.lts = server_lts[s][o]

\* find_max_min reads no row of the matrix that was not received since sync()
\* allocated it: the other rows are uninitialised memory.
RowsInitialised ==
  \A s \in Server :
    Receives(s, "Vector") /\ vector_rcvd[s] + 1 = num_memb[s] =>
      server_view[s] \subseteq DOMAIN summary[s] \cup {Head(inbox[s]).server_index}

\* No buffered request is forgotten: the buffer is empty unless a
\* synchronisation or the replay at its end is on.
BufferOnlyInSync ==
  \A s \in Server : queue[s] # <<>> => syncOn[s] \/ pc[s] = "draining"

================================================================================
