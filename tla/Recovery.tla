-------------------------------- MODULE Recovery --------------------------------
(***************************************************************************)
(* Crash and restart of a server.                                          *)
(*                                                                         *)
(* A server that dies keeps its files: the log with the head record in     *)
(* front (s_mdata), and the board files.  apply_update appends the record, *)
(* then writes the head record, then the board file; get_db makes the file *)
(* of the board, then appends the record, and does not write the head      *)
(* record at all.  A crash may come between any two of these, and between  *)
(* the last and the multicast.  init_server reads the head record and      *)
(* nothing else: the log is not gone through.                              *)
(*                                                                         *)
(* The rest is CalmReplication, so that what goes wrong is the crash's.    *)
(***************************************************************************)
EXTENDS CalmInvariant

CONSTANT MaxCrashes   \* bound: crashes of servers

ASSUME CrashAssumption == MaxCrashes \in Nat

VARIABLES
  head,     \* the head record of each log file
  crashes,  \* number of crashes so far
  torn,     \* the updates in the middle of which a server died
  rough     \* a server died, left or came back while its component synchronised

recoveryVars == <<head, crashes, torn, rough>>
allVars == <<vars, recoveryVars>>

--------------------------------------------------------------------------------
(* The head record *)

\* struct server_info as it is in memory.
Memory(s) ==
  [lts |-> lts[s], update_seq |-> update_seq[s],
   server_lts |-> server_lts[s], server_updates |-> server_updates[s]]

\* ... and as apply_update makes it.
MemoryWith(s, u) ==
  [lts |-> Later(u.lts, lts[s]),
   update_seq |-> IF u.server_id = s THEN u.update_num ELSE update_seq[s],
   server_lts |-> [server_lts[s] EXCEPT ![u.server_id] = u.lts],
   server_updates |-> [server_updates[s] EXCEPT ![u.server_id] = u.update_num]]

\* Mutant of HeadWritten: not written for the updates of others.
HeadWrittenForOwn(s, u) == IF u.server_id = s THEN Memory(s)' ELSE head[s]

\* write_server_info, when the update has gone to the log.
HeadWritten(s, u) == Memory(s)'

RecoveryInit ==
  /\ Init
  /\ head = [s \in Server |-> Memory(s)]
  /\ crashes = 0 /\ torn = {} /\ rough = FALSE

--------------------------------------------------------------------------------
(* What the servers do when they do not crash *)

\* Server s has applied u or has discarded it.
Applying(s, u) ==
  /\ head' = IF log'[s] = log[s] THEN head ELSE [head EXCEPT ![s] = HeadWritten(s, u)]
  /\ torn' = IF up'[s] THEN torn ELSE torn \cup {<<s, u>>}
  /\ rough' = (rough \/ (~ up'[s] /\ ~ Settled(s)))
  /\ UNCHANGED crashes

Receive(s) ==
  /\ RecvUpdate(s) \/ RecvSyncUpdate(s)
  /\ Applying(s, Head(inbox[s]).update)

Synchronise(s) ==
  /\ \/ RecvMembership(s)
     \/ RecvVector(s) /\ DistinctMaxima(s)
     \/ RecvSyncEnd(s) \/ SendUpdate(s) \/ SendSyncEnd(s)
  /\ UNCHANGED recoveryVars

Ask(s, r) ==
  /\ QuietClients(s) /\ ClientRequest(s, r)
  /\ IF r.op = "j"
       THEN UNCHANGED recoveryVars
       ELSE Applying(s, NewUpdate(s, r))

--------------------------------------------------------------------------------
(* Crashes *)

\* Server s dies.  What it has in memory counts no more.
Dies(s) ==
  /\ up[s] /\ crashes < MaxCrashes
  /\ up' = [up EXCEPT ![s] = FALSE]
  /\ crashes' = crashes + 1
  /\ rough' = (rough \/ ~ Settled(s))
  /\ UNCHANGED <<clockVars, syncVars, loopVars, served, netVars, inbox>>

CrashBetween(s) ==
  /\ Dies(s)
  /\ UNCHANGED <<fileVars, requests, head, torn>>

\* Mutant of Reached: the board file is written first.
BoardFirst(step) == CASE step = "log" -> {"db"} [] step = "head" -> {"db", "log"}
                      [] step = "db" -> {"db", "log", "head"}

\* Mutant of Reached: the head record is written first.
HeadFirst(step) == CASE step = "log" -> {"head"} [] step = "head" -> {"head", "log"}
                     [] step = "db" -> {"log", "head", "db"}

\* What is in the files when apply_update gets no further than a step.
Reached(step) == CASE step = "log" -> {"log"} [] step = "head" -> {"log", "head"}
                   [] step = "db" -> {"log", "head", "db"}

\* Server s dies in apply_update.
DiesApplying(s, u, files) ==
  /\ Dies(s) /\ ~ Fatal(s, u)
  /\ log' = IF "log" \in files THEN [log EXCEPT ![s] = Extended(s, u)] ELSE log
  /\ head' = IF "head" \in files THEN [head EXCEPT ![s] = MemoryWith(s, u)] ELSE head
  /\ db' = IF "db" \in files THEN [db EXCEPT ![s] = Applied(@, u)] ELSE db
  /\ torn' = torn \cup {<<s, u>>}

CrashReceiving(s, step) ==
  /\ \/ Receives(s, "Update") /\ ~ syncOn[s] /\ Head(inbox[s]).update.server_id # s
     \/ Receives(s, "SyncUpdate") /\ Accepted(s, Head(inbox[s]).update)
  /\ DiesApplying(s, Head(inbox[s]).update, Reached(step))
  /\ UNCHANGED requests

\* In a request: nothing is multicast.
Asked(s) ==
  /\ pc[s] = "idle" /\ s \in Writers /\ QuietClients(s)
  /\ requests < MaxRequests /\ requests' = requests + 1

CrashRequested(s, r, step) ==
  /\ r.op # "j" /\ Asked(s)
  /\ DiesApplying(s, NewUpdate(s, r), Reached(step))

\* In get_db, with the file of the new board made, and its record logged or not.
CrashCreating(s, b, logged) ==
  /\ "j" \in ClientOps /\ b \notin DOMAIN db[s] /\ Asked(s)
  /\ Dies(s)
  /\ db' = [db EXCEPT ![s] = WithFile(@, b)]
  /\ log' = IF logged THEN [log EXCEPT ![s] = Extended(s, NewBoard(s, b))] ELSE log
  /\ UNCHANGED <<head, torn>>

\* The others learn that server s is gone.
Missed(s) ==
  /\ Disconnect(s)
  /\ rough' = (rough \/ ~ Settled(s))
  /\ UNCHANGED <<head, crashes, torn>>

--------------------------------------------------------------------------------
(* Restart *)

\* Mutant of Remembered: the server starts with an empty head record.
Forgotten(s) ==
  [lts |-> 0, update_seq |-> 0, server_lts |-> [o \in Server |-> 0],
   server_updates |-> [o \in Server |-> 0]]

\* Mutant of Remembered: the vector is made up from the clock.
ClockForVector(s) == [head[s] EXCEPT !.server_lts = [o \in Server |-> head[s].lts]]

\* What init_server reads.
Remembered(s) == head[s]

\* init_server, and the server joins the replication group of a component.
Restart(s, r) ==
  /\ ~ up[s] /\ comp[s] = {s} /\ (r = s \/ up[r])
  /\ \A t \in comp[r] \ {s} : up[t]
  /\ LET m == Remembered(s) IN
       /\ lts' = [lts EXCEPT ![s] = m.lts]
       /\ update_seq' = [update_seq EXCEPT ![s] = m.update_seq]
       /\ server_lts' = [server_lts EXCEPT ![s] = m.server_lts]
       /\ server_updates' = [server_updates EXCEPT ![s] = m.server_updates]
  /\ syncOn' = [syncOn EXCEPT ![s] = FALSE]
  /\ vector_rcvd' = [vector_rcvd EXCEPT ![s] = 0]
  /\ syncEnd_rcvd' = [syncEnd_rcvd EXCEPT ![s] = 0]
  /\ num_memb' = [num_memb EXCEPT ![s] = 0]
  /\ summary' = [summary EXCEPT ![s] = NoRows]
  /\ server_view' = [server_view EXCEPT ![s] = {}]
  /\ queue' = [queue EXCEPT ![s] = <<>>]
  /\ pc' = [pc EXCEPT ![s] = "idle"]
  /\ job' = [job EXCEPT ![s] = {}]
  /\ up' = [up EXCEPT ![s] = TRUE]
  /\ LET C == comp[r] \cup {s} IN
       /\ comp' = [t \in Server |-> IF t \in C THEN C ELSE comp[t]]
       /\ inbox' = [t \in Server |->
            IF t \in C THEN Append(IF t = s THEN <<>> ELSE inbox[t], [type |-> "Memb", members |-> C])
                       ELSE inbox[t]]
  /\ rough' = (rough \/ (r # s /\ ~ Settled(r)))
  /\ UNCHANGED <<fileVars, clientVars, views, head, crashes, torn>>

--------------------------------------------------------------------------------
RecoveryNext ==
  \/ \E s \in Server :
       \/ Receive(s) \/ Synchronise(s) \/ CrashBetween(s)
       \/ \E r \in ClientRequests : Ask(s, r)
       \/ \E r \in Server : Restart(s, r)
       \/ \E step \in {"log", "head", "db"} :
            CrashReceiving(s, step) \/ \E r \in ClientRequests : CrashRequested(s, r, step)
       \/ \E b \in Board, logged \in BOOLEAN : CrashCreating(s, b, logged)
  \/ Partitioning /\ UNCHANGED recoveryVars
  \/ \E s \in Server : Missed(s)

RecoverySpec == RecoveryInit /\ [][RecoveryNext]_allVars

--------------------------------------------------------------------------------
(* Properties *)

\* search_log has to find what the vector of the head record claims: a server
\* that died at any point has the update in its log.
HeadIsLogged ==
  \A s, o \in Server :
    head[s].server_lts[o] > 0 =>
      \E u \in Logged(s) : u.server_id = o /\ u.lts = head[s].server_lts[o]

\* DesignDocument.pdf: "first enter the update in log file".  What a board file
\* shows is in the log, whenever the server died.
BoardIsLogged ==
  \A s \in Server : \A b \in DOMAIN db[s] : \A i \in DOMAIN db[s][b] :
    \E u \in Logged(s) : u.op = "a" /\ u.db_name = b /\ u.obj_id = db[s][b][i].obj_id
                         /\ u.server_index = db[s][b][i].server_index

\* Nothing goes through the log at a restart, and no other server sends again what
\* the vector claims.  So a logged object may be missing on its board for good: it
\* is one in the middle of which the server died, no other.
OnBoard(s, b) ==
  IF b \in DOMAIN db[s] THEN ToSet(Keys(db[s][b])) ELSE {}
MissingIsTorn ==
  \A s \in Server : \A u \in Logged(s) :
    /\ u.op = "a" /\ u.entity_type = "OBJ"
    /\ <<u.obj_id, u.server_index>> \notin OnBoard(s, u.db_name)
    => <<s, u>> \in torn

\* A restarted server may stamp an update as one it has logged before, and
\* search_log then finds the wrong one.  Only where the head record was not
\* written: for a new board, and for an update in the middle of which it died.
SameKeyIsTorn ==
  \A u, v \in Known :
    u.server_id = v.server_id /\ u.lts = v.lts /\ u # v =>
      \/ "DB" \in {u.entity_type, v.entity_type}
      \/ {<<u.server_id, u>>, <<u.server_id, v>>} \cap torn # {}

\* A crash between two messages loses nothing: after the restart and a
\* synchronisation the servers have the same updates, vectors and objects.
Unbroken == ~ rough /\ torn = {} /\ NoBoardCreated
RecoversAtRest ==
  Unbroken => AgreeAtRest /\ ObjectsAgreeAtRest

\* A vector never goes back, over a crash and a restart either: what a server has
\* taken up it does not ask for again.
VectorSurvives ==
  [][~ rough' => \A s, o \in Server : server_lts'[s][o] >= server_lts[s][o]]_allVars

\* The reason: such a crash looks to the others like a slow server that is parted from
\* them, and what the server knew is in its head record.
HeadIsMemory == \A s \in Server : head[s] = Memory(s)
UnbrokenInv == Unbroken => CoreInv /\ HeadIsMemory

\* A restarted server takes up the updates of each originator where it has stopped:
\* none again, and none before those it has missed.
Taken == [s \in Server |-> [o \in Server |-> OfOriginator(log[s], o)]]
OrderSurvives == [][Unbroken' => [Abstract!Next]_Taken]_allVars
================================================================================
