---------------------------- MODULE RecoveryProofs ----------------------------
(***************************************************************************)
(* What a crash at any point leaves in the files of a server, for any      *)
(* number of servers, boards, requests, network changes and crashes.       *)
(***************************************************************************)
EXTENDS Recovery, CalmProofs

--------------------------------------------------------------------------------
(* Types *)

HeadRecord ==
  [lts : Nat, update_seq : Nat, server_lts : Vector, server_updates : Vector]

HeadType == head \in [Server -> HeadRecord]

LEMMA MemoryType ==
  ASSUME ClockType
  PROVE  \A s \in Server : Memory(s) \in HeadRecord
PROOF
  BY DEF ClockType, Memory, HeadRecord

LEMMA MemoryAfter ==
  ASSUME ClockType'
  PROVE  \A s \in Server : Memory(s)' \in HeadRecord
PROOF
  BY DEF ClockType, Memory, HeadRecord

LEMMA MemoryWithType ==
  ASSUME ClockType, NEW s \in Server, NEW u \in Update
  PROVE  MemoryWith(s, u) \in HeadRecord
PROOF
  <1>1. u.lts \in Nat /\ u.update_num \in Nat /\ u.server_id \in Server
    BY DEF Update
  <1>2. /\ [server_lts[s] EXCEPT ![u.server_id] = u.lts] \in Vector
        /\ [server_updates[s] EXCEPT ![u.server_id] = u.update_num] \in Vector
    BY <1>1 DEF ClockType, Vector
  <1>3. Later(u.lts, lts[s]) \in Nat
    BY <1>1 DEF ClockType, Later
  <1> QED
    BY <1>1, <1>2, <1>3 DEF ClockType, MemoryWith, HeadRecord

\* The steps without a crash are steps of Replication.
Crashless(s) ==
  \/ Receive(s) \/ Synchronise(s) \/ \E r \in ClientRequests : Ask(s, r)
  \/ Partitioning /\ UNCHANGED recoveryVars
  \/ Missed(s)

LEMMA CrashlessIsNext ==
  ASSUME TypeOK, NEW s \in Server, Crashless(s)
  PROVE  Next
PROOF
  <1>1. CASE Receive(s) \/ Synchronise(s)
    BY <1>1 DEF Receive, Synchronise, Next, ServerStep
  <1>2. CASE \E r \in ClientRequests : Ask(s, r)
    BY <1>2 DEF Ask, Next
  <1>3. CASE Partitioning
    <2>1. \A t \in Server : comp[t] \subseteq Server
      BY DEF TypeOK, NetType
    <2>2. PICK t \in Server : \/ \E D \in SUBSET comp[t] : Split(t, D)
                              \/ \E r \in Server : Merge(t, r)
      BY <1>3 DEF Partitioning
    <2> QED
      BY <2>1, <2>2 DEF Next
  <1>4. CASE Missed(s)
    BY <1>4 DEF Missed, Next
  <1> QED
    BY <1>1, <1>2, <1>3, <1>4 DEF Crashless

\* A server that dies keeps or extends its log, and the rest of what it had is
\* as it was.
LEMMA DiesType ==
  ASSUME TypeInv, NEW s \in Server, NEW u \in Update, Dies(s), FileType', requests' \in Nat,
         UNCHANGED log \/ log' = [log EXCEPT ![s] = Extended(s, u)]
  PROVE  TypeInv'
PROOF
  <1>1. UNCHANGED <<clockVars, syncVars, loopVars, served, netVars, inbox>>
    BY DEF Dies
  <1>2. ClockType' /\ SyncType' /\ LoopType' /\ NetType'
    BY <1>1 DEF TypeInv, TypeOK, ClockType, SyncType, LoopType, NetType, clockVars,
                syncVars, loopVars, netVars
  <1>3. up' \in [Server -> BOOLEAN]
    BY DEF Dies, TypeInv, TypeOK, ProcessType
  <1>4. ProcessType'
    BY <1>1, <1>3 DEF TypeInv, TypeOK, ProcessType
  <1>5. LoopOK'
    BY <1>1, LoopStays DEF loopVars
  <1> QED
    BY <1>2, <1>4, <1>5 DEF TypeInv, TypeOK

LEMMA RestartType ==
  ASSUME TypeInv, HeadType, NEW s \in Server, NEW r \in Server, Restart(s, r)
  PROVE  TypeInv'
PROOF
  <1>1. /\ head[s].lts \in Nat /\ head[s].update_seq \in Nat
        /\ head[s].server_lts \in Vector /\ head[s].server_updates \in Vector
    BY DEF HeadType, HeadRecord
  <1>2. ClockType'
    BY <1>1 DEF Restart, Remembered, TypeInv, TypeOK, ClockType
  <1>3. FileType' /\ ProcessType'
    BY DEF Restart, TypeInv, TypeOK, FileType, ProcessType, fileVars, clientVars
  <1>4. SyncType'
    <2>1. IsSummary(NoRows)
      BY DEF IsSummary, NoRows
    <2> QED
      BY <2>1 DEF Restart, TypeInv, TypeOK, SyncType
  <1>5. LoopType'
    <2>1. <<>> \in Seq(Request)
      BY EmptySeq
    <2> QED
      BY <2>1 DEF Restart, TypeInv, TypeOK, LoopType
  <1>6. NetType'
    <2> DEFINE C == comp[r] \cup {s}
    <2>1. comp \in [Server -> SUBSET Server] /\ C \in SUBSET Server
      BY DEF TypeInv, TypeOK, NetType
    <2>2. [type |-> "Memb", members |-> C] \in Message
      BY <2>1, NewMessages
    <2>3. \A t \in Server : /\ Append(inbox[t], [type |-> "Memb", members |-> C]) \in Seq(Message)
                            /\ Append(<<>>, [type |-> "Memb", members |-> C]) \in Seq(Message)
      BY <2>2, AppendProperties, EmptySeq DEF TypeInv, TypeOK, NetType
    <2>4. /\ comp' = [t \in Server |-> IF t \in C THEN C ELSE comp[t]]
          /\ inbox' = [t \in Server |->
               IF t \in C THEN Append(IF t = s THEN <<>> ELSE inbox[t], [type |-> "Memb", members |-> C])
                          ELSE inbox[t]]
          /\ views' = views
      BY DEF Restart
    <2> HIDE DEF C
    <2>5. inbox' \in [Server -> Seq(Message)]
      BY <2>3, <2>4 DEF TypeInv, TypeOK, NetType
    <2>6. comp' \in [Server -> SUBSET Server]
      BY <2>1, <2>4
    <2> QED
      BY <2>4, <2>5, <2>6 DEF TypeInv, TypeOK, NetType
  <1>7. LoopOK'
    <2>1. /\ UNCHANGED log
          /\ pc' = [pc EXCEPT ![s] = "idle"] /\ job' = [job EXCEPT ![s] = {}]
          /\ \A t \in Server : t # s => queue'[t] = queue[t]
      BY DEF Restart, fileVars, TypeInv, TypeOK, LoopType
    <2> QED
      BY <2>1 DEF TypeInv, TypeOK, LoopType, LoopOK, LogMatches
  <1> QED
    BY <1>2, <1>3, <1>4, <1>5, <1>6, <1>7 DEF TypeInv, TypeOK

--------------------------------------------------------------------------------
(* The five ways in which a step changes files, head record and vector *)

filesAndHead == <<server_lts, log, db, head, torn>>

\* Server s applies u or discards it.
Applies(s, u) == up[s] /\ ApplyUpdate(s, u) /\ Applying(s, u)

\* Server s makes the file of board b, and logs it or dies before.
Opens(s, b) ==
  /\ UNCHANGED <<server_lts, head, torn>>
  /\ db' = [db EXCEPT ![s] = WithFile(@, b)]
  /\ UNCHANGED log \/ log' = [log EXCEPT ![s] = Extended(s, NewBoard(s, b))]

\* Server s dies applying u, which it has logged.
Breaks(s, u) ==
  /\ ~ Fatal(s, u) /\ UNCHANGED server_lts
  /\ log' = [log EXCEPT ![s] = Extended(s, u)]
  /\ UNCHANGED head \/ head' = [head EXCEPT ![s] = MemoryWith(s, u)]
  /\ UNCHANGED db \/ db' = [db EXCEPT ![s] = Applied(@, u)]
  /\ torn' = torn \cup {<<s, u>>}

\* Server s comes back with the vector of its head record.
Returns(s) ==
  /\ server_lts' = [server_lts EXCEPT ![s] = head[s].server_lts]
  /\ UNCHANGED <<log, db, head, torn>>

FileSteps ==
  \/ UNCHANGED filesAndHead
  \/ \E s \in Server, u \in Update : Applies(s, u) \/ Breaks(s, u)
  \/ \E s \in Server, b \in Board : Opens(s, b)
  \/ \E s \in Server : Returns(s)

LEMMA CrashlessSteps ==
  ASSUME TypeInv, NEW s \in Server, Crashless(s)
  PROVE  FileSteps
PROOF
  <1>1. CASE Receive(s)
    <2> DEFINE u == Head(inbox[s]).update
    <2>1. up[s] /\ inbox[s] # <<>> /\ Head(inbox[s]).type \in Updating
      BY <1>1 DEF Receive, RecvUpdate, RecvSyncUpdate, Receives, Updating
    <2>2. u \in Update
      BY <2>1, ReceivedUpdates, KnownType DEF TypeInv
    <2>3. Applying(s, u)
      BY <1>1 DEF Receive
    <2>4. ApplyUpdate(s, u) \/ UNCHANGED <<server_lts, log, db, up>>
      BY <1>1 DEF Receive, RecvUpdate, RecvSyncUpdate, fileVars
    <2>5. CASE ApplyUpdate(s, u)
      BY <2>1, <2>2, <2>3, <2>5 DEF FileSteps, Applies
    <2>6. CASE UNCHANGED <<server_lts, log, db, up>>
      <3>1. UNCHANGED <<head, torn>>
        BY <2>1, <2>3, <2>6 DEF Applying
      <3> QED
        BY <2>6, <3>1 DEF FileSteps, filesAndHead
    <2> QED
      BY <2>4, <2>5, <2>6
  <1>2. CASE Synchronise(s)
    BY <1>2 DEF Synchronise, RecvMembership, RecvVector, RecvSyncEnd, SendUpdate, SendSyncEnd,
                clockVars, fileVars, recoveryVars, FileSteps, filesAndHead
  <1>3. CASE \E r \in ClientRequests : Ask(s, r)
    <2> PICK r \in ClientRequests : Ask(s, r)
      BY <1>3
    <2>1. r \in Request
      BY RequestsType DEF TypeInv
    <2>2. up[s] /\ HandleClientReq(s, r)
      BY DEF Ask, ClientRequest
    <2>3. CASE r.op = "j"
      <3>1. UNCHANGED recoveryVars /\ JoinDb(s, r) /\ r.db_name \in Board
        BY <2>1, <2>2, <2>3 DEF Ask, HandleClientReq, Request
      <3>2. CASE r.db_name \in DOMAIN db[s]
        BY <3>1, <3>2 DEF JoinDb, clockVars, fileVars, recoveryVars, FileSteps, filesAndHead
      <3>3. CASE r.db_name \notin DOMAIN db[s]
        <4>1. CreateBoard(s, r.db_name)
          BY <3>1, <3>3 DEF JoinDb
        <4>2. Opens(s, r.db_name)
          BY <3>1, <4>1 DEF CreateBoard, recoveryVars, Opens
        <4> QED
          BY <3>1, <4>2 DEF FileSteps
      <3> QED
        BY <3>2, <3>3
    <2>4. CASE r.op # "j"
      <3>1. ApplyUpdate(s, NewUpdate(s, r)) /\ Applying(s, NewUpdate(s, r))
        BY <2>2, <2>4 DEF Ask, HandleClientReq, UpdateReplicas
      <3>2. NewUpdate(s, r) \in Update
        BY <2>1, <2>4, NewUpdateType DEF TypeInv
      <3> QED
        BY <2>2, <3>1, <3>2 DEF FileSteps, Applies
    <2> QED
      BY <2>3, <2>4
  <1>4. CASE Partitioning /\ UNCHANGED recoveryVars
    BY <1>4 DEF Partitioning, Split, Merge, NetworkChange, clockVars, fileVars, recoveryVars,
                FileSteps, filesAndHead
  <1>5. CASE Missed(s)
    BY <1>5 DEF Missed, Disconnect, clockVars, fileVars, FileSteps, filesAndHead
  <1> QED
    BY <1>1, <1>2, <1>3, <1>4, <1>5 DEF Crashless

LEMMA CrashSteps ==
  ASSUME TypeInv, HeadType, NEW s \in Server,
         \/ \E step \in {"log", "head", "db"} :
              CrashReceiving(s, step) \/ \E r \in ClientRequests : CrashRequested(s, r, step)
         \/ \E b \in Board, logged \in BOOLEAN : CrashCreating(s, b, logged)
  PROVE  FileSteps /\ TypeInv' /\ HeadType'
PROOF
  <1>1. ASSUME NEW u \in Update, NEW step \in {"log", "head", "db"},
               DiesApplying(s, u, Reached(step)), requests' \in Nat
        PROVE  FileSteps /\ TypeInv' /\ HeadType'
    <2>1. "log" \in Reached(step)
      BY DEF Reached
    <2>2. /\ Dies(s) /\ ~ Fatal(s, u)
          /\ log' = [log EXCEPT ![s] = Extended(s, u)]
          /\ UNCHANGED head \/ head' = [head EXCEPT ![s] = MemoryWith(s, u)]
          /\ UNCHANGED db \/ db' = [db EXCEPT ![s] = Applied(@, u)]
          /\ torn' = torn \cup {<<s, u>>}
      BY <1>1, <2>1 DEF DiesApplying
    <2>3. UNCHANGED server_lts
      BY <2>2 DEF Dies, clockVars
    <2>4. FileSteps
      BY <2>2, <2>3 DEF FileSteps, Breaks
    <2>5. HeadType'
      BY <2>2, MemoryWithType DEF HeadType, TypeInv, TypeOK
    <2>6. FileType'
      <3>1. log' \in [Server -> Seq(Update)]
        BY <2>2, ExtendedType DEF TypeInv
      <3>2. IsFiles(db[s]) /\ (u.entity_type = "OBJ" => u.db_name \in DOMAIN db[s])
        BY <2>2 DEF TypeInv, TypeOK, FileType, Fatal
      <3>3. IsFiles(Applied(db[s], u))
        BY <3>2, AppliedType
      <3> QED
        BY <2>2, <3>1, <3>3 DEF TypeInv, TypeOK, FileType
    <2> QED
      BY <1>1, <2>2, <2>4, <2>5, <2>6, DiesType
  <1>2. requests \in Nat /\ requests + 1 \in Nat
    BY DEF TypeInv, TypeOK, ProcessType
  <1>3. ASSUME NEW step \in {"log", "head", "db"}, CrashReceiving(s, step)
        PROVE  FileSteps /\ TypeInv' /\ HeadType'
    <2>1. Head(inbox[s]).update \in Update
      BY <1>3, ReceivedUpdates, KnownType DEF CrashReceiving, Receives, Updating, TypeInv
    <2> QED
      BY <1>1, <1>2, <1>3, <2>1 DEF CrashReceiving
  <1>4. ASSUME NEW step \in {"log", "head", "db"}, NEW r \in ClientRequests,
               CrashRequested(s, r, step)
        PROVE  FileSteps /\ TypeInv' /\ HeadType'
    <2>1. NewUpdate(s, r) \in Update
      BY <1>4, RequestsType, NewUpdateType DEF CrashRequested, TypeInv
    <2> QED
      BY <1>1, <1>2, <1>4, <2>1 DEF CrashRequested, Asked
  <1>5. ASSUME NEW b \in Board, NEW logged \in BOOLEAN, CrashCreating(s, b, logged)
        PROVE  FileSteps /\ TypeInv' /\ HeadType'
    <2>1. /\ Dies(s) /\ UNCHANGED <<head, torn>>
          /\ db' = [db EXCEPT ![s] = WithFile(@, b)]
          /\ UNCHANGED log \/ log' = [log EXCEPT ![s] = Extended(s, NewBoard(s, b))]
      BY <1>5 DEF CrashCreating
    <2>2. requests' \in Nat
      BY <1>2, <1>5 DEF CrashCreating, Asked
    <2>3. UNCHANGED server_lts
      BY <2>1 DEF Dies, clockVars
    <2>4. FileSteps
      BY <2>1, <2>3 DEF FileSteps, Opens
    <2>5. NewBoard(s, b) \in Update
      BY NewBoardType DEF TypeInv
    <2>6. FileType'
      <3>1. log' \in [Server -> Seq(Update)]
        <4>1. log \in [Server -> Seq(Update)]
          BY DEF TypeInv, TypeOK, FileType
        <4>2. [log EXCEPT ![s] = Extended(s, NewBoard(s, b))] \in [Server -> Seq(Update)]
          BY <2>5, ExtendedType DEF TypeInv
        <4> QED
          BY <2>1, <4>1, <4>2
      <3>2. IsFiles(WithFile(db[s], b))
        BY WithFileType DEF TypeInv, TypeOK, FileType
      <3> QED
        BY <2>1, <3>1, <3>2 DEF TypeInv, TypeOK, FileType
    <2>7. TypeInv'
      BY <2>1, <2>2, <2>5, <2>6, DiesType
    <2> QED
      BY <2>1, <2>4, <2>7 DEF HeadType
  <1> QED
    BY <1>3, <1>4, <1>5

LEMMA HeadStep ==
  ASSUME TypeInv, HeadType, TypeInv', [RecoveryNext]_allVars
  PROVE  HeadType'
PROOF
  <1>0. \A s \in Server : Memory(s)' \in HeadRecord
    BY MemoryAfter DEF TypeInv, TypeOK
  <1>1. ASSUME NEW s \in Server, NEW u, Applying(s, u) PROVE HeadType'
    BY <1>0, <1>1 DEF Applying, HeadWritten, HeadType
  <1>2. ASSUME NEW s \in Server, Receive(s) PROVE HeadType'
    BY <1>1, <1>2 DEF Receive
  <1>3. ASSUME NEW s \in Server, NEW r \in ClientRequests, Ask(s, r) PROVE HeadType'
    BY <1>1, <1>3 DEF Ask, recoveryVars, HeadType
  <1>4. CASE UNCHANGED head
    BY <1>4 DEF HeadType
  <1>5. ASSUME NEW s \in Server,
               \/ Synchronise(s) \/ CrashBetween(s) \/ Missed(s)
               \/ \E r \in Server : Restart(s, r)
        PROVE  HeadType'
    BY <1>4, <1>5 DEF Synchronise, CrashBetween, Missed, Restart, recoveryVars
  <1>6. CASE UNCHANGED recoveryVars
    BY <1>4, <1>6 DEF recoveryVars
  <1>7. CASE UNCHANGED allVars
    BY <1>4, <1>7 DEF allVars, recoveryVars
  <1>8. ASSUME NEW s \in Server,
               \/ \E step \in {"log", "head", "db"} :
                    CrashReceiving(s, step) \/ \E r \in ClientRequests : CrashRequested(s, r, step)
               \/ \E b \in Board, logged \in BOOLEAN : CrashCreating(s, b, logged)
        PROVE  HeadType'
    BY <1>8, CrashSteps
  <1> QED
    BY <1>2, <1>3, <1>5, <1>6, <1>7, <1>8 DEF RecoveryNext

\* Every step is one of these, and keeps the types.
LEMMA RecoverySteps ==
  ASSUME TypeInv, HeadType, [RecoveryNext]_allVars
  PROVE  FileSteps /\ TypeInv' /\ HeadType'
PROOF
  <1>1. ASSUME NEW s \in Server, Crashless(s) PROVE FileSteps /\ TypeInv'
    <2>1. Next
      BY <1>1, CrashlessIsNext DEF TypeInv
    <2> QED
      BY <1>1, <2>1, CrashlessSteps, TypeStep
  <1>2. ASSUME NEW s \in Server,
               \/ \E step \in {"log", "head", "db"} :
                    CrashReceiving(s, step) \/ \E r \in ClientRequests : CrashRequested(s, r, step)
               \/ \E b \in Board, logged \in BOOLEAN : CrashCreating(s, b, logged)
        PROVE  FileSteps /\ TypeInv'
    BY <1>2, CrashSteps
  <1>3. ASSUME NEW s \in Server, CrashBetween(s) PROVE FileSteps /\ TypeInv'
    <2>1. Dies(s) /\ UNCHANGED <<fileVars, requests, head, torn>>
      BY <1>3 DEF CrashBetween
    <2>2. FileType' /\ requests' \in Nat /\ UNCHANGED log
      BY <2>1 DEF TypeInv, TypeOK, FileType, ProcessType, fileVars
    <2>3. FileSteps
      BY <2>1 DEF Dies, clockVars, fileVars, FileSteps, filesAndHead
    <2>4. /\ UNCHANGED <<clockVars, fileVars, syncVars, loopVars, served, netVars, inbox>>
          /\ up' \in [Server -> BOOLEAN]
      BY <2>1 DEF Dies, TypeInv, TypeOK, ProcessType
    <2>5. ClockType' /\ SyncType' /\ LoopType' /\ NetType' /\ ProcessType'
      BY <2>2, <2>4 DEF TypeInv, TypeOK, ClockType, SyncType, LoopType, NetType, ProcessType,
                        clockVars, syncVars, loopVars, netVars
    <2>6. LoopOK'
      BY <2>4 DEF TypeInv, LoopOK, LogMatches, fileVars, loopVars
    <2> QED
      BY <2>2, <2>3, <2>5, <2>6 DEF TypeInv, TypeOK
  <1>4. ASSUME NEW s \in Server, NEW r \in Server, Restart(s, r) PROVE FileSteps /\ TypeInv'
    <2>1. Returns(s)
      BY <1>4 DEF Restart, Remembered, Returns, fileVars
    <2> QED
      BY <1>4, <2>1, RestartType DEF FileSteps
  <1>5. ASSUME UNCHANGED allVars PROVE FileSteps /\ TypeInv'
    <2>1. UNCHANGED vars
      BY <1>5 DEF allVars
    <2>2. TypeInv'
      BY <2>1, TypeStep
    <2> QED
      BY <1>5, <2>2 DEF allVars, vars, clockVars, fileVars, recoveryVars, FileSteps, filesAndHead
  <1>6. ASSUME RecoveryNext PROVE FileSteps /\ TypeInv'
    <2>1. 1 \in Server
      BY NAssumption DEF Server
    <2>2. CASE Partitioning /\ UNCHANGED recoveryVars
      BY <1>1, <2>1, <2>2 DEF Crashless
    <2>3. CASE ~ (Partitioning /\ UNCHANGED recoveryVars)
      BY <1>1, <1>2, <1>3, <1>4, <1>6, <2>3 DEF RecoveryNext, Crashless
    <2> QED
      BY <2>2, <2>3
  <1>7. FileSteps /\ TypeInv'
    BY <1>5, <1>6
  <1> QED
    BY <1>7, HeadStep

--------------------------------------------------------------------------------
(* Vector and head record against the log *)

ClaimsInv == VectorIsLogged /\ HeadIsLogged

LEMMA ClaimsInit == RecoveryInit => ClaimsInv
PROOF
  BY DEF RecoveryInit, Init, Memory, ClaimsInv, VectorIsLogged, HeadIsLogged

\* No log gets shorter.
LEMMA LogsGrow ==
  ASSUME TypeInv, FileSteps
  PROVE  \A t \in Server : Logged(t) \subseteq Logged(t)'
PROOF
  <1>1. CASE UNCHANGED log
    BY <1>1 DEF Logged
  <1>2. ASSUME NEW s \in Server, NEW u \in Update,
               ApplyUpdate(s, u) \/ log' = [log EXCEPT ![s] = Extended(s, u)]
        PROVE  \A t \in Server : Logged(t) \subseteq Logged(t)'
    BY <1>2, ApplyUpdateEffect, LoggedExtended DEF TypeInv
  <1>3. \A s \in Server, b \in Board : NewBoard(s, b) \in Update
    BY NewBoardType DEF TypeInv
  <1> QED
    BY <1>1, <1>2, <1>3 DEF FileSteps, filesAndHead, Applies, Opens, Breaks, Returns

LEMMA ClaimsApplied ==
  ASSUME TypeInv, TypeInv', HeadType, ClaimsInv, NEW s \in Server, NEW u \in Update, Applies(s, u)
  PROVE  ClaimsInv'
PROOF
  <1>1. ApplyUpdate(s, u) /\ Applying(s, u)
    BY DEF Applies
  <1>2. \A t \in Server : Logged(t) \subseteq Logged(t)'
    BY LogsGrow DEF FileSteps
  <1>3. VectorIsLogged'
    <2> SUFFICES ASSUME NEW t \in Server, NEW o \in Server, server_lts'[t][o] > 0
                 PROVE  \E v \in Logged(t)' : v.server_id = o /\ v.lts = server_lts'[t][o]
      BY DEF VectorIsLogged
    <2>1. CASE server_lts'[t][o] = server_lts[t][o]
      BY <1>2, <2>1 DEF ClaimsInv, VectorIsLogged
    <2>2. CASE server_lts'[t][o] # server_lts[t][o]
      <3>1. t = s
        BY <1>1, <2>2, ApplyUpdateEffect DEF TypeInv
      <3> QED
        BY <1>1, <2>2, <3>1, ApplyUpdateVector DEF TypeInv
    <2> QED
      BY <2>1, <2>2
  <1>4. HeadIsLogged'
    <2> SUFFICES ASSUME NEW t \in Server, NEW o \in Server, head'[t].server_lts[o] > 0
                 PROVE  \E v \in Logged(t)' : v.server_id = o /\ v.lts = head'[t].server_lts[o]
      BY DEF HeadIsLogged
    <2>1. CASE head'[t] = head[t]
      BY <1>2, <2>1 DEF ClaimsInv, HeadIsLogged
    <2>2. CASE head'[t] # head[t]
      <3>1. t = s /\ head'[s] = Memory(s)'
        BY <1>1, <2>2 DEF Applying, HeadWritten, HeadType
      <3>2. head'[t].server_lts = server_lts'[t]
        BY <3>1 DEF Memory
      <3> QED
        BY <1>3, <3>2 DEF VectorIsLogged
    <2> QED
      BY <2>1, <2>2
  <1> QED
    BY <1>3, <1>4 DEF ClaimsInv

LEMMA ClaimsBroken ==
  ASSUME TypeInv, HeadType, ClaimsInv, NEW s \in Server, NEW u \in Update, Breaks(s, u)
  PROVE  ClaimsInv'
PROOF
  <1>1. \A t \in Server : Logged(t) \subseteq Logged(t)'
    BY LogsGrow DEF FileSteps
  <1>2. u \in Logged(s)'
    <2>1. log' = [log EXCEPT ![s] = Extended(s, u)]
      BY DEF Breaks
    <2>2. TypeOK
      BY DEF TypeInv
    <2>3. Logged(s)' = Logged(s) \cup {u}
      BY <2>1, <2>2, LoggedExtended
    <2> QED
      BY <2>3
  <1>3. VectorIsLogged'
    BY <1>1 DEF Breaks, ClaimsInv, VectorIsLogged
  <1>4. HeadIsLogged'
    <2> SUFFICES ASSUME NEW t \in Server, NEW o \in Server, head'[t].server_lts[o] > 0
                 PROVE  \E v \in Logged(t)' : v.server_id = o /\ v.lts = head'[t].server_lts[o]
      BY DEF HeadIsLogged
    <2>1. CASE head'[t] = head[t]
      BY <1>1, <2>1 DEF ClaimsInv, HeadIsLogged
    <2>2. CASE head'[t] # head[t]
      <3>1. t = s /\ head'[s] = MemoryWith(s, u)
        BY <2>2 DEF Breaks, HeadType
      <3>2. head'[t].server_lts = [server_lts[s] EXCEPT ![u.server_id] = u.lts]
        BY <3>1 DEF MemoryWith
      <3>3. server_lts[s] \in [Server -> Nat]
        BY DEF TypeInv, TypeOK, ClockType, Vector
      <3>4. CASE o = u.server_id
        BY <1>2, <3>1, <3>2, <3>3, <3>4
      <3>5. CASE o # u.server_id
        <4>1. head'[t].server_lts[o] = server_lts[s][o]
          BY <3>2, <3>3, <3>5
        <4> QED
          BY <1>1, <3>1, <4>1 DEF ClaimsInv, VectorIsLogged
      <3> QED
        BY <3>4, <3>5
    <2> QED
      BY <2>1, <2>2
  <1> QED
    BY <1>3, <1>4 DEF ClaimsInv

LEMMA ClaimsStep ==
  ASSUME TypeInv, TypeInv', HeadType, ClaimsInv, FileSteps
  PROVE  ClaimsInv'
PROOF
  <1>1. \A t \in Server : Logged(t) \subseteq Logged(t)'
    BY LogsGrow
  <1>2. CASE UNCHANGED <<server_lts, head>>
    BY <1>1, <1>2 DEF ClaimsInv, VectorIsLogged, HeadIsLogged
  <1>3. ASSUME NEW s \in Server, Returns(s) PROVE ClaimsInv'
    <2>1. HeadIsLogged'
      BY <1>1, <1>3 DEF Returns, ClaimsInv, HeadIsLogged
    <2>2. \A t \in Server : server_lts'[t] = IF t = s THEN head[s].server_lts ELSE server_lts[t]
      BY <1>3 DEF Returns, TypeInv, TypeOK, ClockType
    <2>3. VectorIsLogged'
      BY <1>1, <2>2 DEF ClaimsInv, VectorIsLogged, HeadIsLogged
    <2> QED
      BY <2>1, <2>3 DEF ClaimsInv
  <1>4. CASE UNCHANGED filesAndHead \/ \E s \in Server, b \in Board : Opens(s, b)
    BY <1>2, <1>4 DEF filesAndHead, Opens
  <1> QED
    BY <1>3, <1>4, ClaimsApplied, ClaimsBroken DEF FileSteps

--------------------------------------------------------------------------------
(* The board files against the log *)

LEMMA OnBoardKeys == \A s, b : OnBoard(s, b) = KeysOn(db[s], b)
PROOF
  BY DEF OnBoard, KeysOn, KeysOf, Keys, ToSet

FilesInv == BoardIsLogged /\ MissingIsTorn

\* The two for one server, in terms of keys.
KeysLogged(s) ==
  \A b : \A k \in KeysOn(db[s], b) :
    \E u \in Logged(s) : u.op = "a" /\ u.db_name = b /\ KeyOf(u) = k
KeptOrTorn(s) ==
  \A u \in Logged(s) :
    u.op = "a" /\ u.entity_type = "OBJ" =>
      KeyOf(u) \in KeysOn(db[s], u.db_name) \/ <<s, u>> \in torn

KeysInv == \A s \in Server : KeysLogged(s) /\ KeptOrTorn(s)

LEMMA FilesInvIs == FilesInv <=> KeysInv
PROOF
  <1>1. BoardIsLogged => \A s \in Server : KeysLogged(s)
    BY DEF BoardIsLogged, KeysLogged, KeysOn, KeysOf, KeyOf
  <1>2. ASSUME \A s \in Server : KeysLogged(s) PROVE BoardIsLogged
    <2> SUFFICES ASSUME NEW s \in Server, NEW b \in DOMAIN db[s], NEW i \in DOMAIN db[s][b]
                 PROVE  \E u \in Logged(s) :
                          u.op = "a" /\ u.db_name = b /\ u.obj_id = db[s][b][i].obj_id
                          /\ u.server_index = db[s][b][i].server_index
      BY DEF BoardIsLogged
    <2>1. <<db[s][b][i].obj_id, db[s][b][i].server_index>> \in KeysOn(db[s], b)
      BY DEF KeysOn, KeysOf
    <2> QED
      BY <1>2, <2>1 DEF KeysLogged, KeyOf
  <1>3. MissingIsTorn <=> \A s \in Server : KeptOrTorn(s)
    BY OnBoardKeys DEF MissingIsTorn, KeptOrTorn, KeyOf
  <1> QED
    BY <1>1, <1>2, <1>3 DEF FilesInv, KeysInv

\* A server whose board files and log are as they were.
LEMMA FilesKept ==
  ASSUME NEW s \in Server, KeysLogged(s), KeptOrTorn(s),
         \A b : KeysOn(db'[s], b) = KeysOn(db[s], b),
         Logged(s)' = Logged(s), torn \subseteq torn'
  PROVE  KeysLogged(s)' /\ KeptOrTorn(s)'
PROOF
  BY DEF KeysLogged, KeptOrTorn

\* A server that has logged u, and has its object on the board or dies.
LEMMA FilesExtended ==
  ASSUME NEW s \in Server, KeysLogged(s), KeptOrTorn(s), NEW u,
         Logged(s)' = Logged(s) \cup {u}, torn \subseteq torn',
         \/ /\ \A b : KeysOn(db'[s], b) = KeysOn(db[s], b)
            /\ u.entity_type = "DB" \/ <<s, u>> \in torn'
         \/ \A b : KeysOn(db'[s], b) =
                     IF Creates(u, b) THEN KeysOn(db[s], b) \cup {KeyOf(u)} ELSE KeysOn(db[s], b)
  PROVE  KeysLogged(s)' /\ KeptOrTorn(s)'
PROOF
  <1>1. \A b : KeysOn(db[s], b) \subseteq KeysOn(db'[s], b)
    OBVIOUS
  <1>2. KeysLogged(s)'
    <2> SUFFICES ASSUME NEW b, NEW k \in KeysOn(db'[s], b)
                 PROVE  \E v \in Logged(s)' : v.op = "a" /\ v.db_name = b /\ KeyOf(v) = k
      BY DEF KeysLogged
    <2>1. CASE k \in KeysOn(db[s], b)
      BY <2>1 DEF KeysLogged
    <2>2. CASE k \notin KeysOn(db[s], b)
      <3>1. Creates(u, b) /\ k = KeyOf(u)
        BY <2>2
      <3> QED
        BY <3>1 DEF Creates
    <2> QED
      BY <2>1, <2>2
  <1>3. ASSUME NEW v \in Logged(s)', v.op = "a", v.entity_type = "OBJ"
        PROVE  KeyOf(v) \in KeysOn(db'[s], v.db_name) \/ <<s, v>> \in torn'
    <2>1. CASE v \in Logged(s)
      BY <1>1, <1>3, <2>1 DEF KeptOrTorn
    <2>2. CASE v = u
      BY <1>3, <2>2 DEF Creates
    <2> QED
      BY <1>3, <2>1, <2>2
  <1> QED
    BY <1>2, <1>3 DEF KeptOrTorn

LEMMA FilesApplied ==
  ASSUME TypeInv, NEW s \in Server, NEW u \in Update, Applies(s, u) \/ Breaks(s, u),
         \A t \in Server : KeysLogged(t) /\ KeptOrTorn(t)
  PROVE  \A t \in Server : KeysLogged(t)' /\ KeptOrTorn(t)'
PROOF
  <1>0. TypeOK /\ \A t \in Server : IsFiles(db[t])
    BY DEF TypeInv, TypeOK, FileType
  <1>1. db = [t \in Server |-> db[t]] /\ log \in [Server -> Seq(Update)]
    BY <1>0 DEF TypeOK, FileType
  <1>2. torn \subseteq torn'
    BY DEF Applies, Applying, Breaks
  <1>3. \A t \in Server : t # s => log'[t] = log[t] /\ db'[t] = db[t]
    BY <1>1 DEF Applies, ApplyUpdate, Breaks
  <1>4. ASSUME NEW t \in Server, t # s PROVE KeysLogged(t)' /\ KeptOrTorn(t)'
    <2>1. Logged(t)' = Logged(t) /\ \A b : KeysOn(db'[t], b) = KeysOn(db[t], b)
      BY <1>3, <1>4 DEF Logged
    <2> QED
      BY <1>2, <2>1, FilesKept
  <1>5. CASE UNCHANGED <<log, db>>
    <2>1. Logged(s)' = Logged(s) /\ \A b : KeysOn(db'[s], b) = KeysOn(db[s], b)
      BY <1>5 DEF Logged
    <2> QED
      BY <1>2, <1>4, <2>1, FilesKept
  <1>6. CASE log' = [log EXCEPT ![s] = Extended(s, u)]
    <2>1. Logged(s)' = Logged(s) \cup {u}
      BY <1>0, <1>6, LoggedExtended
    <2>2. log' # log
      <3>1. log'[s] = Append(log[s], u) /\ log[s] \in Seq(Update)
        BY <1>1, <1>6 DEF Extended
      <3>2. Len(log'[s]) = Len(log[s]) + 1 /\ Len(log[s]) \in Nat
        BY <3>1, AppendProperties, LenProperties
      <3> QED
        BY <3>2
    <2>3. CASE db' = [db EXCEPT ![s] = Applied(@, u)] /\ ~ Fatal(s, u)
      <3>1. db'[s] = Applied(db[s], u) /\ (u.entity_type = "OBJ" => u.db_name \in DOMAIN db[s])
        BY <1>1, <2>3 DEF Fatal
      <3>2. \A b : KeysOn(db'[s], b) =
                     IF Creates(u, b) THEN KeysOn(db[s], b) \cup {KeyOf(u)} ELSE KeysOn(db[s], b)
        BY <1>0, <3>1, AppliedKeys
      <3> QED
        BY <1>2, <1>4, <2>1, <3>2, FilesExtended
    <2>4. CASE UNCHANGED db /\ <<s, u>> \in torn'
      BY <1>2, <1>4, <2>1, <2>4, FilesExtended
    <2>5. (db' = [db EXCEPT ![s] = Applied(@, u)] /\ ~ Fatal(s, u)) \/ (UNCHANGED db /\ <<s, u>> \in torn')
      <3>1. CASE Breaks(s, u)
        BY <3>1 DEF Breaks
      <3>2. CASE Applies(s, u)
        <4>1. Accepted(s, u)
          BY <2>2, <3>2 DEF Applies, ApplyUpdate
        <4>2. CASE Fatal(s, u)
          <5>1. UNCHANGED db /\ up' = [up EXCEPT ![s] = FALSE] /\ up \in [Server -> BOOLEAN]
            BY <3>2, <4>1, <4>2, <1>0 DEF Applies, ApplyUpdate, TypeOK, ProcessType
          <5>2. ~ up'[s]
            BY <5>1
          <5> QED
            BY <3>2, <5>1, <5>2 DEF Applies, Applying
        <4>3. CASE ~ Fatal(s, u)
          BY <3>2, <4>1, <4>3 DEF Applies, ApplyUpdate
        <4> QED
          BY <4>2, <4>3
      <3> QED
        BY <3>1, <3>2
    <2> QED
      BY <2>3, <2>4, <2>5
  <1> QED
    BY <1>5, <1>6 DEF Applies, ApplyUpdate, Breaks

LEMMA FilesOpened ==
  ASSUME TypeInv, NEW s \in Server, NEW c \in Board, Opens(s, c),
         \A t \in Server : KeysLogged(t) /\ KeptOrTorn(t)
  PROVE  \A t \in Server : KeysLogged(t)' /\ KeptOrTorn(t)'
PROOF
  <1>0. TypeOK /\ NewBoard(s, c) \in Update /\ NewBoard(s, c).entity_type = "DB"
    BY NewBoardType DEF TypeInv, NewBoard
  <1>1. db = [t \in Server |-> db[t]] /\ log \in [Server -> Seq(Update)]
    BY <1>0 DEF TypeOK, FileType
  <1>2. UNCHANGED torn
    BY DEF Opens
  <1>3. \A t \in Server : \A b : KeysOn(db'[t], b) = KeysOn(db[t], b)
    BY <1>1, WithFileKeys DEF Opens
  <1>4. ASSUME NEW t \in Server, Logged(t)' = Logged(t) PROVE KeysLogged(t)' /\ KeptOrTorn(t)'
    BY <1>2, <1>3, <1>4, FilesKept
  <1>5. CASE UNCHANGED log
    BY <1>4, <1>5 DEF Logged
  <1>6. CASE log' = [log EXCEPT ![s] = Extended(s, NewBoard(s, c))]
    <2>1. /\ Logged(s)' = Logged(s) \cup {NewBoard(s, c)}
          /\ \A t \in Server : t # s => Logged(t)' = Logged(t)
      BY <1>0, <1>6, LoggedExtended
    <2>2. KeysLogged(s)' /\ KeptOrTorn(s)'
      BY <1>0, <1>2, <1>3, <2>1, FilesExtended
    <2> QED
      BY <1>4, <2>1, <2>2
  <1> QED
    BY <1>5, <1>6 DEF Opens

LEMMA FilesStep ==
  ASSUME TypeInv, FilesInv, FileSteps
  PROVE  FilesInv'
PROOF
  <1>1. \A t \in Server : KeysLogged(t) /\ KeptOrTorn(t)
    BY FilesInvIs DEF KeysInv
  <1>2. \A t \in Server : KeysLogged(t)' /\ KeptOrTorn(t)'
    <2>1. CASE UNCHANGED <<log, db, torn>>
      BY <1>1, <2>1 DEF KeysLogged, KeptOrTorn, Logged
    <2> QED
      BY <1>1, <2>1, FilesApplied, FilesOpened DEF FileSteps, filesAndHead, Returns
  <1>3. KeysInv'
    BY <1>2 DEF KeysInv
  <1>4. FilesInv' <=> KeysInv'
    BY FilesInvIs, PTL
  <1> QED
    BY <1>3, <1>4

--------------------------------------------------------------------------------
(* Timestamps over a restart *)

\* What a server that is up stamps next is past its head record ...
HeadBehind == \A s \in Server : up[s] => head[s].lts <= lts[s]

\* ... and the head record is past what it has stamped, but for what get_db made and
\* for what it died in the middle of.
HeadPast ==
  \A u \in Known : \/ u.entity_type = "DB"
                   \/ <<u.server_id, u>> \in torn
                   \/ u.lts <= head[u.server_id].lts

StampInv == SameKeyIsTorn /\ HeadBehind /\ HeadPast

\* An update server s has stamped in this step: past its head record.
Stamps(s, u) ==
  /\ u.server_id = s /\ Known' \subseteq Known \cup {u}
  /\ \/ u.entity_type = "DB"
     \/ u.lts > head[s].lts /\ (u.lts <= head'[s].lts \/ <<s, u>> \in torn')

LEMMA StampKeeps ==
  ASSUME TypeInv, HeadType, HeadType', StampInv, HeadBehind', torn \subseteq torn',
         \A s \in Server : head[s].lts <= head'[s].lts,
         \/ Known' \subseteq Known
         \/ \E s \in Server, u \in Update : Stamps(s, u)
  PROVE  StampInv'
PROOF
  <1>1. \A s \in Server : head[s].lts \in Nat /\ head'[s].lts \in Nat
    BY DEF HeadType, HeadRecord
  <1>2. \A u \in Known : u \in Update /\ u.server_id \in Server /\ u.lts \in Nat
    BY KnownType DEF TypeInv, Update
  <1>3. \A u \in Known : \/ u.entity_type = "DB" \/ <<u.server_id, u>> \in torn'
                         \/ u.lts <= head'[u.server_id].lts
    <2> SUFFICES ASSUME NEW u \in Known, u.lts <= head[u.server_id].lts
                 PROVE  u.lts <= head'[u.server_id].lts
      BY DEF StampInv, HeadPast
    <2> QED
      BY <1>1, <1>2
  <1>4. \A u, v \in Known : u.server_id = v.server_id /\ u.lts = v.lts /\ u # v =>
          \/ "DB" \in {u.entity_type, v.entity_type}
          \/ {<<u.server_id, u>>, <<u.server_id, v>>} \cap torn' # {}
    BY DEF StampInv, SameKeyIsTorn
  <1>5. CASE Known' \subseteq Known
    BY <1>3, <1>4, <1>5 DEF StampInv, SameKeyIsTorn, HeadPast
  <1>6. ASSUME NEW s \in Server, NEW u \in Update, Stamps(s, u) PROVE StampInv'
    <2>1. u.server_id = s /\ Known' \subseteq Known \cup {u} /\ u.lts \in Nat
      BY <1>6 DEF Stamps, Update
    <2>2. ASSUME NEW v \in Known, v.server_id = s, v.lts = u.lts
          PROVE  \/ "DB" \in {u.entity_type, v.entity_type}
                 \/ <<s, v>> \in torn'
      <3>1. \/ u.entity_type = "DB" \/ v.entity_type = "DB" \/ <<s, v>> \in torn
            \/ v.lts <= head[s].lts /\ u.lts > head[s].lts
        BY <1>6, <2>2 DEF Stamps, StampInv, HeadPast
      <3>2. ~ (v.lts <= head[s].lts /\ u.lts > head[s].lts)
        BY <1>1, <2>1, <2>2
      <3> QED
        BY <3>1, <3>2
    <2>3. HeadPast'
      BY <1>3, <1>6, <2>1 DEF HeadPast, Stamps
    <2>4. SameKeyIsTorn'
      <3> SUFFICES ASSUME NEW v \in Known', NEW w \in Known',
                          v.server_id = w.server_id, v.lts = w.lts, v # w
                   PROVE  \/ "DB" \in {v.entity_type, w.entity_type}
                          \/ {<<v.server_id, v>>, <<v.server_id, w>>} \cap torn' # {}
        BY DEF SameKeyIsTorn
      <3>1. CASE v \in Known /\ w \in Known
        BY <1>4, <3>1
      <3>2. CASE v = u /\ w \in Known
        BY <2>1, <2>2, <3>2
      <3>3. CASE v \in Known /\ w = u
        BY <2>1, <2>2, <3>3
      <3> QED
        BY <2>1, <3>1, <3>2, <3>3
    <2> QED
      BY <2>3, <2>4 DEF StampInv
  <1> QED
    BY <1>5, <1>6

\* A step that logs nothing and changes no head record.
LEMMA StampQuiet ==
  ASSUME TypeInv, HeadType, StampInv, UNCHANGED <<log, head, torn>>,
         \A t \in Server : Updates(inbox'[t]) \subseteq Known,
         \A t \in Server : up'[t] => head[t].lts <= lts'[t]
  PROVE  StampInv'
PROOF
  <1>1. \A t \in Server : Logged(t)' = Logged(t)
    BY DEF Logged
  <1>2. Known' \subseteq Known
    BY <1>1, KnownFrom, KnownParts, CarriedUpdates
  <1>3. /\ HeadBehind' /\ HeadType' /\ torn \subseteq torn'
        /\ \A t \in Server : head[t].lts <= head'[t].lts
    BY DEF HeadBehind, HeadType, HeadRecord
  <1> QED
    BY <1>2, <1>3, StampKeeps

\* apply_update at a server that is up: its head record is written with its clock.
LEMMA StampApplied ==
  ASSUME TypeInv, TypeInv', HeadType, HeadType', StampInv, NEW s \in Server, NEW u \in Update,
         Applies(s, u)
  PROVE  /\ HeadBehind' /\ torn \subseteq torn'
         /\ \A t \in Server : head[t].lts <= head'[t].lts
         /\ Accepted(s, u) => head'[s].lts = lts'[s]
PROOF
  <1>1. /\ lts \in [Server -> Nat] /\ lts' \in [Server -> Nat] /\ up \in [Server -> BOOLEAN]
        /\ log \in [Server -> Seq(Update)]
        /\ \A t \in Server : head[t].lts \in Nat
    BY DEF TypeInv, TypeOK, ClockType, ProcessType, FileType, HeadType, HeadRecord
  <1>2. ApplyUpdate(s, u) /\ Applying(s, u) /\ up[s]
    BY DEF Applies
  <1>3. \A t \in Server : up'[t] => up[t]
    BY <1>1, <1>2 DEF ApplyUpdate
  <1>4. lts[s] <= lts'[s] /\ \A t \in Server : t # s => lts'[t] = lts[t]
    BY <1>2, ApplyUpdateEffect DEF TypeInv
  <1>5. /\ torn \subseteq torn'
        /\ \A t \in Server : t # s => head'[t] = head[t]
        /\ head'[s] = head[s] \/ head'[s] = Memory(s)'
        /\ log' # log /\ log'[s] # log[s] => head'[s] = Memory(s)'
    BY <1>2 DEF Applying, HeadWritten, HeadType
  <1>6. Memory(s)'.lts = lts'[s]
    BY DEF Memory
  <1>7. head[s].lts <= lts[s]
    BY <1>2 DEF StampInv, HeadBehind
  <1>8. head'[s].lts = head[s].lts \/ head'[s].lts = lts'[s]
    BY <1>5, <1>6
  <1>9. ASSUME NEW t \in Server
        PROVE  head[t].lts <= head'[t].lts /\ (up'[t] => head'[t].lts <= lts'[t])
    <2>1. up'[t] => head[t].lts <= lts[t]
      BY <1>3 DEF StampInv, HeadBehind
    <2>2. CASE t = s
      BY <1>1, <1>4, <1>7, <1>8, <2>2
    <2>3. CASE t # s
      BY <1>1, <1>4, <1>5, <2>1, <2>3
    <2> QED
      BY <2>2, <2>3
  <1>10. ASSUME Accepted(s, u) PROVE head'[s].lts = lts'[s]
    <2>1. log'[s] = Append(log[s], u) /\ log[s] \in Seq(Update)
      BY <1>1, <1>2, <1>10 DEF ApplyUpdate, Extended
    <2>2. Len(log'[s]) = Len(log[s]) + 1 /\ Len(log[s]) \in Nat
      BY <2>1, AppendProperties, LenProperties
    <2> QED
      BY <1>5, <1>6, <2>2
  <1> QED
    BY <1>5, <1>9, <1>10 DEF HeadBehind

LEMMA StampReceives ==
  ASSUME TypeInv, TypeInv', HeadType, HeadType', StampInv, NEW s \in Server, Receive(s)
  PROVE  StampInv'
PROOF
  <1> DEFINE u == Head(inbox[s]).update
  <1>1. /\ up[s] /\ inbox[s] # <<>> /\ Head(inbox[s]).type \in Updating
        /\ inbox' = Received[s] /\ Applying(s, u)
    BY DEF Receive, RecvUpdate, RecvSyncUpdate, Receives, Updating
  <1>2. u \in Known /\ \A t \in Server : Updates(inbox'[t]) \subseteq Known
    BY <1>1, ReceivedUpdates DEF TypeInv
  <1>3. u \in Update
    BY <1>2, KnownType DEF TypeInv
  <1>4. UNCHANGED <<lts, log, up>> \/ ApplyUpdate(s, u)
    BY DEF Receive, RecvUpdate, RecvSyncUpdate, fileVars
  <1> HIDE DEF u
  <1>5. CASE UNCHANGED <<lts, log, up>>
    <2>1. UNCHANGED <<head, torn>>
      BY <1>1, <1>5 DEF Applying
    <2>2. \A t \in Server : up'[t] => head[t].lts <= lts'[t]
      BY <1>5 DEF StampInv, HeadBehind
    <2> QED
      BY <1>2, <1>5, <2>1, <2>2, StampQuiet
  <1>6. CASE ApplyUpdate(s, u)
    <2>1. Applies(s, u)
      BY <1>1, <1>6 DEF Applies
    <2>2. \A t \in Server : Logged(t)' \subseteq Logged(t) \cup {u}
      BY <1>3, <1>6, ApplyUpdateEffect DEF TypeInv
    <2>3. Known' \subseteq Known
      BY <1>2, <2>2, KnownFrom, KnownParts, CarriedUpdates
    <2> QED
      BY <1>3, <2>1, <2>3, StampApplied, StampKeeps
  <1> QED
    BY <1>4, <1>5, <1>6

\* get_db logs the update that announces a board, and sends it if it gets so far.
LEMMA StampOpens ==
  ASSUME TypeInv, HeadType, StampInv, NEW s \in Server, NEW b \in Board,
         UNCHANGED <<head, torn>>, \A t \in Server : up'[t] => up[t] /\ lts[t] <= lts'[t],
         \A t \in Server : lts'[t] \in Nat,
         log' = [log EXCEPT ![s] = Extended(s, NewBoard(s, b))],
         \/ UNCHANGED inbox
         \/ inbox' = Multicast(inbox, s, [type |-> "Update", update |-> NewBoard(s, b)])
  PROVE  StampInv'
PROOF
  <1> DEFINE u == NewBoard(s, b)
             m == [type |-> "Update", update |-> u]
  <1>1. /\ u \in Update /\ m \in Message /\ m.update = u
        /\ u.server_id = s /\ u.entity_type = "DB"
    BY NewBoardType, NewMessages DEF TypeInv, NewBoard
  <1> HIDE DEF u
  <1>2. inbox \in [Server -> Seq(Message)] /\ \A t \in Server : Updates(inbox[t]) \subseteq Known \cup {u}
    BY KnownParts, CarriedUpdates DEF TypeInv, TypeOK, NetType
  <1>3. inbox' = inbox \/ inbox' = Multicast(inbox, s, m)
    BY DEF u
  <1> HIDE DEF m
  <1>4. \A t \in Server : Updates(inbox'[t]) \subseteq Known \cup {u}
    BY <1>1, <1>2, <1>3, MulticastUpdates
  <1>5. \A t \in Server : Logged(t)' \subseteq Logged(t) \cup {u}
    <2>1. log' = [log EXCEPT ![s] = Extended(s, u)]
      BY DEF u
    <2> QED
      BY <1>1, <2>1, LoggedExtended DEF TypeInv
  <1>6. Stamps(s, u)
    <2>1. \A t \in Server : Logged(t)' \subseteq Known \cup {u} /\ Carried(t)' \subseteq Known \cup {u}
      BY <1>4, <1>5, KnownParts, CarriedUpdates
    <2>2. Known' \subseteq Known \cup {u}
      BY <2>1, KnownFrom
    <2> QED
      BY <1>1, <2>2 DEF Stamps
  <1>7. /\ HeadType' /\ torn \subseteq torn'
        /\ \A t \in Server : head[t].lts <= head'[t].lts
    BY DEF HeadType, HeadRecord
  <1>8. HeadBehind'
    <2>1. \A t \in Server : head[t].lts \in Nat /\ lts[t] \in Nat
      BY DEF HeadType, HeadRecord, TypeInv, TypeOK, ClockType
    <2> QED
      BY <2>1 DEF StampInv, HeadBehind
  <1> QED
    BY <1>1, <1>6, <1>7, <1>8, StampKeeps

LEMMA StampAsks ==
  ASSUME TypeInv, TypeInv', HeadType, HeadType', StampInv, NEW s \in Server,
         NEW r \in ClientRequests, Ask(s, r)
  PROVE  StampInv'
PROOF
  <1>1. /\ r \in Request /\ up[s] /\ HandleClientReq(s, r) /\ ~ syncOn[s]
        /\ lts \in [Server -> Nat] /\ lts' \in [Server -> Nat]
        /\ inbox \in [Server -> Seq(Message)]
    BY RequestsType DEF Ask, ClientRequest, QuietClients, TypeInv, TypeOK, ClockType, NetType
  <1>2. CASE r.op = "j"
    <2>1. UNCHANGED recoveryVars /\ JoinDb(s, r) /\ r.db_name \in Board
      BY <1>1, <1>2 DEF Ask, HandleClientReq, Request
    <2>2. CASE r.db_name \in DOMAIN db[s]
      <3>1. UNCHANGED <<lts, log, up, inbox, head, torn>>
        BY <2>1, <2>2 DEF JoinDb, clockVars, fileVars, recoveryVars
      <3>2. \A t \in Server : Updates(inbox'[t]) \subseteq Known
        BY <3>1, KnownParts, CarriedUpdates
      <3> QED
        BY <3>1, <3>2, StampQuiet DEF StampInv, HeadBehind
    <2>3. CASE r.db_name \notin DOMAIN db[s]
      <3>1. CreateBoard(s, r.db_name)
        BY <2>1, <2>3 DEF JoinDb
      <3>2. /\ UNCHANGED <<head, torn, up>>
            /\ lts' = [lts EXCEPT ![s] = @ + 1]
            /\ log' = [log EXCEPT ![s] = Extended(s, NewBoard(s, r.db_name))]
            /\ inbox' = Multicast(inbox, s, [type |-> "Update", update |-> NewBoard(s, r.db_name)])
        BY <2>1, <3>1 DEF CreateBoard, recoveryVars
      <3>3. \A t \in Server : lts[t] <= lts'[t] /\ lts'[t] \in Nat
        BY <1>1, <3>2
      <3> QED
        BY <2>1, <3>2, <3>3, StampOpens
    <2> QED
      BY <2>2, <2>3
  <1>3. CASE r.op # "j"
    <2> DEFINE u == NewUpdate(s, r)
               m == [type |-> "Update", update |-> u]
    <2>1. /\ u \in Update /\ m \in Message /\ m.update = u
          /\ u.server_id = s /\ u.lts = lts[s] + 1
      BY <1>1, <1>3, NewUpdateType, NewMessages DEF TypeInv, NewUpdate
    <2>2. /\ Applies(s, u) /\ ApplyUpdate(s, u) /\ Accepted(s, u)
          /\ inbox' = inbox \/ inbox' = Multicast(inbox, s, m)
      BY <1>1, <1>3 DEF Ask, HandleClientReq, UpdateReplicas, Applies, Accepted
    <2> HIDE DEF u, m
    <2>3. \A t \in Server : Updates(inbox[t]) \subseteq Known \cup {u}
      BY KnownParts, CarriedUpdates
    <2>4. \A t \in Server : Updates(inbox'[t]) \subseteq Known \cup {u}
      BY <1>1, <2>1, <2>2, <2>3, MulticastUpdates
    <2>5. u.lts <= lts'[s] /\ \A t \in Server : Logged(t)' \subseteq Logged(t) \cup {u}
      BY <2>1, <2>2, ApplyUpdateEffect DEF TypeInv
    <2>6. Known' \subseteq Known \cup {u}
      BY <2>4, <2>5, KnownFrom, KnownParts, CarriedUpdates
    <2>7. /\ HeadBehind' /\ torn \subseteq torn' /\ head'[s].lts = lts'[s]
          /\ \A t \in Server : head[t].lts <= head'[t].lts
      BY <2>1, <2>2, StampApplied
    <2>8. u.lts > head[s].lts
      <3>1. head[s].lts <= lts[s] /\ head[s].lts \in Nat /\ lts[s] \in Nat
        BY <1>1 DEF StampInv, HeadBehind, HeadType, HeadRecord
      <3> QED
        BY <2>1, <3>1
    <2>9. Stamps(s, u)
      BY <2>1, <2>5, <2>6, <2>7, <2>8 DEF Stamps
    <2> QED
      BY <2>1, <2>7, <2>9, StampKeeps
  <1> QED
    BY <1>2, <1>3

\* A server that dies applying u, which it has received or has just stamped.
LEMMA StampBreaks ==
  ASSUME TypeInv, HeadType, HeadType', StampInv, NEW s \in Server, NEW u \in Update,
         NEW step \in {"log", "head", "db"}, DiesApplying(s, u, Reached(step)),
         u \in Known \/ (u.server_id = s /\ u.lts > head[s].lts)
  PROVE  StampInv'
PROOF
  <1>1. /\ Dies(s) /\ "log" \in Reached(step)
        /\ UNCHANGED head \/ head' = [head EXCEPT ![s] = MemoryWith(s, u)]
        /\ torn' = torn \cup {<<s, u>>}
    BY DEF DiesApplying, Reached
  <1>2. log' = [log EXCEPT ![s] = Extended(s, u)]
    BY <1>1 DEF DiesApplying
  <1>3. UNCHANGED <<lts, inbox>> /\ up[s] /\ up' = [up EXCEPT ![s] = FALSE]
    BY <1>1 DEF Dies, clockVars
  <1>4. /\ lts[s] \in Nat /\ u.lts \in Nat /\ up \in [Server -> BOOLEAN]
        /\ \A t \in Server : head[t].lts \in Nat /\ head \in [Server -> HeadRecord]
    BY DEF TypeInv, TypeOK, ClockType, ProcessType, Update, HeadType, HeadRecord
  <1>5. \A t \in Server : /\ head[t].lts <= head'[t].lts
                          /\ t # s => head'[t] = head[t]
    <2>1. head[s].lts <= lts[s]
      BY <1>3 DEF StampInv, HeadBehind
    <2>2. MemoryWith(s, u).lts >= lts[s] /\ MemoryWith(s, u).lts \in Nat
      BY <1>4 DEF MemoryWith, Later
    <2> QED
      BY <1>1, <1>4, <2>1, <2>2
  <1>6. HeadBehind'
    BY <1>3, <1>4, <1>5 DEF StampInv, HeadBehind
  <1>7. \A t \in Server : Logged(t)' \subseteq Logged(t) \cup {u} /\ Updates(inbox'[t]) \subseteq Known
    BY <1>2, <1>3, LoggedExtended, KnownParts, CarriedUpdates DEF TypeInv
  <1>8. Known' \subseteq Known \cup {u}
    <2>1. \A t \in Server : Logged(t)' \subseteq Known \cup {u} /\ Carried(t)' \subseteq Known \cup {u}
      BY <1>7, KnownParts, CarriedUpdates
    <2> QED
      BY <2>1, KnownFrom
  <1>9. CASE u \in Known
    <2>1. Known' \subseteq Known
      BY <1>8, <1>9
    <2> QED
      BY <1>1, <1>5, <1>6, <2>1, StampKeeps
  <1>10. CASE u.server_id = s /\ u.lts > head[s].lts
    <2>1. Stamps(s, u)
      BY <1>1, <1>8, <1>10 DEF Stamps
    <2> QED
      BY <1>1, <1>5, <1>6, <2>1, StampKeeps
  <1> QED
    BY <1>9, <1>10

\* A server that comes back has the clock of its head record, and an inbox without
\* what it had not read.
LEMMA StampReturns ==
  ASSUME TypeInv, HeadType, StampInv, NEW s \in Server, NEW r \in Server, Restart(s, r)
  PROVE  StampInv'
PROOF
  <1>1. UNCHANGED <<log, head, torn>> /\ inbox \in [Server -> Seq(Message)]
    BY DEF Restart, fileVars, TypeInv, TypeOK, NetType
  <1>2. \A t \in Server : up'[t] => head[t].lts <= lts'[t]
    <2>1. lts' = [lts EXCEPT ![s] = head[s].lts] /\ up' = [up EXCEPT ![s] = TRUE]
      BY DEF Restart, Remembered
    <2>2. lts \in [Server -> Nat] /\ up \in [Server -> BOOLEAN] /\ head[s].lts \in Nat
      BY DEF TypeInv, TypeOK, ClockType, ProcessType, HeadType, HeadRecord
    <2> QED
      BY <2>1, <2>2 DEF StampInv, HeadBehind
  <1>3. ASSUME NEW t \in Server PROVE Updates(inbox'[t]) \subseteq Known
    <2> DEFINE m == [type |-> "Memb", members |-> comp[r] \cup {s}]
    <2>1. m \in Message /\ m.type \notin Updating
      <3>1. comp[r] \cup {s} \in SUBSET Server
        BY DEF TypeInv, TypeOK, NetType
      <3> QED
        BY <3>1, NewMessages DEF Updating
    <2>2. inbox'[t] \in {inbox[t], Append(<<>>, m), Append(inbox[t], m)}
      BY DEF Restart
    <2>3. Updates(inbox[t]) \subseteq Known /\ Updates(<<>>) = {}
      BY KnownParts, CarriedUpdates DEF Updates
    <2> HIDE DEF m
    <2>4. /\ Updates(Append(inbox[t], m)) \subseteq Updates(inbox[t])
          /\ Updates(Append(<<>>, m)) \subseteq Updates(<<>>)
      BY <1>1, <2>1, UpdatesOfSeq, EmptySeq
    <2> QED
      BY <2>2, <2>3, <2>4
  <1> QED
    BY <1>1, <1>2, <1>3, StampQuiet

\* A server that dies and logs no update, or the one get_db has made.
LEMMA StampDies ==
  ASSUME TypeInv, HeadType, StampInv, NEW s \in Server, Dies(s), UNCHANGED <<head, torn>>,
         \/ UNCHANGED log
         \/ \E b \in Board : log' = [log EXCEPT ![s] = Extended(s, NewBoard(s, b))]
  PROVE  StampInv'
PROOF
  <1>1. UNCHANGED <<lts, inbox>> /\ \A t \in Server : up'[t] => up[t]
    BY DEF Dies, clockVars, TypeInv, TypeOK, ProcessType
  <1>2. \A t \in Server : lts[t] \in Nat /\ Updates(inbox'[t]) \subseteq Known
    BY <1>1, KnownParts, CarriedUpdates DEF TypeInv, TypeOK, ClockType
  <1>3. CASE UNCHANGED log
    BY <1>1, <1>2, <1>3, StampQuiet DEF StampInv, HeadBehind
  <1>4. CASE \E b \in Board : log' = [log EXCEPT ![s] = Extended(s, NewBoard(s, b))]
    <2>1. \A t \in Server : lts[t] <= lts'[t] /\ lts'[t] \in Nat
      BY <1>1, <1>2
    <2> QED
      BY <1>1, <1>4, <2>1, StampOpens
  <1> QED
    BY <1>3, <1>4

LEMMA StampCrashes ==
  ASSUME TypeInv, HeadType, HeadType', StampInv, NEW s \in Server,
         \/ \E step \in {"log", "head", "db"} :
              CrashReceiving(s, step) \/ \E r \in ClientRequests : CrashRequested(s, r, step)
         \/ \E b \in Board, logged \in BOOLEAN : CrashCreating(s, b, logged)
  PROVE  StampInv'
PROOF
  <1>1. ASSUME NEW step \in {"log", "head", "db"}, CrashReceiving(s, step)
        PROVE  StampInv'
    <2>1. Head(inbox[s]).update \in Known \cap Update
      BY <1>1, ReceivedUpdates, KnownType DEF CrashReceiving, Receives, Updating, TypeInv
    <2> QED
      BY <1>1, <2>1, StampBreaks DEF CrashReceiving
  <1>2. ASSUME NEW step \in {"log", "head", "db"}, NEW r \in ClientRequests,
               CrashRequested(s, r, step)
        PROVE  StampInv'
    <2> DEFINE u == NewUpdate(s, r)
    <2>1. u \in Update /\ u.server_id = s /\ u.lts = lts[s] + 1
      BY <1>2, RequestsType, NewUpdateType DEF CrashRequested, TypeInv, NewUpdate
    <2>2. DiesApplying(s, u, Reached(step)) /\ up[s]
      BY <1>2 DEF CrashRequested, DiesApplying, Dies
    <2> HIDE DEF u
    <2>3. head[s].lts <= lts[s] /\ head[s].lts \in Nat /\ lts[s] \in Nat
      BY <2>2 DEF StampInv, HeadBehind, HeadType, HeadRecord, TypeInv, TypeOK, ClockType
    <2>4. u.lts > head[s].lts
      BY <2>1, <2>3
    <2> QED
      BY <2>1, <2>2, <2>4, StampBreaks
  <1>3. ASSUME NEW b \in Board, NEW logged \in BOOLEAN, CrashCreating(s, b, logged)
        PROVE  StampInv'
    BY <1>3, StampDies DEF CrashCreating
  <1> QED
    BY <1>1, <1>2, <1>3

LEMMA StampStep ==
  ASSUME TypeInv, TypeInv', HeadType, HeadType', StampInv, [RecoveryNext]_allVars
  PROVE  StampInv'
PROOF
  <1>1. ASSUME UNCHANGED <<clockVars, log, up, head, torn>>,
               \A t \in Server : Updates(inbox'[t]) \subseteq Known
        PROVE  StampInv'
    <2>1. \A t \in Server : up'[t] => head[t].lts <= lts'[t]
      BY <1>1 DEF StampInv, HeadBehind, clockVars
    <2> QED
      BY <1>1, <2>1, StampQuiet
  <1>2. CASE UNCHANGED allVars
    <2>1. UNCHANGED <<clockVars, log, up, head, torn, inbox>>
      BY <1>2 DEF allVars, vars, fileVars, recoveryVars
    <2>2. \A t \in Server : Updates(inbox'[t]) \subseteq Known
      BY <2>1, KnownParts, CarriedUpdates
    <2> QED
      BY <1>1, <2>1, <2>2
  <1>3. ASSUME NEW s \in Server, Synchronise(s) PROVE StampInv'
    <2>1. /\ UNCHANGED <<clockVars, log>>
          /\ \A t \in Server : Updates(inbox'[t]) \subseteq Known
      BY <1>3, SynchronisationQuiet DEF Synchronise
    <2>2. UNCHANGED <<up, head, torn>>
      BY <1>3 DEF Synchronise, RecvMembership, RecvVector, RecvSyncEnd, SendUpdate,
                  SendSyncEnd, recoveryVars
    <2> QED
      BY <1>1, <2>1, <2>2
  <1>4. ASSUME NEW s \in Server,
               \/ \E D \in SUBSET Server : Split(s, D) /\ UNCHANGED recoveryVars
               \/ \E r \in Server : Merge(s, r) /\ UNCHANGED recoveryVars
               \/ Missed(s)
        PROVE  StampInv'
    <2>1. /\ UNCHANGED <<clockVars, log>>
          /\ \A t \in Server : Updates(inbox'[t]) \subseteq Known
      BY <1>4, NetworkQuiet DEF TypeInv, Missed
    <2>2. UNCHANGED <<up, head, torn>>
      BY <1>4 DEF Split, Merge, NetworkChange, Missed, Disconnect, recoveryVars
    <2> QED
      BY <1>1, <2>1, <2>2
  <1>5. CASE Partitioning /\ UNCHANGED recoveryVars
    <2>1. \A t \in Server : comp[t] \subseteq Server
      BY DEF TypeInv, TypeOK, NetType
    <2>2. \E t \in Server : \/ \E D \in SUBSET Server : Split(t, D)
                            \/ \E r \in Server : Merge(t, r)
      BY <1>5, <2>1 DEF Partitioning
    <2> QED
      BY <1>4, <1>5, <2>2
  <1>6. ASSUME NEW s \in Server, CrashBetween(s) PROVE StampInv'
    BY <1>6, StampDies DEF CrashBetween, fileVars
  <1>7. CASE RecoveryNext /\ ~ (Partitioning /\ UNCHANGED recoveryVars)
    BY <1>3, <1>4, <1>6, <1>7, StampReceives, StampAsks, StampReturns, StampCrashes
       DEF RecoveryNext
  <1> QED
    BY <1>2, <1>5, <1>7

LEMMA StampStart == RecoveryInit => StampInv
PROOF
  <1> SUFFICES ASSUME RecoveryInit PROVE StampInv
    OBVIOUS
  <1>1. Known = {}
    BY DEF RecoveryInit, Init, Known, Logged, Carried
  <1>2. HeadBehind
    BY DEF RecoveryInit, Init, HeadBehind, Memory
  <1> QED
    BY <1>1, <1>2 DEF StampInv, SameKeyIsTorn, HeadPast

--------------------------------------------------------------------------------
(* The crashes that break nothing *)

\* The boards a server has, it keeps, whatever the step.
LEMMA FilesGrow ==
  ASSUME TypeInv, FileSteps, NEW s \in Server
  PROVE  DOMAIN db[s] \subseteq DOMAIN db'[s]
PROOF
  <1> DEFINE Goal == DOMAIN db[s] \subseteq DOMAIN db'[s]
  <1>1. ASSUME NEW r \in Server, NEW F, DOMAIN db[r] \subseteq DOMAIN F, db' = [db EXCEPT ![r] = F]
        PROVE  Goal
    BY <1>1 DEF TypeInv, TypeOK, FileType
  <1>2. UNCHANGED db => Goal
    OBVIOUS
  <1>3. ASSUME NEW r, NEW b PROVE DOMAIN db[r] \subseteq DOMAIN WithFile(db[r], b)
    BY DEF WithFile
  <1>4. ASSUME NEW r, NEW u PROVE DOMAIN db[r] \subseteq DOMAIN Applied(db[r], u)
    BY <1>3 DEF Applied
  <1> HIDE DEF Goal
  <1>5. ASSUME NEW r \in Server, NEW u, Applies(r, u) \/ Breaks(r, u) PROVE Goal
    <2>1. UNCHANGED db \/ db' = [db EXCEPT ![r] = Applied(db[r], u)]
      BY <1>5 DEF Applies, ApplyUpdate, Breaks
    <2> QED
      BY <1>1, <1>2, <1>4, <2>1
  <1>6. ASSUME NEW r \in Server, NEW b, Opens(r, b) PROVE Goal
    <2>1. db' = [db EXCEPT ![r] = WithFile(db[r], b)]
      BY <1>6 DEF Opens
    <2> QED
      BY <1>1, <1>3, <2>1
  <1> QED
    BY <1>2, <1>5, <1>6 DEF FileSteps, filesAndHead, Returns, Goal

\* The boards there were at the start, every server still has.
BoardsHeld == \A s \in Server : InitialBoards \subseteq DOMAIN db[s]

LEMMA BoardsHeldStep ==
  ASSUME TypeInv, FileSteps, BoardsHeld
  PROVE  BoardsHeld' /\ (NoBoardCreated' => NoBoardCreated)
PROOF
  BY FilesGrow DEF BoardsHeld, NoBoardCreated

\* What is broken stays so.
LEMMA UnbrokenBefore ==
  ASSUME TypeInv, FileSteps, BoardsHeld, [RecoveryNext]_allVars, Unbroken'
  PROVE  Unbroken
PROOF
  <1>1. NoBoardCreated
    BY BoardsHeldStep DEF Unbroken
  <1>2. ASSUME NEW s \in Server, NEW u, Applying(s, u) \/ \E files : DiesApplying(s, u, files)
        PROVE  (rough => rough') /\ torn \subseteq torn'
    BY <1>2 DEF Applying, DiesApplying, Dies
  <1>3. (rough => rough') /\ torn \subseteq torn'
    <2>1. CASE UNCHANGED recoveryVars
      BY <2>1 DEF recoveryVars
    <2>2. ASSUME NEW s \in Server, Receive(s) PROVE (rough => rough') /\ torn \subseteq torn'
      BY <1>2, <2>2 DEF Receive
    <2>3. ASSUME NEW s \in Server, NEW r \in ClientRequests, Ask(s, r)
          PROVE  (rough => rough') /\ torn \subseteq torn'
      BY <1>2, <2>1, <2>3 DEF Ask
    <2>4. ASSUME NEW s \in Server,
                 \/ CrashBetween(s) \/ Missed(s) \/ \E r \in Server : Restart(s, r)
                 \/ \E b \in Board, logged \in BOOLEAN : CrashCreating(s, b, logged)
          PROVE  (rough => rough') /\ torn \subseteq torn'
      BY <2>4 DEF CrashBetween, Missed, Restart, CrashCreating, Dies
    <2>5. ASSUME NEW s \in Server, NEW step \in {"log", "head", "db"},
                 CrashReceiving(s, step) \/ \E r \in ClientRequests : CrashRequested(s, r, step)
          PROVE  (rough => rough') /\ torn \subseteq torn'
      BY <1>2, <2>5 DEF CrashReceiving, CrashRequested
    <2>6. CASE UNCHANGED allVars
      BY <2>1, <2>6 DEF allVars
    <2>7. ASSUME NEW s \in Server, Synchronise(s) PROVE UNCHANGED recoveryVars
      BY <2>7 DEF Synchronise
    <2> QED
      BY <2>1, <2>2, <2>3, <2>4, <2>5, <2>6, <2>7 DEF RecoveryNext
  <1> QED
    BY <1>1, <1>3 DEF Unbroken

\* In such a step no server dies in apply_update or in get_db.
LEMMA UnbrokenSteps ==
  ASSUME TypeInv, FileSteps, BoardsHeld, [RecoveryNext]_allVars, Unbroken'
  PROVE  \/ \E s \in Server :
              \/ Receive(s) \/ Synchronise(s) \/ \E r \in ClientRequests : Ask(s, r)
              \/ CrashBetween(s) \/ Missed(s) \/ \E r \in Server : Restart(s, r)
         \/ Partitioning /\ UNCHANGED recoveryVars
         \/ UNCHANGED allVars
PROOF
  <1>1. torn' = {} /\ NoBoardCreated /\ NoBoardCreated'
    BY UnbrokenBefore DEF Unbroken
  <1>2. ASSUME NEW s \in Server, NEW step \in {"log", "head", "db"},
               CrashReceiving(s, step) \/ \E r \in ClientRequests : CrashRequested(s, r, step)
        PROVE  FALSE
    BY <1>1, <1>2 DEF CrashReceiving, CrashRequested, DiesApplying
  <1>3. ASSUME NEW s \in Server, NEW b \in Board, NEW logged \in BOOLEAN, CrashCreating(s, b, logged)
        PROVE  FALSE
    <2>1. db'[s] = WithFile(db[s], b) /\ b \notin DOMAIN db[s]
      BY <1>3 DEF CrashCreating, TypeInv, TypeOK, FileType
    <2>2. b \in DOMAIN db'[s]
      BY <2>1 DEF WithFile
    <2> QED
      BY <1>1, <2>1, <2>2 DEF NoBoardCreated
  <1> QED
    BY <1>2, <1>3 DEF RecoveryNext

--------------------------------------------------------------------------------
(* What the servers do without a crash *)

\* A discarded update leaves the clock alone: the log has it already.
LEMMA DiscardedIsLogged ==
  ASSUME CoreStateInv, NEW s \in Server, NEW u \in Known, ~ Accepted(s, u)
  PROVE  u \in Logged(s) /\ Later(u.lts, lts[s]) = lts[s]
PROOF
  <1>1. TypeOK /\ LogIsPrefix /\ ClockCoversLog
    BY DEF CoreStateInv, TypeInv, CoreInv, OrderInv, LogInv
  <1>2. /\ u.lts \in Nat /\ u.update_num \in Nat /\ u.server_id \in Server
        /\ lts[s] \in Nat /\ server_lts[s][u.server_id] \in Nat /\ server_updates[s][u.server_id] \in Nat
    BY <1>1, KnownFacts DEF TypeOK, ClockType, Vector
  <1>3. \/ u.lts <= server_lts[s][u.server_id]
        \/ u.update_num <= server_updates[s][u.server_id]
    BY <1>2 DEF Accepted
  <1>4. u \in Logged(s)
    BY <1>1, <1>3 DEF LogIsPrefix
  <1> QED
    BY <1>1, <1>2, <1>4 DEF ClockCoversLog, Later

\* After apply_update the head record is what is in memory.
LEMMA AppliedHead ==
  ASSUME CoreStateInv, HeadType, HeadIsMemory, NEW s \in Server, NEW u \in Known,
         ApplyUpdate(s, u), Applying(s, u), UNCHANGED update_seq \/ Accepted(s, u),
         \A t \in Server : t # s => update_seq'[t] = update_seq[t]
  PROVE  HeadIsMemory'
PROOF
  <1>1. TypeOK /\ u \in Update
    BY KnownFacts DEF CoreStateInv, TypeInv
  <1>2. \A t \in Server : t # s => Memory(t)' = Memory(t)
    BY <1>1, ApplyUpdateEffect DEF Memory
  <1>3. CASE Accepted(s, u)
    <2>1. log'[s] = Append(log[s], u) /\ log[s] \in Seq(Update)
      BY <1>1, <1>3 DEF ApplyUpdate, Extended, TypeOK, FileType
    <2>2. log'[s] # log[s]
      <3>1. Len(log'[s]) = Len(log[s]) + 1 /\ Len(log[s]) \in Nat
        BY <1>1, <2>1, AppendProperties, LenProperties
      <3> QED
        BY <3>1
    <2>3. head' = [head EXCEPT ![s] = Memory(s)']
      BY <2>2 DEF Applying, HeadWritten
    <2> QED
      BY <1>2, <2>3 DEF HeadIsMemory, HeadType
  <1>4. CASE ~ Accepted(s, u)
    <2>1. UNCHANGED <<log, server_lts, server_updates, update_seq, head>>
      BY <1>4 DEF ApplyUpdate, Applying
    <2>2. lts'[s] = lts[s]
      BY <1>1, <1>4, DiscardedIsLogged, ApplyUpdateEffect DEF TypeOK, ClockType
    <2> QED
      BY <1>2, <2>1, <2>2 DEF HeadIsMemory, Memory
  <1> QED
    BY <1>3, <1>4

\* Receiving, synchronising and asking are steps of the calm replication, after which
\* the head record is what is in memory.
LEMMA CalmKeepsHead ==
  ASSUME CoreStateInv, HeadType, HeadIsMemory, NoBoardCreated', NEW s \in Server,
         Receive(s) \/ Synchronise(s) \/ \E r \in ClientRequests : Ask(s, r)
  PROVE  CalmNext /\ HeadIsMemory'
PROOF
  <1>0. TypeOK /\ ControlInv
    BY DEF CoreStateInv, TypeInv, CoreInv
  <1>1. CASE Receive(s)
    <2> DEFINE u == Head(inbox[s]).update
    <2>1. /\ RecvUpdate(s) \/ RecvSyncUpdate(s)
          /\ UNCHANGED <<update_seq, pc>> /\ inbox[s] # <<>> /\ Head(inbox[s]).type \in Updating
      BY <1>1 DEF Receive, RecvUpdate, RecvSyncUpdate, Receives, Updating, loopVars
    <2>2. u \in Known /\ Applying(s, u)
      BY <1>0, <1>1, <2>1, ReceivedUpdates DEF Receive
    <2>3. DistinctMaxima(s)
      BY <2>1 DEF DistinctMaxima
    <2>4. ApplyUpdate(s, u) \/ UNCHANGED <<lts, server_lts, server_updates, log>>
      BY <2>1 DEF RecvUpdate, RecvSyncUpdate, fileVars
    <2>5. CASE ApplyUpdate(s, u)
      BY <2>1, <2>2, <2>3, <2>5, AppliedHead DEF CalmNext, ServerStep
    <2>6. CASE UNCHANGED <<lts, server_lts, server_updates, log>>
      <3>1. UNCHANGED head
        BY <2>2, <2>6 DEF Applying
      <3> QED
        BY <2>1, <2>3, <2>6, <3>1 DEF CalmNext, ServerStep, HeadIsMemory, Memory
    <2> QED
      BY <2>4, <2>5, <2>6
  <1>2. CASE Synchronise(s)
    <2>1. /\ RecvMembership(s) \/ RecvVector(s) \/ RecvSyncEnd(s) \/ SendUpdate(s) \/ SendSyncEnd(s)
          /\ UNCHANGED head
      BY <1>2 DEF Synchronise, recoveryVars
    <2>2. UNCHANGED clockVars
      BY <1>0, <2>1, QuietSteps DEF SendUpdate
    <2>3. HeadIsMemory'
      BY <2>1, <2>2 DEF HeadIsMemory, Memory, clockVars
    <2>4. DistinctMaxima(s)
      <3>1. pc'[s] # "sending" \/ pc[s] # "idle" \/ (RecvVector(s) /\ DistinctMaxima(s))
        <4>1. pc \in [Server -> {"idle", "sending", "draining"}]
          BY <1>0 DEF TypeOK, LoopType
        <4>2. CASE RecvMembership(s)
          BY <4>1, <4>2 DEF RecvMembership, loopVars
        <4>3. CASE RecvSyncEnd(s)
          <5>1. UNCHANGED pc \/ pc' = [pc EXCEPT ![s] = AfterSync(s)]
            BY <4>3 DEF RecvSyncEnd, loopVars
          <5> QED
            BY <4>1, <5>1 DEF AfterSync
        <4>4. CASE SendUpdate(s) \/ SendSyncEnd(s)
          BY <4>4 DEF SendUpdate, SendSyncEnd
        <4> QED
          BY <1>2, <4>2, <4>3, <4>4 DEF Synchronise
      <3> QED
        BY <3>1 DEF DistinctMaxima
    <2> QED
      BY <2>1, <2>3, <2>4 DEF CalmNext, ServerStep
  <1>3. ASSUME NEW r \in ClientRequests, Ask(s, r) PROVE CalmNext /\ HeadIsMemory'
    <2>1. /\ QuietClients(s) /\ ClientRequest(s, r)
          /\ IF r.op = "j" THEN UNCHANGED recoveryVars ELSE Applying(s, NewUpdate(s, r))
      BY <1>3 DEF Ask
    <2>2. CalmNext
      BY <2>1 DEF CalmNext, Requesting
    <2>3. UNCHANGED <<clockVars, fileVars, inbox>> \/ Posts(s, r)
      BY <2>1, RequestEffect
    <2>4. CASE r.op = "j"
      <3>1. HandleClientReq(s, r) /\ UNCHANGED head /\ NoBoardCreated
        BY <2>1, <2>4 DEF ClientRequest, recoveryVars, CoreStateInv, CoreInv, ControlInv, Undisturbed
      <3>2. r.db_name \in DOMAIN db[s]
        <4> SUFFICES ASSUME r.db_name \notin DOMAIN db[s] PROVE FALSE
          OBVIOUS
        <4>1. db'[s] = WithFile(db[s], r.db_name)
          BY <1>0, <2>4, <3>1 DEF HandleClientReq, JoinDb, CreateBoard, TypeOK, FileType
        <4> QED
          BY <3>1, <4>1 DEF WithFile, NoBoardCreated
      <3>3. UNCHANGED clockVars
        BY <2>4, <3>1, <3>2 DEF HandleClientReq, JoinDb
      <3> QED
        BY <2>2, <3>1, <3>3 DEF HeadIsMemory, Memory, clockVars
    <2>5. CASE r.op # "j"
      <3> DEFINE u == NewUpdate(s, r)
      <3>1. /\ ApplyUpdate(s, u) /\ Applying(s, u)
            /\ update_seq' = [update_seq EXCEPT ![s] = update_seq[s] + 1]
        BY <2>1, <2>5 DEF ClientRequest, HandleClientReq, UpdateReplicas
      <3>2. Accepted(s, u)
        BY <2>1 DEF QuietClients, Accepted
      <3>3. u \in Update
        BY <1>0, <2>1, <2>5, RequestsType, NewUpdateType
      <3>4. \A t \in Server : t # s => Memory(t)' = Memory(t)
        BY <1>0, <3>1, <3>3, ApplyUpdateEffect DEF Memory, TypeOK, ClockType
      <3>5. log'[s] # log[s]
        <4>1. log'[s] = Append(log[s], u) /\ log[s] \in Seq(Update)
          BY <1>0, <3>1, <3>2 DEF ApplyUpdate, Extended, TypeOK, FileType
        <4>2. Len(log'[s]) = Len(log[s]) + 1 /\ Len(log[s]) \in Nat
          BY <3>3, <4>1, AppendProperties, LenProperties
        <4> QED
          BY <4>2
      <3>6. head' = [head EXCEPT ![s] = Memory(s)']
        BY <3>1, <3>5 DEF Applying, HeadWritten
      <3>7. HeadIsMemory'
        BY <3>4, <3>6 DEF HeadIsMemory, HeadType
      <3> QED
        BY <2>2, <3>7
    <2> QED
      BY <2>4, <2>5
  <1> QED
    BY <1>1, <1>2, <1>3

--------------------------------------------------------------------------------
(* A server that dies, leaves and comes back *)

\* To the others, one that has died is silent; one that was alone is gone.
LEMMA DiesShape ==
  ASSUME TypeOK, ControlInv, NEW s \in Server, CrashBetween(s), ~ rough'
  PROVE  \E A \in SUBSET Server : Repartitioned(A)
PROOF
  <1>1. /\ up' = [up EXCEPT ![s] = FALSE] /\ Settled(s) /\ up \in [Server -> BOOLEAN]
        /\ UNCHANGED <<clockVars, fileVars, syncVars, loopVars, served, netVars, inbox>>
    BY DEF CrashBetween, Dies, TypeOK, ProcessType
  <1>2. /\ UNCHANGED <<syncOn, vector_rcvd, syncEnd_rcvd, num_memb, summary, server_view>>
        /\ UNCHANGED <<pc, job, queue, comp, inbox>>
    BY <1>1 DEF syncVars, loopVars, netVars
  <1>3. Components
    BY DEF ControlInv
  <1>4. ASSUME NEW t \in Server, t # s \/ comp[s] # {s} PROVE Untouched(t)
    BY <1>1, <1>2, <1>4 DEF Untouched, Gone
  <1>5. CASE comp[s] # {s}
    BY <1>1, <1>4, <1>5 DEF Repartitioned
  <1>6. CASE comp[s] = {s}
    <2>1. /\ pc'[s] = "idle" /\ ~ syncOn'[s] /\ queue'[s] = <<>> /\ job'[s] = {}
          /\ OnlyUpdates(inbox[s])
      BY <1>1, <1>2, <1>6, SettledRests
    <2>2. ~ Fresh(s)'
      BY <1>1, <1>2, <1>6 DEF Fresh, Gone
    <2>3. \A t \in Server : t # s => \A r \in comp[t] : r # s
      BY <1>3, <1>6 DEF Components
    <2>4. Repartitioned({s})
      BY <1>1, <1>2, <1>4, <1>6, <2>1, <2>2, <2>3 DEF Repartitioned
    <2> QED
      BY <2>4
  <1> QED
    BY <1>5, <1>6

\* When the daemon notices it, the others are parted from it.
LEMMA MissedShape ==
  ASSUME TypeOK, ControlInv, NEW s \in Server, Missed(s), ~ rough'
  PROVE  Repartitioned(comp[s])
PROOF
  <1>1. /\ comp \in [Server -> SUBSET Server] /\ inbox \in [Server -> Seq(Message)]
        /\ \A t \in Server : t \in comp[t] /\ \A r \in comp[t] : r \in Server /\ comp[r] = comp[t]
    BY DEF TypeOK, NetType, ControlInv, Components
  <1>2. /\ ~ up[s] /\ comp[s] # {s} /\ Settled(s)
        /\ comp' = [t \in Server |-> IF t = s THEN {s} ELSE comp[t] \ {s}]
        /\ UNCHANGED <<clockVars, fileVars, syncVars, loopVars, up, clientVars>>
    BY DEF Missed, Disconnect
  <1>3. \A t \in Server : inbox'[t] = IF t = s THEN <<>>
                                      ELSE IF t \in comp[s] THEN Append(inbox[t], MembOf(t)) ELSE inbox[t]
    BY DEF Missed, Disconnect, MembOf
  <1>4. /\ UNCHANGED <<syncOn, vector_rcvd, syncEnd_rcvd, num_memb, summary, server_view>>
        /\ UNCHANGED <<pc, job, queue, up, served>>
    BY <1>2 DEF syncVars, loopVars, clientVars
  <1>5. ASSUME NEW t \in Server, t \in comp[s]
        PROVE  /\ comp'[t] \in SUBSET Server /\ t \in comp'[t]
               /\ \A r \in comp'[t] : r \in comp[s] /\ comp'[r] = comp'[t]
    BY <1>1, <1>2, <1>5
  <1>6. ASSUME NEW t \in Server, t \in comp[s]
        PROVE  /\ pc'[t] = "idle" /\ ~ syncOn'[t] /\ queue'[t] = <<>> /\ job'[t] = {} /\ ~ Fresh(t)'
               /\ \E q \in {inbox[t], <<>>} : OnlyUpdates(q) /\ inbox'[t] \in {q, Append(q, MembOf(t))}
    <2>1. /\ pc'[t] = "idle" /\ ~ syncOn'[t] /\ queue'[t] = <<>> /\ job'[t] = {}
          /\ OnlyUpdates(inbox[t])
      BY <1>2, <1>4, <1>6, SettledRests
    <2>2. CASE t = s
      <3>1. inbox'[t] = <<>> /\ OnlyUpdates(<<>>) /\ ~ Fresh(t)'
        BY <1>2, <1>3, <1>4, <2>2 DEF OnlyUpdates, Fresh, Gone
      <3> QED
        BY <2>1, <3>1
    <2>3. CASE t # s
      <3>1. MembOf(t) \in Message
        BY <1>5, <1>6, NewMessages DEF MembOf
      <3>2. inbox'[t] = Append(inbox[t], MembOf(t)) /\ inbox[t] \in Seq(Message)
        BY <1>1, <1>3, <1>6, <2>3
      <3> QED
        BY <2>1, <3>1, <3>2, MembWaits
    <2> QED
      BY <2>2, <2>3
  <1>7. ASSUME NEW t \in Server, t \notin comp[s]
        PROVE  Untouched(t) /\ \A r \in comp[t] : r \notin comp[s]
    <2>1. t # s /\ s \notin comp[t] /\ \A r \in comp[t] : r \notin comp[s]
      BY <1>1, <1>7
    <2>2. comp'[t] = comp[t] /\ inbox'[t] = inbox[t]
      BY <1>2, <1>3, <1>7, <2>1
    <2> QED
      BY <1>4, <2>1, <2>2 DEF Untouched, Gone
  <1> QED
    BY <1>2, <1>4, <1>5, <1>6, <1>7 DEF Repartitioned

\* When it comes back it has in memory what it had, and a membership to read.
LEMMA RestartShape ==
  ASSUME TypeOK, HeadType, HeadIsMemory, ControlInv, NEW s \in Server, NEW r \in Server,
         Restart(s, r), ~ rough'
  PROVE  Repartitioned(comp[r] \cup {s})
PROOF
  <1> DEFINE A == comp[r] \cup {s}
  <1>1. /\ comp \in [Server -> SUBSET Server] /\ inbox \in [Server -> Seq(Message)]
        /\ \A t \in Server : t \in comp[t] /\ \A o \in comp[t] : o \in Server /\ comp[o] = comp[t]
    BY DEF TypeOK, NetType, ControlInv, Components
  <1>2. ~ up[s] /\ comp[s] = {s} /\ (r # s => Settled(r))
    BY DEF Restart
  <1>3. UNCHANGED <<clockVars, fileVars, served>>
    <2>1. /\ lts' = [lts EXCEPT ![s] = lts[s]]
          /\ update_seq' = [update_seq EXCEPT ![s] = update_seq[s]]
          /\ server_lts' = [server_lts EXCEPT ![s] = server_lts[s]]
          /\ server_updates' = [server_updates EXCEPT ![s] = server_updates[s]]
      <3>1. head[s] = Memory(s)
        BY DEF HeadIsMemory
      <3>2. /\ head[s].lts = lts[s] /\ head[s].update_seq = update_seq[s]
            /\ head[s].server_lts = server_lts[s] /\ head[s].server_updates = server_updates[s]
        BY <3>1 DEF Memory
      <3> QED
        BY <3>2 DEF Restart, Remembered
    <2>2. UNCHANGED clockVars
      BY <2>1 DEF TypeOK, ClockType, clockVars
    <2> QED
      BY <2>2 DEF Restart, clientVars
  <1>4. /\ comp' = [t \in Server |-> IF t \in A THEN A ELSE comp[t]]
        /\ \A t \in Server : inbox'[t] =
             IF t \in A THEN Append(IF t = s THEN <<>> ELSE inbox[t], [type |-> "Memb", members |-> A])
                        ELSE inbox[t]
    BY DEF Restart
  <1>5. \A t \in Server : t \in A => comp'[t] = A /\ MembOf(t) = [type |-> "Memb", members |-> A]
    BY <1>4 DEF MembOf
  <1>6. A \in SUBSET Server /\ \A t \in Server : t \notin A => t # s /\ \A o \in comp[t] : o \notin A
    BY <1>1, <1>2
  <1> HIDE DEF A
  <1>7. /\ pc'[s] = "idle" /\ ~ syncOn'[s] /\ queue'[s] = <<>> /\ job'[s] = {} /\ s \in A
        /\ \A t \in Server : t # s =>
             /\ syncOn'[t] = syncOn[t] /\ vector_rcvd'[t] = vector_rcvd[t]
             /\ syncEnd_rcvd'[t] = syncEnd_rcvd[t] /\ num_memb'[t] = num_memb[t]
             /\ summary'[t] = summary[t] /\ server_view'[t] = server_view[t]
             /\ pc'[t] = pc[t] /\ job'[t] = job[t] /\ queue'[t] = queue[t] /\ up'[t] = up[t]
    BY DEF A, Restart, TypeOK, SyncType, LoopType, ProcessType
  <1>8. ASSUME NEW t \in Server, t \in A
        PROVE  /\ pc'[t] = "idle" /\ ~ syncOn'[t] /\ queue'[t] = <<>> /\ job'[t] = {} /\ ~ Fresh(t)'
               /\ \E q \in {inbox[t], <<>>} : OnlyUpdates(q) /\ inbox'[t] \in {q, Append(q, MembOf(t))}
    <2>1. MembOf(t) \in Message
      BY <1>5, <1>6, <1>8, NewMessages
    <2>2. CASE t = s
      <3>1. inbox'[t] = Append(<<>>, MembOf(t))
        BY <1>4, <1>5, <1>8, <2>2
      <3>2. OnlyUpdates(<<>>) /\ <<>> \in Seq(Message)
        BY EmptySeq DEF OnlyUpdates
      <3> QED
        BY <1>7, <2>1, <2>2, <3>1, <3>2, MembWaits
    <2>3. CASE t # s
      <3>1. t \in comp[r] /\ r # s
        BY <1>2, <1>8, <2>3 DEF A
      <3>2. /\ pc[t] = "idle" /\ ~ syncOn[t] /\ queue[t] = <<>> /\ job[t] = {}
            /\ OnlyUpdates(inbox[t])
        BY <1>2, <3>1, SettledRests
      <3>3. inbox'[t] = Append(inbox[t], MembOf(t)) /\ inbox[t] \in Seq(Message)
        BY <1>1, <1>4, <1>5, <1>8, <2>3
      <3> QED
        BY <1>7, <2>1, <2>3, <3>2, <3>3, MembWaits
    <2> QED
      BY <2>2, <2>3
  <1>9. ASSUME NEW t \in Server, t \notin A
        PROVE  Untouched(t) /\ \A o \in comp[t] : o \notin A
    <2>1. t # s /\ comp'[t] = comp[t] /\ inbox'[t] = inbox[t] /\ \A o \in comp[t] : o \notin A
      BY <1>4, <1>6, <1>9
    <2> QED
      BY <1>7, <2>1 DEF Untouched, Gone
  <1>10. ASSUME NEW t \in Server, t \in A
         PROVE  /\ comp'[t] \in SUBSET Server /\ t \in comp'[t]
                /\ \A o \in comp'[t] : o \in A /\ comp'[o] = comp'[t]
    BY <1>5, <1>6, <1>10
  <1>11. Repartitioned(A)
    BY <1>3, <1>8, <1>9, <1>10 DEF Repartitioned
  <1> QED
    BY <1>11 DEF A

\* Whatever the cause of the new partition, the calm replication goes on in it.
LEMMA CoreRepartitioned ==
  ASSUME CoreStateInv, TypeInv', NEW A \in SUBSET Server, Repartitioned(A)
  PROVE  CoreStateInv'
PROOF
  <1>1. /\ TypeOK /\ TypeOK' /\ KeyInv /\ LogInv /\ ControlInv /\ OrderInv /\ PromiseInv /\ BoardInv
        /\ SequenceInv
    BY DEF CoreStateInv, CoreInv, TypeInv
  <1>2. UNCHANGED <<clockVars, fileVars>> /\ \A t \in Server : Fewer(inbox[t], inbox'[t])
    BY <1>1, PartitionFewer
  <1>3. ControlInv' /\ OrderInv' /\ PromiseInv' /\ BoardInv'
    BY <1>1, PartitionControl, PartitionOrder, PartitionPromise, PartitionBoard
  <1>4. SequenceInv'
    BY <1>1, <1>2, SequenceStutters DEF fileVars
  <1>5. \A t \in Server : Updates(inbox'[t]) \subseteq Known
    BY <1>1, <1>2, FewerKeeps, KnownFacts
  <1>6. KeyInv'
    BY <1>1, <1>2, <1>5, QuietStep DEF fileVars
  <1>7. LogInv'
    BY <1>1, <1>2 DEF LogInv, ClockCoversLog, VectorIsLogged, Logged, clockVars, fileVars
  <1> QED
    BY <1>3, <1>4, <1>6, <1>7 DEF CoreStateInv, CoreInv

\* A server dies, is missed or comes back.
Passes(s) == CrashBetween(s) \/ Missed(s) \/ \E r \in Server : Restart(s, r)

LEMMA PassesShape ==
  ASSUME CoreStateInv, HeadType, HeadIsMemory, NEW s \in Server, Passes(s), ~ rough'
  PROVE  UNCHANGED head /\ \E A \in SUBSET Server : Repartitioned(A)
PROOF
  <1>1. TypeOK /\ ControlInv /\ \A t \in Server : comp[t] \in SUBSET Server
    BY DEF CoreStateInv, TypeInv, TypeOK, NetType, CoreInv
  <1>2. CASE CrashBetween(s)
    BY <1>1, <1>2, DiesShape DEF CrashBetween
  <1>3. CASE Missed(s)
    BY <1>1, <1>3, MissedShape DEF Missed
  <1>4. ASSUME NEW r \in Server, Restart(s, r)
        PROVE  UNCHANGED head /\ \E A \in SUBSET Server : Repartitioned(A)
    <2>1. Repartitioned(comp[r] \cup {s}) /\ comp[r] \cup {s} \in SUBSET Server
      BY <1>1, <1>4, RestartShape
    <2> QED
      BY <1>4, <2>1 DEF Restart
  <1> QED
    BY <1>2, <1>3, <1>4 DEF Passes

\* Until something breaks, each step is one of the calm replication or changes the
\* partition only.
LEMMA UnbrokenIsCalm ==
  ASSUME CoreStateInv, HeadType, HeadIsMemory, BoardsHeld, FileSteps, [RecoveryNext]_allVars, Unbroken'
  PROVE  /\ HeadIsMemory' /\ NoBoardCreated'
         /\ [CalmNext]_vars \/ \E A \in SUBSET Server : Repartitioned(A)
PROOF
  <1>1. TypeInv /\ NoBoardCreated' /\ ~ rough'
    BY DEF CoreStateInv, Unbroken
  <1>2. ASSUME NEW s \in Server, Receive(s) \/ Synchronise(s) \/ \E r \in ClientRequests : Ask(s, r)
        PROVE  CalmNext /\ HeadIsMemory'
    BY <1>1, <1>2, CalmKeepsHead
  <1>3. ASSUME NEW s \in Server, Passes(s)
        PROVE  HeadIsMemory' /\ \E A \in SUBSET Server : Repartitioned(A)
    <2>1. UNCHANGED head /\ \E A \in SUBSET Server : Repartitioned(A)
      BY <1>1, <1>3, PassesShape
    <2>2. UNCHANGED clockVars
      BY <2>1 DEF Repartitioned
    <2> QED
      BY <2>1, <2>2 DEF HeadIsMemory, Memory, clockVars
  <1>4. CASE Partitioning /\ UNCHANGED recoveryVars
    <2>1. CalmNext /\ UNCHANGED head
      BY <1>4 DEF CalmNext, recoveryVars
    <2>2. UNCHANGED clockVars
      BY <1>4 DEF Partitioning, Split, Merge, NetworkChange
    <2>3. HeadIsMemory'
      BY <2>1, <2>2 DEF HeadIsMemory, Memory, clockVars
    <2> QED
      BY <1>1, <2>1, <2>3
  <1>5. CASE UNCHANGED allVars
    <2>1. UNCHANGED vars /\ UNCHANGED clockVars /\ UNCHANGED head
      BY <1>5 DEF allVars, vars, recoveryVars
    <2>2. HeadIsMemory'
      BY <2>1 DEF HeadIsMemory, Memory, clockVars
    <2>3. [CalmNext]_vars
      BY <2>1
    <2> QED
      BY <1>1, <2>2, <2>3
  <1>6. \/ \E s \in Server :
              \/ Receive(s) \/ Synchronise(s) \/ \E r \in ClientRequests : Ask(s, r)
              \/ Passes(s)
        \/ Partitioning /\ UNCHANGED recoveryVars
        \/ UNCHANGED allVars
    BY <1>1, UnbrokenSteps DEF Passes
  <1> QED
    BY <1>1, <1>2, <1>3, <1>4, <1>5, <1>6

SurvivalInv == BoardsHeld /\ (Unbroken => CoreStateInv /\ HeadIsMemory)

LEMMA SurvivalInit == RecoveryInit => SurvivalInv
PROOF
  <1> SUFFICES ASSUME RecoveryInit PROVE SurvivalInv
    OBVIOUS
  <1>1. CoreStateInv /\ HeadIsMemory
    BY CoreInit DEF RecoveryInit, HeadIsMemory
  <1>2. BoardsHeld
    BY DEF RecoveryInit, Init, BoardsHeld
  <1> QED
    BY <1>1, <1>2 DEF SurvivalInv

LEMMA SurvivalStep ==
  ASSUME TypeInv, TypeInv', HeadType, SurvivalInv, FileSteps, [RecoveryNext]_allVars
  PROVE  SurvivalInv'
PROOF
  <1>1. BoardsHeld'
    BY BoardsHeldStep DEF SurvivalInv
  <1>2. ASSUME Unbroken' PROVE CoreStateInv' /\ HeadIsMemory'
    <2>1. CoreStateInv /\ HeadIsMemory /\ BoardsHeld
      BY <1>2, UnbrokenBefore DEF SurvivalInv
    <2>2. /\ HeadIsMemory' /\ NoBoardCreated'
          /\ [CalmNext]_vars \/ \E A \in SUBSET Server : Repartitioned(A)
      BY <1>2, <2>1, UnbrokenIsCalm
    <2> QED
      BY <2>1, <2>2, CoreStep, CoreRepartitioned
  <1> QED
    BY <1>1, <1>2 DEF SurvivalInv

\* Servers at rest agree after crashes as they do without.
LEMMA SurvivorsAgree == SurvivalInv => RecoversAtRest
PROOF
  <1> SUFFICES ASSUME SurvivalInv, Unbroken PROVE AgreeAtRest /\ ObjectsAgreeAtRest
    BY DEF RecoversAtRest
  <1>1. CoreStateInv
    BY DEF SurvivalInv
  <1> QED
    BY <1>1, RestingServers, RestingBoards

--------------------------------------------------------------------------------
(* The theorems *)

RecoveryInv == TypeInv /\ HeadType /\ ClaimsInv /\ FilesInv /\ StampInv /\ SurvivalInv

LEMMA RecoveryStart == RecoveryInit => RecoveryInv
PROOF
  <1> SUFFICES ASSUME RecoveryInit PROVE RecoveryInv
    OBVIOUS
  <1>1. TypeInv
    BY TypeInit DEF RecoveryInit
  <1>2. HeadType
    BY <1>1, MemoryType DEF RecoveryInit, HeadType, TypeInv, TypeOK
  <1>3. FilesInv
    BY DEF RecoveryInit, Init, FilesInv, BoardIsLogged, MissingIsTorn, Logged
  <1> QED
    BY <1>1, <1>2, <1>3, ClaimsInit, StampStart, SurvivalInit DEF RecoveryInv

LEMMA RecoveryStep == RecoveryInv /\ [RecoveryNext]_allVars => RecoveryInv'
PROOF
  <1> SUFFICES ASSUME RecoveryInv, [RecoveryNext]_allVars PROVE RecoveryInv'
    OBVIOUS
  <1>1. TypeInv /\ HeadType /\ ClaimsInv /\ FilesInv /\ StampInv /\ SurvivalInv
    BY DEF RecoveryInv
  <1>2. FileSteps /\ TypeInv' /\ HeadType'
    BY <1>1, RecoverySteps
  <1> QED
    BY <1>1, <1>2, ClaimsStep, FilesStep, StampStep, SurvivalStep DEF RecoveryInv

\* The steps that break nothing, with what holds before them.
LEMMA SurvivorStep ==
  ASSUME RecoveryInv, [RecoveryNext]_allVars, Unbroken'
  PROVE  /\ CoreStateInv /\ NoBoardCreated'
         /\ [CalmNext]_vars \/ \E A \in SUBSET Server : Repartitioned(A)
PROOF
  <1>1. TypeInv /\ HeadType /\ SurvivalInv /\ BoardsHeld /\ FileSteps
    BY RecoverySteps DEF RecoveryInv, SurvivalInv
  <1>2. CoreStateInv /\ HeadIsMemory
    BY <1>1, UnbrokenBefore DEF SurvivalInv
  <1> QED
    BY <1>1, <1>2, UnbrokenIsCalm

LEMMA RecoveryHolds == RecoverySpec => []RecoveryInv
PROOF
  BY RecoveryStart, RecoveryStep, PTL DEF RecoverySpec

\* Wherever in apply_update a server dies, the head record it starts from again
\* claims no update that its log does not hold.
THEOREM HeadsAreLogged == RecoverySpec => []HeadIsLogged
PROOF
  <1>1. RecoveryInv => HeadIsLogged
    BY DEF RecoveryInv, ClaimsInv
  <1> QED
    BY <1>1, RecoveryHolds, PTL

\* ... so that after a restart as before, what its vector claims is in its log.
THEOREM VectorsStayLogged == RecoverySpec => []VectorIsLogged
PROOF
  <1>1. RecoveryInv => VectorIsLogged
    BY DEF RecoveryInv, ClaimsInv
  <1> QED
    BY <1>1, RecoveryHolds, PTL

\* A board file shows no object whose creation is not in the log of the server.
THEOREM BoardsAreLogged == RecoverySpec => []BoardIsLogged
PROOF
  <1>1. RecoveryInv => BoardIsLogged
    BY DEF RecoveryInv, FilesInv
  <1> QED
    BY <1>1, RecoveryHolds, PTL

\* A logged object is on its board, unless the server died while it applied it.
THEOREM OnlyTornMissing == RecoverySpec => []MissingIsTorn
PROOF
  <1>1. RecoveryInv => MissingIsTorn
    BY DEF RecoveryInv, FilesInv
  <1> QED
    BY <1>1, RecoveryHolds, PTL

\* A server that comes back stamps no update as one it has stamped before, unless it
\* died in the middle of that one, or get_db made it and left the head record alone:
\* for all others the timestamp search_log looks for belongs to one update.
THEOREM OnlyTornRestamped == RecoverySpec => []SameKeyIsTorn
PROOF
  <1>1. RecoveryInv => SameKeyIsTorn
    BY DEF RecoveryInv, StampInv
  <1> QED
    BY <1>1, RecoveryHolds, PTL

\* While no server dies in apply_update or in a synchronisation, all that is known of
\* the calm replication holds over crashes and restarts, and a server finds in its head
\* record what it had in memory: the others cannot tell its crash from a partition.
THEOREM UnbrokenInvariance == RecoverySpec => []UnbrokenInv
PROOF
  <1>1. RecoveryInv => UnbrokenInv
    BY DEF RecoveryInv, SurvivalInv, UnbrokenInv, CoreStateInv
  <1> QED
    BY <1>1, RecoveryHolds, PTL

\* Servers that die between two messages and come back from their files have, after the
\* synchronisation, the updates, the vector and the objects of all others.
THEOREM CrashesRecover == RecoverySpec => []RecoversAtRest
PROOF
  <1>1. RecoveryInv => RecoversAtRest
    BY SurvivorsAgree DEF RecoveryInv
  <1> QED
    BY <1>1, RecoveryHolds, PTL

\* Such crashes are steps of the abstract specification too, in which nothing happens:
\* over them as well the logs take up the updates of each originator one by one.
THEOREM CrashesKeepOrder == RecoverySpec => OrderSurvives
PROOF
  <1>1. RecoveryInv /\ [RecoveryNext]_allVars => (Unbroken' => [Abstract!Next]_Taken)
    <2> SUFFICES ASSUME RecoveryInv, [RecoveryNext]_allVars, Unbroken'
                 PROVE  [Abstract!Next]_Taken
      OBVIOUS
    <2>1. /\ CoreStateInv /\ SequenceInv /\ NoBoardCreated'
          /\ [CalmNext]_vars \/ \E A \in SUBSET Server : Repartitioned(A)
      BY SurvivorStep DEF CoreStateInv, CoreInv
    <2>2. CASE [CalmNext]_vars
      BY <2>1, <2>2, SequenceStep DEF Taken
    <2>3. CASE \E A \in SUBSET Server : Repartitioned(A)
      <3>1. UNCHANGED log
        BY <2>3 DEF Repartitioned, fileVars
      <3> QED
        BY <2>1, <3>1, SequenceStutters DEF Taken
    <2> QED
      BY <2>1, <2>2, <2>3
  <1> QED
    BY <1>1, RecoveryHolds, PTL DEF RecoverySpec, OrderSurvives

\* ... and no entry of a vector goes back, the restart from the head record included.
THEOREM CrashesKeepVectors ==
  RecoverySpec =>
    [][Unbroken' => \A s, o \in Server : server_lts'[s][o] >= server_lts[s][o]]_allVars
PROOF
  <1> DEFINE Onward == \A s, o \in Server : server_lts'[s][o] >= server_lts[s][o]
  <1>1. RecoveryInv /\ [RecoveryNext]_allVars => (Unbroken' => Onward)
    <2> SUFFICES ASSUME RecoveryInv, [RecoveryNext]_allVars, Unbroken', NEW s \in Server, NEW o \in Server
                 PROVE  server_lts'[s][o] >= server_lts[s][o]
      OBVIOUS
    <2>1. /\ CoreStateInv /\ TypeOK /\ NoBoardCreated'
          /\ [CalmNext]_vars \/ \E A \in SUBSET Server : Repartitioned(A)
      BY SurvivorStep DEF CoreStateInv, TypeInv
    <2>2. CASE [CalmNext]_vars
      BY <2>1, <2>2, VectorStep
    <2>3. CASE \E A \in SUBSET Server : Repartitioned(A)
      <3>1. UNCHANGED server_lts /\ server_lts[s][o] \in Nat
        BY <2>1, <2>3 DEF Repartitioned, clockVars, TypeOK, ClockType, Vector
      <3> QED
        BY <3>1
    <2> QED
      BY <2>1, <2>2, <2>3
  <1> QED
    BY <1>1, RecoveryHolds, PTL DEF RecoverySpec
================================================================================
