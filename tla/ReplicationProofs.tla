--------------------------- MODULE ReplicationProofs ---------------------------
(***************************************************************************)
(* Type correctness, the safety of the log, the log against the clock and  *)
(* the vector of its server, the buffer of requests against the            *)
(* synchronisation, and what an update changes in a board file, for any    *)
(* number of servers, boards, requests and network changes: requests       *)
(* during synchronisations, partitions at any moment and exits included.   *)
(***************************************************************************)
EXTENDS Replication, SyncJobProofs, SequenceTheorems, FiniteSetTheorems

--------------------------------------------------------------------------------
(* Sequences and sets *)

LEMMA LeastIn ==
  ASSUME NEW S, S \subseteq Nat, S # {}
  PROVE  Least(S) \in S
PROOF
  <1>1. \E i \in S : \A j \in S : i <= j
    BY LeastNatural
  <1> QED
    BY <1>1 DEF Least

\* First, the pair the loops send next, is one of the job and comes before the rest.
LEMMA FirstIn ==
  ASSUME NEW J, J \subseteq Server \X Nat, J # {}
  PROVE  First(J) \in J /\ \A q \in J : Before(First(J), q)
PROOF
  <1> DEFINE Columns == {p[1] : p \in J}
  <1>1. Columns \subseteq Nat /\ Columns # {}
    BY NAssumption DEF Server
  <1> HIDE DEF Columns
  <1>2. PICK c \in Columns : \A d \in Columns : c <= d
    BY <1>1, LeastNatural
  <1> DEFINE Times == {p[2] : p \in {p \in J : p[1] = c}}
  <1>3. Times \subseteq Nat /\ Times # {}
    BY <1>2 DEF Columns
  <1> HIDE DEF Times
  <1>4. PICK l \in Times : \A k \in Times : l <= k
    BY <1>3, LeastNatural
  <1>5. PICK p \in J : p[1] = c /\ p[2] = l
    BY <1>4 DEF Times
  <1>6. ASSUME NEW q \in J PROVE Before(p, q)
    <2>1. c <= q[1] /\ c \in Nat /\ q[1] \in Nat
      BY <1>1, <1>2 DEF Columns
    <2>2. CASE q[1] = c
      <3>1. l <= q[2]
        BY <2>2, <1>4 DEF Times
      <3> QED
        BY <2>2, <3>1, <1>5 DEF Before
    <2>3. CASE q[1] # c
      BY <2>1, <2>3, <1>5 DEF Before
    <2> QED
      BY <2>2, <2>3
  <1>7. \E x \in J : \A q \in J : Before(x, q)
    BY <1>5, <1>6
  <1> QED
    BY <1>7 DEF First

LEMMA ServersFinite ==
  ASSUME NEW V \in SUBSET Server
  PROVE  Cardinality(V) \in Nat
PROOF
  <1>1. IsFiniteSet(1 .. N)
    BY FS_Interval, NAssumption
  <1>2. IsFiniteSet(V)
    BY <1>1, FS_Subset DEF Server
  <1> QED
    BY <1>2, FS_CardinalityType

--------------------------------------------------------------------------------
(* Messages *)

LEMMA MessageParts ==
  ASSUME NEW m \in Message
  PROVE  /\ m.type \in {"Update", "SyncUpdate"} => m.update \in Update
         /\ m.type = "Vector" => m.server_index \in Server /\ m.server_vector \in Vector
         /\ m.type = "Memb" => m.members \in SUBSET Server
PROOF
  BY DEF Message

LEMMA NewMessages ==
  /\ \A u \in Update : [type |-> "Update", update |-> u] \in Message
  /\ \A u \in Update : [type |-> "SyncUpdate", update |-> u] \in Message
  /\ \A s \in Server, v \in Vector :
       [type |-> "Vector", server_index |-> s, server_vector |-> v] \in Message
  /\ [type |-> "SyncEnd"] \in Message
  /\ \A V \in SUBSET Server : [type |-> "Memb", members |-> V] \in Message
PROOF
  BY DEF Message

LEMMA MulticastType ==
  ASSUME NEW box \in [Server -> Seq(Message)], NEW s \in Server, NEW m \in Message
  PROVE  Multicast(box, s, m) \in [Server -> Seq(Message)]
PROOF
  BY AppendProperties DEF Multicast

LEMMA ReceivedType ==
  ASSUME inbox \in [Server -> Seq(Message)], NEW s \in Server, inbox[s] # <<>>
  PROVE  Received[s] \in [Server -> Seq(Message)] /\ Head(inbox[s]) \in Message
PROOF
  <1>1. Tail(inbox[s]) \in Seq(Message) /\ Head(inbox[s]) \in Message
    BY HeadTailProperties
  <1> QED
    BY <1>1 DEF Received

--------------------------------------------------------------------------------
(* Board files *)

LEMMA WithFileType ==
  ASSUME NEW boards, IsFiles(boards), NEW b \in Board
  PROVE  IsFiles(WithFile(boards, b))
PROOF
  <1>1. <<>> \in Seq(Object)
    BY EmptySeq
  <1> QED
    BY <1>1 DEF IsFiles, WithFile

LEMMA FileType1 ==
  ASSUME NEW file \in Seq(Object), NEW u \in Update
  PROVE  /\ Created(file, u) \in Seq(Object)
         /\ Edited(file, u) \in Seq(Object)
         /\ Deleted(file, u) \in Seq(Object)
PROOF
  <1> DEFINE i == Least(Matches(file, u))
  <1>1. Created(file, u) \in Seq(Object)
    <2>1. [obj_id |-> u.obj_id, server_index |-> u.server_index, status |-> TRUE,
           obj |-> u.obj] \in Object
      BY DEF Update, Object
    <2> QED
      BY <2>1, AppendProperties DEF Created
  <1>2. CASE Matches(file, u) = {}
    BY <1>1, <1>2 DEF Edited, Deleted
  <1>3. CASE Matches(file, u) # {}
    <2>1. DOMAIN file = 1 .. Len(file) /\ Len(file) \in Nat
      BY LenProperties
    <2>2. Matches(file, u) \subseteq Nat
      BY <2>1 DEF Matches
    <2>3. i \in Matches(file, u)
      BY <1>3, <2>2, LeastIn
    <2>4. i \in 1 .. Len(file)
      BY <2>1, <2>3 DEF Matches
    <2>5. file[i] \in Object
      BY <2>4, ElementOfSeq
    <2>6. WithText(file[i], u.obj) \in Object /\ Dead(file[i]) \in Object
      BY <2>5 DEF Object, Update, WithText, Dead
    <2> HIDE DEF i
    <2>7. /\ [file EXCEPT ![i] = WithText(file[i], u.obj)] \in Seq(Object)
          /\ [file EXCEPT ![i] = Dead(file[i])] \in Seq(Object)
      BY <2>4, <2>6, ExceptSeq
    <2> QED
      BY <1>1, <1>3, <2>7 DEF Edited, Deleted, i
  <1> QED
    BY <1>2, <1>3

LEMMA AppliedType ==
  ASSUME NEW boards, IsFiles(boards), NEW u \in Update,
         u.entity_type = "OBJ" => u.db_name \in DOMAIN boards
  PROVE  IsFiles(Applied(boards, u))
PROOF
  <1>1. CASE u.entity_type = "DB"
    <2>1. u.db_name \in Board
      BY DEF Update
    <2> QED
      BY <1>1, <2>1, WithFileType DEF Applied
  <1>2. CASE u.entity_type # "DB"
    <2>1. u.entity_type = "OBJ"
      BY <1>2 DEF Update
    <2>2. boards[u.db_name] \in Seq(Object)
      BY <2>1 DEF IsFiles
    <2>3. Changed(boards[u.db_name], u) \in Seq(Object)
      BY <2>2, FileType1 DEF Changed
    <2> QED
      BY <1>2, <2>3 DEF IsFiles, Applied
  <1> QED
    BY <1>1, <1>2

--------------------------------------------------------------------------------
(* Requests and the handlers they reach *)

LEMMA RequestsType ==
  ASSUME TypeOK
  PROVE  ClientRequests \subseteq Request
PROOF
  <1>0. /\ \A t \in Server : IsFiles(db[t])
        /\ requests + 1 \in Nat
    BY DEF TypeOK, FileType, ProcessType
  <1>1. Boards \subseteq Board
    BY <1>0 DEF Boards, IsFiles
  <1>2. ASSUME NEW t \in Server, NEW b \in DOMAIN db[t], NEW i \in DOMAIN db[t][b]
        PROVE  /\ b \in Board /\ db[t][b][i].obj_id \in Nat
               /\ db[t][b][i].server_index \in 0 .. N
    <2>1. b \in Board /\ db[t][b] \in Seq(Object)
      BY <1>0, <1>2 DEF IsFiles
    <2>2. db[t][b][i] \in Object
      BY <2>1, <1>2, LenProperties, ElementOfSeq
    <2> QED
      BY <2>1, <2>2 DEF Object
  <1>3. \A x \in Shown : x[1] \in Board /\ x[2] \in Nat /\ x[3] \in 0 .. N
    BY <1>2 DEF Shown, ShownBy
  <1>4. \A op \in {"j", "a", "e", "d"}, b \in Board, i \in Nat, o \in 0 .. N :
          Asks(op, b, i, o) \in Request
    BY <1>0 DEF Asks, Request
  <1>5. 0 \in 0 .. N
    BY NAssumption
  <1> QED
    BY <1>1, <1>3, <1>4, <1>5 DEF ClientRequests

LEMMA NewUpdateType ==
  ASSUME TypeOK, NEW s \in Server, NEW r \in Request, r.op # "j"
  PROVE  NewUpdate(s, r) \in Update
PROOF
  <1>1. lts[s] + 1 \in Nat /\ update_seq[s] + 1 \in Nat
    BY DEF TypeOK, ClockType
  <1>2. s \in 0 .. N
    BY NAssumption DEF Server
  <1> QED
    BY <1>1, <1>2 DEF NewUpdate, Update, Request

LEMMA NewBoardType ==
  ASSUME TypeOK, NEW s \in Server, NEW b \in Board
  PROVE  NewBoard(s, b) \in Update
PROOF
  <1>1. lts[s] + 1 \in Nat /\ update_seq[s] + 1 \in Nat /\ 0 \in 0 .. N
    BY NAssumption DEF TypeOK, ClockType
  <1> QED
    BY <1>1 DEF NewBoard, Update

LEMMA ExtendedType ==
  ASSUME TypeOK, NEW s \in Server, NEW u \in Update
  PROVE  [log EXCEPT ![s] = Extended(s, u)] \in [Server -> Seq(Update)]
PROOF
  BY AppendProperties DEF TypeOK, FileType, Extended

\* apply_update keeps the types of all it changes.
LEMMA ApplyUpdateType ==
  ASSUME TypeOK, NEW s \in Server, NEW u \in Update, ApplyUpdate(s, u)
  PROVE  /\ lts' \in [Server -> Nat]
         /\ server_lts' \in [Server -> Vector]
         /\ server_updates' \in [Server -> Vector]
         /\ FileType'
         /\ up' \in [Server -> BOOLEAN]
PROOF
  <1>0. u.lts \in Nat /\ u.update_num \in Nat /\ u.server_id \in Server
    BY DEF Update
  <1>1. lts' \in [Server -> Nat]
    BY <1>0 DEF ApplyUpdate, Later, TypeOK, ClockType
  <1>2. CASE Accepted(s, u)
    <2>1. /\ log' = [log EXCEPT ![s] = Extended(s, u)]
          /\ server_lts' = [server_lts EXCEPT ![s][u.server_id] = u.lts]
          /\ server_updates' = [server_updates EXCEPT ![s][u.server_id] = u.update_num]
      BY <1>2 DEF ApplyUpdate
    <2>2. log' \in [Server -> Seq(Update)]
      BY <2>1, ExtendedType
    <2>3. /\ [server_lts[s] EXCEPT ![u.server_id] = u.lts] \in Vector
          /\ [server_updates[s] EXCEPT ![u.server_id] = u.update_num] \in Vector
      BY <1>0 DEF TypeOK, ClockType, Vector
    <2>4. /\ server_lts' \in [Server -> Vector]
          /\ server_updates' \in [Server -> Vector]
      BY <2>1, <2>3 DEF TypeOK, ClockType
    <2>5. CASE Fatal(s, u)
      BY <1>1, <1>2, <2>2, <2>4, <2>5 DEF ApplyUpdate, TypeOK, FileType, ProcessType
    <2>6. CASE ~ Fatal(s, u)
      <3>1. IsFiles(Applied(db[s], u))
        BY <2>6, AppliedType DEF Fatal, TypeOK, FileType
      <3>2. db' = [db EXCEPT ![s] = Applied(db[s], u)] /\ UNCHANGED up
        BY <1>2, <2>6 DEF ApplyUpdate
      <3> QED
        BY <1>1, <2>2, <2>4, <3>1, <3>2 DEF TypeOK, FileType, ProcessType
    <2> QED
      BY <2>5, <2>6
  <1>3. CASE ~ Accepted(s, u)
    BY <1>1, <1>3 DEF ApplyUpdate, TypeOK, ClockType, FileType, ProcessType
  <1> QED
    BY <1>2, <1>3

\* What a handled request changes keeps its type.
LEMMA HandleClientReqType ==
  ASSUME TypeOK, NEW s \in Server, NEW r \in Request, HandleClientReq(s, r)
  PROVE  /\ ClockType' /\ FileType'
         /\ up' \in [Server -> BOOLEAN]
         /\ inbox' \in [Server -> Seq(Message)]
PROOF
  <1>0. r.db_name \in Board
    BY DEF Request
  <1>1. CASE r.op = "j" /\ r.db_name \in DOMAIN db[s]
    BY <1>1 DEF HandleClientReq, JoinDb, TypeOK, ClockType, FileType, ProcessType,
                NetType, clockVars, fileVars
  <1>2. CASE r.op = "j" /\ r.db_name \notin DOMAIN db[s]
    <2> DEFINE u == NewBoard(s, r.db_name)
    <2>1. u \in Update
      BY <1>0, NewBoardType
    <2>2. CreateBoard(s, r.db_name)
      BY <1>2 DEF HandleClientReq, JoinDb
    <2>3. ClockType' /\ up' \in [Server -> BOOLEAN]
      BY <2>2 DEF CreateBoard, TypeOK, ClockType, ProcessType
    <2>4. IsFiles(WithFile(db[s], r.db_name))
      BY <1>0, WithFileType DEF TypeOK, FileType
    <2>5. FileType'
      BY <2>1, <2>2, <2>4, ExtendedType DEF CreateBoard, TypeOK, FileType
    <2>6. inbox' \in [Server -> Seq(Message)]
      BY <2>1, <2>2, NewMessages, MulticastType DEF CreateBoard, TypeOK, NetType
    <2> QED
      BY <2>3, <2>5, <2>6
  <1>3. CASE r.op # "j"
    <2> DEFINE u == NewUpdate(s, r)
    <2>1. u \in Update
      BY <1>3, NewUpdateType
    <2>2. UpdateReplicas(s, r)
      BY <1>3 DEF HandleClientReq
    <2>3. ApplyUpdate(s, u)
      BY <2>2 DEF UpdateReplicas
    <2>4. update_seq' \in [Server -> Nat]
      BY <2>2 DEF UpdateReplicas, TypeOK, ClockType
    <2>5. inbox' \in [Server -> Seq(Message)]
      BY <2>1, <2>2, NewMessages, MulticastType DEF UpdateReplicas, TypeOK, NetType
    <2> HIDE DEF u
    <2> QED
      BY <2>1, <2>3, <2>4, <2>5, ApplyUpdateType DEF ClockType
  <1> QED
    BY <1>1, <1>2, <1>3

--------------------------------------------------------------------------------
(* Type correctness *)

\* A server drains only what is buffered, and sends only what its log holds.
LoopOK ==
  \A s \in Server : /\ pc[s] = "draining" => queue[s] # <<>>
                    /\ \A p \in job[s] : LogMatches(s, p) # {}

TypeInv == TypeOK /\ LoopOK

LEMMA TypeInit == Init => TypeInv
PROOF
  <1> SUFFICES ASSUME Init PROVE TypeInv
    OBVIOUS
  <1>0. 0 \in Nat /\ 1 \in Nat /\ [o \in Server |-> 0] \in Vector
    BY DEF Vector
  <1>1. ClockType
    BY <1>0 DEF Init, ClockType
  <1>2. FileType
    <2>1. <<>> \in Seq(Update) /\ <<>> \in Seq(Object)
      BY EmptySeq
    <2>2. IsFiles([b \in InitialBoards |-> <<>>])
      BY <2>1, BoardAssumption DEF IsFiles
    <2> QED
      BY <2>1, <2>2 DEF Init, FileType
  <1>3. SyncType
    <2>1. IsSummary(NoRows)
      BY DEF IsSummary, NoRows
    <2> QED
      BY <1>0, <2>1 DEF Init, SyncType
  <1>4. LoopType
    <2>1. <<>> \in Seq(Request)
      BY EmptySeq
    <2> QED
      BY <2>1 DEF Init, LoopType
  <1>5. ProcessType
    BY DEF Init, ProcessType
  <1>6. NetType
    <2>1. <<>> \in Seq(Message)
      BY EmptySeq
    <2> QED
      BY <2>1 DEF Init, NetType
  <1>7. LoopOK
    BY DEF Init, LoopOK
  <1> QED
    BY <1>1, <1>2, <1>3, <1>4, <1>5, <1>6, <1>7 DEF TypeInv, TypeOK

\* Logs only grow, so a server still finds what it had found.
LEMMA LoopKept ==
  ASSUME TypeOK, NEW s \in Server, NEW u \in Update,
         \/ UNCHANGED log
         \/ log' = [log EXCEPT ![s] = Extended(s, u)]
  PROVE  \A t \in Server, p \in Server \X Nat : LogMatches(t, p) # {} => LogMatches(t, p)' # {}
PROOF
  <1>1. CASE UNCHANGED log
    BY <1>1 DEF LogMatches
  <1>2. CASE log' = [log EXCEPT ![s] = Extended(s, u)]
    <2> SUFFICES ASSUME NEW t \in Server, NEW p \in Server \X Nat, NEW i \in LogMatches(t, p)
                 PROVE  i \in LogMatches(t, p)'
      OBVIOUS
    <2>1. log[t] \in Seq(Update) /\ i \in 1 .. Len(log[t])
      BY LenProperties DEF TypeOK, FileType, LogMatches
    <2>2. i \in DOMAIN log'[t] /\ log'[t][i] = log[t][i]
      BY <1>2, <2>1, AppendProperties DEF TypeOK, FileType, Extended
    <2> QED
      BY <2>2 DEF LogMatches
  <1> QED
    BY <1>1, <1>2

LEMMA LoopStays ==
  ASSUME TypeInv, NEW s \in Server, NEW u \in Update,
         \/ UNCHANGED log
         \/ log' = [log EXCEPT ![s] = Extended(s, u)],
         UNCHANGED <<pc, queue, job>>
  PROVE  LoopOK'
PROOF
  BY LoopKept DEF TypeInv, LoopOK, TypeOK, LoopType

\* How a handled request changes the log.
LEMMA HandleClientReqLog ==
  ASSUME TypeOK, NEW s \in Server, NEW r \in Request, HandleClientReq(s, r)
  PROVE  \E u \in Update : \/ UNCHANGED log
                           \/ log' = [log EXCEPT ![s] = Extended(s, u)]
PROOF
  <1>0. r.db_name \in Board
    BY DEF Request
  <1>1. NewBoard(s, r.db_name) \in Update
    BY <1>0, NewBoardType
  <1>2. CASE r.op = "j"
    BY <1>1, <1>2 DEF HandleClientReq, JoinDb, CreateBoard, fileVars
  <1>3. CASE r.op # "j"
    <2>1. NewUpdate(s, r) \in Update
      BY <1>3, NewUpdateType
    <2>2. ApplyUpdate(s, NewUpdate(s, r))
      BY <1>3 DEF HandleClientReq, UpdateReplicas
    <2>3. \/ UNCHANGED log
          \/ log' = [log EXCEPT ![s] = Extended(s, NewUpdate(s, r))]
      BY <2>2 DEF ApplyUpdate
    <2> QED
      BY <2>1, <2>3
  <1> QED
    BY <1>2, <1>3

LEMMA ClientRequestType ==
  ASSUME TypeInv, NEW s \in Server, NEW r \in ClientRequests, ClientRequest(s, r)
  PROVE  TypeInv'
PROOF
  <1> USE DEF TypeInv
  <1>0. r \in Request
    BY RequestsType
  <1>1. ClockType' /\ FileType' /\ up' \in [Server -> BOOLEAN] /\ inbox' \in [Server -> Seq(Message)]
    BY <1>0, HandleClientReqType DEF ClientRequest
  <1>2. SyncType'
    BY DEF ClientRequest, TypeOK, SyncType, syncVars
  <1>3. LoopType'
    <2>1. queue' \in [Server -> Seq(Request)]
      BY <1>0, AppendProperties DEF ClientRequest, TypeOK, LoopType
    <2> QED
      BY <2>1 DEF ClientRequest, TypeOK, LoopType
  <1>4. ProcessType' /\ NetType'
    BY <1>1 DEF ClientRequest, TypeOK, ProcessType, NetType, netVars
  <1>5. LoopOK'
    <2>1. PICK u \in Update : \/ UNCHANGED log
                              \/ log' = [log EXCEPT ![s] = Extended(s, u)]
      BY <1>0, HandleClientReqLog DEF ClientRequest
    <2>2. \A t \in Server, p \in Server \X Nat : LogMatches(t, p) # {} => LogMatches(t, p)' # {}
      BY <2>1, LoopKept
    <2>3. pc' = pc /\ job' = job /\ pc[s] = "idle" /\ \A t \in Server : t # s => queue'[t] = queue[t]
      BY DEF ClientRequest, TypeOK, LoopType
    <2> QED
      BY <2>2, <2>3 DEF LoopOK, TypeOK, LoopType
  <1> QED
    BY <1>1, <1>2, <1>3, <1>4, <1>5 DEF TypeOK

LEMMA DrainType ==
  ASSUME TypeInv, NEW s \in Server, Drain(s)
  PROVE  TypeInv'
PROOF
  <1> USE DEF TypeInv
  <1>0. /\ queue[s] \in Seq(Request) /\ queue[s] # <<>>
        /\ Head(queue[s]) \in Request /\ Tail(queue[s]) \in Seq(Request)
        /\ Len(Tail(queue[s])) = Len(queue[s]) - 1
    BY HeadTailProperties DEF Drain, LoopOK, TypeOK, LoopType
  <1>1. ClockType' /\ FileType' /\ up' \in [Server -> BOOLEAN] /\ inbox' \in [Server -> Seq(Message)]
    BY <1>0, HandleClientReqType DEF Drain
  <1>2. SyncType'
    BY DEF Drain, TypeOK, SyncType, syncVars
  <1>3. LoopType'
    BY <1>0 DEF Drain, TypeOK, LoopType
  <1>4. ProcessType' /\ NetType'
    BY <1>1 DEF Drain, TypeOK, ProcessType, NetType, clientVars, netVars
  <1>5. LoopOK'
    <2>1. PICK u \in Update : \/ UNCHANGED log
                              \/ log' = [log EXCEPT ![s] = Extended(s, u)]
      BY <1>0, HandleClientReqLog DEF Drain
    <2>2. \A t \in Server, p \in Server \X Nat : LogMatches(t, p) # {} => LogMatches(t, p)' # {}
      BY <2>1, LoopKept
    <2>3. /\ job' = job
          /\ \A t \in Server : t # s => queue'[t] = queue[t] /\ pc'[t] = pc[t]
          /\ queue'[s] = Tail(queue[s])
          /\ pc'[s] = IF Len(queue[s]) = 1 THEN "idle" ELSE "draining"
      BY DEF Drain, TypeOK, LoopType
    <2>4. pc'[s] = "draining" => queue'[s] # <<>>
      <3>1. SUFFICES ASSUME Len(queue[s]) # 1 PROVE Len(Tail(queue[s])) # 0
        BY <1>0, <2>3, EmptySeq
      <3>2. Len(queue[s]) \in Nat
        BY <1>0, LenProperties
      <3> HIDE DEF TypeInv
      <3> QED
        BY <1>0, <3>1, <3>2
    <2> QED
      BY <2>2, <2>3, <2>4 DEF LoopOK, TypeOK, LoopType
  <1> QED
    BY <1>1, <1>2, <1>3, <1>4, <1>5 DEF TypeOK

LEMMA JoinExitType ==
  ASSUME TypeInv, NEW s \in Server, JoinExit(s)
  PROVE  TypeInv'
PROOF
  <1>1. UNCHANGED <<clockVars, fileVars, syncVars, loopVars, clientVars, netVars, inbox>>
    BY DEF JoinExit
  <1>2. up' \in [Server -> BOOLEAN]
    BY DEF JoinExit, TypeInv, TypeOK, ProcessType
  <1>3. ClockType' /\ FileType' /\ SyncType' /\ LoopType'
    BY <1>1 DEF TypeInv, TypeOK, ClockType, FileType, SyncType, LoopType, clockVars,
                fileVars, syncVars, loopVars
  <1>4. ProcessType' /\ NetType'
    BY <1>1, <1>2 DEF TypeInv, TypeOK, ProcessType, NetType, clientVars, netVars
  <1>5. LoopOK'
    BY <1>1 DEF TypeInv, LoopOK, LogMatches, loopVars, fileVars
  <1> QED
    BY <1>3, <1>4, <1>5 DEF TypeInv, TypeOK

\* A step of the network changes components, inboxes and nothing else.
LEMMA NetworkStepType ==
  ASSUME TypeInv,
         UNCHANGED <<clockVars, fileVars, syncVars, loopVars, up, clientVars>>,
         NetType'
  PROVE  TypeInv'
PROOF
  <1>1. ClockType' /\ FileType' /\ SyncType' /\ LoopType'
    BY DEF TypeInv, TypeOK, ClockType, FileType, SyncType, LoopType, clockVars,
           fileVars, syncVars, loopVars
  <1>2. ProcessType'
    BY DEF TypeInv, TypeOK, ProcessType, clientVars
  <1>3. LoopOK'
    BY DEF TypeInv, LoopOK, LogMatches, loopVars, fileVars
  <1> QED
    BY <1>1, <1>2, <1>3 DEF TypeInv, TypeOK

LEMMA MembershipAppended ==
  ASSUME TypeOK, NEW t \in Server, NEW V \in SUBSET Server
  PROVE  Append(inbox[t], [type |-> "Memb", members |-> V]) \in Seq(Message)
PROOF
  <1>1. [type |-> "Memb", members |-> V] \in Message
    BY NewMessages
  <1> QED
    BY <1>1, AppendProperties DEF TypeOK, NetType

LEMMA AnnounceType ==
  ASSUME TypeOK, comp' \in [Server -> SUBSET Server], NEW C, Announce(C)
  PROVE  inbox' \in [Server -> Seq(Message)]
PROOF
  <1>1. \A t \in Server : Append(inbox[t], [type |-> "Memb", members |-> comp'[t]]) \in Seq(Message)
    BY MembershipAppended
  <1> QED
    BY <1>1 DEF Announce, TypeOK, NetType

LEMMA NetworkType ==
  ASSUME TypeInv, NEW s \in Server,
         \/ \E D \in SUBSET Server : Split(s, D)
         \/ \E r \in Server : Merge(s, r)
         \/ Disconnect(s)
  PROVE  TypeInv'
PROOF
  <1>1. ASSUME NEW D \in SUBSET Server, Split(s, D) PROVE TypeInv'
    <2>1. comp' \in [Server -> SUBSET Server]
      BY <1>1 DEF Split, TypeInv, TypeOK, NetType
    <2>2. inbox' \in [Server -> Seq(Message)]
      BY <1>1, <2>1, AnnounceType DEF Split, TypeInv
    <2>3. NetType'
      BY <1>1, <2>1, <2>2 DEF Split, NetworkChange, TypeInv, TypeOK, NetType
    <2> QED
      BY <1>1, <2>3, NetworkStepType DEF Split, NetworkChange
  <1>2. ASSUME NEW r \in Server, Merge(s, r) PROVE TypeInv'
    <2>1. comp' \in [Server -> SUBSET Server]
      BY <1>2 DEF Merge, TypeInv, TypeOK, NetType
    <2>2. inbox' \in [Server -> Seq(Message)]
      BY <1>2, <2>1, AnnounceType DEF Merge, TypeInv
    <2>3. NetType'
      BY <1>2, <2>1, <2>2 DEF Merge, NetworkChange, TypeInv, TypeOK, NetType
    <2> QED
      BY <1>2, <2>3, NetworkStepType DEF Merge, NetworkChange
  <1>3. ASSUME Disconnect(s) PROVE TypeInv'
    <2>1. comp' \in [Server -> SUBSET Server]
      BY <1>3 DEF Disconnect, TypeInv, TypeOK, NetType
    <2>2. \A t \in Server : Append(inbox[t], [type |-> "Memb", members |-> comp'[t]]) \in Seq(Message)
      BY <2>1, MembershipAppended DEF TypeInv
    <2>3. inbox' \in [Server -> Seq(Message)]
      BY <1>3, <2>2, EmptySeq DEF Disconnect, TypeInv, TypeOK, NetType
    <2>4. NetType'
      BY <1>3, <2>1, <2>3 DEF Disconnect, TypeInv, TypeOK, NetType
    <2> QED
      BY <1>3, <2>4, NetworkStepType DEF Disconnect
  <1> QED
    BY <1>1, <1>2, <1>3

\* An update received, of either kind.
LEMMA RecvUpdateType ==
  ASSUME TypeInv, NEW s \in Server, RecvUpdate(s) \/ RecvSyncUpdate(s)
  PROVE  TypeInv'
PROOF
  <1> DEFINE u == Head(inbox[s]).update
  <1>0. /\ inbox[s] # <<>> /\ Head(inbox[s]).type \in {"Update", "SyncUpdate"}
        /\ inbox' = Received[s]
        /\ UNCHANGED <<update_seq, syncVars, loopVars, requests, netVars>>
    BY DEF RecvUpdate, RecvSyncUpdate, Receives
  <1>1. u \in Update /\ inbox' \in [Server -> Seq(Message)]
    <2>1. Head(inbox[s]) \in Message /\ Received[s] \in [Server -> Seq(Message)]
      BY <1>0, ReceivedType DEF TypeInv, TypeOK, NetType
    <2> QED
      BY <1>0, <2>1, MessageParts
  <1>2. \/ UNCHANGED <<lts, server_lts, server_updates, fileVars, up>>
        \/ ApplyUpdate(s, u)
    BY DEF RecvUpdate, RecvSyncUpdate
  <1>3. UNCHANGED served \/ Respond(s, u)
    BY DEF RecvUpdate, RecvSyncUpdate
  <1> HIDE DEF u
  <1>4. /\ lts' \in [Server -> Nat]
        /\ server_lts' \in [Server -> Vector]
        /\ server_updates' \in [Server -> Vector]
        /\ FileType'
        /\ up' \in [Server -> BOOLEAN]
    <2>1. CASE UNCHANGED <<lts, server_lts, server_updates, fileVars, up>>
      BY <2>1 DEF TypeInv, TypeOK, ClockType, FileType, ProcessType, fileVars
    <2>2. CASE ApplyUpdate(s, u)
      BY <1>1, <2>2, ApplyUpdateType DEF TypeInv
    <2> QED
      BY <1>2, <2>1, <2>2
  <1>5. ClockType'
    BY <1>0, <1>4 DEF TypeInv, TypeOK, ClockType
  <1>6. SyncType' /\ LoopType'
    BY <1>0 DEF TypeInv, TypeOK, SyncType, LoopType, syncVars, loopVars
  <1>7. served' \in [Server -> SUBSET Update]
    BY <1>1, <1>3 DEF Respond, TypeInv, TypeOK, ProcessType
  <1>8. ProcessType' /\ NetType'
    BY <1>0, <1>1, <1>4, <1>7 DEF TypeInv, TypeOK, ProcessType, NetType, netVars
  <1>9. LoopOK'
    <2>1. UNCHANGED log \/ log' = [log EXCEPT ![s] = Extended(s, u)]
      BY <1>2 DEF ApplyUpdate, fileVars
    <2> QED
      BY <1>0, <1>1, <2>1, LoopStays DEF loopVars
  <1> QED
    BY <1>4, <1>5, <1>6, <1>8, <1>9 DEF TypeInv, TypeOK

\* A step that leaves clocks, files, clients and the network but its inbox alone.
LEMMA MessageStepType ==
  ASSUME TypeInv, UNCHANGED <<clockVars, fileVars, up, clientVars, netVars>>,
         inbox' \in [Server -> Seq(Message)], SyncType', LoopType', LoopOK'
  PROVE  TypeInv'
PROOF
  <1>1. ClockType' /\ FileType'
    BY DEF TypeInv, TypeOK, ClockType, FileType, clockVars, fileVars
  <1>2. ProcessType' /\ NetType'
    BY DEF TypeInv, TypeOK, ProcessType, NetType, clientVars, netVars
  <1> QED
    BY <1>1, <1>2 DEF TypeInv, TypeOK

LEMMA RecvMembershipType ==
  ASSUME TypeInv, NEW s \in Server, RecvMembership(s)
  PROVE  TypeInv'
PROOF
  <1>0. /\ inbox[s] # <<>> /\ Head(inbox[s]).type = "Memb"
        /\ UNCHANGED <<clockVars, fileVars, loopVars, up, clientVars, netVars>>
        /\ num_memb' = [num_memb EXCEPT ![s] = Cardinality(Head(inbox[s]).members)]
    BY DEF RecvMembership, Receives
  <1>1. Head(inbox[s]) \in Message /\ Received[s] \in [Server -> Seq(Message)]
    BY <1>0, ReceivedType DEF TypeInv, TypeOK, NetType
  <1>2. num_memb' \in [Server -> Nat]
    BY <1>0, <1>1, MessageParts, ServersFinite DEF TypeInv, TypeOK, SyncType
  <1>3. LoopType' /\ LoopOK'
    BY <1>0 DEF TypeInv, TypeOK, LoopType, LoopOK, LogMatches, loopVars, fileVars
  <1>4. CASE num_memb'[s] > 1
    <2>1. IsSummary(NoRows)
      BY DEF IsSummary, NoRows
    <2> DEFINE m == [type |-> "Vector", server_index |-> s, server_vector |-> server_lts[s]]
    <2>2. /\ syncOn' = [syncOn EXCEPT ![s] = TRUE]
          /\ vector_rcvd' = [vector_rcvd EXCEPT ![s] = 0]
          /\ syncEnd_rcvd' = [syncEnd_rcvd EXCEPT ![s] = 0]
          /\ summary' = [summary EXCEPT ![s] = NoRows]
          /\ server_view' = [server_view EXCEPT ![s] = {}]
          /\ inbox' = Multicast(Received[s], s, m)
      BY <1>4 DEF RecvMembership, CountAtSync, ViewAtSync
    <2>3. m \in Message
      BY NewMessages DEF TypeInv, TypeOK, ClockType
    <2> HIDE DEF m
    <2>4. SyncType
      BY DEF TypeInv, TypeOK
    <2>5. SyncType'
      BY <1>2, <2>1, <2>2, <2>4 DEF SyncType
    <2>6. inbox' \in [Server -> Seq(Message)]
      BY <1>1, <2>2, <2>3, MulticastType
    <2> QED
      BY <1>0, <1>3, <2>5, <2>6, MessageStepType
  <1>5. CASE ~ (num_memb'[s] > 1)
    <2>1. SyncType'
      BY <1>2, <1>5 DEF RecvMembership, TypeInv, TypeOK, SyncType
    <2>2. inbox' \in [Server -> Seq(Message)]
      BY <1>1, <1>5 DEF RecvMembership
    <2> QED
      BY <1>0, <1>3, <2>1, <2>2, MessageStepType
  <1> QED
    BY <1>4, <1>5

LEMMA RowsType ==
  ASSUME NEW rows, IsSummary(rows), NEW m \in Message, m.type = "Vector"
  PROVE  /\ IsSummary(WithRow(rows, m))
         /\ \A V \in SUBSET Server :
              IsSummary([t \in V \cap DOMAIN rows |-> rows[t]])
PROOF
  <1>1. m.server_index \in Server /\ m.server_vector \in Vector
    BY MessageParts
  <1> QED
    BY <1>1 DEF IsSummary, WithRow

LEMMA RecvVectorType ==
  ASSUME TypeInv, NEW s \in Server, RecvVector(s)
  PROVE  TypeInv'
PROOF
  <1> DEFINE m == Head(inbox[s])
             NewJob == {p \in Job(s, InView(s, summary'[s])) : LogMatches(s, p) # {}}
  <1>0. /\ inbox[s] # <<>> /\ m.type = "Vector" /\ pc[s] = "idle"
        /\ inbox' = Received[s]
        /\ vector_rcvd' = [vector_rcvd EXCEPT ![s] = @ + 1]
        /\ summary' = [summary EXCEPT ![s] = WithRow(@, m)]
        /\ server_view' = [server_view EXCEPT ![s] = @ \cup {m.server_index}]
        /\ UNCHANGED <<clockVars, fileVars, up, clientVars, netVars>>
        /\ UNCHANGED <<syncOn, syncEnd_rcvd, num_memb, queue>>
        /\ \/ /\ pc' = [pc EXCEPT ![s] = "sending"]
              /\ job' = [job EXCEPT ![s] = NewJob]
           \/ UNCHANGED <<pc, job>>
    BY DEF RecvVector, Receives
  <1>1. m \in Message /\ inbox' \in [Server -> Seq(Message)]
    BY <1>0, ReceivedType DEF TypeInv, TypeOK, NetType
  <1>2. m.server_index \in Server
    BY <1>0, <1>1, MessageParts
  <1>3. IsSummary(WithRow(summary[s], m))
    BY <1>0, <1>1, RowsType DEF TypeInv, TypeOK, SyncType
  <1>4. SyncType'
    <2> HIDE DEF m, NewJob
    <2>1. SyncType
      BY DEF TypeInv, TypeOK
    <2>2. vector_rcvd' \in [Server -> Nat] /\ server_view' \in [Server -> SUBSET Server]
      BY <1>0, <1>2, <2>1 DEF SyncType
    <2>3. summary' = [t \in Server |-> summary'[t]] /\ \A t \in Server : IsSummary(summary'[t])
      BY <1>0, <1>3, <2>1 DEF SyncType
    <2> QED
      BY <1>0, <2>1, <2>2, <2>3 DEF SyncType
  <1>5. IsSummary(InView(s, summary'[s]))
    <2>1. IsSummary(summary'[s]) /\ server_view'[s] \in SUBSET Server
      BY <1>4 DEF SyncType
    <2> QED
      BY <1>0, <1>1, <2>1, RowsType DEF InView
  <1>6. NewJob \in SUBSET (Server \X Nat) /\ \A p \in NewJob : LogMatches(s, p) # {}
    BY <1>5, JobType
  <1> HIDE DEF m, NewJob
  <1>7. LoopType'
    BY <1>0, <1>6 DEF TypeInv, TypeOK, LoopType
  <1>8. LoopOK'
    <2>1. \A t \in Server, p \in Server \X Nat : LogMatches(t, p)' = LogMatches(t, p)
      BY <1>0 DEF LogMatches, fileVars
    <2>2. \A t \in Server : \A p \in job'[t] : LogMatches(t, p) # {} /\ p \in Server \X Nat
      BY <1>0, <1>6, <1>7 DEF TypeInv, TypeOK, LoopType, LoopOK
    <2>3. \A t \in Server : pc'[t] = "draining" => queue'[t] # <<>>
      BY <1>0 DEF TypeInv, TypeOK, LoopType, LoopOK
    <2> QED
      BY <2>1, <2>2, <2>3 DEF LoopOK
  <1> QED
    BY <1>0, <1>1, <1>4, <1>7, <1>8, MessageStepType

LEMMA SendUpdateType ==
  ASSUME TypeInv, NEW s \in Server, SendUpdate(s)
  PROVE  /\ TypeInv'
         /\ LogRecord(s, First(job[s])) \in Logged(s)
         /\ LogRecord(s, First(job[s])) \in Update
         /\ LogRecord(s, First(job[s])).server_id = First(job[s])[1]
         /\ LogRecord(s, First(job[s])).lts = First(job[s])[2]
PROOF
  <1> DEFINE p == First(job[s])
  <1>1. job[s] \subseteq Server \X Nat /\ job[s] # {} /\ p \in job[s]
    BY FirstIn DEF SendUpdate, TypeInv, TypeOK, LoopType
  <1>2. LogMatches(s, p) # {}
    BY <1>1 DEF TypeInv, LoopOK
  <1>3. log[s] \in Seq(Update) /\ DOMAIN log[s] = 1 .. Len(log[s]) /\ Len(log[s]) \in Nat
    BY LenProperties DEF TypeInv, TypeOK, FileType
  <1>4. Least(LogMatches(s, p)) \in LogMatches(s, p)
    <2>1. LogMatches(s, p) \subseteq Nat
      BY <1>3 DEF LogMatches
    <2> QED
      BY <1>2, <2>1, LeastIn
  <1>5. Least(LogMatches(s, p)) \in DOMAIN log[s]
    BY <1>4 DEF LogMatches
  <1>6. /\ LogRecord(s, p) \in Logged(s) /\ LogRecord(s, p) \in Update
        /\ LogRecord(s, p).server_id = p[1] /\ LogRecord(s, p).lts = p[2]
    BY <1>3, <1>4, <1>5, ElementOfSeq DEF LogRecord, LogMatches, Logged
  <1> HIDE DEF p
  <1>7. inbox' \in [Server -> Seq(Message)]
    <2>1. [type |-> "SyncUpdate", update |-> LogRecord(s, p)] \in Message
      BY <1>6, NewMessages
    <2> QED
      BY <2>1, MulticastType DEF SendUpdate, p, TypeInv, TypeOK, NetType
  <1>8. job' = [job EXCEPT ![s] = @ \ {p}] /\ UNCHANGED <<syncVars, queue, pc, fileVars>>
    BY DEF SendUpdate, p
  <1>9. SyncType' /\ LoopType'
    BY <1>8 DEF TypeInv, TypeOK, SyncType, LoopType, syncVars
  <1>10. LoopOK'
    BY <1>8 DEF TypeInv, TypeOK, LoopType, LoopOK, LogMatches, fileVars
  <1>11. TypeInv'
    BY <1>7, <1>9, <1>10, MessageStepType DEF SendUpdate
  <1> QED
    BY <1>6, <1>11 DEF p

LEMMA SyncEndType ==
  ASSUME TypeInv, NEW s \in Server, SendSyncEnd(s) \/ RecvSyncEnd(s)
  PROVE  TypeInv'
PROOF
  <1>1. CASE SendSyncEnd(s)
    <2>1. inbox' \in [Server -> Seq(Message)]
      BY <1>1, NewMessages, MulticastType DEF SendSyncEnd, TypeInv, TypeOK, NetType
    <2>2. SyncType' /\ LoopType'
      BY <1>1 DEF SendSyncEnd, TypeInv, TypeOK, SyncType, LoopType, syncVars
    <2>3. LoopOK'
      BY <1>1 DEF SendSyncEnd, TypeInv, TypeOK, LoopType, LoopOK, LogMatches, fileVars
    <2> QED
      BY <1>1, <2>1, <2>2, <2>3, MessageStepType DEF SendSyncEnd
  <1>2. CASE RecvSyncEnd(s)
    <2>1. inbox' \in [Server -> Seq(Message)]
      BY <1>2, ReceivedType DEF RecvSyncEnd, Receives, TypeInv, TypeOK, NetType
    <2>2. SyncType' /\ LoopType'
      <3>1. SyncType /\ LoopType
        BY DEF TypeInv, TypeOK
      <3>2. /\ syncEnd_rcvd' = [syncEnd_rcvd EXCEPT ![s] = @ + 1]
            /\ syncOn' = [syncOn EXCEPT ![s] = FALSE] \/ syncOn' = syncOn
        BY <1>2 DEF RecvSyncEnd
      <3>3. pc' \in [Server -> {"idle", "sending", "draining"}]
        BY <1>2, <3>1 DEF RecvSyncEnd, AfterSync, LoopType
      <3>4. UNCHANGED <<vector_rcvd, num_memb, summary, server_view, queue, job>>
        BY <1>2 DEF RecvSyncEnd
      <3>5. syncEnd_rcvd' \in [Server -> Nat]
        BY <3>1, <3>2 DEF SyncType
      <3>6. syncOn' \in [Server -> BOOLEAN]
        BY <3>1, <3>2 DEF SyncType
      <3> QED
        BY <3>1, <3>3, <3>4, <3>5, <3>6 DEF SyncType, LoopType
    <2>3. LoopOK'
      BY <1>2 DEF RecvSyncEnd, AfterSync, TypeInv, TypeOK, LoopType, LoopOK, LogMatches, fileVars
    <2> QED
      BY <1>2, <2>1, <2>2, <2>3, MessageStepType DEF RecvSyncEnd
  <1> QED
    BY <1>1, <1>2

LEMMA TypeStep == TypeInv /\ [Next]_vars => TypeInv'
PROOF
  <1> SUFFICES ASSUME TypeInv, [Next]_vars PROVE TypeInv'
    OBVIOUS
  <1>1. ASSUME NEW s \in Server, ServerStep(s) PROVE TypeInv'
    BY <1>1, RecvUpdateType, RecvMembershipType, RecvVectorType, SyncEndType,
       SendUpdateType, DrainType DEF ServerStep
  <1>2. ASSUME NEW s \in Server, JoinExit(s) PROVE TypeInv'
    BY <1>2, JoinExitType
  <1>3. ASSUME NEW s \in Server, NEW r \in ClientRequests, ClientRequest(s, r) PROVE TypeInv'
    BY <1>3, ClientRequestType
  <1>4. ASSUME NEW s \in Server,
               \/ \E D \in SUBSET Server : Split(s, D)
               \/ \E r \in Server : Merge(s, r)
               \/ Disconnect(s)
        PROVE  TypeInv'
    BY <1>4, NetworkType
  <1>5. CASE UNCHANGED vars
    BY <1>5, NetworkStepType DEF TypeInv, TypeOK, NetType, vars, netVars
  <1> QED
    BY <1>1, <1>2, <1>3, <1>4, <1>5 DEF Next

\* Every variable keeps its type, whatever the clients, the network and the exits
\* of processes do.
THEOREM TypeCorrect == Spec => []TypeOK
PROOF
  <1>1. TypeInv => TypeOK
    BY DEF TypeInv
  <1> QED
    BY <1>1, TypeInit, TypeStep, PTL DEF Spec

--------------------------------------------------------------------------------
(* The keys of updates *)

\* A server numbers and stamps every update it originates from counters that are
\* past all the updates of its own that anyone has.
WithinCounters ==
  \A u \in Known : u.lts <= lts[u.server_id] /\ u.update_num <= update_seq[u.server_id]

\* The test that discards a repeated update never discards a server's new one.
OwnEntryWithin ==
  \A s \in Server : server_lts[s][s] <= lts[s] /\ server_updates[s][s] <= update_seq[s]

KeyInv ==
  WithinCounters /\ OwnEntryWithin /\ UpdateKeyUnique /\ NumbersFollowClock /\ OriginatorHasIt

\* The updates a sequence of messages carries.
Updating == {"Update", "SyncUpdate"}
Updates(q) == {q[i].update : i \in {i \in DOMAIN q : q[i].type \in Updating}}

LEMMA CarriedUpdates ==
  \A s : Carried(s) = Updates(inbox[s]) /\ Carried(s)' = Updates(inbox'[s])
PROOF
  BY DEF Carried, Updates, Updating

LEMMA UpdatesOfSeq ==
  ASSUME NEW q \in Seq(Message), NEW m \in Message
  PROVE  /\ Updates(<<>>) = {}
         /\ q # <<>> => Updates(Tail(q)) \subseteq Updates(q)
         /\ q # <<>> /\ Head(q).type \in Updating => Head(q).update \in Updates(q)
         /\ m.type \notin Updating => Updates(Append(q, m)) \subseteq Updates(q)
         /\ Updates(Append(q, m)) \subseteq Updates(q) \cup {m.update}
PROOF
  <1>1. Updates(<<>>) = {}
    BY DEF Updates
  <1>2. DOMAIN q = 1 .. Len(q) /\ Len(q) \in Nat
    BY LenProperties
  <1>3. ASSUME q # <<>> PROVE Updates(Tail(q)) \subseteq Updates(q)
    <2>1. /\ Tail(q) \in Seq(Message) /\ Len(Tail(q)) = Len(q) - 1
          /\ \A i \in 1 .. Len(Tail(q)) : Tail(q)[i] = q[i + 1]
      BY <1>3, HeadTailProperties
    <2>2. DOMAIN Tail(q) = 1 .. Len(Tail(q))
      BY <2>1, LenProperties
    <2>3. \A i \in DOMAIN Tail(q) : i + 1 \in DOMAIN q /\ Tail(q)[i] = q[i + 1]
      BY <1>2, <2>1, <2>2
    <2> QED
      BY <2>3 DEF Updates
  <1>4. ASSUME q # <<>>, Head(q).type \in Updating PROVE Head(q).update \in Updates(q)
    <2>1. Head(q) = q[1] /\ 1 \in DOMAIN q
      BY <1>2, <1>4, EmptySeq, HeadTailProperties
    <2> QED
      BY <1>4, <2>1 DEF Updates
  <1>5. \A i \in DOMAIN Append(q, m) :
          (i \in DOMAIN q /\ Append(q, m)[i] = q[i]) \/ Append(q, m)[i] = m
    BY <1>2, AppendProperties
  <1>6. m.type \notin Updating => Updates(Append(q, m)) \subseteq Updates(q)
    BY <1>5 DEF Updates
  <1>7. Updates(Append(q, m)) \subseteq Updates(q) \cup {m.update}
    BY <1>5 DEF Updates
  <1> QED
    BY <1>1, <1>3, <1>4, <1>6, <1>7

LEMMA KnownType ==
  ASSUME TypeOK
  PROVE  Known \subseteq Update
PROOF
  <1>1. \A s \in Server : log[s] \in Seq(Update) /\ inbox[s] \in Seq(Message)
    BY DEF TypeOK, FileType, NetType
  <1>2. ASSUME NEW s \in Server PROVE Logged(s) \subseteq Update
    BY <1>1, LenProperties, ElementOfSeq DEF Logged
  <1>3. ASSUME NEW s \in Server PROVE Carried(s) \subseteq Update
    <2>1. \A i \in DOMAIN inbox[s] : inbox[s][i] \in Message
      BY <1>1, LenProperties, ElementOfSeq
    <2> QED
      BY <2>1, MessageParts DEF Carried
  <1> QED
    BY <1>2, <1>3 DEF Known

\* What appending an update to a log adds to it.
LEMMA LoggedExtended ==
  ASSUME TypeOK, NEW s \in Server, NEW u \in Update,
         log' = [log EXCEPT ![s] = Extended(s, u)]
  PROVE  /\ Logged(s)' = Logged(s) \cup {u}
         /\ \A t \in Server : t # s => Logged(t)' = Logged(t)
PROOF
  <1>1. log[s] \in Seq(Update) /\ log'[s] = Append(log[s], u)
    BY DEF TypeOK, FileType, Extended
  <1>2. DOMAIN log[s] = 1 .. Len(log[s]) /\ Len(log[s]) \in Nat
    BY <1>1, LenProperties
  <1>3. /\ \A i \in DOMAIN log[s] : i \in DOMAIN log'[s] /\ log'[s][i] = log[s][i]
        /\ \A i \in DOMAIN log'[s] : i \in DOMAIN log[s] \/ log'[s][i] = u
        /\ Len(log[s]) + 1 \in DOMAIN log'[s] /\ log'[s][Len(log[s]) + 1] = u
    BY <1>1, <1>2, AppendProperties
  <1>4. Logged(s)' = Logged(s) \cup {u}
    BY <1>3 DEF Logged
  <1>5. \A t \in Server : t # s => log'[t] = log[t]
    BY DEF TypeOK, FileType
  <1> QED
    BY <1>4, <1>5 DEF Logged

\* A step that makes no update: those there are keep their keys apart.
LEMMA NothingNew ==
  ASSUME TypeOK, KeyInv, TypeOK', OwnEntryWithin',
         Known' \subseteq Known,
         \A t \in Server : Logged(t) \subseteq Logged(t)',
         \A t \in Server : lts[t] <= lts'[t] /\ update_seq[t] <= update_seq'[t]
  PROVE  KeyInv'
PROOF
  <1>1. /\ lts \in [Server -> Nat] /\ update_seq \in [Server -> Nat]
        /\ lts' \in [Server -> Nat] /\ update_seq' \in [Server -> Nat]
    BY DEF TypeOK, ClockType
  <1>2. Known \subseteq Update
    BY KnownType
  <1>3. WithinCounters'
    <2> SUFFICES ASSUME NEW u \in Known'
                 PROVE  u.lts <= lts'[u.server_id] /\ u.update_num <= update_seq'[u.server_id]
      BY DEF WithinCounters
    <2>1. u \in Known /\ u.server_id \in Server /\ u.lts \in Nat /\ u.update_num \in Nat
      BY <1>2 DEF Update
    <2>2. u.lts <= lts[u.server_id] /\ u.update_num <= update_seq[u.server_id]
      BY <2>1 DEF KeyInv, WithinCounters
    <2> QED
      BY <1>1, <2>1, <2>2
  <1>4. UpdateKeyUnique' /\ NumbersFollowClock'
    BY DEF KeyInv, UpdateKeyUnique, NumbersFollowClock
  <1>5. OriginatorHasIt'
    BY <1>2 DEF KeyInv, OriginatorHasIt, Update
  <1> QED
    BY <1>3, <1>4, <1>5 DEF KeyInv

\* A step that makes one update, stamped and numbered one past the counters.
LEMMA OneNew ==
  ASSUME TypeOK, KeyInv, TypeOK', OwnEntryWithin',
         NEW s \in Server, NEW u \in Update,
         Known' \subseteq Known \cup {u},
         u.server_id = s, u.lts = lts[s] + 1, u.update_num = update_seq[s] + 1,
         lts' = [lts EXCEPT ![s] = @ + 1],
         update_seq' = [update_seq EXCEPT ![s] = @ + 1],
         u \in Logged(s)',
         \A t \in Server : Logged(t) \subseteq Logged(t)'
  PROVE  KeyInv'
PROOF
  <1>1. /\ lts \in [Server -> Nat] /\ update_seq \in [Server -> Nat]
        /\ Known \subseteq Update
    BY KnownType DEF TypeOK, ClockType
  <1>2. \A v \in Known : /\ v.server_id \in Server /\ v.lts \in Nat /\ v.update_num \in Nat
                         /\ v.lts <= lts[v.server_id] /\ v.update_num <= update_seq[v.server_id]
    BY <1>1 DEF Update, KeyInv, WithinCounters
  <1>3. WithinCounters'
    <2> SUFFICES ASSUME NEW v \in Known'
                 PROVE  v.lts <= lts'[v.server_id] /\ v.update_num <= update_seq'[v.server_id]
      BY DEF WithinCounters
    <2>1. CASE v \in Known
      BY <1>1, <1>2, <2>1
    <2>2. CASE v = u
      BY <1>1, <2>2
    <2> QED
      BY <2>1, <2>2
  <1>4. \A v \in Known : v.server_id = s =>
          /\ v.lts < u.lts /\ v.update_num < u.update_num
          /\ v.lts # u.lts /\ ~ (u.lts < v.lts) /\ ~ (u.update_num < v.update_num)
    BY <1>1, <1>2
  <1>5. ~ (u.lts < u.lts) /\ ~ (u.update_num < u.update_num)
    BY DEF Update
  <1>6. UpdateKeyUnique'
    BY <1>4 DEF KeyInv, UpdateKeyUnique
  <1>7. NumbersFollowClock'
    <2> SUFFICES ASSUME NEW v \in Known', NEW w \in Known', v.server_id = w.server_id
                 PROVE  v.lts < w.lts <=> v.update_num < w.update_num
      BY DEF NumbersFollowClock
    <2>1. CASE v \in Known /\ w \in Known
      BY <2>1 DEF KeyInv, NumbersFollowClock
    <2>2. CASE v = u \/ w = u
      BY <1>4, <1>5, <2>2
    <2> QED
      BY <2>1, <2>2
  <1>8. OriginatorHasIt'
    BY <1>2 DEF KeyInv, OriginatorHasIt
  <1> QED
    BY <1>3, <1>6, <1>7, <1>8 DEF KeyInv

LEMMA KnownFrom ==
  ASSUME NEW S, \A t \in Server : Logged(t)' \subseteq S /\ Carried(t)' \subseteq S
  PROVE  Known' \subseteq S
PROOF
  BY DEF Known

LEMMA KnownParts ==
  \A t \in Server : Logged(t) \subseteq Known /\ Carried(t) \subseteq Known
PROOF
  BY DEF Known

\* A step that only moves what the inboxes hold.
LEMMA QuietStep ==
  ASSUME TypeOK, KeyInv, TypeOK', UNCHANGED <<clockVars, log>>,
         \A t \in Server : Updates(inbox'[t]) \subseteq Known
  PROVE  KeyInv'
PROOF
  <1>1. \A t \in Server : Logged(t)' = Logged(t)
    BY DEF Logged
  <1>2. Known' \subseteq Known
    BY <1>1, KnownFrom, KnownParts, CarriedUpdates
  <1>3. OwnEntryWithin'
    BY DEF KeyInv, OwnEntryWithin, clockVars
  <1>4. \A t \in Server : lts[t] <= lts'[t] /\ update_seq[t] <= update_seq'[t]
    BY DEF TypeOK, ClockType, clockVars
  <1> QED
    BY <1>1, <1>2, <1>3, <1>4, NothingNew

\* What a server multicasts, and what the daemons announce, adds to the inboxes.
LEMMA MulticastUpdates ==
  ASSUME NEW box \in [Server -> Seq(Message)], NEW s \in Server, NEW m \in Message,
         NEW S, \A t \in Server : Updates(box[t]) \subseteq S,
         m.type \in Updating => m.update \in S
  PROVE  \A t \in Server : Updates(Multicast(box, s, m)[t]) \subseteq S
PROOF
  <1>1. ASSUME NEW t \in Server PROVE Updates(Append(box[t], m)) \subseteq S
    BY UpdatesOfSeq
  <1> QED
    BY <1>1 DEF Multicast

LEMMA ReceivedUpdates ==
  ASSUME TypeOK, NEW s \in Server, inbox[s] # <<>>
  PROVE  /\ \A t \in Server : Updates(Received[s][t]) \subseteq Known
         /\ Head(inbox[s]).type \in Updating => Head(inbox[s]).update \in Known
PROOF
  <1>1. inbox \in [Server -> Seq(Message)]
    BY DEF TypeOK, NetType
  <1>2. \A t \in Server : Updates(inbox[t]) \subseteq Known
    BY KnownParts, CarriedUpdates
  <1>3. \A t \in Server : Received[s][t] = IF t = s THEN Tail(inbox[s]) ELSE inbox[t]
    BY <1>1 DEF Received
  <1>4. [type |-> "SyncEnd"] \in Message
    BY NewMessages
  <1>5. /\ Updates(Tail(inbox[s])) \subseteq Updates(inbox[s])
        /\ Head(inbox[s]).type \in Updating => Head(inbox[s]).update \in Updates(inbox[s])
    BY <1>1, <1>4, UpdatesOfSeq
  <1> QED
    BY <1>2, <1>3, <1>5

\* What the network and the synchronisation put into the inboxes is known already.
LEMMA NetworkQuiet ==
  ASSUME TypeInv, TypeOK', NEW s \in Server,
         \/ \E D \in SUBSET Server : Split(s, D)
         \/ \E r \in Server : Merge(s, r)
         \/ Disconnect(s)
  PROVE  /\ UNCHANGED <<clockVars, log>>
         /\ \A t \in Server : Updates(inbox'[t]) \subseteq Known
PROOF
  <1>1. UNCHANGED <<clockVars, log>>
    BY DEF Split, Merge, Disconnect, NetworkChange, fileVars
  <1>2. \A t \in Server : \/ inbox'[t] = inbox[t] \/ inbox'[t] = <<>>
                          \/ inbox'[t] = Append(inbox[t], [type |-> "Memb", members |-> comp'[t]])
    BY DEF Split, Merge, Disconnect, Announce
  <1>3. ASSUME NEW t \in Server PROVE Updates(inbox'[t]) \subseteq Known
    <2> DEFINE m == [type |-> "Memb", members |-> comp'[t]]
    <2>1. inbox[t] \in Seq(Message) /\ m \in Message
      BY NewMessages DEF TypeInv, TypeOK, NetType
    <2>2. m.type \notin Updating
      BY DEF Updating
    <2>3. Updates(inbox[t]) \subseteq Known
      BY KnownParts, CarriedUpdates
    <2> HIDE DEF m
    <2>4. Updates(<<>>) = {} /\ Updates(Append(inbox[t], m)) \subseteq Updates(inbox[t])
      BY <2>1, <2>2, UpdatesOfSeq
    <2> QED
      BY <1>2, <2>3, <2>4 DEF m
  <1> QED
    BY <1>1, <1>3

LEMMA SynchronisationQuiet ==
  ASSUME TypeInv, NEW s \in Server,
         \/ RecvMembership(s) \/ RecvVector(s) \/ RecvSyncEnd(s)
         \/ SendUpdate(s) \/ SendSyncEnd(s) \/ JoinExit(s)
  PROVE  /\ UNCHANGED <<clockVars, log>>
         /\ \A t \in Server : Updates(inbox'[t]) \subseteq Known
PROOF
  <1>0. TypeOK /\ inbox \in [Server -> Seq(Message)]
    BY DEF TypeInv, TypeOK, NetType
  <1>1. UNCHANGED <<clockVars, log>>
    BY DEF RecvMembership, RecvVector, RecvSyncEnd, SendUpdate, SendSyncEnd, JoinExit, fileVars
  <1>2. \A t \in Server : Updates(inbox[t]) \subseteq Known
    BY KnownParts, CarriedUpdates
  <1>3. CASE RecvVector(s) \/ RecvSyncEnd(s)
    <2>1. inbox[s] # <<>> /\ inbox' = Received[s]
      BY <1>3 DEF RecvVector, RecvSyncEnd, Receives
    <2> QED
      BY <1>0, <1>1, <2>1, ReceivedUpdates
  <1>4. CASE RecvMembership(s)
    <2> DEFINE m == [type |-> "Vector", server_index |-> s, server_vector |-> server_lts[s]]
    <2>1. inbox[s] # <<>> /\ (inbox' = Received[s] \/ inbox' = Multicast(Received[s], s, m))
      BY <1>4 DEF RecvMembership, Receives
    <2>2. m \in Message /\ m.type \notin Updating
      BY NewMessages DEF TypeInv, TypeOK, ClockType, Updating
    <2> HIDE DEF m
    <2>3. Received[s] \in [Server -> Seq(Message)]
      BY <1>0, <2>1, ReceivedType
    <2>4. \A t \in Server : Updates(Received[s][t]) \subseteq Known
      BY <1>0, <2>1, ReceivedUpdates
    <2>5. \A t \in Server : Updates(Multicast(Received[s], s, m)[t]) \subseteq Known
      BY <2>2, <2>3, <2>4, MulticastUpdates
    <2> QED
      BY <1>0, <1>1, <2>1, <2>4, <2>5
  <1>5. CASE SendUpdate(s)
    <2> DEFINE m == [type |-> "SyncUpdate", update |-> LogRecord(s, First(job[s]))]
    <2>1. m \in Message /\ m.update \in Known
      BY <1>5, SendUpdateType, NewMessages, KnownParts
    <2>2. inbox' = Multicast(inbox, s, m)
      BY <1>5 DEF SendUpdate
    <2> HIDE DEF m
    <2> QED
      BY <1>0, <1>1, <1>2, <2>1, <2>2, MulticastUpdates
  <1>6. CASE SendSyncEnd(s)
    <2> DEFINE m == [type |-> "SyncEnd"]
    <2>1. m \in Message /\ m.type \notin Updating
      BY NewMessages DEF Updating
    <2>2. inbox' = Multicast(inbox, s, m)
      BY <1>6 DEF SendSyncEnd
    <2> HIDE DEF m
    <2> QED
      BY <1>0, <1>1, <1>2, <2>1, <2>2, MulticastUpdates
  <1>7. CASE JoinExit(s)
    BY <1>0, <1>1, <1>2, <1>7 DEF JoinExit
  <1> QED
    BY <1>3, <1>4, <1>5, <1>6, <1>7

LEMMA QuietKeys ==
  ASSUME TypeInv, KeyInv, TypeOK', NEW s \in Server,
         \/ \E D \in SUBSET Server : Split(s, D)
         \/ \E r \in Server : Merge(s, r)
         \/ Disconnect(s) \/ JoinExit(s)
         \/ RecvMembership(s) \/ RecvVector(s) \/ RecvSyncEnd(s)
         \/ SendUpdate(s) \/ SendSyncEnd(s)
  PROVE  KeyInv'
PROOF
  <1>1. UNCHANGED <<clockVars, log>> /\ \A t \in Server : Updates(inbox'[t]) \subseteq Known
    BY NetworkQuiet, SynchronisationQuiet
  <1> QED
    BY <1>1, QuietStep DEF TypeInv

\* What apply_update does to the clock, the vector and the log of its server.
LEMMA ApplyUpdateEffect ==
  ASSUME TypeOK, NEW s \in Server, NEW u \in Update, ApplyUpdate(s, u)
  PROVE  /\ lts' = [lts EXCEPT ![s] = Later(u.lts, lts[s])]
         /\ lts[s] <= lts'[s] /\ u.lts <= lts'[s]
         /\ \A t \in Server : t # s => lts'[t] = lts[t]
         /\ \A t \in Server : t # s => /\ server_lts'[t] = server_lts[t]
                                       /\ server_updates'[t] = server_updates[t]
         /\ \/ server_lts'[s][s] = server_lts[s][s] /\ server_updates'[s][s] = server_updates[s][s]
            \/ /\ u.server_id = s
               /\ server_lts'[s][s] = u.lts /\ server_updates'[s][s] = u.update_num
         /\ \A t \in Server : Logged(t) \subseteq Logged(t)' /\ Logged(t)' \subseteq Logged(t) \cup {u}
         /\ Accepted(s, u) => u \in Logged(s)'
PROOF
  <1>1. lts[s] \in Nat /\ u.lts \in Nat /\ u.server_id \in Server /\ lts \in [Server -> Nat]
    BY DEF TypeOK, ClockType, Update
  <1>2. lts' = [lts EXCEPT ![s] = Later(u.lts, lts[s])]
    BY DEF ApplyUpdate
  <1>3. /\ lts[s] <= lts'[s] /\ u.lts <= lts'[s]
        /\ \A t \in Server : t # s => lts'[t] = lts[t]
    BY <1>1, <1>2 DEF Later
  <1>4. CASE Accepted(s, u)
    <2>1. /\ log' = [log EXCEPT ![s] = Extended(s, u)]
          /\ server_lts' = [server_lts EXCEPT ![s] = [server_lts[s] EXCEPT ![u.server_id] = u.lts]]
          /\ server_updates' =
               [server_updates EXCEPT ![s] = [server_updates[s] EXCEPT ![u.server_id] = u.update_num]]
      BY <1>4 DEF ApplyUpdate
    <2>2. /\ server_lts \in [Server -> [Server -> Nat]]
          /\ server_updates \in [Server -> [Server -> Nat]]
      BY DEF TypeOK, ClockType, Vector
    <2>3. /\ server_lts'[s] = [server_lts[s] EXCEPT ![u.server_id] = u.lts]
          /\ server_updates'[s] = [server_updates[s] EXCEPT ![u.server_id] = u.update_num]
          /\ \A t \in Server : t # s => /\ server_lts'[t] = server_lts[t]
                                        /\ server_updates'[t] = server_updates[t]
      BY <2>1, <2>2
    <2>4. \/ server_lts'[s][s] = server_lts[s][s] /\ server_updates'[s][s] = server_updates[s][s]
          \/ /\ u.server_id = s
             /\ server_lts'[s][s] = u.lts /\ server_updates'[s][s] = u.update_num
      BY <1>1, <2>2, <2>3
    <2>5. /\ \A t \in Server : Logged(t) \subseteq Logged(t)' /\ Logged(t)' \subseteq Logged(t) \cup {u}
          /\ u \in Logged(s)'
      BY <2>1, LoggedExtended
    <2> QED
      BY <1>2, <1>3, <2>3, <2>4, <2>5
  <1>5. CASE ~ Accepted(s, u)
    <2>1. UNCHANGED <<log, server_lts, server_updates>>
      BY <1>5 DEF ApplyUpdate
    <2>2. \A t \in Server : Logged(t)' = Logged(t)
      BY <2>1 DEF Logged
    <2> QED
      BY <1>2, <1>3, <1>5, <2>1, <2>2
  <1> QED
    BY <1>4, <1>5

LEMMA RecvUpdateKeys ==
  ASSUME TypeInv, KeyInv, TypeOK', NEW s \in Server, RecvUpdate(s) \/ RecvSyncUpdate(s)
  PROVE  KeyInv'
PROOF
  <1> DEFINE u == Head(inbox[s]).update
  <1>0. TypeOK /\ lts \in [Server -> Nat] /\ update_seq \in [Server -> Nat]
    BY DEF TypeInv, TypeOK, ClockType
  <1>1. /\ inbox[s] # <<>> /\ Head(inbox[s]).type \in Updating
        /\ inbox' = Received[s] /\ UNCHANGED update_seq
    BY DEF RecvUpdate, RecvSyncUpdate, Receives, Updating
  <1>2. u \in Known /\ \A t \in Server : Updates(inbox'[t]) \subseteq Known
    BY <1>0, <1>1, ReceivedUpdates
  <1>3. u \in Update
    BY <1>0, <1>2, KnownType
  <1>4. UNCHANGED <<lts, server_lts, server_updates, log>> \/ ApplyUpdate(s, u)
    BY DEF RecvUpdate, RecvSyncUpdate, fileVars
  <1> HIDE DEF u
  <1>5. CASE UNCHANGED <<lts, server_lts, server_updates, log>>
    BY <1>0, <1>1, <1>2, <1>5, QuietStep DEF clockVars
  <1>6. CASE ApplyUpdate(s, u)
    <2>1. /\ \A t \in Server : lts[t] <= lts'[t]
          /\ \A t \in Server : Logged(t) \subseteq Logged(t)' /\ Logged(t)' \subseteq Logged(t) \cup {u}
      BY <1>0, <1>3, <1>6, ApplyUpdateEffect
    <2>2. Known' \subseteq Known
      BY <1>2, <2>1, KnownFrom, KnownParts, CarriedUpdates
    <2>3. OwnEntryWithin'
      <3> SUFFICES ASSUME NEW t \in Server
                   PROVE  server_lts'[t][t] <= lts'[t] /\ server_updates'[t][t] <= update_seq'[t]
        BY DEF OwnEntryWithin
      <3>1. server_lts[t][t] <= lts[t] /\ server_updates[t][t] <= update_seq[t]
        BY DEF KeyInv, OwnEntryWithin
      <3>2. lts[t] \in Nat /\ lts'[t] \in Nat /\ server_lts[t][t] \in Nat
        BY DEF TypeInv, TypeOK, ClockType, Vector
      <3>3. CASE t # s
        BY <1>0, <1>1, <1>3, <1>6, <3>1, <3>3, ApplyUpdateEffect
      <3>4. CASE t = s
        <4>1. u.server_id = s => u.update_num <= update_seq[s]
          BY <1>2 DEF KeyInv, WithinCounters
        <4>2. /\ lts[s] <= lts'[s] /\ u.lts <= lts'[s]
              /\ \/ /\ server_lts'[s][s] = server_lts[s][s]
                    /\ server_updates'[s][s] = server_updates[s][s]
                 \/ /\ u.server_id = s
                    /\ server_lts'[s][s] = u.lts /\ server_updates'[s][s] = u.update_num
          BY <1>0, <1>3, <1>6, ApplyUpdateEffect
        <4> QED
          BY <1>1, <3>1, <3>2, <3>4, <4>1, <4>2
      <3> QED
        BY <3>3, <3>4
    <2>4. \A t \in Server : update_seq[t] <= update_seq'[t]
      BY <1>0, <1>1
    <2> QED
      BY <1>0, <2>1, <2>2, <2>3, <2>4, NothingNew
  <1> QED
    BY <1>4, <1>5, <1>6

\* The counters leave the vector behind also when only they move.
LEMMA CreateBoardKeys ==
  ASSUME TypeOK, KeyInv, TypeOK', NEW s \in Server, NEW b \in Board, CreateBoard(s, b)
  PROVE  KeyInv'
PROOF
  <1> DEFINE u == NewBoard(s, b)
             m == [type |-> "Update", update |-> u]
  <1>0. /\ lts \in [Server -> Nat] /\ update_seq \in [Server -> Nat]
        /\ server_lts \in [Server -> Vector] /\ server_updates \in [Server -> Vector]
        /\ inbox \in [Server -> Seq(Message)]
    BY DEF TypeOK, ClockType, NetType
  <1>1. u \in Update /\ m \in Message /\ m.update = u
    BY NewBoardType, NewMessages
  <1>2. u.server_id = s /\ u.lts = lts[s] + 1 /\ u.update_num = update_seq[s] + 1
    BY DEF NewBoard
  <1> HIDE DEF u
  <1>3. /\ lts' = [lts EXCEPT ![s] = @ + 1]
        /\ update_seq' = [update_seq EXCEPT ![s] = @ + 1]
        /\ log' = [log EXCEPT ![s] = Extended(s, u)]
        /\ inbox' = Multicast(inbox, s, m)
        /\ UNCHANGED <<server_lts, server_updates>>
    BY DEF CreateBoard, u
  <1> HIDE DEF m
  <1>4. /\ u \in Logged(s)'
        /\ \A t \in Server : Logged(t) \subseteq Logged(t)' /\ Logged(t)' \subseteq Logged(t) \cup {u}
    BY <1>1, <1>3, LoggedExtended
  <1>5. \A t \in Server : Updates(inbox'[t]) \subseteq Known \cup {u}
    <2>1. \A t \in Server : Updates(inbox[t]) \subseteq Known \cup {u}
      BY KnownParts, CarriedUpdates
    <2> QED
      BY <1>0, <1>1, <1>3, <2>1, MulticastUpdates
  <1>6. Known' \subseteq Known \cup {u}
    BY <1>4, <1>5, KnownFrom, KnownParts, CarriedUpdates
  <1>7. OwnEntryWithin'
    <2> SUFFICES ASSUME NEW t \in Server
                 PROVE  server_lts'[t][t] <= lts'[t] /\ server_updates'[t][t] <= update_seq'[t]
      BY DEF OwnEntryWithin
    <2>1. server_lts[t][t] <= lts[t] /\ server_updates[t][t] <= update_seq[t]
      BY DEF KeyInv, OwnEntryWithin
    <2>2. server_lts[t][t] \in Nat /\ server_updates[t][t] \in Nat
      BY <1>0 DEF Vector
    <2> QED
      BY <1>0, <1>3, <2>1, <2>2
  <1> QED
    BY <1>1, <1>2, <1>3, <1>4, <1>6, <1>7, OneNew

LEMMA UpdateReplicasKeys ==
  ASSUME TypeOK, KeyInv, TypeOK', NEW s \in Server, NEW r \in Request, r.op # "j",
         UpdateReplicas(s, r)
  PROVE  KeyInv'
PROOF
  <1> DEFINE u == NewUpdate(s, r)
             m == [type |-> "Update", update |-> u]
  <1>0. /\ lts \in [Server -> Nat] /\ update_seq \in [Server -> Nat]
        /\ server_lts \in [Server -> [Server -> Nat]] /\ server_updates \in [Server -> [Server -> Nat]]
        /\ inbox \in [Server -> Seq(Message)]
    BY DEF TypeOK, ClockType, NetType, Vector
  <1>1. u \in Update /\ m \in Message /\ m.update = u
    BY NewUpdateType, NewMessages
  <1>2. u.server_id = s /\ u.lts = lts[s] + 1 /\ u.update_num = update_seq[s] + 1
    BY DEF NewUpdate
  <1> HIDE DEF u
  <1>3. /\ update_seq' = [update_seq EXCEPT ![s] = @ + 1]
        /\ ApplyUpdate(s, u)
        /\ inbox' = inbox \/ inbox' = Multicast(inbox, s, m)
    BY DEF UpdateReplicas, u
  <1> HIDE DEF m
  <1>4. Accepted(s, u)
    <2>1. server_lts[s][s] <= lts[s] /\ server_updates[s][s] <= update_seq[s]
      BY DEF KeyInv, OwnEntryWithin
    <2> QED
      BY <1>0, <1>2, <2>1 DEF Accepted
  <1>5. lts' = [lts EXCEPT ![s] = @ + 1]
    <2>1. Later(u.lts, lts[s]) = lts[s] + 1
      BY <1>0, <1>2 DEF Later
    <2> QED
      BY <1>1, <1>3, <2>1, ApplyUpdateEffect
  <1>6. /\ u \in Logged(s)'
        /\ \A t \in Server : Logged(t) \subseteq Logged(t)' /\ Logged(t)' \subseteq Logged(t) \cup {u}
    BY <1>1, <1>3, <1>4, ApplyUpdateEffect
  <1>7. \A t \in Server : Updates(inbox'[t]) \subseteq Known \cup {u}
    <2>1. \A t \in Server : Updates(inbox[t]) \subseteq Known \cup {u}
      BY KnownParts, CarriedUpdates
    <2>2. \A t \in Server : Updates(Multicast(inbox, s, m)[t]) \subseteq Known \cup {u}
      BY <1>0, <1>1, <2>1, MulticastUpdates
    <2> QED
      BY <1>3, <2>1, <2>2
  <1>8. Known' \subseteq Known \cup {u}
    BY <1>6, <1>7, KnownFrom, KnownParts, CarriedUpdates
  <1>9. OwnEntryWithin'
    <2> SUFFICES ASSUME NEW t \in Server
                 PROVE  server_lts'[t][t] <= lts'[t] /\ server_updates'[t][t] <= update_seq'[t]
      BY DEF OwnEntryWithin
    <2>1. server_lts[t][t] <= lts[t] /\ server_updates[t][t] <= update_seq[t]
      BY DEF KeyInv, OwnEntryWithin
    <2>2. CASE t # s
      <3>1. server_lts'[t] = server_lts[t] /\ server_updates'[t] = server_updates[t]
        BY <1>1, <1>3, <2>2, ApplyUpdateEffect
      <3>2. lts'[t] = lts[t] /\ update_seq'[t] = update_seq[t]
        BY <1>0, <1>3, <1>5, <2>2
      <3> QED
        BY <2>1, <3>1, <3>2
    <2>3. CASE t = s
      <3>1. \/ server_lts'[s][s] = server_lts[s][s] /\ server_updates'[s][s] = server_updates[s][s]
            \/ server_lts'[s][s] = u.lts /\ server_updates'[s][s] = u.update_num
        BY <1>1, <1>3, ApplyUpdateEffect
      <3>2. lts'[s] = lts[s] + 1 /\ update_seq'[s] = update_seq[s] + 1
        BY <1>0, <1>3, <1>5
      <3>3. /\ lts[s] \in Nat /\ update_seq[s] \in Nat
            /\ server_lts[s][s] \in Nat /\ server_updates[s][s] \in Nat
        BY <1>0
      <3> QED
        BY <1>2, <2>1, <2>3, <3>1, <3>2, <3>3
    <2> QED
      BY <2>2, <2>3
  <1> QED
    BY <1>1, <1>2, <1>3, <1>5, <1>6, <1>8, <1>9, OneNew

LEMMA RequestKeys ==
  ASSUME TypeInv, KeyInv, TypeOK', NEW s \in Server,
         \/ \E r \in ClientRequests : ClientRequest(s, r)
         \/ Drain(s)
  PROVE  KeyInv'
PROOF
  <1>0. TypeOK
    BY DEF TypeInv
  <1>1. PICK r \in Request : HandleClientReq(s, r)
    <2>1. ClientRequests \subseteq Request
      BY <1>0, RequestsType
    <2>2. Drain(s) => Head(queue[s]) \in Request
      BY HeadTailProperties DEF Drain, TypeInv, TypeOK, LoopType, LoopOK
    <2> QED
      BY <2>1, <2>2 DEF ClientRequest, Drain
  <1>2. r.db_name \in Board
    BY DEF Request
  <1>3. CASE r.op = "j" /\ r.db_name \in DOMAIN db[s]
    <2>1. UNCHANGED <<clockVars, log, inbox>>
      BY <1>1, <1>3 DEF HandleClientReq, JoinDb, fileVars
    <2>2. \A t \in Server : Updates(inbox'[t]) \subseteq Known
      BY <2>1, KnownParts, CarriedUpdates
    <2> QED
      BY <1>0, <2>1, <2>2, QuietStep
  <1>4. CASE r.op = "j" /\ r.db_name \notin DOMAIN db[s]
    BY <1>0, <1>1, <1>2, <1>4, CreateBoardKeys DEF HandleClientReq, JoinDb
  <1>5. CASE r.op # "j"
    BY <1>0, <1>1, <1>5, UpdateReplicasKeys DEF HandleClientReq
  <1> QED
    BY <1>3, <1>4, <1>5

LEMMA KeyInit == Init => KeyInv
PROOF
  <1> SUFFICES ASSUME Init PROVE KeyInv
    OBVIOUS
  <1>1. \A s \in Server : Logged(s) = {} /\ Carried(s) = {}
    BY DEF Init, Logged, Carried
  <1>2. Known = {}
    BY <1>1 DEF Known
  <1>3. OwnEntryWithin
    BY DEF Init, OwnEntryWithin
  <1> QED
    BY <1>2, <1>3 DEF KeyInv, WithinCounters, UpdateKeyUnique, NumbersFollowClock, OriginatorHasIt

LEMMA KeyStep == TypeInv /\ KeyInv /\ [Next]_vars => KeyInv'
PROOF
  <1> SUFFICES ASSUME TypeInv, KeyInv, [Next]_vars PROVE KeyInv'
    OBVIOUS
  <1>0. TypeOK /\ TypeOK'
    BY TypeStep DEF TypeInv
  <1>1. ASSUME NEW s \in Server, ServerStep(s) PROVE KeyInv'
    BY <1>0, <1>1, RecvUpdateKeys, QuietKeys, RequestKeys DEF ServerStep
  <1>2. ASSUME NEW s \in Server, JoinExit(s) PROVE KeyInv'
    BY <1>0, <1>2, QuietKeys
  <1>3. ASSUME NEW s \in Server, NEW r \in ClientRequests, ClientRequest(s, r) PROVE KeyInv'
    BY <1>0, <1>3, RequestKeys
  <1>4. ASSUME NEW s \in Server,
               \/ \E D \in SUBSET Server : Split(s, D)
               \/ \E r \in Server : Merge(s, r)
               \/ Disconnect(s)
        PROVE  KeyInv'
    BY <1>0, <1>4, QuietKeys
  <1>5. CASE UNCHANGED vars
    <2>1. UNCHANGED <<clockVars, log, inbox>>
      BY <1>5 DEF vars, fileVars
    <2>2. \A t \in Server : Updates(inbox'[t]) \subseteq Known
      BY <2>1, KnownParts, CarriedUpdates
    <2> QED
      BY <1>0, <2>1, <2>2, QuietStep
  <1> QED
    BY <1>1, <1>2, <1>3, <1>4, <1>5 DEF Next

LEMMA KeysHold == Spec => [](TypeInv /\ KeyInv)
PROOF
  <1>1. Init => TypeInv /\ KeyInv
    BY TypeInit, KeyInit
  <1>2. TypeInv /\ KeyInv /\ [Next]_vars => (TypeInv /\ KeyInv)'
    BY TypeStep, KeyStep
  <1> QED
    BY <1>1, <1>2, PTL DEF Spec

\* No two updates, in the logs or on their way, share originator and timestamp:
\* search_log finds the one that was asked for.
THEOREM KeysAreUnique == Spec => []UpdateKeyUnique
PROOF
  <1>1. KeyInv => UpdateKeyUnique
    BY DEF KeyInv
  <1> QED
    BY <1>1, KeysHold, PTL

\* The timestamps and the numbers of an originator's updates are in the same
\* order: neither test of apply_update discards what the other lets through.
THEOREM NumbersAgree == Spec => []NumbersFollowClock
PROOF
  <1>1. KeyInv => NumbersFollowClock
    BY DEF KeyInv
  <1> QED
    BY <1>1, KeysHold, PTL

\* Every update anyone has logged or is still to receive is in the log of the
\* server that made it.
THEOREM OriginatorKeepsIt == Spec => []OriginatorHasIt
PROOF
  <1>1. KeyInv => OriginatorHasIt
    BY DEF KeyInv
  <1> QED
    BY <1>1, KeysHold, PTL

--------------------------------------------------------------------------------
(* The three ways in which clock, vector and log change *)

LEMMA ReceivedUpdate ==
  ASSUME TypeInv, NEW s \in Server, RecvUpdate(s) \/ RecvSyncUpdate(s)
  PROVE  \/ UNCHANGED <<lts, server_lts, log>>
         \/ \E u \in Update : ApplyUpdate(s, u)
PROOF
  <1> DEFINE u == Head(inbox[s]).update
  <1>1. inbox[s] # <<>> /\ Head(inbox[s]).type \in Updating
    BY DEF RecvUpdate, RecvSyncUpdate, Receives, Updating
  <1>2. u \in Update
    BY <1>1, ReceivedUpdates, KnownType DEF TypeInv
  <1>3. UNCHANGED <<lts, server_lts, log>> \/ ApplyUpdate(s, u)
    BY DEF RecvUpdate, RecvSyncUpdate, fileVars
  <1> QED
    BY <1>2, <1>3

LEMMA RequestHandled ==
  ASSUME TypeOK, NEW s \in Server, NEW r \in Request, HandleClientReq(s, r)
  PROVE  \/ UNCHANGED <<lts, server_lts, log>>
         \/ \E u \in Update : ApplyUpdate(s, u)
         \/ \E b \in Board : CreateBoard(s, b)
PROOF
  <1>1. CASE r.op = "j"
    <2>1. r.db_name \in Board
      BY DEF Request
    <2> QED
      BY <1>1, <2>1 DEF HandleClientReq, JoinDb, clockVars, fileVars
  <1>2. CASE r.op # "j"
    BY <1>2, NewUpdateType DEF HandleClientReq, UpdateReplicas
  <1> QED
    BY <1>1, <1>2

LEMMA LogSteps ==
  ASSUME TypeInv, [Next]_vars
  PROVE  \/ UNCHANGED <<lts, server_lts, log>>
         \/ \E s \in Server, u \in Update : ApplyUpdate(s, u)
         \/ \E s \in Server, b \in Board : CreateBoard(s, b)
PROOF
  <1> DEFINE Goal == \/ UNCHANGED <<lts, server_lts, log>>
                     \/ \E s \in Server, u \in Update : ApplyUpdate(s, u)
                     \/ \E s \in Server, b \in Board : CreateBoard(s, b)
  <1>1. ASSUME NEW s \in Server, ServerStep(s) PROVE Goal
    <2>1. CASE RecvUpdate(s) \/ RecvSyncUpdate(s)
      BY <2>1, ReceivedUpdate
    <2>2. CASE RecvMembership(s) \/ RecvVector(s) \/ RecvSyncEnd(s) \/ SendUpdate(s) \/ SendSyncEnd(s)
      BY <2>2 DEF RecvMembership, RecvVector, RecvSyncEnd, SendUpdate, SendSyncEnd,
                  clockVars, fileVars
    <2>3. CASE Drain(s)
      <3>1. queue[s] \in Seq(Request) /\ queue[s] # <<>>
        BY <2>3 DEF Drain, TypeInv, TypeOK, LoopType, LoopOK
      <3>2. Head(queue[s]) \in Request
        BY <3>1, HeadTailProperties
      <3> QED
        BY <2>3, <3>2, RequestHandled DEF Drain, TypeInv
    <2> QED
      BY <1>1, <2>1, <2>2, <2>3 DEF ServerStep
  <1>2. ASSUME NEW s \in Server, NEW r \in ClientRequests, ClientRequest(s, r) PROVE Goal
    <2>1. r \in Request
      BY RequestsType DEF TypeInv
    <2> QED
      BY <1>2, <2>1, RequestHandled DEF ClientRequest, TypeInv
  <1>3. ASSUME NEW s \in Server,
               \/ JoinExit(s) \/ Disconnect(s)
               \/ \E D \in SUBSET Server : Split(s, D)
               \/ \E r \in Server : Merge(s, r)
        PROVE  Goal
    BY <1>3 DEF JoinExit, Disconnect, Split, Merge, NetworkChange, clockVars, fileVars
  <1>4. CASE UNCHANGED vars
    BY <1>4 DEF vars, clockVars, fileVars
  <1> QED
    BY <1>1, <1>2, <1>3, <1>4 DEF Next

--------------------------------------------------------------------------------
(* Clock, vector and log *)

LogInv == ClockCoversLog /\ VectorIsLogged

LEMMA LogInit == Init => LogInv
PROOF
  BY DEF Init, LogInv, ClockCoversLog, VectorIsLogged, Logged

\* The vector of a server that applies an update: one entry moves, to an update
\* that is logged in the same step, or none does.
LEMMA ApplyUpdateVector ==
  ASSUME TypeOK, NEW s \in Server, NEW u \in Update, ApplyUpdate(s, u), NEW o \in Server
  PROVE  \/ server_lts'[s][o] = server_lts[s][o]
         \/ o = u.server_id /\ server_lts'[s][o] = u.lts /\ u \in Logged(s)'
PROOF
  <1>1. CASE Accepted(s, u)
    <2>1. server_lts' = [server_lts EXCEPT ![s] = [server_lts[s] EXCEPT ![u.server_id] = u.lts]]
      BY <1>1 DEF ApplyUpdate
    <2>2. server_lts \in [Server -> [Server -> Nat]]
      BY DEF TypeOK, ClockType, Vector
    <2>3. u \in Logged(s)'
      BY <1>1, ApplyUpdateEffect
    <2> QED
      BY <2>1, <2>2, <2>3
  <1>2. CASE ~ Accepted(s, u)
    BY <1>2 DEF ApplyUpdate
  <1> QED
    BY <1>1, <1>2

LEMMA ApplyUpdateLog ==
  ASSUME TypeOK, LogInv, TypeOK', NEW s \in Server, NEW u \in Update, ApplyUpdate(s, u)
  PROVE  LogInv'
PROOF
  <1>1. /\ \A t \in Server : lts[t] \in Nat /\ lts'[t] \in Nat
        /\ \A t, o \in Server : server_lts[t][o] \in Nat
        /\ u.lts \in Nat
    BY DEF TypeOK, ClockType, Vector, Update
  <1>2. /\ lts[s] <= lts'[s] /\ u.lts <= lts'[s]
        /\ \A t \in Server : t # s => lts'[t] = lts[t] /\ server_lts'[t] = server_lts[t]
        /\ \A t \in Server : Logged(t) \subseteq Logged(t)'
        /\ Logged(s)' \subseteq Logged(s) \cup {u}
    BY ApplyUpdateEffect
  <1>3. \A t \in Server : t # s => Logged(t)' = Logged(t)
    <2>1. CASE Accepted(s, u)
      BY <2>1, LoggedExtended DEF ApplyUpdate
    <2>2. CASE ~ Accepted(s, u)
      BY <2>2 DEF ApplyUpdate, Logged
    <2> QED
      BY <2>1, <2>2
  <1>4. \A t \in Server : \A v \in Logged(t) : v.lts \in Nat
    BY KnownType DEF Known, Update
  <1>5. ClockCoversLog'
    <2> SUFFICES ASSUME NEW t \in Server
                 PROVE  /\ \A v \in Logged(t)' : v.lts <= lts'[t]
                        /\ \A o \in Server : server_lts'[t][o] <= lts'[t]
      BY DEF ClockCoversLog
    <2>1. /\ \A v \in Logged(t) : v.lts <= lts[t]
          /\ \A o \in Server : server_lts[t][o] <= lts[t]
      BY DEF LogInv, ClockCoversLog
    <2>2. CASE t # s
      BY <1>2, <1>3, <2>1, <2>2
    <2>3. CASE t = s
      <3>1. \A v \in Logged(s)' : v.lts <= lts'[s]
        BY <1>1, <1>2, <1>4, <2>1, <2>3
      <3>2. \A o \in Server : server_lts'[s][o] <= lts'[s]
        BY <1>1, <1>2, <2>1, <2>3, ApplyUpdateVector
      <3> QED
        BY <2>3, <3>1, <3>2
    <2> QED
      BY <2>2, <2>3
  <1>6. VectorIsLogged'
    <2> SUFFICES ASSUME NEW t \in Server, NEW o \in Server, server_lts'[t][o] > 0
                 PROVE  \E v \in Logged(t)' : v.server_id = o /\ v.lts = server_lts'[t][o]
      BY DEF VectorIsLogged
    <2>1. CASE server_lts'[t][o] = server_lts[t][o]
      BY <1>2, <2>1 DEF LogInv, VectorIsLogged
    <2>2. CASE server_lts'[t][o] # server_lts[t][o]
      <3>1. t = s
        BY <1>2, <2>2
      <3> QED
        BY <2>2, <3>1, ApplyUpdateVector
    <2> QED
      BY <2>1, <2>2
  <1> QED
    BY <1>5, <1>6 DEF LogInv

LEMMA CreateBoardLog ==
  ASSUME TypeOK, LogInv, NEW s \in Server, NEW b \in Board, CreateBoard(s, b)
  PROVE  LogInv'
PROOF
  <1> DEFINE u == NewBoard(s, b)
  <1>1. u \in Update /\ u.lts = lts[s] + 1
    BY NewBoardType DEF NewBoard
  <1>2. /\ lts' = [lts EXCEPT ![s] = @ + 1]
        /\ log' = [log EXCEPT ![s] = Extended(s, u)]
        /\ UNCHANGED server_lts
    BY DEF CreateBoard
  <1> HIDE DEF u
  <1>3. /\ Logged(s)' = Logged(s) \cup {u}
        /\ \A t \in Server : t # s => Logged(t)' = Logged(t)
    BY <1>1, <1>2, LoggedExtended
  <1>4. /\ lts'[s] = lts[s] + 1 /\ \A t \in Server : t # s => lts'[t] = lts[t]
        /\ \A t \in Server : lts[t] \in Nat
        /\ \A t, o \in Server : server_lts[t][o] \in Nat
        /\ \A v \in Logged(s) : v.lts \in Nat
    BY <1>2, KnownType DEF TypeOK, ClockType, Vector, Known, Update
  <1>5. ClockCoversLog'
    <2> SUFFICES ASSUME NEW t \in Server
                 PROVE  /\ \A v \in Logged(t)' : v.lts <= lts'[t]
                        /\ \A o \in Server : server_lts[t][o] <= lts'[t]
      BY <1>2 DEF ClockCoversLog
    <2>1. /\ \A v \in Logged(t) : v.lts <= lts[t]
          /\ \A o \in Server : server_lts[t][o] <= lts[t]
      BY DEF LogInv, ClockCoversLog
    <2>2. CASE t # s
      BY <1>3, <1>4, <2>1, <2>2
    <2>3. CASE t = s
      BY <1>1, <1>3, <1>4, <2>1, <2>3
    <2> QED
      BY <2>2, <2>3
  <1>6. VectorIsLogged'
    BY <1>2, <1>3 DEF LogInv, VectorIsLogged
  <1> QED
    BY <1>5, <1>6 DEF LogInv

LEMMA LogStep == TypeInv /\ LogInv /\ [Next]_vars => LogInv'
PROOF
  <1> SUFFICES ASSUME TypeInv, LogInv, [Next]_vars PROVE LogInv'
    OBVIOUS
  <1>0. TypeOK /\ TypeOK'
    BY TypeStep DEF TypeInv
  <1>1. CASE UNCHANGED <<lts, server_lts, log>>
    BY <1>1 DEF LogInv, ClockCoversLog, VectorIsLogged, Logged
  <1>2. ASSUME NEW s \in Server, NEW u \in Update, ApplyUpdate(s, u) PROVE LogInv'
    BY <1>0, <1>2, ApplyUpdateLog
  <1>3. ASSUME NEW s \in Server, NEW b \in Board, CreateBoard(s, b) PROVE LogInv'
    BY <1>0, <1>3, CreateBoardLog
  <1> QED
    BY <1>1, <1>2, <1>3, LogSteps

LEMMA LogsHold == Spec => [](TypeInv /\ LogInv)
PROOF
  <1>1. Init => TypeInv /\ LogInv
    BY TypeInit, LogInit
  <1>2. TypeInv /\ LogInv /\ [Next]_vars => (TypeInv /\ LogInv)'
    BY TypeStep, LogStep
  <1> QED
    BY <1>1, <1>2, PTL DEF Spec

\* The Lamport clock of a server is never behind an update it has logged, nor
\* behind an entry of its vector.
THEOREM ClockIsPast == Spec => []ClockCoversLog
PROOF
  <1>1. LogInv => ClockCoversLog
    BY DEF LogInv
  <1> QED
    BY <1>1, LogsHold, PTL

\* The update a vector names for an originator is in the log: a server elected to
\* resend it finds it there.
THEOREM VectorsAreLogged == Spec => []VectorIsLogged
PROOF
  <1>1. LogInv => VectorIsLogged
    BY DEF LogInv
  <1> QED
    BY <1>1, LogsHold, PTL

--------------------------------------------------------------------------------
(* The buffer of requests *)

\* A step of server s keeps the buffers of the others as they are.
LEMMA BufferOfOne ==
  ASSUME BufferOnlyInSync, NEW s \in Server,
         \A t \in Server : t # s => /\ queue'[t] = queue[t]
                                    /\ syncOn'[t] = syncOn[t] /\ pc'[t] = pc[t],
         queue'[s] # <<>> => syncOn'[s] \/ pc'[s] = "draining"
  PROVE  BufferOnlyInSync'
PROOF
  BY DEF BufferOnlyInSync

LEMMA BufferServerStep ==
  ASSUME TypeInv, BufferOnlyInSync, NEW s \in Server, ServerStep(s)
  PROVE  BufferOnlyInSync'
PROOF
  <1>0. /\ queue \in [Server -> Seq(Request)]
        /\ syncOn \in [Server -> BOOLEAN]
        /\ pc \in [Server -> {"idle", "sending", "draining"}]
    BY DEF TypeInv, TypeOK, LoopType, SyncType
  <1>1. queue[s] # <<>> => syncOn[s] \/ pc[s] = "draining"
    BY DEF BufferOnlyInSync
  <1>2. CASE RecvUpdate(s) \/ RecvSyncUpdate(s)
    BY <1>2 DEF RecvUpdate, RecvSyncUpdate, syncVars, loopVars, BufferOnlyInSync
  <1>3. CASE RecvMembership(s)
    <2>1. UNCHANGED <<queue, pc>> /\ syncOn' \in {syncOn, [syncOn EXCEPT ![s] = TRUE]}
      BY <1>3 DEF RecvMembership, loopVars
    <2> QED
      BY <1>0, <2>1 DEF BufferOnlyInSync
  <1>4. CASE RecvVector(s)
    <2>1. UNCHANGED <<queue, syncOn>> /\ pc[s] = "idle"
          /\ pc' \in {pc, [pc EXCEPT ![s] = "sending"]}
      BY <1>4 DEF RecvVector, Receives
    <2> QED
      BY <1>0, <1>1, <2>1, BufferOfOne
  <1>5. CASE RecvSyncEnd(s)
    <2>1. /\ UNCHANGED queue
          /\ \/ UNCHANGED <<syncOn, pc>>
             \/ /\ syncOn' = [syncOn EXCEPT ![s] = FALSE]
                /\ pc' = [pc EXCEPT ![s] = IF queue[s] = <<>> THEN "idle" ELSE "draining"]
      BY <1>5 DEF RecvSyncEnd, AfterSync
    <2> QED
      BY <1>0, <1>1, <2>1, BufferOfOne
  <1>6. CASE SendUpdate(s)
    BY <1>6 DEF SendUpdate, syncVars, BufferOnlyInSync
  <1>7. CASE SendSyncEnd(s)
    <2>1. UNCHANGED <<queue, syncOn>> /\ pc[s] = "sending" /\ pc' = [pc EXCEPT ![s] = "idle"]
      BY <1>7 DEF SendSyncEnd, syncVars
    <2> QED
      BY <1>0, <1>1, <2>1, BufferOfOne
  <1>8. CASE Drain(s)
    <2>1. /\ UNCHANGED syncOn /\ queue' = [queue EXCEPT ![s] = Tail(queue[s])]
          /\ pc' = [pc EXCEPT ![s] = IF Len(queue[s]) = 1 THEN "idle" ELSE "draining"]
      BY <1>8 DEF Drain, syncVars
    <2>2. queue[s] \in Seq(Request) /\ queue[s] # <<>>
      BY <1>0, <1>8 DEF Drain, TypeInv, LoopOK
    <2>3. Len(queue[s]) = 1 => Tail(queue[s]) = <<>>
      <3> DEFINE rest == Tail(queue[s])
      <3>1. rest \in Seq(Request) /\ Len(rest) = Len(queue[s]) - 1
        BY <2>2, HeadTailProperties
      <3> HIDE DEF rest
      <3>2. rest # <<>> => Len(rest) \in Nat \ {0}
        BY <3>1, EmptySeq
      <3>3. Len(queue[s]) = 1 => rest = <<>>
        BY <3>1, <3>2
      <3> QED
        BY <3>3 DEF rest
    <2> QED
      BY <1>0, <2>1, <2>3, BufferOfOne
  <1> QED
    BY <1>2, <1>3, <1>4, <1>5, <1>6, <1>7, <1>8 DEF ServerStep

LEMMA BufferStep == TypeInv /\ BufferOnlyInSync /\ [Next]_vars => BufferOnlyInSync'
PROOF
  <1> SUFFICES ASSUME TypeInv, BufferOnlyInSync, [Next]_vars PROVE BufferOnlyInSync'
    OBVIOUS
  <1>1. ASSUME NEW s \in Server, ServerStep(s) PROVE BufferOnlyInSync'
    BY <1>1, BufferServerStep
  <1>2. ASSUME NEW s \in Server, NEW r \in ClientRequests, ClientRequest(s, r)
        PROVE  BufferOnlyInSync'
    <2>1. queue \in [Server -> Seq(Request)]
      BY DEF TypeInv, TypeOK, LoopType
    <2>2. /\ UNCHANGED <<syncOn, pc>>
          /\ \/ UNCHANGED queue
             \/ syncOn[s] /\ queue' = [queue EXCEPT ![s] = Append(queue[s], r)]
      BY <1>2 DEF ClientRequest, syncVars
    <2> QED
      BY <2>1, <2>2 DEF BufferOnlyInSync
  <1>3. ASSUME NEW s \in Server,
               \/ JoinExit(s) \/ Disconnect(s)
               \/ \E D \in SUBSET Server : Split(s, D)
               \/ \E r \in Server : Merge(s, r)
        PROVE  BufferOnlyInSync'
    BY <1>3 DEF JoinExit, Disconnect, Split, Merge, NetworkChange, syncVars, loopVars,
                BufferOnlyInSync
  <1>4. CASE UNCHANGED vars
    BY <1>4 DEF vars, syncVars, loopVars, BufferOnlyInSync
  <1> QED
    BY <1>1, <1>2, <1>3, <1>4 DEF Next

\* No buffered request is forgotten: one that is in the buffer finds the
\* synchronisation on, or the replay that follows it.
THEOREM BufferedOnlyInSync == Spec => []BufferOnlyInSync
PROOF
  <1>1. Init => TypeInv /\ BufferOnlyInSync
    BY TypeInit DEF Init, BufferOnlyInSync
  <1>2. TypeInv /\ BufferOnlyInSync /\ [Next]_vars => (TypeInv /\ BufferOnlyInSync)'
    BY TypeStep, BufferStep
  <1> QED
    BY <1>1, <1>2, PTL DEF Spec

--------------------------------------------------------------------------------
(* The keys of the objects in the board files *)

KeyOf(u) == <<u.obj_id, u.server_index>>
KeysOf(file) == {<<file[i].obj_id, file[i].server_index>> : i \in DOMAIN file}
KeysOn(boards, b) == IF b \in DOMAIN boards THEN KeysOf(boards[b]) ELSE {}

\* u makes an object on board b.
Creates(u, b) == u.op = "a" /\ u.entity_type = "OBJ" /\ u.db_name = b

LEMMA ChangedKeys ==
  ASSUME NEW file \in Seq(Object), NEW u \in Update
  PROVE  KeysOf(Changed(file, u)) =
           IF u.op = "a" THEN KeysOf(file) \cup {KeyOf(u)} ELSE KeysOf(file)
PROOF
  <1>1. DOMAIN file = 1 .. Len(file) /\ Len(file) \in Nat
    BY LenProperties
  <1>2. CASE u.op = "a"
    <2> DEFINE o == [obj_id |-> u.obj_id, server_index |-> u.server_index, status |-> TRUE,
                     obj |-> u.obj]
               new == Append(file, o)
    <2>1. o \in Object
      BY DEF Update, Object
    <2>2. o.obj_id = u.obj_id /\ o.server_index = u.server_index
      OBVIOUS
    <2> HIDE DEF o
    <2>3. /\ DOMAIN new = 1 .. Len(file) + 1 /\ new[Len(file) + 1] = o
          /\ \A i \in 1 .. Len(file) : new[i] = file[i]
      BY <2>1, AppendProperties, LenProperties
    <2> HIDE DEF new
    <2>4. KeysOf(new) = KeysOf(file) \cup {KeyOf(u)}
      <3>1. KeysOf(file) \cup {KeyOf(u)} \subseteq KeysOf(new)
        BY <1>1, <2>2, <2>3 DEF KeysOf, KeyOf
      <3>2. KeysOf(new) \subseteq KeysOf(file) \cup {KeyOf(u)}
        BY <1>1, <2>2, <2>3 DEF KeysOf, KeyOf
      <3> QED
        BY <3>1, <3>2
    <2> QED
      BY <1>2, <2>4 DEF Changed, Created, new, o
  <1>3. CASE u.op # "a" /\ Matches(file, u) = {}
    BY <1>3 DEF Changed, Edited, Deleted
  <1>4. CASE u.op # "a" /\ Matches(file, u) # {}
    <2> DEFINE i == Least(Matches(file, u))
    <2>1. Matches(file, u) \subseteq Nat /\ i \in Matches(file, u)
      <3>1. Matches(file, u) \subseteq Nat
        BY <1>1 DEF Matches
      <3> QED
        BY <1>4, <3>1, LeastIn
    <2>2. i \in DOMAIN file
      BY <2>1 DEF Matches
    <2> HIDE DEF i
    <2>3. ASSUME NEW o, o.obj_id = file[i].obj_id, o.server_index = file[i].server_index
          PROVE  KeysOf([file EXCEPT ![i] = o]) = KeysOf(file)
      BY <2>2, <2>3 DEF KeysOf
    <2>4. /\ KeysOf([file EXCEPT ![i] = WithText(file[i], u.obj)]) = KeysOf(file)
          /\ KeysOf([file EXCEPT ![i] = Dead(file[i])]) = KeysOf(file)
      BY <2>3 DEF WithText, Dead
    <2> QED
      BY <1>4, <2>4 DEF Changed, Edited, Deleted, i
  <1> QED
    BY <1>2, <1>3, <1>4

LEMMA WithFileKeys ==
  ASSUME NEW boards, NEW c
  PROVE  \A b : KeysOn(WithFile(boards, c), b) = KeysOn(boards, b)
PROOF
  <1>1. DOMAIN WithFile(boards, c) = DOMAIN boards \cup {c}
    BY DEF WithFile
  <1>2. \A b \in DOMAIN boards : WithFile(boards, c)[b] = boards[b]
    BY DEF WithFile
  <1>3. c \notin DOMAIN boards => KeysOf(WithFile(boards, c)[c]) = {}
    BY DEF WithFile, KeysOf
  <1> QED
    BY <1>1, <1>2, <1>3 DEF KeysOn

LEMMA AppliedKeys ==
  ASSUME NEW boards, IsFiles(boards), NEW u \in Update,
         u.entity_type = "OBJ" => u.db_name \in DOMAIN boards
  PROVE  \A b : KeysOn(Applied(boards, u), b) =
                  IF Creates(u, b) THEN KeysOn(boards, b) \cup {KeyOf(u)} ELSE KeysOn(boards, b)
PROOF
  <1>1. CASE u.entity_type = "DB"
    BY <1>1, WithFileKeys DEF Applied, Creates
  <1>2. CASE u.entity_type # "DB"
    <2>1. u.entity_type = "OBJ" /\ u.db_name \in DOMAIN boards
      BY <1>2 DEF Update
    <2>2. boards[u.db_name] \in Seq(Object)
      BY <2>1 DEF IsFiles
    <2>3. Applied(boards, u) =
            [boards EXCEPT ![u.db_name] = Changed(boards[u.db_name], u)]
      BY <1>2 DEF Applied
    <2>4. /\ DOMAIN Applied(boards, u) = DOMAIN boards
          /\ Applied(boards, u)[u.db_name] = Changed(boards[u.db_name], u)
          /\ \A b \in DOMAIN boards : b # u.db_name => Applied(boards, u)[b] = boards[b]
      BY <2>1, <2>3 DEF IsFiles
    <2>5. KeysOf(Changed(boards[u.db_name], u)) =
            IF u.op = "a" THEN KeysOf(boards[u.db_name]) \cup {KeyOf(u)}
            ELSE KeysOf(boards[u.db_name])
      BY <2>2, ChangedKeys
    <2> QED
      BY <2>1, <2>4, <2>5 DEF KeysOn, Creates
  <1> QED
    BY <1>1, <1>2
================================================================================
