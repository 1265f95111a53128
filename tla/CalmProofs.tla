------------------------------ MODULE CalmProofs ------------------------------
(***************************************************************************)
(* The calm replication agrees, for every instance.                        *)
(*                                                                         *)
(* The first half is about the phases of a synchronisation: where the      *)
(* servers of a component are, what waits in their inboxes, and that the   *)
(* vectors and the SyncEnds they count are those of their component; it    *)
(* ends with the matrix of vectors when nothing is calm.  The second is    *)
(* what logs, vectors and inboxes have to do with each other, what the     *)
(* vectors exchanged promise, and from these the safety properties of      *)
(* CalmReplication, which implements OriginOrder.                          *)
(***************************************************************************)
EXTENDS CalmInvariant, ReplicationProofs

--------------------------------------------------------------------------------
(* Positions in an inbox *)

LEMMA TailAt ==
  ASSUME NEW q \in Seq(Message), q # <<>>
  PROVE  /\ Tail(q) \in Seq(Message) /\ Head(q) \in Message
         /\ 1 \in DOMAIN q /\ q[1] = Head(q)
         /\ \A i \in DOMAIN Tail(q) : i \in Nat /\ i >= 1 /\ i + 1 \in DOMAIN q /\ Tail(q)[i] = q[i + 1]
         /\ \A i \in DOMAIN q : /\ i \in Nat /\ i >= 1
                                /\ i # 1 => i - 1 \in DOMAIN Tail(q) /\ Tail(q)[i - 1] = q[i]
PROOF
  <1>1. DOMAIN q = 1 .. Len(q) /\ Len(q) \in Nat /\ Len(q) # 0
    BY LenProperties, EmptySeq
  <1>2. /\ Tail(q) \in Seq(Message) /\ Head(q) \in Message /\ Head(q) = q[1]
        /\ Len(Tail(q)) = Len(q) - 1
        /\ \A i \in 1 .. Len(Tail(q)) : Tail(q)[i] = q[i + 1]
    BY HeadTailProperties
  <1>3. DOMAIN Tail(q) = 1 .. Len(q) - 1
    BY <1>2, LenProperties
  <1> QED
    BY <1>1, <1>2, <1>3

LEMMA AppendAt ==
  ASSUME NEW q \in Seq(Message), NEW m \in Message
  PROVE  /\ Append(q, m) \in Seq(Message)
         /\ \A i \in DOMAIN q : /\ i \in Nat /\ i < Len(q) + 1 /\ i \in DOMAIN Append(q, m)
                                /\ Append(q, m)[i] = q[i]
         /\ Len(q) + 1 \in DOMAIN Append(q, m) /\ Append(q, m)[Len(q) + 1] = m
         /\ Len(q) + 1 \notin DOMAIN q
         /\ \A i \in DOMAIN Append(q, m) : i \in DOMAIN q \/ i = Len(q) + 1
PROOF
  <1>1. DOMAIN q = 1 .. Len(q) /\ Len(q) \in Nat
    BY LenProperties
  <1>2. /\ Append(q, m) \in Seq(Message) /\ Len(Append(q, m)) = Len(q) + 1
        /\ \A i \in 1 .. Len(q) : Append(q, m)[i] = q[i]
        /\ Append(q, m)[Len(q) + 1] = m
    BY AppendProperties
  <1>3. DOMAIN Append(q, m) = 1 .. Len(q) + 1
    BY <1>2, LenProperties
  <1> QED
    BY <1>1, <1>2, <1>3

LEMMA PositionsFinite ==
  ASSUME NEW q \in Seq(Message), NEW type
  PROVE  IsFiniteSet(Positions(q, type)) /\ Cardinality(Positions(q, type)) \in Nat
PROOF
  <1>1. DOMAIN q = 1 .. Len(q) /\ Len(q) \in Nat
    BY LenProperties
  <1>2. IsFiniteSet(1 .. Len(q))
    BY <1>1, FS_Interval
  <1>3. Positions(q, type) \in SUBSET (1 .. Len(q))
    BY <1>1 DEF Positions
  <1>4. IsFiniteSet(Positions(q, type))
    BY <1>2, <1>3, FS_Subset
  <1> QED
    BY <1>4, FS_CardinalityType

\* The messages of a type are one fewer when one of them is received ...
LEMMA TailCount ==
  ASSUME NEW q \in Seq(Message), q # <<>>, NEW type
  PROVE  Cardinality(Positions(Tail(q), type)) =
           IF Head(q).type = type THEN Cardinality(Positions(q, type)) - 1
                                  ELSE Cardinality(Positions(q, type))
PROOF
  <1> DEFINE P == Positions(q, type)
             R == Positions(Tail(q), type)
             f == [i \in R |-> i + 1]
  <1>1. IsFiniteSet(P) /\ IsFiniteSet(R)
    BY TailAt, PositionsFinite
  <1>2. \A i \in R : i \in Nat /\ i >= 1 /\ i + 1 \in P \ {1}
    BY TailAt DEF Positions
  <1>3. \A i \in P \ {1} : i \in Nat /\ i - 1 \in R /\ (i - 1) + 1 = i
    BY TailAt DEF Positions
  <1>4. 1 \in P <=> Head(q).type = type
    BY TailAt DEF Positions
  <1> HIDE DEF P, R
  <1>5. f \in [R -> P \ {1}]
    BY <1>2
  <1>6. f \in Injection(R, P \ {1})
    <2>1. \A i, j \in R : f[i] = f[j] => i = j
      BY <1>2
    <2> QED
      BY <1>5, <2>1 DEF Injection, IsInjective
  <1>7. f \in Surjection(R, P \ {1})
    <2>1. \A i \in P \ {1} : \E j \in R : f[j] = i
      BY <1>3
    <2> QED
      BY <1>5, <2>1 DEF Surjection
  <1>8. ExistsBijection(R, P \ {1})
    BY <1>6, <1>7 DEF ExistsBijection, Bijection
  <1>9. Cardinality(P \ {1}) = Cardinality(R)
    BY <1>1, <1>8, FS_Bijection
  <1>10. Cardinality(P \ {1}) = IF 1 \in P THEN Cardinality(P) - 1 ELSE Cardinality(P)
    BY <1>1, FS_RemoveElement
  <1> QED
    BY <1>4, <1>9, <1>10 DEF P, R

\* ... and one more when one is delivered.
LEMMA AppendCount ==
  ASSUME NEW q \in Seq(Message), NEW m \in Message, NEW type
  PROVE  Cardinality(Positions(Append(q, m), type)) =
           IF m.type = type THEN Cardinality(Positions(q, type)) + 1
                            ELSE Cardinality(Positions(q, type))
PROOF
  <1>1. IsFiniteSet(Positions(q, type))
    BY PositionsFinite
  <1>3. Len(q) + 1 \notin Positions(q, type)
    BY AppendAt DEF Positions
  <1>2. Positions(Append(q, m), type) =
          IF m.type = type THEN Positions(q, type) \cup {Len(q) + 1} ELSE Positions(q, type)
    BY AppendAt DEF Positions
  <1> QED
    BY <1>1, <1>2, <1>3, FS_AddElement

--------------------------------------------------------------------------------
(* What receiving and delivering a message keeps of an inbox *)

LEMMA TailKeeps ==
  ASSUME NEW q \in Seq(Message), q # <<>>
  PROVE  /\ \A C : AroundMemb(q, C) => AroundMemb(Tail(q), C)
         /\ OneVectorEach(q) => OneVectorEach(Tail(q))
         /\ UpdatesLast(q) => UpdatesLast(Tail(q))
         /\ EndFollows(q) => EndFollows(Tail(q))
         /\ OnlyUpdates(q) => OnlyUpdates(Tail(q))
         /\ Ascends(q) => Ascends(Tail(q))
PROOF
  <1> DEFINE r == Tail(q)
  <1>1. /\ \A i \in DOMAIN r : i \in Nat /\ i >= 1 /\ i + 1 \in DOMAIN q /\ r[i] = q[i + 1]
        /\ \A i \in DOMAIN q : /\ i \in Nat /\ i >= 1
                               /\ i # 1 => i - 1 \in DOMAIN r /\ r[i - 1] = q[i]
    BY TailAt
  <1> HIDE DEF r
  <1>2. \A i, j \in DOMAIN r : /\ i < j <=> i + 1 < j + 1
                               /\ i # j <=> i + 1 # j + 1
    BY <1>1
  <1>3. ASSUME NEW C, AroundMemb(q, C) PROVE AroundMemb(r, C)
    BY <1>1, <1>2, <1>3 DEF AroundMemb, Positions
  <1>4. OneVectorEach(q) => OneVectorEach(r)
    BY <1>1, <1>2 DEF OneVectorEach, Positions
  <1>5. UpdatesLast(q) => UpdatesLast(r)
    BY <1>1, <1>2 DEF UpdatesLast, Positions
  <1>6. ASSUME EndFollows(q) PROVE EndFollows(r)
    <2> SUFFICES ASSUME NEW i \in Positions(r, "SyncUpdate")
                 PROVE  \E j \in Positions(r, "SyncEnd") : i < j
      BY DEF EndFollows
    <2>1. i \in Nat /\ i >= 1 /\ i + 1 \in Positions(q, "SyncUpdate")
      BY <1>1 DEF Positions
    <2>2. PICK j \in Positions(q, "SyncEnd") : i + 1 < j
      BY <1>6, <2>1 DEF EndFollows
    <2>3. j \in Nat /\ j # 1 /\ i < j - 1
      BY <1>1, <2>1, <2>2 DEF Positions
    <2>4. j - 1 \in Positions(r, "SyncEnd")
      BY <1>1, <2>3 DEF Positions
    <2> QED
      BY <2>3, <2>4
  <1>7. OnlyUpdates(q) => OnlyUpdates(r)
    BY <1>1 DEF OnlyUpdates
  <1>8. ASSUME Ascends(q) PROVE Ascends(r)
    <2> SUFFICES ASSUME NEW i \in Positions(r, "Update"), NEW j \in DOMAIN r,
                        j < i, Carries(r[j]), r[j].update.server_id = r[i].update.server_id
                 PROVE  r[j].update.lts < r[i].update.lts
      BY DEF Ascends
    <2>1. /\ i \in Nat /\ j \in Nat /\ j + 1 < i + 1
          /\ i + 1 \in Positions(q, "Update") /\ j + 1 \in DOMAIN q
          /\ r[i] = q[i + 1] /\ r[j] = q[j + 1]
      BY <1>1, <1>2 DEF Positions
    <2> QED
      BY <1>8, <2>1 DEF Ascends
  <1> QED
    BY <1>3, <1>4, <1>5, <1>6, <1>7, <1>8 DEF r

LEMMA AppendKeeps ==
  ASSUME NEW q \in Seq(Message), NEW m \in Message
  PROVE  /\ \A C : Positions(q, "Memb") = {} /\ m.type # "Memb" => AroundMemb(Append(q, m), C)
         /\ \A C : AroundMemb(q, C) /\ m.type = "Vector" => AroundMemb(Append(q, m), C)
         /\ \A C : OnlyUpdates(q) /\ m.type = "Memb" /\ m.members = C => AroundMemb(Append(q, m), C)
         /\ OneVectorEach(q) /\ m.type # "Vector" => OneVectorEach(Append(q, m))
         /\ OneVectorEach(q) /\ (\A i \in Positions(q, "Vector") : q[i].server_index # m.server_index)
              => OneVectorEach(Append(q, m))
         /\ UpdatesLast(q) /\ m.type = "Update" => UpdatesLast(Append(q, m))
         /\ Positions(q, "Update") = {} => UpdatesLast(Append(q, m))
         /\ EndFollows(q) /\ m.type # "SyncUpdate" => EndFollows(Append(q, m))
         /\ m.type = "SyncEnd" => EndFollows(Append(q, m))
         /\ OnlyUpdates(q) /\ m.type = "Update" => OnlyUpdates(Append(q, m))
PROOF
  <1> DEFINE r == Append(q, m)
             n == Len(q) + 1
  <1>1. /\ \A i \in DOMAIN q : i \in Nat /\ i < n /\ i \in DOMAIN r /\ r[i] = q[i]
        /\ n \in DOMAIN r /\ r[n] = m /\ n \notin DOMAIN q
        /\ \A i \in DOMAIN r : i \in DOMAIN q \/ i = n
    BY AppendAt
  <1>0. n \in Nat
    BY LenProperties
  <1>2. \A type : /\ m.type # type => Positions(r, type) = Positions(q, type)
                  /\ m.type = type => Positions(r, type) = Positions(q, type) \cup {n}
                  /\ \A i \in Positions(q, type) : i \in DOMAIN q
    BY <1>1 DEF Positions
  <1> HIDE DEF r, n
  <1>3. \A C : Positions(q, "Memb") = {} /\ m.type # "Memb" => AroundMemb(r, C)
    BY <1>2 DEF AroundMemb
  <1>4. ASSUME NEW C, AroundMemb(q, C), m.type = "Vector"
        PROVE  AroundMemb(r, C)
    <2> SUFFICES ASSUME NEW i \in Positions(r, "Memb")
                 PROVE  /\ r[i].members = C
                        /\ \A j \in DOMAIN r : (j < i => r[j].type = "Update") /\ (j > i => r[j].type = "Vector")
      BY DEF AroundMemb
    <2>1. i \in Positions(q, "Memb") /\ i \in DOMAIN q
      BY <1>2, <1>4
    <2>2. ~ (n < i)
      BY <1>0, <1>1, <2>1
    <2> QED
      BY <1>1, <1>4, <2>1, <2>2 DEF AroundMemb
  <1>5. ASSUME NEW C, OnlyUpdates(q), m.type = "Memb", m.members = C
        PROVE  AroundMemb(r, C)
    <2> SUFFICES ASSUME NEW i \in Positions(r, "Memb")
                 PROVE  /\ r[i].members = C
                        /\ \A j \in DOMAIN r : (j < i => r[j].type = "Update") /\ (j > i => r[j].type = "Vector")
      BY DEF AroundMemb
    <2>1. i = n
      BY <1>2, <1>5 DEF OnlyUpdates, Positions
    <2>2. \A j \in DOMAIN r : ~ (j > i) /\ (j < i => j \in DOMAIN q)
      BY <1>0, <1>1, <2>1
    <2> QED
      BY <1>1, <1>5, <2>1, <2>2 DEF OnlyUpdates
  <1>6. OneVectorEach(q) /\ m.type # "Vector" => OneVectorEach(r)
    BY <1>1, <1>2 DEF OneVectorEach
  <1>7. OneVectorEach(q) /\ (\A i \in Positions(q, "Vector") : q[i].server_index # m.server_index)
          => OneVectorEach(r)
    BY <1>1, <1>2 DEF OneVectorEach
  <1>8. UpdatesLast(q) /\ m.type = "Update" => UpdatesLast(r)
    BY <1>0, <1>1, <1>2 DEF UpdatesLast
  <1>9. Positions(q, "Update") = {} => UpdatesLast(r)
    <2> SUFFICES ASSUME Positions(q, "Update") = {},
                        NEW i \in Positions(r, "Update"), NEW j \in DOMAIN r, i < j
                 PROVE  r[j].type = "Update"
      BY DEF UpdatesLast
    <2>1. i = n
      BY <1>2
    <2> QED
      BY <1>0, <1>1, <2>1
  <1>10. EndFollows(q) /\ m.type # "SyncUpdate" => EndFollows(r)
    BY <1>2 DEF EndFollows
  <1>11. m.type = "SyncEnd" => EndFollows(r)
    BY <1>1, <1>2 DEF EndFollows
  <1>12. OnlyUpdates(q) /\ m.type = "Update" => OnlyUpdates(r)
    BY <1>1 DEF OnlyUpdates
  <1> QED
    BY <1>3, <1>4, <1>5, <1>6, <1>7, <1>8, <1>9, <1>10, <1>11, <1>12 DEF r
--------------------------------------------------------------------------------
(* What the control invariant says of a component *)

LEMMA CompTypes ==
  ASSUME TypeOK, Components, NEW s \in Server
  PROVE  /\ comp[s] \in SUBSET Server /\ s \in comp[s] /\ IsFiniteSet(comp[s])
         /\ Cardinality(comp[s]) \in Nat
         /\ \A t \in comp[s] : t \in Server /\ comp[t] = comp[s] /\ s \in comp[t]
         /\ inbox[s] \in Seq(Message) /\ num_memb[s] \in Nat /\ vector_rcvd[s] \in Nat
         /\ syncEnd_rcvd[s] \in Nat /\ syncOn[s] \in BOOLEAN
         /\ \A i \in DOMAIN inbox[s] : inbox[s][i] \in Message
PROOF
  <1>1. comp[s] \in SUBSET Server /\ inbox[s] \in Seq(Message)
    BY DEF TypeOK, NetType
  <1>2. IsFiniteSet(Server)
    BY FS_Interval, NAssumption DEF Server
  <1>3. IsFiniteSet(comp[s])
    BY <1>1, <1>2, FS_Subset
  <1>4. Cardinality(comp[s]) \in Nat
    BY <1>1, ServersFinite
  <1>5. s \in comp[s] /\ \A t \in comp[s] : t \in Server /\ comp[t] = comp[s]
    BY <1>1 DEF Components
  <1>6. \A i \in DOMAIN inbox[s] : inbox[s][i] \in Message
    BY <1>1
  <1> QED
    BY <1>1, <1>3, <1>4, <1>5, <1>6 DEF TypeOK, SyncType

\* The members of a component that act in it agree on the number of members.
LEMMA MembersCount ==
  ASSUME TypeOK, ControlInv, NEW s \in Server, Fresh(s), NEW t \in comp[s], Fresh(t)
  PROVE  num_memb[t] = num_memb[s] /\ (Joined(s) <=> Joined(t))
PROOF
  BY CompTypes DEF ControlInv, CountOK, Joined

\* A server that has all vectors has one of each member, and all have read the
\* membership.
LEMMA StartedAll ==
  ASSUME TypeOK, ControlInv, NEW s \in Server, Started(s)
  PROVE  DOMAIN summary[s] = comp[s] /\ \A t \in comp[s] : Joined(t)
PROOF
  <1>1. /\ Cardinality(DOMAIN summary[s]) = Cardinality(comp[s])
        /\ DOMAIN summary[s] \in SUBSET comp[s]
        /\ \A r \in DOMAIN summary[s] : Joined(r)
    BY DEF ControlInv, CountOK, RowsOK, Started, Joined
  <1>2. IsFiniteSet(comp[s])
    BY CompTypes DEF ControlInv
  <1>3. DOMAIN summary[s] = comp[s]
    BY <1>1, <1>2, FS_Subset
  <1> QED
    BY <1>1, <1>3

\* A server without synchronisation is alone, or all members have finished theirs.
LEMMA LiveAll ==
  ASSUME TypeOK, ControlInv, NEW s \in Server, Live(s)
  PROVE  comp[s] = {s} \/ AllFinished(s)
PROOF
  <1>1. /\ num_memb[s] = Cardinality(comp[s]) /\ (num_memb[s] > 1 => AllFinished(s))
        /\ num_memb[s] \in Nat /\ s \in comp[s] /\ IsFiniteSet(comp[s])
    BY CompTypes DEF ControlInv, CountOK, LiveOK, Live
  <1>2. CASE num_memb[s] > 1
    BY <1>1, <1>2
  <1>3. CASE num_memb[s] = 0
    <2>1. comp[s] = {}
      BY <1>1, <1>3, FS_EmptySet
    <2> QED
      BY <1>1, <2>1
  <1>4. CASE num_memb[s] = 1
    <2>1. PICK x : comp[s] = {x}
      BY <1>1, <1>4, FS_Singleton
    <2> QED
      BY <1>1, <2>1
  <1> QED
    BY <1>1, <1>2, <1>3, <1>4

\* Until a member of a component of several has finished, none is without
\* synchronisation.
LEMMA NoneLive ==
  ASSUME TypeOK, ControlInv, NEW s \in Server, ~ Finished(s), NEW t \in comp[s], Live(t)
  PROVE  comp[s] = {s}
PROOF
  <1>1. t \in Server /\ comp[t] = comp[s] /\ s \in comp[t]
    BY CompTypes DEF ControlInv
  <1>2. comp[t] = {t} \/ AllFinished(t)
    BY <1>1, LiveAll
  <1> QED
    BY <1>1, <1>2 DEF AllFinished

\* A server that reads a vector or a SyncEnd is in a synchronisation.
LEMMA HeadFresh ==
  ASSUME TypeOK, ControlInv, NEW s \in Server, NEW type, Receives(s, type),
         type # "Memb", type # "Update"
  PROVE  Fresh(s) /\ syncOn[s] /\ Joined(s)
PROOF
  <1>1. /\ inbox[s] \in Seq(Message) /\ inbox[s] # <<>> /\ Head(inbox[s]).type = type
        /\ AroundMemb(inbox[s], comp[s])
    BY CompTypes DEF Receives, ControlInv, MembOK
  <1>2. 1 \in DOMAIN inbox[s] /\ inbox[s][1].type = type /\ \A i \in DOMAIN inbox[s] : i \in Nat /\ i >= 1
    BY <1>1, TailAt
  <1>3. \A i \in Positions(inbox[s], "Memb") : 1 < i /\ i \in DOMAIN inbox[s]
    BY <1>2 DEF Positions
  <1>4. Fresh(s)
    <2> SUFFICES ASSUME NEW i \in Positions(inbox[s], "Memb") PROVE FALSE
      BY DEF Fresh, Gone, Receives, Waiting, Positions
    <2> QED
      BY <1>1, <1>2, <1>3 DEF AroundMemb
  <1>5. ~ Live(s)
    BY <1>2 DEF ControlInv, LiveOK, OnlyUpdates
  <1> QED
    BY <1>4, <1>5 DEF Live, Joined, ControlInv, CountOK

\* The vector read is of a member that read the membership too, and is a new row.
LEMMA VectorHead ==
  ASSUME TypeOK, ControlInv, NEW s \in Server, Receives(s, "Vector")
  PROVE  /\ Head(inbox[s]).server_index \in comp[s] /\ Joined(Head(inbox[s]).server_index)
         /\ Head(inbox[s]).server_index \notin DOMAIN summary[s] /\ ~ Started(s)
         /\ \A i \in Positions(Tail(inbox[s]), "Vector") :
              Tail(inbox[s])[i].server_index # Head(inbox[s]).server_index
PROOF
  <1> DEFINE r == Head(inbox[s]).server_index
  <1>1. inbox[s] \in Seq(Message) /\ inbox[s] # <<>> /\ Head(inbox[s]).type = "Vector"
    BY CompTypes DEF Receives, ControlInv
  <1>2. 1 \in Positions(inbox[s], "Vector") /\ inbox[s][1] = Head(inbox[s])
    BY <1>1, TailAt DEF Positions
  <1>3. r \in comp[s] /\ Joined(r) /\ r \notin DOMAIN summary[s]
    BY <1>2, HeadFresh DEF ControlInv, VectorsOK
  <1>4. ~ Started(s)
    BY <1>3, StartedAll
  <1>5. ASSUME NEW i \in Positions(Tail(inbox[s]), "Vector")
        PROVE  Tail(inbox[s])[i].server_index # r
    <2>1. /\ i \in Nat /\ i >= 1 /\ i + 1 \in Positions(inbox[s], "Vector")
          /\ Tail(inbox[s])[i] = inbox[s][i + 1] /\ i + 1 # 1
      BY <1>1, TailAt DEF Positions
    <2>2. OneVectorEach(inbox[s])
      BY DEF ControlInv, VectorsOK
    <2>3. inbox[s][1].server_index # inbox[s][i + 1].server_index
      BY <1>2, <2>1, <2>2 DEF OneVectorEach
    <2> QED
      BY <1>2, <2>1, <2>3
  <1> QED
    BY <1>3, <1>4, <1>5

\* The membership read names the component, and only vectors are behind it.
LEMMA MembHead ==
  ASSUME TypeOK, ControlInv, NEW s \in Server, Receives(s, "Memb")
  PROVE  /\ Head(inbox[s]).members = comp[s] /\ ~ Fresh(s) /\ ~ syncOn[s]
         /\ \A i \in DOMAIN Tail(inbox[s]) : Tail(inbox[s])[i].type = "Vector"
PROOF
  <1>1. inbox[s] \in Seq(Message) /\ inbox[s] # <<>> /\ Head(inbox[s]).type = "Memb"
    BY CompTypes DEF Receives, ControlInv
  <1>2. 1 \in Positions(inbox[s], "Memb") /\ inbox[s][1] = Head(inbox[s])
    BY <1>1, TailAt DEF Positions
  <1>3. Head(inbox[s]).members = comp[s] /\ \A j \in DOMAIN inbox[s] : j > 1 => inbox[s][j].type = "Vector"
    BY <1>2 DEF ControlInv, MembOK, AroundMemb
  <1>4. ~ Fresh(s) /\ ~ syncOn[s]
    BY <1>2 DEF Fresh, Waiting, Positions, ControlInv, MembOK
  <1>5. \A i \in DOMAIN Tail(inbox[s]) : i + 1 > 1 /\ i + 1 \in DOMAIN inbox[s] /\ Tail(inbox[s])[i] = inbox[s][i + 1]
    BY <1>1, TailAt
  <1> QED
    BY <1>3, <1>4, <1>5

--------------------------------------------------------------------------------
(* How the inboxes change *)

LEMMA ReadInbox ==
  ASSUME TypeOK, NEW s \in Server, inbox[s] # <<>>, inbox' = Received[s]
  PROVE  /\ inbox[s] \in Seq(Message) /\ Head(inbox[s]) \in Message
         /\ inbox'[s] = Tail(inbox[s])
         /\ \A t \in Server : t # s => inbox'[t] = inbox[t]
         /\ \A t \in Server : \A i \in DOMAIN inbox'[t] :
              \E j \in DOMAIN inbox[t] : inbox'[t][i] = inbox[t][j]
         /\ Head(inbox[s]).type # "Memb" /\ UNCHANGED <<up, comp>> =>
              \A t \in Server : Fresh(t)' <=> Fresh(t)
PROOF
  <1> DEFINE r == Tail(inbox[s])
  <1>1. inbox \in [Server -> Seq(Message)]
    BY DEF TypeOK, NetType
  <1>2. inbox'[s] = r /\ \A t \in Server : t # s => inbox'[t] = inbox[t]
    BY <1>1 DEF Received
  <1>3. /\ Head(inbox[s]) \in Message /\ 1 \in DOMAIN inbox[s] /\ inbox[s][1] = Head(inbox[s])
        /\ \A i \in DOMAIN r : i + 1 \in DOMAIN inbox[s] /\ r[i] = inbox[s][i + 1]
        /\ \A i \in DOMAIN inbox[s] : i # 1 => /\ i - 1 \in DOMAIN r
                                               /\ r[i - 1] = inbox[s][i]
    BY <1>1, TailAt
  <1> HIDE DEF r
  <1>4. \A t \in Server : \A i \in DOMAIN inbox'[t] :
          \E j \in DOMAIN inbox[t] : inbox'[t][i] = inbox[t][j]
    <2> SUFFICES ASSUME NEW t \in Server, NEW i \in DOMAIN inbox'[t]
                 PROVE  \E j \in DOMAIN inbox[t] : inbox'[t][i] = inbox[t][j]
      OBVIOUS
    <2>1. CASE t = s
      BY <1>2, <1>3, <2>1
    <2>2. CASE t # s
      BY <1>2, <2>2
    <2> QED
      BY <2>1, <2>2
  <1>5. ASSUME Head(inbox[s]).type # "Memb", UNCHANGED <<up, comp>>, NEW t \in Server
        PROVE  Fresh(t)' <=> Fresh(t)
    <2>0. Gone(t)' <=> Gone(t)
      BY <1>5 DEF Gone
    <2>1. Fresh(t) => Fresh(t)'
      BY <1>4, <2>0 DEF Fresh, Waiting
    <2>2. CASE t = s
      <3>1. ASSUME NEW i \in DOMAIN inbox[s], inbox[s][i].type = "Memb"
            PROVE  \E j \in DOMAIN inbox'[s] : inbox'[s][j].type = "Memb"
        <4>1. i # 1
          BY <1>3, <1>5, <3>1
        <4> QED
          BY <1>2, <1>3, <3>1, <4>1
      <3> QED
        BY <2>0, <2>1, <2>2, <3>1 DEF Fresh, Waiting
    <2>3. CASE t # s
      BY <1>2, <2>0, <2>3 DEF Fresh, Waiting
    <2> QED
      BY <2>2, <2>3
  <1> QED
    BY <1>1, <1>2, <1>3, <1>4, <1>5 DEF r

LEMMA DeliverInbox ==
  ASSUME TypeOK, Components, NEW s \in Server, NEW m \in Message, inbox' = Multicast(inbox, s, m)
  PROVE  /\ inbox \in [Server -> Seq(Message)]
         /\ \A t \in Server : t \in comp[s] => inbox'[t] = Append(inbox[t], m)
         /\ \A t \in Server : t \notin comp[s] => inbox'[t] = inbox[t]
         /\ \A t \in Server : \A i \in DOMAIN inbox'[t] :
              \/ t \in comp[s] /\ inbox'[t][i] = m
              \/ \E j \in DOMAIN inbox[t] : inbox'[t][i] = inbox[t][j]
         /\ m.type # "Memb" /\ UNCHANGED <<up, comp>> => \A t \in Server : Fresh(t)' <=> Fresh(t)
PROOF
  <1>1. inbox \in [Server -> Seq(Message)]
    BY DEF TypeOK, NetType
  <1>2. /\ \A t \in Server : t \in comp[s] => inbox'[t] = Append(inbox[t], m)
        /\ \A t \in Server : t \notin comp[s] => inbox'[t] = inbox[t]
    BY <1>1 DEF Multicast
  <1>3. \A t \in Server :
          /\ \A i \in DOMAIN inbox[t] : i \in DOMAIN Append(inbox[t], m) /\ Append(inbox[t], m)[i] = inbox[t][i]
          /\ \A i \in DOMAIN Append(inbox[t], m) : \/ Append(inbox[t], m)[i] = m
                                                   \/ i \in DOMAIN inbox[t]
    BY <1>1, AppendAt
  <1>4. ASSUME NEW t \in Server, NEW i \in DOMAIN inbox'[t]
        PROVE  \/ t \in comp[s] /\ inbox'[t][i] = m
               \/ \E j \in DOMAIN inbox[t] : inbox'[t][i] = inbox[t][j]
    <2>1. CASE t \in comp[s]
      BY <1>2, <1>3, <1>4, <2>1
    <2>2. CASE t \notin comp[s]
      BY <1>2, <1>4, <2>2
    <2> QED
      BY <2>1, <2>2
  <1>5. ASSUME m.type # "Memb", UNCHANGED <<up, comp>>, NEW t \in Server
        PROVE  Fresh(t)' <=> Fresh(t)
    <2>0. Gone(t)' <=> Gone(t)
      BY <1>5 DEF Gone
    <2>1. Fresh(t) => Fresh(t)'
      BY <1>4, <1>5, <2>0 DEF Fresh, Waiting
    <2>2. \A i \in DOMAIN inbox[t] : i \in DOMAIN inbox'[t] /\ inbox'[t][i] = inbox[t][i]
      BY <1>2, <1>3
    <2> QED
      BY <2>0, <2>1, <2>2 DEF Fresh, Waiting
  <1> QED
    BY <1>1, <1>2, <1>4, <1>5

--------------------------------------------------------------------------------
(* Steps that leave all servers in their phase *)

LEMMA PhasesKept ==
  ASSUME TypeOK, Components, \A t \in Server : Fresh(t)' <=> Fresh(t),
         UNCHANGED <<syncOn, vector_rcvd, num_memb, pc, comp>>
  PROVE  \A t \in Server :
           /\ Joined(t)' <=> Joined(t)
           /\ Started(t)' <=> Started(t)
           /\ Finished(t)' <=> Finished(t)
           /\ Live(t)' <=> Live(t)
           /\ AllFinished(t)' <=> AllFinished(t)
           /\ FinishedOf(t)' = FinishedOf(t)
PROOF
  <1>1. \A t \in Server : comp[t] \in SUBSET Server
    BY DEF TypeOK, NetType
  <1>2. \A t \in Server : Joined(t)' <=> Joined(t)
    BY DEF Joined
  <1>3. \A t \in Server : Started(t)' <=> Started(t)
    BY <1>2 DEF Started
  <1>4. \A t \in Server : Finished(t)' <=> Finished(t)
    BY <1>3 DEF Finished
  <1>5. \A t \in Server : Live(t)' <=> Live(t)
    BY DEF Live
  <1>6. \A t \in Server : AllFinished(t)' <=> AllFinished(t)
    BY <1>1, <1>4 DEF AllFinished
  <1>7. \A t \in Server : FinishedOf(t)' = FinishedOf(t)
    BY <1>1, <1>4 DEF FinishedOf
  <1> QED
    BY <1>2, <1>3, <1>4, <1>5, <1>6, <1>7

\* Such a step keeps the control invariant if what it does to the inboxes fits.
LEMMA QuietControl ==
  ASSUME TypeOK, ControlInv, UNCHANGED <<syncVars, pc, comp>>, Undisturbed',
         \A t \in Server : Fresh(t)' <=> Fresh(t),
         \A t \in Server : job'[t] \subseteq job[t],
         \A t \in Server : \A i \in DOMAIN inbox'[t] : inbox'[t][i].type = "Vector" =>
           \E j \in DOMAIN inbox[t] : inbox'[t][i] = inbox[t][j],
         \A t \in Server :
           Cardinality(Positions(inbox'[t], "SyncEnd")) = Cardinality(Positions(inbox[t], "SyncEnd")),
         \A t \in Server : AroundMemb(inbox'[t], comp[t]),
         \A t \in Server : OneVectorEach(inbox'[t]),
         \A t \in Server : Live(t) => OnlyUpdates(inbox'[t]),
         AfterEndsOK'
  PROVE  ControlInv'
PROOF
  <1>0. /\ Components /\ Undisturbed /\ MembOK /\ CountOK /\ LiveOK /\ JobOK
        /\ RowsOK /\ VectorsOK /\ EndsOK
        /\ UNCHANGED <<syncOn, vector_rcvd, syncEnd_rcvd, num_memb, summary, server_view, pc, comp>>
    BY DEF ControlInv, syncVars
  <1>1. \A t \in Server :
          /\ Joined(t)' <=> Joined(t)
          /\ Started(t)' <=> Started(t)
          /\ Live(t)' <=> Live(t)
          /\ AllFinished(t)' <=> AllFinished(t)
          /\ FinishedOf(t)' = FinishedOf(t)
    BY <1>0, PhasesKept
  <1>2. Components'
    BY <1>0 DEF Components
  <1>3. MembOK' /\ CountOK'
    BY <1>0 DEF MembOK, CountOK
  <1>4. LiveOK'
    BY <1>0, <1>1 DEF LiveOK
  <1>5. JobOK'
    BY <1>0, <1>1 DEF JobOK
  <1>6. RowsOK'
    <2>1. \A t \in Server : comp[t] \in SUBSET Server
      BY DEF TypeOK, NetType
    <2> QED
      BY <1>0, <1>1, <2>1 DEF RowsOK
  <1>7. VectorsOK'
    <2> SUFFICES ASSUME NEW t \in Server, NEW i \in Positions(inbox'[t], "Vector")
                 PROVE  (/\ inbox[t][i].server_index \in comp[t]
                         /\ Joined(inbox[t][i].server_index)
                         /\ Joined(t) => inbox[t][i].server_index \notin DOMAIN summary[t])'
      BY DEF VectorsOK
    <2>1. PICK j \in Positions(inbox[t], "Vector") : inbox'[t][i] = inbox[t][j]
      BY DEF Positions
    <2>2. inbox[t][j].server_index \in comp[t] /\ inbox[t][j].server_index \in Server
      BY <1>0 DEF VectorsOK, TypeOK, NetType
    <2> QED
      BY <1>0, <1>1, <2>1, <2>2 DEF VectorsOK
  <1>8. EndsOK'
    BY <1>0, <1>1 DEF EndsOK
  <1> QED
    BY <1>2, <1>3, <1>4, <1>5, <1>6, <1>7, <1>8 DEF ControlInv

\* With a file for its board an update does not end the process, and makes no file.
LEMMA NoExit ==
  ASSUME TypeOK, NoBoardCreated, NEW s \in Server, NEW u \in Update, u.db_name \in InitialBoards,
         ApplyUpdate(s, u)
  PROVE  ~ Fatal(s, u) /\ UNCHANGED up /\ NoBoardCreated'
PROOF
  <1>1. DOMAIN db[s] = InitialBoards
    BY DEF NoBoardCreated
  <1>2. ~ Fatal(s, u)
    BY <1>1 DEF Fatal
  <1>3. UNCHANGED up /\ (UNCHANGED db \/ db' = [db EXCEPT ![s] = Applied(db[s], u)])
    BY <1>2 DEF ApplyUpdate
  <1>4. DOMAIN Applied(db[s], u) = InitialBoards
    BY <1>1 DEF Applied, WithFile
  <1>5. NoBoardCreated'
    <2> DEFINE a == Applied(db[s], u)
    <2>1. db = [t \in Server |-> db[t]]
      BY DEF TypeOK, FileType
    <2>2. DOMAIN a = InitialBoards /\ (UNCHANGED db \/ db' = [db EXCEPT ![s] = a])
      BY <1>3, <1>4
    <2> HIDE DEF a
    <2> QED
      BY <2>1, <2>2 DEF NoBoardCreated
  <1> QED
    BY <1>2, <1>3, <1>5

\* A server that reads a message leaves the updates behind the SyncEnds.
LEMMA AfterEndsRead ==
  ASSUME TypeOK, AfterEndsOK, NEW s \in Server, inbox[s] # <<>>, inbox' = Received[s],
         UNCHANGED comp, \A t \in Server : syncOn'[t] => syncOn[t],
         \A t \in Server : (Live(t) => Live(t)') /\ (AllFinished(t)' <=> AllFinished(t))
  PROVE  AfterEndsOK'
PROOF
  <1>1. /\ inbox[s] \in Seq(Message) /\ inbox'[s] = Tail(inbox[s])
        /\ \A t \in Server : t # s => inbox'[t] = inbox[t]
        /\ \A t \in Server : \A i \in DOMAIN inbox'[t] :
             \E j \in DOMAIN inbox[t] : inbox'[t][i] = inbox[t][j]
    BY ReadInbox
  <1> SUFFICES ASSUME NEW t \in Server, syncOn'[t]
               PROVE  (/\ UpdatesLast(inbox[t])
                       /\ \A i \in Positions(inbox[t], "Update") :
                            /\ AllFinished(t)
                            /\ inbox[t][i].update.server_id \in comp[t]
                            /\ Live(inbox[t][i].update.server_id)
                       /\ AllFinished(t) => EndFollows(inbox[t]))'
    BY DEF AfterEndsOK
  <1>2. syncOn[t]
    OBVIOUS
  <1>3. UpdatesLast(inbox'[t]) /\ (AllFinished(t) => EndFollows(inbox'[t]))
    <2>1. CASE t = s
      BY <1>1, <1>2, <2>1, TailKeeps DEF AfterEndsOK
    <2>2. CASE t # s
      BY <1>1, <1>2, <2>2 DEF AfterEndsOK
    <2> QED
      BY <2>1, <2>2
  <1>4. ASSUME NEW i \in Positions(inbox'[t], "Update")
        PROVE  (/\ AllFinished(t)
                /\ inbox[t][i].update.server_id \in comp[t]
                /\ Live(inbox[t][i].update.server_id))'
    <2>1. PICK j \in Positions(inbox[t], "Update") : inbox'[t][i] = inbox[t][j]
      BY <1>1 DEF Positions
    <2>2. PICK o \in Server : /\ o = inbox[t][j].update.server_id
                              /\ AllFinished(t) /\ o \in comp[t] /\ Live(o)
      BY <1>2 DEF AfterEndsOK, TypeOK, NetType
    <2>3. AllFinished(t)' /\ Live(o)' /\ comp' = comp
      BY <2>2
    <2> QED
      BY <2>1, <2>2, <2>3
  <1> QED
    BY <1>3, <1>4

LEMMA ReadControl ==
  ASSUME TypeInv, ControlInv, ObjectsOnly, NEW s \in Server, RecvUpdate(s) \/ RecvSyncUpdate(s)
  PROVE  ControlInv'
PROOF
  <1>1. /\ TypeOK /\ Components /\ Undisturbed /\ MembOK /\ LiveOK /\ VectorsOK /\ AfterEndsOK
    BY DEF TypeInv, ControlInv
  <1>2. /\ inbox[s] # <<>> /\ inbox' = Received[s] /\ Head(inbox[s]).type \in Updating
        /\ UNCHANGED <<syncVars, pc, comp>> /\ UNCHANGED <<queue, job>>
    BY DEF RecvUpdate, RecvSyncUpdate, Receives, Updating, loopVars, netVars
  <1>3. Head(inbox[s]).type \notin {"Memb", "Vector", "SyncEnd"}
    BY <1>2 DEF Updating
  <1> DEFINE u == Head(inbox[s]).update
  <1>4. u \in Update /\ u.db_name \in InitialBoards
    BY <1>1, <1>2, ReceivedUpdates, KnownType DEF ObjectsOnly
  <1>5. UNCHANGED up /\ Undisturbed'
    <2>1. UNCHANGED <<up, db>> \/ ApplyUpdate(s, u)
      BY DEF RecvUpdate, RecvSyncUpdate, fileVars
    <2>2. UNCHANGED up /\ NoBoardCreated'
      BY <1>1, <1>4, <2>1, NoExit DEF Undisturbed, NoBoardCreated
    <2> QED
      BY <1>1, <1>2, <2>2 DEF Undisturbed
  <1> HIDE DEF u
  <1>6. /\ inbox[s] \in Seq(Message) /\ inbox'[s] = Tail(inbox[s])
        /\ \A t \in Server : t # s => inbox'[t] = inbox[t]
        /\ \A t \in Server : \A i \in DOMAIN inbox'[t] :
             \E j \in DOMAIN inbox[t] : inbox'[t][i] = inbox[t][j]
        /\ \A t \in Server : Fresh(t)' <=> Fresh(t)
    BY <1>1, <1>2, <1>3, <1>5, ReadInbox
  <1>7. \A t \in Server :
          /\ Live(t)' <=> Live(t)
          /\ AllFinished(t)' <=> AllFinished(t)
    BY <1>1, <1>2, <1>6, PhasesKept DEF syncVars
  <1>8. \A t \in Server :
          Cardinality(Positions(inbox'[t], "SyncEnd")) = Cardinality(Positions(inbox[t], "SyncEnd"))
    <2>1. Cardinality(Positions(inbox'[s], "SyncEnd")) = Cardinality(Positions(inbox[s], "SyncEnd"))
      BY <1>2, <1>3, <1>6, TailCount
    <2> QED
      BY <1>6, <2>1
  <1>9. \A t \in Server : AroundMemb(inbox'[t], comp[t]) /\ OneVectorEach(inbox'[t])
    <2>1. AroundMemb(inbox'[s], comp[s]) /\ OneVectorEach(inbox'[s])
      BY <1>1, <1>2, <1>6, TailKeeps DEF MembOK, VectorsOK
    <2> QED
      BY <1>1, <1>6, <2>1 DEF MembOK, VectorsOK
  <1>10. \A t \in Server : Live(t) => OnlyUpdates(inbox'[t])
    <2>1. Live(s) => OnlyUpdates(inbox'[s])
      BY <1>1, <1>2, <1>6, TailKeeps DEF LiveOK
    <2> QED
      BY <1>1, <1>6, <2>1 DEF LiveOK
  <1>11. AfterEndsOK'
    BY <1>1, <1>2, <1>7, AfterEndsRead DEF syncVars
  <1> QED
    BY <1>1, <1>2, <1>5, <1>6, <1>8, <1>9, <1>10, <1>11, QuietControl

\* Who knows of several members is not alone, and as long as it has not finished
\* no member is without synchronisation.
LEMMA JoinedNoneLive ==
  ASSUME TypeOK, ControlInv, NEW s \in Server, Joined(s)
  PROVE  /\ comp[s] # {s}
         /\ ~ Finished(s) => \A t \in comp[s] : ~ Live(t)
PROOF
  <1>1. Cardinality(comp[s]) > 1
    BY DEF Joined, ControlInv, CountOK
  <1>2. comp[s] # {s}
    BY <1>1, FS_Singleton
  <1> QED
    BY <1>2, NoneLive

\* Behind an update of a client come ordinary updates, and an update that is
\* resent comes before a SyncEnd.
LEMMA DeliveredUpdates ==
  ASSUME TypeOK, ControlInv, AfterEndsOK, NEW s \in Server, NEW m \in Message,
         m.type \in Updating, inbox' = Multicast(inbox, s, m),
         UNCHANGED <<syncOn, comp>>,
         \A t \in Server : (Live(t)' <=> Live(t)) /\ (AllFinished(t)' <=> AllFinished(t)),
         m.type = "SyncUpdate" => Started(s) /\ ~ Finished(s),
         m.type = "Update" => Live(s) /\ m.update.server_id = s
  PROVE  AfterEndsOK'
PROOF
  <1>1. /\ Components /\ MembOK /\ CountOK
    BY DEF ControlInv
  <1>2. /\ inbox \in [Server -> Seq(Message)]
        /\ \A t \in Server : t \in comp[s] => inbox'[t] = Append(inbox[t], m)
        /\ \A t \in Server : t \notin comp[s] => inbox'[t] = inbox[t]
        /\ \A t \in Server : \A i \in DOMAIN inbox'[t] :
             \/ t \in comp[s] /\ inbox'[t][i] = m
             \/ \E j \in DOMAIN inbox[t] : inbox'[t][i] = inbox[t][j]
    BY <1>1, DeliverInbox
  <1>3. \A t \in comp[s] : t \in Server /\ comp[t] = comp[s] /\ s \in comp[t]
    BY <1>1, CompTypes
  <1> SUFFICES ASSUME NEW t \in Server, syncOn'[t]
               PROVE  (/\ UpdatesLast(inbox[t])
                       /\ \A i \in Positions(inbox[t], "Update") :
                            /\ AllFinished(t)
                            /\ inbox[t][i].update.server_id \in comp[t]
                            /\ Live(inbox[t][i].update.server_id)
                       /\ AllFinished(t) => EndFollows(inbox[t]))'
    BY DEF AfterEndsOK
  <1>4. syncOn[t]
    OBVIOUS
  <1>5. /\ UpdatesLast(inbox[t]) /\ (AllFinished(t) => EndFollows(inbox[t]))
        /\ \A i \in Positions(inbox[t], "Update") :
             /\ AllFinished(t)
             /\ inbox[t][i].update.server_id \in comp[t]
             /\ Live(inbox[t][i].update.server_id)
    BY <1>4 DEF AfterEndsOK
  <1>6. t \in comp[s] /\ m.type = "Update" => AllFinished(t)
    <2> SUFFICES ASSUME t \in comp[s], m.type = "Update" PROVE AllFinished(t)
      OBVIOUS
    <2>1. t # s /\ comp[t] = comp[s] /\ t \in comp[s]
      BY <1>3, <1>4 DEF Live
    <2>2. AllFinished(s)
      BY <2>1, LiveAll
    <2> QED
      BY <2>1, <2>2 DEF AllFinished
  <1>7. t \in comp[s] /\ m.type = "SyncUpdate" => ~ AllFinished(t) /\ Positions(inbox[t], "Update") = {}
    BY <1>3, <1>5 DEF AllFinished
  <1>8. UpdatesLast(inbox'[t]) /\ (AllFinished(t) => EndFollows(inbox'[t]))
    <2>1. CASE t \in comp[s]
      <3>1. inbox[t] \in Seq(Message) /\ inbox'[t] = Append(inbox[t], m)
        BY <1>2, <2>1
      <3>2. CASE m.type = "Update"
        BY <1>5, <2>1, <3>1, <3>2, AppendKeeps
      <3>3. CASE m.type = "SyncUpdate"
        BY <1>7, <2>1, <3>1, <3>3, AppendKeeps
      <3> QED
        BY <3>2, <3>3 DEF Updating
    <2>2. CASE t \notin comp[s]
      BY <1>2, <1>5, <2>2
    <2> QED
      BY <2>1, <2>2
  <1>9. ASSUME NEW i \in Positions(inbox'[t], "Update")
        PROVE  (/\ AllFinished(t)
                /\ inbox[t][i].update.server_id \in comp[t]
                /\ Live(inbox[t][i].update.server_id))'
    <2>1. inbox'[t][i].type = "Update" /\ i \in DOMAIN inbox'[t]
      BY DEF Positions
    <2>2. CASE t \in comp[s] /\ inbox'[t][i] = m
      <3>1. m.type = "Update" /\ m.update.server_id = s /\ Live(s) /\ AllFinished(t) /\ s \in comp[t]
        BY <1>3, <1>6, <2>1, <2>2
      <3>2. Live(s)' /\ AllFinished(t)'
        BY <3>1
      <3> QED
        BY <2>2, <3>1, <3>2
    <2>3. CASE \E j \in DOMAIN inbox[t] : inbox'[t][i] = inbox[t][j]
      <3>1. PICK j \in Positions(inbox[t], "Update") : inbox'[t][i] = inbox[t][j]
        BY <2>1, <2>3 DEF Positions
      <3>2. PICK o \in Server : /\ o = inbox[t][j].update.server_id
                                /\ AllFinished(t) /\ o \in comp[t] /\ Live(o)
        BY <1>5 DEF TypeOK, NetType
      <3>3. AllFinished(t)' /\ Live(o)'
        BY <3>2
      <3> QED
        BY <3>1, <3>2, <3>3
    <2> QED
      BY <1>2, <2>1, <2>2, <2>3
  <1> QED
    BY <1>8, <1>9

\* An update is multicast by a server that has all vectors, or by one without
\* synchronisation for a client.
LEMMA DeliverControl ==
  ASSUME TypeOK, ControlInv, NEW s \in Server, NEW m \in Message,
         m.type \in Updating, inbox' = Multicast(inbox, s, m),
         UNCHANGED <<syncVars, pc, up, comp>>, Undisturbed', \A t \in Server : job'[t] \subseteq job[t],
         m.type = "SyncUpdate" => Started(s) /\ ~ Finished(s),
         m.type = "Update" => Live(s) /\ m.update.server_id = s
  PROVE  ControlInv'
PROOF
  <1>1. /\ Components /\ MembOK /\ LiveOK /\ VectorsOK /\ AfterEndsOK
        /\ UNCHANGED <<syncOn, vector_rcvd, num_memb>>
        /\ m.type # "Memb" /\ m.type # "Vector" /\ m.type # "SyncEnd"
    BY DEF ControlInv, syncVars, Updating
  <1>2. /\ inbox \in [Server -> Seq(Message)]
        /\ \A t \in Server : t \in comp[s] => inbox'[t] = Append(inbox[t], m)
        /\ \A t \in Server : t \notin comp[s] => inbox'[t] = inbox[t]
        /\ \A t \in Server : \A i \in DOMAIN inbox'[t] :
             \/ t \in comp[s] /\ inbox'[t][i] = m
             \/ \E j \in DOMAIN inbox[t] : inbox'[t][i] = inbox[t][j]
        /\ \A t \in Server : Fresh(t)' <=> Fresh(t)
    BY <1>1, DeliverInbox
  <1>3. \A t \in Server : (Live(t)' <=> Live(t)) /\ (AllFinished(t)' <=> AllFinished(t))
    BY <1>1, <1>2, PhasesKept
  <1>4. \A t \in Server : t \in comp[s] => Positions(inbox[t], "Memb") = {}
    <2>1. CASE m.type = "SyncUpdate"
      BY <2>1, StartedAll DEF Joined, Fresh, Waiting, Positions
    <2>2. CASE m.type = "Update"
      BY <2>2, LiveAll DEF AllFinished, Finished, Started, Joined, Live, Fresh, Waiting, Positions
    <2> QED
      BY <2>1, <2>2 DEF Updating
  <1>5. \A t \in Server : AroundMemb(inbox'[t], comp[t]) /\ OneVectorEach(inbox'[t])
    <2> SUFFICES ASSUME NEW t \in Server PROVE AroundMemb(inbox'[t], comp[t]) /\ OneVectorEach(inbox'[t])
      OBVIOUS
    <2>1. AroundMemb(inbox[t], comp[t]) /\ OneVectorEach(inbox[t])
      BY <1>1 DEF MembOK, VectorsOK
    <2>2. CASE t \in comp[s]
      <3>1. inbox[t] \in Seq(Message) /\ inbox'[t] = Append(inbox[t], m) /\ Positions(inbox[t], "Memb") = {}
        BY <1>2, <1>4, <2>2
      <3>2. AroundMemb(Append(inbox[t], m), comp[t])
        BY <1>1, <3>1, AppendKeeps
      <3>3. OneVectorEach(Append(inbox[t], m))
        BY <1>1, <2>1, <3>1, AppendKeeps
      <3> QED
        BY <3>1, <3>2, <3>3
    <2>3. CASE t \notin comp[s]
      BY <1>2, <2>1, <2>3
    <2> QED
      BY <2>2, <2>3
  <1>6. \A t \in Server :
          Cardinality(Positions(inbox'[t], "SyncEnd")) = Cardinality(Positions(inbox[t], "SyncEnd"))
    <2> SUFFICES ASSUME NEW t \in Server
                 PROVE  Cardinality(Positions(inbox'[t], "SyncEnd")) = Cardinality(Positions(inbox[t], "SyncEnd"))
      OBVIOUS
    <2>1. inbox[t] \in Seq(Message) /\ inbox'[t] \in {inbox[t], Append(inbox[t], m)}
      BY <1>2
    <2>2. Cardinality(Positions(Append(inbox[t], m), "SyncEnd")) = Cardinality(Positions(inbox[t], "SyncEnd"))
      BY <1>1, <2>1, AppendCount
    <2> QED
      BY <2>1, <2>2
  <1>7. ASSUME NEW t \in Server, Live(t) PROVE OnlyUpdates(inbox'[t])
    <2>1. OnlyUpdates(inbox[t])
      BY <1>1, <1>7 DEF LiveOK
    <2>2. CASE t \in comp[s]
      <3>1. m.type # "SyncUpdate"
        BY <1>7, <2>2, JoinedNoneLive DEF Started
      <3> QED
        BY <1>2, <2>1, <2>2, <3>1, AppendKeeps DEF Updating
    <2>3. CASE t \notin comp[s]
      BY <1>2, <2>1, <2>3
    <2> QED
      BY <2>2, <2>3
  <1>8. AfterEndsOK'
    BY <1>1, <1>3, DeliveredUpdates
  <1>9. \A t \in Server : \A i \in DOMAIN inbox'[t] : inbox'[t][i].type = "Vector" =>
          \E j \in DOMAIN inbox[t] : inbox'[t][i] = inbox[t][j]
    BY <1>1, <1>2
  <1> QED
    BY <1>2, <1>5, <1>6, <1>7, <1>8, <1>9, QuietControl

LEMMA SendUpdateControl ==
  ASSUME TypeInv, ControlInv, NEW s \in Server, SendUpdate(s)
  PROVE  ControlInv'
PROOF
  <1> DEFINE m == [type |-> "SyncUpdate", update |-> LogRecord(s, First(job[s]))]
  <1>1. m \in Message /\ m.type = "SyncUpdate"
    BY SendUpdateType, NewMessages
  <1>2. inbox' = Multicast(inbox, s, m)
    BY DEF SendUpdate
  <1> HIDE DEF m
  <1>3. /\ UNCHANGED <<syncVars, pc, comp, up, queue, db>> /\ pc[s] = "sending"
        /\ job' = [job EXCEPT ![s] = @ \ {First(@)}]
    BY DEF SendUpdate, netVars, fileVars
  <1>4. Undisturbed'
    BY <1>3 DEF ControlInv, Undisturbed, NoBoardCreated
  <1>5. \A t \in Server : job'[t] \subseteq job[t]
    BY <1>3 DEF TypeInv, TypeOK, LoopType
  <1>6. Started(s) /\ ~ Finished(s)
    BY <1>3 DEF ControlInv, JobOK, Finished
  <1> QED
    BY <1>1, <1>2, <1>3, <1>4, <1>5, <1>6, DeliverControl DEF TypeInv, Updating

\* Who asks for an object names a board there was at the start.
LEMMA RequestBoards ==
  ASSUME NoBoardCreated, NEW r \in ClientRequests, r.op # "j"
  PROVE  r.db_name \in InitialBoards
PROOF
  <1>1. \A t \in Server : DOMAIN db[t] = InitialBoards
    BY DEF NoBoardCreated
  <1>2. Boards \subseteq InitialBoards /\ \A x \in Shown : x[1] \in InitialBoards
    BY <1>1 DEF Boards, Shown, ShownBy
  <1>3. CASE r \in {Asks("j", b, 0, 0) : b \in Board}
    BY <1>3 DEF Asks
  <1>4. CASE r \in {Asks("a", b, 0, 0) : b \in Boards}
    BY <1>2, <1>4 DEF Asks
  <1>5. CASE r \in {Asks(op, x[1], x[2], x[3]) : op \in {"e", "d"}, x \in Shown}
    BY <1>2, <1>5 DEF Asks
  <1> QED
    BY <1>3, <1>4, <1>5 DEF ClientRequests

\* A calm request that makes no board is of a server without synchronisation, and becomes
\* an update.
LEMMA CalmRequest ==
  ASSUME TypeInv, ControlInv, NEW s \in Server, QuietClients(s),
         NEW r \in ClientRequests, ClientRequest(s, r), NoBoardCreated'
  PROVE  /\ Live(s) /\ UNCHANGED <<syncVars, pc, job, served, netVars, queue, up>>
         /\ \/ UNCHANGED <<clockVars, fileVars, inbox>>
            \/ /\ r \in Request /\ r.op # "j" /\ r.db_name \in InitialBoards
               /\ NewUpdate(s, r) \in Update
               /\ UpdateReplicas(s, r) /\ ~ Fatal(s, NewUpdate(s, r))
PROOF
  <1>1. Live(s)
    BY DEF ClientRequest, QuietClients, Live, Fresh, Gone
  <1>2. r \in Request
    BY RequestsType DEF TypeInv
  <1>3. UNCHANGED <<syncVars, pc, job, served, netVars, queue>>
    BY <1>1 DEF ClientRequest, Live
  <1>4. CASE r.op = "j"
    <2>1. CASE r.db_name \in DOMAIN db[s]
      BY <1>1, <1>3, <1>4, <2>1 DEF ClientRequest, HandleClientReq, JoinDb
    <2>2. CASE r.db_name \notin DOMAIN db[s]
      <3>1. db' = [db EXCEPT ![s] = WithFile(@, r.db_name)]
        BY <1>4, <2>2 DEF ClientRequest, HandleClientReq, JoinDb, CreateBoard
      <3>2. db = [t \in Server |-> db[t]]
        BY DEF TypeInv, TypeOK, FileType
      <3>3. db'[s] = WithFile(db[s], r.db_name)
        BY <3>1, <3>2
      <3>4. r.db_name \in DOMAIN db'[s]
        BY <3>3 DEF WithFile
      <3> QED
        BY <2>2, <3>4 DEF ControlInv, Undisturbed, NoBoardCreated
    <2> QED
      BY <2>1, <2>2
  <1>5. CASE r.op # "j"
    <2>1. UpdateReplicas(s, r) /\ NewUpdate(s, r) \in Update
      BY <1>2, <1>5, NewUpdateType DEF ClientRequest, HandleClientReq, TypeInv
    <2>2. ApplyUpdate(s, NewUpdate(s, r))
      BY <2>1 DEF UpdateReplicas
    <2>3. TypeOK /\ NoBoardCreated
      BY DEF TypeInv, ControlInv, Undisturbed
    <2>4. r.db_name \in InitialBoards /\ NewUpdate(s, r).db_name = r.db_name
      BY <1>5, <2>3, RequestBoards DEF NewUpdate
    <2> QED
      BY <1>1, <1>2, <1>3, <1>5, <2>1, <2>2, <2>3, <2>4, NoExit
  <1> QED
    BY <1>4, <1>5

LEMMA ControlStutters ==
  ASSUME ControlInv, UNCHANGED <<syncVars, pc, job, queue, up, db, comp, inbox>>
  PROVE  ControlInv'
PROOF
  <1>0. /\ UNCHANGED <<syncOn, vector_rcvd, syncEnd_rcvd, num_memb, summary, server_view>>
        /\ UNCHANGED <<pc, job, queue, up, db, comp, inbox>>
    BY DEF syncVars
  <1>1. \A t : Fresh(t)' <=> Fresh(t)
    BY <1>0 DEF Fresh, Gone, Waiting
  <1>2. \A t : Joined(t)' <=> Joined(t)
    BY <1>0, <1>1 DEF Joined
  <1>3. \A t : Started(t)' <=> Started(t)
    BY <1>0, <1>2 DEF Started
  <1>4. \A t : Finished(t)' <=> Finished(t)
    BY <1>0, <1>3 DEF Finished
  <1>5. \A t : Live(t)' <=> Live(t)
    BY <1>0, <1>1 DEF Live
  <1>6. \A t : (AllFinished(t)' <=> AllFinished(t)) /\ FinishedOf(t)' = FinishedOf(t)
    BY <1>0, <1>4 DEF AllFinished, FinishedOf
  <1>7. Components' /\ Undisturbed' /\ MembOK' /\ CountOK'
    BY <1>0, <1>1 DEF ControlInv, Components, Undisturbed, NoBoardCreated, MembOK, CountOK
  <1>8. LiveOK' /\ JobOK'
    BY <1>0, <1>3, <1>5, <1>6 DEF ControlInv, LiveOK, JobOK
  <1>9. RowsOK' /\ VectorsOK'
    BY <1>0, <1>2 DEF ControlInv, RowsOK, VectorsOK
  <1>10. EndsOK' /\ AfterEndsOK'
    BY <1>0, <1>5, <1>6 DEF ControlInv, EndsOK, AfterEndsOK
  <1> QED
    BY <1>7, <1>8, <1>9, <1>10 DEF ControlInv

LEMMA RequestControl ==
  ASSUME TypeInv, ControlInv, NEW s \in Server, QuietClients(s),
         NEW r \in ClientRequests, ClientRequest(s, r), NoBoardCreated'
  PROVE  ControlInv'
PROOF
  <1>1. /\ Live(s) /\ UNCHANGED <<syncVars, pc, job, netVars, queue, up>>
        /\ \/ UNCHANGED <<clockVars, fileVars, inbox>>
           \/ /\ NewUpdate(s, r) \in Update
              /\ UpdateReplicas(s, r) /\ ~ Fatal(s, NewUpdate(s, r))
    BY CalmRequest
  <1>2. TypeOK /\ Undisturbed /\ Components /\ UNCHANGED comp
    BY <1>1 DEF TypeInv, ControlInv, netVars
  <1>3. CASE UNCHANGED <<clockVars, fileVars, inbox>>
    BY <1>1, <1>2, <1>3, ControlStutters DEF fileVars
  <1>4. CASE UpdateReplicas(s, r) /\ ~ Fatal(s, NewUpdate(s, r)) /\ NewUpdate(s, r) \in Update
    <2> DEFINE u == NewUpdate(s, r)
               m == [type |-> "Update", update |-> u]
    <2>1. m \in Message /\ m.type = "Update" /\ m.update.server_id = s
      BY <1>4, NewMessages DEF NewUpdate
    <2>2. inbox' = Multicast(inbox, s, m)
      BY <1>4 DEF UpdateReplicas
    <2>3. Undisturbed'
      BY <1>1, <1>2 DEF Undisturbed
    <2> HIDE DEF m
    <2> QED
      BY <1>1, <1>2, <2>1, <2>2, <2>3, DeliverControl DEF Updating
  <1> QED
    BY <1>1, <1>3, <1>4

--------------------------------------------------------------------------------
(* A membership is read *)

VectorOf(s) == [type |-> "Vector", server_index |-> s, server_vector |-> server_lts[s]]

\* What is left in the inboxes, and the vector that a server with others sends.
LEMMA MembInbox ==
  ASSUME TypeOK, ControlInv, NEW s \in Server, RecvMembership(s)
  PROVE  /\ Received[s] \in [Server -> Seq(Message)] 
         /\ VectorOf(s) \in Message /\ VectorOf(s).type = "Vector" /\ VectorOf(s).server_index = s
         /\ \A i \in DOMAIN Received[s][s] : Received[s][s][i].type = "Vector"
         /\ \A t \in Server : t # s => Received[s][t] = inbox[t]
         /\ \A t \in Server : AroundMemb(Received[s][t], comp[t]) /\ OneVectorEach(Received[s][t])
         /\ \A t \in Server : \A i \in DOMAIN Received[s][t] : \E j \in DOMAIN inbox[t] : Received[s][t][i] = inbox[t][j]
         /\ num_memb'[s] = Cardinality(comp[s])
         /\ num_memb'[s] > 1 => \A t \in Server :
              inbox'[t] = IF t \in comp[s] THEN Append(Received[s][t], VectorOf(s)) ELSE Received[s][t]
         /\ ~ num_memb'[s] > 1 => inbox' = Received[s]
PROOF
  <1> DEFINE R == Received[s]
             m == VectorOf(s)
  <1>1. /\ Receives(s, "Memb") /\ inbox[s] # <<>>
        /\ num_memb' = [num_memb EXCEPT ![s] = Cardinality(Head(inbox[s]).members)]
    BY DEF RecvMembership, Receives
  <1>2. inbox \in [Server -> Seq(Message)] /\ Components /\ MembOK /\ VectorsOK
    BY DEF TypeOK, NetType, ControlInv
  <1>3. num_memb'[s] = Cardinality(comp[s])
    BY <1>1, MembHead DEF TypeOK, SyncType
  <1>4. R \in [Server -> Seq(Message)]
    BY <1>1, <1>2, ReceivedType
  <1>5. R[s] = Tail(inbox[s]) /\ \A t \in Server : t # s => R[t] = inbox[t]
    BY <1>2 DEF Received
  <1>6. \A i \in DOMAIN R[s] : R[s][i].type = "Vector"
    BY <1>1, <1>5, MembHead
  <1>7. \A t \in Server : AroundMemb(R[t], comp[t]) /\ OneVectorEach(R[t])
    <2>1. AroundMemb(R[s], comp[s]) /\ OneVectorEach(R[s])
      BY <1>1, <1>2, <1>5, TailKeeps DEF MembOK, VectorsOK
    <2> QED
      BY <1>2, <1>5, <2>1 DEF MembOK, VectorsOK
  <1>8. ASSUME NEW t \in Server, NEW i \in DOMAIN R[t]
        PROVE  \E j \in DOMAIN inbox[t] : R[t][i] = inbox[t][j]
    <2>1. inbox[s] \in Seq(Message)
      BY <1>2
    <2>2. \A k \in DOMAIN R[s] : k + 1 \in DOMAIN inbox[s] /\ R[s][k] = inbox[s][k + 1]
      BY <1>1, <1>5, <2>1, TailAt
    <2>3. CASE t = s
      BY <1>8, <2>2, <2>3
    <2>4. CASE t # s
      BY <1>5, <1>8, <2>4
    <2> QED
      BY <2>3, <2>4
  <1>9. m \in Message /\ m.type = "Vector" /\ m.server_index = s
    <2>1. server_lts[s] \in Vector
      BY DEF TypeOK, ClockType
    <2> QED
      BY <2>1, NewMessages DEF VectorOf
  <1>10. /\ num_memb'[s] > 1 => inbox' = Multicast(R, s, m)
         /\ ~ num_memb'[s] > 1 => inbox' = R
    BY DEF RecvMembership, VectorOf
  <1>11. num_memb'[s] > 1 => \A t \in Server :
           inbox'[t] = IF t \in comp[s] THEN Append(R[t], m) ELSE R[t]
    BY <1>10 DEF Multicast
  <1> QED
    BY <1>3, <1>4, <1>5, <1>6, <1>7, <1>8, <1>9, <1>10, <1>11

LEMMA MembMessages ==
  ASSUME TypeOK, ControlInv, NEW s \in Server, RecvMembership(s)
  PROVE  /\ \A t \in Server : \A i \in DOMAIN inbox'[t] :
              \/ t \in comp[s] /\ num_memb'[s] > 1 /\ inbox'[t][i] = VectorOf(s)
              \/ \E j \in DOMAIN inbox[t] : inbox'[t][i] = inbox[t][j]
         /\ \A i \in DOMAIN inbox'[s] : inbox'[s][i].type = "Vector"
         /\ \A t \in Server : t # s => \A j \in DOMAIN inbox[t] :
              j \in DOMAIN inbox'[t] /\ inbox'[t][j] = inbox[t][j]
PROOF
  <1> DEFINE R == Received[s]
             m == VectorOf(s)
  <1>1. /\ R \in [Server -> Seq(Message)] /\ m \in Message /\ m.type = "Vector"
        /\ \A i \in DOMAIN R[s] : R[s][i].type = "Vector"
        /\ \A t \in Server : t # s => R[t] = inbox[t]
        /\ \A t \in Server : \A i \in DOMAIN R[t] : \E j \in DOMAIN inbox[t] : R[t][i] = inbox[t][j]
        /\ num_memb'[s] > 1 => \A t \in Server :
             inbox'[t] = IF t \in comp[s] THEN Append(R[t], m) ELSE R[t]
        /\ ~ num_memb'[s] > 1 => inbox' = R
    BY MembInbox
  <1> HIDE DEF R, m
  <1>2. ASSUME NEW t \in Server
        PROVE  /\ \A i \in DOMAIN inbox'[t] :
                    \/ t \in comp[s] /\ num_memb'[s] > 1 /\ inbox'[t][i] = m
                    \/ i \in DOMAIN R[t] /\ inbox'[t][i] = R[t][i]
               /\ \A j \in DOMAIN R[t] : j \in DOMAIN inbox'[t] /\ inbox'[t][j] = R[t][j]
    <2>1. CASE num_memb'[s] > 1 /\ t \in comp[s]
      <3>1. inbox'[t] = Append(R[t], m) /\ R[t] \in Seq(Message)
        BY <1>1, <2>1
      <3> QED
        BY <1>1, <2>1, <3>1, AppendAt
    <2>2. CASE ~ (num_memb'[s] > 1 /\ t \in comp[s])
      <3>1. inbox'[t] = R[t]
        BY <1>1, <2>2
      <3> QED
        BY <3>1
    <2> QED
      BY <2>1, <2>2
  <1>3. ASSUME NEW t \in Server, NEW i \in DOMAIN inbox'[t]
        PROVE  \/ t \in comp[s] /\ num_memb'[s] > 1 /\ inbox'[t][i] = m
               \/ \E j \in DOMAIN inbox[t] : inbox'[t][i] = inbox[t][j]
    <2>1. CASE t \in comp[s] /\ num_memb'[s] > 1 /\ inbox'[t][i] = m
      BY <2>1
    <2>2. CASE i \in DOMAIN R[t] /\ inbox'[t][i] = R[t][i]
      BY <1>1, <2>2
    <2> QED
      BY <1>2, <1>3, <2>1, <2>2
  <1>4. \A i \in DOMAIN inbox'[s] : inbox'[s][i].type = "Vector"
    BY <1>1, <1>2
  <1>5. ASSUME NEW t \in Server, t # s, NEW j \in DOMAIN inbox[t]
        PROVE  j \in DOMAIN inbox'[t] /\ inbox'[t][j] = inbox[t][j]
    <2>1. R[t] = inbox[t]
      BY <1>1, <1>5
    <2> QED
      BY <1>2, <1>5, <2>1
  <1> QED
    BY <1>3, <1>4, <1>5 DEF m

LEMMA MembPhases ==
  ASSUME TypeOK, ControlInv, NEW s \in Server, RecvMembership(s)
  PROVE  /\ ~ Fresh(s) /\ Fresh(s)' /\ (Joined(s)' <=> num_memb'[s] > 1)
         /\ Live(s)' <=> ~ num_memb'[s] > 1
         /\ \A t \in Server : t # s => /\ (Fresh(t)' <=> Fresh(t)) /\ (Joined(t)' <=> Joined(t))
                                       /\ (Live(t)' <=> Live(t))
         /\ \A t \in Server : /\ (Started(t)' <=> Started(t)) /\ (Finished(t)' <=> Finished(t))
                              /\ (AllFinished(t)' <=> AllFinished(t)) /\ FinishedOf(t)' = FinishedOf(t)
PROOF
  <1>0. /\ Receives(s, "Memb") /\ UNCHANGED <<pc, comp>>
        /\ num_memb' = [num_memb EXCEPT ![s] = Cardinality(Head(inbox[s]).members)]
        /\ num_memb'[s] > 1 => /\ syncOn' = [syncOn EXCEPT ![s] = TRUE]
                               /\ vector_rcvd' = [vector_rcvd EXCEPT ![s] = 0]
        /\ ~ num_memb'[s] > 1 => UNCHANGED <<syncOn, vector_rcvd>>
    BY DEF RecvMembership, loopVars, netVars, CountAtSync
  <1>10. UNCHANGED up /\ up[s]
    BY DEF RecvMembership, Receives
  <1>1. ~ Fresh(s) /\ ~ syncOn[s]
    BY <1>0, MembHead
  <1>2. /\ num_memb \in [Server -> Nat] /\ vector_rcvd \in [Server -> Nat]
        /\ syncOn \in [Server -> BOOLEAN]
        /\ \A t \in Server : comp[t] \in SUBSET Server
    BY DEF TypeOK, SyncType, NetType
  <1>3. Fresh(s)' /\ \A t \in Server : t # s => (Fresh(t)' <=> Fresh(t))
    <2>1. Fresh(s)'
      BY <1>10, MembMessages DEF Fresh, Gone, Waiting
    <2>2. VectorOf(s).type = "Vector"
      BY DEF VectorOf
    <2>3. ASSUME NEW t \in Server, t # s PROVE Fresh(t)' <=> Fresh(t)
      <3>1. Gone(t)' <=> Gone(t)
        BY <1>0, <1>10 DEF Gone
      <3> QED
        BY <2>2, <2>3, <3>1, MembMessages DEF Fresh, Waiting
    <2> QED
      BY <2>1, <2>3
  <1>4. \A t \in Server : t # s => /\ syncOn'[t] = syncOn[t] /\ num_memb'[t] = num_memb[t]
                                   /\ vector_rcvd'[t] = vector_rcvd[t]
    BY <1>0, <1>2
  <1>5. (Joined(s)' <=> num_memb'[s] > 1) /\ \A t \in Server : t # s => (Joined(t)' <=> Joined(t))
    BY <1>3, <1>4 DEF Joined
  <1>6. (Live(s)' <=> ~ num_memb'[s] > 1) /\ \A t \in Server : t # s => (Live(t)' <=> Live(t))
    BY <1>0, <1>1, <1>2, <1>3, <1>4 DEF Live
  <1>7. ~ Started(s) /\ ~ Started(s)'
    <2>1. num_memb'[s] > 1 => vector_rcvd'[s] # num_memb'[s]
      BY <1>0, <1>2
    <2> QED
      BY <1>1, <1>5, <2>1 DEF Started, Joined
  <1>8. \A t \in Server : (Started(t)' <=> Started(t)) /\ (Finished(t)' <=> Finished(t))
    BY <1>0, <1>4, <1>5, <1>7 DEF Started, Finished
  <1>9. \A t \in Server : (AllFinished(t)' <=> AllFinished(t)) /\ FinishedOf(t)' = FinishedOf(t)
    BY <1>0, <1>2, <1>8 DEF AllFinished, FinishedOf
  <1> QED
    BY <1>1, <1>3, <1>5, <1>6, <1>8, <1>9

LEMMA Alone ==
  ASSUME TypeOK, Components, NEW s \in Server, ~ Cardinality(comp[s]) > 1
  PROVE  comp[s] = {s}
PROOF
  <1>1. s \in comp[s] /\ IsFiniteSet(comp[s]) /\ Cardinality(comp[s]) \in Nat
    BY CompTypes
  <1>2. Cardinality(comp[s]) # 0
    BY <1>1, FS_EmptySet
  <1>3. Cardinality(comp[s]) = 1
    BY <1>1, <1>2
  <1>4. PICK x : comp[s] = {x}
    BY <1>1, <1>3, FS_Singleton
  <1> QED
    BY <1>1, <1>4

\* Before a server has read the membership no vector of its own is on its way.
LEMMA NoVectorYet ==
  ASSUME TypeOK, ControlInv, NEW s \in Server, ~ Joined(s), NEW t \in Server
  PROVE  /\ \A i \in Positions(inbox[t], "Vector") : inbox[t][i].server_index # s
         /\ Joined(t) => s \notin DOMAIN summary[t]
PROOF
  BY DEF ControlInv, VectorsOK, RowsOK

LEMMA MembControlBasic ==
  ASSUME TypeOK, ControlInv, NEW s \in Server, RecvMembership(s)
  PROVE  /\ Components' /\ Undisturbed' /\ MembOK' /\ CountOK' /\ LiveOK' /\ JobOK' /\ RowsOK'
PROOF
  <1>1. /\ Components /\ Undisturbed /\ MembOK /\ CountOK /\ LiveOK /\ JobOK /\ RowsOK
    BY DEF ControlInv
  <1>2. /\ UNCHANGED <<pc, job, queue, up, db, comp>> /\ pc[s] = "idle"
        /\ num_memb' = [num_memb EXCEPT ![s] = Cardinality(Head(inbox[s]).members)]
        /\ num_memb'[s] > 1 =>
             /\ syncOn' = [syncOn EXCEPT ![s] = TRUE]
             /\ vector_rcvd' = [vector_rcvd EXCEPT ![s] = 0]
             /\ summary' = [summary EXCEPT ![s] = NoRows]
             /\ server_view' = [server_view EXCEPT ![s] = {}]
        /\ ~ num_memb'[s] > 1 =>
             /\ UNCHANGED <<syncOn, vector_rcvd, summary>>
             /\ server_view' = [server_view EXCEPT ![s] = {s}]
    BY DEF RecvMembership, Receives, loopVars, netVars, fileVars, CountAtSync, ViewAtSync
  <1>3. /\ ~ Fresh(s) /\ Fresh(s)' /\ (Joined(s)' <=> num_memb'[s] > 1)
        /\ Live(s)' <=> ~ num_memb'[s] > 1
        /\ \A t \in Server : t # s => /\ (Fresh(t)' <=> Fresh(t)) /\ (Joined(t)' <=> Joined(t))
                                      /\ (Live(t)' <=> Live(t))
        /\ \A t \in Server : /\ (Started(t)' <=> Started(t)) /\ (AllFinished(t)' <=> AllFinished(t))
    BY MembPhases
  <1>4. /\ num_memb \in [Server -> Nat] /\ vector_rcvd \in [Server -> Nat]
        /\ syncOn \in [Server -> BOOLEAN] /\ server_view \in [Server -> SUBSET Server]
        /\ summary = [t \in Server |-> summary[t]]
        /\ \A t \in Server : comp[t] \in SUBSET Server
    BY DEF TypeOK, SyncType, NetType
  <1> DEFINE R == Received[s]
             m == VectorOf(s)
  <1>5. /\ R \in [Server -> Seq(Message)] /\ m \in Message /\ m.type = "Vector"
        /\ \A i \in DOMAIN R[s] : R[s][i].type = "Vector"
        /\ \A t \in Server : t # s => R[t] = inbox[t]
        /\ \A t \in Server : AroundMemb(R[t], comp[t]) /\ OneVectorEach(R[t])
        /\ \A i \in DOMAIN R[s] : \E j \in DOMAIN inbox[s] : R[s][i] = inbox[s][j]
        /\ num_memb'[s] = Cardinality(comp[s])
        /\ num_memb'[s] > 1 => \A t \in Server :
             inbox'[t] = IF t \in comp[s] THEN Append(R[t], m) ELSE R[t]
        /\ ~ num_memb'[s] > 1 => inbox' = R
    BY MembInbox
  <1> HIDE DEF R, m
  <1>6. \A t \in Server : t # s => /\ syncOn'[t] = syncOn[t] /\ num_memb'[t] = num_memb[t]
                                   /\ vector_rcvd'[t] = vector_rcvd[t]
                                   /\ summary'[t] = summary[t] /\ server_view'[t] = server_view[t]
    BY <1>2, <1>4
  <1>7. ~ syncOn[s]
    BY <1>1, <1>3 DEF MembOK
  <1>8. syncOn'[s] <=> num_memb'[s] > 1
    BY <1>2, <1>4, <1>7
  <1>9. Components' /\ Undisturbed'
    BY <1>1, <1>2 DEF Components, Undisturbed, NoBoardCreated
  <1>10. MembOK'
    <2>1. ASSUME NEW t \in Server PROVE AroundMemb(inbox'[t], comp[t])
      <3>1. AroundMemb(R[t], comp[t]) /\ R[t] \in Seq(Message)
        BY <1>5
      <3>2. AroundMemb(Append(R[t], m), comp[t])
        BY <1>5, <3>1, AppendKeeps
      <3> QED
        BY <1>5, <3>1, <3>2
    <2>2. ASSUME NEW t \in Server, ~ Fresh(t)' PROVE ~ syncOn'[t] /\ pc'[t] = "idle"
      BY <1>1, <1>2, <1>3, <1>6, <2>2 DEF MembOK
    <2> QED
      BY <1>2, <2>1, <2>2 DEF MembOK
  <1>11. CountOK'
    <2> SUFFICES ASSUME NEW t \in Server
                 PROVE  /\ Fresh(t)' => num_memb'[t] = Cardinality(comp[t])
                        /\ syncOn'[t] => num_memb'[t] > 1
      BY <1>2 DEF CountOK
    <2>1. CASE t = s
      BY <1>5, <1>8, <2>1
    <2>2. CASE t # s
      BY <1>1, <1>3, <1>6, <2>2 DEF CountOK
    <2> QED
      BY <2>1, <2>2
  <1>12. LiveOK'
    <2> SUFFICES ASSUME NEW t \in Server, Live(t)'
                 PROVE  (/\ pc[t] = "idle" /\ OnlyUpdates(inbox[t])
                         /\ num_memb[t] > 1 => AllFinished(t))'
      BY DEF LiveOK
    <2>1. CASE t = s
      <3>1. ~ num_memb'[s] > 1 /\ comp[s] = {s}
        BY <1>1, <1>3, <1>5, <2>1, Alone
      <3>2. ASSUME NEW i \in DOMAIN R[s] PROVE FALSE
        <4>1. PICK j \in Positions(inbox[s], "Vector") : R[s][i] = inbox[s][j]
          BY <1>5, <3>2 DEF Positions
        <4>2. inbox[s][j].server_index \in comp[s]
          BY DEF ControlInv, VectorsOK
        <4>3. inbox[s][j].server_index # s
          BY <1>3, NoVectorYet DEF Joined
        <4> QED
          BY <3>1, <4>2, <4>3
      <3>3. OnlyUpdates(inbox'[s])
        BY <1>5, <3>1, <3>2 DEF OnlyUpdates
      <3> QED
        BY <1>2, <2>1, <3>1, <3>3
    <2>2. CASE t # s
      <3>1. Live(t)
        BY <1>3, <2>2
      <3>2. pc[t] = "idle" /\ OnlyUpdates(inbox[t]) /\ (num_memb[t] > 1 => AllFinished(t))
        BY <1>1, <3>1 DEF LiveOK
      <3>3. inbox'[t] = inbox[t]
        <4>1. CASE num_memb'[s] > 1
          <5>1. t \notin comp[s]
            <6>1. comp[s] # {s}
              <7>1. comp[s] = {s} => Cardinality(comp[s]) = 1
                BY FS_Singleton
              <7> QED
                BY <1>5, <4>1, <7>1
            <6>2. ~ Finished(s)
              BY <1>3 DEF Finished, Started, Joined
            <6> QED
              BY <3>1, <6>1, <6>2, NoneLive
          <5> QED
            BY <1>5, <2>2, <4>1, <5>1
        <4>2. CASE ~ num_memb'[s] > 1
          BY <1>5, <2>2, <4>2
        <4> QED
          BY <4>1, <4>2
      <3> QED
        BY <1>2, <1>3, <1>6, <2>2, <3>2, <3>3
    <2> QED
      BY <2>1, <2>2
  <1>13. JobOK'
    <2> SUFFICES ASSUME NEW t \in Server
                 PROVE  (/\ pc[t] = "sending" => Started(t) /\ syncOn[t]
                         /\ job[t] # {} => pc[t] = "sending"
                         /\ \A p \in job[t] : Sender(summary[t], p[1]) = t)'
      BY DEF JobOK
    <2>1. CASE t = s
      BY <1>1, <1>2, <2>1 DEF JobOK
    <2>2. CASE t # s
      BY <1>1, <1>2, <1>3, <1>6, <2>2 DEF JobOK
    <2> QED
      BY <2>1, <2>2
  <1>14. RowsOK'
    <2> SUFFICES ASSUME NEW t \in Server, Joined(t)'
                 PROVE  (/\ vector_rcvd[t] = Cardinality(DOMAIN summary[t])
                         /\ server_view[t] = DOMAIN summary[t]
                         /\ \A r \in DOMAIN summary[t] : r \in comp[t] /\ Joined(r))'
      BY DEF RowsOK
    <2>1. CASE t = s
      <3>1. summary'[s] = NoRows /\ DOMAIN NoRows = {} /\ vector_rcvd'[s] = 0 /\ server_view'[s] = {}
        BY <1>2, <1>3, <1>4, <2>1 DEF NoRows
      <3> QED
        BY <2>1, <3>1, FS_EmptySet
    <2>2. CASE t # s
      <3>1. /\ Joined(t) /\ vector_rcvd[t] = Cardinality(DOMAIN summary[t])
            /\ server_view[t] = DOMAIN summary[t]
            /\ \A r \in DOMAIN summary[t] : r \in comp[t] /\ Joined(r) /\ r \in Server
        BY <1>1, <1>3, <1>4, <2>2 DEF RowsOK
      <3>2. \A r \in DOMAIN summary[t] : r # s
        BY <1>3, <3>1 DEF Joined
      <3> QED
        BY <1>2, <1>3, <1>6, <2>2, <3>1, <3>2
    <2> QED
      BY <2>1, <2>2
  <1> QED
    BY <1>9, <1>10, <1>11, <1>12, <1>13, <1>14

LEMMA MembControl ==
  ASSUME TypeOK, ControlInv, NEW s \in Server, RecvMembership(s)
  PROVE  ControlInv'
PROOF
  <1>1. /\ Components /\ MembOK /\ VectorsOK /\ EndsOK /\ AfterEndsOK
    BY DEF ControlInv
  <1>2. /\ UNCHANGED comp
        /\ num_memb' = [num_memb EXCEPT ![s] = Cardinality(Head(inbox[s]).members)]
        /\ num_memb'[s] > 1 =>
             /\ syncOn' = [syncOn EXCEPT ![s] = TRUE]
             /\ syncEnd_rcvd' = [syncEnd_rcvd EXCEPT ![s] = 0]
             /\ summary' = [summary EXCEPT ![s] = NoRows]
        /\ ~ num_memb'[s] > 1 => UNCHANGED <<syncOn, syncEnd_rcvd, summary>>
    BY DEF RecvMembership, netVars, CountAtSync
  <1>3. /\ ~ Fresh(s) /\ (Joined(s)' <=> num_memb'[s] > 1)
        /\ Live(s)' <=> ~ num_memb'[s] > 1
        /\ \A t \in Server : t # s => (Joined(t)' <=> Joined(t)) /\ (Live(t)' <=> Live(t))
        /\ \A t \in Server : /\ (Started(t)' <=> Started(t)) /\ (Finished(t)' <=> Finished(t))
                             /\ (AllFinished(t)' <=> AllFinished(t)) /\ FinishedOf(t)' = FinishedOf(t)
    BY MembPhases
  <1>4. /\ num_memb \in [Server -> Nat] /\ syncEnd_rcvd \in [Server -> Nat]
        /\ syncOn \in [Server -> BOOLEAN]
        /\ summary = [t \in Server |-> summary[t]]
        /\ \A t \in Server : comp[t] \in SUBSET Server
    BY DEF TypeOK, SyncType, NetType
  <1> DEFINE R == Received[s]
             m == VectorOf(s)
  <1>5. /\ R \in [Server -> Seq(Message)] /\ m \in Message /\ m.type = "Vector" /\ m.server_index = s
        /\ \A i \in DOMAIN R[s] : R[s][i].type = "Vector"
        /\ \A t \in Server : t # s => R[t] = inbox[t]
        /\ \A t \in Server : OneVectorEach(R[t])
        /\ \A t \in Server : \A i \in DOMAIN R[t] : \E j \in DOMAIN inbox[t] : R[t][i] = inbox[t][j]
        /\ num_memb'[s] > 1 => \A t \in Server :
             inbox'[t] = IF t \in comp[s] THEN Append(R[t], m) ELSE R[t]
        /\ ~ num_memb'[s] > 1 => inbox' = R
    BY MembInbox
  <1>6. /\ \A t \in Server : \A i \in DOMAIN inbox'[t] :
             \/ t \in comp[s] /\ num_memb'[s] > 1 /\ inbox'[t][i] = m
             \/ \E j \in DOMAIN inbox[t] : inbox'[t][i] = inbox[t][j]
        /\ \A i \in DOMAIN inbox'[s] : inbox'[s][i].type = "Vector"
    BY MembMessages
  <1> HIDE DEF R, m
  <1>7. \A t \in Server : t # s => /\ syncOn'[t] = syncOn[t] /\ num_memb'[t] = num_memb[t]
                                   /\ syncEnd_rcvd'[t] = syncEnd_rcvd[t] /\ summary'[t] = summary[t]
    BY <1>2, <1>4
  <1>8. ~ syncOn[s] /\ (syncOn'[s] <=> num_memb'[s] > 1)
    BY <1>1, <1>2, <1>3, <1>4 DEF MembOK
  <1>9. s \in comp[s] /\ ~ Finished(s) /\ \A t \in comp[s] : t \in Server /\ comp[t] = comp[s]
    BY <1>1, <1>3, CompTypes DEF Finished, Started, Joined
  <1>10. ~ Joined(s)
    BY <1>3 DEF Joined
  <1>11. VectorsOK'
    <2>1. ASSUME NEW t \in Server PROVE OneVectorEach(inbox'[t])
      <3>1. R[t] \in Seq(Message) /\ OneVectorEach(R[t])
        BY <1>5
      <3>2. \A i \in Positions(R[t], "Vector") : R[t][i].server_index # s
        BY <1>5, <1>10, NoVectorYet DEF Positions
      <3>3. OneVectorEach(Append(R[t], m))
        BY <1>5, <3>1, <3>2, AppendKeeps
      <3> QED
        BY <1>5, <3>1, <3>3
    <2>2. ASSUME NEW t \in Server, NEW i \in Positions(inbox'[t], "Vector")
          PROVE  (/\ inbox[t][i].server_index \in comp[t]
                  /\ Joined(inbox[t][i].server_index)
                  /\ Joined(t) => inbox[t][i].server_index \notin DOMAIN summary[t])'
      <3>0. i \in DOMAIN inbox'[t] /\ inbox'[t][i].type = "Vector"
        BY DEF Positions
      <3>1. CASE t \in comp[s] /\ num_memb'[s] > 1 /\ inbox'[t][i] = m
        <4>1. Joined(s)' /\ comp'[t] = comp[s]
          BY <1>2, <1>3, <1>9, <3>1
        <4>2. Joined(t)' => s \notin DOMAIN summary'[t]
          <5>1. CASE t = s
            BY <1>2, <1>4, <3>1, <5>1 DEF NoRows
          <5>2. CASE t # s
            BY <1>3, <1>7, <1>10, <5>2, NoVectorYet
          <5> QED
            BY <5>1, <5>2
        <4> QED
          BY <1>5, <1>9, <3>1, <4>1, <4>2
      <3>2. CASE \E j \in DOMAIN inbox[t] : inbox'[t][i] = inbox[t][j]
        <4>1. PICK j \in Positions(inbox[t], "Vector") : inbox'[t][i] = inbox[t][j]
          BY <3>0, <3>2 DEF Positions
        <4>2. PICK o \in Server : /\ o = inbox[t][j].server_index /\ o \in comp[t] /\ Joined(o)
                                  /\ Joined(t) => o \notin DOMAIN summary[t]
          BY <1>1, <1>4 DEF VectorsOK
        <4>3. o # s /\ Joined(o)' /\ comp' = comp
          BY <1>2, <1>3, <1>10, <4>2
        <4>4. Joined(t)' => o \notin DOMAIN summary'[t]
          <5>1. CASE t = s
            BY <1>2, <1>3, <1>4, <5>1 DEF NoRows
          <5>2. CASE t # s
            BY <1>3, <1>7, <4>2, <5>2
          <5> QED
            BY <5>1, <5>2
        <4> QED
          BY <4>1, <4>2, <4>3, <4>4
      <3> QED
        BY <1>6, <3>0, <3>1, <3>2
    <2> QED
      BY <2>1, <2>2 DEF VectorsOK
  <1>12. EndsOK'
    <2> SUFFICES ASSUME NEW t \in Server, syncOn'[t]
                 PROVE  (/\ syncEnd_rcvd[t] < num_memb[t]
                         /\ syncEnd_rcvd[t] + Cardinality(Positions(inbox[t], "SyncEnd"))
                              = Cardinality(FinishedOf(t)))'
      BY DEF EndsOK
    <2>1. CASE t = s
      <3>1. num_memb'[s] > 1 /\ syncEnd_rcvd'[s] = 0
        BY <1>2, <1>4, <1>8, <2>1
      <3>2. Positions(inbox'[s], "SyncEnd") = {}
        BY <1>6 DEF Positions
      <3>3. FinishedOf(s) = {}
        BY <1>9, <1>10, StartedAll DEF FinishedOf, Finished
      <3>4. Cardinality(Positions(inbox'[s], "SyncEnd")) = 0 /\ FinishedOf(s)' = {}
        BY <1>3, <3>2, <3>3, FS_EmptySet
      <3>5. Cardinality(FinishedOf(s)') = 0
        BY <3>4, FS_EmptySet
      <3>6. syncEnd_rcvd'[s] < num_memb'[s] /\ num_memb'[s] \in Nat
        BY <1>2, <1>4, <3>1, MembInbox, CompTypes, <1>1
      <3>7. syncEnd_rcvd'[s] + Cardinality(Positions(inbox'[s], "SyncEnd")) = Cardinality(FinishedOf(s)')
        BY <3>1, <3>4, <3>5
      <3> QED
        BY <2>1, <3>6, <3>7
    <2>2. CASE t # s
      <3>1. /\ syncEnd_rcvd[t] < num_memb[t]
            /\ syncEnd_rcvd[t] + Cardinality(Positions(inbox[t], "SyncEnd")) = Cardinality(FinishedOf(t))
        BY <1>1, <1>7, <2>2 DEF EndsOK
      <3>2. R[t] = inbox[t] /\ R[t] \in Seq(Message)
        BY <1>5, <2>2
      <3>3. Cardinality(Positions(Append(R[t], m), "SyncEnd")) = Cardinality(Positions(inbox[t], "SyncEnd"))
        BY <1>5, <3>2, AppendCount
      <3>4. inbox'[t] \in {inbox[t], Append(R[t], m)}
        BY <1>5, <3>2
      <3> QED
        BY <1>3, <1>7, <2>2, <3>1, <3>3, <3>4
    <2> QED
      BY <2>1, <2>2
  <1>13. AfterEndsOK'
    <2> SUFFICES ASSUME NEW t \in Server, syncOn'[t]
                 PROVE  (/\ UpdatesLast(inbox[t])
                         /\ \A i \in Positions(inbox[t], "Update") :
                              /\ AllFinished(t)
                              /\ inbox[t][i].update.server_id \in comp[t]
                              /\ Live(inbox[t][i].update.server_id)
                         /\ AllFinished(t) => EndFollows(inbox[t]))'
      BY DEF AfterEndsOK
    <2>1. CASE t \in comp[s] /\ num_memb'[s] > 1
      <3>1. ~ AllFinished(t)
        BY <1>9, <2>1 DEF AllFinished
      <3>2. Positions(R[t], "Update") = {}
        <4>1. CASE t = s
          BY <1>5, <4>1 DEF Positions
        <4>2. CASE t # s
          BY <1>1, <1>5, <1>7, <3>1, <4>2 DEF AfterEndsOK
        <4> QED
          BY <4>1, <4>2
      <3>3. inbox'[t] = Append(R[t], m) /\ R[t] \in Seq(Message)
        BY <1>5, <2>1
      <3>4. UpdatesLast(inbox'[t])
        BY <1>5, <3>2, <3>3, AppendKeeps
      <3>5. Positions(inbox'[t], "Update") = {}
        BY <1>5, <3>2, <3>3, AppendAt DEF Positions
      <3> QED
        BY <1>3, <3>1, <3>4, <3>5
    <2>2. CASE ~ (t \in comp[s] /\ num_memb'[s] > 1)
      <3>1. t # s /\ syncOn[t]
        BY <1>7, <1>8, <1>9, <2>2
      <3>2. inbox'[t] = inbox[t]
        BY <1>5, <2>2, <3>1
      <3>3. /\ UpdatesLast(inbox[t]) /\ (AllFinished(t) => EndFollows(inbox[t]))
            /\ \A i \in Positions(inbox[t], "Update") :
                 /\ AllFinished(t)
                 /\ inbox[t][i].update.server_id \in comp[t]
                 /\ Live(inbox[t][i].update.server_id)
        BY <1>1, <3>1 DEF AfterEndsOK
      <3>4. ASSUME NEW i \in Positions(inbox'[t], "Update")
            PROVE  (/\ AllFinished(t)
                    /\ inbox[t][i].update.server_id \in comp[t]
                    /\ Live(inbox[t][i].update.server_id))'
        <4>1. i \in Positions(inbox[t], "Update")
          BY <3>2
        <4>2. PICK o \in Server : /\ o = inbox[t][i].update.server_id
                                  /\ AllFinished(t) /\ o \in comp[t] /\ Live(o)
          BY <1>4, <3>3, <4>1
        <4>3. AllFinished(t)' /\ Live(o)'
          <5>1. o # s
            BY <1>3, <4>2 DEF Live
          <5> QED
            BY <1>3, <4>2, <5>1
        <4> QED
          BY <1>2, <3>2, <4>2, <4>3
      <3> QED
        BY <1>3, <3>2, <3>3, <3>4
    <2> QED
      BY <2>1, <2>2
  <1> QED
    BY <1>11, <1>12, <1>13, MembControlBasic DEF ControlInv

--------------------------------------------------------------------------------
(* A vector is read *)

LEMMA VectorPhases ==
  ASSUME TypeOK, ControlInv, NEW s \in Server, RecvVector(s)
  PROVE  /\ Joined(s) /\ syncOn[s] /\ ~ Started(s) /\ Head(inbox[s]).server_index \in Server
         /\ Head(inbox[s]) \in Message
         /\ Started(s)' <=> vector_rcvd'[s] = num_memb[s]
         /\ \A t \in Server : t # s => (Started(t)' <=> Started(t))
         /\ \A t \in Server : /\ (Fresh(t)' <=> Fresh(t)) /\ (Joined(t)' <=> Joined(t))
                              /\ (Finished(t)' <=> Finished(t)) /\ (Live(t)' <=> Live(t))
                              /\ (AllFinished(t)' <=> AllFinished(t)) /\ FinishedOf(t)' = FinishedOf(t)
PROOF
  <1>0. /\ Receives(s, "Vector") /\ UNCHANGED <<up, comp, syncOn, num_memb>>
        /\ inbox[s] # <<>> /\ Head(inbox[s]).type = "Vector" /\ inbox' = Received[s]
        /\ vector_rcvd' = [vector_rcvd EXCEPT ![s] = vector_rcvd[s] + 1]
        /\ vector_rcvd'[s] = num_memb[s] => pc' = [pc EXCEPT ![s] = "sending"]
        /\ vector_rcvd'[s] # num_memb[s] => pc' = pc
    BY DEF RecvVector, Receives, netVars
  <1>1. /\ vector_rcvd \in [Server -> Nat] /\ pc \in [Server -> {"idle", "sending", "draining"}]
        /\ \A t \in Server : comp[t] \in SUBSET Server
    BY DEF TypeOK, SyncType, LoopType, NetType
  <1>2. Joined(s) /\ syncOn[s]
    BY <1>0, HeadFresh
  <1>3. ~ Started(s)
    BY <1>0, VectorHead
  <1>4. Head(inbox[s]) \in Message /\ \A t \in Server : Fresh(t)' <=> Fresh(t)
    BY <1>0, ReadInbox
  <1>5. \A t \in Server : (Joined(t)' <=> Joined(t)) /\ (Live(t)' <=> Live(t))
    BY <1>0, <1>4 DEF Joined, Live
  <1>6. /\ Started(s)' <=> vector_rcvd'[s] = num_memb[s]
        /\ \A t \in Server : t # s => (Started(t)' <=> Started(t))
    BY <1>0, <1>1, <1>2, <1>5 DEF Started
  <1>7. \A t \in Server : Finished(t)' <=> Finished(t)
    <2>1. ~ Finished(s) /\ ~ Finished(s)'
      BY <1>0, <1>1, <1>3, <1>6 DEF Finished
    <2>2. \A t \in Server : t # s => (Finished(t)' <=> Finished(t))
      BY <1>0, <1>1, <1>6 DEF Finished
    <2> QED
      BY <2>1, <2>2
  <1>8. \A t \in Server : (AllFinished(t)' <=> AllFinished(t)) /\ FinishedOf(t)' = FinishedOf(t)
    BY <1>0, <1>1, <1>7 DEF AllFinished, FinishedOf
  <1> QED
    BY <1>0, <1>2, <1>3, <1>4, <1>5, <1>6, <1>7, <1>8, MessageParts

\* The matrix gets a row that it did not have, and all rows are in the view.
LEMMA VectorRows ==
  ASSUME TypeOK, ControlInv, NEW s \in Server, RecvVector(s)
  PROVE  /\ \A t \in Server : t # s => /\ summary'[t] = summary[t] /\ server_view'[t] = server_view[t]
                                       /\ vector_rcvd'[t] = vector_rcvd[t]
         /\ summary'[s] = WithRow(summary[s], Head(inbox[s]))
         /\ DOMAIN summary'[s] = DOMAIN summary[s] \cup {Head(inbox[s]).server_index}
         /\ RowsOK' /\ InView(s, summary'[s]) = summary'[s]
PROOF
  <1> DEFINE r == Head(inbox[s]).server_index
  <1>0. /\ Receives(s, "Vector") /\ UNCHANGED comp
        /\ vector_rcvd' = [vector_rcvd EXCEPT ![s] = vector_rcvd[s] + 1]
        /\ summary' = [summary EXCEPT ![s] = WithRow(summary[s], Head(inbox[s]))]
        /\ server_view' = [server_view EXCEPT ![s] = server_view[s] \cup {r}]
    BY DEF RecvVector, netVars
  <1>1. /\ vector_rcvd \in [Server -> Nat] /\ server_view \in [Server -> SUBSET Server]
        /\ summary = [t \in Server |-> summary[t]] /\ IsSummary(summary[s])
        /\ \A t \in Server : comp[t] \in SUBSET Server
    BY DEF TypeOK, SyncType, NetType
  <1>2. r \in comp[s] /\ Joined(r) /\ r \notin DOMAIN summary[s] /\ r \in Server
    BY <1>0, <1>1, VectorHead
  <1>3. Joined(s) /\ \A t \in Server : Joined(t)' <=> Joined(t)
    BY VectorPhases
  <1>4. summary'[s] = WithRow(summary[s], Head(inbox[s]))
    BY <1>0, <1>1
  <1>5. DOMAIN summary'[s] = DOMAIN summary[s] \cup {r}
    BY <1>4 DEF WithRow
  <1>6. \A t \in Server : t # s => /\ summary'[t] = summary[t] /\ server_view'[t] = server_view[t]
                                   /\ vector_rcvd'[t] = vector_rcvd[t]
    BY <1>0, <1>1
  <1>7. vector_rcvd'[s] = vector_rcvd[s] + 1 /\ server_view'[s] = server_view[s] \cup {r}
    BY <1>0, <1>1
  <1>8. IsFiniteSet(DOMAIN summary[s])
    <2>1. DOMAIN summary[s] \in SUBSET Server
      BY <1>1 DEF IsSummary
    <2>2. IsFiniteSet(Server)
      BY FS_Interval, NAssumption DEF Server
    <2> QED
      BY <2>1, <2>2, FS_Subset
  <1> HIDE DEF r
  <1>9. Cardinality(DOMAIN summary'[s]) = Cardinality(DOMAIN summary[s]) + 1
    BY <1>2, <1>5, <1>8, FS_AddElement
  <1>10. /\ vector_rcvd[s] = Cardinality(DOMAIN summary[s]) /\ server_view[s] = DOMAIN summary[s]
         /\ \A o \in DOMAIN summary[s] : o \in comp[s] /\ Joined(o)
    BY <1>3 DEF ControlInv, RowsOK
  <1>11. RowsOK'
    <2> SUFFICES ASSUME NEW t \in Server, Joined(t)'
                 PROVE  (/\ vector_rcvd[t] = Cardinality(DOMAIN summary[t])
                         /\ server_view[t] = DOMAIN summary[t]
                         /\ \A o \in DOMAIN summary[t] : o \in comp[t] /\ Joined(o))'
      BY DEF RowsOK
    <2>1. CASE t = s
      <3>1. vector_rcvd'[s] = Cardinality(DOMAIN summary'[s]) /\ server_view'[s] = DOMAIN summary'[s]
        BY <1>5, <1>7, <1>9, <1>10
      <3>2. ASSUME NEW o \in DOMAIN summary'[s] PROVE o \in comp'[s] /\ Joined(o)'
        BY <1>0, <1>1, <1>2, <1>3, <1>5, <1>10, <3>2
      <3> QED
        BY <2>1, <3>1, <3>2
    <2>2. CASE t # s
      <3>1. /\ vector_rcvd[t] = Cardinality(DOMAIN summary[t]) /\ server_view[t] = DOMAIN summary[t]
            /\ \A o \in DOMAIN summary[t] : o \in comp[t] /\ Joined(o)
        BY <1>3 DEF ControlInv, RowsOK
      <3> QED
        BY <1>0, <1>1, <1>3, <1>6, <2>2, <3>1
    <2> QED
      BY <2>1, <2>2
  <1>12. InView(s, summary'[s]) = summary'[s]
    <2>1. server_view'[s] = DOMAIN summary'[s]
      BY <1>5, <1>7, <1>10
    <2>2. summary'[s] = [t \in DOMAIN summary'[s] |-> summary'[s][t]]
      <3>1. WithRow(summary[s], Head(inbox[s])) =
              [t \in DOMAIN WithRow(summary[s], Head(inbox[s])) |-> WithRow(summary[s], Head(inbox[s]))[t]]
        BY DEF WithRow
      <3> QED
        BY <1>4, <3>1
    <2> QED
      BY <2>1, <2>2 DEF InView
  <1> QED
    BY <1>4, <1>5, <1>6, <1>11, <1>12 DEF r

\* What a server is to send it is elected for.
LEMMA JobElected ==
  ASSUME NEW me \in Server, NEW m, NEW p \in Job(me, m)
  PROVE  /\ Sender(m, p[1]) = me /\ p[1] \in Server
         /\ p[2] \in Wanted(m, p[1]) /\ ShouldSend(m, p[1])
PROOF
  <1>1. PICK c \in Server : p \in ColumnJob(me, m, c)
    BY DEF Job
  <1>2. Sender(m, c) = me /\ ShouldSend(m, c) /\ p \in {<<c, l>> : l \in Wanted(m, c)}
    BY <1>1 DEF ColumnJob
  <1>3. p[1] = c /\ p[2] \in Wanted(m, c)
    BY <1>2
  <1> QED
    BY <1>2, <1>3

LEMMA VectorControl ==
  ASSUME TypeOK, ControlInv, NEW s \in Server, RecvVector(s)
  PROVE  ControlInv'
PROOF
  <1>1. /\ Components /\ Undisturbed /\ MembOK /\ CountOK /\ LiveOK /\ JobOK /\ VectorsOK /\ EndsOK
        /\ AfterEndsOK
    BY DEF ControlInv
  <1>2. /\ Receives(s, "Vector") /\ pc[s] = "idle" /\ inbox[s] # <<>>
        /\ Head(inbox[s]).type = "Vector" /\ inbox' = Received[s]
        /\ UNCHANGED <<comp, syncOn, num_memb, syncEnd_rcvd, queue, up, db>>
        /\ vector_rcvd'[s] = num_memb[s] =>
             /\ pc' = [pc EXCEPT ![s] = "sending"]
             /\ job' = [job EXCEPT ![s] = {p \in Job(s, InView(s, summary'[s])) : LogMatches(s, p) # {}}]
        /\ vector_rcvd'[s] # num_memb[s] => UNCHANGED <<pc, job>>
    BY DEF RecvVector, Receives, netVars, fileVars
  <1>3. /\ Joined(s) /\ syncOn[s]
        /\ Started(s)' <=> vector_rcvd'[s] = num_memb[s]
        /\ \A t \in Server : t # s => (Started(t)' <=> Started(t))
        /\ \A t \in Server : /\ (Fresh(t)' <=> Fresh(t)) /\ (Joined(t)' <=> Joined(t))
                             /\ (Live(t)' <=> Live(t))
                             /\ (AllFinished(t)' <=> AllFinished(t)) /\ FinishedOf(t)' = FinishedOf(t)
    BY VectorPhases
  <1>4. /\ pc \in [Server -> {"idle", "sending", "draining"}]
        /\ job \in [Server -> SUBSET (Server \X Nat)]
        /\ inbox \in [Server -> Seq(Message)]
        /\ \A t \in Server : comp[t] \in SUBSET Server
    BY DEF TypeOK, LoopType, NetType
  <1>5. /\ inbox'[s] = Tail(inbox[s]) /\ inbox[s] \in Seq(Message)
        /\ \A t \in Server : t # s => inbox'[t] = inbox[t]
        /\ \A t \in Server : \A i \in DOMAIN inbox'[t] :
             \E j \in DOMAIN inbox[t] : inbox'[t][i] = inbox[t][j]
    BY <1>2, ReadInbox
  <1>6. /\ \A t \in Server : t # s => summary'[t] = summary[t]
        /\ DOMAIN summary'[s] = DOMAIN summary[s] \cup {Head(inbox[s]).server_index}
        /\ RowsOK' /\ InView(s, summary'[s]) = summary'[s]
    BY VectorRows
  <1>7. \A t \in Server : t # s => pc'[t] = pc[t] /\ job'[t] = job[t]
    BY <1>2, <1>4
  <1>8. Components' /\ CountOK'
    BY <1>1, <1>2, <1>3 DEF Components, CountOK
  <1>9. Undisturbed'
    BY <1>1, <1>2, <1>4 DEF Undisturbed, NoBoardCreated
  <1>10. MembOK'
    <2>1. AroundMemb(inbox'[s], comp[s])
      BY <1>1, <1>2, <1>5, TailKeeps DEF MembOK
    <2>2. \A t \in Server : AroundMemb(inbox'[t], comp[t])
      BY <1>1, <1>5, <2>1 DEF MembOK
    <2>3. Fresh(s)'
      BY <1>3 DEF Joined
    <2> QED
      BY <1>1, <1>2, <1>3, <1>7, <2>2, <2>3 DEF MembOK
  <1>11. LiveOK'
    <2>1. ~ Live(s)'
      BY <1>3 DEF Live
    <2>2. ASSUME NEW t \in Server, Live(t)'
          PROVE  (/\ pc[t] = "idle" /\ OnlyUpdates(inbox[t])
                  /\ num_memb[t] > 1 => AllFinished(t))'
      <3>1. t # s /\ Live(t)
        BY <1>3, <2>1, <2>2
      <3> QED
        BY <1>1, <1>2, <1>3, <1>5, <1>7, <3>1 DEF LiveOK
    <2> QED
      BY <2>2 DEF LiveOK
  <1>12. JobOK'
    <2> SUFFICES ASSUME NEW t \in Server
                 PROVE  (/\ pc[t] = "sending" => Started(t) /\ syncOn[t]
                         /\ job[t] # {} => pc[t] = "sending"
                         /\ \A p \in job[t] : Sender(summary[t], p[1]) = t)'
      BY DEF JobOK
    <2>1. CASE t # s
      BY <1>1, <1>2, <1>3, <1>6, <1>7, <2>1 DEF JobOK
    <2>2. CASE t = s /\ vector_rcvd'[s] = num_memb[s]
      <3>1. pc'[s] = "sending" /\ job'[s] \subseteq Job(s, summary'[s])
        BY <1>2, <1>4, <1>6, <2>2
      <3>2. \A p \in job'[s] : Sender(summary'[s], p[1]) = s
        BY <3>1, JobElected
      <3> QED
        BY <1>2, <1>3, <2>2, <3>1, <3>2
    <2>3. CASE t = s /\ vector_rcvd'[s] # num_memb[s]
      <3>1. pc'[s] = "idle" /\ job'[s] = {}
        BY <1>1, <1>2, <2>3 DEF JobOK
      <3> QED
        BY <2>3, <3>1
    <2> QED
      BY <2>1, <2>2, <2>3
  <1>13. VectorsOK'
    <2>1. OneVectorEach(inbox'[s])
      BY <1>1, <1>2, <1>5, TailKeeps DEF VectorsOK
    <2>2. ASSUME NEW t \in Server, NEW i \in Positions(inbox'[t], "Vector")
          PROVE  (/\ inbox[t][i].server_index \in comp[t]
                  /\ Joined(inbox[t][i].server_index)
                  /\ Joined(t) => inbox[t][i].server_index \notin DOMAIN summary[t])'
      <3>1. PICK j \in Positions(inbox[t], "Vector") : inbox'[t][i] = inbox[t][j]
        BY <1>5 DEF Positions
      <3>2. PICK o \in Server : /\ o = inbox[t][j].server_index /\ o \in comp[t] /\ Joined(o)
                                /\ Joined(t) => o \notin DOMAIN summary[t]
        BY <1>1, <1>4 DEF VectorsOK
      <3>3. Joined(t)' => o \notin DOMAIN summary'[t]
        <4>1. CASE t # s
          BY <1>3, <1>6, <3>2, <4>1
        <4>2. CASE t = s
          <5>0. i \in Positions(Tail(inbox[s]), "Vector") /\ o = Tail(inbox[s])[i].server_index
            BY <1>5, <3>1, <3>2, <4>2
          <5>1. o # Head(inbox[s]).server_index
            BY <1>2, <5>0, VectorHead
          <5> QED
            BY <1>3, <1>6, <3>2, <4>2, <5>1
        <4> QED
          BY <4>1, <4>2
      <3>4. Joined(o)' /\ comp' = comp
        BY <1>2, <1>3, <3>2
      <3> QED
        BY <3>1, <3>2, <3>3, <3>4
    <2> QED
      BY <1>1, <1>5, <2>1, <2>2 DEF VectorsOK
  <1>14. EndsOK'
    <2>1. Cardinality(Positions(inbox'[s], "SyncEnd")) = Cardinality(Positions(inbox[s], "SyncEnd"))
      BY <1>2, <1>5, TailCount
    <2>2. \A t \in Server :
            Cardinality(Positions(inbox'[t], "SyncEnd")) = Cardinality(Positions(inbox[t], "SyncEnd"))
      BY <1>5, <2>1
    <2> QED
      BY <1>1, <1>2, <1>3, <2>2 DEF EndsOK
  <1>15. AfterEndsOK'
    BY <1>2, <1>3, <1>5, AfterEndsRead, <1>1
  <1> QED
    BY <1>6, <1>8, <1>9, <1>10, <1>11, <1>12, <1>13, <1>14, <1>15 DEF ControlInv

--------------------------------------------------------------------------------
(* A SyncEnd is sent, and read *)

LEMMA SendEndPhases ==
  ASSUME TypeOK, ControlInv, NEW s \in Server, SendSyncEnd(s)
  PROVE  /\ Started(s) /\ syncOn[s] /\ ~ Finished(s) /\ Finished(s)'
         /\ \A t \in Server : /\ (Fresh(t)' <=> Fresh(t)) /\ (Joined(t)' <=> Joined(t))
                              /\ (Started(t)' <=> Started(t)) /\ (Live(t)' <=> Live(t))
         /\ \A t \in Server : t # s => (Finished(t)' <=> Finished(t))
PROOF
  <1> DEFINE m == [type |-> "SyncEnd"]
  <1>1. /\ pc[s] = "sending" /\ inbox' = Multicast(inbox, s, m)
        /\ UNCHANGED <<up, comp, syncOn, num_memb, vector_rcvd>>
        /\ pc' = [pc EXCEPT ![s] = "idle"]
    BY DEF SendSyncEnd, syncVars, netVars
  <1>2. Started(s) /\ syncOn[s] /\ ~ Finished(s)
    BY <1>1 DEF ControlInv, JobOK, Finished
  <1>3. m \in Message /\ m.type # "Memb" /\ Components
    BY NewMessages DEF ControlInv
  <1>4. \A t \in Server : Fresh(t)' <=> Fresh(t)
    BY <1>1, <1>3, DeliverInbox
  <1>5. \A t \in Server : (Joined(t)' <=> Joined(t)) /\ (Live(t)' <=> Live(t))
    BY <1>1, <1>4 DEF Joined, Live
  <1>6. \A t \in Server : Started(t)' <=> Started(t)
    BY <1>1, <1>5 DEF Started
  <1>7. pc \in [Server -> {"idle", "sending", "draining"}]
    BY DEF TypeOK, LoopType
  <1>8. Finished(s)' /\ \A t \in Server : t # s => (Finished(t)' <=> Finished(t))
    BY <1>1, <1>2, <1>6, <1>7 DEF Finished
  <1> QED
    BY <1>2, <1>4, <1>5, <1>6, <1>8

LEMMA SendEndControl ==
  ASSUME TypeOK, ControlInv, NEW s \in Server, SendSyncEnd(s)
  PROVE  ControlInv'
PROOF
  <1> DEFINE m == [type |-> "SyncEnd"]
  <1>1. /\ Components /\ Undisturbed /\ MembOK /\ CountOK /\ LiveOK /\ JobOK /\ RowsOK /\ VectorsOK
        /\ EndsOK /\ AfterEndsOK
    BY DEF ControlInv
  <1>2. /\ pc[s] = "sending" /\ job[s] = {} /\ inbox' = Multicast(inbox, s, m)
        /\ UNCHANGED <<comp, syncOn, num_memb, vector_rcvd, syncEnd_rcvd, summary, server_view>>
        /\ UNCHANGED <<queue, up, db, job>>
        /\ pc' = [pc EXCEPT ![s] = "idle"]
    BY DEF SendSyncEnd, syncVars, netVars, fileVars
  <1>3. /\ Started(s) /\ syncOn[s] /\ ~ Finished(s) /\ Finished(s)'
        /\ \A t \in Server : /\ (Fresh(t)' <=> Fresh(t)) /\ (Joined(t)' <=> Joined(t))
                             /\ (Started(t)' <=> Started(t)) /\ (Live(t)' <=> Live(t))
        /\ \A t \in Server : t # s => (Finished(t)' <=> Finished(t))
    BY SendEndPhases
  <1>4. m \in Message /\ m.type = "SyncEnd"
    BY NewMessages
  <1> HIDE DEF m
  <1>5. /\ inbox \in [Server -> Seq(Message)]
        /\ \A t \in Server : t \in comp[s] => inbox'[t] = Append(inbox[t], m)
        /\ \A t \in Server : t \notin comp[s] => inbox'[t] = inbox[t]
        /\ \A t \in Server : \A i \in DOMAIN inbox'[t] :
             \/ t \in comp[s] /\ inbox'[t][i] = m
             \/ \E j \in DOMAIN inbox[t] : inbox'[t][i] = inbox[t][j]
    BY <1>1, <1>2, <1>4, DeliverInbox
  <1>6. /\ \A t \in comp[s] : t \in Server /\ comp[t] = comp[s] /\ s \in comp[t]
        /\ s \in comp[s] /\ \A t \in Server : s \in comp[t] => t \in comp[s]
        /\ \A t \in Server : comp[t] \in SUBSET Server
        /\ pc \in [Server -> {"idle", "sending", "draining"}]
    BY <1>1, CompTypes DEF TypeOK, LoopType, NetType
  <1>7. \A t \in comp[s] : Fresh(t) /\ ~ Live(t)
    BY <1>3, StartedAll, JoinedNoneLive DEF Started, Joined
  <1>8. Components' /\ CountOK' /\ RowsOK'
    BY <1>1, <1>2, <1>3, <1>6 DEF Components, CountOK, RowsOK
  <1>9. Undisturbed'
    BY <1>1, <1>2, <1>6 DEF Undisturbed, NoBoardCreated
  <1>10. \A t \in Server : AroundMemb(inbox'[t], comp[t]) /\ OneVectorEach(inbox'[t])
    <2> SUFFICES ASSUME NEW t \in Server PROVE AroundMemb(inbox'[t], comp[t]) /\ OneVectorEach(inbox'[t])
      OBVIOUS
    <2>1. AroundMemb(inbox[t], comp[t]) /\ OneVectorEach(inbox[t])
      BY <1>1 DEF MembOK, VectorsOK
    <2>2. CASE t \in comp[s]
      <3>1. inbox[t] \in Seq(Message) /\ inbox'[t] = Append(inbox[t], m) /\ Positions(inbox[t], "Memb") = {}
        BY <1>5, <1>7, <2>2 DEF Fresh, Waiting, Positions
      <3>2. AroundMemb(Append(inbox[t], m), comp[t])
        BY <1>4, <3>1, AppendKeeps
      <3>3. OneVectorEach(Append(inbox[t], m))
        BY <1>4, <2>1, <3>1, AppendKeeps
      <3> QED
        BY <3>1, <3>2, <3>3
    <2>3. CASE t \notin comp[s]
      BY <1>5, <2>1, <2>3
    <2> QED
      BY <2>2, <2>3
  <1>11. MembOK'
    <2>1. ASSUME NEW t \in Server, ~ Fresh(t)' PROVE ~ syncOn'[t] /\ pc'[t] = "idle"
      BY <1>1, <1>2, <1>3, <1>6, <2>1 DEF MembOK
    <2> QED
      BY <1>2, <1>10, <2>1 DEF MembOK
  <1>12. \A t \in Server : AllFinished(t) => AllFinished(t)'
    BY <1>2, <1>3, <1>6 DEF AllFinished
  <1>13. LiveOK'
    <2>1. ASSUME NEW t \in Server, Live(t)'
          PROVE  (/\ pc[t] = "idle" /\ OnlyUpdates(inbox[t])
                  /\ num_memb[t] > 1 => AllFinished(t))'
      <3>1. Live(t) /\ t \notin comp[s] /\ t # s
        BY <1>3, <1>6, <1>7, <2>1
      <3> QED
        BY <1>1, <1>2, <1>5, <1>12, <3>1 DEF LiveOK
    <2> QED
      BY <2>1 DEF LiveOK
  <1>14. JobOK'
    <2> SUFFICES ASSUME NEW t \in Server
                 PROVE  (/\ pc[t] = "sending" => Started(t) /\ syncOn[t]
                         /\ job[t] # {} => pc[t] = "sending"
                         /\ \A p \in job[t] : Sender(summary[t], p[1]) = t)'
      BY DEF JobOK
    <2>1. CASE t = s
      <3>1. pc'[s] = "idle" /\ job'[s] = {}
        BY <1>2, <1>6
      <3> QED
        BY <2>1, <3>1
    <2>2. CASE t # s
      BY <1>1, <1>2, <1>3, <2>2 DEF JobOK
    <2> QED
      BY <2>1, <2>2
  <1>15. VectorsOK'
    <2>1. ASSUME NEW t \in Server, NEW i \in Positions(inbox'[t], "Vector")
          PROVE  (/\ inbox[t][i].server_index \in comp[t]
                  /\ Joined(inbox[t][i].server_index)
                  /\ Joined(t) => inbox[t][i].server_index \notin DOMAIN summary[t])'
      <3>1. PICK j \in Positions(inbox[t], "Vector") : inbox'[t][i] = inbox[t][j]
        BY <1>4, <1>5 DEF Positions
      <3>2. PICK o \in Server : /\ o = inbox[t][j].server_index /\ o \in comp[t] /\ Joined(o)
                                /\ Joined(t) => o \notin DOMAIN summary[t]
        BY <1>1, <1>6 DEF VectorsOK
      <3>3. Joined(o)' /\ (Joined(t)' <=> Joined(t))
        BY <1>3, <3>2
      <3> QED
        BY <1>2, <3>1, <3>2, <3>3
    <2> QED
      BY <1>10, <2>1 DEF VectorsOK
  <1>16. EndsOK'
    <2> SUFFICES ASSUME NEW t \in Server, syncOn'[t]
                 PROVE  (/\ syncEnd_rcvd[t] < num_memb[t]
                         /\ syncEnd_rcvd[t] + Cardinality(Positions(inbox[t], "SyncEnd"))
                              = Cardinality(FinishedOf(t)))'
      BY DEF EndsOK
    <2>1. /\ syncEnd_rcvd[t] < num_memb[t] /\ syncEnd_rcvd[t] \in Nat
          /\ syncEnd_rcvd[t] + Cardinality(Positions(inbox[t], "SyncEnd")) = Cardinality(FinishedOf(t))
      BY <1>1, <1>2 DEF EndsOK, TypeOK, SyncType
    <2>2. CASE t \in comp[s]
      <3>1. Cardinality(Positions(inbox'[t], "SyncEnd")) = Cardinality(Positions(inbox[t], "SyncEnd")) + 1
        <4>1. inbox'[t] = Append(inbox[t], m) /\ inbox[t] \in Seq(Message)
          BY <1>5, <2>2
        <4> QED
          BY <1>4, <4>1, AppendCount
      <3>2. FinishedOf(t)' = FinishedOf(t) \cup {s} /\ s \notin FinishedOf(t)
        BY <1>2, <1>3, <1>6, <2>2 DEF FinishedOf
      <3>3. IsFiniteSet(FinishedOf(t)) /\ FinishedOf(t) \in SUBSET comp[t]
        <4>1. IsFiniteSet(comp[t]) /\ FinishedOf(t) \in SUBSET comp[t]
          BY <1>1, CompTypes DEF FinishedOf
        <4> QED
          BY <4>1, FS_Subset
      <3>4. Cardinality(FinishedOf(t)') = Cardinality(FinishedOf(t)) + 1
        BY <3>2, <3>3, FS_AddElement
      <3>5. Cardinality(Positions(inbox[t], "SyncEnd")) \in Nat
        BY <1>5, PositionsFinite
      <3> QED
        BY <1>2, <2>1, <3>1, <3>4, <3>5
    <2>3. CASE t \notin comp[s]
      <3>1. FinishedOf(t)' = FinishedOf(t)
        BY <1>2, <1>3, <1>6, <2>3 DEF FinishedOf
      <3> QED
        BY <1>2, <1>5, <2>1, <2>3, <3>1
    <2> QED
      BY <2>2, <2>3
  <1>17. AfterEndsOK'
    <2> SUFFICES ASSUME NEW t \in Server, syncOn'[t]
                 PROVE  (/\ UpdatesLast(inbox[t])
                         /\ \A i \in Positions(inbox[t], "Update") :
                              /\ AllFinished(t)
                              /\ inbox[t][i].update.server_id \in comp[t]
                              /\ Live(inbox[t][i].update.server_id)
                         /\ AllFinished(t) => EndFollows(inbox[t]))'
      BY DEF AfterEndsOK
    <2>1. /\ UpdatesLast(inbox[t]) /\ (AllFinished(t) => EndFollows(inbox[t]))
          /\ \A i \in Positions(inbox[t], "Update") :
               /\ AllFinished(t)
               /\ inbox[t][i].update.server_id \in comp[t]
               /\ Live(inbox[t][i].update.server_id)
      BY <1>1, <1>2 DEF AfterEndsOK
    <2>2. CASE t \in comp[s]
      <3>1. Positions(inbox[t], "Update") = {}
        BY <1>3, <1>6, <2>1, <2>2 DEF AllFinished
      <3>2. inbox'[t] = Append(inbox[t], m) /\ inbox[t] \in Seq(Message)
        BY <1>5, <2>2
      <3>3. UpdatesLast(inbox'[t]) /\ EndFollows(inbox'[t])
        BY <1>4, <3>1, <3>2, AppendKeeps
      <3>4. Positions(inbox'[t], "Update") = {}
        BY <1>4, <3>1, <3>2, AppendAt DEF Positions
      <3> QED
        BY <3>3, <3>4
    <2>3. CASE t \notin comp[s]
      <3>1. inbox'[t] = inbox[t] /\ (AllFinished(t)' <=> AllFinished(t))
        BY <1>2, <1>3, <1>5, <1>6, <2>3 DEF AllFinished
      <3>2. ASSUME NEW i \in Positions(inbox'[t], "Update")
            PROVE  (/\ AllFinished(t)
                    /\ inbox[t][i].update.server_id \in comp[t]
                    /\ Live(inbox[t][i].update.server_id))'
        <4>1. PICK o \in Server : /\ o = inbox[t][i].update.server_id
                                  /\ AllFinished(t) /\ o \in comp[t] /\ Live(o)
          BY <1>6, <2>1, <3>1
        <4>2. Live(o)'
          BY <1>3, <4>1
        <4> QED
          BY <1>2, <3>1, <4>1, <4>2
      <3> QED
        BY <2>1, <3>1, <3>2
    <2> QED
      BY <2>2, <2>3
  <1> QED
    BY <1>8, <1>9, <1>11, <1>13, <1>14, <1>15, <1>16, <1>17 DEF ControlInv

LEMMA RecvEndPhases ==
  ASSUME TypeOK, ControlInv, NEW s \in Server, RecvSyncEnd(s)
  PROVE  /\ Joined(s) /\ syncOn[s] /\ UNCHANGED pc
         /\ Live(s)' <=> syncEnd_rcvd'[s] = num_memb[s]
         /\ \A t \in Server : t # s => (Live(t)' <=> Live(t)) /\ syncOn'[t] = syncOn[t]
         /\ syncOn'[s] <=> syncEnd_rcvd'[s] # num_memb[s]
         /\ \A t \in Server : /\ (Fresh(t)' <=> Fresh(t)) /\ (Joined(t)' <=> Joined(t))
                              /\ (Started(t)' <=> Started(t)) /\ (Finished(t)' <=> Finished(t))
                              /\ (AllFinished(t)' <=> AllFinished(t)) /\ FinishedOf(t)' = FinishedOf(t)
PROOF
  <1>1. /\ Receives(s, "SyncEnd") /\ inbox[s] # <<>> /\ Head(inbox[s]).type = "SyncEnd"
        /\ inbox' = Received[s] /\ pc[s] = "idle"
        /\ UNCHANGED <<up, comp, num_memb, vector_rcvd>>
        /\ syncEnd_rcvd'[s] = num_memb'[s] =>
             syncOn' = [syncOn EXCEPT ![s] = FALSE] /\ pc' = [pc EXCEPT ![s] = AfterSync(s)]
        /\ syncEnd_rcvd'[s] # num_memb'[s] => UNCHANGED <<syncOn, pc>>
    BY DEF RecvSyncEnd, Receives, netVars
  <1>2. /\ pc \in [Server -> {"idle", "sending", "draining"}] /\ syncOn \in [Server -> BOOLEAN]
        /\ \A t \in Server : comp[t] \in SUBSET Server
    BY DEF TypeOK, LoopType, SyncType, NetType
  <1>3. UNCHANGED pc
    <2>1. AfterSync(s) = "idle"
      BY DEF AfterSync, ControlInv, Undisturbed
    <2> QED
      BY <1>1, <1>2, <2>1
  <1>4. Joined(s) /\ syncOn[s] /\ Fresh(s)
    BY <1>1, HeadFresh
  <1>5. /\ \A t \in Server : t # s => syncOn'[t] = syncOn[t]
        /\ syncOn'[s] <=> syncEnd_rcvd'[s] # num_memb[s]
    BY <1>1, <1>2, <1>4
  <1>6. \A t \in Server : Fresh(t)' <=> Fresh(t)
    BY <1>1, ReadInbox
  <1>7. /\ Live(s)' <=> syncEnd_rcvd'[s] = num_memb[s]
        /\ \A t \in Server : t # s => (Live(t)' <=> Live(t))
    BY <1>4, <1>5, <1>6 DEF Live
  <1>8. \A t \in Server : Joined(t)' <=> Joined(t)
    BY <1>1, <1>6 DEF Joined
  <1>9. \A t \in Server : (Started(t)' <=> Started(t)) /\ (Finished(t)' <=> Finished(t))
    BY <1>1, <1>3, <1>8 DEF Started, Finished
  <1>10. \A t \in Server : (AllFinished(t)' <=> AllFinished(t)) /\ FinishedOf(t)' = FinishedOf(t)
    BY <1>1, <1>2, <1>9 DEF AllFinished, FinishedOf
  <1> QED
    BY <1>3, <1>4, <1>5, <1>6, <1>7, <1>8, <1>9, <1>10

\* With the last SyncEnd all members have finished, and only ordinary updates are
\* left to read.
LEMMA LastSyncEnd ==
  ASSUME TypeOK, ControlInv, NEW s \in Server, RecvSyncEnd(s), syncEnd_rcvd'[s] = num_memb[s]
  PROVE  AllFinished(s) /\ OnlyUpdates(Tail(inbox[s]))
PROOF
  <1> DEFINE q == inbox[s]
             E(x) == Positions(x, "SyncEnd")
  <1>1. /\ q # <<>> /\ Head(q).type = "SyncEnd" /\ q \in Seq(Message)
        /\ syncEnd_rcvd' = [syncEnd_rcvd EXCEPT ![s] = @ + 1]
        /\ Fresh(s) /\ Joined(s) /\ syncOn[s]
    BY HeadFresh, CompTypes DEF RecvSyncEnd, Receives, ControlInv
  <1>2. /\ syncEnd_rcvd[s] \in Nat /\ syncEnd_rcvd[s] + 1 = num_memb[s]
        /\ num_memb[s] = Cardinality(comp[s]) /\ IsFiniteSet(comp[s])
    BY <1>1, CompTypes DEF TypeOK, SyncType, ControlInv, CountOK
  <1>3. syncEnd_rcvd[s] + Cardinality(E(q)) = Cardinality(FinishedOf(s))
    BY <1>1 DEF ControlInv, EndsOK
  <1>4. FinishedOf(s) \in SUBSET comp[s]
    BY DEF FinishedOf
  <1>5. Cardinality(FinishedOf(s)) <= Cardinality(comp[s]) /\ Cardinality(FinishedOf(s)) \in Nat
    BY <1>2, <1>4, FS_Subset, FS_CardinalityType
  <1>6. IsFiniteSet(E(q)) /\ Cardinality(E(q)) \in Nat /\ 1 \in E(q)
    <2>1. 1 \in E(q)
      BY <1>1, TailAt DEF Positions
    <2> QED
      BY <1>1, <2>1, PositionsFinite
  <1>7. Cardinality(E(q)) = 1
    <2>1. Cardinality(E(q)) # 0
      BY <1>6, FS_EmptySet
    <2> HIDE DEF E
    <2> QED
      BY <1>2, <1>3, <1>5, <1>6, <2>1
  <1>8. AllFinished(s)
    <2>1. Cardinality(FinishedOf(s)) = Cardinality(comp[s])
      BY <1>2, <1>3, <1>7
    <2>2. FinishedOf(s) = comp[s]
      BY <1>2, <1>4, <2>1, FS_Subset
    <2> QED
      BY <2>2 DEF FinishedOf, AllFinished
  <1>9. Started(s)
    BY <1>8, CompTypes DEF AllFinished, Finished, ControlInv
  <1>10. E(q) = {1}
    <2>1. PICK x : E(q) = {x}
      BY <1>6, <1>7, FS_Singleton
    <2> QED
      BY <1>6, <2>1
  <1>11. ASSUME NEW i \in DOMAIN Tail(q) PROVE Tail(q)[i].type = "Update"
    <2> DEFINE k == i + 1
               m == q[k]
    <2>1. i \in Nat /\ i >= 1 /\ k \in DOMAIN q /\ Tail(q)[i] = m
      BY <1>1, TailAt
    <2>2. k # 1 /\ k > 1 /\ m \in Message
      BY <1>1, <2>1
    <2> HIDE DEF k, m, q
    <2>3. m.type # "Memb"
      BY <1>1, <2>1 DEF Fresh, Waiting, m, q
    <2>4. m.type # "SyncEnd"
      BY <1>10, <2>1, <2>2 DEF m, Positions
    <2>5. m.type # "Vector"
      <3>1. ASSUME m.type = "Vector" PROVE FALSE
        <4>1. k \in Positions(inbox[s], "Vector")
          BY <2>1, <3>1 DEF m, q, Positions
        <4>2. inbox[s][k].server_index \in comp[s] /\ inbox[s][k].server_index \notin DOMAIN summary[s]
          BY <1>1, <4>1 DEF ControlInv, VectorsOK
        <4> QED
          BY <1>9, <4>2, StartedAll
      <3> QED
        BY <3>1
    <2>6. m.type # "SyncUpdate"
      <3>1. ASSUME m.type = "SyncUpdate" PROVE FALSE
        <4>1. k \in Positions(q, "SyncUpdate")
          BY <2>1, <3>1 DEF m, Positions
        <4>2. EndFollows(q)
          BY <1>1, <1>8 DEF ControlInv, AfterEndsOK, q
        <4>3. PICK j \in E(q) : k < j
          BY <4>1, <4>2 DEF EndFollows
        <4> HIDE DEF E
        <4>4. j = 1 /\ k \in Nat
          BY <1>10, <2>1, <4>3 DEF k
        <4> QED
          BY <2>2, <4>3, <4>4
      <3> QED
        BY <3>1
    <2> QED
      BY <2>1, <2>2, <2>3, <2>4, <2>5, <2>6 DEF Message
  <1> QED
    BY <1>8, <1>11 DEF OnlyUpdates

LEMMA RecvEndControl ==
  ASSUME TypeOK, ControlInv, NEW s \in Server, RecvSyncEnd(s)
  PROVE  ControlInv'
PROOF
  <1>1. /\ Components /\ Undisturbed /\ MembOK /\ CountOK /\ LiveOK /\ JobOK /\ RowsOK /\ VectorsOK
        /\ EndsOK /\ AfterEndsOK
    BY DEF ControlInv
  <1>2. /\ inbox[s] # <<>> /\ Head(inbox[s]).type = "SyncEnd" /\ inbox' = Received[s]
        /\ pc[s] = "idle"
        /\ UNCHANGED <<comp, num_memb, vector_rcvd, summary, server_view>>
        /\ UNCHANGED <<queue, up, db, job>>
        /\ syncEnd_rcvd' = [syncEnd_rcvd EXCEPT ![s] = syncEnd_rcvd[s] + 1]
    BY DEF RecvSyncEnd, Receives, netVars, fileVars
  <1>3. /\ Joined(s) /\ syncOn[s] /\ UNCHANGED pc
        /\ Live(s)' <=> syncEnd_rcvd'[s] = num_memb[s]
        /\ \A t \in Server : t # s => (Live(t)' <=> Live(t)) /\ syncOn'[t] = syncOn[t]
        /\ syncOn'[s] <=> syncEnd_rcvd'[s] # num_memb[s]
        /\ \A t \in Server : /\ (Fresh(t)' <=> Fresh(t)) /\ (Joined(t)' <=> Joined(t))
                             /\ (Started(t)' <=> Started(t))
                             /\ (AllFinished(t)' <=> AllFinished(t)) /\ FinishedOf(t)' = FinishedOf(t)
    BY RecvEndPhases
  <1>4. /\ inbox'[s] = Tail(inbox[s]) /\ inbox[s] \in Seq(Message)
        /\ \A t \in Server : t # s => inbox'[t] = inbox[t]
        /\ \A t \in Server : \A i \in DOMAIN inbox'[t] :
             \E j \in DOMAIN inbox[t] : inbox'[t][i] = inbox[t][j]
    BY <1>2, ReadInbox
  <1>5. /\ syncEnd_rcvd \in [Server -> Nat] /\ syncOn \in [Server -> BOOLEAN]
        /\ num_memb \in [Server -> Nat]
        /\ \A t \in Server : comp[t] \in SUBSET Server
    BY DEF TypeOK, SyncType, NetType
  <1>6. \A t \in Server : t # s => syncEnd_rcvd'[t] = syncEnd_rcvd[t]
    BY <1>2, <1>5
  <1>7. Components' /\ Undisturbed' /\ RowsOK'
    BY <1>1, <1>2, <1>3, <1>5 DEF Components, Undisturbed, NoBoardCreated, RowsOK
  <1>8. \A t \in Server : AroundMemb(inbox'[t], comp[t]) /\ OneVectorEach(inbox'[t])
    <2>1. AroundMemb(inbox'[s], comp[s]) /\ OneVectorEach(inbox'[s])
      BY <1>1, <1>2, <1>4, TailKeeps DEF MembOK, VectorsOK
    <2> QED
      BY <1>1, <1>4, <2>1 DEF MembOK, VectorsOK
  <1>9. Fresh(s)
    BY <1>3 DEF Joined
  <1>10. MembOK'
    <2>1. ASSUME NEW t \in Server, ~ Fresh(t)' PROVE ~ syncOn'[t] /\ pc'[t] = "idle"
      BY <1>1, <1>3, <1>9, <2>1 DEF MembOK
    <2> QED
      BY <1>2, <1>8, <2>1 DEF MembOK
  <1>11. CountOK'
    <2>1. \A t \in Server : syncOn'[t] => syncOn[t]
      BY <1>3
    <2> QED
      BY <1>1, <1>2, <1>3, <2>1 DEF CountOK
  <1>12. LiveOK'
    <2>1. ASSUME NEW t \in Server, Live(t)'
          PROVE  (/\ pc[t] = "idle" /\ OnlyUpdates(inbox[t])
                  /\ num_memb[t] > 1 => AllFinished(t))'
      <3>1. CASE t = s
        BY <1>2, <1>3, <1>4, <2>1, <3>1, LastSyncEnd
      <3>2. CASE t # s
        BY <1>1, <1>2, <1>3, <1>4, <2>1, <3>2 DEF LiveOK
      <3> QED
        BY <3>1, <3>2
    <2> QED
      BY <2>1 DEF LiveOK
  <1>13. JobOK'
    <2> SUFFICES ASSUME NEW t \in Server
                 PROVE  (/\ pc[t] = "sending" => Started(t) /\ syncOn[t]
                         /\ job[t] # {} => pc[t] = "sending"
                         /\ \A p \in job[t] : Sender(summary[t], p[1]) = t)'
      BY DEF JobOK
    <2>1. CASE t = s
      BY <1>1, <1>2, <1>3, <2>1 DEF JobOK
    <2>2. CASE t # s
      BY <1>1, <1>2, <1>3, <2>2 DEF JobOK
    <2> QED
      BY <2>1, <2>2
  <1>14. VectorsOK'
    <2>1. ASSUME NEW t \in Server, NEW i \in Positions(inbox'[t], "Vector")
          PROVE  (/\ inbox[t][i].server_index \in comp[t]
                  /\ Joined(inbox[t][i].server_index)
                  /\ Joined(t) => inbox[t][i].server_index \notin DOMAIN summary[t])'
      <3>1. PICK j \in Positions(inbox[t], "Vector") : inbox'[t][i] = inbox[t][j]
        BY <1>4 DEF Positions
      <3>2. PICK o \in Server : /\ o = inbox[t][j].server_index /\ o \in comp[t] /\ Joined(o)
                                /\ Joined(t) => o \notin DOMAIN summary[t]
        BY <1>1, <1>5 DEF VectorsOK
      <3>3. Joined(o)' /\ (Joined(t)' <=> Joined(t))
        BY <1>3, <3>2
      <3> QED
        BY <1>2, <3>1, <3>2, <3>3
    <2> QED
      BY <1>8, <2>1 DEF VectorsOK
  <1>15. EndsOK'
    <2> SUFFICES ASSUME NEW t \in Server, syncOn'[t]
                 PROVE  (/\ syncEnd_rcvd[t] < num_memb[t]
                         /\ syncEnd_rcvd[t] + Cardinality(Positions(inbox[t], "SyncEnd"))
                              = Cardinality(FinishedOf(t)))'
      BY DEF EndsOK
    <2>1. /\ syncOn[t]
          /\ syncEnd_rcvd[t] < num_memb[t] /\ syncEnd_rcvd[t] \in Nat /\ num_memb[t] \in Nat
          /\ syncEnd_rcvd[t] + Cardinality(Positions(inbox[t], "SyncEnd")) = Cardinality(FinishedOf(t))
      BY <1>1, <1>3, <1>5 DEF EndsOK
    <2>2. CASE t = s
      <3>1. Cardinality(Positions(inbox'[s], "SyncEnd")) = Cardinality(Positions(inbox[s], "SyncEnd")) - 1
        BY <1>2, <1>4, TailCount
      <3>2. syncEnd_rcvd'[s] = syncEnd_rcvd[s] + 1 /\ syncEnd_rcvd'[s] # num_memb[s]
        BY <1>2, <1>3, <1>5, <2>2
      <3>3. Cardinality(Positions(inbox[s], "SyncEnd")) \in Nat
        BY <1>4, PositionsFinite
      <3>4. syncEnd_rcvd'[s] + Cardinality(Positions(inbox'[s], "SyncEnd")) = Cardinality(FinishedOf(s))
        BY <2>1, <2>2, <3>1, <3>2, <3>3
      <3> QED
        BY <1>2, <1>3, <2>1, <2>2, <3>2, <3>4
    <2>3. CASE t # s
      BY <1>2, <1>3, <1>4, <1>6, <2>1, <2>3
    <2> QED
      BY <2>2, <2>3
  <1>16. AfterEndsOK'
    <2>1. \A t \in Server : (Live(t) => Live(t)') /\ (syncOn'[t] => syncOn[t])
      BY <1>3 DEF Live
    <2> QED
      BY <1>1, <1>2, <1>3, <2>1, AfterEndsRead
  <1> QED
    BY <1>7, <1>10, <1>11, <1>12, <1>13, <1>14, <1>15, <1>16 DEF ControlInv

--------------------------------------------------------------------------------
(* The network is split or merged *)

MembOf(t) == [type |-> "Memb", members |-> comp'[t]]

\* The servers of set A, whole components before and after, have settled or are new, and
\* have a membership to read or are gone.  The others notice nothing.
Untouched(t) ==
  /\ inbox'[t] = inbox[t] /\ comp'[t] = comp[t] /\ (Gone(t)' <=> Gone(t))
  /\ syncOn'[t] = syncOn[t] /\ vector_rcvd'[t] = vector_rcvd[t] /\ syncEnd_rcvd'[t] = syncEnd_rcvd[t]
  /\ num_memb'[t] = num_memb[t] /\ summary'[t] = summary[t] /\ server_view'[t] = server_view[t]
  /\ pc'[t] = pc[t] /\ job'[t] = job[t] /\ queue'[t] = queue[t]
Repartitioned(A) ==
  /\ UNCHANGED <<clockVars, fileVars, served>>
  /\ \A t \in Server : t \in A =>
       /\ pc'[t] = "idle" /\ ~ syncOn'[t] /\ queue'[t] = <<>> /\ job'[t] = {}
       /\ ~ Fresh(t)'
       /\ \E q \in {inbox[t], <<>>} : OnlyUpdates(q) /\ inbox'[t] \in {q, Append(q, MembOf(t))}
       /\ comp'[t] \in SUBSET Server /\ t \in comp'[t]
       /\ \A r \in comp'[t] : r \in A /\ comp'[r] = comp'[t]
  /\ \A t \in Server : t \notin A => Untouched(t) /\ \A r \in comp[t] : r \notin A

\* A settled server has nothing to send and nothing buffered.
LEMMA SettledRests ==
  ASSUME TypeOK, ControlInv, NEW s \in Server, Settled(s), NEW t \in comp[s]
  PROVE  /\ t \in Server /\ pc[t] = "idle" /\ ~ syncOn[t] /\ queue[t] = <<>> /\ job[t] = {}
         /\ OnlyUpdates(inbox[t])
PROOF
  <1>1. t \in Server
    BY DEF TypeOK, NetType
  <1>2. pc[t] = "idle" /\ ~ syncOn[t] /\ OnlyUpdates(inbox[t])
    BY DEF Settled, OnlyUpdates
  <1>3. queue[t] = <<>> /\ job[t] = {}
    BY <1>1, <1>2 DEF ControlInv, Undisturbed, JobOK
  <1> QED
    BY <1>1, <1>2, <1>3

\* Who has a membership to read is in no synchronisation.
LEMMA MembWaits ==
  ASSUME NEW t, NEW q \in Seq(Message), MembOf(t) \in Message, inbox'[t] = Append(q, MembOf(t))
  PROVE  ~ Fresh(t)'
PROOF
  <1>1. Len(q) + 1 \in DOMAIN inbox'[t] /\ inbox'[t][Len(q) + 1] = MembOf(t)
    BY AppendAt
  <1> QED
    BY <1>1 DEF Fresh, Waiting, MembOf

LEMMA SplitShape ==
  ASSUME TypeOK, ControlInv, NEW s \in Server, Settled(s), NEW D \in SUBSET comp[s], Split(s, D)
  PROVE  Repartitioned(comp[s])
PROOF
  <1>1. /\ comp \in [Server -> SUBSET Server] /\ inbox \in [Server -> Seq(Message)]
        /\ \A t \in Server : t \in comp[t] /\ \A r \in comp[t] : r \in Server /\ comp[r] = comp[t]
    BY DEF TypeOK, NetType, ControlInv, Components
  <1>2. /\ comp' = [t \in Server |-> IF t \in D THEN D
                                     ELSE IF t \in comp[s] THEN comp[s] \ D ELSE comp[t]]
        /\ Announce({comp[s]})
        /\ UNCHANGED <<clockVars, fileVars, syncVars, loopVars, up, clientVars>>
    BY DEF Split, NetworkChange
  <1>3. \A t \in Server : inbox'[t] = IF t \in comp[s] THEN Append(inbox[t], MembOf(t)) ELSE inbox[t]
    BY <1>2 DEF Announce, MembOf
  <1>4. UNCHANGED <<syncOn, vector_rcvd, syncEnd_rcvd, num_memb, summary, server_view>>
        /\ UNCHANGED <<pc, job, queue, up, served>>
    BY <1>2 DEF syncVars, loopVars, clientVars
  <1>5. ASSUME NEW t \in Server, t \in comp[s]
        PROVE  /\ comp'[t] \in SUBSET Server /\ t \in comp'[t]
               /\ \A r \in comp'[t] : r \in comp[s] /\ comp'[r] = comp'[t]
    BY <1>1, <1>2, <1>5
  <1>6. ASSUME NEW t \in Server, t \in comp[s]
        PROVE  /\ pc'[t] = "idle" /\ ~ syncOn'[t] /\ queue'[t] = <<>> /\ job'[t] = {}
               /\ OnlyUpdates(inbox[t]) /\ inbox'[t] = Append(inbox[t], MembOf(t)) /\ ~ Fresh(t)'
    <2>1. MembOf(t) \in Message
      BY <1>5, <1>6, NewMessages DEF MembOf
    <2>2. inbox'[t] = Append(inbox[t], MembOf(t)) /\ inbox[t] \in Seq(Message)
      BY <1>1, <1>3, <1>6
    <2> QED
      BY <1>4, <1>6, <2>1, <2>2, SettledRests, MembWaits
  <1>7. ASSUME NEW t \in Server, t \notin comp[s]
        PROVE  Untouched(t) /\ \A r \in comp[t] : r \notin comp[s]
    <2>1. comp'[t] = comp[t] /\ inbox'[t] = inbox[t] /\ \A r \in comp[t] : r \notin comp[s]
      BY <1>1, <1>2, <1>3, <1>7
    <2> QED
      BY <1>4, <2>1 DEF Untouched, Gone
  <1> QED
    BY <1>2, <1>4, <1>5, <1>6, <1>7 DEF Repartitioned

LEMMA MergeShape ==
  ASSUME TypeOK, ControlInv, NEW s \in Server, NEW r \in Server, Settled(s), Settled(r), Merge(s, r)
  PROVE  Repartitioned(comp[s] \cup comp[r])
PROOF
  <1> DEFINE A == comp[s] \cup comp[r]
  <1>1. /\ comp \in [Server -> SUBSET Server] /\ inbox \in [Server -> Seq(Message)]
        /\ \A t \in Server : t \in comp[t] /\ \A o \in comp[t] : o \in Server /\ comp[o] = comp[t]
    BY DEF TypeOK, NetType, ControlInv, Components
  <1>2. /\ comp' = [t \in Server |-> IF t \in A THEN A ELSE comp[t]]
        /\ Announce({comp[s], comp[r]})
        /\ UNCHANGED <<clockVars, fileVars, syncVars, loopVars, up, clientVars>>
    BY DEF Merge, NetworkChange
  <1>3. \A t \in Server : inbox'[t] = IF t \in A THEN Append(inbox[t], MembOf(t)) ELSE inbox[t]
    BY <1>2 DEF Announce, MembOf
  <1>4. UNCHANGED <<syncOn, vector_rcvd, syncEnd_rcvd, num_memb, summary, server_view>>
        /\ UNCHANGED <<pc, job, queue, up, served>>
    BY <1>2 DEF syncVars, loopVars, clientVars
  <1>5. ASSUME NEW t \in Server, t \in A
        PROVE  /\ comp'[t] \in SUBSET Server /\ t \in comp'[t]
               /\ \A o \in comp'[t] : o \in A /\ comp'[o] = comp'[t]
    BY <1>1, <1>2, <1>5
  <1>6. ASSUME NEW t \in Server, t \in A
        PROVE  /\ pc'[t] = "idle" /\ ~ syncOn'[t] /\ queue'[t] = <<>> /\ job'[t] = {}
               /\ OnlyUpdates(inbox[t]) /\ inbox'[t] = Append(inbox[t], MembOf(t)) /\ ~ Fresh(t)'
    <2>1. MembOf(t) \in Message
      BY <1>5, <1>6, NewMessages DEF MembOf
    <2>2. inbox'[t] = Append(inbox[t], MembOf(t)) /\ inbox[t] \in Seq(Message)
      BY <1>1, <1>3, <1>6
    <2> QED
      BY <1>4, <1>6, <2>1, <2>2, SettledRests, MembWaits
  <1>7. ASSUME NEW t \in Server, t \notin A
        PROVE  Untouched(t) /\ \A o \in comp[t] : o \notin A
    <2>1. comp'[t] = comp[t] /\ inbox'[t] = inbox[t] /\ \A o \in comp[t] : o \notin A
      BY <1>1, <1>2, <1>3, <1>7
    <2> QED
      BY <1>4, <2>1 DEF Untouched, Gone
  <1> QED
    BY <1>2, <1>4, <1>5, <1>6, <1>7 DEF Repartitioned

LEMMA PartitionShape ==
  ASSUME TypeOK, ControlInv, Partitioning
  PROVE  \E A \in SUBSET Server : Repartitioned(A)
PROOF
  <1>1. \A s \in Server : comp[s] \in SUBSET Server
    BY DEF TypeOK, NetType
  <1>2. PICK s \in Server : /\ Settled(s)
                            /\ \/ \E D \in SUBSET comp[s] : Split(s, D)
                               \/ \E r \in Server : Settled(r) /\ Merge(s, r)
    BY DEF Partitioning
  <1>3. CASE \E D \in SUBSET comp[s] : Split(s, D)
    BY <1>1, <1>2, <1>3, SplitShape
  <1>4. CASE \E r \in Server : Settled(r) /\ Merge(s, r)
    <2>1. PICK r \in Server : Settled(r) /\ Merge(s, r)
      BY <1>4
    <2>2. Repartitioned(comp[s] \cup comp[r])
      BY <1>2, <2>1, MergeShape
    <2> QED
      BY <1>1, <2>2
  <1> QED
    BY <1>2, <1>3, <1>4

LEMMA PartitionMessages ==
  ASSUME TypeOK, NEW A \in SUBSET Server, Repartitioned(A)
  PROVE  /\ \A t \in Server : inbox[t] \in Seq(Message) /\ comp[t] \in SUBSET Server
         /\ \A t \in A : MembOf(t) \in Message /\ MembOf(t).type = "Memb" /\ MembOf(t).members = comp'[t]
         /\ \A t \in A : \A i \in DOMAIN inbox'[t] :
              \/ inbox'[t][i] = MembOf(t)
              \/ i \in DOMAIN inbox[t] /\ inbox'[t][i] = inbox[t][i] /\ inbox[t][i].type = "Update"
PROOF
  <1>1. \A t \in Server : inbox[t] \in Seq(Message) /\ comp[t] \in SUBSET Server
    BY DEF TypeOK, NetType
  <1>2. \A t \in A : MembOf(t) \in Message /\ MembOf(t).type = "Memb" /\ MembOf(t).members = comp'[t]
    BY NewMessages DEF Repartitioned, MembOf
  <1>3. ASSUME NEW t \in A, NEW i \in DOMAIN inbox'[t]
        PROVE  \/ inbox'[t][i] = MembOf(t)
               \/ i \in DOMAIN inbox[t] /\ inbox'[t][i] = inbox[t][i] /\ inbox[t][i].type = "Update"
    <2>1. PICK q \in {inbox[t], <<>>} : OnlyUpdates(q) /\ inbox'[t] \in {q, Append(q, MembOf(t))}
      BY DEF Repartitioned
    <2>2. q \in Seq(Message) /\ MembOf(t) \in Message
      <3>1. t \in Server /\ <<>> \in Seq(Message)
        OBVIOUS
      <3> QED
        BY <1>1, <1>2, <2>1, <3>1
    <2>3. \/ inbox'[t][i] = MembOf(t)
          \/ i \in DOMAIN q /\ inbox'[t][i] = q[i]
      BY <1>3, <2>1, <2>2, AppendAt
    <2>4. i \in DOMAIN q => q = inbox[t] /\ q[i].type = "Update"
      BY <2>1 DEF OnlyUpdates
    <2> QED
      BY <2>3, <2>4
  <1> QED
    BY <1>1, <1>2, <1>3

LEMMA PartitionPhases ==
  ASSUME TypeOK, NEW A \in SUBSET Server, Repartitioned(A)
  PROVE  /\ \A t \in A : ~ Fresh(t)'
         /\ \A t \in Server : t \notin A =>
              /\ (Fresh(t)' <=> Fresh(t)) /\ (Joined(t)' <=> Joined(t))
              /\ (Started(t)' <=> Started(t)) /\ (Finished(t)' <=> Finished(t))
              /\ (Live(t)' <=> Live(t))
              /\ (AllFinished(t)' <=> AllFinished(t)) /\ FinishedOf(t)' = FinishedOf(t)
PROOF
  <1>0. \A t \in Server : t \notin A =>
          /\ inbox'[t] = inbox[t] /\ comp'[t] = comp[t] /\ (Gone(t)' <=> Gone(t))
          /\ syncOn'[t] = syncOn[t] /\ num_memb'[t] = num_memb[t]
          /\ vector_rcvd'[t] = vector_rcvd[t] /\ pc'[t] = pc[t]
          /\ \A r \in comp[t] : r \notin A
    BY DEF Repartitioned, Untouched
  <1>1. \A t \in A : ~ Fresh(t)'
    BY DEF Repartitioned
  <1>2. \A t \in Server : t \notin A => (Fresh(t)' <=> Fresh(t))
    BY <1>0 DEF Fresh, Waiting
  <1>3. \A t \in Server : t \notin A => (Joined(t)' <=> Joined(t)) /\ (Live(t)' <=> Live(t))
    BY <1>0, <1>2 DEF Joined, Live
  <1>4. \A t \in Server : t \notin A => (Started(t)' <=> Started(t)) /\ (Finished(t)' <=> Finished(t))
    BY <1>0, <1>3 DEF Started, Finished
  <1>5. \A t \in Server : comp[t] \in SUBSET Server
    BY DEF TypeOK, NetType
  <1>6. \A t \in Server : t \notin A =>
          (AllFinished(t)' <=> AllFinished(t)) /\ FinishedOf(t)' = FinishedOf(t)
    BY <1>0, <1>4, <1>5 DEF AllFinished, FinishedOf
  <1> QED
    BY <1>1, <1>2, <1>3, <1>4, <1>6

LEMMA PartitionControl ==
  ASSUME TypeOK, ControlInv, NEW A \in SUBSET Server, Repartitioned(A)
  PROVE  ControlInv'
PROOF
  <1>1. /\ Components /\ Undisturbed /\ MembOK /\ CountOK /\ LiveOK /\ JobOK /\ RowsOK /\ VectorsOK
        /\ EndsOK /\ AfterEndsOK
    BY DEF ControlInv
  <1>2. /\ UNCHANGED db
        /\ \A t \in Server : t \in A =>
             /\ pc'[t] = "idle" /\ ~ syncOn'[t] /\ queue'[t] = <<>> /\ job'[t] = {}
             /\ comp'[t] \in SUBSET Server /\ t \in comp'[t]
             /\ \A r \in comp'[t] : r \in A /\ comp'[r] = comp'[t]
    BY DEF Repartitioned, fileVars
  <1>3. \A t \in Server : t \notin A =>
          /\ inbox'[t] = inbox[t] /\ comp'[t] = comp[t]
          /\ syncOn'[t] = syncOn[t] /\ vector_rcvd'[t] = vector_rcvd[t]
          /\ syncEnd_rcvd'[t] = syncEnd_rcvd[t] /\ num_memb'[t] = num_memb[t]
          /\ summary'[t] = summary[t] /\ server_view'[t] = server_view[t]
          /\ pc'[t] = pc[t] /\ job'[t] = job[t] /\ queue'[t] = queue[t]
          /\ \A r \in comp[t] : r \notin A
    BY DEF Repartitioned, Untouched
  <1>4. /\ \A t \in Server : inbox[t] \in Seq(Message) /\ comp[t] \in SUBSET Server
        /\ \A t \in A : \A i \in DOMAIN inbox'[t] : inbox'[t][i].type \in {"Update", "Memb"}
    BY PartitionMessages
  <1>5. /\ \A t \in A : ~ Fresh(t)'
        /\ \A t \in Server : t \notin A =>
             /\ (Fresh(t)' <=> Fresh(t)) /\ (Joined(t)' <=> Joined(t))
             /\ (Started(t)' <=> Started(t)) /\ (Live(t)' <=> Live(t))
             /\ (AllFinished(t)' <=> AllFinished(t)) /\ FinishedOf(t)' = FinishedOf(t)
    BY PartitionPhases
  <1>6. Components'
    <2> SUFFICES ASSUME NEW t \in Server PROVE t \in comp'[t] /\ \A r \in comp'[t] : comp'[r] = comp'[t]
      BY DEF Components
    <2>1. CASE t \in A
      BY <1>2, <2>1
    <2>2. CASE t \notin A
      BY <1>1, <1>3, <1>4, <2>2 DEF Components
    <2> QED
      BY <2>1, <2>2
  <1>7. Undisturbed'
    <2>1. \A t \in Server : queue'[t] = <<>> /\ pc'[t] \in {"idle", "sending"}
      BY <1>1, <1>2, <1>3 DEF Undisturbed
    <2> QED
      BY <1>1, <1>2, <2>1 DEF Undisturbed, NoBoardCreated
  <1>8. MembOK'
    <2> SUFFICES ASSUME NEW t \in Server
                 PROVE  (/\ AroundMemb(inbox[t], comp[t])
                         /\ ~ Fresh(t) => ~ syncOn[t] /\ pc[t] = "idle")'
      BY DEF MembOK
    <2>1. CASE t \in A
      <3>1. PICK q \in {inbox[t], <<>>} : OnlyUpdates(q) /\ inbox'[t] \in {q, Append(q, MembOf(t))}
        BY <2>1 DEF Repartitioned
      <3>2. /\ q \in Seq(Message) /\ MembOf(t) \in Message /\ MembOf(t).type = "Memb"
            /\ MembOf(t).members = comp'[t]
        <4>1. <<>> \in Seq(Message)
          OBVIOUS
        <4>2. inbox[t] \in Seq(Message)
          BY PartitionMessages
        <4>3. q \in Seq(Message)
          BY <3>1, <4>1, <4>2
        <4>4. MembOf(t) \in Message /\ MembOf(t).type = "Memb" /\ MembOf(t).members = comp'[t]
          BY <2>1, PartitionMessages
        <4> QED
          BY <4>3, <4>4
      <3>3. AroundMemb(Append(q, MembOf(t)), comp'[t])
        BY <3>1, <3>2, AppendKeeps
      <3>4. AroundMemb(q, comp'[t])
        BY <3>1 DEF AroundMemb, OnlyUpdates, Positions
      <3>5. AroundMemb(inbox'[t], comp'[t])
        BY <3>1, <3>3, <3>4
      <3> QED
        BY <1>2, <2>1, <3>5
    <2>2. CASE t \notin A
      BY <1>1, <1>3, <1>5, <2>2 DEF MembOK
    <2> QED
      BY <2>1, <2>2
  <1>9. CountOK'
    <2> SUFFICES ASSUME NEW t \in Server
                 PROVE  (/\ Fresh(t) => num_memb[t] = Cardinality(comp[t])
                         /\ syncOn[t] => num_memb[t] > 1)'
      BY DEF CountOK
    <2>1. CASE t \in A
      BY <1>2, <1>5, <2>1
    <2>2. CASE t \notin A
      BY <1>1, <1>3, <1>5, <2>2 DEF CountOK
    <2> QED
      BY <2>1, <2>2
  <1>10. LiveOK'
    <2>1. ASSUME NEW t \in Server, Live(t)'
          PROVE  (/\ pc[t] = "idle" /\ OnlyUpdates(inbox[t])
                  /\ num_memb[t] > 1 => AllFinished(t))'
      <3>1. t \notin A
        BY <1>5, <2>1 DEF Live
      <3> QED
        BY <1>1, <1>3, <1>5, <2>1, <3>1 DEF LiveOK
    <2> QED
      BY <2>1 DEF LiveOK
  <1>11. JobOK'
    <2> SUFFICES ASSUME NEW t \in Server
                 PROVE  (/\ pc[t] = "sending" => Started(t) /\ syncOn[t]
                         /\ job[t] # {} => pc[t] = "sending"
                         /\ \A p \in job[t] : Sender(summary[t], p[1]) = t)'
      BY DEF JobOK
    <2>1. CASE t \in A
      BY <1>2, <2>1
    <2>2. CASE t \notin A
      BY <1>1, <1>3, <1>5, <2>2 DEF JobOK
    <2> QED
      BY <2>1, <2>2
  <1>12. RowsOK'
    <2> SUFFICES ASSUME NEW t \in Server, Joined(t)'
                 PROVE  (/\ vector_rcvd[t] = Cardinality(DOMAIN summary[t])
                         /\ server_view[t] = DOMAIN summary[t]
                         /\ \A r \in DOMAIN summary[t] : r \in comp[t] /\ Joined(r))'
      BY DEF RowsOK
    <2>1. t \notin A /\ Joined(t)
      BY <1>5 DEF Joined
    <2>2. /\ vector_rcvd[t] = Cardinality(DOMAIN summary[t]) /\ server_view[t] = DOMAIN summary[t]
          /\ \A r \in DOMAIN summary[t] : r \in comp[t] /\ Joined(r)
      BY <1>1, <2>1 DEF RowsOK
    <2>3. \A r \in DOMAIN summary[t] : Joined(r)'
      BY <1>3, <1>4, <1>5, <2>1, <2>2
    <2> QED
      BY <1>3, <2>1, <2>2, <2>3
  <1>13. VectorsOK'
    <2>1. ASSUME NEW t \in Server PROVE OneVectorEach(inbox'[t])
      <3>1. CASE t \in A
        BY <1>4, <3>1 DEF OneVectorEach, Positions
      <3>2. CASE t \notin A
        BY <1>1, <1>3, <3>2 DEF VectorsOK
      <3> QED
        BY <3>1, <3>2
    <2>2. ASSUME NEW t \in Server, NEW i \in Positions(inbox'[t], "Vector")
          PROVE  (/\ inbox[t][i].server_index \in comp[t]
                  /\ Joined(inbox[t][i].server_index)
                  /\ Joined(t) => inbox[t][i].server_index \notin DOMAIN summary[t])'
      <3>1. t \notin A
        BY <1>4 DEF Positions
      <3>2. i \in Positions(inbox[t], "Vector") /\ inbox'[t] = inbox[t]
        BY <1>3, <3>1
      <3>3. PICK o \in Server : /\ o = inbox[t][i].server_index /\ o \in comp[t] /\ Joined(o)
                                /\ Joined(t) => o \notin DOMAIN summary[t]
        BY <1>1, <1>4, <3>2 DEF VectorsOK
      <3>4. Joined(o)' /\ (Joined(t)' <=> Joined(t)) /\ comp'[t] = comp[t]
        BY <1>3, <1>5, <3>1, <3>3
      <3> QED
        BY <1>3, <3>1, <3>2, <3>3, <3>4
    <2> QED
      BY <2>1, <2>2 DEF VectorsOK
  <1>14. EndsOK'
    BY <1>1, <1>2, <1>3, <1>5 DEF EndsOK
  <1>15. AfterEndsOK'
    <2> SUFFICES ASSUME NEW t \in Server, syncOn'[t]
                 PROVE  (/\ UpdatesLast(inbox[t])
                         /\ \A i \in Positions(inbox[t], "Update") :
                              /\ AllFinished(t)
                              /\ inbox[t][i].update.server_id \in comp[t]
                              /\ Live(inbox[t][i].update.server_id)
                         /\ AllFinished(t) => EndFollows(inbox[t]))'
      BY DEF AfterEndsOK
    <2>1. t \notin A /\ syncOn[t] /\ inbox'[t] = inbox[t] /\ comp'[t] = comp[t]
      BY <1>2, <1>3
    <2>2. /\ UpdatesLast(inbox[t]) /\ (AllFinished(t) => EndFollows(inbox[t]))
          /\ \A i \in Positions(inbox[t], "Update") :
               /\ AllFinished(t)
               /\ inbox[t][i].update.server_id \in comp[t]
               /\ Live(inbox[t][i].update.server_id)
      BY <1>1, <2>1 DEF AfterEndsOK
    <2>3. ASSUME NEW i \in Positions(inbox'[t], "Update")
          PROVE  (/\ AllFinished(t)
                  /\ inbox[t][i].update.server_id \in comp[t]
                  /\ Live(inbox[t][i].update.server_id))'
      <3>1. PICK o \in Server : /\ o = inbox[t][i].update.server_id
                                /\ AllFinished(t) /\ o \in comp[t] /\ Live(o)
        BY <1>4, <2>1, <2>2
      <3>2. Live(o)' /\ AllFinished(t)'
        BY <1>3, <1>5, <2>1, <3>1
      <3> QED
        BY <2>1, <3>1, <3>2
    <2> QED
      BY <1>5, <2>1, <2>2, <2>3
  <1> QED
    BY <1>6, <1>7, <1>8, <1>9, <1>10, <1>11, <1>12, <1>13, <1>14, <1>15 DEF ControlInv

--------------------------------------------------------------------------------
(* The control invariant *)

LEMMA ControlInit == Init => ControlInv
PROOF
  <1> SUFFICES ASSUME Init PROVE ControlInv
    OBVIOUS
  <1>1. /\ \A s \in Server : /\ comp[s] = {s} /\ up[s] /\ queue[s] = <<>> /\ pc[s] = "idle"
                             /\ DOMAIN db[s] = InitialBoards /\ inbox[s] = <<>> /\ ~ syncOn[s]
                             /\ num_memb[s] = 1 /\ job[s] = {}
    BY DEF Init
  <1>2. \A s \in Server : DOMAIN inbox[s] = {}
    BY <1>1
  <1>3. \A s \in Server : ~ Joined(s)
    BY <1>1 DEF Joined
  <1>4. \A s \in Server : Cardinality(comp[s]) = 1
    BY <1>1, FS_Singleton
  <1>5. Components /\ Undisturbed
    BY <1>1 DEF Components, Undisturbed, NoBoardCreated
  <1>6. MembOK /\ CountOK
    <2>1. \A s \in Server : AroundMemb(inbox[s], comp[s]) /\ Fresh(s)
      BY <1>1, <1>2 DEF AroundMemb, Positions, Fresh, Gone, Waiting
    <2> QED
      BY <1>1, <1>4, <2>1 DEF MembOK, CountOK
  <1>7. LiveOK /\ JobOK
    BY <1>1, <1>2 DEF LiveOK, JobOK, OnlyUpdates
  <1>8. RowsOK /\ VectorsOK
    BY <1>2, <1>3 DEF RowsOK, VectorsOK, OneVectorEach, Positions
  <1>9. EndsOK /\ AfterEndsOK
    BY <1>1 DEF EndsOK, AfterEndsOK
  <1> QED
    BY <1>5, <1>6, <1>7, <1>8, <1>9 DEF ControlInv

LEMMA CalmIsNext ==
  ASSUME TypeOK, [CalmNext]_vars
  PROVE  [Next]_vars
PROOF
  <1>1. CASE \E s \in Server : ServerStep(s) /\ DistinctMaxima(s)
    BY <1>1 DEF Next
  <1>2. CASE Requesting
    BY <1>2 DEF Requesting, Next
  <1>3. CASE Partitioning
    <2>1. \A t \in Server : comp[t] \in SUBSET Server
      BY DEF TypeOK, NetType
    <2>2. PICK t \in Server : \/ \E D \in SUBSET comp[t] : Split(t, D)
                              \/ \E r \in Server : Merge(t, r)
      BY <1>3 DEF Partitioning
    <2> QED
      BY <2>1, <2>2 DEF Next
  <1> QED
    BY <1>1, <1>2, <1>3 DEF CalmNext

LEMMA ControlStep ==
  ASSUME TypeInv, ControlInv, ObjectsOnly, NoBoardCreated', [CalmNext]_vars
  PROVE  ControlInv'
PROOF
  <1>0. TypeOK
    BY DEF TypeInv
  <1>1. ASSUME NEW s \in Server, ServerStep(s) PROVE ControlInv'
    <2>1. CASE RecvUpdate(s) \/ RecvSyncUpdate(s)
      BY <2>1, ReadControl
    <2>2. CASE RecvMembership(s)
      BY <1>0, <2>2, MembControl
    <2>3. CASE RecvVector(s)
      BY <1>0, <2>3, VectorControl
    <2>4. CASE RecvSyncEnd(s)
      BY <1>0, <2>4, RecvEndControl
    <2>5. CASE SendUpdate(s)
      BY <2>5, SendUpdateControl
    <2>6. CASE SendSyncEnd(s)
      BY <1>0, <2>6, SendEndControl
    <2>7. CASE Drain(s)
      BY <2>7 DEF Drain, ControlInv, Undisturbed
    <2> QED
      BY <1>1, <2>1, <2>2, <2>3, <2>4, <2>5, <2>6, <2>7 DEF ServerStep
  <1>2. CASE Requesting
    BY <1>2, RequestControl DEF Requesting
  <1>3. CASE Partitioning
    BY <1>0, <1>3, PartitionShape, PartitionControl
  <1>4. CASE UNCHANGED vars
    BY <1>4, ControlStutters DEF vars, fileVars, syncVars, loopVars, netVars
  <1> QED
    BY <1>1, <1>2, <1>3, <1>4 DEF CalmNext

--------------------------------------------------------------------------------
(* The matrix of vectors, without the calm conditions: under any requests, partitions
   and exits no row is read that has not come in.  A server that is alone marks itself
   in its view without a row, so the proof is about where its own membership stands
   among the messages: no vector of another server comes before a membership of
   several has been read. *)

\* The last membership that is read before position i names several servers: the
\* last of those that wait, or the one read last.
MembBefore(q, i) == {j \in Positions(q, "Memb") : j < i}
LastOf(S) == {j \in S : \A k \in S : k <= j}
Grouped(q, n, i) ==
  /\ MembBefore(q, i) = {} => n > 1
  /\ \A j \in LastOf(MembBefore(q, i)) : Cardinality(q[j].members) > 1

\* The messages q of server s, that read a membership of n last and is in component C:
\* the last membership is of C, and vectors of others follow a membership of several.
Consistent(s, q, n, C) ==
  /\ Positions(q, "Memb") = {} => n = Cardinality(C)
  /\ \A j \in LastOf(Positions(q, "Memb")) : q[j].members = C
  /\ \A i \in Positions(q, "Vector") : q[i].server_index = s \/ Grouped(q, n, i)

RowsFilled(s) ==
  /\ server_view[s] \subseteq DOMAIN summary[s] \cup {s}
  /\ num_memb[s] > 1 => server_view[s] \subseteq DOMAIN summary[s]

MatrixInv ==
  /\ Components
  /\ \A s \in Server : up[s] => Consistent(s, inbox[s], num_memb[s], comp[s])
  /\ \A s \in Server : RowsFilled(s)

--------------------------------------------------------------------------------
(* How an inbox changes *)

\* A message other than a membership arrives: a vector of another server only if there
\* are several in the component.
LEMMA ArrivedConsistent ==
  ASSUME NEW q \in Seq(Message), NEW m \in Message, NEW s, NEW n, NEW C,
         Consistent(s, q, n, C), m.type # "Memb",
         m.type = "Vector" => m.server_index = s \/ Cardinality(C) > 1
  PROVE  Consistent(s, Append(q, m), n, C)
PROOF
  <1> DEFINE r == Append(q, m)
  <1>1. /\ \A i \in DOMAIN q : i \in Nat /\ i < Len(q) + 1 /\ i \in DOMAIN r /\ r[i] = q[i]
        /\ r[Len(q) + 1] = m /\ \A i \in DOMAIN r : i \in DOMAIN q \/ i = Len(q) + 1
    BY AppendAt
  <1> HIDE DEF r
  <1>2. Positions(r, "Memb") = Positions(q, "Memb")
    BY <1>1 DEF Positions
  <1>3. \A i \in DOMAIN q : MembBefore(r, i) = MembBefore(q, i)
    BY <1>2 DEF MembBefore
  <1>4. MembBefore(r, Len(q) + 1) = Positions(q, "Memb")
    BY <1>1, <1>2 DEF MembBefore, Positions
  <1>5. \A j \in Positions(q, "Memb") : r[j] = q[j]
    BY <1>1 DEF Positions
  <1>6. ASSUME NEW i \in Positions(r, "Vector") PROVE r[i].server_index = s \/ Grouped(r, n, i)
    <2>1. CASE i \in DOMAIN q
      <3>1. i \in Positions(q, "Vector") /\ r[i] = q[i]
        BY <1>1, <1>6, <2>1 DEF Positions
      <3>2. Grouped(q, n, i) => Grouped(r, n, i)
        BY <1>3, <1>5, <2>1 DEF Grouped, LastOf, MembBefore
      <3> QED
        BY <3>1, <3>2 DEF Consistent
    <2>2. CASE i = Len(q) + 1
      <3>1. m.type = "Vector"
        BY <1>1, <1>6, <2>2 DEF Positions
      <3>2. Cardinality(C) > 1 => Grouped(r, n, i)
        BY <1>4, <1>5, <2>2 DEF Grouped, LastOf, Consistent
      <3> QED
        BY <1>1, <2>2, <3>1, <3>2
    <2> QED
      BY <1>1, <1>6, <2>1, <2>2 DEF Positions
  <1>7. /\ Positions(r, "Memb") = {} => n = Cardinality(C)
        /\ \A j \in LastOf(Positions(r, "Memb")) : r[j].members = C
    BY <1>2, <1>5 DEF Consistent, LastOf
  <1> QED
    BY <1>6, <1>7 DEF Consistent, r

\* A membership arrives: it is the last one, whatever the component was before.
LEMMA AnnouncedConsistent ==
  ASSUME NEW q \in Seq(Message), NEW m \in Message, NEW s, NEW n, NEW C, NEW D,
         Consistent(s, q, n, C), m.type = "Memb", m.members = D
  PROVE  Consistent(s, Append(q, m), n, D)
PROOF
  <1> DEFINE r == Append(q, m)
             l == Len(q) + 1
  <1>1. /\ \A i \in DOMAIN q : i \in Nat /\ i < l /\ i \in DOMAIN r /\ r[i] = q[i]
        /\ l \in DOMAIN r /\ r[l] = m /\ \A i \in DOMAIN r : i \in DOMAIN q \/ i = l
        /\ l \in Nat
    BY AppendAt
  <1> HIDE DEF r, l
  <1>2. Positions(r, "Memb") = Positions(q, "Memb") \cup {l}
    BY <1>1 DEF Positions
  <1>3. LastOf(Positions(r, "Memb")) \subseteq {l}
    BY <1>1, <1>2 DEF LastOf, Positions
  <1>4. \A i \in DOMAIN q : MembBefore(r, i) = MembBefore(q, i)
    BY <1>1, <1>2 DEF MembBefore
  <1>5. ASSUME NEW i \in Positions(r, "Vector") PROVE r[i].server_index = s \/ Grouped(r, n, i)
    <2>1. i \in Positions(q, "Vector") /\ r[i] = q[i] /\ i \in DOMAIN q
      BY <1>1, <1>5 DEF Positions
    <2>2. \A j \in MembBefore(q, i) : r[j] = q[j]
      BY <1>1 DEF MembBefore, Positions
    <2>3. Grouped(q, n, i) => Grouped(r, n, i)
      BY <1>4, <2>1, <2>2 DEF Grouped, LastOf
    <2> QED
      BY <2>1, <2>3 DEF Consistent
  <1>6. Positions(r, "Memb") # {} /\ \A j \in LastOf(Positions(r, "Memb")) : r[j].members = D
    BY <1>1, <1>2, <1>3
  <1> QED
    BY <1>5, <1>6 DEF Consistent, r

\* The head is read: a membership becomes the one that was read last.
LEMMA ReadConsistent ==
  ASSUME NEW q \in Seq(Message), q # <<>>, NEW s, NEW n, NEW C, Consistent(s, q, n, C)
  PROVE  Consistent(s, Tail(q), IF Head(q).type = "Memb" THEN Cardinality(Head(q).members) ELSE n, C)
PROOF
  <1> DEFINE r == Tail(q)
             k == IF Head(q).type = "Memb" THEN Cardinality(Head(q).members) ELSE n
             P == Positions(q, "Memb")
             R == Positions(r, "Memb")
  <1>1. /\ 1 \in DOMAIN q /\ q[1] = Head(q)
        /\ \A i \in DOMAIN r : i \in Nat /\ i >= 1 /\ i + 1 \in DOMAIN q /\ r[i] = q[i + 1]
        /\ \A i \in DOMAIN q : /\ i \in Nat /\ i >= 1
                               /\ i # 1 => i - 1 \in DOMAIN r /\ r[i - 1] = q[i]
    BY TailAt
  <1> HIDE DEF r
  <1>2. /\ \A i \in R : i \in Nat /\ i >= 1 /\ i + 1 \in P /\ r[i] = q[i + 1]
        /\ \A i \in P : /\ i \in Nat /\ i >= 1
                        /\ i # 1 => i - 1 \in R /\ r[i - 1] = q[i]
        /\ 1 \in P <=> Head(q).type = "Memb"
    BY <1>1 DEF Positions
  <1>3. ASSUME R = {} PROVE k = Cardinality(C)
    <2>1. P \subseteq {1}
      BY <1>2, <1>3
    <2>2. CASE Head(q).type = "Memb"
      <3>1. 1 \in LastOf(P)
        BY <1>2, <2>1, <2>2 DEF LastOf
      <3> QED
        BY <1>1, <2>2, <3>1 DEF Consistent
    <2>3. CASE Head(q).type # "Memb"
      <3>1. P = {}
        BY <1>2, <2>1, <2>3
      <3> QED
        BY <2>3, <3>1 DEF Consistent
    <2> QED
      BY <2>2, <2>3
  <1>4. ASSUME NEW j \in LastOf(R) PROVE r[j].members = C
    <2>1. j \in R /\ \A i \in R : i <= j
      BY <1>4 DEF LastOf
    <2>2. j + 1 \in P /\ r[j] = q[j + 1] /\ j \in Nat /\ j >= 1
      BY <1>2, <2>1
    <2>3. \A i \in P : i <= j + 1
      <3> SUFFICES ASSUME NEW i \in P, i # 1 PROVE i <= j + 1
        BY <2>2
      <3> QED
        BY <1>2, <2>1, <2>2
    <2> QED
      BY <2>2, <2>3 DEF LastOf, Consistent
  <1>5. ASSUME NEW i \in Positions(r, "Vector") PROVE r[i].server_index = s \/ Grouped(r, k, i)
    <2>1. i \in Nat /\ i >= 1 /\ i + 1 \in Positions(q, "Vector") /\ r[i] = q[i + 1]
      BY <1>1, <1>5 DEF Positions
    <2>2. CASE r[i].server_index # s
      <3>1. Grouped(q, n, i + 1)
        BY <2>1, <2>2 DEF Consistent
      <3>2. /\ \A j \in MembBefore(r, i) : j \in R /\ j + 1 \in MembBefore(q, i + 1) /\ r[j] = q[j + 1]
            /\ \A j \in MembBefore(q, i + 1) : j \in Nat /\ (j # 1 => j - 1 \in MembBefore(r, i))
        BY <1>2, <2>1 DEF MembBefore
      <3>3. ASSUME NEW j \in LastOf(MembBefore(r, i)) PROVE Cardinality(r[j].members) > 1
        <4>1. j \in MembBefore(r, i) /\ \A l \in MembBefore(r, i) : l <= j
          BY <3>3 DEF LastOf
        <4>2. j \in Nat /\ j >= 1 /\ j + 1 \in MembBefore(q, i + 1) /\ r[j] = q[j + 1]
          BY <1>2, <3>2, <4>1
        <4>3. \A l \in MembBefore(q, i + 1) : l <= j + 1
          <5> SUFFICES ASSUME NEW l \in MembBefore(q, i + 1), l # 1 PROVE l <= j + 1
            BY <4>2
          <5> QED
            BY <3>2, <4>1, <4>2
        <4> QED
          BY <3>1, <4>2, <4>3 DEF Grouped, LastOf
      <3>4. ASSUME MembBefore(r, i) = {} PROVE k > 1
        <4>1. MembBefore(q, i + 1) \subseteq {1}
          BY <3>2, <3>4
        <4>2. CASE Head(q).type = "Memb"
          <5>1. 1 \in LastOf(MembBefore(q, i + 1))
            BY <1>2, <2>1, <4>1, <4>2 DEF LastOf, MembBefore
          <5> QED
            BY <1>1, <3>1, <4>2, <5>1 DEF Grouped
        <4>3. CASE Head(q).type # "Memb"
          <5>1. MembBefore(q, i + 1) = {}
            BY <1>2, <4>1, <4>3 DEF MembBefore
          <5> QED
            BY <3>1, <4>3, <5>1 DEF Grouped
        <4> QED
          BY <4>2, <4>3
      <3> QED
        BY <3>3, <3>4 DEF Grouped
    <2> QED
      BY <2>2
  <1> HIDE DEF k
  <1>6. Consistent(s, r, k, C)
    BY <1>3, <1>4, <1>5 DEF Consistent
  <1> QED
    BY <1>6 DEF r, k

--------------------------------------------------------------------------------
(* Steps that change no component and no membership *)

LEMMA MatrixQuiet ==
  ASSUME MatrixInv, UNCHANGED <<comp, num_memb, summary, server_view>>,
         \A t \in Server : up'[t] => up[t],
         \A t \in Server : up[t] => Consistent(t, inbox'[t], num_memb[t], comp[t])
  PROVE  MatrixInv'
PROOF
  BY DEF MatrixInv, Components, RowsFilled

LEMMA MatrixDelivers ==
  ASSUME TypeOK, MatrixInv, UNCHANGED <<comp, num_memb, summary, server_view>>,
         \A t \in Server : up'[t] => up[t],
         NEW s \in Server, NEW m \in Message, m.type \notin {"Memb", "Vector"},
         inbox' = Multicast(inbox, s, m)
  PROVE  MatrixInv'
PROOF
  <1>1. ASSUME NEW t \in Server, up[t] PROVE Consistent(t, inbox'[t], num_memb[t], comp[t])
    <2>1. Consistent(t, inbox[t], num_memb[t], comp[t])
      BY <1>1 DEF MatrixInv
    <2>2. /\ inbox[t] \in Seq(Message)
          /\ inbox'[t] = Append(inbox[t], m) \/ inbox'[t] = inbox[t]
      BY DeliverInbox DEF MatrixInv
    <2> QED
      BY <2>1, <2>2, ArrivedConsistent
  <1> QED
    BY <1>1, MatrixQuiet

LEMMA MatrixReads ==
  ASSUME TypeOK, MatrixInv, UNCHANGED <<comp, num_memb>>, \A t \in Server : up'[t] => up[t],
         NEW s \in Server, inbox[s] # <<>>, Head(inbox[s]).type # "Memb", inbox' = Received[s],
         \A t \in Server : RowsFilled(t)'
  PROVE  MatrixInv'
PROOF
  <1>1. ASSUME NEW t \in Server, up[t] PROVE Consistent(t, inbox'[t], num_memb[t], comp[t])
    <2>1. Consistent(t, inbox[t], num_memb[t], comp[t])
      BY <1>1 DEF MatrixInv
    <2>2. CASE t = s
      BY <2>1, <2>2, ReadInbox, ReadConsistent
    <2>3. CASE t # s
      BY <2>1, <2>3, ReadInbox
    <2> QED
      BY <2>2, <2>3
  <1> QED
    BY <1>1 DEF MatrixInv, Components

LEMMA HandledInbox ==
  ASSUME TypeOK, NEW s \in Server, NEW r \in Request, HandleClientReq(s, r)
  PROVE  /\ \A t \in Server : up'[t] => up[t]
         /\ \/ UNCHANGED inbox
            \/ \E u \in Update : inbox' = Multicast(inbox, s, [type |-> "Update", update |-> u])
PROOF
  <1>1. CASE r.op = "j"
    <2>1. NewBoard(s, r.db_name) \in Update
      BY NewBoardType DEF Request
    <2> QED
      BY <1>1, <2>1 DEF HandleClientReq, JoinDb, CreateBoard
  <1>2. CASE r.op # "j"
    <2>1. NewUpdate(s, r) \in Update
      BY <1>2, NewUpdateType
    <2>2. up \in [Server -> BOOLEAN]
      BY DEF TypeOK, ProcessType
    <2>3. ApplyUpdate(s, NewUpdate(s, r))
      BY <1>2 DEF HandleClientReq, UpdateReplicas
    <2>4. \A t \in Server : up'[t] => up[t]
      BY <2>2, <2>3 DEF ApplyUpdate
    <2> QED
      BY <1>2, <2>1, <2>4 DEF HandleClientReq, UpdateReplicas
  <1> QED
    BY <1>1, <1>2

LEMMA MatrixRequests ==
  ASSUME TypeInv, MatrixInv, NEW s \in Server,
         Drain(s) \/ \E r \in ClientRequests : ClientRequest(s, r)
  PROVE  MatrixInv'
PROOF
  <1>1. TypeOK /\ UNCHANGED <<comp, num_memb, summary, server_view>>
    BY DEF TypeInv, Drain, ClientRequest, syncVars, netVars
  <1>2. PICK r \in Request : HandleClientReq(s, r)
    <2>1. CASE Drain(s)
      <3>1. queue[s] \in Seq(Request) /\ queue[s] # <<>>
        BY <2>1 DEF Drain, TypeInv, TypeOK, LoopType, LoopOK
      <3>2. Head(queue[s]) \in Request
        BY <3>1, HeadTailProperties
      <3> QED
        BY <2>1, <3>2 DEF Drain
    <2>2. CASE \E r \in ClientRequests : ClientRequest(s, r)
      BY <1>1, <2>2, RequestsType DEF ClientRequest
    <2> QED
      BY <2>1, <2>2
  <1>3. /\ \A t \in Server : up'[t] => up[t]
        /\ \/ UNCHANGED inbox
           \/ \E u \in Update : inbox' = Multicast(inbox, s, [type |-> "Update", update |-> u])
    BY <1>1, <1>2, HandledInbox
  <1>4. CASE UNCHANGED inbox
    BY <1>1, <1>3, <1>4, MatrixQuiet DEF MatrixInv
  <1>5. CASE \E u \in Update : inbox' = Multicast(inbox, s, [type |-> "Update", update |-> u])
    <2>1. PICK u \in Update : inbox' = Multicast(inbox, s, [type |-> "Update", update |-> u])
      BY <1>5
    <2>2. [type |-> "Update", update |-> u] \in Message
      BY NewMessages
    <2> QED
      BY <1>1, <1>3, <2>1, <2>2, MatrixDelivers
  <1> QED
    BY <1>3, <1>4, <1>5

LEMMA MatrixSends ==
  ASSUME TypeInv, MatrixInv, NEW s \in Server, SendUpdate(s) \/ SendSyncEnd(s)
  PROVE  MatrixInv'
PROOF
  <1>1. TypeOK /\ UNCHANGED <<up, comp, num_memb, summary, server_view>>
    BY DEF TypeInv, SendUpdate, SendSyncEnd, syncVars, netVars
  <1>2. CASE SendUpdate(s)
    <2>1. LogRecord(s, First(job[s])) \in Logged(s)
      BY <1>2, SendUpdateType
    <2>2. PICK u \in Logged(s) : u = LogRecord(s, First(job[s]))
      BY <2>1
    <2>3. u \in Update
      BY <1>1, KnownType, KnownParts
    <2>4. [type |-> "SyncUpdate", update |-> u] \in Message
      BY <2>3, NewMessages
    <2> QED
      BY <1>1, <1>2, <2>2, <2>4, MatrixDelivers DEF SendUpdate
  <1>3. CASE SendSyncEnd(s)
    <2>1. [type |-> "SyncEnd"] \in Message
      BY NewMessages
    <2> QED
      BY <1>1, <1>3, <2>1, MatrixDelivers DEF SendSyncEnd
  <1> QED
    BY <1>2, <1>3

LEMMA MatrixUpdates ==
  ASSUME TypeInv, MatrixInv, NEW s \in Server, RecvUpdate(s) \/ RecvSyncUpdate(s) \/ RecvSyncEnd(s)
  PROVE  MatrixInv'
PROOF
  <1>1. TypeOK /\ UNCHANGED <<comp, num_memb, summary, server_view>> /\ inbox' = Received[s]
    BY DEF TypeInv, RecvUpdate, RecvSyncUpdate, RecvSyncEnd, syncVars, netVars
  <1>2. inbox[s] # <<>> /\ Head(inbox[s]).type # "Memb"
    BY DEF RecvUpdate, RecvSyncUpdate, RecvSyncEnd, Receives
  <1>3. \A t \in Server : up'[t] => up[t]
    <2>1. up \in [Server -> BOOLEAN]
      BY <1>1 DEF TypeOK, ProcessType
    <2> QED
      BY <2>1 DEF RecvUpdate, RecvSyncUpdate, RecvSyncEnd, ApplyUpdate
  <1>4. \A t \in Server : RowsFilled(t)'
    BY <1>1 DEF MatrixInv, RowsFilled
  <1> QED
    BY <1>1, <1>2, <1>3, <1>4, MatrixReads

\* process_vector: the server of the row is marked in the view and its row is there.
LEMMA MatrixVector ==
  ASSUME TypeInv, MatrixInv, NEW s \in Server, RecvVector(s)
  PROVE  MatrixInv'
PROOF
  <1>1. TypeOK /\ UNCHANGED <<up, comp, num_memb>> /\ inbox' = Received[s]
    BY DEF TypeInv, RecvVector, netVars
  <1>2. inbox[s] # <<>> /\ Head(inbox[s]).type # "Memb"
    BY DEF RecvVector, Receives
  <1>3. /\ summary' = [summary EXCEPT ![s] = WithRow(summary[s], Head(inbox[s]))]
        /\ server_view' = [server_view EXCEPT ![s] = server_view[s] \cup {Head(inbox[s]).server_index}]
    BY DEF RecvVector
  <1>4. /\ DOMAIN summary = Server /\ DOMAIN server_view = Server
        /\ DOMAIN WithRow(summary[s], Head(inbox[s])) = DOMAIN summary[s] \cup {Head(inbox[s]).server_index}
    BY <1>1 DEF TypeOK, SyncType, WithRow
  <1>5. ASSUME NEW t \in Server PROVE RowsFilled(t)'
    <2>1. RowsFilled(t)
      BY DEF MatrixInv
    <2>2. CASE t = s
      BY <1>1, <1>3, <1>4, <2>1, <2>2 DEF RowsFilled
    <2>3. CASE t # s
      BY <1>1, <1>3, <1>4, <2>1, <2>3 DEF RowsFilled
    <2> QED
      BY <2>2, <2>3
  <1> QED
    BY <1>1, <1>2, <1>5, MatrixReads

--------------------------------------------------------------------------------
(* Memberships *)

LEMMA MatrixMembership ==
  ASSUME TypeInv, MatrixInv, NEW s \in Server, RecvMembership(s)
  PROVE  MatrixInv'
PROOF
  <1> DEFINE n == Cardinality(Head(inbox[s]).members)
  <1>1. /\ TypeOK /\ Components /\ UNCHANGED <<up, comp>> /\ up[s]
        /\ inbox[s] # <<>> /\ Head(inbox[s]).type = "Memb"
        /\ num_memb' = [num_memb EXCEPT ![s] = n]
    BY DEF TypeInv, MatrixInv, RecvMembership, Receives, netVars
  <1>2. /\ inbox \in [Server -> Seq(Message)] /\ num_memb \in [Server -> Nat]
        /\ summary = [t \in Server |-> summary[t]] /\ server_view \in [Server -> SUBSET Server]
    BY <1>1 DEF TypeOK, NetType, SyncType
  <1>3. /\ Received[s] \in [Server -> Seq(Message)]
        /\ Received[s][s] = Tail(inbox[s])
        /\ \A t \in Server : t # s => Received[s][t] = inbox[t]
    BY <1>1, <1>2, ReceivedType DEF Received
  <1>4. ASSUME NEW t \in Server, up[t]
        PROVE  Consistent(t, Received[s][t], num_memb'[t], comp[t])
    <2>1. Consistent(t, inbox[t], num_memb[t], comp[t])
      BY <1>4 DEF MatrixInv
    <2>2. CASE t = s
      <3>1. num_memb'[t] = n
        BY <1>1, <1>2, <2>2
      <3>2. inbox[s] \in Seq(Message) /\ Consistent(s, inbox[s], num_memb[s], comp[s])
        BY <1>2, <2>1, <2>2
      <3>3. Consistent(s, Tail(inbox[s]), n, comp[s])
        BY <1>1, <3>2, ReadConsistent
      <3> QED
        BY <1>3, <2>2, <3>1, <3>3
    <2>3. CASE t # s
      BY <1>1, <1>2, <1>3, <2>1, <2>3
    <2> QED
      BY <2>2, <2>3
  <1>5. CASE ~ n > 1
    <2>1. /\ inbox' = Received[s] /\ UNCHANGED summary
          /\ server_view' = [server_view EXCEPT ![s] = {s}]
          /\ ~ num_memb'[s] > 1
      BY <1>1, <1>2, <1>5 DEF RecvMembership
    <2>2. ASSUME NEW t \in Server PROVE RowsFilled(t)'
      <3>1. RowsFilled(t)
        BY DEF MatrixInv
      <3>2. CASE t = s
        BY <1>2, <2>1, <3>2 DEF RowsFilled
      <3>3. CASE t # s
        BY <1>1, <1>2, <2>1, <3>1, <3>3 DEF RowsFilled
      <3> QED
        BY <3>2, <3>3
    <2> QED
      BY <1>1, <1>4, <2>1, <2>2 DEF MatrixInv, Components
  <1>6. CASE n > 1
    <2>1. /\ inbox' = Multicast(Received[s], s, VectorOf(s))
          /\ summary' = [summary EXCEPT ![s] = NoRows]
          /\ server_view' = [server_view EXCEPT ![s] = {}]
      BY <1>1, <1>2, <1>6 DEF RecvMembership, VectorOf, ViewAtSync
    <2>2. ASSUME NEW t \in Server PROVE RowsFilled(t)'
      <3>1. RowsFilled(t)
        BY DEF MatrixInv
      <3>2. CASE t = s
        BY <1>2, <2>1, <3>2 DEF RowsFilled
      <3>3. CASE t # s
        BY <1>1, <1>2, <2>1, <3>1, <3>3 DEF RowsFilled
      <3> QED
        BY <3>2, <3>3
    <2>3. /\ VectorOf(s) \in Message /\ VectorOf(s).type = "Vector" /\ VectorOf(s).server_index = s
      <3>1. server_lts[s] \in Vector
        BY <1>1 DEF TypeOK, ClockType
      <3> QED
        BY <3>1, NewMessages DEF VectorOf
    <2>4. ASSUME NEW t \in Server, up[t]
          PROVE  Consistent(t, inbox'[t], num_memb'[t], comp[t])
      <3>1. CASE t \in comp[s]
        <4>1. inbox'[t] = Append(Received[s][t], VectorOf(s))
          BY <1>3, <2>1, <3>1 DEF Multicast
        <4>2. t # s => Cardinality(comp[t]) > 1
          <5> SUFFICES ASSUME ~ Cardinality(comp[t]) > 1 PROVE t = s
            OBVIOUS
          <5>1. comp[t] = {t}
            BY <1>1, Alone
          <5> QED
            BY <1>1, <3>1, <5>1, CompTypes
        <4> QED
          BY <1>3, <1>4, <2>3, <2>4, <4>1, <4>2, ArrivedConsistent
      <3>2. CASE t \notin comp[s]
        <4>1. inbox'[t] = Received[s][t]
          BY <1>3, <2>1, <3>2 DEF Multicast
        <4> QED
          BY <1>4, <2>4, <4>1
      <3> QED
        BY <3>1, <3>2
    <2> QED
      BY <1>1, <2>2, <2>4 DEF MatrixInv, Components
  <1> QED
    BY <1>5, <1>6

LEMMA MatrixNetwork ==
  ASSUME TypeInv, MatrixInv, NEW s \in Server,
         \/ Disconnect(s)
         \/ \E D \in SUBSET Server : Split(s, D)
         \/ \E r \in Server : Merge(s, r)
  PROVE  MatrixInv'
PROOF
  <1>1. /\ TypeOK /\ Components /\ UNCHANGED <<up, num_memb, summary, server_view>>
    BY DEF TypeInv, MatrixInv, Disconnect, Split, Merge, NetworkChange, syncVars
  <1>2. /\ comp \in [Server -> SUBSET Server] /\ inbox \in [Server -> Seq(Message)]
        /\ \A t \in Server : t \in comp[t] /\ \A r \in comp[t] : r \in Server /\ comp[r] = comp[t]
    BY <1>1 DEF TypeOK, NetType, Components
  <1> DEFINE Notified(t) == \/ inbox'[t] = Append(inbox[t], MembOf(t))
                            \/ inbox'[t] = inbox[t] /\ comp'[t] = comp[t]
                            \/ ~ up[t]
             Shape == /\ \A t \in Server : /\ comp'[t] \in SUBSET Server
                                           /\ t \in comp'[t] /\ \A r \in comp'[t] : comp'[r] = comp'[t]
                      /\ \A t \in Server : Notified(t)
  <1>3. ASSUME Disconnect(s) PROVE Shape
    <2>1. /\ ~ up[s]
          /\ comp' = [t \in Server |-> IF t = s THEN {s} ELSE comp[t] \ {s}]
          /\ \A t \in Server : t # s =>
               inbox'[t] = IF t \in comp[s] THEN Append(inbox[t], MembOf(t)) ELSE inbox[t]
      BY <1>3 DEF Disconnect, MembOf
    <2>2. \A t \in Server : t \notin comp[s] => s \notin comp[t]
      BY <1>2
    <2>3. ASSUME NEW t \in Server PROVE Notified(t)
      <3>1. CASE t = s
        BY <2>1, <3>1
      <3>2. CASE t # s /\ t \in comp[s]
        BY <2>1, <3>2
      <3>3. CASE t # s /\ t \notin comp[s]
        <4>1. s \notin comp[t] /\ comp'[t] = comp[t] \ {s} /\ inbox'[t] = inbox[t]
          BY <2>1, <2>2, <3>3
        <4>2. comp[t] \ {s} = comp[t]
          BY <4>1
        <4> QED
          BY <4>1, <4>2
      <3> QED
        BY <3>1, <3>2, <3>3
    <2> QED
      BY <1>2, <2>1, <2>3
  <1>4. ASSUME NEW D \in SUBSET Server, Split(s, D) PROVE Shape
    <2>1. /\ D \subseteq comp[s]
          /\ comp' = [t \in Server |-> IF t \in D THEN D
                                       ELSE IF t \in comp[s] THEN comp[s] \ D ELSE comp[t]]
          /\ \A t \in Server : inbox'[t] = IF t \in comp[s] THEN Append(inbox[t], MembOf(t)) ELSE inbox[t]
      BY <1>4 DEF Split, Announce, MembOf
    <2>2. ASSUME NEW t \in Server PROVE Notified(t)
      <3>1. CASE t \in comp[s]
        BY <2>1, <3>1
      <3>2. CASE t \notin comp[s]
        BY <2>1, <3>2
      <3> QED
        BY <3>1, <3>2
    <2> QED
      BY <1>2, <2>1, <2>2
  <1>5. ASSUME NEW r \in Server, Merge(s, r) PROVE Shape
    <2>1. /\ comp' = [t \in Server |-> IF t \in comp[s] \cup comp[r] THEN comp[s] \cup comp[r] ELSE comp[t]]
          /\ \A t \in Server : inbox'[t] = IF t \in comp[s] \cup comp[r]
                                             THEN Append(inbox[t], MembOf(t)) ELSE inbox[t]
      BY <1>5 DEF Merge, Announce, MembOf
    <2>2. ASSUME NEW t \in Server PROVE Notified(t)
      BY <2>1
    <2> QED
      BY <1>2, <2>1, <2>2
  <1>6. Shape
    BY <1>3, <1>4, <1>5
  <1> HIDE DEF Notified
  <1>7. ASSUME NEW t \in Server, up[t] PROVE Consistent(t, inbox'[t], num_memb[t], comp'[t])
    <2>1. Notified(t) /\ Consistent(t, inbox[t], num_memb[t], comp[t]) /\ comp'[t] \in SUBSET Server
      BY <1>6, <1>7 DEF MatrixInv
    <2>2. /\ MembOf(t) \in Message /\ MembOf(t).type = "Memb" /\ MembOf(t).members = comp'[t]
      BY <2>1, NewMessages DEF MembOf
    <2>3. CASE inbox'[t] = Append(inbox[t], MembOf(t))
      BY <1>2, <2>1, <2>2, <2>3, AnnouncedConsistent
    <2>4. CASE inbox'[t] = inbox[t] /\ comp'[t] = comp[t]
      BY <2>1, <2>4
    <2> QED
      BY <1>7, <2>1, <2>3, <2>4 DEF Notified
  <1> QED
    BY <1>1, <1>6, <1>7 DEF MatrixInv, Components, RowsFilled

--------------------------------------------------------------------------------
(* The rows *)

LEMMA MatrixInit == Init => MatrixInv
PROOF
  <1> SUFFICES ASSUME Init PROVE MatrixInv
    OBVIOUS
  <1>1. \A s \in Server : /\ comp[s] = {s} /\ inbox[s] = <<>> /\ num_memb[s] = 1
                          /\ server_view[s] = {s}
    BY DEF Init
  <1>2. \A s \in Server : \A type : Positions(inbox[s], type) = {}
    BY <1>1 DEF Positions
  <1>3. \A s \in Server : Cardinality({s}) = 1
    BY FS_Singleton
  <1>4. \A s \in Server : Consistent(s, inbox[s], num_memb[s], comp[s])
    BY <1>1, <1>2, <1>3 DEF Consistent, LastOf
  <1>5. \A s \in Server : RowsFilled(s)
    BY <1>1 DEF RowsFilled
  <1> QED
    BY <1>1, <1>4, <1>5 DEF MatrixInv, Components

LEMMA MatrixStep == TypeInv /\ MatrixInv /\ [Next]_vars => MatrixInv'
PROOF
  <1> SUFFICES ASSUME TypeInv, MatrixInv, [Next]_vars PROVE MatrixInv'
    OBVIOUS
  <1>1. ASSUME NEW s \in Server, ServerStep(s) PROVE MatrixInv'
    BY <1>1, MatrixRequests, MatrixSends, MatrixUpdates, MatrixVector, MatrixMembership DEF ServerStep
  <1>2. ASSUME NEW s \in Server, \E r \in ClientRequests : ClientRequest(s, r) PROVE MatrixInv'
    BY <1>2, MatrixRequests
  <1>3. ASSUME NEW s \in Server,
               \/ Disconnect(s)
               \/ \E D \in SUBSET Server : Split(s, D)
               \/ \E r \in Server : Merge(s, r)
        PROVE  MatrixInv'
    BY <1>3, MatrixNetwork
  <1>4. ASSUME NEW s \in Server, JoinExit(s) PROVE MatrixInv'
    <2>1. up \in [Server -> BOOLEAN]
      BY DEF TypeInv, TypeOK, ProcessType
    <2>2. /\ UNCHANGED <<comp, num_memb, summary, server_view, inbox>>
          /\ \A t \in Server : up'[t] => up[t]
      BY <1>4, <2>1 DEF JoinExit, syncVars, netVars
    <2> QED
      BY <2>2, MatrixQuiet DEF MatrixInv
  <1>5. CASE UNCHANGED vars
    <2>1. UNCHANGED <<comp, num_memb, summary, server_view, inbox, up>>
      BY <1>5 DEF vars, syncVars, netVars
    <2> QED
      BY <2>1, MatrixQuiet DEF MatrixInv
  <1> QED
    BY <1>1, <1>2, <1>3, <1>4, <1>5 DEF Next

\* find_max_min reads only rows that came in since sync() allocated the matrix,
\* however memberships, vectors and exits fall.
THEOREM RowsAreInitialised == Spec => []RowsInitialised
PROOF
  <1>1. Init => TypeInv /\ MatrixInv
    BY TypeInit, MatrixInit
  <1>2. TypeInv /\ MatrixInv /\ [Next]_vars => TypeInv' /\ MatrixInv'
    BY TypeStep, MatrixStep
  <1>3. TypeInv /\ MatrixInv => RowsInitialised
    <2> SUFFICES ASSUME TypeInv, MatrixInv, NEW s \in Server, Receives(s, "Vector"),
                        vector_rcvd[s] + 1 = num_memb[s]
                 PROVE  server_view[s] \subseteq DOMAIN summary[s] \cup {Head(inbox[s]).server_index}
      BY DEF RowsInitialised
    <2>1. /\ inbox[s] \in Seq(Message) /\ inbox[s] # <<>> /\ up[s] /\ Head(inbox[s]).type = "Vector"
      BY DEF TypeInv, TypeOK, NetType, Receives
    <2>2. 1 \in Positions(inbox[s], "Vector") /\ inbox[s][1] = Head(inbox[s])
      BY <2>1, TailAt DEF Positions
    <2>3. MembBefore(inbox[s], 1) = {}
      BY <2>1, TailAt DEF MembBefore, Positions
    <2>4. Head(inbox[s]).server_index = s \/ num_memb[s] > 1
      BY <2>1, <2>2, <2>3 DEF MatrixInv, Consistent, Grouped
    <2> QED
      BY <2>4 DEF MatrixInv, RowsFilled
  <1> QED
    BY <1>1, <1>2, <1>3, PTL DEF Spec

--------------------------------------------------------------------------------
(* Updates in an inbox *)

\* An update read is had from then on: what comes after it may rely on it.
LEMMA TailGap ==
  ASSUME NEW q \in Seq(Message), q # <<>>, NEW have, NEW known, GapFree(q, have, known),
         NEW more, have \subseteq more, Carries(Head(q)) => Head(q).update \in more
  PROVE  GapFree(Tail(q), more, known)
PROOF
  <1> SUFFICES ASSUME NEW i \in DOMAIN Tail(q), Carries(Tail(q)[i]), NEW w \in known,
                      w.server_id = Tail(q)[i].update.server_id, w.lts < Tail(q)[i].update.lts
               PROVE  \/ w \in more
                      \/ \E j \in DOMAIN Tail(q) : /\ j < i /\ Carries(Tail(q)[j])
                                                   /\ Tail(q)[j].update = w
    BY DEF GapFree
  <1>1. i \in Nat /\ i + 1 \in DOMAIN q /\ Tail(q)[i] = q[i + 1]
    BY TailAt
  <1>2. w \in have \/ \E j \in DOMAIN q : j < i + 1 /\ Carries(q[j]) /\ q[j].update = w
    BY <1>1 DEF GapFree
  <1>3. ASSUME NEW j \in DOMAIN q, j < i + 1, Carries(q[j]), q[j].update = w, j # 1
        PROVE  \E k \in DOMAIN Tail(q) : k < i /\ Carries(Tail(q)[k]) /\ Tail(q)[k].update = w
    <2>1. j \in Nat /\ j - 1 \in DOMAIN Tail(q) /\ Tail(q)[j - 1] = q[j]
      BY <1>3, TailAt
    <2>2. j - 1 < i
      BY <1>1, <1>3, <2>1
    <2> QED
      BY <1>3, <2>1, <2>2
  <1>4. q[1] = Head(q)
    BY TailAt
  <1> QED
    BY <1>2, <1>3, <1>4

\* An update may be sent to a server that has, or reads before, what precedes it.
LEMMA AppendGap ==
  ASSUME NEW q \in Seq(Message), NEW m \in Message, NEW have, NEW known, GapFree(q, have, known),
         Carries(m) => \A w \in known :
           w.server_id = m.update.server_id /\ w.lts < m.update.lts => w \in have \cup Updates(q)
  PROVE  GapFree(Append(q, m), have, known)
PROOF
  <1> DEFINE r == Append(q, m)
  <1>1. /\ \A i \in DOMAIN q : i \in Nat /\ i < Len(q) + 1 /\ i \in DOMAIN r /\ r[i] = q[i]
        /\ r[Len(q) + 1] = m
        /\ \A i \in DOMAIN r : i \in DOMAIN q \/ i = Len(q) + 1
    BY AppendAt
  <1> HIDE DEF r
  <1> SUFFICES ASSUME NEW i \in DOMAIN r, Carries(r[i]), NEW w \in known,
                      w.server_id = r[i].update.server_id, w.lts < r[i].update.lts
               PROVE  \/ w \in have
                      \/ \E j \in DOMAIN r : j < i /\ Carries(r[j]) /\ r[j].update = w
    BY DEF GapFree, r
  <1>2. CASE i \in DOMAIN q
    <2>1. w \in have \/ \E j \in DOMAIN q : j < i /\ Carries(q[j]) /\ q[j].update = w
      BY <1>1, <1>2 DEF GapFree
    <2> QED
      BY <1>1, <2>1
  <1>3. CASE i = Len(q) + 1
    <2>1. w \in have \cup Updates(q)
      BY <1>1, <1>3
    <2>2. w \in Updates(q) => \E j \in DOMAIN q : Carries(q[j]) /\ q[j].update = w
      BY DEF Updates, Updating, Carries
    <2> QED
      BY <1>1, <1>3, <2>1, <2>2
  <1> QED
    BY <1>1, <1>2, <1>3

\* A new update, later than all those of its originator, opens no gap.
LEMMA NewGap ==
  ASSUME NEW q, NEW have, NEW known, GapFree(q, have, known), NEW more, have \subseteq more,
         NEW knownNow,
         \A w \in knownNow : w \in known \/ \A v \in Updates(q) :
           v.server_id = w.server_id => ~ (w.lts < v.lts)
  PROVE  GapFree(q, more, knownNow)
PROOF
  <1>1. \A i \in DOMAIN q : Carries(q[i]) => q[i].update \in Updates(q)
    BY DEF Updates, Updating, Carries
  <1> QED
    BY <1>1 DEF GapFree

LEMMA AppendAscends ==
  ASSUME NEW q \in Seq(Message), NEW m \in Message, Ascends(q),
         m.type = "Update" => \A v \in Updates(q) :
           v.server_id = m.update.server_id => v.lts < m.update.lts
  PROVE  Ascends(Append(q, m))
PROOF
  <1> DEFINE r == Append(q, m)
  <1>1. /\ \A i \in DOMAIN q : i \in Nat /\ i < Len(q) + 1 /\ i \in DOMAIN r /\ r[i] = q[i]
        /\ r[Len(q) + 1] = m
        /\ \A i \in DOMAIN r : i \in DOMAIN q \/ i = Len(q) + 1
        /\ Len(q) \in Nat
    BY AppendAt
  <1> HIDE DEF r
  <1> SUFFICES ASSUME NEW i \in Positions(r, "Update"), NEW j \in DOMAIN r, j < i, Carries(r[j]),
                      r[j].update.server_id = r[i].update.server_id
               PROVE  r[j].update.lts < r[i].update.lts
    BY DEF Ascends, r
  <1>2. j \in DOMAIN q
    BY <1>1 DEF Positions
  <1>3. r[j].update \in Updates(q)
    BY <1>1, <1>2 DEF Updates, Updating, Carries
  <1>4. CASE i \in DOMAIN q
    BY <1>1, <1>2, <1>4 DEF Ascends, Positions
  <1>5. CASE i = Len(q) + 1
    BY <1>1, <1>3, <1>5 DEF Positions
  <1> QED
    BY <1>1, <1>4, <1>5 DEF Positions

\* What happens to an inbox when no update is read or delivered.
QuietRest(q, r) == r = q \/ (q # <<>> /\ ~ Carries(Head(q)) /\ r = Tail(q))
QuietChange(q, r) ==
  \E rest \in Seq(Message) :
    /\ QuietRest(q, rest)
    /\ r = rest \/ \E m \in Message : ~ Carries(m) /\ r = Append(rest, m)

\* The same messages of a type.
SameOfType(q, r, type) ==
  /\ \A i \in Positions(q, type) : \E j \in Positions(r, type) : r[j] = q[i]
  /\ \A i \in Positions(r, type) : \E j \in Positions(q, type) : q[j] = r[i]

LEMMA QuietRestKeeps ==
  ASSUME NEW q \in Seq(Message), NEW r, QuietRest(q, r)
  PROVE  /\ \A have, known : GapFree(q, have, known) => GapFree(r, have, known)
         /\ Ascends(q) => Ascends(r)
         /\ SameOfType(q, r, "Update") /\ SameOfType(q, r, "SyncUpdate")
PROOF
  <1>1. CASE r = q
    BY <1>1 DEF SameOfType
  <1>2. CASE q # <<>> /\ ~ Carries(Head(q)) /\ r = Tail(q)
    <2>1. \A have, known : GapFree(q, have, known) => GapFree(r, have, known)
      BY <1>2, TailGap
    <2>2. Ascends(q) => Ascends(r)
      BY <1>2, TailKeeps
    <2>3. /\ q[1] = Head(q)
          /\ \A i \in DOMAIN r : i + 1 \in DOMAIN q /\ r[i] = q[i + 1]
          /\ \A i \in DOMAIN q : i # 1 => i - 1 \in DOMAIN r /\ r[i - 1] = q[i]
      BY <1>2, TailAt
    <2>4. SameOfType(q, r, "Update") /\ SameOfType(q, r, "SyncUpdate")
      BY <1>2, <2>3 DEF SameOfType, Positions, Carries
    <2> QED
      BY <2>1, <2>2, <2>4
  <1> QED
    BY <1>1, <1>2 DEF QuietRest

LEMMA QuietKeeps ==
  ASSUME NEW q \in Seq(Message), NEW r, QuietChange(q, r)
  PROVE  /\ \A have, known : GapFree(q, have, known) => GapFree(r, have, known)
         /\ Ascends(q) => Ascends(r)
         /\ SameOfType(q, r, "Update") /\ SameOfType(q, r, "SyncUpdate")
         /\ Updates(r) = Updates(q)
PROOF
  <1>1. PICK rest \in Seq(Message) :
          /\ QuietRest(q, rest)
          /\ r = rest \/ \E m \in Message : ~ Carries(m) /\ r = Append(rest, m)
    BY DEF QuietChange
  <1>2. /\ \A have, known : GapFree(q, have, known) => GapFree(rest, have, known)
        /\ Ascends(q) => Ascends(rest)
        /\ SameOfType(q, rest, "Update") /\ SameOfType(q, rest, "SyncUpdate")
    BY <1>1, QuietRestKeeps
  <1>3. ASSUME NEW m \in Message, ~ Carries(m), r = Append(rest, m)
        PROVE  /\ \A have, known : GapFree(rest, have, known) => GapFree(r, have, known)
               /\ Ascends(rest) => Ascends(r)
               /\ SameOfType(rest, r, "Update") /\ SameOfType(rest, r, "SyncUpdate")
    <2>1. /\ \A i \in DOMAIN rest : i \in DOMAIN r /\ r[i] = rest[i]
          /\ \A i \in DOMAIN r : i \in DOMAIN rest \/ r[i] = m
      BY <1>3, AppendAt
    <2>2. SameOfType(rest, r, "Update") /\ SameOfType(rest, r, "SyncUpdate")
      BY <1>3, <2>1 DEF SameOfType, Positions, Carries
    <2>3. \A have, known : GapFree(rest, have, known) => GapFree(r, have, known)
      BY <1>3, AppendGap
    <2>4. Ascends(rest) => Ascends(r)
      BY <1>3, AppendAscends DEF Carries
    <2> QED
      BY <2>2, <2>3, <2>4
  <1>4. /\ \A have, known : GapFree(q, have, known) => GapFree(r, have, known)
        /\ Ascends(q) => Ascends(r)
    BY <1>1, <1>2, <1>3
  <1>5. SameOfType(q, r, "Update") /\ SameOfType(q, r, "SyncUpdate")
    BY <1>1, <1>2, <1>3 DEF SameOfType
  <1>6. \A p, v : v \in Updates(p) <=> \/ \E i \in Positions(p, "Update") : p[i].update = v
                                       \/ \E i \in Positions(p, "SyncUpdate") : p[i].update = v
    BY DEF Updates, Updating, Positions
  <1>7. \A v : v \in Updates(r) <=> v \in Updates(q)
    BY <1>5, <1>6 DEF SameOfType
  <1>8. Updates(r) = Updates(q)
    BY <1>7
  <1> QED
    BY <1>4, <1>5, <1>8

--------------------------------------------------------------------------------
(* Logs, vectors and inboxes: the steps that take up no update *)

\* What is known of a reachable state of the calm replication, but for the clients.
CoreStateInv == TypeInv /\ KeyInv /\ LogInv /\ CoreInv

LEMMA KnownFacts ==
  ASSUME TypeOK
  PROVE  /\ \A w \in Known : /\ w \in Update /\ w.lts \in Nat /\ w.update_num \in Nat
                             /\ w.server_id \in Server
         /\ \A t \in Server : /\ Logged(t) \subseteq Known /\ Updates(inbox[t]) \subseteq Known
                              /\ Carried(t) = Updates(inbox[t]) /\ Carried(t)' = Updates(inbox'[t])
                              /\ inbox[t] \in Seq(Message) /\ comp[t] \in SUBSET Server
                              /\ lts[t] \in Nat /\ update_seq[t] \in Nat
         /\ \A t, o \in Server : server_lts[t][o] \in Nat /\ server_updates[t][o] \in Nat
         /\ \A t \in Server : \A i \in DOMAIN inbox[t] :
              Carries(inbox[t][i]) => inbox[t][i].update \in Updates(inbox[t])
PROOF
  <1>1. \A w \in Known : w \in Update /\ w.lts \in Nat /\ w.update_num \in Nat /\ w.server_id \in Server
    BY KnownType DEF Update
  <1>2. \A t \in Server : /\ Logged(t) \subseteq Known /\ Updates(inbox[t]) \subseteq Known
                          /\ Carried(t) = Updates(inbox[t]) /\ Carried(t)' = Updates(inbox'[t])
    BY KnownParts, CarriedUpdates
  <1>3. \A t \in Server : /\ inbox[t] \in Seq(Message) /\ comp[t] \in SUBSET Server
                          /\ lts[t] \in Nat /\ update_seq[t] \in Nat
    BY DEF TypeOK, NetType, ClockType
  <1>4. \A t, o \in Server : server_lts[t][o] \in Nat /\ server_updates[t][o] \in Nat
    BY DEF TypeOK, ClockType, Vector
  <1>5. \A t \in Server : \A i \in DOMAIN inbox[t] :
          Carries(inbox[t][i]) => inbox[t][i].update \in Updates(inbox[t])
    BY DEF Updates, Updating, Carries
  <1> QED
    BY <1>1, <1>2, <1>3, <1>4, <1>5

LEMMA SameHas ==
  ASSUME UNCHANGED log, \A t \in Server : Updates(inbox'[t]) = Updates(inbox[t])
  PROVE  Known' = Known /\ \A t \in Server : Logged(t)' = Logged(t) /\ Has(t)' = Has(t)
PROOF
  <1>1. \A t \in Server : Logged(t)' = Logged(t) /\ Carried(t)' = Carried(t)
    BY CarriedUpdates DEF Logged
  <1> QED
    BY <1>1 DEF Known, Has

\* What is left of the inbox of a server that is parted from others.
Fewer(q, r) ==
  \E p \in {q, <<>>} : r = p \/ \E m \in Message : ~ Carries(m) /\ r = Append(p, m)

LEMMA FewerKeeps ==
  ASSUME NEW q \in Seq(Message), NEW r, Fewer(q, r)
  PROVE  /\ \A have, known : GapFree(q, have, known) => GapFree(r, have, known)
         /\ Ascends(q) => Ascends(r)
         /\ \A i \in Positions(r, "Update") : \E j \in Positions(q, "Update") : q[j] = r[i]
         /\ Updates(r) \subseteq Updates(q)
PROOF
  <1>1. PICK p \in {q, <<>>} : r = p \/ \E m \in Message : ~ Carries(m) /\ r = Append(p, m)
    BY DEF Fewer
  <1>2. p \in Seq(Message)
    <2>1. <<>> \in Seq(Message)
      OBVIOUS
    <2> QED
      BY <1>1, <2>1
  <1>3. QuietChange(p, r)
    BY <1>1, <1>2 DEF QuietChange, QuietRest
  <1>4. /\ \A have, known : GapFree(p, have, known) => GapFree(r, have, known)
        /\ Ascends(p) => Ascends(r)
        /\ SameOfType(p, r, "Update") /\ Updates(r) = Updates(p)
    BY <1>2, <1>3, QuietKeeps
  <1>5. CASE p = q
    BY <1>4, <1>5 DEF SameOfType
  <1>6. CASE p = <<>>
    <2>1. DOMAIN p = {}
      BY <1>6
    <2>2. \A have, known : GapFree(p, have, known)
      BY <2>1 DEF GapFree
    <2>3. Ascends(p) /\ Positions(p, "Update") = {} /\ Updates(p) = {}
      BY <2>1 DEF Ascends, Positions, Updates
    <2> QED
      BY <1>4, <2>2, <2>3 DEF SameOfType
  <1> QED
    BY <1>1, <1>5, <1>6

LEMMA QuietOrder ==
  ASSUME TypeOK, OrderInv, UNCHANGED <<clockVars, log>>,
         \A t \in Server : QuietChange(inbox[t], inbox'[t])
  PROVE  OrderInv' /\ Known' = Known /\ \A t \in Server : Logged(t)' = Logged(t) /\ Has(t)' = Has(t)
PROOF
  <1>1. \A t \in Server : inbox[t] \in Seq(Message)
    BY KnownFacts
  <1>2. ASSUME NEW t \in Server
        PROVE  /\ \A have, known : GapFree(inbox[t], have, known) => GapFree(inbox'[t], have, known)
               /\ Ascends(inbox[t]) => Ascends(inbox'[t])
               /\ SameOfType(inbox[t], inbox'[t], "Update")
               /\ Updates(inbox'[t]) = Updates(inbox[t])
    BY <1>1, QuietKeeps
  <1>3. Known' = Known /\ \A t \in Server : Logged(t)' = Logged(t) /\ Has(t)' = Has(t)
    BY <1>2, SameHas
  <1>4. ObjectsOnly' /\ VectorWithin' /\ LogIsPrefix'
    BY <1>3 DEF OrderInv, ObjectsOnly, VectorWithin, LogIsPrefix, clockVars
  <1>5. NoGap'
    BY <1>2, <1>3 DEF OrderInv, NoGap
  <1>6. InOrder'
    <2> SUFFICES ASSUME NEW t \in Server
                 PROVE  /\ Ascends(inbox'[t])
                        /\ \A i \in Positions(inbox'[t], "Update") :
                             inbox'[t][i].update.server_id # t =>
                               server_lts'[t][inbox'[t][i].update.server_id] < inbox'[t][i].update.lts
      BY DEF InOrder
    <2>1. /\ Ascends(inbox[t])
          /\ \A i \in Positions(inbox[t], "Update") :
               inbox[t][i].update.server_id # t =>
                 server_lts[t][inbox[t][i].update.server_id] < inbox[t][i].update.lts
      BY DEF OrderInv, InOrder
    <2>2. UNCHANGED server_lts
      BY DEF clockVars
    <2> QED
      BY <1>2, <2>1, <2>2 DEF SameOfType
  <1> QED
    BY <1>3, <1>4, <1>5, <1>6 DEF OrderInv

\* What is not read any more leaves no gap either.
LEMMA FewerOrder ==
  ASSUME TypeOK, OrderInv, UNCHANGED <<clockVars, log>>,
         \A t \in Server : Fewer(inbox[t], inbox'[t])
  PROVE  /\ OrderInv' /\ Known' \subseteq Known
         /\ \A t \in Server : Logged(t)' = Logged(t) /\ Has(t)' \subseteq Has(t)
PROOF
  <1>1. ASSUME NEW t \in Server
        PROVE  /\ \A have, known : GapFree(inbox[t], have, known) => GapFree(inbox'[t], have, known)
               /\ Ascends(inbox[t]) => Ascends(inbox'[t])
               /\ \A i \in Positions(inbox'[t], "Update") :
                    \E j \in Positions(inbox[t], "Update") : inbox[t][j] = inbox'[t][i]
               /\ Updates(inbox'[t]) \subseteq Updates(inbox[t])
    <2>1. inbox[t] \in Seq(Message) /\ Fewer(inbox[t], inbox'[t])
      BY KnownFacts
    <2> QED
      BY <2>1, FewerKeeps
  <1>2. \A t \in Server : Logged(t)' = Logged(t) /\ Has(t)' \subseteq Has(t)
    <2>1. \A t \in Server : Logged(t)' = Logged(t)
      BY DEF Logged
    <2> QED
      BY <1>1, <2>1, CarriedUpdates DEF Has
  <1>3. Known' \subseteq Known
    BY <1>2 DEF Known, Has
  <1>4. ObjectsOnly' /\ VectorWithin' /\ LogIsPrefix'
    BY <1>2, <1>3 DEF OrderInv, ObjectsOnly, VectorWithin, LogIsPrefix, clockVars
  <1>5. NoGap'
    <2> SUFFICES ASSUME NEW t \in Server PROVE GapFree(inbox'[t], Logged(t), Known')
      BY <1>2 DEF NoGap
    <2>1. GapFree(inbox[t], Logged(t), Known)
      BY DEF OrderInv, NoGap
    <2>2. GapFree(inbox'[t], Logged(t), Known)
      BY <1>1, <2>1
    <2> QED
      BY <1>3, <2>2 DEF GapFree
  <1>6. InOrder'
    <2> SUFFICES ASSUME NEW t \in Server
                 PROVE  /\ Ascends(inbox'[t])
                        /\ \A i \in Positions(inbox'[t], "Update") :
                             inbox'[t][i].update.server_id # t =>
                               server_lts'[t][inbox'[t][i].update.server_id] < inbox'[t][i].update.lts
      BY DEF InOrder
    <2>1. /\ Ascends(inbox[t])
          /\ \A i \in Positions(inbox[t], "Update") :
               inbox[t][i].update.server_id # t =>
                 server_lts[t][inbox[t][i].update.server_id] < inbox[t][i].update.lts
      BY DEF OrderInv, InOrder
    <2>2. UNCHANGED server_lts
      BY DEF clockVars
    <2>3. \A i \in Positions(inbox'[t], "Update") :
            \E j \in Positions(inbox[t], "Update") : inbox[t][j] = inbox'[t][i]
      BY <1>1
    <2> QED
      BY <1>1, <2>1, <2>2, <2>3
  <1> QED
    BY <1>2, <1>3, <1>4, <1>5, <1>6 DEF OrderInv

--------------------------------------------------------------------------------
(* The steps that take up an update *)

\* Server s takes up update u: it did not have it, and has all that u's originator
\* made before.
Takes(s, u) ==
  /\ u \notin Logged(s)
  /\ log' = [log EXCEPT ![s] = Extended(s, u)]
  /\ server_lts' = [server_lts EXCEPT ![s][u.server_id] = u.lts]
  /\ server_updates' = [server_updates EXCEPT ![s][u.server_id] = u.update_num]
  /\ db' = [db EXCEPT ![s] = Applied(@, u)]
  /\ server_lts[s][u.server_id] < u.lts /\ server_updates[s][u.server_id] < u.update_num
  /\ \A w \in Known : w.server_id = u.server_id /\ w.lts < u.lts => w \in Logged(s)

\* What it has and its vector after that.
LEMMA TakesEffect ==
  ASSUME TypeOK, NEW s \in Server, NEW u \in Update, Takes(s, u)
  PROVE  /\ Logged(s)' = Logged(s) \cup {u}
         /\ \A t \in Server : t # s => Logged(t)' = Logged(t)
         /\ server_lts'[s][u.server_id] = u.lts /\ server_updates'[s][u.server_id] = u.update_num
         /\ \A t, o \in Server : t # s \/ o # u.server_id =>
              server_lts'[t][o] = server_lts[t][o] /\ server_updates'[t][o] = server_updates[t][o]
         /\ \A t \in Server : t # s => server_lts'[t] = server_lts[t]
         /\ \A t, o \in Server : server_lts[t][o] <= server_lts'[t][o]
PROOF
  <1>1. /\ server_lts \in [Server -> [Server -> Nat]] /\ server_updates \in [Server -> [Server -> Nat]]
        /\ u.server_id \in Server /\ u.lts \in Nat /\ u.update_num \in Nat
    BY DEF TypeOK, ClockType, Vector, Update
  <1>2. /\ log' = [log EXCEPT ![s] = Extended(s, u)]
        /\ server_lts' = [server_lts EXCEPT ![s] = [server_lts[s] EXCEPT ![u.server_id] = u.lts]]
        /\ server_updates' =
             [server_updates EXCEPT ![s] = [server_updates[s] EXCEPT ![u.server_id] = u.update_num]]
        /\ server_lts[s][u.server_id] < u.lts
    BY DEF Takes
  <1>3. Logged(s)' = Logged(s) \cup {u} /\ \A t \in Server : t # s => Logged(t)' = Logged(t)
    BY <1>2, LoggedExtended
  <1>4. /\ server_lts'[s][u.server_id] = u.lts /\ server_updates'[s][u.server_id] = u.update_num
        /\ \A t, o \in Server : t # s \/ o # u.server_id =>
             server_lts'[t][o] = server_lts[t][o] /\ server_updates'[t][o] = server_updates[t][o]
        /\ \A t \in Server : t # s => server_lts'[t] = server_lts[t]
    BY <1>1, <1>2
  <1>5. ASSUME NEW t \in Server, NEW o \in Server PROVE server_lts[t][o] <= server_lts'[t][o]
    <2>1. CASE t = s /\ o = u.server_id
      BY <1>1, <1>2, <1>4, <2>1
    <2>2. CASE t # s \/ o # u.server_id
      <3>1. server_lts'[t][o] = server_lts[t][o] /\ server_lts[t][o] \in Nat
        BY <1>1, <1>4, <2>2
      <3> QED
        BY <3>1
    <2> QED
      BY <2>1, <2>2
  <1> QED
    BY <1>3, <1>4, <1>5

\* The log is still a prefix of the updates of each originator.
LEMMA TakesPrefix ==
  ASSUME TypeOK, TypeOK', LogIsPrefix, KeyInv', NEW s \in Server, NEW u \in Update, Takes(s, u),
         u \in Known', Known' \subseteq Known \cup {u},
         \A t \in Server : t # s =>
           \/ u \in Known
           \/ /\ u \notin Logged(t) /\ server_lts[t][u.server_id] < u.lts
              /\ server_updates[t][u.server_id] < u.update_num
  PROVE  LogIsPrefix'
PROOF
  <1> DEFINE o == u.server_id
  <1>1. /\ Logged(s)' = Logged(s) \cup {u}
        /\ \A t \in Server : t # s => Logged(t)' = Logged(t)
        /\ server_lts'[s][o] = u.lts /\ server_updates'[s][o] = u.update_num
        /\ \A t, p \in Server : t # s \/ p # o =>
             server_lts'[t][p] = server_lts[t][p] /\ server_updates'[t][p] = server_updates[t][p]
    BY TakesEffect
  <1>2. /\ \A w \in Known : w.lts \in Nat /\ w.update_num \in Nat /\ w.server_id \in Server
        /\ u.lts \in Nat /\ u.update_num \in Nat /\ o \in Server
        /\ \A t, p \in Server : server_lts[t][p] \in Nat /\ server_updates[t][p] \in Nat
    BY KnownFacts DEF Update
  <1>3. \A w \in Known' : w.server_id = o /\ w # u =>
          /\ w.lts < u.lts <=> w.update_num < u.update_num
          /\ w.lts # u.lts
    BY DEF KeyInv, UpdateKeyUnique, NumbersFollowClock
  <1>4. \A w \in Known' : w.server_id = o /\ w # u =>
          (w.lts <= u.lts => w \in Logged(s))
    BY <1>2, <1>3 DEF Takes
  <1>5. server_lts[s][o] < u.lts /\ server_updates[s][o] < u.update_num
    BY DEF Takes
  <1> SUFFICES ASSUME NEW t \in Server, NEW w \in Known'
               PROVE  /\ w \in Logged(t)' <=> w.lts <= server_lts'[t][w.server_id]
                      /\ w \in Logged(t)' <=> w.update_num <= server_updates'[t][w.server_id]
    BY DEF LogIsPrefix
  <1> HIDE DEF o
  <1>6. w \in Known =>
          /\ w \in Logged(t) <=> w.lts <= server_lts[t][w.server_id]
          /\ w \in Logged(t) <=> w.update_num <= server_updates[t][w.server_id]
    BY DEF LogIsPrefix
  <1>7. CASE t = s /\ w = u
    BY <1>1, <1>2, <1>7 DEF o
  <1>8. CASE t = s /\ w # u /\ w.server_id = o
    <2>1. w \in Known /\ w.lts \in Nat /\ w.update_num \in Nat
      BY <1>2, <1>8
    <2>2. w \in Logged(s)' <=> w \in Logged(s)
      BY <1>1, <1>8
    <2>3. w \in Logged(s) => w.lts <= u.lts /\ w.update_num <= u.update_num
      BY <1>2, <1>5, <1>6, <1>8, <2>1
    <2>4. w.update_num <= u.update_num => w.lts <= u.lts
      <3>1. \/ u.lts < w.lts \/ w.lts <= u.lts
        BY <1>2, <2>1
      <3>2. u.lts < w.lts => u.update_num < w.update_num
        BY <1>8 DEF KeyInv, NumbersFollowClock, o
      <3> QED
        BY <1>2, <2>1, <3>1, <3>2
    <2>5. w.lts <= u.lts => w \in Logged(s)
      BY <1>4, <1>8
    <2> QED
      BY <1>1, <1>8, <2>2, <2>3, <2>4, <2>5
  <1>9. CASE t = s /\ w # u /\ w.server_id # o
    <2>1. w \in Known /\ (w \in Logged(s)' <=> w \in Logged(s)) /\ w.server_id \in Server
      BY <1>1, <1>2, <1>9
    <2> QED
      BY <1>1, <1>6, <1>9, <2>1
  <1>10. CASE t # s /\ w \in Known
    BY <1>1, <1>2, <1>6, <1>10
  <1>11. CASE t # s /\ w \notin Known
    <2>1. w = u /\ u \notin Logged(t) /\ server_lts[t][o] < u.lts /\ server_updates[t][o] < u.update_num
      BY <1>11 DEF o
    <2> QED
      BY <1>1, <1>2, <1>11, <2>1 DEF o
  <1> QED
    BY <1>7, <1>8, <1>9, <1>10, <1>11

--------------------------------------------------------------------------------
(* Reading an update *)

Read(s) == Head(inbox[s]).update

\* An ordinary update is never read, and so never dropped, during a synchronisation:
\* it is behind the last SyncEnd.
LEMMA UpdateHeadLive ==
  ASSUME TypeOK, ControlInv, NEW s \in Server, Receives(s, "Update")
  PROVE  ~ syncOn[s]
PROOF
  <1> SUFFICES ASSUME syncOn[s] PROVE FALSE
    OBVIOUS
  <1>0. Components /\ MembOK /\ CountOK /\ EndsOK /\ AfterEndsOK
    BY DEF ControlInv
  <1>1. /\ inbox[s] \in Seq(Message) /\ comp[s] \in SUBSET Server
        /\ syncEnd_rcvd[s] \in Nat /\ num_memb[s] \in Nat
    BY <1>0, CompTypes
  <1>2. 1 \in Positions(inbox[s], "Update") /\ \A i \in DOMAIN inbox[s] : i \in Nat /\ i >= 1
    BY <1>1, TailAt DEF Receives, Positions
  <1>3. AllFinished(s) /\ UpdatesLast(inbox[s])
    BY <1>0, <1>2 DEF AfterEndsOK
  <1>4. FinishedOf(s) = comp[s]
    BY <1>3 DEF AllFinished, FinishedOf
  <1>5. /\ syncEnd_rcvd[s] < Cardinality(comp[s])
        /\ syncEnd_rcvd[s] + Cardinality(Positions(inbox[s], "SyncEnd")) = Cardinality(comp[s])
    BY <1>0, <1>4 DEF EndsOK, CountOK, MembOK
  <1>6. Positions(inbox[s], "SyncEnd") = {}
    BY <1>2, <1>3 DEF UpdatesLast, Positions
  <1>7. Cardinality(Positions(inbox[s], "SyncEnd")) = 0
    BY <1>6, FS_EmptySet
  <1> QED
    BY <1>1, <1>5, <1>7

\* What is read is known already.
LEMMA ReadKnown ==
  ASSUME TypeOK, NEW s \in Server, RecvUpdate(s) \/ RecvSyncUpdate(s)
  PROVE  /\ inbox[s] \in Seq(Message) /\ inbox[s] # <<>> /\ inbox' = Received[s]
         /\ Carries(Head(inbox[s])) /\ Read(s) \in Known /\ Read(s) \in Update
         /\ Read(s) \in Updates(inbox[s])
         /\ inbox'[s] = Tail(inbox[s]) /\ \A t \in Server : t # s => inbox'[t] = inbox[t]
         /\ \A t \in Server : Updates(inbox'[t]) \subseteq Updates(inbox[t])
PROOF
  <1>1. inbox[s] # <<>> /\ inbox' = Received[s] /\ Head(inbox[s]).type \in Updating
    BY DEF RecvUpdate, RecvSyncUpdate, Receives, Updating
  <1>2. Read(s) \in Known /\ Read(s) \in Update
    BY <1>1, ReceivedUpdates, KnownType DEF Read
  <1>3. /\ inbox[s] \in Seq(Message) /\ inbox'[s] = Tail(inbox[s]) /\ Head(inbox[s]) \in Message
        /\ \A t \in Server : t # s => inbox'[t] = inbox[t]
    BY <1>1, ReadInbox
  <1>4. Updates(Tail(inbox[s])) \subseteq Updates(inbox[s]) /\ Read(s) \in Updates(inbox[s])
    BY <1>1, <1>3, UpdatesOfSeq DEF Read
  <1>5. \A t \in Server : Updates(inbox'[t]) \subseteq Updates(inbox[t])
    BY <1>3, <1>4
  <1> QED
    BY <1>1, <1>2, <1>3, <1>4, <1>5 DEF Carries, Updating

\* An update that applies to a server that has all that precedes it is taken up if
\* it is accepted, and is in the log already if it is not.
LEMMA ApplyTakes ==
  ASSUME TypeOK, Undisturbed, ObjectsOnly, LogIsPrefix, NEW s \in Server,
         NEW u \in Update, u \in Known, ApplyUpdate(s, u),
         ~ syncOn[s] => server_lts[s][u.server_id] < u.lts,
         \A w \in Known : w.server_id = u.server_id /\ w.lts < u.lts => w \in Logged(s)
  PROVE  /\ ~ Accepted(s, u) => u \in Logged(s) /\ UNCHANGED <<log, server_lts, server_updates, db>>
         /\ Accepted(s, u) => Takes(s, u)
PROOF
  <1>1. /\ u \in Logged(s) <=> u.lts <= server_lts[s][u.server_id]
        /\ u \in Logged(s) <=> u.update_num <= server_updates[s][u.server_id]
        /\ u.lts \in Nat /\ u.update_num \in Nat /\ u.server_id \in Server
        /\ server_lts[s][u.server_id] \in Nat /\ server_updates[s][u.server_id] \in Nat
    BY KnownFacts DEF LogIsPrefix
  <1>2. ASSUME ~ Accepted(s, u) PROVE u \in Logged(s) /\ UNCHANGED <<log, server_lts, server_updates, db>>
    BY <1>1, <1>2 DEF Accepted, ApplyUpdate
  <1>3. ASSUME Accepted(s, u) PROVE Takes(s, u)
    <2>1. u \notin Logged(s)
      BY <1>1, <1>3 DEF Accepted
    <2>2. server_lts[s][u.server_id] < u.lts /\ server_updates[s][u.server_id] < u.update_num
      BY <1>1, <2>1
    <2>3. ~ Fatal(s, u)
      BY NoExit DEF Undisturbed, ObjectsOnly
    <2> QED
      BY <1>3, <2>1, <2>2, <2>3 DEF Takes, ApplyUpdate
  <1> QED
    BY <1>2, <1>3

\* A server that reads an update takes it up or has it.
ReadsOne(s) ==
  \/ Read(s) \in Logged(s) /\ UNCHANGED <<log, server_lts, server_updates, db>>
  \/ Takes(s, Read(s)) /\ Read(s) \in served'[s] /\ Read(s).server_id # s

LEMMA ReadEffect ==
  ASSUME CoreStateInv, NEW s \in Server, RecvUpdate(s) \/ RecvSyncUpdate(s)
  PROVE  /\ ReadsOne(s) /\ UNCHANGED <<update_seq, syncVars, loopVars, up, netVars>>
         /\ \A t \in Server : lts[t] <= lts'[t]
         /\ \A t \in Server : served[t] \subseteq served'[t]
         /\ RecvUpdate(s) => ~ syncOn[s] /\ Read(s) \in served'[s]
         /\ RecvSyncUpdate(s) => syncOn[s] /\ Joined(s) /\ Head(inbox[s]).type = "SyncUpdate"
PROOF
  <1> DEFINE u == Read(s)
  <1>1. /\ TypeOK /\ ControlInv /\ Undisturbed /\ ObjectsOnly /\ LogIsPrefix /\ NoGap /\ InOrder
        /\ OriginatorHasIt
    BY DEF CoreStateInv, TypeInv, CoreInv, ControlInv, OrderInv, KeyInv
  <1>2. /\ inbox[s] \in Seq(Message) /\ inbox[s] # <<>> /\ Carries(Head(inbox[s]))
        /\ u \in Known /\ u \in Update
    BY <1>1, ReadKnown
  <1>3. 1 \in DOMAIN inbox[s] /\ inbox[s][1] = Head(inbox[s]) /\ \A i \in DOMAIN inbox[s] : i \in Nat /\ i >= 1
    BY <1>2, TailAt
  <1>4. \A w \in Known : w.server_id = u.server_id /\ w.lts < u.lts => w \in Logged(s)
    BY <1>1, <1>2, <1>3 DEF NoGap, GapFree, Read
  <1>5. u.entity_type = "OBJ" /\ u \in Logged(u.server_id) /\ u.server_id \in Server
    BY <1>1, <1>2 DEF ObjectsOnly, OriginatorHasIt, Update
  <1>6. RecvUpdate(s) => ~ syncOn[s]
    BY <1>1, UpdateHeadLive DEF RecvUpdate
  <1>7. RecvSyncUpdate(s) => syncOn[s] /\ Joined(s) /\ Head(inbox[s]).type = "SyncUpdate"
    BY <1>1, HeadFresh DEF RecvSyncUpdate, Receives
  <1>8. up[s] /\ served \in [Server -> SUBSET Update] /\ \A t \in Server : lts[t] \in Nat
    BY <1>1 DEF RecvUpdate, RecvSyncUpdate, Receives, TypeOK, ProcessType, ClockType
  <1>9. \A t \in Server : served[t] \subseteq served'[t]
    BY <1>8 DEF RecvUpdate, RecvSyncUpdate, Respond
  <1>10. ASSUME ApplyUpdate(s, u) PROVE UNCHANGED up /\ \A t \in Server : lts[t] <= lts'[t]
    <2>1. UNCHANGED up
      BY <1>1, <1>2, <1>10, NoExit DEF Undisturbed, ObjectsOnly
    <2>2. \A t \in Server : lts[t] <= lts'[t]
      BY <1>1, <1>2, <1>8, <1>10, ApplyUpdateEffect
    <2> QED
      BY <2>1, <2>2
  <1>11. CASE RecvUpdate(s) /\ u.server_id = s
    <2>1. UNCHANGED <<lts, server_lts, server_updates, fileVars, up>> /\ Respond(s, u)
      BY <1>6, <1>8, <1>11 DEF RecvUpdate, Read
    <2>2. u \in served'[s]
      BY <1>5, <1>8, <2>1 DEF Respond
    <2> QED
      BY <1>5, <1>6, <1>7, <1>8, <1>9, <1>11, <2>1, <2>2 DEF ReadsOne, fileVars, RecvUpdate
  <1>12. CASE RecvUpdate(s) /\ u.server_id # s
    <2>1. ApplyUpdate(s, u) /\ ~ syncOn[s] /\ (up'[s] => Respond(s, u))
      BY <1>6, <1>12 DEF RecvUpdate, Read
    <2>2. server_lts[s][u.server_id] < u.lts
      BY <1>1, <1>3, <1>12 DEF InOrder, Positions, RecvUpdate, Receives, Read
    <2>3. Takes(s, u)
      <3>1. Accepted(s, u)
        BY <2>1 DEF Accepted
      <3> QED
        BY <1>1, <1>2, <1>4, <2>1, <2>2, <3>1, ApplyTakes
    <2>4. u \in served'[s]
      BY <1>5, <1>8, <1>10, <2>1 DEF Respond
    <2> QED
      BY <1>6, <1>7, <1>9, <1>10, <1>12, <2>1, <2>3, <2>4 DEF ReadsOne, RecvUpdate
  <1>13. CASE RecvSyncUpdate(s)
    <2>1. ApplyUpdate(s, u) /\ syncOn[s] /\ (Accepted(s, u) /\ up'[s] => Respond(s, u))
      BY <1>7, <1>13 DEF RecvSyncUpdate, Read
    <2>2. /\ ~ Accepted(s, u) => u \in Logged(s) /\ UNCHANGED <<log, server_lts, server_updates, db>>
          /\ Accepted(s, u) => Takes(s, u)
      BY <1>1, <1>2, <1>4, <2>1, ApplyTakes
    <2>3. Takes(s, u) => u.server_id # s
      BY <1>5 DEF Takes
    <2>4. Accepted(s, u) => u \in served'[s]
      BY <1>5, <1>8, <1>10, <2>1 DEF Respond
    <2>5. ~ RecvUpdate(s)
      BY <1>6, <1>7, <1>13
    <2> QED
      BY <1>7, <1>9, <1>10, <1>13, <2>1, <2>2, <2>3, <2>4, <2>5 DEF ReadsOne, RecvSyncUpdate
  <1> QED
    BY <1>11, <1>12, <1>13

\* Nobody loses an update, or has one that it would not have read.
LEMMA ReadHas ==
  ASSUME CoreStateInv, NEW s \in Server, RecvUpdate(s) \/ RecvSyncUpdate(s)
  PROVE  /\ Known' \subseteq Known
         /\ \A t \in Server : Has(t)' = Has(t) /\ Logged(t) \subseteq Logged(t)'
         /\ Read(s) \in Logged(s)' /\ Logged(s)' \subseteq Logged(s) \cup {Read(s)}
         /\ \A t \in Server : t # s => Logged(t)' = Logged(t)
         /\ \A t, o \in Server : server_lts[t][o] <= server_lts'[t][o]
         /\ \A t \in Server : t # s => server_lts'[t] = server_lts[t]
PROOF
  <1>0. TypeOK
    BY DEF CoreStateInv, TypeInv
  <1>1. ReadsOne(s) /\ Read(s) \in Update
    BY <1>0, ReadEffect, ReadKnown
  <1>2. /\ Read(s) \in Logged(s)' /\ Logged(s)' \subseteq Logged(s) \cup {Read(s)}
        /\ \A t \in Server : t # s => Logged(t)' = Logged(t)
        /\ \A t \in Server : Logged(t) \subseteq Logged(t)'
        /\ \A t, o \in Server : server_lts[t][o] <= server_lts'[t][o]
        /\ \A t \in Server : t # s => server_lts'[t] = server_lts[t]
    <2>1. CASE Read(s) \in Logged(s) /\ UNCHANGED <<log, server_lts>>
      <3>1. \A t, o \in Server : server_lts[t][o] \in Nat
        BY <1>0, KnownFacts
      <3>2. \A t \in Server : Logged(t)' = Logged(t)
        BY <2>1 DEF Logged
      <3> QED
        BY <2>1, <3>1, <3>2
    <2>2. CASE Takes(s, Read(s))
      <3>1. /\ Logged(s)' = Logged(s) \cup {Read(s)}
            /\ \A t \in Server : t # s => Logged(t)' = Logged(t)
            /\ \A t, o \in Server : server_lts[t][o] <= server_lts'[t][o]
            /\ \A t \in Server : t # s => server_lts'[t] = server_lts[t]
        BY <1>0, <1>1, <2>2, TakesEffect
      <3> QED
        BY <3>1
    <2> QED
      BY <1>1, <2>1, <2>2 DEF ReadsOne
  <1>3. /\ inbox[s] \in Seq(Message) /\ inbox[s] # <<>> /\ Read(s) \in Updates(inbox[s])
        /\ inbox'[s] = Tail(inbox[s])
        /\ \A t \in Server : t # s => inbox'[t] = inbox[t]
        /\ \A t \in Server : Updates(inbox'[t]) \subseteq Updates(inbox[t])
    BY <1>0, ReadKnown
  <1>4. Updates(inbox[s]) \subseteq Updates(inbox'[s]) \cup {Read(s)}
    <2>1. /\ inbox[s][1] = Head(inbox[s])
          /\ \A i \in DOMAIN inbox[s] : i # 1 =>
               i - 1 \in DOMAIN inbox'[s] /\ inbox'[s][i - 1] = inbox[s][i]
      BY <1>3, TailAt
    <2> QED
      BY <2>1 DEF Updates, Read
  <1>5. ASSUME NEW t \in Server PROVE Has(t)' = Has(t)
    <2>1. Has(t) = Logged(t) \cup Updates(inbox[t]) /\ Has(t)' = Logged(t)' \cup Updates(inbox'[t])
      BY CarriedUpdates DEF Has
    <2>2. CASE t = s
      BY <1>2, <1>3, <1>4, <2>1, <2>2
    <2>3. CASE t # s
      BY <1>2, <1>3, <2>1, <2>3
    <2> QED
      BY <2>2, <2>3
  <1>6. Known' \subseteq Known
    BY <1>5 DEF Known, Has
  <1> QED
    BY <1>2, <1>5, <1>6

LEMMA ReadOrder ==
  ASSUME CoreStateInv, TypeOK', KeyInv', NEW s \in Server, RecvUpdate(s) \/ RecvSyncUpdate(s)
  PROVE  OrderInv'
PROOF
  <1> DEFINE u == Read(s)
  <1>0. /\ TypeOK /\ ObjectsOnly /\ VectorWithin /\ LogIsPrefix /\ NoGap /\ InOrder
        /\ WithinCounters
    BY DEF CoreStateInv, TypeInv, CoreInv, OrderInv, KeyInv
  <1>1. /\ inbox[s] \in Seq(Message) /\ inbox[s] # <<>> /\ u \in Known /\ u \in Update
        /\ inbox'[s] = Tail(inbox[s]) /\ \A t \in Server : t # s => inbox'[t] = inbox[t]
        /\ Carries(Head(inbox[s]))
    BY <1>0, ReadKnown
  <1>2. /\ Known' \subseteq Known /\ \A t \in Server : Logged(t) \subseteq Logged(t)'
        /\ u \in Logged(s)'
    BY ReadHas
  <1>3. /\ ReadsOne(s) /\ UNCHANGED update_seq
        /\ \A t \in Server : lts[t] <= lts'[t]
    BY ReadEffect
  <1>4. ObjectsOnly'
    BY <1>0, <1>2 DEF ObjectsOnly
  <1>5. CASE u \in Logged(s) /\ UNCHANGED <<log, server_lts, server_updates>>
    <2>1. VectorWithin'
      <3>1. \A t, o \in Server : server_lts[t][o] \in Nat /\ lts[o] \in Nat /\ lts'[o] \in Nat
        BY <1>0, KnownFacts DEF TypeOK, ClockType
      <3> QED
        BY <1>0, <1>3, <1>5, <3>1 DEF VectorWithin
    <2>2. \A t \in Server : Logged(t)' = Logged(t)
      BY <1>5 DEF Logged
    <2>3. LogIsPrefix'
      BY <1>0, <1>2, <1>5, <2>2 DEF LogIsPrefix
    <2>4. \A t \in Server : \A i \in Positions(inbox'[t], "Update") :
            \E j \in Positions(inbox[t], "Update") : inbox'[t][i] = inbox[t][j]
      <3>1. \A i \in DOMAIN Tail(inbox[s]) : i + 1 \in DOMAIN inbox[s] /\ Tail(inbox[s])[i] = inbox[s][i + 1]
        BY <1>1, TailAt
      <3>2. \A i \in Positions(inbox'[s], "Update") :
              i + 1 \in Positions(inbox[s], "Update") /\ inbox'[s][i] = inbox[s][i + 1]
        BY <1>1, <3>1 DEF Positions
      <3> QED
        BY <1>1, <3>2
    <2>5. \A t \in Server : Ascends(inbox'[t])
      BY <1>0, <1>1, TailKeeps DEF InOrder
    <2>6. InOrder'
      BY <1>0, <1>5, <2>4, <2>5 DEF InOrder
    <2>7. NoGap'
      <3> SUFFICES ASSUME NEW t \in Server PROVE GapFree(inbox'[t], Logged(t)', Known')
        BY DEF NoGap
      <3>1. GapFree(inbox[t], Logged(t), Known')
        BY <1>0, <1>2 DEF NoGap, GapFree
      <3>2. CASE t = s
        BY <1>1, <1>2, <1>5, <2>2, <3>1, <3>2, TailGap DEF Read
      <3>3. CASE t # s
        BY <1>1, <2>2, <3>1, <3>3
      <3> QED
        BY <3>2, <3>3
    <2> QED
      BY <1>4, <2>1, <2>3, <2>6, <2>7 DEF OrderInv
  <1>6. CASE Takes(s, u)
    <2>1. /\ server_lts'[s][u.server_id] = u.lts /\ server_updates'[s][u.server_id] = u.update_num
          /\ \A t, o \in Server : t # s \/ o # u.server_id =>
               server_lts'[t][o] = server_lts[t][o] /\ server_updates'[t][o] = server_updates[t][o]
      BY <1>0, <1>1, <1>6, TakesEffect
    <2>2. VectorWithin'
      <3>1. /\ \A t, o \in Server : server_lts[t][o] \in Nat /\ lts[o] \in Nat /\ lts'[o] \in Nat
            /\ u.lts \in Nat /\ u.server_id \in Server
        BY <1>0, <1>1, KnownFacts DEF TypeOK, ClockType, Update
      <3>2. u.lts <= lts[u.server_id] /\ u.update_num <= update_seq[u.server_id]
        BY <1>0, <1>1 DEF WithinCounters
      <3>3. ASSUME NEW t \in Server, NEW o \in Server
            PROVE  server_lts'[t][o] <= lts'[o] /\ server_updates'[t][o] <= update_seq[o]
        <4>1. server_lts[t][o] <= lts[o] /\ server_updates[t][o] <= update_seq[o]
          BY <1>0 DEF VectorWithin
        <4>2. server_lts'[t][o] <= lts[o] /\ server_updates'[t][o] <= update_seq[o]
          BY <2>1, <3>2, <4>1
        <4>3. server_lts'[t][o] \in Nat
          BY DEF TypeOK, ClockType, Vector
        <4> QED
          BY <1>3, <3>1, <4>2, <4>3
      <3> QED
        BY <1>3, <3>3 DEF VectorWithin
    <2>3. LogIsPrefix'
      <3>1. u \in Known'
        BY <1>2 DEF Known
      <3> QED
        BY <1>0, <1>1, <1>2, <1>6, <3>1, TakesPrefix
    <2>4. NoGap'
      <3> SUFFICES ASSUME NEW t \in Server PROVE GapFree(inbox'[t], Logged(t)', Known')
        BY DEF NoGap
      <3>1. GapFree(inbox[t], Logged(t), Known')
        BY <1>0, <1>2 DEF NoGap, GapFree
      <3>2. CASE t = s
        BY <1>1, <1>2, <3>1, <3>2, TailGap DEF Read
      <3>3. CASE t # s
        BY <1>1, <1>2, <3>1, <3>3, NewGap
      <3> QED
        BY <3>2, <3>3
    <2>5. InOrder'
      <3> SUFFICES ASSUME NEW t \in Server
                   PROVE  /\ Ascends(inbox'[t])
                          /\ \A i \in Positions(inbox'[t], "Update") :
                               inbox'[t][i].update.server_id # t =>
                                 server_lts'[t][inbox'[t][i].update.server_id] < inbox'[t][i].update.lts
        BY DEF InOrder
      <3>1. /\ Ascends(inbox[t])
            /\ \A i \in Positions(inbox[t], "Update") :
                 inbox[t][i].update.server_id # t =>
                   server_lts[t][inbox[t][i].update.server_id] < inbox[t][i].update.lts
        BY <1>0 DEF InOrder
      <3>2. CASE t # s
        <4>1. inbox'[t] = inbox[t]
          BY <1>1, <3>2
        <4>2. server_lts'[t] = server_lts[t]
          BY <3>2, ReadHas
        <4> QED
          BY <3>1, <4>1, <4>2
      <3>3. CASE t = s
        <4>1. Ascends(Tail(inbox[s]))
          BY <1>1, <3>1, <3>3, TailKeeps
        <4>2. ASSUME NEW i \in Positions(inbox'[s], "Update"), inbox'[s][i].update.server_id # s
              PROVE  server_lts'[s][inbox'[s][i].update.server_id] < inbox'[s][i].update.lts
          <5>1. /\ i \in DOMAIN Tail(inbox[s]) /\ i \in Nat /\ i >= 1 /\ i + 1 \in DOMAIN inbox[s]
                /\ inbox'[s][i] = inbox[s][i + 1] /\ 1 \in DOMAIN inbox[s] /\ inbox[s][1] = Head(inbox[s])
            BY <1>1, TailAt DEF Positions
          <5>2. i + 1 \in Positions(inbox[s], "Update") /\ 1 < i + 1
            BY <5>1 DEF Positions
          <5> DEFINE v == inbox[s][i + 1].update
          <5>3. /\ v.server_id # s /\ server_lts[s][v.server_id] < v.lts
                /\ u.server_id = v.server_id => u.lts < v.lts
                /\ v = inbox'[s][i].update
            BY <1>1, <3>1, <3>3, <4>2, <5>1, <5>2 DEF Ascends, Read
          <5>4. v.server_id \in Server
            <6>1. v \in Updates(inbox[s])
              BY <5>1, <5>2 DEF Updates, Updating, Positions
            <6> QED
              BY <1>0, <6>1, KnownFacts
          <5> HIDE DEF v
          <5>5. server_lts'[s][v.server_id] < v.lts
            BY <2>1, <5>3, <5>4
          <5> QED
            BY <5>3, <5>5
        <4> QED
          BY <1>1, <3>3, <4>1, <4>2
      <3> QED
        BY <3>2, <3>3
    <2> QED
      BY <1>4, <2>2, <2>3, <2>4, <2>5 DEF OrderInv
  <1> QED
    BY <1>3, <1>5, <1>6 DEF ReadsOne

--------------------------------------------------------------------------------
(* Sending an update *)

LEMMA MulticastHas ==
  ASSUME TypeOK, Components, NEW s \in Server, NEW m \in Message, m.type \in Updating,
         inbox' = Multicast(inbox, s, m)
  PROVE  /\ \A t \in comp[s] : Updates(inbox'[t]) = Updates(inbox[t]) \cup {m.update}
         /\ \A t \in Server : t \notin comp[s] => Updates(inbox'[t]) = Updates(inbox[t])
PROOF
  <1>1. /\ \A t \in Server : t \in comp[s] => inbox'[t] = Append(inbox[t], m)
        /\ \A t \in Server : t \notin comp[s] => inbox'[t] = inbox[t]
    BY DeliverInbox
  <1>2. comp[s] \in SUBSET Server /\ \A t \in Server : inbox[t] \in Seq(Message)
    BY KnownFacts
  <1>3. ASSUME NEW q \in Seq(Message) PROVE Updates(Append(q, m)) = Updates(q) \cup {m.update}
    <2>1. /\ \A i \in DOMAIN q : i \in DOMAIN Append(q, m) /\ Append(q, m)[i] = q[i]
          /\ Len(q) + 1 \in DOMAIN Append(q, m) /\ Append(q, m)[Len(q) + 1] = m
      BY AppendAt
    <2>2. Updates(q) \subseteq Updates(Append(q, m)) /\ m.update \in Updates(Append(q, m))
      BY <2>1 DEF Updates
    <2>3. Updates(Append(q, m)) \subseteq Updates(q) \cup {m.update}
      BY UpdatesOfSeq
    <2> QED
      BY <2>2, <2>3
  <1> QED
    BY <1>1, <1>2, <1>3

Resent(s) == LogRecord(s, First(job[s]))
ResendOf(s) == [type |-> "SyncUpdate", update |-> Resent(s)]

\* The update resent is the first of the job, and all members get it.
LEMMA SendEffect ==
  ASSUME TypeInv, Components, NEW s \in Server, SendUpdate(s)
  PROVE  /\ Resent(s) \in Logged(s) /\ Resent(s) \in Update
         /\ <<Resent(s).server_id, Resent(s).lts>> \in job[s]
         /\ job' = [job EXCEPT ![s] = @ \ {<<Resent(s).server_id, Resent(s).lts>>}]
         /\ \A q \in job[s] : q[1] = Resent(s).server_id => Resent(s).lts <= q[2]
         /\ ResendOf(s) \in Message /\ inbox' = Multicast(inbox, s, ResendOf(s))
         /\ \A t \in comp[s] : Updates(inbox'[t]) = Updates(inbox[t]) \cup {Resent(s)}
         /\ \A t \in Server : t \notin comp[s] => Updates(inbox'[t]) = Updates(inbox[t])
         /\ \A t \in Server : Logged(t)' = Logged(t)
         /\ \A t \in comp[s] : Has(t)' = Has(t) \cup {Resent(s)}
         /\ \A t \in Server : t \notin comp[s] => Has(t)' = Has(t)
         /\ Known' \subseteq Known
PROOF
  <1> DEFINE p == First(job[s])
  <1>0. TypeOK
    BY DEF TypeInv
  <1>1. job[s] \subseteq Server \X Nat /\ job[s] # {}
    BY <1>0 DEF SendUpdate, TypeOK, LoopType
  <1>2. p \in job[s] /\ \A q \in job[s] : Before(p, q)
    BY <1>1, FirstIn
  <1>3. /\ Resent(s) \in Logged(s) /\ Resent(s) \in Update
        /\ Resent(s).server_id = p[1] /\ Resent(s).lts = p[2]
    BY SendUpdateType DEF Resent
  <1>4. p = <<Resent(s).server_id, Resent(s).lts>>
    BY <1>1, <1>2, <1>3
  <1>5. job' = [job EXCEPT ![s] = @ \ {p}] /\ inbox' = Multicast(inbox, s, ResendOf(s)) /\ UNCHANGED log
    BY DEF SendUpdate, ResendOf, Resent, fileVars
  <1> HIDE DEF p
  <1>6. \A q \in job[s] : q[1] = Resent(s).server_id => Resent(s).lts <= q[2]
    <2> SUFFICES ASSUME NEW q \in job[s], q[1] = Resent(s).server_id PROVE Resent(s).lts <= q[2]
      OBVIOUS
    <2>1. Before(p, q) /\ p[1] = q[1] /\ p[1] \in Nat
      BY <1>1, <1>2, <1>3, NAssumption DEF Server
    <2> QED
      BY <1>3, <2>1 DEF Before
  <1>7. ResendOf(s) \in Message /\ ResendOf(s).type \in Updating /\ ResendOf(s).update = Resent(s)
    BY <1>3, NewMessages DEF ResendOf, Updating
  <1>8. /\ \A t \in comp[s] : Updates(inbox'[t]) = Updates(inbox[t]) \cup {Resent(s)}
        /\ \A t \in Server : t \notin comp[s] => Updates(inbox'[t]) = Updates(inbox[t])
    BY <1>0, <1>5, <1>7, MulticastHas
  <1>9. \A t \in Server : Logged(t)' = Logged(t)
    BY <1>5 DEF Logged
  <1>10. comp[s] \in SUBSET Server
    BY <1>0, KnownFacts
  <1>11. /\ \A t \in comp[s] : Has(t)' = Has(t) \cup {Resent(s)}
         /\ \A t \in Server : t \notin comp[s] => Has(t)' = Has(t)
    BY <1>8, <1>9, <1>10, CarriedUpdates DEF Has
  <1>12. Known' \subseteq Known
    <2>1. Resent(s) \in Known
      BY <1>3, KnownParts
    <2> QED
      BY <1>11, <2>1 DEF Known, Has
  <1> QED
    BY <1>2, <1>3, <1>4, <1>5, <1>6, <1>7, <1>8, <1>9, <1>11, <1>12

\* What precedes the update resent, every member has or will have read: of what it
\* lacks the sender sends the oldest first.
LEMMA SendOrder ==
  ASSUME CoreStateInv, NEW s \in Server, SendUpdate(s)
  PROVE  OrderInv'
PROOF
  <1> DEFINE u == Resent(s)
             m == ResendOf(s)
  <1>0. /\ TypeInv /\ TypeOK /\ ControlInv /\ Components /\ JobOK /\ ObjectsOnly /\ VectorWithin
        /\ LogIsPrefix /\ NoGap /\ InOrder /\ Ceiling /\ Promised
    BY DEF CoreStateInv, TypeInv, CoreInv, ControlInv, OrderInv, PromiseInv
  <1>1. /\ u \in Update /\ u \in Logged(s) /\ <<u.server_id, u.lts>> \in job[s]
        /\ \A q \in job[s] : q[1] = u.server_id => u.lts <= q[2]
        /\ m \in Message /\ inbox' = Multicast(inbox, s, m)
        /\ \A t \in Server : Logged(t)' = Logged(t)
        /\ Known' \subseteq Known
    BY <1>0, SendEffect
  <1>2. m.type = "SyncUpdate" /\ m.update = u
    BY DEF ResendOf
  <1>3. /\ \A t \in Server : t \in comp[s] => inbox'[t] = Append(inbox[t], m)
        /\ \A t \in Server : t \notin comp[s] => inbox'[t] = inbox[t]
    BY <1>0, <1>1, DeliverInbox
  <1>4. /\ UNCHANGED <<lts, update_seq, server_lts, server_updates>> /\ pc[s] = "sending"
    BY DEF SendUpdate, clockVars
  <1>5. /\ Started(s) /\ s \in comp[s] /\ comp[s] \in SUBSET Server
        /\ \A t \in Server : inbox[t] \in Seq(Message)
        /\ u.lts \in Nat /\ u.server_id \in Server
    BY <1>0, <1>1, <1>4, CompTypes DEF JobOK, Update
  <1> HIDE DEF u, m
  <1>6. ObjectsOnly' /\ VectorWithin' /\ LogIsPrefix'
    BY <1>0, <1>1, <1>4 DEF ObjectsOnly, VectorWithin, LogIsPrefix
  <1>7. Sender(summary[s], u.server_id) = s /\ u.lts <= MaxLts(summary[s], u.server_id)
    BY <1>0, <1>1, <1>5 DEF JobOK, Ceiling
  <1>8. ASSUME NEW t \in comp[s], NEW w \in Known, w.server_id = u.server_id, w.lts < u.lts
        PROVE  w \in Logged(t) \cup Updates(inbox[t])
    <2>1. w.lts \in Nat /\ MaxLts(summary[s], u.server_id) \in Nat
      <3>1. IsSummary(summary[s])
        BY <1>0 DEF TypeOK, SyncType
      <3> QED
        BY <1>0, <1>5, <3>1, KnownFacts, MaxLtsProperties
    <2>2. w.lts <= MaxLts(summary[s], w.server_id)
      BY <1>5, <1>7, <1>8, <2>1
    <2>3. w \in Has(t) \/ StillToSend(s, w)
      BY <1>0, <1>5, <1>7, <1>8, <2>2 DEF Promised
    <2>4. ~ StillToSend(s, w)
      BY <1>1, <1>5, <1>8, <2>1 DEF StillToSend
    <2> QED
      BY <2>3, <2>4, CarriedUpdates DEF Has
  <1>9. NoGap'
    <2> SUFFICES ASSUME NEW t \in Server PROVE GapFree(inbox'[t], Logged(t), Known')
      BY <1>1 DEF NoGap
    <2>1. GapFree(inbox[t], Logged(t), Known) /\ inbox[t] \in Seq(Message)
      BY <1>0, <1>5 DEF NoGap
    <2>2. GapFree(inbox'[t], Logged(t), Known)
      <3>1. CASE t \in comp[s]
        <4>1. GapFree(Append(inbox[t], m), Logged(t), Known)
          BY <1>1, <1>2, <1>8, <2>1, <3>1, AppendGap
        <4> QED
          BY <1>3, <3>1, <4>1
      <3>2. CASE t \notin comp[s]
        BY <1>3, <2>1, <3>2
      <3> QED
        BY <3>1, <3>2
    <2> QED
      BY <1>1, <2>2 DEF GapFree
  <1>10. InOrder'
    <2> SUFFICES ASSUME NEW t \in Server
                 PROVE  /\ Ascends(inbox'[t])
                        /\ \A i \in Positions(inbox'[t], "Update") :
                             \E j \in Positions(inbox[t], "Update") : inbox'[t][i] = inbox[t][j]
      BY <1>0, <1>4 DEF InOrder
    <2>1. Ascends(inbox[t]) /\ inbox[t] \in Seq(Message)
      BY <1>0, <1>5 DEF InOrder
    <2>2. CASE t \in comp[s]
      <3>1. Ascends(Append(inbox[t], m))
        BY <1>1, <1>2, <2>1, AppendAscends
      <3>2. \A i \in DOMAIN Append(inbox[t], m) :
              Append(inbox[t], m)[i] = m \/ (i \in DOMAIN inbox[t] /\ Append(inbox[t], m)[i] = inbox[t][i])
        BY <1>1, <2>1, AppendAt
      <3> QED
        BY <1>2, <1>3, <2>2, <3>1, <3>2 DEF Positions
    <2>3. CASE t \notin comp[s]
      BY <1>3, <2>1, <2>3
    <2> QED
      BY <2>2, <2>3
  <1> QED
    BY <1>6, <1>9, <1>10 DEF OrderInv

--------------------------------------------------------------------------------
(* A request of a client *)

NewMessage(s, r) == [type |-> "Update", update |-> NewUpdate(s, r)]

\* What a calm request does if it is not a join of a board that is there.
Posts(s, r) ==
  /\ r.db_name \in InitialBoards
  /\ NewUpdate(s, r) \in Update /\ Takes(s, NewUpdate(s, r)) /\ NewUpdate(s, r) \notin Known
  /\ NewMessage(s, r) \in Message /\ inbox' = Multicast(inbox, s, NewMessage(s, r))
  /\ lts' = [lts EXCEPT ![s] = @ + 1] /\ update_seq' = [update_seq EXCEPT ![s] = @ + 1]
  /\ \A w \in Known : w.server_id = s => w.lts <= lts[s]

LEMMA RequestEffect ==
  ASSUME CoreStateInv, NEW s \in Server, QuietClients(s),
         NEW r \in ClientRequests, ClientRequest(s, r), NoBoardCreated'
  PROVE  /\ Live(s) /\ UNCHANGED <<syncVars, loopVars, served, netVars, up>>
         /\ UNCHANGED <<clockVars, fileVars, inbox>> \/ Posts(s, r)
PROOF
  <1> DEFINE u == NewUpdate(s, r)
  <1>0. /\ TypeInv /\ TypeOK /\ ControlInv /\ WithinCounters /\ OwnEntryWithin /\ OriginatorHasIt
        /\ VectorWithin
    BY DEF CoreStateInv, TypeInv, KeyInv, CoreInv, OrderInv
  <1>1. /\ Live(s) /\ UNCHANGED <<syncVars, pc, job, served, netVars, queue, up>>
        /\ \/ UNCHANGED <<clockVars, fileVars, inbox>>
           \/ /\ u \in Update /\ r.db_name \in InitialBoards
              /\ UpdateReplicas(s, r) /\ ~ Fatal(s, u)
    BY <1>0, CalmRequest
  <1>2. u.server_id = s /\ u.lts = lts[s] + 1 /\ u.update_num = update_seq[s] + 1
    BY DEF NewUpdate
  <1> HIDE DEF u
  <1>3. CASE UNCHANGED <<clockVars, fileVars, inbox>>
    BY <1>1, <1>3 DEF loopVars
  <1>4. CASE /\ u \in Update /\ r.db_name \in InitialBoards
             /\ UpdateReplicas(s, r) /\ ~ Fatal(s, u)
    <2>1. /\ ApplyUpdate(s, u) /\ update_seq' = [update_seq EXCEPT ![s] = @ + 1]
          /\ inbox' = Multicast(inbox, s, NewMessage(s, r))
      BY <1>4 DEF UpdateReplicas, u, NewMessage
    <2>2. NewMessage(s, r) \in Message
      BY <1>4, NewMessages DEF u, NewMessage
    <2>3. /\ lts[s] \in Nat /\ update_seq[s] \in Nat /\ lts \in [Server -> Nat]
          /\ \A w \in Known : w.lts \in Nat /\ w.server_id \in Server
          /\ \A t, o \in Server : server_lts[t][o] \in Nat /\ server_updates[t][o] \in Nat
      BY <1>0, KnownFacts DEF TypeOK, ClockType
    <2>4. \A w \in Known : w.server_id = s => w.lts <= lts[s] /\ w \in Logged(s)
      BY <1>0 DEF WithinCounters, OriginatorHasIt
    <2>5. u \notin Known
      BY <1>2, <2>3, <2>4
    <2>6. u \notin Logged(s)
      BY <2>5, KnownParts
    <2>7. server_lts[s][s] <= lts[s] /\ server_updates[s][s] <= update_seq[s]
      BY <1>0 DEF OwnEntryWithin
    <2>8. Takes(s, u)
      <3>1. server_lts[s][s] < u.lts /\ server_updates[s][s] < u.update_num
        BY <1>2, <2>3, <2>7
      <3>2. Accepted(s, u)
        BY <1>1 DEF Accepted, Live
      <3> QED
        BY <1>2, <1>4, <2>1, <2>4, <2>6, <3>1, <3>2 DEF Takes, ApplyUpdate
    <2>9. lts' = [lts EXCEPT ![s] = @ + 1]
      <3>1. Later(u.lts, lts[s]) = lts[s] + 1
        BY <1>2, <2>3 DEF Later
      <3> QED
        BY <2>1, <3>1 DEF ApplyUpdate
    <2> QED
      BY <1>1, <1>4, <2>1, <2>2, <2>4, <2>5, <2>8, <2>9 DEF Posts, u, loopVars
  <1> QED
    BY <1>1, <1>3, <1>4

LEMMA PostsHas ==
  ASSUME TypeOK, Components, NEW s \in Server, NEW r, Posts(s, r)
  PROVE  /\ Logged(s)' = Logged(s) \cup {NewUpdate(s, r)}
         /\ \A t \in Server : t # s => Logged(t)' = Logged(t)
         /\ \A t \in comp[s] : /\ Updates(inbox'[t]) = Updates(inbox[t]) \cup {NewUpdate(s, r)}
                               /\ Has(t)' = Has(t) \cup {NewUpdate(s, r)}
         /\ \A t \in Server : t \notin comp[s] => /\ Updates(inbox'[t]) = Updates(inbox[t])
                                                  /\ Has(t)' = Has(t)
         /\ NewUpdate(s, r) \in Known' /\ Known' \subseteq Known \cup {NewUpdate(s, r)}
PROOF
  <1> DEFINE u == NewUpdate(s, r)
             m == NewMessage(s, r)
  <1>1. u \in Update /\ Takes(s, u) /\ m \in Message /\ inbox' = Multicast(inbox, s, m)
    BY DEF Posts
  <1>2. m.type \in Updating /\ m.update = u
    BY DEF NewMessage, Updating
  <1> HIDE DEF u, m
  <1>3. Logged(s)' = Logged(s) \cup {u} /\ \A t \in Server : t # s => Logged(t)' = Logged(t)
    BY <1>1, TakesEffect
  <1>4. /\ \A t \in comp[s] : Updates(inbox'[t]) = Updates(inbox[t]) \cup {u}
        /\ \A t \in Server : t \notin comp[s] => Updates(inbox'[t]) = Updates(inbox[t])
    BY <1>1, <1>2, MulticastHas
  <1>5. comp[s] \in SUBSET Server /\ s \in comp[s]
    BY CompTypes
  <1>6. /\ \A t \in comp[s] : Has(t)' = Has(t) \cup {u}
        /\ \A t \in Server : t \notin comp[s] => Has(t)' = Has(t)
    BY <1>3, <1>4, <1>5, CarriedUpdates DEF Has
  <1>7. u \in Known' /\ Known' \subseteq Known \cup {u}
    BY <1>3, <1>6 DEF Known, Has
  <1> QED
    BY <1>3, <1>4, <1>6, <1>7 DEF u

\* A new update comes after all of its originator's, and finds them at all members.
LEMMA PostsOrder ==
  ASSUME CoreStateInv, TypeOK', KeyInv', NEW s \in Server, Live(s), NEW r, Posts(s, r)
  PROVE  OrderInv'
PROOF
  <1> DEFINE u == NewUpdate(s, r)
             m == NewMessage(s, r)
  <1>0. /\ TypeOK /\ Components /\ ObjectsOnly /\ VectorWithin
        /\ LogIsPrefix /\ NoGap /\ InOrder /\ Shared /\ OriginatorHasIt
    BY DEF CoreStateInv, TypeInv, CoreInv, ControlInv, OrderInv, PromiseInv, KeyInv
  <1>1. /\ u.entity_type = "OBJ" /\ u.db_name \in InitialBoards /\ u.server_id = s
        /\ u.lts = lts[s] + 1 /\ u.update_num = update_seq[s] + 1
    BY DEF NewUpdate, Posts
  <1>2. m.type = "Update" /\ m.update = u
    BY DEF NewMessage
  <1>3. /\ u \in Update /\ Takes(s, u) /\ u \notin Known
        /\ m \in Message /\ inbox' = Multicast(inbox, s, m)
        /\ lts' = [lts EXCEPT ![s] = @ + 1] /\ update_seq' = [update_seq EXCEPT ![s] = @ + 1]
        /\ \A w \in Known : w.server_id = s => w.lts <= lts[s]
    BY DEF Posts
  <1>4. /\ Logged(s)' = Logged(s) \cup {u}
        /\ \A t \in Server : t # s => Logged(t)' = Logged(t)
        /\ u \in Known' /\ Known' \subseteq Known \cup {u}
    BY <1>0, PostsHas
  <1> HIDE DEF u, m
  <1>5. /\ \A t \in Server : t \in comp[s] => inbox'[t] = Append(inbox[t], m)
        /\ \A t \in Server : t \notin comp[s] => inbox'[t] = inbox[t]
    BY <1>0, <1>3, DeliverInbox
  <1>6. /\ server_lts'[s][s] = u.lts /\ server_updates'[s][s] = u.update_num
        /\ \A t, o \in Server : t # s \/ o # s =>
             server_lts'[t][o] = server_lts[t][o] /\ server_updates'[t][o] = server_updates[t][o]
    BY <1>0, <1>1, <1>3, TakesEffect
  <1>7. /\ lts \in [Server -> Nat] /\ update_seq \in [Server -> Nat] /\ u.lts \in Nat /\ u.update_num \in Nat
        /\ \A t \in Server : inbox[t] \in Seq(Message) /\ Updates(inbox[t]) \subseteq Known
        /\ \A w \in Known : w.lts \in Nat
        /\ \A t, o \in Server : server_lts[t][o] \in Nat /\ server_updates[t][o] \in Nat
    BY <1>0, <1>3, KnownFacts DEF TypeOK, ClockType, Update
  <1>8. ObjectsOnly'
    BY <1>0, <1>1, <1>4, <1>7 DEF ObjectsOnly
  <1>9. VectorWithin'
    <2> SUFFICES ASSUME NEW t \in Server, NEW o \in Server
                 PROVE  server_lts'[t][o] <= lts'[o] /\ server_updates'[t][o] <= update_seq'[o]
      BY DEF VectorWithin
    <2>1. server_lts[t][o] <= lts[o] /\ server_updates[t][o] <= update_seq[o]
      BY <1>0 DEF VectorWithin
    <2>2. lts[o] <= lts'[o] /\ update_seq[o] <= update_seq'[o]
      BY <1>3, <1>7
    <2>3. CASE t = s /\ o = s
      BY <1>1, <1>3, <1>6, <1>7, <2>3
    <2>4. CASE t # s \/ o # s
      BY <1>3, <1>6, <1>7, <2>1, <2>2, <2>4
    <2> QED
      BY <2>3, <2>4
  <1>10. LogIsPrefix'
    <2>1. ASSUME NEW t \in Server, t # s
          PROVE  u \notin Logged(t) /\ server_lts[t][s] < u.lts /\ server_updates[t][s] < u.update_num
      <3>1. u \notin Logged(t)
        BY <1>3, KnownParts
      <3>2. server_lts[t][s] <= lts[s] /\ server_updates[t][s] <= update_seq[s]
        BY <1>0 DEF VectorWithin
      <3> QED
        BY <1>1, <1>7, <3>1, <3>2
    <2> QED
      BY <1>0, <1>1, <1>3, <1>4, <2>1, TakesPrefix
  <1>11. NoGap'
    <2> SUFFICES ASSUME NEW t \in Server PROVE GapFree(inbox'[t], Logged(t)', Known')
      BY DEF NoGap
    <2>1. GapFree(inbox[t], Logged(t), Known) /\ inbox[t] \in Seq(Message)
      BY <1>0, <1>7 DEF NoGap
    <2>2. \A v \in Updates(inbox[t]) : v.server_id = s => v.lts <= lts[s] /\ ~ (u.lts < v.lts) /\ v.lts \in Nat
      BY <1>1, <1>3, <1>7
    <2>3. GapFree(inbox[t], Logged(t)', Known')
      <3>1. Logged(t) \subseteq Logged(t)'
        BY <1>4
      <3> QED
        BY <1>1, <1>4, <2>1, <2>2, <3>1, NewGap
    <2>4. CASE t \in comp[s]
      <3>1. \A w \in Known' : w.server_id = s /\ w.lts < u.lts => w \in Logged(t)' \cup Updates(inbox[t])
        <4> SUFFICES ASSUME NEW w \in Known', w.server_id = s, w.lts < u.lts
                     PROVE  w \in Logged(t)' \cup Updates(inbox[t])
          OBVIOUS
        <4>1. w \in Known /\ w \in Logged(s)
          BY <1>0, <1>4, <1>7 DEF OriginatorHasIt
        <4>2. w \in Has(t)
          BY <1>0, <2>4, <4>1 DEF Shared, Has
        <4>3. Logged(t) \subseteq Logged(t)'
          BY <1>4
        <4> QED
          BY <4>2, <4>3, CarriedUpdates DEF Has
      <3>2. GapFree(Append(inbox[t], m), Logged(t)', Known')
        BY <1>1, <1>2, <1>3, <2>1, <2>3, <3>1, AppendGap
      <3> QED
        BY <1>5, <2>4, <3>2
    <2>5. CASE t \notin comp[s]
      BY <1>5, <2>3, <2>5
    <2> QED
      BY <2>4, <2>5
  <1>12. InOrder'
    <2> SUFFICES ASSUME NEW t \in Server
                 PROVE  /\ Ascends(inbox'[t])
                        /\ \A i \in Positions(inbox'[t], "Update") :
                             inbox'[t][i].update.server_id # t =>
                               server_lts'[t][inbox'[t][i].update.server_id] < inbox'[t][i].update.lts
      BY DEF InOrder
    <2>1. /\ Ascends(inbox[t]) /\ inbox[t] \in Seq(Message)
          /\ \A i \in Positions(inbox[t], "Update") :
               inbox[t][i].update.server_id # t =>
                 server_lts[t][inbox[t][i].update.server_id] < inbox[t][i].update.lts
      BY <1>0, <1>7 DEF InOrder
    <2>2. ASSUME NEW i \in Positions(inbox[t], "Update"), inbox[t][i].update.server_id # t
          PROVE  server_lts'[t][inbox[t][i].update.server_id] < inbox[t][i].update.lts
      <3> DEFINE o == inbox[t][i].update.server_id
      <3>1. o \in Server
        <4>1. inbox[t][i].update \in Updates(inbox[t])
          BY DEF Updates, Updating, Positions
        <4> QED
          BY <1>0, <4>1, KnownFacts
      <3>2. server_lts[t][o] < inbox[t][i].update.lts /\ o # t
        BY <2>1, <2>2
      <3> HIDE DEF o
      <3>3. server_lts'[t][o] = server_lts[t][o]
        BY <1>6, <3>1, <3>2
      <3> QED
        BY <3>2, <3>3 DEF o
    <2>3. CASE t \in comp[s]
      <3>1. Ascends(Append(inbox[t], m))
        <4>1. \A v \in Updates(inbox[t]) : v.server_id = s => v.lts < u.lts
          BY <1>1, <1>3, <1>7
        <4> QED
          BY <1>1, <1>2, <1>3, <2>1, <4>1, AppendAscends
      <3>2. \A i \in DOMAIN Append(inbox[t], m) :
              Append(inbox[t], m)[i] = m \/ (i \in DOMAIN inbox[t] /\ Append(inbox[t], m)[i] = inbox[t][i])
        BY <1>3, <2>1, AppendAt
      <3>3. t # s => server_lts'[t][s] < u.lts
        <4>1. server_lts[t][s] <= lts[s]
          BY <1>0 DEF VectorWithin
        <4> QED
          BY <1>1, <1>6, <1>7, <4>1
      <3>4. inbox'[t] = Append(inbox[t], m)
        BY <1>5, <2>3
      <3>5. ASSUME NEW i \in Positions(Append(inbox[t], m), "Update"),
                   Append(inbox[t], m)[i].update.server_id # t
            PROVE  server_lts'[t][Append(inbox[t], m)[i].update.server_id]
                     < Append(inbox[t], m)[i].update.lts
        <4>1. CASE Append(inbox[t], m)[i] = m
          BY <1>1, <1>2, <3>3, <3>5, <4>1
        <4>2. CASE i \in DOMAIN inbox[t] /\ Append(inbox[t], m)[i] = inbox[t][i]
          BY <2>2, <3>5, <4>2 DEF Positions
        <4> QED
          BY <3>2, <4>1, <4>2 DEF Positions
      <3> QED
        BY <3>1, <3>4, <3>5
    <2>4. CASE t \notin comp[s]
      <3>1. inbox'[t] = inbox[t]
        BY <1>5, <2>4
      <3> QED
        BY <2>1, <2>2, <3>1
    <2> QED
      BY <2>3, <2>4
  <1> QED
    BY <1>8, <1>9, <1>10, <1>11, <1>12 DEF OrderInv

--------------------------------------------------------------------------------
(* The steps of the synchronisation *)

LEMMA QuietSteps ==
  ASSUME TypeOK, ControlInv, NEW s \in Server,
         RecvMembership(s) \/ RecvVector(s) \/ RecvSyncEnd(s) \/ SendSyncEnd(s)
  PROVE  /\ UNCHANGED <<clockVars, fileVars, served, comp>>
         /\ \A t \in Server : QuietChange(inbox[t], inbox'[t])
PROOF
  <1>0. /\ \A t \in Server : inbox[t] \in Seq(Message)
        /\ Components
    BY DEF TypeOK, NetType, ControlInv
  <1>1. UNCHANGED <<clockVars, fileVars, served, comp>>
    BY DEF RecvMembership, RecvVector, RecvSyncEnd, SendSyncEnd, clientVars, netVars
  <1>2. ASSUME inbox[s] # <<>>, ~ Carries(Head(inbox[s])), NEW t \in Server
        PROVE  Received[s][t] \in Seq(Message) /\ QuietRest(inbox[t], Received[s][t])
    <2>1. inbox \in [Server -> Seq(Message)]
      BY DEF TypeOK, NetType
    <2>2. Received[s][t] = IF t = s THEN Tail(inbox[s]) ELSE inbox[t]
      BY <2>1 DEF Received
    <2>3. Received[s] \in [Server -> Seq(Message)]
      BY <1>2, <2>1, ReceivedType
    <2> QED
      BY <1>2, <2>2, <2>3 DEF QuietRest
  <1>3. CASE RecvVector(s) \/ RecvSyncEnd(s)
    <2>1. inbox[s] # <<>> /\ ~ Carries(Head(inbox[s])) /\ inbox' = Received[s]
      BY <1>3 DEF RecvVector, RecvSyncEnd, Receives, Carries
    <2> QED
      BY <1>1, <1>2, <2>1 DEF QuietChange
  <1>4. CASE SendSyncEnd(s)
    <2>1. [type |-> "SyncEnd"] \in Message /\ ~ Carries([type |-> "SyncEnd"])
      BY NewMessages DEF Carries
    <2>2. \A t \in Server : inbox'[t] = inbox[t] \/ inbox'[t] = Append(inbox[t], [type |-> "SyncEnd"])
      BY <1>0, <1>4, <2>1, DeliverInbox DEF SendSyncEnd
    <2> QED
      BY <1>0, <1>1, <2>1, <2>2 DEF QuietChange, QuietRest
  <1>5. CASE RecvMembership(s)
    <2>1. inbox[s] # <<>> /\ ~ Carries(Head(inbox[s]))
      BY <1>5 DEF RecvMembership, Receives, Carries
    <2>2. VectorOf(s) \in Message /\ ~ Carries(VectorOf(s))
      BY <1>5, MembInbox DEF Carries
    <2>3. \A t \in Server : inbox'[t] = Received[s][t] \/ inbox'[t] = Append(Received[s][t], VectorOf(s))
      BY <1>5, MembInbox
    <2> QED
      BY <1>1, <1>2, <2>1, <2>2, <2>3 DEF QuietChange
  <1> QED
    BY <1>3, <1>4, <1>5

LEMMA PartitionFewer ==
  ASSUME TypeOK, NEW A \in SUBSET Server, Repartitioned(A)
  PROVE  /\ UNCHANGED <<clockVars, fileVars, served>>
         /\ \A t \in Server : Fewer(inbox[t], inbox'[t])
         /\ \A t \in Server : t \notin A => inbox'[t] = inbox[t]
PROOF
  <1>1. /\ UNCHANGED <<clockVars, fileVars, served>>
        /\ \A t \in Server : t \notin A => inbox'[t] = inbox[t]
    BY DEF Repartitioned, Untouched
  <1>2. ASSUME NEW t \in Server PROVE Fewer(inbox[t], inbox'[t])
    <2>1. CASE t \notin A
      BY <1>1, <2>1 DEF Fewer
    <2>2. CASE t \in A
      <3>1. MembOf(t) \in Message /\ ~ Carries(MembOf(t))
        BY <2>2, PartitionMessages DEF Carries
      <3>2. PICK q \in {inbox[t], <<>>} : inbox'[t] \in {q, Append(q, MembOf(t))}
        BY <2>2 DEF Repartitioned
      <3> QED
        BY <3>1, <3>2 DEF Fewer
    <2> QED
      BY <2>1, <2>2
  <1> QED
    BY <1>1, <1>2

\* Who is parted or comes back keeps the order.
LEMMA PartitionOrder ==
  ASSUME TypeOK, OrderInv, NEW A \in SUBSET Server, Repartitioned(A)
  PROVE  OrderInv'
PROOF
  BY PartitionFewer, FewerOrder DEF fileVars

--------------------------------------------------------------------------------
(* The order invariant *)

LEMMA OrderInit == Init => OrderInv
PROOF
  <1> SUFFICES ASSUME Init PROVE OrderInv
    OBVIOUS
  <1>1. /\ \A s \in Server : Logged(s) = {} /\ Carried(s) = {} /\ DOMAIN inbox[s] = {}
    BY DEF Init, Logged, Carried
  <1>2. Known = {}
    BY <1>1 DEF Known
  <1>3. ObjectsOnly /\ LogIsPrefix
    BY <1>2 DEF ObjectsOnly, LogIsPrefix
  <1>4. VectorWithin
    BY DEF Init, VectorWithin
  <1>5. NoGap /\ InOrder
    BY <1>1 DEF NoGap, GapFree, InOrder, Ascends, Positions
  <1> QED
    BY <1>3, <1>4, <1>5 DEF OrderInv

LEMMA OrderStep ==
  ASSUME CoreStateInv, TypeOK', KeyInv', NoBoardCreated', [CalmNext]_vars
  PROVE  OrderInv'
PROOF
  <1>0. TypeOK /\ TypeInv /\ ControlInv /\ Components /\ Undisturbed /\ OrderInv
    BY DEF CoreStateInv, TypeInv, CoreInv, ControlInv
  <1>1. ASSUME NEW s \in Server, ServerStep(s) PROVE OrderInv'
    <2>1. CASE RecvUpdate(s) \/ RecvSyncUpdate(s)
      BY <2>1, ReadOrder
    <2>2. CASE RecvMembership(s) \/ RecvVector(s) \/ RecvSyncEnd(s) \/ SendSyncEnd(s)
      BY <1>0, <2>2, QuietSteps, QuietOrder DEF fileVars
    <2>3. CASE SendUpdate(s)
      BY <2>3, SendOrder
    <2>4. CASE Drain(s)
      BY <1>0, <2>4 DEF Drain, Undisturbed
    <2> QED
      BY <1>1, <2>1, <2>2, <2>3, <2>4 DEF ServerStep
  <1>2. ASSUME NEW s \in Server, QuietClients(s), NEW r \in ClientRequests, ClientRequest(s, r)
        PROVE  OrderInv'
    <2>1. Live(s) /\ (UNCHANGED <<clockVars, fileVars, inbox>> \/ Posts(s, r))
      BY <1>2, RequestEffect
    <2>2. CASE UNCHANGED <<clockVars, fileVars, inbox>>
      <3>1. \A t \in Server : QuietChange(inbox[t], inbox'[t])
        BY <1>0, <2>2, KnownFacts DEF QuietChange, QuietRest
      <3> QED
        BY <1>0, <2>2, <3>1, QuietOrder DEF fileVars
    <2>3. CASE Posts(s, r)
      BY <2>1, <2>3, PostsOrder
    <2> QED
      BY <2>1, <2>2, <2>3
  <1>3. CASE Partitioning
    <2>1. PICK A \in SUBSET Server : Repartitioned(A)
      BY <1>0, <1>3, PartitionShape
    <2> QED
      BY <1>0, <2>1, PartitionOrder
  <1>4. CASE UNCHANGED vars
    <2>1. \A t \in Server : QuietChange(inbox[t], inbox'[t])
      BY <1>0, <1>4, KnownFacts DEF QuietChange, QuietRest, vars
    <2> QED
      BY <1>0, <1>4, <2>1, QuietOrder DEF vars, fileVars
  <1> QED
    BY <1>1, <1>2, <1>3, <1>4 DEF CalmNext, Requesting

--------------------------------------------------------------------------------
(* What vectors claim *)

\* A claim is of a member that has read the membership.
LEMMA ClaimsFrom ==
  ASSUME TypeOK, ControlInv, NEW s \in Server, NEW p \in Claims(s)
  PROVE  /\ p[1] \in comp[s] /\ p[1] \in Server /\ Joined(p[1]) /\ p[2] \in Vector
         /\ comp[p[1]] = comp[s]
PROOF
  <1>0. Components /\ RowsOK /\ VectorsOK
    BY DEF ControlInv
  <1>1. /\ \A r \in comp[s] : r \in Server /\ comp[r] = comp[s]
        /\ \A i \in DOMAIN inbox[s] : inbox[s][i] \in Message
    BY <1>0, CompTypes
  <1>2. IsSummary(summary[s])
    BY DEF TypeOK, SyncType
  <1>3. CASE p \in Rows(s)
    <2>1. PICK r \in DOMAIN summary[s] : Joined(s) /\ p = <<r, summary[s][r]>>
      BY <1>3 DEF Rows
    <2>2. r \in comp[s] /\ Joined(r)
      BY <1>0, <2>1 DEF RowsOK
    <2> QED
      BY <1>1, <1>2, <2>1, <2>2 DEF IsSummary
  <1>4. CASE p \in Offered(s)
    <2>1. PICK i \in Positions(inbox[s], "Vector") :
            p = <<inbox[s][i].server_index, inbox[s][i].server_vector>>
      BY <1>4 DEF Offered
    <2>2. inbox[s][i].server_index \in comp[s] /\ Joined(inbox[s][i].server_index)
      BY <1>0 DEF VectorsOK
    <2>3. inbox[s][i].server_vector \in Vector
      BY <1>1, MessageParts DEF Positions
    <2> QED
      BY <1>1, <2>1, <2>2, <2>3
  <1> QED
    BY <1>3, <1>4 DEF Claims

\* A server with all vectors claims one for every member.
LEMMA StartedClaims ==
  ASSUME TypeOK, ControlInv, NEW s \in Server, Started(s), NEW r \in comp[s]
  PROVE  <<r, summary[s][r]>> \in Claims(s)
PROOF
  BY StartedAll DEF Started, Claims, Rows

\* Servers with all vectors have the same ones.
LEMMA SameMatrix ==
  ASSUME TypeOK, ControlInv, ClaimsAgree, NEW s \in Server, Started(s),
         NEW t \in comp[s], Started(t)
  PROVE  summary[s] = summary[t]
PROOF
  <1>1. t \in Server /\ comp[t] = comp[s]
    BY CompTypes DEF ControlInv
  <1>2. DOMAIN summary[s] = comp[s] /\ DOMAIN summary[t] = comp[s]
    BY <1>1, StartedAll
  <1>3. ASSUME NEW r \in comp[s] PROVE summary[s][r] = summary[t][r]
    <2>1. <<r, summary[s][r]>> \in Claims(s) /\ <<r, summary[t][r]>> \in Claims(t)
      BY <1>1, <1>3, StartedClaims
    <2> QED
      BY <2>1 DEF ClaimsAgree
  <1>4. \A m, n : IsSummary(m) /\ IsSummary(n) /\ DOMAIN m = DOMAIN n
                  /\ (\A r \in DOMAIN m : m[r] = n[r]) => m = n
    BY DEF IsSummary
  <1>5. IsSummary(summary[s]) /\ IsSummary(summary[t])
    BY <1>1 DEF TypeOK, SyncType
  <1> QED
    BY <1>2, <1>3, <1>4, <1>5

\* Claims stay true if vectors change during a synchronisation only after a member
\* has all of them.
LEMMA ClaimsKept ==
  ASSUME TypeOK, TypeOK', ControlInv, ClaimsOK, ClaimsAgree, ResentOK, UNCHANGED comp,
         \A t \in Server : Started(t) => Started(t)',
         \A t \in Server : Claims(t)' \subseteq Claims(t),
         \A t, o \in Server : server_lts[t][o] <= server_lts'[t][o],
         \A t \in Server : syncOn'[t] =>
           syncOn[t] /\ (server_lts'[t] = server_lts[t] \/ \E r \in comp[t] : Started(r)),
         \A t \in Server : \A i \in Positions(inbox'[t], "SyncUpdate") :
           Positions(inbox[t], "SyncUpdate") # {} \/ \E r \in comp[t] : Started(r)
  PROVE  ClaimsOK' /\ ClaimsAgree' /\ ResentOK'
PROOF
  <1>0. \A t \in Server : \A r \in comp[t] : r \in Server /\ comp[r] = comp[t]
    BY CompTypes DEF ControlInv
  <1>1. ClaimsOK'
    <2> SUFFICES ASSUME NEW s \in Server, NEW p \in Claims(s)'
                 PROVE  /\ \A c \in Server : p[2][c] <= server_lts'[p[1]][c]
                        /\ syncOn'[p[1]] => \/ p[2] = server_lts'[p[1]]
                                            \/ \E t \in comp[s] : Started(t)'
      BY DEF ClaimsOK
    <2>1. p \in Claims(s)
      OBVIOUS
    <2>2. p[1] \in comp[s] /\ p[1] \in Server /\ p[2] \in Vector
      BY <2>1, ClaimsFrom
    <2>3. /\ \A c \in Server : p[2][c] <= server_lts[p[1]][c]
          /\ syncOn[p[1]] => p[2] = server_lts[p[1]] \/ \E t \in comp[s] : Started(t)
      BY <2>1 DEF ClaimsOK
    <2>4. ASSUME NEW c \in Server PROVE p[2][c] <= server_lts'[p[1]][c]
      <3>1. p[2][c] \in Nat /\ server_lts[p[1]][c] \in Nat /\ server_lts'[p[1]][c] \in Nat
        BY <2>2 DEF TypeOK, ClockType, Vector
      <3>2. p[2][c] <= server_lts[p[1]][c] /\ server_lts[p[1]][c] <= server_lts'[p[1]][c]
        BY <2>2, <2>3
      <3> QED
        BY <3>1, <3>2
    <2>5. ASSUME syncOn'[p[1]]
          PROVE  p[2] = server_lts'[p[1]] \/ \E t \in comp[s] : Started(t)'
      <3>1. syncOn[p[1]] /\ (server_lts'[p[1]] = server_lts[p[1]] \/ \E r \in comp[p[1]] : Started(r))
        BY <2>2, <2>5
      <3> QED
        BY <1>0, <2>2, <2>3, <3>1
    <2> QED
      BY <2>4, <2>5
  <1>2. ClaimsAgree'
    BY <1>0 DEF ClaimsAgree
  <1>3. ResentOK'
    <2> SUFFICES ASSUME NEW t \in Server, NEW i \in Positions(inbox'[t], "SyncUpdate")
                 PROVE  \E r \in comp[t] : Started(r)'
      BY DEF ResentOK
    <2>1. \E r \in comp[t] : Started(r)
      BY DEF ResentOK
    <2> QED
      BY <1>0, <2>1
  <1> QED
    BY <1>1, <1>2, <1>3

\* The claims of a server change only with its matrix and the vectors that wait.
LEMMA SameClaims ==
  ASSUME NEW t, Joined(t)' => Joined(t) /\ summary'[t] = summary[t],
         \A i \in Positions(inbox'[t], "Vector") : \E j \in DOMAIN inbox[t] : inbox'[t][i] = inbox[t][j]
  PROVE  Claims(t)' \subseteq Claims(t)
PROOF
  <1>1. Rows(t)' \subseteq Rows(t)
    BY DEF Rows
  <1>2. Offered(t)' \subseteq Offered(t)
    BY DEF Offered, Positions
  <1> QED
    BY <1>1, <1>2 DEF Claims

--------------------------------------------------------------------------------
(* What is promised *)

LEMMA CeilingKept ==
  ASSUME TypeOK, ControlInv, Ceiling, UNCHANGED comp,
         \A t \in Server : (Started(t)' <=> Started(t)) /\ (Started(t) => summary'[t] = summary[t]),
         \A t \in Server : \A r \in comp[t] : Started(r) /\ syncOn'[t] =>
           syncOn[t] /\ \A c \in Server :
             \/ server_lts'[t][c] = server_lts[t][c]
             \/ \E i \in Positions(inbox[t], "SyncUpdate") :
                  /\ inbox[t][i].update.server_id = c
                  /\ inbox[t][i].update.lts = server_lts'[t][c],
         \A t \in Server : \A i \in Positions(inbox'[t], "SyncUpdate") :
           \/ \E j \in Positions(inbox[t], "SyncUpdate") : inbox'[t][i] = inbox[t][j]
           \/ \E r \in comp[t] :
                <<inbox'[t][i].update.server_id, inbox'[t][i].update.lts>> \in job[r],
         \A t \in Server : job'[t] \subseteq job[t]
  PROVE  Ceiling'
PROOF
  <1>0. \A t \in Server : \A r \in comp[t] : r \in Server /\ comp[r] = comp[t] /\ t \in comp[r]
    BY CompTypes DEF ControlInv
  <1> SUFFICES ASSUME NEW t \in Server, Started(t)', NEW s \in comp[t]
               PROVE  /\ syncOn'[s] => \A c \in Server : server_lts'[s][c] <= MaxLts(summary'[t], c)
                      /\ \A i \in Positions(inbox'[s], "SyncUpdate") :
                           inbox'[s][i].update.lts <= MaxLts(summary'[t], inbox'[s][i].update.server_id)
                      /\ \A p \in job'[s] : p[2] <= MaxLts(summary'[t], p[1])
    BY DEF Ceiling
  <1>1. Started(t) /\ summary'[t] = summary[t] /\ s \in Server /\ comp[s] = comp[t] /\ t \in comp[s]
    BY <1>0
  <1>2. /\ syncOn[s] => \A c \in Server : server_lts[s][c] <= MaxLts(summary[t], c)
        /\ \A i \in Positions(inbox[s], "SyncUpdate") :
             inbox[s][i].update.lts <= MaxLts(summary[t], inbox[s][i].update.server_id)
        /\ \A r \in comp[t] : \A p \in job[r] : p[2] <= MaxLts(summary[t], p[1])
    BY <1>1 DEF Ceiling
  <1>3. ASSUME syncOn'[s], NEW c \in Server PROVE server_lts'[s][c] <= MaxLts(summary[t], c)
    <2>1. /\ syncOn[s]
          /\ \/ server_lts'[s][c] = server_lts[s][c]
             \/ \E i \in Positions(inbox[s], "SyncUpdate") :
                  /\ inbox[s][i].update.server_id = c
                  /\ inbox[s][i].update.lts = server_lts'[s][c]
      BY <1>1, <1>3
    <2> QED
      BY <1>2, <2>1
  <1>4. ASSUME NEW i \in Positions(inbox'[s], "SyncUpdate")
        PROVE  inbox'[s][i].update.lts <= MaxLts(summary[t], inbox'[s][i].update.server_id)
    <2>1. CASE \E j \in Positions(inbox[s], "SyncUpdate") : inbox'[s][i] = inbox[s][j]
      BY <1>2, <2>1
    <2>2. CASE \E r \in comp[s] : <<inbox'[s][i].update.server_id, inbox'[s][i].update.lts>> \in job[r]
      BY <1>1, <1>2, <2>2
    <2> QED
      BY <1>1, <2>1, <2>2
  <1> QED
    BY <1>1, <1>2, <1>3, <1>4

\* Whoever is elected for an update that a vector claims is a member and claims it.
LEMMA SenderMember ==
  ASSUME TypeOK, ControlInv, ObjectsOnly, NEW t \in Server, Started(t), NEW u \in Known,
         u.lts <= MaxLts(summary[t], u.server_id)
  PROVE  /\ Sender(summary[t], u.server_id) \in comp[t]
         /\ Sender(summary[t], u.server_id) \in Server
         /\ comp[Sender(summary[t], u.server_id)] = comp[t]
         /\ summary[t][Sender(summary[t], u.server_id)][u.server_id]
              = MaxLts(summary[t], u.server_id)
PROOF
  <1>1. IsSummary(summary[t]) /\ u.server_id \in Server /\ u.lts \in Nat /\ u.lts > 0
    BY KnownFacts DEF TypeOK, SyncType, ObjectsOnly
  <1>2. MaxLts(summary[t], u.server_id) \in Nat /\ MaxLts(summary[t], u.server_id) > 0
    <2>1. MaxLts(summary[t], u.server_id) \in Nat
      BY <1>1, MaxLtsProperties
    <2> QED
      BY <1>1, <2>1
  <1>3. DOMAIN summary[t] = comp[t]
    BY StartedAll
  <1>4. \A r \in comp[t] : r \in Server /\ comp[r] = comp[t]
    BY CompTypes DEF ControlInv
  <1> QED
    BY <1>1, <1>2, <1>3, <1>4, SenderProperties

LEMMA PromisedKept ==
  ASSUME TypeOK, ControlInv, ObjectsOnly, Promised, UNCHANGED comp,
         \A t \in Server : (Started(t)' <=> Started(t)) /\ (Started(t) => summary'[t] = summary[t]),
         \A t \in Server : Has(t) \subseteq Has(t)',
         \A u \in Known' : \/ u \in Known
                           \/ \A t \in Server : Started(t) => ~ (u.lts <= MaxLts(summary[t], u.server_id)),
         \A r \in Server : \A p \in job[r] :
           \/ p \in job'[r]
           \/ \A s \in comp[r], u \in Known : p = <<u.server_id, u.lts>> => u \in Has(s)'
  PROVE  Promised'
PROOF
  <1>0. \A t \in Server : \A r \in comp[t] : r \in Server
    BY CompTypes DEF ControlInv
  <1> SUFFICES ASSUME NEW t \in Server, Started(t)', NEW s \in comp[t], NEW u \in Known',
                      u.lts <= MaxLts(summary'[t], u.server_id)
               PROVE  (u \in Has(s) \/ StillToSend(Sender(summary[t], u.server_id), u))'
    BY DEF Promised
  <1>1. /\ Started(t) /\ summary'[t] = summary[t] /\ u.lts <= MaxLts(summary[t], u.server_id)
    OBVIOUS
  <1>2. u \in Known
    BY <1>1
  <1>3. PICK x \in Server : x = Sender(summary[t], u.server_id) /\ x \in comp[t] /\ comp[x] = comp[t]
    BY <1>1, <1>2, SenderMember
  <1>4. u \in Has(s) \/ ~ Started(x) \/ <<u.server_id, u.lts>> \in job[x]
    BY <1>1, <1>2, <1>3 DEF Promised, StillToSend
  <1>5. <<u.server_id, u.lts>> \in job[x] => <<u.server_id, u.lts>> \in job'[x] \/ u \in Has(s)'
    BY <1>2, <1>3
  <1>6. u \in Has(s)' \/ ~ Started(x)' \/ <<u.server_id, u.lts>> \in job'[x]
    BY <1>0, <1>4, <1>5
  <1>7. x = Sender(summary'[t], u.server_id)
    BY <1>1, <1>3
  <1> QED
    BY <1>6, <1>7 DEF StillToSend, Started, Joined, Fresh, Gone, Waiting

LEMMA SharedKept ==
  ASSUME TypeOK, Shared, UNCHANGED comp, \A t \in Server : Live(t)' => Live(t),
         \A t \in Server : Has(t) \subseteq Has(t)',
         \A t \in Server : \A u \in Has(t)' : u \in Has(t) \/ \A s \in comp[t] : u \in Has(s)'
  PROVE  Shared'
PROOF
  <1>1. \A t \in Server : comp[t] \in SUBSET Server
    BY KnownFacts
  <1> QED
    BY <1>1 DEF Shared

--------------------------------------------------------------------------------
(* What is promised: updates *)

LEMMA ReadPromise ==
  ASSUME CoreStateInv, TypeOK', NEW s \in Server, RecvUpdate(s) \/ RecvSyncUpdate(s)
  PROVE  PromiseInv'
PROOF
  <1> DEFINE u == Read(s)
  <1>0. /\ TypeOK /\ ControlInv /\ Components /\ ObjectsOnly
        /\ ClaimsOK /\ ClaimsAgree /\ ResentOK /\ Ceiling /\ Promised /\ Shared
    BY DEF CoreStateInv, TypeInv, CoreInv, ControlInv, OrderInv, PromiseInv
  <1>1. /\ inbox[s] \in Seq(Message) /\ inbox[s] # <<>> /\ inbox' = Received[s]
        /\ Carries(Head(inbox[s])) /\ u \in Update
    BY <1>0, ReadKnown
  <1>2. /\ ReadsOne(s) /\ UNCHANGED <<syncVars, loopVars, up, netVars>>
        /\ RecvUpdate(s) => ~ syncOn[s]
        /\ RecvSyncUpdate(s) => Head(inbox[s]).type = "SyncUpdate"
    BY ReadEffect
  <1>3. UNCHANGED <<syncOn, vector_rcvd, num_memb, summary, pc, job, comp>>
    BY <1>2 DEF syncVars, loopVars, netVars
  <1>4. /\ \A t \in Server : \A i \in DOMAIN inbox'[t] :
             \E j \in DOMAIN inbox[t] : inbox'[t][i] = inbox[t][j]
        /\ \A t \in Server : Fresh(t)' <=> Fresh(t)
    BY <1>0, <1>1, <1>2, <1>3, ReadInbox DEF Carries
  <1>5. \A t \in Server : /\ (Joined(t)' <=> Joined(t)) /\ (Started(t)' <=> Started(t))
                          /\ (Live(t)' <=> Live(t))
    BY <1>0, <1>3, <1>4, PhasesKept
  <1>6. /\ Known' \subseteq Known /\ \A t \in Server : Has(t)' = Has(t)
        /\ \A t, o \in Server : server_lts[t][o] <= server_lts'[t][o]
        /\ \A t \in Server : t # s => server_lts'[t] = server_lts[t]
    BY ReadHas
  <1>7. syncOn[s] => 1 \in Positions(inbox[s], "SyncUpdate") /\ inbox[s][1].update = u
    BY <1>1, <1>2, TailAt DEF Positions, Read
  <1>8. \A t \in Server : Claims(t)' \subseteq Claims(t)
    <2>1. \A t \in Server : \A i \in Positions(inbox'[t], "Vector") :
            \E j \in DOMAIN inbox[t] : inbox'[t][i] = inbox[t][j]
      BY <1>4 DEF Positions
    <2> QED
      BY <1>3, <1>5, <2>1, SameClaims
  <1>9. ClaimsOK' /\ ClaimsAgree' /\ ResentOK'
    <2>1. \A t \in Server : syncOn'[t] =>
            syncOn[t] /\ (server_lts'[t] = server_lts[t] \/ \E r \in comp[t] : Started(r))
      <3>1. syncOn[s] => \E r \in comp[s] : Started(r)
        BY <1>0, <1>7 DEF ResentOK
      <3> QED
        BY <1>3, <1>6, <3>1
    <2>2. \A t \in Server : \A i \in Positions(inbox'[t], "SyncUpdate") :
            Positions(inbox[t], "SyncUpdate") # {}
      BY <1>4 DEF Positions
    <2> QED
      BY <1>0, <1>3, <1>5, <1>6, <1>8, <2>1, <2>2, ClaimsKept
  <1>10. Ceiling'
    <2>1. ASSUME NEW t \in Server, syncOn'[t], NEW c \in Server
          PROVE  \/ server_lts'[t][c] = server_lts[t][c]
                 \/ \E i \in Positions(inbox[t], "SyncUpdate") :
                      /\ inbox[t][i].update.server_id = c
                      /\ inbox[t][i].update.lts = server_lts'[t][c]
      <3>1. CASE t # s
        BY <1>6, <3>1
      <3>2. CASE t = s /\ UNCHANGED server_lts
        BY <3>2
      <3>3. CASE t = s /\ Takes(s, u)
        <4>1. /\ server_lts'[s][u.server_id] = u.lts
              /\ c # u.server_id => server_lts'[s][c] = server_lts[s][c]
          BY <1>0, <1>1, <3>3, TakesEffect
        <4> QED
          BY <1>3, <1>7, <2>1, <3>3, <4>1
      <3> QED
        BY <1>2, <3>1, <3>2, <3>3 DEF ReadsOne
    <2>2. \A t \in Server : \A i \in Positions(inbox'[t], "SyncUpdate") :
            \E j \in Positions(inbox[t], "SyncUpdate") : inbox'[t][i] = inbox[t][j]
      BY <1>4 DEF Positions
    <2> QED
      BY <1>0, <1>3, <1>5, <2>1, <2>2, CeilingKept
  <1>11. Promised'
    BY <1>0, <1>3, <1>5, <1>6, PromisedKept
  <1>12. Shared'
    BY <1>0, <1>3, <1>5, <1>6, SharedKept
  <1> QED
    BY <1>9, <1>10, <1>11, <1>12 DEF PromiseInv

LEMMA SendPromise ==
  ASSUME CoreStateInv, TypeOK', NEW s \in Server, SendUpdate(s)
  PROVE  PromiseInv'
PROOF
  <1> DEFINE u == Resent(s)
             m == ResendOf(s)
  <1>0. /\ TypeInv /\ TypeOK /\ ControlInv /\ Components /\ JobOK /\ ObjectsOnly /\ UpdateKeyUnique
        /\ ClaimsOK /\ ClaimsAgree /\ ResentOK /\ Ceiling /\ Promised /\ Shared
    BY DEF CoreStateInv, TypeInv, KeyInv, CoreInv, ControlInv, OrderInv, PromiseInv
  <1>1. /\ u \in Logged(s) /\ u \in Update /\ <<u.server_id, u.lts>> \in job[s]
        /\ job' = [job EXCEPT ![s] = @ \ {<<u.server_id, u.lts>>}]
        /\ m \in Message /\ inbox' = Multicast(inbox, s, m)
        /\ \A t \in comp[s] : Has(t)' = Has(t) \cup {u}
        /\ \A t \in Server : t \notin comp[s] => Has(t)' = Has(t)
        /\ Known' \subseteq Known
    BY <1>0, SendEffect
  <1>2. m.type = "SyncUpdate" /\ m.update = u
    BY DEF ResendOf
  <1> HIDE DEF u, m
  <1>3. /\ UNCHANGED <<syncOn, vector_rcvd, num_memb, summary, pc, up, comp, server_lts>>
        /\ pc[s] = "sending"
    BY DEF SendUpdate, clockVars, syncVars, netVars
  <1>4. /\ \A t \in Server : \A i \in DOMAIN inbox'[t] :
             \/ t \in comp[s] /\ inbox'[t][i] = m
             \/ \E j \in DOMAIN inbox[t] : inbox'[t][i] = inbox[t][j]
        /\ \A t \in Server : Fresh(t)' <=> Fresh(t)
    BY <1>0, <1>1, <1>2, <1>3, DeliverInbox
  <1>5. \A t \in Server : /\ (Joined(t)' <=> Joined(t)) /\ (Started(t)' <=> Started(t))
                          /\ (Live(t)' <=> Live(t))
    BY <1>0, <1>3, <1>4, PhasesKept
  <1>6. /\ Started(s) /\ \A t \in comp[s] : t \in Server /\ comp[t] = comp[s]
        /\ \A t \in Server : \A r \in comp[t] : r \in Server /\ comp[r] = comp[t] /\ t \in comp[r]
        /\ u \in Known
    BY <1>0, <1>1, <1>3, CompTypes, KnownParts DEF JobOK
  <1>7. \A t \in Server : Claims(t)' \subseteq Claims(t)
    <2>1. \A t \in Server : \A i \in Positions(inbox'[t], "Vector") :
            \E j \in DOMAIN inbox[t] : inbox'[t][i] = inbox[t][j]
      BY <1>2, <1>4 DEF Positions
    <2> QED
      BY <1>3, <1>5, <2>1, SameClaims
  <1>8. ClaimsOK' /\ ClaimsAgree' /\ ResentOK'
    <2>1. \A t, o \in Server : server_lts[t][o] <= server_lts'[t][o]
      BY <1>0, <1>3, KnownFacts
    <2>2. \A t \in Server : \A i \in Positions(inbox'[t], "SyncUpdate") :
            Positions(inbox[t], "SyncUpdate") # {} \/ \E r \in comp[t] : Started(r)
      BY <1>4, <1>6 DEF Positions
    <2> QED
      BY <1>0, <1>3, <1>5, <1>7, <2>1, <2>2, ClaimsKept
  <1>9. \A t \in Server : job'[t] \subseteq job[t]
    BY <1>0, <1>1 DEF TypeOK, LoopType
  <1>10. Ceiling'
    <2>1. \A t \in Server : \A i \in Positions(inbox'[t], "SyncUpdate") :
            \/ \E j \in Positions(inbox[t], "SyncUpdate") : inbox'[t][i] = inbox[t][j]
            \/ \E r \in comp[t] :
                 <<inbox'[t][i].update.server_id, inbox'[t][i].update.lts>> \in job[r]
      <3> SUFFICES ASSUME NEW t \in Server, NEW i \in Positions(inbox'[t], "SyncUpdate")
                   PROVE  \/ \E j \in Positions(inbox[t], "SyncUpdate") : inbox'[t][i] = inbox[t][j]
                          \/ \E r \in comp[t] :
                               <<inbox'[t][i].update.server_id, inbox'[t][i].update.lts>> \in job[r]
        OBVIOUS
      <3>1. CASE t \in comp[s] /\ inbox'[t][i] = m
        BY <1>1, <1>2, <1>6, <3>1
      <3>2. CASE \E j \in DOMAIN inbox[t] : inbox'[t][i] = inbox[t][j]
        BY <3>2 DEF Positions
      <3> QED
        BY <1>4, <3>1, <3>2 DEF Positions
    <2> QED
      BY <1>0, <1>3, <1>5, <1>9, <2>1, CeilingKept
  <1>11. \A t \in Server : Has(t) \subseteq Has(t)'
    BY <1>1
  <1>12. Promised'
    <2>1. ASSUME NEW r \in Server, NEW p \in job[r], p \notin job'[r],
                 NEW t \in comp[r], NEW w \in Known, p = <<w.server_id, w.lts>>
          PROVE  w \in Has(t)'
      <3>1. r = s /\ p = <<u.server_id, u.lts>>
        BY <1>0, <1>1, <2>1 DEF TypeOK, LoopType
      <3>2. w.server_id = u.server_id /\ w.lts = u.lts
        BY <2>1, <3>1
      <3>3. w = u
        BY <1>0, <1>6, <2>1, <3>2 DEF UpdateKeyUnique
      <3> QED
        BY <1>1, <2>1, <3>1, <3>3
    <2>2. \A r \in Server : \A p \in job[r] :
            \/ p \in job'[r]
            \/ \A t \in comp[r], w \in Known : p = <<w.server_id, w.lts>> => w \in Has(t)'
      BY <2>1
    <2> QED
      BY <1>0, <1>1, <1>3, <1>5, <1>11, <2>2, PromisedKept
  <1>13. Shared'
    <2>1. \A t \in Server : \A w \in Has(t)' : w \in Has(t) \/ \A r \in comp[t] : w \in Has(r)'
      BY <1>1, <1>6
    <2> QED
      BY <1>0, <1>3, <1>5, <1>11, <2>1, SharedKept
  <1> QED
    BY <1>8, <1>10, <1>12, <1>13 DEF PromiseInv

--------------------------------------------------------------------------------
(* What is promised: the end of a synchronisation *)

\* A step that neither logs, sends nor elects anything keeps the promises.
LEMMA QuietPromise ==
  ASSUME TypeOK, TypeOK', ControlInv, OrderInv, PromiseInv,
         UNCHANGED <<clockVars, log, comp, job, summary>>,
         \A t \in Server : QuietChange(inbox[t], inbox'[t]),
         \A t \in Server : \A i \in Positions(inbox'[t], "Vector") :
           \E j \in DOMAIN inbox[t] : inbox'[t][i] = inbox[t][j],
         \A t \in Server : (Joined(t)' <=> Joined(t)) /\ (Started(t)' <=> Started(t)),
         \A t \in Server : syncOn'[t] => syncOn[t]
  PROVE  /\ ClaimsOK' /\ ClaimsAgree' /\ ResentOK' /\ Ceiling' /\ Promised'
         /\ (\A t \in Server : Live(t)' => Live(t)) => Shared'
PROOF
  <1>0. /\ ClaimsOK /\ ClaimsAgree /\ ResentOK /\ Ceiling /\ Promised /\ Shared
        /\ ObjectsOnly /\ server_lts' = server_lts
    BY DEF PromiseInv, OrderInv, clockVars
  <1>1. Known' = Known /\ \A t \in Server : Has(t)' = Has(t)
    BY QuietOrder
  <1>2. \A t \in Server : inbox[t] \in Seq(Message)
    BY DEF TypeOK, NetType
  <1>3. \A t \in Server : \A i \in Positions(inbox'[t], "SyncUpdate") :
          \E j \in Positions(inbox[t], "SyncUpdate") : inbox'[t][i] = inbox[t][j]
    <2>1. \A t \in Server : SameOfType(inbox[t], inbox'[t], "SyncUpdate")
      BY <1>2, QuietKeeps
    <2> QED
      BY <2>1 DEF SameOfType
  <1>4. \A t \in Server : Claims(t)' \subseteq Claims(t)
    BY SameClaims
  <1>5. ClaimsOK' /\ ClaimsAgree' /\ ResentOK'
    <2>1. \A t, o \in Server : server_lts[t][o] <= server_lts'[t][o]
      BY <1>0, KnownFacts
    <2>2. \A t \in Server : \A i \in Positions(inbox'[t], "SyncUpdate") :
            Positions(inbox[t], "SyncUpdate") # {}
      BY <1>3
    <2> QED
      BY <1>0, <1>4, <2>1, <2>2, ClaimsKept
  <1>6. Ceiling'
    BY <1>0, <1>3, CeilingKept
  <1>7. Promised'
    BY <1>0, <1>1, PromisedKept
  <1>8. (\A t \in Server : Live(t)' => Live(t)) => Shared'
    BY <1>0, <1>1, SharedKept
  <1> QED
    BY <1>5, <1>6, <1>7, <1>8

LEMMA SendEndPromise ==
  ASSUME CoreStateInv, TypeOK', NEW s \in Server, SendSyncEnd(s)
  PROVE  PromiseInv'
PROOF
  <1>0. TypeOK /\ ControlInv /\ Components /\ OrderInv /\ PromiseInv
    BY DEF CoreStateInv, TypeInv, CoreInv, ControlInv
  <1>1. /\ UNCHANGED <<clockVars, fileVars, syncVars, job, comp>>
        /\ inbox' = Multicast(inbox, s, [type |-> "SyncEnd"])
    BY DEF SendSyncEnd, netVars
  <1>2. \A t \in Server : QuietChange(inbox[t], inbox'[t])
    BY <1>0, QuietSteps
  <1>3. \A t \in Server : \A i \in Positions(inbox'[t], "Vector") :
          \E j \in DOMAIN inbox[t] : inbox'[t][i] = inbox[t][j]
    <2>1. [type |-> "SyncEnd"] \in Message
      BY NewMessages
    <2> DEFINE m == [type |-> "SyncEnd"]
    <2>2. m.type = "SyncEnd" /\ m \in Message /\ inbox' = Multicast(inbox, s, m)
      BY <1>1, <2>1
    <2> HIDE DEF m
    <2> QED
      BY <1>0, <2>2, DeliverInbox DEF Positions
  <1>4. \A t \in Server : /\ (Joined(t)' <=> Joined(t)) /\ (Started(t)' <=> Started(t))
                          /\ (Live(t)' <=> Live(t))
    BY <1>0, SendEndPhases
  <1>5. UNCHANGED <<log, summary>> /\ \A t \in Server : syncOn'[t] => syncOn[t]
    BY <1>1 DEF fileVars, syncVars
  <1>6. /\ ClaimsOK' /\ ClaimsAgree' /\ ResentOK' /\ Ceiling' /\ Promised'
        /\ (\A t \in Server : Live(t)' => Live(t)) => Shared'
    BY <1>0, <1>1, <1>2, <1>3, <1>4, <1>5, QuietPromise
  <1> QED
    BY <1>4, <1>6 DEF PromiseInv

\* The last SyncEnd: what was promised has all been sent, and a server that has
\* ended its synchronisation before had no more.
LEMMA RecvEndPromise ==
  ASSUME CoreStateInv, TypeOK', NEW s \in Server, RecvSyncEnd(s)
  PROVE  PromiseInv'
PROOF
  <1>0. /\ TypeOK /\ ControlInv /\ Components /\ AfterEndsOK /\ JobOK /\ Undisturbed
        /\ OrderInv /\ PromiseInv /\ OriginatorHasIt /\ LogIsPrefix /\ ObjectsOnly
        /\ Ceiling /\ Promised /\ Shared
    BY DEF CoreStateInv, TypeInv, CoreInv, ControlInv, KeyInv, OrderInv, PromiseInv
  <1>1. /\ UNCHANGED <<clockVars, fileVars, vector_rcvd, num_memb, summary, job, comp>>
        /\ inbox' = Received[s] /\ inbox[s] # <<>> /\ Head(inbox[s]).type = "SyncEnd"
    BY DEF RecvSyncEnd, Receives, netVars
  <1>2. \A t \in Server : QuietChange(inbox[t], inbox'[t])
    BY <1>0, QuietSteps
  <1>3. \A t \in Server : \A i \in Positions(inbox'[t], "Vector") :
          \E j \in DOMAIN inbox[t] : inbox'[t][i] = inbox[t][j]
    BY <1>0, <1>1, ReadInbox DEF Positions
  <1>4. /\ Joined(s) /\ syncOn[s] /\ UNCHANGED pc
        /\ Live(s)' <=> syncEnd_rcvd'[s] = num_memb[s]
        /\ \A t \in Server : t # s => (Live(t)' <=> Live(t)) /\ syncOn'[t] = syncOn[t]
        /\ \A t \in Server : (Joined(t)' <=> Joined(t)) /\ (Started(t)' <=> Started(t))
    BY <1>0, RecvEndPhases
  <1>5. UNCHANGED log /\ \A t \in Server : syncOn'[t] => syncOn[t]
    BY <1>1, <1>4 DEF fileVars
  <1>6. /\ ClaimsOK' /\ ClaimsAgree' /\ ResentOK' /\ Ceiling' /\ Promised'
        /\ (\A t \in Server : Live(t)' => Live(t)) => Shared'
    BY <1>0, <1>1, <1>2, <1>3, <1>4, <1>5, QuietPromise
  <1>7. CASE ~ (syncEnd_rcvd'[s] = num_memb[s])
    BY <1>4, <1>6, <1>7 DEF PromiseInv
  <1>8. CASE syncEnd_rcvd'[s] = num_memb[s]
    <2>1. AllFinished(s) /\ OnlyUpdates(Tail(inbox[s]))
      BY <1>0, <1>8, LastSyncEnd
    <2>2. \A t \in comp[s] : /\ t \in Server /\ comp[t] = comp[s] /\ Started(t) /\ job[t] = {}
      BY <1>0, <2>1, CompTypes DEF AllFinished, Finished, JobOK
    <2>3. s \in comp[s] /\ Started(s) /\ inbox[s] \in Seq(Message)
      BY <1>0, <2>2, CompTypes
    <2>4. ASSUME NEW t \in comp[s], NEW u \in Logged(s) PROVE u \in Has(t)
      <3>1. u \in Known /\ u.server_id \in Server
        BY <1>0, KnownFacts
      <3>2. u.lts <= server_lts[s][u.server_id]
        BY <1>0, <2>4, <3>1 DEF LogIsPrefix
      <3>3. server_lts[s][u.server_id] <= MaxLts(summary[s], u.server_id)
        BY <1>0, <1>4, <2>3, <3>1 DEF Ceiling
      <3>4. u.lts <= MaxLts(summary[s], u.server_id)
        <4>1. /\ MaxLts(summary[s], u.server_id) \in Nat /\ u.lts \in Nat
              /\ server_lts[s][u.server_id] \in Nat
          BY <1>0, <3>1, KnownFacts, MaxLtsProperties DEF TypeOK, SyncType
        <4> QED
          BY <3>2, <3>3, <4>1
      <3>5. u \in Has(t) \/ StillToSend(Sender(summary[s], u.server_id), u)
        BY <1>0, <2>3, <2>4, <3>1, <3>4 DEF Promised
      <3>6. Sender(summary[s], u.server_id) \in comp[s]
        BY <1>0, <2>3, <3>1, <3>4, SenderMember
      <3> QED
        BY <2>2, <3>5, <3>6 DEF StillToSend
    <2>5. ASSUME NEW t \in comp[s], NEW u \in Carried(s) PROVE u \in Has(t)
      <3>1. u \in Known /\ u.server_id \in Server
        BY <1>0, KnownFacts, KnownParts
      <3>2. PICK i \in DOMAIN inbox[s] : Carries(inbox[s][i]) /\ inbox[s][i].update = u
        BY <2>5 DEF Carried, Carries
      <3>3. i \in Positions(inbox[s], "Update")
        <4>1. i # 1
          BY <1>1, <2>3, <3>2, TailAt DEF Carries
        <4>2. i - 1 \in DOMAIN Tail(inbox[s]) /\ Tail(inbox[s])[i - 1] = inbox[s][i]
          BY <1>1, <2>3, <4>1, TailAt
        <4> QED
          BY <2>1, <3>2, <4>2 DEF OnlyUpdates, Positions
      <3>4. u.server_id \in comp[s] /\ Live(u.server_id)
        BY <1>0, <1>4, <3>2, <3>3 DEF AfterEndsOK
      <3>5. u \in Has(u.server_id)
        BY <1>0, <3>1 DEF OriginatorHasIt, Has
      <3>6. t \in comp[u.server_id]
        BY <2>2, <3>4
      <3> QED
        BY <1>0, <3>1, <3>4, <3>5, <3>6 DEF Shared
    <2>6. \A t \in comp[s] : Has(s) \subseteq Has(t)
      BY <2>4, <2>5 DEF Has
    <2>7. \A t \in Server : Has(t)' = Has(t)
      BY <1>0, <1>2, <1>5, <1>1, QuietOrder
    <2>8. Shared'
      <3>1. \A t \in Server : \A r \in comp[t] : r \in Server
        BY <1>0, CompTypes
      <3> QED
        BY <1>0, <1>1, <1>4, <2>6, <2>7, <3>1 DEF Shared
    <2> QED
      BY <1>6, <2>8 DEF PromiseInv
  <1> QED
    BY <1>7, <1>8

--------------------------------------------------------------------------------
(* What is promised: posts *)

\* No vector claims an update before its originator has made it.
LEMMA ClaimsWithin ==
  ASSUME TypeOK, ControlInv, ClaimsOK, VectorWithin, NEW t \in Server, Started(t), NEW c \in Server
  PROVE  MaxLts(summary[t], c) \in Nat /\ MaxLts(summary[t], c) <= lts[c]
PROOF
  <1>1. /\ MaxLts(summary[t], c) \in Nat /\ lts[c] \in Nat
        /\ MaxLts(summary[t], c) > 0 =>
             \E r \in DOMAIN summary[t] : summary[t][r][c] = MaxLts(summary[t], c)
    BY KnownFacts, MaxLtsProperties DEF TypeOK, SyncType
  <1>2. CASE MaxLts(summary[t], c) > 0
    <2>1. PICK r \in DOMAIN summary[t] : summary[t][r][c] = MaxLts(summary[t], c)
      BY <1>1, <1>2
    <2>2. r \in comp[t] /\ r \in Server
      BY StartedAll, CompTypes DEF ControlInv
    <2>3. <<r, summary[t][r]>> \in Claims(t)
      BY <2>2, StartedClaims
    <2>4. summary[t][r][c] <= server_lts[r][c]
      BY <2>3 DEF ClaimsOK
    <2>5. server_lts[r][c] <= lts[c] /\ server_lts[r][c] \in Nat
      BY <2>2, KnownFacts DEF VectorWithin
    <2> QED
      BY <1>1, <2>1, <2>4, <2>5
  <1> QED
    BY <1>1, <1>2

LEMMA PostsPromise ==
  ASSUME CoreStateInv, TypeOK', NEW s \in Server, Live(s), NEW r, Posts(s, r),
         UNCHANGED <<syncVars, loopVars, up, comp>>
  PROVE  PromiseInv'
PROOF
  <1> DEFINE u == NewUpdate(s, r)
             m == NewMessage(s, r)
  <1>0. /\ TypeOK /\ ControlInv /\ Components /\ ObjectsOnly /\ VectorWithin
        /\ ClaimsOK /\ ClaimsAgree /\ ResentOK /\ Ceiling /\ Promised /\ Shared
    BY DEF CoreStateInv, TypeInv, CoreInv, ControlInv, OrderInv, PromiseInv
  <1>1. /\ u \in Update /\ u.server_id = s /\ u.lts = lts[s] + 1
        /\ m \in Message /\ m.type = "Update" /\ inbox' = Multicast(inbox, s, m)
        /\ Takes(s, u)
    BY DEF Posts, NewUpdate, NewMessage
  <1>2. /\ \A t \in comp[s] : Has(t)' = Has(t) \cup {u}
        /\ \A t \in Server : t \notin comp[s] => Has(t)' = Has(t)
        /\ Known' \subseteq Known \cup {u}
    BY <1>0, PostsHas
  <1>3. UNCHANGED <<syncOn, vector_rcvd, num_memb, summary, pc, job>>
    BY DEF syncVars, loopVars
  <1>4. /\ \A t, o \in Server : server_lts[t][o] <= server_lts'[t][o]
        /\ \A t \in Server : t # s => server_lts'[t] = server_lts[t]
    BY <1>0, <1>1, TakesEffect
  <1> HIDE DEF u, m
  <1>5. /\ \A t \in Server : \A i \in DOMAIN inbox'[t] :
             \/ inbox'[t][i] = m
             \/ \E j \in DOMAIN inbox[t] : inbox'[t][i] = inbox[t][j]
        /\ \A t \in Server : Fresh(t)' <=> Fresh(t)
    BY <1>0, <1>1, DeliverInbox
  <1>6. \A t \in Server : /\ (Joined(t)' <=> Joined(t)) /\ (Started(t)' <=> Started(t))
                          /\ (Live(t)' <=> Live(t))
    BY <1>0, <1>3, <1>5, PhasesKept
  <1>7. \A t \in Server : Claims(t)' \subseteq Claims(t)
    <2>1. \A t \in Server : \A i \in Positions(inbox'[t], "Vector") :
            \E j \in DOMAIN inbox[t] : inbox'[t][i] = inbox[t][j]
      BY <1>1, <1>5 DEF Positions
    <2> QED
      BY <1>3, <1>6, <2>1, SameClaims
  <1>8. \A t \in Server : syncOn'[t] => syncOn[t] /\ t # s
    BY <1>3 DEF Live
  <1>9. \A t \in Server : \A i \in Positions(inbox'[t], "SyncUpdate") :
          \E j \in Positions(inbox[t], "SyncUpdate") : inbox'[t][i] = inbox[t][j]
    BY <1>1, <1>5 DEF Positions
  <1>10. ClaimsOK' /\ ClaimsAgree' /\ ResentOK'
    <2>1. \A t \in Server : \A i \in Positions(inbox'[t], "SyncUpdate") :
            Positions(inbox[t], "SyncUpdate") # {}
      BY <1>9
    <2> QED
      BY <1>0, <1>4, <1>6, <1>7, <1>8, <2>1, ClaimsKept
  <1>11. Ceiling'
    BY <1>0, <1>3, <1>4, <1>6, <1>8, <1>9, CeilingKept
  <1>12. \A t \in Server : Has(t) \subseteq Has(t)'
    BY <1>2
  <1>13. Promised'
    <2>1. \A t \in Server : Started(t) => ~ (u.lts <= MaxLts(summary[t], u.server_id))
      <3> SUFFICES ASSUME NEW t \in Server, Started(t)
                   PROVE  ~ (u.lts <= MaxLts(summary[t], u.server_id))
        OBVIOUS
      <3>1. MaxLts(summary[t], s) \in Nat /\ MaxLts(summary[t], s) <= lts[s] /\ lts[s] \in Nat
        BY <1>0, ClaimsWithin, KnownFacts
      <3> QED
        BY <1>1, <3>1
    <2>2. \A w \in Known' : \/ w \in Known
                            \/ \A t \in Server : Started(t) =>
                                 ~ (w.lts <= MaxLts(summary[t], w.server_id))
      BY <1>2, <2>1
    <2> QED
      BY <1>0, <1>3, <1>6, <1>12, <2>2, PromisedKept
  <1>14. Shared'
    <2>1. \A t \in comp[s] : t \in Server /\ comp[t] = comp[s]
      BY <1>0, CompTypes
    <2>2. \A t \in Server : \A w \in Has(t)' : w \in Has(t) \/ \A o \in comp[t] : w \in Has(o)'
      BY <1>2, <2>1
    <2> QED
      BY <1>0, <1>6, <1>12, <2>2, SharedKept
  <1> QED
    BY <1>10, <1>11, <1>13, <1>14 DEF PromiseInv

--------------------------------------------------------------------------------
(* What is promised: memberships *)

\* A server that reads a membership claims what it has.  It has claimed nothing since
\* the last one, and nobody has the vectors of all members without its own.
LEMMA MembPromise ==
  ASSUME CoreStateInv, TypeOK', NEW s \in Server, RecvMembership(s)
  PROVE  PromiseInv'
PROOF
  <1>0. /\ TypeOK /\ ControlInv /\ Components /\ OrderInv /\ ObjectsOnly
        /\ ClaimsOK /\ ClaimsAgree /\ ResentOK /\ Ceiling /\ Promised /\ Shared
    BY DEF CoreStateInv, TypeInv, CoreInv, ControlInv, OrderInv, PromiseInv
  <1>1. /\ UNCHANGED <<clockVars, fileVars, job, comp>>
        /\ \A t \in Server : t # s => /\ summary'[t] = summary[t] /\ syncOn'[t] = syncOn[t]
        /\ num_memb'[s] > 1 => summary'[s] = NoRows
    BY <1>0 DEF RecvMembership, loopVars, netVars, TypeOK, SyncType
  <1>2. UNCHANGED <<log, server_lts>>
    BY <1>1 DEF fileVars, clockVars
  <1>3. \A t \in Server : QuietChange(inbox[t], inbox'[t])
    BY <1>0, QuietSteps
  <1>4. Known' = Known /\ \A t \in Server : Has(t)' = Has(t)
    BY <1>0, <1>1, <1>2, <1>3, QuietOrder
  <1>5. /\ ~ Fresh(s) /\ (Joined(s)' <=> num_memb'[s] > 1) /\ (Live(s)' <=> ~ num_memb'[s] > 1)
        /\ \A t \in Server : t # s => (Joined(t)' <=> Joined(t)) /\ (Live(t)' <=> Live(t))
        /\ \A t \in Server : Started(t)' <=> Started(t)
    BY <1>0, MembPhases
  <1>6. /\ VectorOf(s).type = "Vector" /\ num_memb'[s] = Cardinality(comp[s])
        /\ \A t \in Server : \A i \in DOMAIN inbox'[t] :
              \/ t \in comp[s] /\ inbox'[t][i] = VectorOf(s)
              \/ \E j \in DOMAIN inbox[t] : inbox'[t][i] = inbox[t][j]
    BY <1>0, MembInbox, MembMessages
  <1>7. ~ Joined(s) /\ ~ Started(s)
    BY <1>5 DEF Joined, Started
  <1>8. ASSUME NEW t \in Server, NEW p \in Claims(t)'
        PROVE  p \in Claims(t) \/ (t \in comp[s] /\ p = <<s, server_lts[s]>>)
    <2>1. CASE p \in Rows(t)'
      <3>1. CASE t = s
        <4>1. DOMAIN NoRows = {}
          BY DEF NoRows
        <4> QED
          BY <1>1, <1>5, <2>1, <3>1, <4>1 DEF Rows
      <3>2. CASE t # s
        BY <1>1, <1>5, <2>1, <3>2 DEF Rows, Claims
      <3> QED
        BY <3>1, <3>2
    <2>2. CASE p \in Offered(t)'
      <3>1. PICK i \in Positions(inbox'[t], "Vector") :
              p = <<inbox'[t][i].server_index, inbox'[t][i].server_vector>>
        BY <2>2 DEF Offered
      <3>2. CASE t \in comp[s] /\ inbox'[t][i] = VectorOf(s)
        BY <3>1, <3>2 DEF VectorOf
      <3>3. CASE \E j \in DOMAIN inbox[t] : inbox'[t][i] = inbox[t][j]
        <4>1. PICK j \in DOMAIN inbox[t] : inbox'[t][i] = inbox[t][j]
          BY <3>3
        <4>2. j \in Positions(inbox[t], "Vector")
          BY <3>1, <4>1 DEF Positions
        <4> QED
          BY <3>1, <4>1, <4>2 DEF Offered, Claims
      <3> QED
        BY <1>6, <3>1, <3>2, <3>3 DEF Positions
    <2> QED
      BY <1>8, <2>1, <2>2 DEF Claims
  <1>9. \A t \in Server : \A p \in Claims(t) : p[1] # s /\ p[1] \in Server
    BY <1>0, <1>7, ClaimsFrom
  <1>10. ClaimsOK'
    <2> SUFFICES ASSUME NEW t \in Server, NEW p \in Claims(t)'
                 PROVE  /\ \A c \in Server : p[2][c] <= server_lts[p[1]][c]
                        /\ syncOn'[p[1]] => \/ p[2] = server_lts[p[1]]
                                            \/ \E r \in comp[t] : Started(r)'
      BY <1>1, <1>2 DEF ClaimsOK
    <2>1. \A r \in comp[t] : r \in Server
      BY <1>0, CompTypes
    <2>2. CASE p \in Claims(t)
      <3>1. /\ \A c \in Server : p[2][c] <= server_lts[p[1]][c]
            /\ syncOn[p[1]] => p[2] = server_lts[p[1]] \/ \E r \in comp[t] : Started(r)
        BY <1>0, <2>2 DEF ClaimsOK
      <3> QED
        BY <1>1, <1>5, <1>9, <2>1, <2>2, <3>1
    <2>3. CASE p = <<s, server_lts[s]>>
      <3>1. \A c \in Server : server_lts[s][c] \in Nat
        BY <1>0, KnownFacts
      <3> QED
        BY <2>3, <3>1
    <2> QED
      BY <1>8, <2>2, <2>3
  <1>11. ClaimsAgree'
    <2> SUFFICES ASSUME NEW t \in Server, NEW r \in comp[t], NEW p \in Claims(t)', NEW q \in Claims(r)',
                        p[1] = q[1]
                 PROVE  p[2] = q[2]
      BY <1>1 DEF ClaimsAgree
    <2>1. r \in Server
      BY <1>0, CompTypes
    <2>2. CASE p \in Claims(t) /\ q \in Claims(r)
      BY <1>0, <2>2 DEF ClaimsAgree
    <2>3. CASE p = <<s, server_lts[s]>> /\ q = <<s, server_lts[s]>>
      BY <2>3
    <2>4. ~ (p \in Claims(t) /\ q = <<s, server_lts[s]>>)
      BY <1>9
    <2>5. ~ (p = <<s, server_lts[s]>> /\ q \in Claims(r))
      BY <1>9, <2>1
    <2> QED
      BY <1>8, <2>1, <2>2, <2>3, <2>4, <2>5
  <1>12. \A t \in Server : \A i \in Positions(inbox'[t], "SyncUpdate") :
           \E j \in Positions(inbox[t], "SyncUpdate") : inbox'[t][i] = inbox[t][j]
    BY <1>6 DEF Positions
  <1>13. ResentOK'
    <2>1. \A t \in Server : \A r \in comp[t] : r \in Server
      BY <1>0, CompTypes
    <2> QED
      BY <1>0, <1>1, <1>5, <1>12, <2>1 DEF ResentOK
  <1>14. \A t \in Server : Started(t) => summary'[t] = summary[t]
    BY <1>1, <1>7
  <1>15. Ceiling'
    <2>1. ASSUME NEW t \in Server, NEW r \in comp[t], Started(r), syncOn'[t]
          PROVE  syncOn[t]
      <3>1. r \in Server /\ t \in comp[r]
        BY <1>0, CompTypes
      <3>2. Joined(t)
        BY <1>0, <2>1, <3>1, StartedAll
      <3> QED
        BY <1>1, <1>7, <2>1, <3>2
    <2> QED
      BY <1>0, <1>1, <1>2, <1>5, <1>12, <1>14, <2>1, CeilingKept
  <1>16. Promised'
    BY <1>0, <1>1, <1>4, <1>5, <1>14, PromisedKept
  <1>17. Shared'
    <2> SUFFICES ASSUME NEW t \in Server, Live(t)', NEW r \in comp[t]
                 PROVE  Has(t) \subseteq Has(r)
      <3>1. \A t \in Server : \A r \in comp[t] : r \in Server
        BY <1>0, CompTypes
      <3> QED
        BY <1>1, <1>4, <3>1 DEF Shared
    <2>1. CASE t = s
      <3>1. comp[s] = {s}
        BY <1>0, <1>5, <1>6, <2>1, Alone
      <3> QED
        BY <2>1, <3>1
    <2>2. CASE t # s
      BY <1>0, <1>5, <2>2 DEF Shared
    <2> QED
      BY <2>1, <2>2
  <1> QED
    BY <1>10, <1>11, <1>13, <1>15, <1>16, <1>17 DEF PromiseInv

--------------------------------------------------------------------------------
(* What is promised: vectors *)

LEMMA VectorClaims ==
  ASSUME TypeOK, ControlInv, NEW s \in Server, RecvVector(s)
  PROVE  /\ UNCHANGED <<clockVars, fileVars, syncOn, num_memb, comp>>
         /\ \A t \in Server : t # s => job'[t] = job[t]
         /\ \A t \in Server : \A i \in DOMAIN inbox'[t] :
              \E j \in DOMAIN inbox[t] : inbox'[t][i] = inbox[t][j]
         /\ \A t \in Server : Claims(t)' \subseteq Claims(t)
PROOF
  <1>0. TypeOK /\ Components
    BY DEF ControlInv
  <1>1. /\ UNCHANGED <<clockVars, fileVars, syncOn, num_memb, comp>>
        /\ inbox' = Received[s] /\ inbox[s] # <<>> /\ Head(inbox[s]).type = "Vector"
        /\ \A t \in Server : t # s => job'[t] = job[t]
    BY <1>0 DEF RecvVector, Receives, netVars, TypeOK, LoopType
  <1>2. \A t \in Server : \A i \in DOMAIN inbox'[t] :
          \E j \in DOMAIN inbox[t] : inbox'[t][i] = inbox[t][j]
    BY <1>0, <1>1, ReadInbox
  <1>3. /\ \A t \in Server : t # s => summary'[t] = summary[t]
        /\ summary'[s] = WithRow(summary[s], Head(inbox[s]))
        /\ DOMAIN summary'[s] = DOMAIN summary[s] \cup {Head(inbox[s]).server_index}
    BY VectorRows
  <1>4. Joined(s) /\ \A t \in Server : Joined(t)' <=> Joined(t)
    BY VectorPhases
  <1>5. \A t \in Server : Offered(t)' \subseteq Offered(t)
    BY <1>2 DEF Offered, Positions
  <1>6. Rows(s)' \subseteq Claims(s)
    <2> SUFFICES ASSUME NEW r \in DOMAIN summary'[s]
                 PROVE  <<r, summary'[s][r]>> \in Claims(s)
      BY DEF Rows
    <2>1. CASE r = Head(inbox[s]).server_index
      <3>1. 1 \in DOMAIN inbox[s] /\ inbox[s][1] = Head(inbox[s])
        BY <1>0, <1>1, TailAt DEF TypeOK, NetType
      <3>2. 1 \in Positions(inbox[s], "Vector")
        BY <1>1, <3>1 DEF Positions
      <3>3. summary'[s][r] = Head(inbox[s]).server_vector
        BY <1>3, <2>1 DEF WithRow
      <3>4. <<inbox[s][1].server_index, inbox[s][1].server_vector>> \in Offered(s)
        BY <3>2 DEF Offered
      <3> QED
        BY <2>1, <3>1, <3>3, <3>4 DEF Claims
    <2>2. CASE r # Head(inbox[s]).server_index
      <3>1. r \in DOMAIN summary[s] /\ summary'[s][r] = summary[s][r]
        BY <1>3, <2>2 DEF WithRow
      <3> QED
        BY <1>4, <3>1 DEF Rows, Claims
    <2> QED
      BY <2>1, <2>2
  <1>7. \A t \in Server : t # s => Rows(t)' \subseteq Rows(t)
    BY <1>3, <1>4 DEF Rows
  <1> QED
    BY <1>1, <1>2, <1>5, <1>6, <1>7 DEF Claims

\* With the last vector a server has the matrix that every member which has them all has.
LEMMA LastVector ==
  ASSUME TypeOK, TypeOK', ControlInv, ClaimsAgree, NEW s \in Server, RecvVector(s), Started(s)'
  PROVE  /\ IsSummary(summary'[s]) /\ DOMAIN summary'[s] = comp[s] /\ pc[s] = "idle" /\ pc'[s] = "sending"
         /\ \A r \in comp[s] : <<r, summary'[s][r]>> \in Claims(s)
         /\ \A t \in comp[s] : Started(t) => summary[t] = summary'[s]
         /\ job'[s] = {p \in Job(s, summary'[s]) : LogMatches(s, p) # {}}
PROOF
  <1>0. Components /\ CountOK
    BY DEF ControlInv
  <1>1. /\ RowsOK' /\ InView(s, summary'[s]) = summary'[s] /\ IsSummary(summary'[s])
    BY VectorRows DEF TypeOK, SyncType
  <1>2. /\ Joined(s) /\ Joined(s)' /\ vector_rcvd'[s] = num_memb[s] /\ UNCHANGED <<num_memb, comp>>
    BY VectorPhases, VectorClaims
  <1>3. DOMAIN summary'[s] = comp[s]
    <2>1. /\ DOMAIN summary'[s] \subseteq comp[s]
          /\ vector_rcvd'[s] = Cardinality(DOMAIN summary'[s])
      BY <1>1, <1>2 DEF RowsOK
    <2>2. num_memb[s] = Cardinality(comp[s]) /\ IsFiniteSet(comp[s])
      BY <1>0, <1>2, CompTypes DEF CountOK, Joined
    <2> QED
      BY <1>2, <2>1, <2>2, FS_Subset
  <1>4. \A r \in comp[s] : <<r, summary'[s][r]>> \in Claims(s)
    <2>1. \A r \in comp[s] : <<r, summary'[s][r]>> \in Claims(s)'
      BY <1>2, <1>3 DEF Rows, Claims
    <2> QED
      BY <2>1, VectorClaims
  <1>5. /\ job'[s] = {p \in Job(s, summary'[s]) : LogMatches(s, p) # {}}
        /\ pc[s] = "idle" /\ pc'[s] = "sending"
    BY <1>1, <1>2 DEF RecvVector, Receives, TypeOK, LoopType
  <1>6. ASSUME NEW t \in comp[s], Started(t) PROVE summary[t] = summary'[s]
    <2>1. t \in Server /\ comp[t] = comp[s]
      BY <1>0, CompTypes
    <2>2. DOMAIN summary[t] = comp[s] /\ IsSummary(summary[t])
      BY <1>6, <2>1, StartedAll DEF TypeOK, SyncType
    <2>3. \A r \in comp[s] : summary[t][r] = summary'[s][r]
      <3> SUFFICES ASSUME NEW r \in comp[s] PROVE summary[t][r] = summary'[s][r]
        OBVIOUS
      <3>1. <<r, summary[t][r]>> \in Claims(t)
        BY <1>6, <2>1, StartedClaims
      <3>2. <<r, summary'[s][r]>> \in Claims(s)
        BY <1>4
      <3> DEFINE p == <<r, summary'[s][r]>>
                 q == <<r, summary[t][r]>>
      <3>3. p[1] = q[1] => p[2] = q[2]
        BY <3>1, <3>2 DEF ClaimsAgree
      <3> QED
        BY <3>3
    <2> QED
      BY <1>1, <1>3, <2>2, <2>3 DEF IsSummary
  <1> QED
    BY <1>1, <1>3, <1>4, <1>5, <1>6

\* Nobody has or is sent more than the maxima of the vectors.
LEMMA LastVectorCeiling ==
  ASSUME TypeOK, TypeOK', ControlInv, ClaimsOK, ClaimsAgree, ResentOK, Ceiling,
         NEW s \in Server, RecvVector(s), Started(s)', NEW r \in comp[s]
  PROVE  /\ syncOn[r] => \A c \in Server : server_lts[r][c] <= MaxLts(summary'[s], c)
         /\ \A i \in Positions(inbox[r], "SyncUpdate") :
              inbox[r][i].update.lts <= MaxLts(summary'[s], inbox[r][i].update.server_id)
         /\ \A p \in job'[r] : p[2] <= MaxLts(summary'[s], p[1])
PROOF
  <1>0. Components /\ JobOK
    BY DEF ControlInv
  <1>1. /\ IsSummary(summary'[s]) /\ DOMAIN summary'[s] = comp[s]
        /\ \A t \in comp[s] : <<t, summary'[s][t]>> \in Claims(s)
        /\ \A t \in comp[s] : Started(t) => summary[t] = summary'[s]
        /\ job'[s] = {p \in Job(s, summary'[s]) : LogMatches(s, p) # {}}
    BY LastVector
  <1>2. r \in Server /\ comp[r] = comp[s]
    BY <1>0, CompTypes
  <1>3. \A t \in Server : t # s => job'[t] = job[t]
    BY VectorClaims
  <1>4. \A p \in job'[s] : p[2] <= MaxLts(summary'[s], p[1])
    <2> SUFFICES ASSUME NEW p \in Job(s, summary'[s]) PROVE p[2] <= MaxLts(summary'[s], p[1])
      BY <1>1
    <2>1. p[1] \in Server /\ p[2] \in Wanted(summary'[s], p[1])
      BY JobElected
    <2>2. MaxLts(summary'[s], p[1]) \in Nat /\ MinLts(summary'[s], p[1]) \in Nat
      BY <1>1, <2>1, MaxLtsProperties, MinLtsProperties
    <2> QED
      BY <2>1, <2>2 DEF Wanted
  <1>5. CASE \E t \in comp[s] : Started(t)
    <2>1. PICK t \in comp[s] : Started(t)
      BY <1>5
    <2>2. t \in Server /\ r \in comp[t] /\ summary[t] = summary'[s]
      BY <1>0, <1>1, <2>1, CompTypes
    <2>3. /\ syncOn[r] => \A c \in Server : server_lts[r][c] <= MaxLts(summary[t], c)
          /\ \A i \in Positions(inbox[r], "SyncUpdate") :
               inbox[r][i].update.lts <= MaxLts(summary[t], inbox[r][i].update.server_id)
          /\ \A p \in job[r] : p[2] <= MaxLts(summary[t], p[1])
      BY <2>1, <2>2 DEF Ceiling
    <2> QED
      BY <1>2, <1>3, <1>4, <2>2, <2>3
  <1>6. CASE ~ \E t \in comp[s] : Started(t)
    <2>1. Positions(inbox[r], "SyncUpdate") = {}
      BY <1>2, <1>6 DEF ResentOK
    <2>2. r # s => job'[r] = {}
      BY <1>0, <1>2, <1>3, <1>6 DEF JobOK
    <2>3. syncOn[r] => summary'[s][r] = server_lts[r]
      <3> DEFINE p == <<r, summary'[s][r]>>
      <3>1. syncOn[p[1]] => p[2] = server_lts[p[1]] \/ \E t \in comp[s] : Started(t)
        BY <1>1 DEF ClaimsOK
      <3> QED
        BY <1>6, <3>1
    <2>4. \A c \in Server : summary'[s][r][c] <= MaxLts(summary'[s], c)
      BY <1>1, MaxLtsProperties
    <2> QED
      BY <1>4, <2>1, <2>2, <2>3, <2>4
  <1> QED
    BY <1>5, <1>6

\* What a member may lack of the maxima is elected now, here or at another member.
LEMMA LastVectorPromise ==
  ASSUME CoreStateInv, TypeOK', NEW s \in Server, RecvVector(s), DistinctMaxima(s), Started(s)',
         NEW r \in comp[s], NEW u \in Known, u.lts <= MaxLts(summary'[s], u.server_id)
  PROVE  (u \in Has(r) \/ StillToSend(Sender(summary[s], u.server_id), u))'
PROOF
  <1> DEFINE M == summary'[s]
             c == u.server_id
             x == Sender(M, c)
  <1>0. /\ TypeOK /\ ControlInv /\ Components /\ OrderInv /\ ObjectsOnly /\ LogIsPrefix
        /\ ClaimsOK /\ ClaimsAgree /\ Promised
    BY DEF CoreStateInv, TypeInv, CoreInv, ControlInv, OrderInv, PromiseInv
  <1>1. /\ IsSummary(M) /\ DOMAIN M = comp[s] /\ pc[s] = "idle" /\ pc'[s] = "sending"
        /\ \A t \in comp[s] : <<t, M[t]>> \in Claims(s)
        /\ \A t \in comp[s] : Started(t) => summary[t] = M
        /\ job'[s] = {p \in Job(s, M) : LogMatches(s, p) # {}}
    BY <1>0, LastVector
  <1>2. \A c_1 \in Server : ~ TiedOut(M, c_1)
    BY <1>0, <1>1, VectorRows DEF DistinctMaxima
  <1>3. /\ \A t \in Server : t # s => job'[t] = job[t] /\ (Started(t)' <=> Started(t))
        /\ UNCHANGED <<clockVars, fileVars, comp>>
    BY <1>0, VectorClaims, VectorPhases
  <1>4. \A t \in Server : Has(t)' = Has(t)
    <2>1. \A t \in Server : QuietChange(inbox[t], inbox'[t])
      BY <1>0, QuietSteps
    <2>2. UNCHANGED log
      BY <1>3 DEF fileVars
    <2> QED
      BY <1>0, <1>3, <2>1, <2>2, QuietOrder
  <1>5. /\ r \in Server /\ c \in Server /\ u.lts \in Nat /\ u.lts > 0
        /\ \A t \in comp[s] : t \in Server /\ comp[t] = comp[s] /\ r \in comp[t]
    BY <1>0, CompTypes, KnownFacts DEF ObjectsOnly
  <1> HIDE DEF M
  <1>6. MaxLts(M, c) \in Nat /\ MaxLts(M, c) > 0 /\ u.lts <= MaxLts(M, c)
    <2>1. MaxLts(M, c) \in Nat
      BY <1>1, <1>5, MaxLtsProperties
    <2>2. u.lts <= MaxLts(M, c)
      BY DEF M
    <2> QED
      BY <1>5, <2>1, <2>2
  <1>7. x \in comp[s] /\ M[x][c] = MaxLts(M, c)
    BY <1>1, <1>5, <1>6, SenderProperties
  <1>8. ASSUME NEW t \in comp[s] PROVE M[t][c] <= server_lts[t][c] /\ M[t][c] \in Nat
    <2> DEFINE p == <<t, M[t]>>
    <2>1. \A o \in Server : p[2][o] <= server_lts[p[1]][o]
      BY <1>0, <1>1 DEF ClaimsOK
    <2>2. M[t] \in Vector
      BY <1>1 DEF IsSummary
    <2> QED
      BY <1>5, <2>1, <2>2 DEF Vector
  <1>9. CASE x # s
    <2>1. Started(x) => u \in Has(r) \/ <<c, u.lts>> \in job[x]
      <3> SUFFICES ASSUME Started(x) PROVE u \in Has(r) \/ <<c, u.lts>> \in job[x]
        OBVIOUS
      <3>1. summary[x] = M /\ x \in Server /\ r \in comp[x]
        BY <1>1, <1>5, <1>7
      <3>2. u \in Has(r) \/ StillToSend(Sender(summary[x], c), u)
        BY <1>0, <1>6, <3>1 DEF Promised
      <3> QED
        BY <3>1, <3>2 DEF StillToSend
    <2>2. PICK y \in Server : y = x
      BY <1>5, <1>7
    <2>3. u \in Has(r)' \/ ~ Started(y)' \/ <<c, u.lts>> \in job'[y]
      BY <1>3, <1>4, <1>5, <1>9, <2>1, <2>2
    <2>4. y = Sender(summary'[s], c)
      BY <2>2 DEF M
    <2> QED
      BY <2>3, <2>4 DEF StillToSend, Started, Joined, Fresh, Gone, Waiting
  <1>10. CASE x = s
    <2>1. CASE u.lts <= server_lts[r][c]
      <3>1. u \in Logged(r)
        BY <1>0, <1>5, <2>1 DEF LogIsPrefix
      <3>2. u \in Has(r)'
        BY <1>4, <1>5, <3>1 DEF Has
      <3> QED
        BY <3>2
    <2>2. CASE ~ (u.lts <= server_lts[r][c])
      <3>1. MinLts(M, c) \in Nat /\ MinLts(M, c) <= M[r][c]
        BY <1>1, <1>5, MinLtsProperties
      <3>2. u.lts \in Wanted(M, c)
        <4>1. server_lts[r][c] \in Nat /\ M[r][c] \in Nat /\ M[r][c] <= server_lts[r][c]
          BY <1>0, <1>5, <1>8, KnownFacts
        <4> QED
          BY <1>5, <1>6, <2>2, <3>1, <4>1 DEF Wanted
      <3>3. ShouldSend(M, c)
        BY <1>2, <1>5, <3>2 DEF TiedOut
      <3>4. <<c, u.lts>> \in ColumnJob(s, M, c)
        BY <1>10, <3>2, <3>3 DEF ColumnJob
      <3>5. <<c, u.lts>> \in Job(s, M)
        BY <1>5, <3>4 DEF Job
      <3>6. u \in Logged(s)
        <4>1. M[s][c] <= server_lts[s][c] /\ server_lts[s][c] \in Nat
          BY <1>0, <1>5, <1>7, <1>8, <1>10, KnownFacts
        <4>2. u.lts <= server_lts[s][c]
          BY <1>5, <1>6, <1>7, <1>10, <4>1
        <4> QED
          BY <1>0, <4>2 DEF LogIsPrefix
      <3>7. LogMatches(s, <<c, u.lts>>) # {}
        BY <3>6 DEF LogMatches, Logged
      <3>8. <<c, u.lts>> \in job'[s]
        BY <1>1, <3>5, <3>7
      <3>9. <<c, u.lts>> \in job'[Sender(M, c)]
        BY <1>10, <3>8
      <3> QED
        BY <3>9 DEF StillToSend, M
    <2> QED
      BY <2>1, <2>2
  <1> QED
    BY <1>9, <1>10

LEMMA VectorPromise ==
  ASSUME CoreStateInv, TypeOK', NEW s \in Server, RecvVector(s), DistinctMaxima(s)
  PROVE  PromiseInv'
PROOF
  <1>0. /\ TypeOK /\ ControlInv /\ Components /\ OrderInv /\ ObjectsOnly
        /\ ClaimsOK /\ ClaimsAgree /\ ResentOK /\ Ceiling /\ Promised /\ Shared
    BY DEF CoreStateInv, TypeInv, CoreInv, ControlInv, OrderInv, PromiseInv
  <1>1. /\ UNCHANGED <<clockVars, fileVars, syncOn, num_memb, comp>>
        /\ \A t \in Server : t # s => job'[t] = job[t]
        /\ \A t \in Server : \A i \in DOMAIN inbox'[t] :
             \E j \in DOMAIN inbox[t] : inbox'[t][i] = inbox[t][j]
        /\ \A t \in Server : Claims(t)' \subseteq Claims(t)
    BY <1>0, VectorClaims
  <1>2. UNCHANGED <<log, server_lts>>
    BY <1>1 DEF fileVars, clockVars
  <1>3. /\ ~ Started(s) /\ (Started(s)' <=> vector_rcvd'[s] = num_memb[s])
        /\ \A t \in Server : t # s => (Started(t)' <=> Started(t))
        /\ \A t \in Server : Live(t)' <=> Live(t)
    BY <1>0, VectorPhases
  <1>4. \A t \in Server : t # s => summary'[t] = summary[t]
    BY <1>0, VectorRows
  <1>5. Known' = Known /\ \A t \in Server : Has(t)' = Has(t)
    <2>1. \A t \in Server : QuietChange(inbox[t], inbox'[t])
      BY <1>0, QuietSteps
    <2> QED
      BY <1>0, <1>1, <1>2, <2>1, QuietOrder
  <1>6. \A t \in Server : \A r \in comp[t] : r \in Server /\ comp[r] = comp[t] /\ t \in comp[r]
    BY <1>0, CompTypes
  <1>7. \A t \in Server : \A i \in Positions(inbox'[t], "SyncUpdate") :
          \E j \in Positions(inbox[t], "SyncUpdate") : inbox'[t][i] = inbox[t][j]
    BY <1>1 DEF Positions
  <1>8. ClaimsOK' /\ ClaimsAgree' /\ ResentOK'
    <2>1. \A t, o \in Server : server_lts[t][o] <= server_lts'[t][o]
      BY <1>0, <1>2, KnownFacts
    <2>2. \A t \in Server : \A i \in Positions(inbox'[t], "SyncUpdate") :
            Positions(inbox[t], "SyncUpdate") # {}
      BY <1>7
    <2>3. /\ \A t \in Server : Started(t) => Started(t)'
          /\ \A t \in Server : syncOn'[t] =>
               syncOn[t] /\ (server_lts'[t] = server_lts[t] \/ \E r \in comp[t] : Started(r))
      BY <1>1, <1>2, <1>3
    <2> QED
      BY <1>0, <1>1, <2>1, <2>2, <2>3, ClaimsKept
  <1>9. ASSUME Started(s)', NEW t \in comp[s], Started(t) PROVE summary[t] = summary'[s]
    BY <1>0, <1>9, LastVector
  <1>10. Ceiling'
    <2> SUFFICES ASSUME NEW t \in Server, Started(t)', NEW r \in comp[t]
                 PROVE  /\ syncOn[r] => \A c \in Server : server_lts[r][c] <= MaxLts(summary'[t], c)
                        /\ \A i \in Positions(inbox[r], "SyncUpdate") :
                             inbox[r][i].update.lts <= MaxLts(summary'[t], inbox[r][i].update.server_id)
                        /\ \A p \in job'[r] : p[2] <= MaxLts(summary'[t], p[1])
      <3> SUFFICES ASSUME NEW t \in Server, Started(t)', NEW r \in comp[t]
                   PROVE  /\ syncOn[r] =>
                               \A c \in Server : server_lts[r][c] <= MaxLts(summary'[t], c)
                          /\ \A i \in Positions(inbox'[r], "SyncUpdate") :
                               inbox'[r][i].update.lts
                                 <= MaxLts(summary'[t], inbox'[r][i].update.server_id)
                          /\ \A p \in job'[r] : p[2] <= MaxLts(summary'[t], p[1])
        BY <1>1, <1>2 DEF Ceiling
      <3>1. r \in Server
        BY <1>6
      <3>2. \A i \in Positions(inbox'[r], "SyncUpdate") :
              \E j \in Positions(inbox[r], "SyncUpdate") : inbox'[r][i] = inbox[r][j]
        BY <1>7, <3>1
      <3> QED
        BY <3>2
    <2>1. r \in Server
      BY <1>6
    <2>2. CASE Started(s)' /\ r \in comp[s]
      <3>1. summary'[t] = summary'[s]
        BY <1>3, <1>4, <1>6, <1>9, <2>2
      <3> QED
        BY <1>0, <2>2, <3>1, LastVectorCeiling
    <2>3. CASE ~ (Started(s)' /\ r \in comp[s])
      <3>1. t # s /\ Started(t) /\ summary'[t] = summary[t]
        BY <1>3, <1>4, <2>3
      <3>2. job'[r] = job[r]
        <4>1. CASE r # s
          BY <1>1, <2>1, <4>1
        <4>2. CASE r = s
          <5>1. vector_rcvd'[s] # num_memb[s] /\ UNCHANGED num_memb
            BY <1>1, <1>3, <1>6, <2>3, <4>2
          <5> QED
            BY <4>2, <5>1 DEF RecvVector
        <4> QED
          BY <4>1, <4>2
      <3> QED
        BY <1>0, <3>1, <3>2 DEF Ceiling
    <2> QED
      BY <2>2, <2>3
  <1>11. Promised'
    <2> SUFFICES ASSUME NEW t \in Server, Started(t)', NEW r \in comp[t], NEW u \in Known,
                        u.lts <= MaxLts(summary'[t], u.server_id)
                 PROVE  (u \in Has(r) \/ StillToSend(Sender(summary[t], u.server_id), u))'
      BY <1>1, <1>5 DEF Promised
    <2>1. r \in Server
      BY <1>6
    <2>2. CASE Started(s)' /\ r \in comp[s]
      <3>1. summary'[t] = summary'[s]
        BY <1>3, <1>4, <1>6, <1>9, <2>2
      <3>2. u.lts <= MaxLts(summary'[s], u.server_id)
        BY <3>1
      <3>3. (u \in Has(r) \/ StillToSend(Sender(summary[s], u.server_id), u))'
        BY <2>2, <3>2, LastVectorPromise
      <3> QED
        BY <3>1, <3>3 DEF StillToSend, Started, Joined, Fresh, Gone, Waiting
    <2>3. CASE ~ (Started(s)' /\ r \in comp[s])
      <3>1. t # s /\ Started(t) /\ summary'[t] = summary[t] /\ u.lts <= MaxLts(summary[t], u.server_id)
        BY <1>3, <1>4, <2>3
      <3>2. PICK x \in Server : x = Sender(summary[t], u.server_id) /\ x \in comp[t] /\ comp[x] = comp[t]
        BY <1>0, <3>1, SenderMember
      <3>3. u \in Has(r) \/ ~ Started(x) \/ <<u.server_id, u.lts>> \in job[x]
        BY <1>0, <3>1, <3>2 DEF Promised, StillToSend
      <3>4. x = s => ~ Started(x)'
        BY <1>6, <2>3, <3>2
      <3>5. u \in Has(r)' \/ ~ Started(x)' \/ <<u.server_id, u.lts>> \in job'[x]
        BY <1>1, <1>3, <1>5, <2>1, <3>2, <3>3, <3>4
      <3>6. x = Sender(summary'[t], u.server_id)
        BY <3>1, <3>2
      <3> QED
        BY <3>5, <3>6 DEF StillToSend, Started, Joined, Fresh, Gone, Waiting
    <2> QED
      BY <2>2, <2>3
  <1>12. Shared'
    BY <1>0, <1>1, <1>3, <1>5, SharedKept
  <1> QED
    BY <1>8, <1>10, <1>11, <1>12 DEF PromiseInv

--------------------------------------------------------------------------------
(* What is promised: partitions *)

\* The servers that are parted or joined claim and owe nothing, the others notice nothing.
LEMMA PartitionPromise ==
  ASSUME TypeOK, ControlInv, OrderInv, PromiseInv, NEW A \in SUBSET Server, Repartitioned(A)
  PROVE  PromiseInv'
PROOF
  <1>0. /\ TypeOK /\ ControlInv /\ Components /\ JobOK /\ OrderInv /\ ObjectsOnly
        /\ ClaimsOK /\ ClaimsAgree /\ ResentOK /\ Ceiling /\ Promised /\ Shared
    BY DEF ControlInv, OrderInv, PromiseInv
  <1>1. /\ UNCHANGED <<server_lts, log>>
        /\ \A t \in A : job'[t] = {}
        /\ \A t \in Server : t \notin A =>
             /\ inbox'[t] = inbox[t] /\ comp'[t] = comp[t] /\ syncOn'[t] = syncOn[t]
             /\ summary'[t] = summary[t] /\ job'[t] = job[t]
             /\ \A r \in comp[t] : r \notin A
    BY DEF Repartitioned, Untouched, clockVars, fileVars
  <1>2. /\ \A t \in A : MembOf(t).type = "Memb"
        /\ \A t \in A : \A i \in DOMAIN inbox'[t] :
             \/ inbox'[t][i] = MembOf(t)
             \/ inbox'[t][i].type = "Update"
    BY <1>0, PartitionMessages
  <1>3. /\ \A t \in A : ~ Fresh(t)'
        /\ \A t \in Server : t \notin A => /\ (Joined(t)' <=> Joined(t)) /\ (Started(t)' <=> Started(t))
                                           /\ (Live(t)' <=> Live(t))
    BY <1>0, PartitionPhases
  <1>4. Known' \subseteq Known /\ \A t \in Server : t \notin A => Has(t)' = Has(t)
    <2>1. Known' \subseteq Known /\ \A t \in Server : Logged(t)' = Logged(t)
      BY <1>0, PartitionFewer, FewerOrder DEF fileVars
    <2> QED
      BY <1>1, <2>1, CarriedUpdates DEF Has
  <1>5. \A t \in A : /\ ~ Joined(t)' /\ ~ Started(t)' /\ ~ Live(t)'
                     /\ \A i \in DOMAIN inbox'[t] : inbox'[t][i].type \in {"Update", "Memb"}
    <2>1. \A t \in A : ~ Joined(t)' /\ ~ Started(t)' /\ ~ Live(t)'
      BY <1>3 DEF Joined, Started, Live
    <2> QED
      BY <1>2, <2>1
  <1>6. \A t \in A : Claims(t)' = {} /\ Positions(inbox'[t], "SyncUpdate") = {}
    <2>1. \A t \in A : Positions(inbox'[t], "SyncUpdate") = {} /\ Positions(inbox'[t], "Vector") = {}
      BY <1>5 DEF Positions
    <2> QED
      BY <1>5, <2>1 DEF Claims, Rows, Offered
  <1>7. \A t \in Server : t \notin A => Claims(t)' = Claims(t)
    BY <1>1, <1>3 DEF Claims, Rows, Offered
  <1>8. \A t \in Server : \A r \in comp[t] : r \in Server /\ comp[r] = comp[t] /\ t \in comp[r]
    BY <1>0, CompTypes
  <1>9. ClaimsOK' /\ ClaimsAgree'
    <2>1. ASSUME NEW t \in Server, NEW p \in Claims(t)'
          PROVE  /\ t \notin A /\ p \in Claims(t) /\ p[1] \in Server
      BY <1>0, <1>6, <1>7, <2>1, ClaimsFrom
    <2>2. ASSUME NEW t \in Server, NEW p \in Claims(t)'
          PROVE  /\ \A c \in Server : p[2][c] <= server_lts'[p[1]][c]
                 /\ syncOn'[p[1]] => p[2] = server_lts'[p[1]] \/ \E r \in comp'[t] : Started(r)'
      <3>1. /\ \A c \in Server : p[2][c] <= server_lts[p[1]][c]
            /\ syncOn[p[1]] => p[2] = server_lts[p[1]] \/ \E r \in comp[t] : Started(r)
        BY <1>0, <2>1, <2>2 DEF ClaimsOK
      <3>2. p[1] \in comp[t] /\ p[1] \notin A /\ syncOn'[p[1]] = syncOn[p[1]]
        BY <1>0, <1>1, <2>1, <2>2, ClaimsFrom
      <3>3. comp'[t] = comp[t] /\ \A r \in comp[t] : r \in Server /\ r \notin A
        BY <1>1, <1>8, <2>1, <2>2
      <3>4. \A r \in comp[t] : Started(r)' <=> Started(r)
        BY <1>3, <3>3
      <3> QED
        BY <1>1, <3>1, <3>2, <3>3, <3>4
    <2>3. ASSUME NEW t \in Server, NEW r \in comp'[t], NEW p \in Claims(t)', NEW q \in Claims(r)',
                 p[1] = q[1]
          PROVE  p[2] = q[2]
      <3>1. t \notin A /\ p \in Claims(t) /\ r \in comp[t]
        BY <1>1, <2>1, <2>3
      <3>2. r \in Server /\ q \in Claims(r)
        BY <1>8, <2>1, <2>3, <3>1
      <3> QED
        BY <1>0, <2>3, <3>1, <3>2 DEF ClaimsAgree
    <2> QED
      BY <2>2, <2>3 DEF ClaimsOK, ClaimsAgree
  <1>10. ResentOK'
    <2> SUFFICES ASSUME NEW t \in Server, NEW i \in Positions(inbox'[t], "SyncUpdate")
                 PROVE  \E r \in comp'[t] : Started(r)'
      BY DEF ResentOK
    <2>1. t \notin A
      BY <1>6
    <2>2. \E r \in comp[t] : Started(r)
      BY <1>0, <1>1, <2>1 DEF ResentOK
    <2> QED
      BY <1>1, <1>3, <1>8, <2>1, <2>2
  <1>11. ASSUME NEW t \in Server, Started(t)'
         PROVE  t \notin A /\ Started(t) /\ comp'[t] = comp[t] /\ \A r \in comp[t] : r \notin A
    BY <1>1, <1>3, <1>5, <1>11
  <1>12. Ceiling'
    <2> SUFFICES ASSUME NEW t \in Server, Started(t)', NEW s \in comp'[t]
                 PROVE  /\ syncOn'[s] => \A c \in Server : server_lts'[s][c] <= MaxLts(summary'[t], c)
                        /\ \A i \in Positions(inbox'[s], "SyncUpdate") :
                             inbox'[s][i].update.lts <= MaxLts(summary'[t], inbox'[s][i].update.server_id)
                        /\ \A p \in job'[s] : p[2] <= MaxLts(summary'[t], p[1])
      BY DEF Ceiling
    <2>1. /\ Started(t) /\ s \in comp[t] /\ s \in Server /\ inbox'[s] = inbox[s]
          /\ summary'[t] = summary[t] /\ syncOn'[s] = syncOn[s] /\ job'[s] = job[s]
      BY <1>1, <1>8, <1>11
    <2> QED
      BY <1>0, <1>1, <2>1 DEF Ceiling
  <1>13. Promised'
    <2> SUFFICES ASSUME NEW t \in Server, Started(t)', NEW s \in comp'[t], NEW u \in Known,
                        u.lts <= MaxLts(summary[t], u.server_id)
                 PROVE  (u \in Has(s) \/ StillToSend(Sender(summary[t], u.server_id), u))'
      BY <1>1, <1>4, <1>11 DEF Promised
    <2>1. /\ Started(t) /\ s \in comp[t] /\ s \in Server /\ \A r \in comp[t] : r \notin A
          /\ summary'[t] = summary[t]
      BY <1>1, <1>8, <1>11
    <2>2. PICK x \in Server : x = Sender(summary[t], u.server_id) /\ x \in comp[t]
      BY <1>0, <2>1, SenderMember
    <2>3. u \in Has(s) \/ ~ Started(x) \/ <<u.server_id, u.lts>> \in job[x]
      BY <1>0, <2>1, <2>2 DEF Promised, StillToSend
    <2>4. u \in Has(s)' \/ ~ Started(x)' \/ <<u.server_id, u.lts>> \in job'[x]
      BY <1>1, <1>3, <1>4, <2>1, <2>2, <2>3
    <2>5. x = Sender(summary'[t], u.server_id)
      BY <2>1, <2>2
    <2> QED
      BY <2>4, <2>5 DEF StillToSend, Started, Joined, Fresh, Gone, Waiting
  <1>14. Shared'
    <2> SUFFICES ASSUME NEW t \in Server, Live(t)', NEW s \in comp'[t]
                 PROVE  Has(t)' \subseteq Has(s)'
      BY DEF Shared
    <2>1. Live(t) /\ s \in comp[t] /\ s \in Server /\ t \notin A /\ s \notin A
      BY <1>1, <1>3, <1>5, <1>8
    <2> QED
      BY <1>0, <1>4, <2>1 DEF Shared
  <1> QED
    BY <1>9, <1>10, <1>12, <1>13, <1>14 DEF PromiseInv

LEMMA PromiseStutters ==
  ASSUME TypeOK, TypeOK', ControlInv, OrderInv, PromiseInv,
         UNCHANGED <<clockVars, log, syncVars, pc, job, up, comp, inbox>>
  PROVE  PromiseInv'
PROOF
  <1>0. Components
    BY DEF ControlInv
  <1>1. \A t \in Server : QuietChange(inbox[t], inbox'[t])
    BY KnownFacts DEF QuietChange, QuietRest
  <1>2. \A t \in Server : Fresh(t)' <=> Fresh(t)
    BY DEF Fresh, Gone, Waiting
  <1>3. UNCHANGED <<syncOn, vector_rcvd, num_memb, summary>>
    BY DEF syncVars
  <1>4. \A t \in Server : /\ (Joined(t)' <=> Joined(t)) /\ (Started(t)' <=> Started(t))
                          /\ (Live(t)' <=> Live(t))
    BY <1>0, <1>2, <1>3, PhasesKept
  <1>5. \A t \in Server : \A i \in Positions(inbox'[t], "Vector") :
          \E j \in DOMAIN inbox[t] : inbox'[t][i] = inbox[t][j]
    BY DEF Positions
  <1>6. /\ ClaimsOK' /\ ClaimsAgree' /\ ResentOK' /\ Ceiling' /\ Promised'
        /\ (\A t \in Server : Live(t)' => Live(t)) => Shared'
    BY <1>1, <1>3, <1>4, <1>5, QuietPromise
  <1> QED
    BY <1>4, <1>6 DEF PromiseInv

LEMMA PromiseInit == Init => PromiseInv
PROOF
  <1> SUFFICES ASSUME Init PROVE PromiseInv
    OBVIOUS
  <1>1. \A s \in Server : /\ num_memb[s] = 1 /\ comp[s] = {s} /\ DOMAIN inbox[s] = {}
    BY DEF Init
  <1>2. \A s \in Server : ~ Joined(s) /\ ~ Started(s) /\ Claims(s) = {}
    BY <1>1 DEF Joined, Started, Claims, Rows, Offered, Positions
  <1>3. ClaimsOK /\ ClaimsAgree
    BY <1>2 DEF ClaimsOK, ClaimsAgree
  <1>4. ResentOK
    BY <1>1 DEF ResentOK, Positions
  <1>5. Ceiling /\ Promised
    BY <1>2 DEF Ceiling, Promised
  <1>6. Shared
    BY <1>1 DEF Shared
  <1> QED
    BY <1>3, <1>4, <1>5, <1>6 DEF PromiseInv

LEMMA PromiseStep ==
  ASSUME CoreStateInv, TypeOK', NoBoardCreated', [CalmNext]_vars
  PROVE  PromiseInv'
PROOF
  <1>0. TypeOK /\ ControlInv /\ Components /\ Undisturbed /\ OrderInv /\ PromiseInv
    BY DEF CoreStateInv, TypeInv, CoreInv, ControlInv
  <1>1. ASSUME NEW s \in Server, ServerStep(s), DistinctMaxima(s) PROVE PromiseInv'
    <2>1. CASE RecvUpdate(s) \/ RecvSyncUpdate(s)
      BY <2>1, ReadPromise
    <2>2. CASE RecvMembership(s)
      BY <2>2, MembPromise
    <2>3. CASE RecvVector(s)
      BY <1>1, <2>3, VectorPromise
    <2>4. CASE RecvSyncEnd(s)
      BY <2>4, RecvEndPromise
    <2>5. CASE SendUpdate(s)
      BY <2>5, SendPromise
    <2>6. CASE SendSyncEnd(s)
      BY <2>6, SendEndPromise
    <2>7. CASE Drain(s)
      BY <1>0, <2>7 DEF Drain, Undisturbed
    <2> QED
      BY <1>1, <2>1, <2>2, <2>3, <2>4, <2>5, <2>6, <2>7 DEF ServerStep
  <1>2. ASSUME NEW s \in Server, QuietClients(s), NEW r \in ClientRequests, ClientRequest(s, r)
        PROVE  PromiseInv'
    <2>1. /\ Live(s) /\ UNCHANGED <<syncVars, loopVars, netVars, up>>
          /\ UNCHANGED <<clockVars, fileVars, inbox>> \/ Posts(s, r)
      BY <1>2, RequestEffect
    <2>2. CASE UNCHANGED <<clockVars, fileVars, inbox>>
      BY <1>0, <2>1, <2>2, PromiseStutters DEF fileVars, loopVars, netVars
    <2>3. CASE Posts(s, r)
      BY <2>1, <2>3, PostsPromise DEF netVars
    <2> QED
      BY <2>1, <2>2, <2>3
  <1>3. CASE Partitioning
    <2>1. PICK A \in SUBSET Server : Repartitioned(A)
      BY <1>0, <1>3, PartitionShape
    <2> QED
      BY <1>0, <2>1, PartitionPromise
  <1>4. CASE UNCHANGED vars
    BY <1>0, <1>4, PromiseStutters DEF vars, fileVars, loopVars, netVars
  <1> QED
    BY <1>1, <1>2, <1>3, <1>4 DEF CalmNext, Requesting

--------------------------------------------------------------------------------
(* What the clients are told *)

LEMMA ReadTold ==
  ASSUME CoreStateInv, Told, NEW s \in Server, RecvUpdate(s) \/ RecvSyncUpdate(s)
  PROVE  Told'
PROOF
  <1>0. TypeOK /\ Told
    BY DEF CoreStateInv, TypeInv
  <1>1. /\ inbox[s] \in Seq(Message) /\ inbox[s] # <<>> /\ inbox'[s] = Tail(inbox[s])
        /\ \A t \in Server : t # s => inbox'[t] = inbox[t]
    BY <1>0, ReadKnown
  <1>2. /\ ReadsOne(s) /\ \A t \in Server : served[t] \subseteq served'[t]
        /\ RecvUpdate(s) => Read(s) \in served'[s]
        /\ RecvSyncUpdate(s) => Head(inbox[s]).type = "SyncUpdate"
    BY ReadEffect
  <1>3. /\ \A t \in Server : t # s => Logged(t)' = Logged(t)
        /\ Logged(s)' \subseteq Logged(s) \cup {Read(s)}
    BY ReadHas
  <1>4. ASSUME NEW i \in Positions(inbox[s], "Update")
        PROVE  \/ \E j \in Positions(inbox'[s], "Update") : inbox'[s][j] = inbox[s][i]
               \/ inbox[s][i].update \in served'[s]
    <2>1. CASE i = 1
      BY <1>1, <1>2, <2>1, TailAt DEF Positions, Read
    <2>2. CASE i # 1
      <3>1. i - 1 \in DOMAIN Tail(inbox[s]) /\ Tail(inbox[s])[i - 1] = inbox[s][i]
        BY <1>1, <2>2, TailAt DEF Positions
      <3> QED
        BY <1>1, <3>1 DEF Positions
    <2> QED
      BY <2>1, <2>2
  <1>5. \A w \in Logged(s) :
          w \in served'[s] \/ \E j \in Positions(inbox'[s], "Update") : inbox'[s][j].update = w
    BY <1>0, <1>2, <1>4 DEF Told
  <1>6. Logged(s)' = Logged(s) \/ Read(s) \in served'[s]
    BY <1>2 DEF ReadsOne, Logged
  <1>7. \A w \in Logged(s)' :
          w \in served'[s] \/ \E j \in Positions(inbox'[s], "Update") : inbox'[s][j].update = w
    BY <1>3, <1>5, <1>6
  <1>8. ASSUME NEW t \in Server, t # s
        PROVE  \A w \in Logged(t)' :
                 w \in served'[t] \/ \E j \in Positions(inbox'[t], "Update") : inbox'[t][j].update = w
    <2>1. inbox'[t] = inbox[t] /\ Logged(t)' = Logged(t) /\ served[t] \subseteq served'[t]
      BY <1>1, <1>2, <1>3, <1>8
    <2> QED
      BY <1>0, <2>1 DEF Told
  <1> QED
    BY <1>7, <1>8 DEF Told

LEMMA SendTold ==
  ASSUME CoreStateInv, Told, NEW s \in Server, SendUpdate(s)
  PROVE  Told'
PROOF
  <1>0. TypeOK /\ TypeInv /\ Told /\ Components
    BY DEF CoreStateInv, TypeInv, CoreInv, ControlInv
  <1>1. /\ ResendOf(s) \in Message /\ inbox' = Multicast(inbox, s, ResendOf(s))
        /\ \A t \in Server : Logged(t)' = Logged(t)
    BY <1>0, SendEffect
  <1>2. /\ \A t \in Server : t \in comp[s] => inbox'[t] = Append(inbox[t], ResendOf(s))
        /\ \A t \in Server : t \notin comp[s] => inbox'[t] = inbox[t]
        /\ \A t \in Server : inbox[t] \in Seq(Message)
    BY <1>0, <1>1, DeliverInbox
  <1>3. UNCHANGED served
    BY DEF SendUpdate, clientVars
  <1>4. ASSUME NEW t \in Server, NEW i \in Positions(inbox[t], "Update")
        PROVE  \E j \in Positions(inbox'[t], "Update") : inbox'[t][j] = inbox[t][i]
    <2>1. CASE t \in comp[s]
      <3>1. i \in DOMAIN Append(inbox[t], ResendOf(s)) /\ Append(inbox[t], ResendOf(s))[i] = inbox[t][i]
        BY <1>1, <1>2, AppendAt DEF Positions
      <3> QED
        BY <1>2, <2>1, <3>1 DEF Positions
    <2>2. CASE t \notin comp[s]
      BY <1>2, <2>2
    <2> QED
      BY <2>1, <2>2
  <1> QED
    BY <1>0, <1>1, <1>3, <1>4 DEF Told

LEMMA PostsTold ==
  ASSUME CoreStateInv, Told, NEW s \in Server, NEW r, Posts(s, r), UNCHANGED served
  PROVE  Told'
PROOF
  <1> DEFINE u == NewUpdate(s, r)
             m == NewMessage(s, r)
  <1>0. TypeOK /\ Told /\ Components /\ s \in comp[s]
    BY DEF CoreStateInv, TypeInv, CoreInv, ControlInv, Components
  <1>1. m \in Message /\ inbox' = Multicast(inbox, s, m) /\ m.type = "Update" /\ m.update = u
    BY DEF Posts, NewMessage
  <1>2. /\ Logged(s)' = Logged(s) \cup {u}
        /\ \A t \in Server : t # s => Logged(t)' = Logged(t)
    BY <1>0, PostsHas
  <1> HIDE DEF u, m
  <1>3. /\ \A t \in Server : t \in comp[s] => inbox'[t] = Append(inbox[t], m)
        /\ \A t \in Server : t \notin comp[s] => inbox'[t] = inbox[t]
        /\ \A t \in Server : inbox[t] \in Seq(Message)
    BY <1>0, <1>1, DeliverInbox
  <1>4. ASSUME NEW t \in Server, NEW i \in Positions(inbox[t], "Update")
        PROVE  \E j \in Positions(inbox'[t], "Update") : inbox'[t][j] = inbox[t][i]
    <2>1. CASE t \in comp[s]
      <3>1. i \in DOMAIN Append(inbox[t], m) /\ Append(inbox[t], m)[i] = inbox[t][i]
        BY <1>1, <1>3, AppendAt DEF Positions
      <3> QED
        BY <1>3, <2>1, <3>1 DEF Positions
    <2>2. CASE t \notin comp[s]
      BY <1>3, <2>2
    <2> QED
      BY <2>1, <2>2
  <1>5. \E j \in Positions(inbox'[s], "Update") : inbox'[s][j].update = u
    <2>1. Len(inbox[s]) + 1 \in DOMAIN Append(inbox[s], m) /\ Append(inbox[s], m)[Len(inbox[s]) + 1] = m
      BY <1>1, <1>3, AppendAt
    <2>2. inbox'[s] = Append(inbox[s], m)
      BY <1>0, <1>3
    <2> QED
      BY <1>1, <2>1, <2>2 DEF Positions
  <1>6. \A t \in Server : \A w \in Logged(t) :
          w \in served'[t] \/ \E j \in Positions(inbox'[t], "Update") : inbox'[t][j].update = w
    BY <1>0, <1>4 DEF Told
  <1> QED
    BY <1>2, <1>5, <1>6 DEF Told

LEMMA QuietTold ==
  ASSUME TypeOK, Told, UNCHANGED <<log, served>>, \A t \in Server : QuietChange(inbox[t], inbox'[t])
  PROVE  Told'
PROOF
  <1>1. \A t \in Server : SameOfType(inbox[t], inbox'[t], "Update")
    BY QuietKeeps DEF TypeOK, NetType
  <1>2. \A t \in Server : \A i \in Positions(inbox[t], "Update") :
          \E j \in Positions(inbox'[t], "Update") : inbox'[t][j] = inbox[t][i]
    BY <1>1 DEF SameOfType
  <1>3. \A t \in Server : Logged(t)' = Logged(t)
    BY DEF Logged
  <1> QED
    BY <1>2, <1>3 DEF Told

LEMMA PartitionTold ==
  ASSUME TypeOK, TypeOK', Told, Partitioning
  PROVE  Told'
PROOF
  <1>1. \A t \in Server : MembOf(t) \in Message /\ inbox[t] \in Seq(Message)
    BY NewMessages DEF TypeOK, NetType, MembOf
  <1>2. /\ UNCHANGED <<log, served>>
        /\ \A t \in Server : inbox'[t] = inbox[t] \/ inbox'[t] = Append(inbox[t], MembOf(t))
    BY DEF Partitioning, Split, Merge, Announce, NetworkChange, fileVars, clientVars, MembOf
  <1>3. ~ \E t \in Server : Carries(MembOf(t))
    BY DEF MembOf, Carries
  <1>4. \A t \in Server : QuietChange(inbox[t], inbox'[t])
    BY <1>1, <1>2, <1>3 DEF QuietChange, QuietRest
  <1> QED
    BY <1>2, <1>4, QuietTold

--------------------------------------------------------------------------------
(* What the boards show *)

LEMMA KeysAre ==
  \A file : ToSet(Keys(file)) = KeysOf(file)
PROOF
  BY DEF ToSet, Keys, KeysOf

\* A file gets an object twice only if it is made twice.
LEMMA ChangedOnce ==
  ASSUME NEW file \in Seq(Object), NEW u \in Update, IsInjective(Keys(file)),
         u.op = "a" => KeyOf(u) \notin KeysOf(file)
  PROVE  IsInjective(Keys(Changed(file, u)))
PROOF
  <1>1. DOMAIN file = 1 .. Len(file) /\ Len(file) \in Nat
    BY LenProperties
  <1>2. CASE u.op = "a"
    <2> DEFINE o == [obj_id |-> u.obj_id, server_index |-> u.server_index, status |-> TRUE,
                     obj |-> u.obj]
               new == Append(file, o)
    <2>1. o \in Object
      BY DEF Update, Object
    <2>2. <<o.obj_id, o.server_index>> = KeyOf(u)
      BY DEF KeyOf
    <2> HIDE DEF o
    <2>3. /\ DOMAIN new = 1 .. Len(file) + 1 /\ new[Len(file) + 1] = o
          /\ \A i \in 1 .. Len(file) : new[i] = file[i]
      BY <2>1, AppendProperties, LenProperties
    <2> HIDE DEF new
    <2>4. \A i \in DOMAIN file : Keys(file)[i] \in KeysOf(file) /\ i \in DOMAIN Keys(file)
      BY DEF Keys, KeysOf
    <2>5. /\ DOMAIN Keys(new) = 1 .. Len(file) + 1 /\ Keys(new)[Len(file) + 1] = KeyOf(u)
          /\ \A i \in 1 .. Len(file) : Keys(new)[i] = Keys(file)[i]
      BY <1>1, <2>2, <2>3 DEF Keys
    <2>6. IsInjective(Keys(new))
      <3> SUFFICES ASSUME NEW i \in 1 .. Len(file) + 1, NEW j \in 1 .. Len(file) + 1,
                          Keys(new)[i] = Keys(new)[j]
                   PROVE  i = j
        BY <2>5 DEF IsInjective
      <3>1. CASE i \in 1 .. Len(file) /\ j \in 1 .. Len(file)
        BY <1>1, <2>4, <2>5, <3>1 DEF IsInjective
      <3>2. CASE i \in 1 .. Len(file) /\ j = Len(file) + 1
        BY <1>1, <1>2, <2>4, <2>5, <3>2
      <3>3. CASE j \in 1 .. Len(file) /\ i = Len(file) + 1
        BY <1>1, <1>2, <2>4, <2>5, <3>3
      <3> QED
        BY <1>1, <3>1, <3>2, <3>3
    <2> QED
      BY <1>2, <2>6 DEF Changed, Created, new, o
  <1>3. CASE u.op # "a" /\ Matches(file, u) = {}
    BY <1>3 DEF Changed, Edited, Deleted
  <1>4. CASE u.op # "a" /\ Matches(file, u) # {}
    <2> DEFINE i == Least(Matches(file, u))
    <2>1. i \in DOMAIN file
      <3>1. Matches(file, u) \subseteq Nat
        BY <1>1 DEF Matches
      <3> QED
        BY <1>4, <3>1, LeastIn DEF Matches
    <2> HIDE DEF i
    <2>2. ASSUME NEW o, o.obj_id = file[i].obj_id, o.server_index = file[i].server_index
          PROVE  Keys([file EXCEPT ![i] = o]) = Keys(file)
      BY <2>1, <2>2 DEF Keys
    <2>3. /\ Keys([file EXCEPT ![i] = WithText(file[i], u.obj)]) = Keys(file)
          /\ Keys([file EXCEPT ![i] = Dead(file[i])]) = Keys(file)
      BY <2>2 DEF WithText, Dead
    <2> QED
      BY <1>4, <2>3 DEF Changed, Edited, Deleted, i
  <1> QED
    BY <1>2, <1>3, <1>4

\* A list with an update appended.
LEMMA ListAppended ==
  ASSUME NEW q \in Seq(Update), NEW u \in Update
  PROVE  LET r == Append(q, u) IN
           /\ r \in Seq(Update) /\ Len(r) = Len(q) + 1 /\ Len(q) \in Nat
           /\ DOMAIN q = 1 .. Len(q) /\ DOMAIN r = 1 .. Len(q) + 1
           /\ r[Len(q) + 1] = u /\ \A k \in DOMAIN q : r[k] = q[k]
           /\ ToSet(r) = ToSet(q) \cup {u}
PROOF
  <1> DEFINE r == Append(q, u)
  <1>1. /\ r \in Seq(Update) /\ Len(r) = Len(q) + 1 /\ Len(q) \in Nat
        /\ DOMAIN q = 1 .. Len(q) /\ DOMAIN r = 1 .. Len(q) + 1
        /\ r[Len(q) + 1] = u /\ \A k \in DOMAIN q : r[k] = q[k]
    OBVIOUS
  <1> HIDE DEF r
  <1>2. \A k : k \in DOMAIN r <=> k \in DOMAIN q \/ k = Len(q) + 1
    BY <1>1
  <1>3. ToSet(r) = ToSet(q) \cup {u}
    BY <1>1, <1>2 DEF ToSet
  <1> QED
    BY <1>1, <1>3 DEF r

\* What a record appended to a log adds to the places of an object in it.
LEMMA LoggedAtAppended ==
  ASSUME NEW q \in Seq(Update), NEW u \in Update, NEW b, NEW k, NEW ops
  PROVE  /\ u.op \in ops /\ u.db_name = b /\ KeyOf(u) = k =>
              LoggedAt(Append(q, u), b, k, ops) = LoggedAt(q, b, k, ops) \cup {Len(q) + 1}
         /\ ~ (u.op \in ops /\ u.db_name = b /\ KeyOf(u) = k) =>
              LoggedAt(Append(q, u), b, k, ops) = LoggedAt(q, b, k, ops)
         /\ \A n \in LoggedAt(q, b, k, ops) : n \in 1 .. Len(q) /\ Append(q, u)[n] = q[n]
PROOF
  <1> DEFINE r == Append(q, u)
  <1>1. /\ Len(q) \in Nat /\ DOMAIN q = 1 .. Len(q) /\ DOMAIN r = 1 .. Len(q) + 1
        /\ r[Len(q) + 1] = u /\ \A n \in DOMAIN q : r[n] = q[n]
    BY ListAppended
  <1> HIDE DEF r
  <1>2. \A n : n \in DOMAIN r <=> n \in DOMAIN q \/ n = Len(q) + 1
    BY <1>1
  <1>3. /\ u.op \in ops /\ u.db_name = b /\ KeyOf(u) = k =>
             LoggedAt(r, b, k, ops) = LoggedAt(q, b, k, ops) \cup {Len(q) + 1}
        /\ ~ (u.op \in ops /\ u.db_name = b /\ KeyOf(u) = k) =>
             LoggedAt(r, b, k, ops) = LoggedAt(q, b, k, ops)
    BY <1>1, <1>2 DEF LoggedAt, KeyOf
  <1> QED
    BY <1>1, <1>3 DEF r, LoggedAt

\* What a file has at a place after an update: what it had, a new object, or the one
\* live object with the key of the update, changed.
LEMMA ChangedRecords ==
  ASSUME NEW file \in Seq(Object), NEW u \in Update, IsInjective(Keys(file)),
         NEW i \in DOMAIN Changed(file, u)
  PROVE  \/ /\ u.op = "a"
            /\ Changed(file, u)[i] = [obj_id |-> u.obj_id, server_index |-> u.server_index,
                                      status |-> TRUE, obj |-> u.obj]
         \/ /\ i \in DOMAIN file /\ Changed(file, u)[i] = file[i]
            /\ \/ u.op = "a"
               \/ Keys(file)[i] # KeyOf(u)
               \/ ~ file[i].status
         \/ /\ i \in DOMAIN file /\ Keys(file)[i] = KeyOf(u) /\ file[i].status
            /\ \/ u.op = "e" /\ Changed(file, u)[i] = WithText(file[i], u.obj)
               \/ u.op = "d" /\ Changed(file, u)[i] = Dead(file[i])
PROOF
  <1>1. DOMAIN file = 1 .. Len(file) /\ Len(file) \in Nat /\ u.op \in {"a", "e", "d"}
    BY LenProperties DEF Update
  <1>2. CASE u.op = "a"
    <2> DEFINE o == [obj_id |-> u.obj_id, server_index |-> u.server_index, status |-> TRUE,
                     obj |-> u.obj]
               new == Append(file, o)
    <2>1. o \in Object
      BY DEF Update, Object
    <2>2. Changed(file, u) = new
      BY <1>2 DEF Changed, Created
    <2> HIDE DEF o
    <2>3. /\ DOMAIN new = 1 .. Len(file) + 1 /\ new[Len(file) + 1] = o
          /\ \A j \in 1 .. Len(file) : new[j] = file[j]
      BY <2>1, AppendProperties, LenProperties
    <2> HIDE DEF new
    <2>4. i \in 1 .. Len(file) \/ i = Len(file) + 1
      BY <1>1, <2>2, <2>3
    <2> QED
      BY <1>1, <1>2, <2>2, <2>3, <2>4 DEF o
  <1>3. CASE u.op # "a" /\ Matches(file, u) = {}
    <2>1. Changed(file, u) = file
      BY <1>3 DEF Changed, Edited, Deleted
    <2>2. Keys(file)[i] = KeyOf(u) => ~ file[i].status
      BY <1>3, <2>1 DEF Matches, Keys, KeyOf
    <2> QED
      BY <2>1, <2>2
  <1>4. CASE u.op # "a" /\ Matches(file, u) # {}
    <2> DEFINE m == Least(Matches(file, u))
    <2>1. m \in Matches(file, u)
      <3>1. Matches(file, u) \subseteq Nat
        BY <1>1 DEF Matches
      <3> QED
        BY <1>4, <3>1, LeastIn
    <2> HIDE DEF m
    <2>2. m \in DOMAIN file /\ Keys(file)[m] = KeyOf(u) /\ file[m].status
      BY <2>1 DEF Matches, Keys, KeyOf
    <2>3. Changed(file, u) = [file EXCEPT ![m] = IF u.op = "e" THEN WithText(file[m], u.obj)
                                                 ELSE Dead(file[m])]
      BY <1>1, <1>4 DEF Changed, Edited, Deleted, m
    <2>4. i \in DOMAIN file
      BY <2>3
    <2>5. CASE i = m
      BY <1>1, <1>4, <2>2, <2>3, <2>4, <2>5
    <2>6. CASE i # m
      <3>1. Keys(file)[i] # KeyOf(u)
        BY <2>2, <2>4, <2>6 DEF IsInjective, Keys
      <3>2. Changed(file, u)[i] = file[i]
        BY <2>3, <2>4, <2>6
      <3> QED
        BY <2>4, <3>1, <3>2
    <2> QED
      BY <2>5, <2>6
  <1> QED
    BY <1>2, <1>3, <1>4

\* The places of the creation, the deletions and the texts of an object.
MadeAt(q, b, k) == LoggedAt(q, b, k, {"a"})
GoneAt(q, b, k) == LoggedAt(q, b, k, {"d"})
TextAt(q, b, k) == LoggedAt(q, b, k, {"a", "e"})
GoneBefore(A, D, n) == \E c \in A, d \in D : c < d /\ d < n

\* Whether an update changes the places of an object.
Concerns(u, b, k) == u.db_name = b /\ KeyOf(u) = k

Placed(q, u, b, k, n, r) ==
  /\ n \in Nat /\ r[n] = u
  /\ Concerns(u, b, k) /\ u.op = "a" => MadeAt(r, b, k) = MadeAt(q, b, k) \cup {n}
  /\ ~ (Concerns(u, b, k) /\ u.op = "a") => MadeAt(r, b, k) = MadeAt(q, b, k)
  /\ Concerns(u, b, k) /\ u.op = "d" => GoneAt(r, b, k) = GoneAt(q, b, k) \cup {n}
  /\ ~ (Concerns(u, b, k) /\ u.op = "d") => GoneAt(r, b, k) = GoneAt(q, b, k)
  /\ Concerns(u, b, k) /\ u.op # "d" => TextAt(r, b, k) = TextAt(q, b, k) \cup {n}
  /\ ~ (Concerns(u, b, k) /\ u.op # "d") => TextAt(r, b, k) = TextAt(q, b, k)
  /\ \A x \in MadeAt(q, b, k) : x \in Nat /\ x < n
  /\ \A x \in GoneAt(q, b, k) : x \in Nat /\ x < n
  /\ \A x \in TextAt(q, b, k) : x \in Nat /\ x < n /\ r[x] = q[x]
  /\ MadeAt(q, b, k) \cap GoneAt(q, b, k) = {}

LEMMA PlacesAppended ==
  ASSUME NEW q \in Seq(Update), NEW u \in Update, NEW b, NEW k
  PROVE  Placed(q, u, b, k, Len(q) + 1, Append(q, u))
PROOF
  <1> DEFINE n == Len(q) + 1
             r == Append(q, u)
             Added(ops) == /\ u.op \in ops /\ u.db_name = b /\ KeyOf(u) = k =>
                                LoggedAt(r, b, k, ops) = LoggedAt(q, b, k, ops) \cup {n}
                           /\ ~ (u.op \in ops /\ u.db_name = b /\ KeyOf(u) = k) =>
                                LoggedAt(r, b, k, ops) = LoggedAt(q, b, k, ops)
             Old(ops) == \A x \in LoggedAt(q, b, k, ops) : x \in 1 .. Len(q) /\ r[x] = q[x]
  <1>1. Len(q) \in Nat /\ r[n] = u
    BY ListAppended
  <1>2. \A ops : Added(ops) /\ Old(ops)
    <2> TAKE ops
    <2>1. u.op \in ops /\ u.db_name = b /\ KeyOf(u) = k =>
            LoggedAt(r, b, k, ops) = LoggedAt(q, b, k, ops) \cup {n}
      BY LoggedAtAppended
    <2>2. ~ (u.op \in ops /\ u.db_name = b /\ KeyOf(u) = k) =>
            LoggedAt(r, b, k, ops) = LoggedAt(q, b, k, ops)
      BY LoggedAtAppended
    <2>3. Old(ops)
      BY LoggedAtAppended
    <2> QED
      BY <2>1, <2>2, <2>3
  <1> HIDE DEF Added, Old
  <1>3. Added({"a"}) /\ Old({"a"}) /\ Added({"d"}) /\ Old({"d"}) /\ Added({"a", "e"}) /\ Old({"a", "e"})
    BY <1>2
  <1>5. LoggedAt(q, b, k, {"a"}) \cap LoggedAt(q, b, k, {"d"}) = {}
    BY DEF LoggedAt
  <1>6. u.op \in {"a", "e", "d"}
    BY DEF Update
  <1>7. \A x \in 1 .. Len(q) : x \in Nat /\ x < n
    BY <1>1
  <1>8. n \in Nat
    BY <1>1
  <1> HIDE DEF r, n
  <1>9. /\ Concerns(u, b, k) /\ u.op = "a" => MadeAt(r, b, k) = MadeAt(q, b, k) \cup {n}
        /\ ~ (Concerns(u, b, k) /\ u.op = "a") => MadeAt(r, b, k) = MadeAt(q, b, k)
    BY <1>3 DEF MadeAt, Added, Concerns
  <1>10. /\ Concerns(u, b, k) /\ u.op = "d" => GoneAt(r, b, k) = GoneAt(q, b, k) \cup {n}
         /\ ~ (Concerns(u, b, k) /\ u.op = "d") => GoneAt(r, b, k) = GoneAt(q, b, k)
    BY <1>3 DEF GoneAt, Added, Concerns
  <1>11. /\ Concerns(u, b, k) /\ u.op # "d" => TextAt(r, b, k) = TextAt(q, b, k) \cup {n}
         /\ ~ (Concerns(u, b, k) /\ u.op # "d") => TextAt(r, b, k) = TextAt(q, b, k)
    BY <1>3, <1>6 DEF TextAt, Added, Concerns
  <1>12. /\ \A x \in MadeAt(q, b, k) : x \in Nat /\ x < n
         /\ \A x \in GoneAt(q, b, k) : x \in Nat /\ x < n
         /\ \A x \in TextAt(q, b, k) : x \in Nat /\ x < n /\ r[x] = q[x]
         /\ MadeAt(q, b, k) \cap GoneAt(q, b, k) = {}
    BY <1>3, <1>5, <1>7 DEF MadeAt, GoneAt, TextAt, Old
  <1>13. Placed(q, u, b, k, n, r)
    BY <1>1, <1>8, <1>9, <1>10, <1>11, <1>12, Zenon DEF Placed
  <1> QED
    BY <1>13 DEF n, r

\* What a record shows, in these terms.
KeyHeld(o) == <<o.obj_id, o.server_index>>
ShowsLive(q, b, o, k) == o.status <=> \A c \in MadeAt(q, b, k), d \in GoneAt(q, b, k) : d < c
ShowsText(q, b, o, k) ==
  \E w \in TextAt(q, b, k) :
    /\ o.obj = q[w].obj /\ ~ GoneBefore(MadeAt(q, b, k), GoneAt(q, b, k), w)
    /\ \A v \in TextAt(q, b, k) : v > w => GoneBefore(MadeAt(q, b, k), GoneAt(q, b, k), v)

LEMMA ShownPlaces ==
  ASSUME NEW q, NEW b, NEW o
  PROVE  /\ LiveInLog(q, b, o) <=> ShowsLive(q, b, o, KeyHeld(o))
         /\ TextInLog(q, b, o) <=> ShowsText(q, b, o, KeyHeld(o))
PROOF
  <1> DEFINE k == KeyHeld(o)
  <1>1. LiveInLog(q, b, o) <=> ShowsLive(q, b, o, k)
    BY DEF LiveInLog, MadeAt, GoneAt, ShowsLive, KeyHeld
  <1>2. \A n : DeletedBefore(q, b, k, n) <=> GoneBefore(MadeAt(q, b, k), GoneAt(q, b, k), n)
    BY DEF DeletedBefore, GoneBefore, MadeAt, GoneAt
  <1>3. TextInLog(q, b, o) <=>
          \E w \in TextAt(q, b, k) :
            /\ o.obj = q[w].obj /\ ~ DeletedBefore(q, b, k, w)
            /\ \A v \in TextAt(q, b, k) : v > w => DeletedBefore(q, b, k, v)
    BY DEF TextInLog, TextAt, KeyHeld
  <1> HIDE DEF k
  <1>4. TextInLog(q, b, o) <=> ShowsText(q, b, o, k)
    BY <1>2, <1>3 DEF ShowsText
  <1> QED
    BY <1>1, <1>4 DEF k

\* The record of an object shows the log after an update of another object, and after
\* one that finds the object deleted.
LEMMA UntouchedShown ==
  ASSUME NEW q \in Seq(Update), NEW u \in Update, NEW b, NEW o,
         MadeAt(q, b, KeyHeld(o)) # {}, LiveInLog(q, b, o), TextInLog(q, b, o),
         u.db_name # b \/ KeyOf(u) # KeyHeld(o) \/ (u.op # "a" /\ ~ o.status)
  PROVE  LiveInLog(Append(q, u), b, o) /\ TextInLog(Append(q, u), b, o)
PROOF
  <1> DEFINE r == Append(q, u)
             n == Len(q) + 1
             k == KeyHeld(o)
             A == MadeAt(q, b, k)
             D == GoneAt(q, b, k)
             W == TextAt(q, b, k)
  <1>1. Placed(q, u, b, k, n, r)
    BY PlacesAppended
  <1>2. /\ LiveInLog(r, b, o) <=> ShowsLive(r, b, o, k)
        /\ TextInLog(r, b, o) <=> ShowsText(r, b, o, k)
        /\ ShowsLive(q, b, o, k) /\ ShowsText(q, b, o, k)
    BY ShownPlaces
  <1>3. A # {}
    OBVIOUS
  <1>4. u.db_name = b /\ KeyOf(u) = k => u.op # "a" /\ ~ o.status
    OBVIOUS
  <1> HIDE DEF r, n, k
  <1>5. PICK w \in W : /\ o.obj = q[w].obj /\ ~ GoneBefore(A, D, w)
                       /\ \A v \in W : v > w => GoneBefore(A, D, v)
    BY <1>2 DEF ShowsText
  <1>6. CASE ~ Concerns(u, b, k)
    <2>1. MadeAt(r, b, k) = A /\ GoneAt(r, b, k) = D /\ TextAt(r, b, k) = W /\ r[w] = q[w]
      BY <1>1, <1>6 DEF Placed
    <2>2. ShowsLive(r, b, o, k)
      BY <1>2, <2>1 DEF ShowsLive
    <2>3. ShowsText(r, b, o, k)
      BY <1>5, <2>1 DEF ShowsText
    <2> QED
      BY <1>2, <2>2, <2>3 DEF r
  <1>7. CASE Concerns(u, b, k)
    <2>1. u.op # "a" /\ ~ o.status
      BY <1>4, <1>7 DEF Concerns
    <2>2. /\ MadeAt(r, b, k) = A /\ GoneAt(r, b, k) \in {D, D \cup {n}}
          /\ TextAt(r, b, k) \in {W, W \cup {n}} /\ r[w] = q[w] /\ n \in Nat
          /\ A \cap D = {}
          /\ \A x \in A : x \in Nat /\ x < n
          /\ \A x \in D : x \in Nat /\ x < n
          /\ \A x \in W : x \in Nat /\ x < n
      BY <1>1, <2>1 DEF Placed
    <2>3. ~ \A c \in A, d \in D : d < c
      BY <1>2, <2>1 DEF ShowsLive
    <2> DEFINE rD == GoneAt(r, b, k)
               rW == TextAt(r, b, k)
    <2> HIDE DEF A, D, W, rD, rW
    <2>4. PICK c \in A, d \in D : c < d
      <3>1. PICK c \in A, d \in D : ~ (d < c)
        BY <2>3
      <3>2. c # d /\ c \in Nat /\ d \in Nat
        BY <2>2
      <3>3. c < d
        BY <3>1, <3>2
      <3> QED
        BY <3>3
    <2>5. c \in Nat /\ d \in Nat /\ d < n /\ d \in rD /\ ~ (d < c)
      BY <2>2, <2>4 DEF rD
    <2>6. \A x \in Nat : x <= n => (GoneBefore(A, rD, x) <=> GoneBefore(A, D, x))
      <3>1. \A x \in Nat : x <= n => ~ (n < x)
        BY <2>2
      <3> QED
        BY <2>2, <3>1 DEF GoneBefore, rD
    <2>7. GoneBefore(A, D, n)
      BY <2>4, <2>5 DEF GoneBefore
    <2>8. w \in rW /\ \A v \in rW : v \in W \/ v = n
      BY <2>2 DEF rW
    <2>9. \A v \in W \cup {n} : v \in Nat /\ v <= n
      BY <2>2
    <2>10. ~ GoneBefore(A, rD, w) /\ \A v \in rW : v > w => GoneBefore(A, rD, v)
      BY <1>5, <2>6, <2>7, <2>8, <2>9
    <2>11. o.obj = r[w].obj
      BY <1>5, <2>2
    <2>12. ShowsLive(r, b, o, k)
      BY <2>1, <2>2, <2>4, <2>5 DEF ShowsLive, rD
    <2>13. ShowsText(r, b, o, k)
      BY <2>2, <2>8, <2>10, <2>11 DEF ShowsText, rD, rW
    <2> QED
      BY <1>2, <2>12, <2>13 DEF r
  <1> QED
    BY <1>6, <1>7

\* A new object shows the log.
LEMMA MadeShown ==
  ASSUME NEW q \in Seq(Update), NEW u \in Update, NEW b, NEW o,
         u.op = "a", u.db_name = b, MadeAt(q, b, KeyOf(u)) = {},
         KeyHeld(o) = KeyOf(u), o.status, o.obj = u.obj
  PROVE  LiveInLog(Append(q, u), b, o) /\ TextInLog(Append(q, u), b, o)
PROOF
  <1> DEFINE r == Append(q, u)
             n == Len(q) + 1
             k == KeyHeld(o)
             D == GoneAt(q, b, k)
             W == TextAt(q, b, k)
  <1>1. Placed(q, u, b, k, n, r)
    BY PlacesAppended
  <1>2. /\ LiveInLog(r, b, o) <=> ShowsLive(r, b, o, k)
        /\ TextInLog(r, b, o) <=> ShowsText(r, b, o, k)
    BY ShownPlaces
  <1>3. MadeAt(q, b, k) = {} /\ Concerns(u, b, k)
    BY DEF Concerns
  <1> HIDE DEF r, n, k
  <1>4. /\ MadeAt(r, b, k) = {n} /\ GoneAt(r, b, k) = D /\ TextAt(r, b, k) = W \cup {n}
        /\ n \in Nat /\ r[n] = u
        /\ \A x \in D : x \in Nat /\ x < n
        /\ \A x \in W : x \in Nat /\ x < n
    BY <1>1, <1>3 DEF Placed
  <1> HIDE DEF D, W
  <1>5. \A c \in {n}, d \in D : d < c /\ ~ (c < d)
    BY <1>4
  <1>6. ~ GoneBefore({n}, D, n)
    BY <1>5 DEF GoneBefore
  <1>7. \A v \in W \cup {n} : ~ (v > n)
    BY <1>4
  <1>8. ShowsLive(r, b, o, k)
    BY <1>4, <1>5 DEF ShowsLive
  <1>9. ShowsText(r, b, o, k)
    BY <1>4, <1>6, <1>7 DEF ShowsText
  <1> QED
    BY <1>2, <1>8, <1>9 DEF r

\* A live object shows the log after an edit or a deletion.
LEMMA ChangedShown ==
  ASSUME NEW q \in Seq(Update), NEW u \in Update, NEW b, NEW o, NEW p,
         KeyHeld(o) = KeyOf(u), KeyHeld(p) = KeyOf(u), u.db_name = b, o.status,
         MadeAt(q, b, KeyOf(u)) # {}, LiveInLog(q, b, o), TextInLog(q, b, o),
         \/ u.op = "e" /\ p.status /\ p.obj = u.obj
         \/ u.op = "d" /\ ~ p.status /\ p.obj = o.obj
  PROVE  LiveInLog(Append(q, u), b, p) /\ TextInLog(Append(q, u), b, p)
PROOF
  <1> DEFINE r == Append(q, u)
             n == Len(q) + 1
             k == KeyOf(u)
             A == MadeAt(q, b, k)
             D == GoneAt(q, b, k)
             W == TextAt(q, b, k)
  <1>1. Placed(q, u, b, k, n, r)
    BY PlacesAppended
  <1>2. /\ LiveInLog(r, b, p) <=> ShowsLive(r, b, p, KeyHeld(p))
        /\ TextInLog(r, b, p) <=> ShowsText(r, b, p, KeyHeld(p))
        /\ ShowsLive(q, b, o, KeyHeld(o)) /\ ShowsText(q, b, o, KeyHeld(o))
    BY ShownPlaces
  <1>3. /\ LiveInLog(r, b, p) <=> ShowsLive(r, b, p, k)
        /\ TextInLog(r, b, p) <=> ShowsText(r, b, p, k)
        /\ ShowsLive(q, b, o, k) /\ ShowsText(q, b, o, k)
    BY <1>2
  <1>4. Concerns(u, b, k) /\ A # {}
    BY DEF Concerns
  <1> HIDE DEF r, n, k
  <1>5. PICK w \in W : /\ o.obj = q[w].obj /\ ~ GoneBefore(A, D, w)
                       /\ \A v \in W : v > w => GoneBefore(A, D, v)
    BY <1>3 DEF ShowsText
  <1>6. \A c \in A, d \in D : d < c
    BY <1>3 DEF ShowsLive
  <1>7. /\ n \in Nat /\ r[n] = u /\ r[w] = q[w]
        /\ \A x \in A : x \in Nat /\ x < n
        /\ \A x \in D : x \in Nat /\ x < n
        /\ \A x \in W : x \in Nat /\ x < n
    BY <1>1 DEF Placed
  <1>8. CASE u.op = "e" /\ p.status /\ p.obj = u.obj
    <2>1. MadeAt(r, b, k) = A /\ GoneAt(r, b, k) = D /\ TextAt(r, b, k) = W \cup {n}
      BY <1>1, <1>4, <1>8 DEF Placed
    <2> HIDE DEF A, D, W
    <2>2. \A v \in W \cup {n} : ~ (v > n)
      BY <1>7
    <2>3. \A c \in A, d \in D : ~ (c < d)
      BY <1>6, <1>7
    <2>4. ~ GoneBefore(A, D, n)
      BY <2>3 DEF GoneBefore
    <2>5. ShowsLive(r, b, p, k)
      BY <1>6, <1>8, <2>1 DEF ShowsLive
    <2>6. ShowsText(r, b, p, k)
      BY <1>7, <1>8, <2>1, <2>2, <2>4 DEF ShowsText
    <2> QED
      BY <1>3, <2>5, <2>6 DEF r
  <1>9. CASE u.op = "d" /\ ~ p.status /\ p.obj = o.obj
    <2>1. MadeAt(r, b, k) = A /\ GoneAt(r, b, k) = D \cup {n} /\ TextAt(r, b, k) = W
      BY <1>1, <1>4, <1>9 DEF Placed
    <2> HIDE DEF A, D, W
    <2>2. \E c \in A : ~ (n < c)
      BY <1>4, <1>7 DEF A
    <2>3. \A v \in W : GoneBefore(A, D \cup {n}, v) <=> GoneBefore(A, D, v)
      <3>1. \A v \in W : ~ (n < v)
        BY <1>7
      <3> QED
        BY <3>1 DEF GoneBefore
    <2>4. ShowsLive(r, b, p, k)
      BY <1>9, <2>1, <2>2 DEF ShowsLive
    <2>5. ShowsText(r, b, p, k)
      BY <1>5, <1>7, <1>9, <2>1, <2>3 DEF ShowsText
    <2> QED
      BY <1>3, <2>4, <2>5 DEF r
  <1> QED
    BY <1>8, <1>9

\* A server takes up an update that makes an object when its board has not got that.
LEMMA BoardTakes ==
  ASSUME CoreStateInv, TypeOK', KeyInv', OrderInv', KeyIsStamp', NEW s \in Server, NEW u \in Update,
         Takes(s, u)
  PROVE  BoardsMatch'
PROOF
  <1>0. /\ TypeOK /\ BoardsMatch /\ Undisturbed /\ UpdateKeyUnique' /\ ObjectsOnly'
    BY DEF CoreStateInv, TypeInv, CoreInv, BoardInv, ControlInv, KeyInv, OrderInv
  <1>1. /\ Logged(s)' = Logged(s) \cup {u} /\ \A t \in Server : t # s => Logged(t)' = Logged(t)
    BY <1>0, TakesEffect
  <1>2. /\ db' = [db EXCEPT ![s] = Applied(db[s], u)] /\ db = [t \in Server |-> db[t]]
        /\ IsFiles(db[s]) /\ DOMAIN db[s] = InitialBoards /\ u \notin Logged(s)
    BY <1>0 DEF Takes, TypeOK, FileType, Undisturbed, NoBoardCreated
  <1>3. \A t \in Server : t # s => db'[t] = db[t]
    BY <1>2
  <1>4. /\ u \in Known' /\ Logged(s)' \subseteq Known'
        /\ u.entity_type = "OBJ" /\ u.db_name \in InitialBoards
    BY <1>0, <1>1 DEF Known, ObjectsOnly
  <1>5. db'[s] = [db[s] EXCEPT ![u.db_name] = Changed(db[s][u.db_name], u)]
    BY <1>2, <1>4 DEF Applied
  <1>6. ASSUME NEW t \in Server, t # s, NEW b \in InitialBoards
        PROVE  /\ ToSet(Keys(db'[t][b])) = {KeyMade(w) : w \in Made(t, b)'}
               /\ IsInjective(Keys(db'[t][b]))
    <2>1. Made(t, b)' = Made(t, b)
      BY <1>1, <1>6 DEF Made
    <2> QED
      BY <1>0, <1>3, <1>6, <2>1 DEF BoardsMatch
  <1>7. ASSUME NEW b \in InitialBoards
        PROVE  /\ ToSet(Keys(db'[s][b])) = {KeyMade(w) : w \in Made(s, b)'}
               /\ IsInjective(Keys(db'[s][b]))
    <2>1. /\ KeysOf(db[s][b]) = {KeyMade(w) : w \in Made(s, b)}
          /\ IsInjective(Keys(db[s][b])) /\ db[s][b] \in Seq(Object)
      BY <1>0, <1>2, KeysAre DEF BoardsMatch, IsFiles
    <2>2. Made(s, b)' = IF u.op = "a" /\ u.db_name = b THEN Made(s, b) \cup {u} ELSE Made(s, b)
      BY <1>1 DEF Made
    <2>3. CASE b # u.db_name
      BY <1>2, <1>4, <1>5, <2>1, <2>2, <2>3, KeysAre
    <2>4. CASE b = u.db_name
      <3>1. db'[s][b] = Changed(db[s][b], u)
        BY <1>2, <1>4, <1>5, <2>4
      <3>2. KeysOf(db'[s][b]) =
              IF u.op = "a" THEN KeysOf(db[s][b]) \cup {KeyOf(u)} ELSE KeysOf(db[s][b])
        BY <2>1, <3>1, ChangedKeys
      <3>3. ToSet(Keys(db'[s][b])) = {KeyMade(w) : w \in Made(s, b)'}
        BY <2>1, <2>2, <2>4, <3>2, KeysAre DEF KeyOf, KeyMade
      <3>4. u.op = "a" => KeyOf(u) \notin KeysOf(db[s][b])
        <4> SUFFICES ASSUME u.op = "a", NEW w \in Made(s, b), KeyMade(w) = KeyOf(u) PROVE FALSE
          BY <2>1
        <4>1. w \in Logged(s) /\ w.op = "a" /\ w \in Known'
          BY <1>1, <1>4 DEF Made
        <4>2. w.lts = u.lts /\ w.server_id = u.server_id
          BY <1>4, <4>1 DEF KeyIsStamp, KeyMade, KeyOf
        <4>3. w = u
          BY <1>0, <1>4, <4>1, <4>2 DEF UpdateKeyUnique
        <4> QED
          BY <1>2, <4>1, <4>3
      <3> QED
        BY <2>1, <3>1, <3>3, <3>4, ChangedOnce
    <2> QED
      BY <2>3, <2>4
  <1> QED
    BY <1>6, <1>7 DEF BoardsMatch

LEMMA LogTakes ==
  ASSUME TypeOK, NEW s \in Server, NEW u \in Update, Takes(s, u)
  PROVE  /\ log[s] \in Seq(Update) /\ log'[s] = Append(log[s], u)
         /\ \A t \in Server : t # s => log'[t] = log[t]
PROOF
  <1>1. log = [t \in Server |-> log[t]] /\ \A t \in Server : log[t] \in Seq(Update)
    BY DEF TypeOK, FileType
  <1>2. log' = [log EXCEPT ![s] = Append(log[s], u)]
    BY DEF Takes, Extended
  <1> QED
    BY <1>1, <1>2

\* A server takes up the updates of each originator in the order of their timestamps.
LEMMA AscendTakes ==
  ASSUME TypeOK, OrderInv, LogsAscend, NEW s \in Server, NEW u \in Update, Takes(s, u)
  PROVE  LogsAscend'
PROOF
  <1> DEFINE q == log[s]
             r == log'[s]
             n == Len(log[s]) + 1
  <1>1. /\ q \in Seq(Update) /\ r = Append(q, u)
        /\ \A t \in Server : t # s => log'[t] = log[t]
    BY LogTakes
  <1>2. /\ Len(q) \in Nat /\ n = Len(q) + 1 /\ DOMAIN q = 1 .. Len(q) /\ DOMAIN r = 1 .. n
        /\ r[n] = u /\ \A k \in DOMAIN q : r[k] = q[k]
    BY <1>1, ListAppended
  <1>3. \A k \in DOMAIN q : q[k] \in Logged(s) /\ q[k] \in Known /\ q[k] \in Update
    BY <1>1, KnownFacts DEF Logged
  <1>4. \A k \in DOMAIN q : q[k].server_id = u.server_id => q[k].lts < u.lts
    <2> SUFFICES ASSUME NEW k \in DOMAIN q, q[k].server_id = u.server_id PROVE q[k].lts < u.lts
      OBVIOUS
    <2>1. q[k].lts <= server_lts[s][u.server_id]
      BY <1>3 DEF OrderInv, LogIsPrefix
    <2>2. server_lts[s][u.server_id] < u.lts
      BY DEF Takes
    <2>3. server_lts[s][u.server_id] \in Nat /\ q[k].lts \in Nat /\ u.lts \in Nat
      BY <1>3, KnownFacts DEF TypeOK, ClockType, Vector, Update
    <2> QED
      BY <2>1, <2>2, <2>3
  <1>5. \A i, j \in DOMAIN q : i < j /\ q[i].server_id = q[j].server_id => q[i].lts < q[j].lts
    BY DEF LogsAscend
  <1>6. \A i, j \in DOMAIN r : i < j /\ r[i].server_id = r[j].server_id => r[i].lts < r[j].lts
    <2> SUFFICES ASSUME NEW i \in DOMAIN r, NEW j \in DOMAIN r, i < j,
                        r[i].server_id = r[j].server_id
                 PROVE  r[i].lts < r[j].lts
      OBVIOUS
    <2>1. i \in DOMAIN q /\ (j \in DOMAIN q \/ j = n)
      BY <1>2
    <2> QED
      BY <1>2, <1>4, <1>5, <2>1
  <1>7. \A t \in Server : t # s =>
          \A i, j \in DOMAIN log'[t] :
            i < j /\ log'[t][i].server_id = log'[t][j].server_id => log'[t][i].lts < log'[t][j].lts
    BY <1>1 DEF LogsAscend
  <1> QED
    BY <1>6, <1>7 DEF LogsAscend

\* What a board has, its log has made.
LEMMA RecordMade ==
  ASSUME BoardsMatch, NEW s \in Server, NEW b \in InitialBoards, NEW i \in DOMAIN db[s][b]
  PROVE  /\ MadeAt(log[s], b, KeyHeld(db[s][b][i])) # {}
         /\ KeyHeld(db[s][b][i]) \in KeysOf(db[s][b])
PROOF
  <1>1. KeyHeld(db[s][b][i]) \in KeysOf(db[s][b])
    BY DEF KeysOf, KeyHeld
  <1>2. PICK w \in Made(s, b) : KeyMade(w) = KeyHeld(db[s][b][i])
    BY <1>1, KeysAre DEF BoardsMatch
  <1>3. PICK n \in DOMAIN log[s] : log[s][n] = w /\ w.op = "a" /\ w.db_name = b
    BY <1>2 DEF Made, Logged
  <1>4. n \in MadeAt(log[s], b, KeyHeld(db[s][b][i]))
    BY <1>2, <1>3 DEF MadeAt, LoggedAt, KeyMade
  <1> QED
    BY <1>1, <1>4

\* The file of a board shows the log with the update it has been changed by.
LEMMA FileShows ==
  ASSUME NEW q \in Seq(Update), NEW u \in Update, NEW file \in Seq(Object), NEW b,
         u.db_name = b, IsInjective(Keys(file)),
         u.op = "a" => KeyOf(u) \notin KeysOf(file) /\ MadeAt(q, b, KeyOf(u)) = {},
         \A i \in DOMAIN file : /\ LiveInLog(q, b, file[i]) /\ TextInLog(q, b, file[i])
                                /\ MadeAt(q, b, KeyHeld(file[i])) # {}
                                /\ KeyHeld(file[i]) \in KeysOf(file),
         NEW i \in DOMAIN Changed(file, u)
  PROVE  /\ LiveInLog(Append(q, u), b, Changed(file, u)[i])
         /\ TextInLog(Append(q, u), b, Changed(file, u)[i])
PROOF
  <1> DEFINE o == Changed(file, u)[i]
             r == Append(q, u)
  <1>1. ASSUME u.op = "a", o = [obj_id |-> u.obj_id, server_index |-> u.server_index,
                                status |-> TRUE, obj |-> u.obj]
        PROVE  LiveInLog(r, b, o) /\ TextInLog(r, b, o)
    <2>1. KeyHeld(o) = KeyOf(u) /\ o.status /\ o.obj = u.obj
      BY <1>1 DEF KeyHeld, KeyOf
    <2> HIDE DEF o
    <2> QED
      BY <1>1, <2>1, MadeShown
  <1>2. ASSUME i \in DOMAIN file, o = file[i],
               u.op = "a" \/ Keys(file)[i] # KeyOf(u) \/ ~ file[i].status
        PROVE  LiveInLog(r, b, o) /\ TextInLog(r, b, o)
    <2>1. Keys(file)[i] = KeyHeld(o)
      BY <1>2 DEF Keys, KeyHeld
    <2>2. /\ LiveInLog(q, b, o) /\ TextInLog(q, b, o) /\ MadeAt(q, b, KeyHeld(o)) # {}
          /\ KeyHeld(o) \in KeysOf(file)
      BY <1>2
    <2>3. KeyOf(u) # KeyHeld(o) \/ (u.op # "a" /\ ~ o.status)
      BY <1>2, <2>1, <2>2
    <2> HIDE DEF o
    <2> QED
      BY <2>2, <2>3, UntouchedShown
  <1>3. ASSUME i \in DOMAIN file, Keys(file)[i] = KeyOf(u), file[i].status,
               \/ u.op = "e" /\ o = WithText(file[i], u.obj)
               \/ u.op = "d" /\ o = Dead(file[i])
        PROVE  LiveInLog(r, b, o) /\ TextInLog(r, b, o)
    <2>1. KeyHeld(file[i]) = KeyOf(u)
      BY <1>3 DEF Keys, KeyHeld
    <2>2. KeyHeld(o) = KeyOf(u)
      BY <1>3, <2>1 DEF KeyHeld, WithText, Dead
    <2>3. \/ u.op = "e" /\ o.status /\ o.obj = u.obj
          \/ u.op = "d" /\ ~ o.status /\ o.obj = file[i].obj
      BY <1>3 DEF WithText, Dead
    <2>4. LiveInLog(q, b, file[i]) /\ TextInLog(q, b, file[i]) /\ MadeAt(q, b, KeyOf(u)) # {}
      BY <1>3, <2>1
    <2> HIDE DEF o
    <2> QED
      BY <1>3, <2>1, <2>2, <2>3, <2>4, ChangedShown
  <1>4. \/ /\ u.op = "a"
           /\ Changed(file, u)[i] = [obj_id |-> u.obj_id, server_index |-> u.server_index,
                                     status |-> TRUE, obj |-> u.obj]
        \/ /\ i \in DOMAIN file /\ Changed(file, u)[i] = file[i]
           /\ \/ u.op = "a"
              \/ Keys(file)[i] # KeyOf(u)
              \/ ~ file[i].status
        \/ /\ i \in DOMAIN file /\ Keys(file)[i] = KeyOf(u) /\ file[i].status
           /\ \/ u.op = "e" /\ Changed(file, u)[i] = WithText(file[i], u.obj)
              \/ u.op = "d" /\ Changed(file, u)[i] = Dead(file[i])
    BY ChangedRecords
  <1> QED
    BY <1>1, <1>2, <1>3, <1>4

\* So it is on all boards when a server takes up an update.
LEMMA ShownTakes ==
  ASSUME CoreStateInv, TypeOK', OrderInv', KeyInv', KeyIsStamp', NEW s \in Server,
         NEW u \in Update, Takes(s, u)
  PROVE  BoardsShowLog'
PROOF
  <1>0. /\ TypeOK /\ BoardsMatch /\ BoardsShowLog /\ Undisturbed /\ UpdateKeyUnique' /\ ObjectsOnly'
    BY DEF CoreStateInv, TypeInv, CoreInv, BoardInv, ControlInv, KeyInv, OrderInv
  <1>1. /\ log[s] \in Seq(Update) /\ log'[s] = Append(log[s], u)
        /\ \A t \in Server : t # s => log'[t] = log[t]
    BY <1>0, LogTakes
  <1>2. Logged(s)' = Logged(s) \cup {u}
    BY <1>0, TakesEffect
  <1>3. /\ db' = [db EXCEPT ![s] = Applied(db[s], u)] /\ db = [t \in Server |-> db[t]]
        /\ IsFiles(db[s]) /\ DOMAIN db[s] = InitialBoards /\ u \notin Logged(s)
    BY <1>0 DEF Takes, TypeOK, FileType, Undisturbed, NoBoardCreated
  <1>4. /\ u \in Known' /\ Logged(s)' \subseteq Known'
        /\ u.entity_type = "OBJ" /\ u.db_name \in InitialBoards
    BY <1>0, <1>2 DEF Known, ObjectsOnly
  <1>5. /\ \A t \in Server : t # s => db'[t] = db[t]
        /\ db'[s] = [db[s] EXCEPT ![u.db_name] = Changed(db[s][u.db_name], u)]
    BY <1>3, <1>4 DEF Applied
  <1>6. ASSUME NEW t \in Server, t # s, NEW b \in InitialBoards, NEW i \in DOMAIN db'[t][b]
        PROVE  LiveInLog(log'[t], b, db'[t][b][i]) /\ TextInLog(log'[t], b, db'[t][b][i])
    <2>1. db'[t] = db[t] /\ log'[t] = log[t]
      BY <1>1, <1>5, <1>6
    <2>2. i \in DOMAIN db[t][b]
      BY <1>6, <2>1
    <2>3. LiveInLog(log[t], b, db[t][b][i]) /\ TextInLog(log[t], b, db[t][b][i])
      BY <1>0, <2>2 DEF BoardsShowLog
    <2> QED
      BY <2>1, <2>3
  <1>7. ASSUME NEW b \in InitialBoards, NEW i \in DOMAIN db'[s][b]
        PROVE  LiveInLog(log'[s], b, db'[s][b][i]) /\ TextInLog(log'[s], b, db'[s][b][i])
    <2> DEFINE file == db[s][b]
               q == log[s]
    <2>1. file \in Seq(Object) /\ IsInjective(Keys(file)) /\ KeysOf(file) = {KeyMade(w) : w \in Made(s, b)}
      BY <1>0, <1>3, KeysAre DEF BoardsMatch, IsFiles
    <2>2. \A j \in DOMAIN file : /\ LiveInLog(q, b, file[j]) /\ TextInLog(q, b, file[j])
                                 /\ MadeAt(q, b, KeyHeld(file[j])) # {}
                                 /\ KeyHeld(file[j]) \in KeysOf(file)
      BY <1>0, RecordMade DEF BoardsShowLog
    <2>3. CASE b # u.db_name
      <3>1. db'[s][b] = file
        BY <1>3, <1>4, <1>5, <2>3
      <3>2. i \in DOMAIN file
        BY <1>7, <3>1
      <3>3. LiveInLog(Append(q, u), b, file[i]) /\ TextInLog(Append(q, u), b, file[i])
        BY <1>1, <2>2, <2>3, <3>2, UntouchedShown
      <3> QED
        BY <1>1, <3>1, <3>3
    <2>4. CASE b = u.db_name
      <3>1. db'[s][b] = Changed(file, u)
        BY <1>3, <1>4, <1>5, <2>4
      <3>2. ASSUME u.op = "a", NEW w \in Logged(s), w.op = "a", KeyMade(w) = KeyOf(u) PROVE FALSE
        <4>1. w \in Known'
          BY <1>2, <1>4
        <4>2. w.lts = u.lts /\ w.server_id = u.server_id
          BY <1>4, <3>2, <4>1 DEF KeyIsStamp, KeyMade, KeyOf
        <4>3. w = u
          BY <1>0, <1>4, <4>1, <4>2 DEF UpdateKeyUnique
        <4> QED
          BY <1>3, <3>2, <4>3
      <3>3. u.op = "a" => KeyOf(u) \notin KeysOf(file)
        BY <2>1, <3>2 DEF Made
      <3>4. u.op = "a" => MadeAt(q, b, KeyOf(u)) = {}
        <4> SUFFICES ASSUME u.op = "a", NEW n \in MadeAt(q, b, KeyOf(u)) PROVE FALSE
          OBVIOUS
        <4>1. q[n] \in Logged(s) /\ q[n].op = "a" /\ KeyMade(q[n]) = KeyOf(u)
          BY DEF MadeAt, LoggedAt, Logged, KeyMade
        <4> QED
          BY <3>2, <4>1
      <3>5. i \in DOMAIN Changed(file, u)
        BY <1>7, <3>1
      <3> HIDE DEF file, q
      <3>6. /\ LiveInLog(Append(q, u), b, Changed(file, u)[i])
            /\ TextInLog(Append(q, u), b, Changed(file, u)[i])
        BY <1>1, <2>1, <2>2, <2>4, <3>3, <3>4, <3>5, FileShows DEF q
      <3> QED
        BY <1>1, <3>1, <3>6 DEF q
    <2> QED
      BY <2>3, <2>4
  <1> QED
    BY <1>6, <1>7 DEF BoardsShowLog

LEMMA StampKept ==
  ASSUME KeyIsStamp, NEW s, NEW r, Known' \subseteq Known \cup {NewUpdate(s, r)}
  PROVE  KeyIsStamp'
PROOF
  BY DEF KeyIsStamp, NewUpdate

LEMMA BoardStutters ==
  ASSUME BoardInv, Known' \subseteq Known, UNCHANGED <<log, db>>
  PROVE  BoardInv'
PROOF
  BY DEF BoardInv, KeyIsStamp, BoardsMatch, BoardsShowLog, LogsAscend, Made, Logged

\* A step that does not touch the logs and brings no new message.
LEMMA ToldStutters ==
  ASSUME TypeOK, Told, UNCHANGED <<log, served, inbox>>
  PROVE  Told'
PROOF
  BY QuietTold, KnownFacts DEF QuietChange, QuietRest

LEMMA BoardInit == Init => BoardInv /\ Told
PROOF
  <1> SUFFICES ASSUME Init PROVE BoardInv /\ Told
    OBVIOUS
  <1>1. \A s \in Server : Logged(s) = {} /\ Carried(s) = {}
    BY DEF Init, Logged, Carried
  <1>2. Told /\ KeyIsStamp
    BY <1>1 DEF Told, KeyIsStamp, Known
  <1>3. ASSUME NEW s \in Server, NEW b \in InitialBoards
        PROVE  /\ ToSet(Keys(db[s][b])) = {KeyMade(u) : u \in Made(s, b)}
               /\ IsInjective(Keys(db[s][b]))
    <2>1. db[s][b] = <<>>
      BY DEF Init
    <2>2. KeysOf(db[s][b]) = {} /\ DOMAIN Keys(db[s][b]) = {}
      BY <2>1 DEF KeysOf, Keys
    <2>3. {KeyMade(u) : u \in Made(s, b)} = {}
      BY <1>1 DEF Made
    <2> QED
      BY <2>2, <2>3, KeysAre DEF IsInjective
  <1>4. BoardsShowLog /\ LogsAscend
    BY DEF Init, BoardsShowLog, LogsAscend
  <1> QED
    BY <1>2, <1>3, <1>4 DEF BoardInv, BoardsMatch

LEMMA PartitionBoard ==
  ASSUME TypeOK, OrderInv, BoardInv, NEW A \in SUBSET Server, Repartitioned(A)
  PROVE  BoardInv'
PROOF
  <1>1. UNCHANGED <<clockVars, log, db>> /\ \A t \in Server : Fewer(inbox[t], inbox'[t])
    BY PartitionFewer DEF fileVars
  <1>2. Known' \subseteq Known
    BY <1>1, FewerOrder
  <1> QED
    BY <1>1, <1>2, BoardStutters

LEMMA BoardStep ==
  ASSUME CoreStateInv, TypeOK', KeyInv', OrderInv', NoBoardCreated', [CalmNext]_vars
  PROVE  BoardInv'
PROOF
  <1>0. /\ TypeOK /\ TypeInv /\ ControlInv /\ Components /\ Undisturbed /\ OrderInv /\ BoardInv
        /\ KeyIsStamp /\ BoardsMatch
    BY DEF CoreStateInv, TypeInv, CoreInv, ControlInv, BoardInv
  <1>1. ASSUME NEW s \in Server, ServerStep(s) PROVE BoardInv'
    <2>1. CASE RecvUpdate(s) \/ RecvSyncUpdate(s)
      <3>1. Known' \subseteq Known /\ KeyIsStamp'
        BY <1>0, <2>1, ReadHas DEF KeyIsStamp
      <3>2. /\ Read(s) \in Update
            /\ Takes(s, Read(s)) \/ UNCHANGED <<log, db>>
        BY <1>0, <2>1, ReadKnown, ReadEffect DEF ReadsOne
      <3>3. CASE UNCHANGED <<log, db>>
        BY <1>0, <3>1, <3>3, BoardStutters
      <3>4. CASE Takes(s, Read(s))
        BY <1>0, <3>1, <3>2, <3>4, BoardTakes, ShownTakes, AscendTakes DEF BoardInv
      <3> QED
        BY <3>2, <3>3, <3>4
    <2>2. CASE RecvMembership(s) \/ RecvVector(s) \/ RecvSyncEnd(s) \/ SendSyncEnd(s)
      <3>1. UNCHANGED <<clockVars, log, db>> /\ \A t \in Server : QuietChange(inbox[t], inbox'[t])
        BY <1>0, <2>2, QuietSteps DEF fileVars
      <3> QED
        BY <1>0, <3>1, QuietOrder, BoardStutters
    <2>3. CASE SendUpdate(s)
      <3>1. Known' \subseteq Known /\ UNCHANGED <<log, db>>
        BY <1>0, <2>3, SendEffect DEF SendUpdate, fileVars
      <3> QED
        BY <1>0, <3>1, BoardStutters
    <2>4. CASE Drain(s)
      BY <1>0, <2>4 DEF Drain, Undisturbed
    <2> QED
      BY <1>1, <2>1, <2>2, <2>3, <2>4 DEF ServerStep
  <1>2. ASSUME UNCHANGED <<log, db, inbox>> PROVE BoardInv'
    <2>1. Known' = Known
      BY <1>2 DEF Known, Logged, Carried
    <2> QED
      BY <1>0, <1>2, <2>1, BoardStutters
  <1>3. ASSUME NEW s \in Server, QuietClients(s), NEW r \in ClientRequests, ClientRequest(s, r)
        PROVE  BoardInv'
    <2>1. UNCHANGED <<clockVars, fileVars, inbox>> \/ Posts(s, r)
      BY <1>3, RequestEffect
    <2>2. CASE UNCHANGED <<clockVars, fileVars, inbox>>
      BY <1>2, <2>2 DEF fileVars
    <2>3. CASE Posts(s, r)
      <3>1. KeyIsStamp'
        <4>1. Known' \subseteq Known \cup {NewUpdate(s, r)}
          BY <1>0, <2>3, PostsHas
        <4> QED
          BY <1>0, <4>1, StampKept
      <3>2. NewUpdate(s, r) \in Update /\ Takes(s, NewUpdate(s, r))
        BY <2>3 DEF Posts
      <3>3. BoardsMatch'
        BY <3>1, <3>2, BoardTakes
      <3>4. BoardsShowLog' /\ LogsAscend'
        BY <1>0, <3>1, <3>2, ShownTakes, AscendTakes DEF BoardInv
      <3> QED
        BY <3>1, <3>3, <3>4 DEF BoardInv
    <2> QED
      BY <2>1, <2>2, <2>3
  <1>4. CASE Partitioning
    <2>1. PICK A \in SUBSET Server : Repartitioned(A)
      BY <1>0, <1>4, PartitionShape
    <2> QED
      BY <1>0, <2>1, PartitionBoard
  <1>5. CASE UNCHANGED vars
    BY <1>2, <1>5 DEF vars, fileVars
  <1> QED
    BY <1>1, <1>3, <1>4, <1>5 DEF CalmNext, Requesting

LEMMA ToldStep ==
  ASSUME CoreStateInv, Told, TypeOK', NoBoardCreated', [CalmNext]_vars
  PROVE  Told'
PROOF
  <1>0. TypeOK /\ ControlInv /\ Components /\ Undisturbed
    BY DEF CoreStateInv, TypeInv, CoreInv, ControlInv
  <1>1. ASSUME NEW s \in Server, ServerStep(s) PROVE Told'
    <2>1. CASE RecvUpdate(s) \/ RecvSyncUpdate(s)
      BY <2>1, ReadTold
    <2>2. CASE RecvMembership(s) \/ RecvVector(s) \/ RecvSyncEnd(s) \/ SendSyncEnd(s)
      BY <1>0, <2>2, QuietSteps, QuietTold DEF fileVars
    <2>3. CASE SendUpdate(s)
      BY <2>3, SendTold
    <2>4. CASE Drain(s)
      BY <1>0, <2>4 DEF Drain, Undisturbed
    <2> QED
      BY <1>1, <2>1, <2>2, <2>3, <2>4 DEF ServerStep
  <1>2. ASSUME NEW s \in Server, QuietClients(s), NEW r \in ClientRequests, ClientRequest(s, r)
        PROVE  Told'
    <2>1. UNCHANGED served /\ (UNCHANGED <<clockVars, fileVars, inbox>> \/ Posts(s, r))
      BY <1>2, RequestEffect
    <2>2. CASE UNCHANGED <<clockVars, fileVars, inbox>>
      BY <1>0, <2>1, <2>2, ToldStutters DEF fileVars
    <2>3. CASE Posts(s, r)
      BY <2>1, <2>3, PostsTold
    <2> QED
      BY <2>1, <2>2, <2>3
  <1>3. CASE Partitioning
    BY <1>0, <1>3, PartitionTold
  <1>4. CASE UNCHANGED vars
    BY <1>0, <1>4, ToldStutters DEF vars, fileVars, clientVars
  <1> QED
    BY <1>1, <1>2, <1>3, <1>4 DEF CalmNext, Requesting

--------------------------------------------------------------------------------
(* The updates of each originator in the logs *)

\* Ranks in a set of positions, and in the set with the next position added.
LEMMA LastRanks ==
  ASSUME NEW n \in Nat, NEW P \in SUBSET (1 .. n)
  PROVE  /\ IsFiniteSet(P) /\ Cardinality(P) \in Nat
         /\ \A i \in P : Rank(P, i) \in 1 .. Cardinality(P)
         /\ Cardinality(P \cup {n + 1}) = Cardinality(P) + 1
         /\ \A i \in P : Rank(P \cup {n + 1}, i) = Rank(P, i)
         /\ Rank(P \cup {n + 1}, n + 1) = Cardinality(P) + 1
PROOF
  <1>1. IsFiniteSet(1 .. n)
    BY FS_Interval
  <1>2. IsFiniteSet(P) /\ Cardinality(P) \in Nat
    BY <1>1, FS_Subset, FS_CardinalityType
  <1>3. n + 1 \notin P /\ \A i \in P : i \in Nat /\ i <= n
    OBVIOUS
  <1>4. Cardinality(P \cup {n + 1}) = Cardinality(P) + 1
    BY <1>2, <1>3, FS_AddElement
  <1>5. ASSUME NEW i \in P PROVE Rank(P, i) \in 1 .. Cardinality(P)
    <2> DEFINE S == {j \in P : j <= i}
    <2>1. S \subseteq P /\ i \in S
      BY <1>3
    <2> HIDE DEF S
    <2>2. IsFiniteSet(S) /\ Cardinality(S) \in Nat /\ Cardinality(S) <= Cardinality(P)
      BY <1>2, <2>1, FS_Subset, FS_CardinalityType
    <2>3. Cardinality(S) # 0
      BY <2>1, <2>2, FS_EmptySet
    <2>4. Rank(P, i) = Cardinality(S)
      BY DEF Rank, S
    <2> QED
      BY <1>2, <2>2, <2>3, <2>4
  <1>6. ASSUME NEW i \in P PROVE Rank(P \cup {n + 1}, i) = Rank(P, i)
    <2>1. {j \in P \cup {n + 1} : j <= i} = {j \in P : j <= i}
      BY <1>3
    <2> QED
      BY <2>1 DEF Rank
  <1>7. Rank(P \cup {n + 1}, n + 1) = Cardinality(P) + 1
    <2>1. \A j \in P \cup {n + 1} : j <= n + 1
      BY <1>3
    <2>2. {j \in P \cup {n + 1} : j <= n + 1} = P \cup {n + 1}
      BY <2>1
    <2> QED
      BY <1>4, <2>2 DEF Rank
  <1> QED
    BY <1>2, <1>4, <1>5, <1>6, <1>7

\* Every rank is taken.
LEMMA RankTaken ==
  ASSUME NEW n \in Nat, NEW P \in SUBSET (1 .. n), NEW k \in 1 .. Cardinality(P)
  PROVE  \E i \in P : Rank(P, i) = k /\ \A j \in P : Rank(P, j) = k => j = i
PROOF
  <1> DEFINE f == [i \in P |-> Rank(P, i)]
             T == {Rank(P, i) : i \in P}
  <1>1. /\ IsFiniteSet(P) /\ Cardinality(P) \in Nat
        /\ \A i \in P : Rank(P, i) \in 1 .. Cardinality(P)
    BY LastRanks
  <1>2. ASSUME NEW i \in P, NEW j \in P, i < j PROVE Rank(P, i) # Rank(P, j)
    <2> DEFINE A == {x \in P : x <= i}
               B == {x \in P : x <= j}
    <2>0. \A x \in P : x \in Nat
      OBVIOUS
    <2>1. A \subseteq B /\ B \subseteq P /\ j \in B /\ j \notin A
      <3>1. \A x \in P : x <= i => x <= j
        BY <1>2, <2>0
      <3>2. ~ (j <= i) /\ j <= j
        BY <1>2, <2>0
      <3> QED
        BY <3>1, <3>2
    <2>2. Rank(P, i) = Cardinality(A) /\ Rank(P, j) = Cardinality(B)
      BY DEF Rank
    <2> HIDE DEF A, B
    <2>3. IsFiniteSet(B)
      BY <1>1, <2>1, FS_Subset
    <2>4. A # B
      BY <2>1
    <2> QED
      BY <2>1, <2>2, <2>3, <2>4, FS_Subset
  <1>3. \A i, j \in P : i # j => Rank(P, i) # Rank(P, j)
    <2>1. \A i, j \in P : i # j => i < j \/ j < i
      OBVIOUS
    <2> QED
      BY <1>2, <2>1
  <1>4. f \in Surjection(P, T) /\ f \in Injection(P, T)
    BY <1>3, Zenon DEF Surjection, Injection, IsInjective
  <1>5. Cardinality(T) = Cardinality(P)
    BY <1>1, <1>4, FS_Surjection
  <1>6. T \subseteq 1 .. Cardinality(P)
    BY <1>1
  <1>7. IsFiniteSet(1 .. Cardinality(P)) /\ Cardinality(1 .. Cardinality(P)) = Cardinality(P)
    BY <1>1, FS_Interval
  <1> HIDE DEF T
  <1>8. T = 1 .. Cardinality(P)
    BY <1>5, <1>6, <1>7, FS_Subset
  <1>9. \E i \in P : Rank(P, i) = k
    BY <1>8 DEF T
  <1> QED
    BY <1>3, <1>9

\* The k-th of them is the one of that rank.
LEMMA NthIs ==
  ASSUME NEW P, NEW k, NEW i \in P, Rank(P, i) = k, \A j \in P : Rank(P, j) = k => j = i
  PROVE  Nth(P, k) = i
PROOF
  BY DEF Nth

\* A record appended to a log comes last among those of its originator.
LEMMA OriginatorAppends ==
  ASSUME NEW q \in Seq(Update), NEW u \in Update, NEW o
  PROVE  OfOriginator(Append(q, u), o) =
           IF u.server_id = o THEN Append(OfOriginator(q, o), u) ELSE OfOriginator(q, o)
PROOF
  <1> DEFINE n == Len(q)
             r == Append(q, u)
             P == Places(q, o)
             R == Places(r, o)
             c == Cardinality(P)
  <1>1. /\ n \in Nat /\ DOMAIN q = 1 .. n /\ DOMAIN r = 1 .. n + 1
        /\ r[n + 1] = u /\ \A i \in 1 .. n : r[i] = q[i]
    OBVIOUS
  <1> HIDE DEF n, r
  <1>2. P \subseteq 1 .. n /\ R = IF u.server_id = o THEN P \cup {n + 1} ELSE P
    BY <1>1 DEF Places
  <1>3. /\ OfOriginator(q, o) = [k \in 1 .. c |-> q[Nth(P, k)]]
        /\ OfOriginator(r, o) = [k \in 1 .. Cardinality(R) |-> r[Nth(R, k)]]
    BY DEF OfOriginator
  <1> HIDE DEF P, R
  <1>4. IsFiniteSet(P) /\ c \in Nat /\ \A i \in P : Rank(P, i) \in 1 .. c
    BY <1>1, <1>2, LastRanks
  <1>5. ASSUME NEW k \in 1 .. c
        PROVE  \E i \in P : /\ i \in 1 .. n /\ Nth(P, k) = i /\ Rank(P, i) = k
                            /\ \A j \in P : Rank(P, j) = k => j = i
    <2>1. PICK i \in P : Rank(P, i) = k /\ \A j \in P : Rank(P, j) = k => j = i
      BY <1>1, <1>2, RankTaken
    <2>2. Nth(P, k) = i
      BY <2>1, NthIs
    <2> QED
      BY <1>2, <2>1, <2>2
  <1>6. CASE u.server_id = o
    <2>1. /\ R = P \cup {n + 1} /\ Cardinality(R) = c + 1
          /\ \A i \in P : Rank(R, i) = Rank(P, i)
          /\ Rank(R, n + 1) = c + 1
      BY <1>1, <1>2, <1>6, LastRanks
    <2> HIDE DEF c
    <2>2. ASSUME NEW k \in 1 .. c PROVE r[Nth(R, k)] = q[Nth(P, k)]
      <3>1. PICK i \in P : /\ i \in 1 .. n /\ Nth(P, k) = i /\ Rank(P, i) = k
                           /\ \A j \in P : Rank(P, j) = k => j = i
        BY <1>5
      <3>2. i \in R /\ Rank(R, i) = k /\ \A j \in R : Rank(R, j) = k => j = i
        <4>1. \A j \in R : Rank(R, j) = k => j \in P /\ Rank(P, j) = k
          BY <1>4, <2>1
        <4> QED
          BY <2>1, <3>1, <4>1
      <3>3. Nth(R, k) = i
        BY <3>2, NthIs
      <3> QED
        BY <1>1, <3>1, <3>3
    <2>3. Nth(R, c + 1) = n + 1
      <3>1. \A j \in R : Rank(R, j) = c + 1 => j = n + 1
        BY <1>4, <2>1
      <3>2. n + 1 \in R /\ Rank(R, n + 1) = c + 1
        BY <2>1
      <3> HIDE DEF n
      <3> QED
        BY <3>1, <3>2, NthIs
    <2>4. OfOriginator(r, o) = [k \in 1 .. c + 1 |-> IF k = c + 1 THEN u ELSE q[Nth(P, k)]]
      <3>1. \A k \in 1 .. c + 1 : r[Nth(R, k)] = IF k = c + 1 THEN u ELSE q[Nth(P, k)]
        BY <1>1, <1>4, <2>2, <2>3
      <3> QED
        BY <1>3, <2>1, <3>1
    <2>5. Append(OfOriginator(q, o), u) = [k \in 1 .. c + 1 |-> IF k = c + 1 THEN u ELSE q[Nth(P, k)]]
      BY <1>3, <1>4
    <2> QED
      BY <1>6, <2>4, <2>5 DEF r
  <1>7. CASE u.server_id # o
    <2>1. R = P
      BY <1>2, <1>7
    <2>2. \A k \in 1 .. c : r[Nth(P, k)] = q[Nth(P, k)]
      BY <1>1, <1>5
    <2> QED
      BY <1>3, <1>7, <2>1, <2>2 DEF r
  <1> QED
    BY <1>6, <1>7

\* A new record in the log of s changes one list.
LEMMA OneListGrows ==
  ASSUME TypeOK, NEW s \in Server, NEW u \in Update, log' = [log EXCEPT ![s] = Extended(s, u)]
  PROVE  /\ OfOriginator(log'[s], u.server_id) = Append(OfOriginator(log[s], u.server_id), u)
         /\ \A t, o \in Server :
              t # s \/ o # u.server_id => OfOriginator(log'[t], o) = OfOriginator(log[t], o)
PROOF
  <1>1. log \in [Server -> Seq(Update)]
    BY DEF TypeOK, FileType
  <1>2. log'[s] = Append(log[s], u) /\ \A t \in Server : t # s => log'[t] = log[t]
    BY <1>1 DEF Extended
  <1>3. log[s] \in Seq(Update)
    BY <1>1
  <1>4. OfOriginator(Append(log[s], u), u.server_id) = Append(OfOriginator(log[s], u.server_id), u)
    BY <1>3, OriginatorAppends
  <1>5. \A o : o # u.server_id => OfOriginator(Append(log[s], u), o) = OfOriginator(log[s], o)
    BY <1>3, OriginatorAppends
  <1>6. ASSUME NEW t \in Server, NEW o \in Server, t # s \/ o # u.server_id
        PROVE  OfOriginator(log'[t], o) = OfOriginator(log[t], o)
    <2>1. CASE t = s
      BY <1>2, <1>5, <1>6, <2>1
    <2>2. CASE t # s
      BY <1>2, <2>2
    <2> QED
      BY <2>1, <2>2
  <1> QED
    BY <1>2, <1>4, <1>6

\* The next update of originator o that server s lacks, if it takes one up that has
\* all earlier ones before it.
LEMMA NextTaken ==
  ASSUME TypeOK, KeyInv, SequenceInv, NEW s \in Server, NEW u \in Update, u \in Known, Takes(s, u)
  PROVE  LET o == u.server_id
             q == OfOriginator(log[s], o)
             own == OfOriginator(log[o], o)
         IN o \in Server /\ s # o /\ Len(q) < Len(own) /\ own[Len(q) + 1] = u
PROOF
  <1> DEFINE o == u.server_id
             q == OfOriginator(log[s], o)
             own == OfOriginator(log[o], o)
             n == Len(q)
  <1>1. o \in Server /\ u \in Logged(o) /\ u \notin Logged(s)
    BY DEF KeyInv, OriginatorHasIt, Takes, Update
  <1>2. /\ q \in Seq(Update) /\ own \in Seq(Update)
        /\ ToSet(q) = {v \in Logged(s) : v.server_id = o}
        /\ ToSet(own) = {v \in Logged(o) : v.server_id = o}
        /\ \A i, j \in DOMAIN own : i < j => own[i].lts < own[j].lts
        /\ Len(q) <= Len(own) /\ \A k \in DOMAIN q : q[k] = own[k]
    BY <1>1 DEF SequenceInv, InSequence
  <1>3. \A w \in Known : w.server_id = o /\ w.lts < u.lts => w \in Logged(s)
    BY DEF Takes
  <1> HIDE DEF o, q, own
  <1>4. /\ n \in Nat /\ Len(own) \in Nat /\ DOMAIN q = 1 .. n /\ DOMAIN own = 1 .. Len(own)
        /\ \A k \in DOMAIN own : own[k] \in Update /\ own[k].lts \in Nat
    <2>1. \A v \in Update : v.lts \in Nat
      BY DEF Update
    <2>2. /\ n \in Nat /\ Len(own) \in Nat /\ DOMAIN q = 1 .. n /\ DOMAIN own = 1 .. Len(own)
          /\ \A k \in DOMAIN own : own[k] \in Update
      BY <1>2
    <2> QED
      BY <2>1, <2>2
  <1>5. PICK k \in DOMAIN own : own[k] = u
    BY <1>1, <1>2 DEF ToSet, o
  <1>6. k \notin DOMAIN q
    BY <1>1, <1>2, <1>5 DEF ToSet
  <1>7. n < k
    BY <1>4, <1>6
  <1>8. CASE k = n + 1
    BY <1>1, <1>4, <1>5, <1>8 DEF o, q, own
  <1>9. CASE n + 1 < k
    <2>1. n + 1 \in DOMAIN own /\ own[n + 1].lts < u.lts
      BY <1>2, <1>4, <1>5, <1>9
    <2>2. own[n + 1] \in Logged(o) /\ own[n + 1].server_id = o
      BY <1>2, <2>1 DEF ToSet
    <2>3. own[n + 1] \in Logged(s)
      BY <1>1, <1>3, <2>1, <2>2, KnownParts
    <2>4. PICK j \in DOMAIN q : q[j] = own[n + 1]
      BY <1>2, <2>2, <2>3 DEF ToSet
    <2>5. j \in DOMAIN own /\ own[j] = own[n + 1] /\ j < n + 1
      BY <1>2, <1>4, <2>4
    <2>6. own[j].lts < own[n + 1].lts
      BY <1>2, <2>1, <2>5
    <2> QED
      BY <1>4, <2>5, <2>6
  <1> QED
    BY <1>4, <1>7, <1>8, <1>9

\* A server that takes up a known update learns the next of its originator.
LEMMA TakenInSequence ==
  ASSUME TypeOK, KeyInv, SequenceInv, NEW s \in Server, NEW u \in Update, u \in Known, Takes(s, u)
  PROVE  SequenceInv' /\ Abstract!Learn(s, u.server_id, u.server_id)
PROOF
  <1> DEFINE p == u.server_id
             List(t, o) == OfOriginator(log[t], o)
             n == Len(List(s, p))
  <1>1. p \in Server /\ s # p /\ n < Len(List(p, p)) /\ List(p, p)[n + 1] = u
    BY NextTaken
  <1>2. log' = [log EXCEPT ![s] = Extended(s, u)] /\ u \notin Logged(s)
    BY DEF Takes
  <1>3. /\ \A t, o \in Server : t # s \/ o # p => List(t, o)' = List(t, o)
        /\ List(s, p)' = Append(List(s, p), u)
    BY <1>1, <1>2, OneListGrows
  <1>4. \A t \in Server : Logged(t)' = IF t = s THEN Logged(t) \cup {u} ELSE Logged(t)
    BY <1>2, LoggedExtended
  <1>5. /\ List(s, p) \in Seq(Update) /\ List(p, p) \in Seq(Update)
        /\ ToSet(List(s, p)) = {v \in Logged(s) : v.server_id = p}
        /\ \A i, j \in DOMAIN List(p, p) : i < j => List(p, p)[i].lts < List(p, p)[j].lts
        /\ Len(List(s, p)) <= Len(List(p, p))
        /\ \A k \in DOMAIN List(s, p) : List(s, p)[k] = List(p, p)[k]
    BY <1>1 DEF SequenceInv, InSequence
  <1>6. List(p, p)' = List(p, p)
    BY <1>1, <1>3
  <1>7. InSequence(s, p)'
    <2> DEFINE q == List(s, p)
               r == Append(q, u)
               own == List(p, p)
    <2>1. /\ r \in Seq(Update) /\ Len(r) = n + 1 /\ n \in Nat
          /\ DOMAIN q = 1 .. n /\ DOMAIN r = 1 .. n + 1
          /\ r[n + 1] = u /\ \A k \in DOMAIN q : r[k] = q[k]
          /\ ToSet(r) = ToSet(q) \cup {u}
      BY <1>5, ListAppended
    <2>2. Len(own) \in Nat /\ DOMAIN own = 1 .. Len(own)
      BY <1>5
    <2>3. ToSet(r) = {v \in Logged(s)' : v.server_id = p}
      BY <1>4, <1>5, <2>1
    <2> HIDE DEF q, r, own, n
    <2>4. Len(r) <= Len(own) /\ \A k \in DOMAIN r : k \in DOMAIN own /\ r[k] = own[k]
      BY <1>1, <1>5, <2>1, <2>2 DEF q, own
    <2>5. \A i, j \in DOMAIN r : i < j => r[i].lts < r[j].lts
      BY <1>5, <2>4 DEF own
    <2>6. List(s, p)' = r /\ List(p, p)' = own
      BY <1>3, <1>6 DEF r, q, own
    <2> QED
      BY <2>1, <2>3, <2>4, <2>5, <2>6 DEF InSequence
  <1>8. ASSUME NEW t \in Server, NEW o \in Server, t # s \/ o # p PROVE InSequence(t, o)'
    <2>1. List(t, o)' = List(t, o) /\ List(o, o)' = List(o, o)
      BY <1>1, <1>3, <1>8
    <2>2. {v \in Logged(t)' : v.server_id = o} = {v \in Logged(t) : v.server_id = o}
      BY <1>4, <1>8
    <2>3. InSequence(t, o)
      BY DEF SequenceInv
    <2> QED
      BY <2>1, <2>2, <2>3 DEF InSequence
  <1>9. SequenceInv'
    BY <1>7, <1>8 DEF SequenceInv
  <1>10. Abstract!Learn(s, p, p)
    <2> DEFINE known == [t \in Server |-> [o \in Server |-> List(t, o)]]
    <2>1. known' = [t \in Server |-> [o \in Server |-> List(t, o)']]
      OBVIOUS
    <2>2. known' = [known EXCEPT ![s] = [known[s] EXCEPT ![p] = Append(List(s, p), u)]]
      BY <1>1, <1>3, <2>1
    <2>3. known[s][p] = List(s, p) /\ known[p][p] = List(p, p)
      BY <1>1
    <2>4. known' = [known EXCEPT ![s][p] = Append(@, known[p][p][Len(@) + 1])]
      BY <1>1, <2>2, <2>3
    <2>5. Len(known[s][p]) < Len(known[p][p])
      BY <1>1, <2>3
    <2> QED
      BY <2>4, <2>5 DEF Abstract!Learn
  <1> QED
    BY <1>9, <1>10

\* A server that makes an update puts it behind all of its own.
LEMMA PostsInSequence ==
  ASSUME TypeOK, KeyInv, SequenceInv, NEW s \in Server, NEW r, Posts(s, r)
  PROVE  SequenceInv' /\ Abstract!Originate(s)
PROOF
  <1> DEFINE u == NewUpdate(s, r)
             List(t, o) == OfOriginator(log[t], o)
             n == Len(List(s, s))
  <1>1. /\ u \in Update /\ Takes(s, u) /\ u \notin Known
        /\ \A w \in Known : w.server_id = s => w.lts <= lts[s]
    BY DEF Posts
  <1>2. u.server_id = s /\ u.lts = lts[s] + 1
    BY DEF NewUpdate
  <1> HIDE DEF u
  <1>3. log' = [log EXCEPT ![s] = Extended(s, u)]
    BY <1>1 DEF Takes
  <1>4. /\ \A t, o \in Server : t # s \/ o # s => List(t, o)' = List(t, o)
        /\ List(s, s)' = Append(List(s, s), u)
    <2>1. /\ OfOriginator(log'[s], u.server_id) = Append(OfOriginator(log[s], u.server_id), u)
          /\ \A t, o \in Server :
               t # s \/ o # u.server_id => OfOriginator(log'[t], o) = OfOriginator(log[t], o)
      BY <1>1, <1>3, OneListGrows
    <2> QED
      BY <1>2, <2>1
  <1>5. \A t \in Server : Logged(t)' = IF t = s THEN Logged(t) \cup {u} ELSE Logged(t)
    BY <1>1, <1>3, LoggedExtended
  <1>6. /\ List(s, s) \in Seq(Update)
        /\ ToSet(List(s, s)) = {v \in Logged(s) : v.server_id = s}
        /\ \A i, j \in DOMAIN List(s, s) : i < j => List(s, s)[i].lts < List(s, s)[j].lts
    BY DEF SequenceInv, InSequence
  <1>7. /\ n \in Nat /\ Len(List(s, s)') = n + 1
        /\ DOMAIN List(s, s) = 1 .. n /\ DOMAIN List(s, s)' = 1 .. n + 1
        /\ List(s, s)' \in Seq(Update) /\ List(s, s)'[n + 1] = u
        /\ \A k \in DOMAIN List(s, s) : List(s, s)'[k] = List(s, s)[k]
        /\ ToSet(List(s, s)') = ToSet(List(s, s)) \cup {u}
    BY <1>1, <1>4, <1>6, ListAppended
  <1>8. InSequence(s, s)'
    <2> DEFINE q == List(s, s)
               own == List(s, s)'
    <2>1. ToSet(own) = {v \in Logged(s)' : v.server_id = s}
      BY <1>2, <1>5, <1>6, <1>7
    <2>2. \A k \in DOMAIN q : q[k] \in Known /\ q[k].server_id = s
      BY <1>6, KnownParts DEF ToSet
    <2>3. lts[s] \in Nat /\ \A k \in DOMAIN q : q[k].lts \in Nat /\ q[k].lts < u.lts
      <3>1. lts[s] \in Nat /\ \A w \in Known : w.lts \in Nat
        BY KnownFacts
      <3> QED
        BY <1>1, <1>2, <2>2, <3>1
    <2> HIDE DEF q, own
    <2>4. \A i, j \in DOMAIN own : i < j => own[i].lts < own[j].lts
      BY <1>6, <1>7, <2>3 DEF q, own
    <2>5. Len(own) <= Len(own)
      BY <1>7 DEF own
    <2> QED
      BY <1>7, <2>1, <2>4, <2>5 DEF InSequence, own
  <1>9. ASSUME NEW t \in Server, NEW o \in Server, t # s \/ o # s PROVE InSequence(t, o)'
    <2>1. List(t, o)' = List(t, o)
      BY <1>4, <1>9
    <2>2. {v \in Logged(t)' : v.server_id = o} = {v \in Logged(t) : v.server_id = o}
      BY <1>2, <1>5, <1>9
    <2>3. /\ List(t, o) \in Seq(Update)
          /\ ToSet(List(t, o)) = {v \in Logged(t) : v.server_id = o}
          /\ \A i, j \in DOMAIN List(t, o) : i < j => List(t, o)[i].lts < List(t, o)[j].lts
          /\ Len(List(t, o)) <= Len(List(o, o))
          /\ \A k \in DOMAIN List(t, o) : List(t, o)[k] = List(o, o)[k]
      BY DEF SequenceInv, InSequence
    <2>4. /\ Len(List(t, o)) <= Len(List(o, o)')
          /\ \A k \in DOMAIN List(t, o) : List(t, o)[k] = List(o, o)'[k]
      <3>1. CASE o # s
        BY <1>4, <2>3, <3>1
      <3>2. CASE o = s
        <4>1. Len(List(t, s)) \in Nat /\ DOMAIN List(t, s) = 1 .. Len(List(t, s))
          BY <2>3, <3>2
        <4> QED
          BY <1>7, <2>3, <3>2, <4>1
      <3> QED
        BY <3>1, <3>2
    <2> QED
      BY <2>1, <2>2, <2>3, <2>4 DEF InSequence
  <1>10. SequenceInv'
    BY <1>8, <1>9 DEF SequenceInv
  <1>11. Abstract!Originate(s)
    <2> DEFINE known == [t \in Server |-> [o \in Server |-> List(t, o)]]
    <2>1. known' = [t \in Server |-> [o \in Server |-> List(t, o)']]
      OBVIOUS
    <2>2. known' = [known EXCEPT ![s] = [known[s] EXCEPT ![s] = Append(List(s, s), u)]]
      BY <1>4, <2>1
    <2>3. known[s][s] = List(s, s) /\ known'[s][s] = List(s, s)'
      BY <2>1
    <2>4. Len(known'[s][s]) = Len(known[s][s]) + 1 /\ known'[s][s][Len(known[s][s]) + 1] = u
      BY <1>7, <2>3
    <2>5. known' = [known EXCEPT ![s][s] = Append(@, known'[s][s][Len(@) + 1])]
      BY <2>2, <2>3, <2>4
    <2> QED
      BY <2>4, <2>5 DEF Abstract!Originate
  <1> QED
    BY <1>10, <1>11

\* While no log changes, nothing of this does.
LEMMA SequenceStutters ==
  ASSUME SequenceInv, UNCHANGED log
  PROVE  SequenceInv' /\ UNCHANGED [s \in Server |-> [o \in Server |-> OfOriginator(log[s], o)]]
PROOF
  <1>1. \A s \in Server : Logged(s)' = Logged(s)
    BY DEF Logged
  <1>2. SequenceInv'
    BY <1>1 DEF SequenceInv, InSequence
  <1> QED
    BY <1>2

\* No log has an update at first.
LEMMA SequenceInit == Init => SequenceInv /\ Abstract!Init
PROOF
  <1> SUFFICES ASSUME Init PROVE SequenceInv /\ Abstract!Init
    OBVIOUS
  <1>1. ASSUME NEW s \in Server, NEW o \in Server
        PROVE  OfOriginator(log[s], o) = <<>> /\ Logged(s) = {}
    <2>1. log[s] = <<>>
      BY DEF Init
    <2>2. Places(log[s], o) = {} /\ Logged(s) = {}
      BY <2>1 DEF Places, Logged
    <2>3. Cardinality(Places(log[s], o)) = 0
      BY <2>2, FS_EmptySet
    <2> QED
      BY <2>2, <2>3 DEF OfOriginator
  <1>2. ASSUME NEW s \in Server, NEW o \in Server PROVE InSequence(s, o)
    <2>1. /\ OfOriginator(log[s], o) = <<>> /\ OfOriginator(log[o], o) = <<>> /\ Logged(s) = {}
      BY <1>1
    <2>2. <<>> \in Seq(Update) /\ Len(<<>>) <= Len(<<>>) /\ DOMAIN <<>> = {}
      OBVIOUS
    <2>3. ToSet(<<>>) = {}
      BY DEF ToSet
    <2> QED
      BY <2>1, <2>2, <2>3 DEF InSequence
  <1>3. Abstract!Init
    BY <1>1 DEF Abstract!Init
  <1> QED
    BY <1>2, <1>3 DEF SequenceInv

\* A step of the calm replication keeps the order and is a step of OriginOrder, or
\* changes no log.
LEMMA SequenceStep ==
  ASSUME CoreStateInv, NoBoardCreated', [CalmNext]_vars
  PROVE  /\ SequenceInv'
         /\ \/ Abstract!Next
            \/ UNCHANGED [s \in Server |-> [o \in Server |-> OfOriginator(log[s], o)]]
PROOF
  <1> DEFINE Goal == /\ SequenceInv'
                     /\ \/ Abstract!Next
                        \/ UNCHANGED [s \in Server |-> [o \in Server |-> OfOriginator(log[s], o)]]
  <1>0. TypeOK /\ KeyInv /\ ControlInv /\ Components /\ Undisturbed /\ SequenceInv
    BY DEF CoreStateInv, TypeInv, CoreInv, ControlInv
  <1>1. UNCHANGED log => Goal
    BY <1>0, SequenceStutters
  <1> HIDE DEF Goal
  <1>2. ASSUME NEW s \in Server, ServerStep(s) PROVE Goal
    <2>1. CASE RecvUpdate(s) \/ RecvSyncUpdate(s)
      <3>1. Read(s) \in Known /\ Read(s) \in Update /\ (UNCHANGED log \/ Takes(s, Read(s)))
        BY <1>0, <2>1, ReadKnown, ReadEffect DEF ReadsOne
      <3>2. CASE Takes(s, Read(s))
        <4>1. SequenceInv' /\ Abstract!Learn(s, Read(s).server_id, Read(s).server_id)
          BY <1>0, <3>1, <3>2, TakenInSequence
        <4>2. Read(s).server_id \in Server
          BY <3>1 DEF Update
        <4> QED
          BY <4>1, <4>2 DEF Goal, Abstract!Next
      <3> QED
        BY <1>1, <3>1, <3>2
    <2>2. CASE RecvMembership(s) \/ RecvVector(s) \/ RecvSyncEnd(s) \/ SendSyncEnd(s) \/ SendUpdate(s)
      BY <1>0, <1>1, <2>2, QuietSteps DEF SendUpdate, fileVars
    <2>3. CASE Drain(s)
      BY <1>0, <2>3 DEF Drain, Undisturbed
    <2> QED
      BY <1>2, <2>1, <2>2, <2>3 DEF ServerStep
  <1>3. ASSUME NEW s \in Server, QuietClients(s), NEW r \in ClientRequests, ClientRequest(s, r)
        PROVE  Goal
    <2>1. UNCHANGED log \/ Posts(s, r)
      BY <1>3, RequestEffect DEF fileVars
    <2>2. CASE Posts(s, r)
      <3>1. SequenceInv' /\ Abstract!Originate(s)
        BY <1>0, <2>2, PostsInSequence
      <3> QED
        BY <3>1 DEF Goal, Abstract!Next
    <2> QED
      BY <1>1, <2>1, <2>2
  <1>4. CASE Partitioning
    <2>1. UNCHANGED log
      BY <1>0, <1>4, PartitionShape DEF Repartitioned, fileVars
    <2> QED
      BY <1>1, <2>1 DEF Goal
  <1>5. CASE UNCHANGED vars
    <2>1. UNCHANGED log
      BY <1>5 DEF vars, fileVars
    <2> QED
      BY <1>1, <2>1 DEF Goal
  <1> QED
    BY <1>2, <1>3, <1>4, <1>5 DEF CalmNext, Requesting, Goal

--------------------------------------------------------------------------------
(* The invariant *)

LEMMA CoreInit == Init => CoreStateInv
PROOF
  BY TypeInit, KeyInit, LogInit, ControlInit, OrderInit, PromiseInit, BoardInit,
     SequenceInit DEF CoreStateInv, CoreInv

\* A step keeps it if it makes no board.
LEMMA CoreStep ==
  ASSUME CoreStateInv, NoBoardCreated', [CalmNext]_vars
  PROVE  CoreStateInv'
PROOF
  <1>1. TypeInv /\ TypeOK /\ KeyInv /\ LogInv /\ ControlInv /\ ObjectsOnly
    BY DEF CoreStateInv, TypeInv, CoreInv, OrderInv
  <1>2. [Next]_vars
    BY <1>1, CalmIsNext
  <1>3. TypeInv' /\ TypeOK' /\ KeyInv' /\ LogInv'
    BY <1>1, <1>2, TypeStep, KeyStep, LogStep DEF TypeInv
  <1>4. ControlInv'
    BY <1>1, ControlStep
  <1>5. OrderInv'
    BY <1>3, OrderStep
  <1>6. PromiseInv' /\ BoardInv'
    BY <1>3, <1>5, PromiseStep, BoardStep
  <1>7. SequenceInv'
    BY SequenceStep
  <1> QED
    BY <1>3, <1>4, <1>5, <1>6, <1>7 DEF CoreStateInv, CoreInv

\* The boards a server has, it keeps.
LEMMA BoardsGrow ==
  ASSUME TypeInv, TypeInv', [Next]_vars, NEW s \in Server
  PROVE  DOMAIN db[s] \subseteq DOMAIN db'[s]
PROOF
  <1> DEFINE Goal == DOMAIN db[s] \subseteq DOMAIN db'[s]
  <1>1. ASSUME NEW r \in Server, NEW F, DOMAIN db[r] \subseteq DOMAIN F, db' = [db EXCEPT ![r] = F]
        PROVE  Goal
    BY <1>1 DEF TypeInv, TypeOK, FileType
  <1>2. UNCHANGED db => Goal
    OBVIOUS
  <1>3. ASSUME NEW r, NEW b PROVE DOMAIN db[r] \subseteq DOMAIN WithFile(db[r], b)
    BY DEF WithFile
  <1>4. ASSUME NEW r, NEW u PROVE DOMAIN db[r] \subseteq DOMAIN Applied(db[r], u)
    BY <1>3 DEF Applied
  <1> HIDE DEF Goal
  <1>5. ASSUME NEW r \in Server, NEW u, ApplyUpdate(r, u) PROVE Goal
    <2>1. UNCHANGED db \/ db' = [db EXCEPT ![r] = Applied(db[r], u)]
      BY <1>5 DEF ApplyUpdate
    <2> QED
      BY <1>1, <1>2, <1>4, <2>1
  <1>6. ASSUME NEW r \in Server, NEW q, HandleClientReq(r, q) PROVE Goal
    <2>1. CASE UpdateReplicas(r, q)
      BY <1>5, <2>1 DEF UpdateReplicas
    <2>2. CASE JoinDb(r, q)
      <3>1. UNCHANGED db \/ db' = [db EXCEPT ![r] = WithFile(db[r], q.db_name)]
        BY <2>2 DEF JoinDb, CreateBoard, fileVars
      <3> QED
        BY <1>1, <1>2, <1>3, <3>1
    <2> QED
      BY <1>6, <2>1, <2>2 DEF HandleClientReq
  <1>7. ASSUME NEW r \in Server, ServerStep(r) PROVE Goal
    <2>1. CASE RecvUpdate(r) \/ RecvSyncUpdate(r)
      BY <1>2, <1>5, <2>1 DEF RecvUpdate, RecvSyncUpdate, fileVars
    <2>2. CASE RecvMembership(r) \/ RecvVector(r) \/ RecvSyncEnd(r) \/ SendUpdate(r) \/ SendSyncEnd(r)
      BY <1>2, <2>2 DEF RecvMembership, RecvVector, RecvSyncEnd, SendUpdate, SendSyncEnd, fileVars
    <2>3. CASE Drain(r)
      BY <1>6, <2>3 DEF Drain
    <2> QED
      BY <1>7, <2>1, <2>2, <2>3 DEF ServerStep
  <1>8. ASSUME NEW r \in Server, NEW q \in ClientRequests, ClientRequest(r, q) PROVE Goal
    BY <1>6, <1>8 DEF ClientRequest
  <1> QED
    BY <1>2, <1>7, <1>8
       DEF Goal, Next, JoinExit, Split, Merge, NetworkChange, Disconnect, fileVars, vars

\* With files for all boards from the start none is made later.
LEMMA NoneCreated ==
  ASSUME InitialBoards = Board, CoreStateInv, [CalmNext]_vars
  PROVE  NoBoardCreated'
PROOF
  <1>1. TypeInv /\ NoBoardCreated /\ TypeOK
    BY DEF CoreStateInv, TypeInv, CoreInv, ControlInv, Undisturbed
  <1>2. [Next]_vars
    BY <1>1, CalmIsNext
  <1>3. TypeInv'
    BY <1>1, <1>2, TypeStep
  <1>4. ASSUME NEW s \in Server PROVE DOMAIN db'[s] = InitialBoards
    <2>1. DOMAIN db[s] \subseteq DOMAIN db'[s] /\ DOMAIN db[s] = InitialBoards
      BY <1>1, <1>2, <1>3, BoardsGrow DEF NoBoardCreated
    <2>2. DOMAIN db'[s] \subseteq Board
      BY <1>3 DEF TypeInv, TypeOK, FileType, IsFiles
    <2> QED
      BY <2>1, <2>2
  <1> QED
    BY <1>4 DEF NoBoardCreated

\* All that is known of a reachable state of the calm replication.
CalmStateInv == CoreStateInv /\ Told

LEMMA CalmHolds == ASSUME InitialBoards = Board PROVE CalmSpec => []CalmStateInv
PROOF
  <1>1. Init => CalmStateInv
    BY CoreInit, BoardInit DEF CalmStateInv
  <1>2. CalmStateInv /\ [CalmNext]_vars => CalmStateInv'
    <2> SUFFICES ASSUME CalmStateInv, [CalmNext]_vars PROVE CalmStateInv'
      OBVIOUS
    <2>1. CoreStateInv /\ Told /\ NoBoardCreated'
      BY NoneCreated DEF CalmStateInv
    <2>2. CoreStateInv' /\ TypeOK'
      BY <2>1, CoreStep DEF CoreStateInv, TypeInv
    <2>3. Told'
      BY <2>1, <2>2, ToldStep
    <2> QED
      BY <2>2, <2>3 DEF CalmStateInv
  <1> QED
    BY <1>1, <1>2, PTL DEF CalmSpec

--------------------------------------------------------------------------------
(* What the calm replication guarantees *)

\* The phases of the synchronisation, the messages that may wait in each, what logs,
\* vectors and inboxes say of each other and what the vectors promise: all that
\* makes process_membership, process_vector, send_updates and process_syncEnd work
\* together, at any number of servers.
THEOREM CalmInvariance == ASSUME InitialBoards = Board PROVE CalmSpec => []CalmInv
PROOF
  <1>1. CalmStateInv => CalmInv
    BY DEF CalmStateInv, CoreStateInv, CalmInv
  <1> QED
    BY <1>1, CalmHolds, PTL

LEMMA RestingAgree ==
  ASSUME CoreStateInv, NEW s \in Server, AtRest(s), NEW t \in comp[s]
  PROVE  /\ t \in Server /\ Logged(s) = Logged(t)
         /\ \A o \in Server : server_lts[s][o] <= server_lts[t][o]
PROOF
  <1>0. TypeOK /\ Components /\ Shared /\ LogIsPrefix /\ VectorIsLogged
    BY DEF CoreStateInv, TypeInv, CoreInv, ControlInv, PromiseInv, OrderInv, LogInv
  <1>1. t \in Server /\ comp[t] = comp[s] /\ s \in comp[s] /\ s \in comp[t]
    BY <1>0, CompTypes
  <1>2. ASSUME NEW r \in {s, t}, ~ Gone(r) PROVE Live(r) /\ Carried(r) = {}
    <2>1. ~ syncOn[r] /\ inbox[r] = <<>>
      BY <1>1 DEF AtRest
    <2>2. DOMAIN inbox[r] = {}
      BY <2>1
    <2> QED
      BY <1>2, <2>1, <2>2 DEF Live, Fresh, Waiting, Carried
  <1>3. Logged(s) = Logged(t)
    <2>1. CASE s = t
      BY <2>1
    <2>2. CASE s # t
      <3>1. ~ Gone(s) /\ ~ Gone(t)
        BY <1>1, <2>2 DEF Gone
      <3> QED
        BY <1>0, <1>1, <1>2, <3>1 DEF Shared, Has
    <2> QED
      BY <2>1, <2>2
  <1>4. ASSUME NEW o \in Server PROVE server_lts[s][o] <= server_lts[t][o]
    <2>1. server_lts[s][o] \in Nat /\ server_lts[t][o] \in Nat
      BY <1>0, <1>1, KnownFacts
    <2>2. CASE server_lts[s][o] > 0
      <3>1. PICK u \in Logged(s) : u.server_id = o /\ u.lts = server_lts[s][o]
        BY <1>0, <2>2 DEF VectorIsLogged
      <3>2. u \in Known /\ u \in Logged(t)
        BY <1>0, <1>3, KnownFacts
      <3> QED
        BY <1>0, <1>1, <3>1, <3>2 DEF LogIsPrefix
    <2> QED
      BY <2>1, <2>2
  <1> QED
    BY <1>1, <1>3, <1>4

LEMMA RestingServers == CoreStateInv => AgreeAtRest
PROOF
  <1> SUFFICES ASSUME CoreStateInv, NEW s \in Server, AtRest(s), NEW t \in comp[s]
               PROVE  Logged(s) = Logged(t) /\ server_lts[s] = server_lts[t]
    BY DEF AgreeAtRest
  <1>1. TypeOK /\ Components
    BY DEF CoreStateInv, TypeInv, CoreInv, ControlInv
  <1>2. t \in Server /\ comp[t] = comp[s] /\ s \in comp[t] /\ AtRest(t)
    BY <1>1, CompTypes DEF AtRest
  <1>3. /\ Logged(s) = Logged(t)
        /\ \A o \in Server : server_lts[s][o] <= server_lts[t][o]
        /\ \A o \in Server : server_lts[t][o] <= server_lts[s][o]
    BY <1>2, RestingAgree
  <1>4. /\ server_lts[s] \in Vector /\ server_lts[t] \in Vector
        /\ \A o \in Server : server_lts[s][o] \in Nat /\ server_lts[t][o] \in Nat
    BY <1>1, <1>2, KnownFacts DEF TypeOK, ClockType
  <1>5. \A o \in Server : server_lts[s][o] = server_lts[t][o]
    BY <1>3, <1>4
  <1> QED
    BY <1>3, <1>4, <1>5 DEF Vector

\* What a log has made, deleted and written of an object.
MadeBy(L, b, k) == {u \in L : u.op = "a" /\ Concerns(u, b, k)}
GoneBy(L, b, k) == {u \in L : u.op = "d" /\ Concerns(u, b, k)}
TextBy(L, b, k) == {u \in L : u.op \in {"a", "e"} /\ Concerns(u, b, k)}

\* What a record shows of it if timestamps tell the order.
GoneSince(L, b, k, v) ==
  \E c \in MadeBy(L, b, k), d \in GoneBy(L, b, k) : c.lts < d.lts /\ d.lts < v.lts
StampsLive(L, b, o, k) ==
  o.status <=> \A c \in MadeBy(L, b, k), d \in GoneBy(L, b, k) : d.lts < c.lts
StampsText(L, b, o, k) ==
  \E w \in TextBy(L, b, k) :
    /\ o.obj = w.obj /\ ~ GoneSince(L, b, k, w)
    /\ \A v \in TextBy(L, b, k) : v.lts > w.lts => GoneSince(L, b, k, v)

PlacesOf(q, b, k) == MadeAt(q, b, k) \cup GoneAt(q, b, k) \cup TextAt(q, b, k)

LEMMA HomeShows ==
  ASSUME NEW q, NEW b, NEW o, LiveInLog(q, b, o), TextInLog(q, b, o),
         \A i, j \in PlacesOf(q, b, KeyHeld(o)) : i < j <=> q[i].lts < q[j].lts,
         NEW L, L = {q[i] : i \in DOMAIN q}
  PROVE  StampsLive(L, b, o, KeyHeld(o)) /\ StampsText(L, b, o, KeyHeld(o))
PROOF
  <1> DEFINE k == KeyHeld(o)
             A == MadeAt(q, b, k)
             D == GoneAt(q, b, k)
             W == TextAt(q, b, k)
  <1>1. ShowsLive(q, b, o, k) /\ ShowsText(q, b, o, k)
    BY ShownPlaces
  <1>2. \A i, j \in A \cup D \cup W : i < j <=> q[i].lts < q[j].lts
    BY DEF PlacesOf
  <1> HIDE DEF k
  <1>3. /\ \A n \in A : q[n] \in MadeBy(L, b, k)
        /\ \A n \in D : q[n] \in GoneBy(L, b, k)
        /\ \A n \in W : q[n] \in TextBy(L, b, k)
    BY DEF MadeAt, GoneAt, TextAt, LoggedAt, MadeBy, GoneBy, TextBy, Concerns, KeyOf
  <1>4. /\ \A u \in MadeBy(L, b, k) : \E n \in A : q[n] = u
        /\ \A u \in GoneBy(L, b, k) : \E n \in D : q[n] = u
        /\ \A u \in TextBy(L, b, k) : \E n \in W : q[n] = u
    BY DEF MadeAt, GoneAt, TextAt, LoggedAt, MadeBy, GoneBy, TextBy, Concerns, KeyOf
  <1>5. o.status <=> \A c \in A, d \in D : d < c
    BY <1>1 DEF ShowsLive
  <1>6. PICK w \in W : /\ o.obj = q[w].obj /\ ~ GoneBefore(A, D, w)
                       /\ \A v \in W : v > w => GoneBefore(A, D, v)
    BY <1>1 DEF ShowsText
  <1> HIDE DEF A, D, W
  <1>7. StampsLive(L, b, o, k)
    BY <1>2, <1>3, <1>4, <1>5 DEF StampsLive
  <1>8. \A n \in W : GoneBefore(A, D, n) <=> GoneSince(L, b, k, q[n])
    <2> SUFFICES ASSUME NEW n \in W PROVE GoneBefore(A, D, n) <=> GoneSince(L, b, k, q[n])
      OBVIOUS
    <2>1. ASSUME GoneBefore(A, D, n) PROVE GoneSince(L, b, k, q[n])
      <3>1. PICK c \in A, d \in D : c < d /\ d < n
        BY <2>1 DEF GoneBefore
      <3>2. q[c].lts < q[d].lts /\ q[d].lts < q[n].lts
        BY <1>2, <3>1
      <3> QED
        BY <1>3, <3>2 DEF GoneSince
    <2>2. ASSUME GoneSince(L, b, k, q[n]) PROVE GoneBefore(A, D, n)
      <3>1. PICK x \in MadeBy(L, b, k), y \in GoneBy(L, b, k) : x.lts < y.lts /\ y.lts < q[n].lts
        BY <2>2 DEF GoneSince
      <3>2. PICK c \in A : q[c] = x
        BY <1>4
      <3>3. PICK d \in D : q[d] = y
        BY <1>4
      <3>4. c < d /\ d < n
        BY <1>2, <3>1, <3>2, <3>3
      <3> QED
        BY <3>4 DEF GoneBefore
    <2> QED
      BY <2>1, <2>2
  <1>9. StampsText(L, b, o, k)
    <2>1. q[w] \in TextBy(L, b, k) /\ o.obj = q[w].obj /\ ~ GoneSince(L, b, k, q[w])
      BY <1>3, <1>6, <1>8
    <2>2. ASSUME NEW v \in TextBy(L, b, k), v.lts > q[w].lts PROVE GoneSince(L, b, k, v)
      <3>1. PICK n \in W : q[n] = v
        BY <1>4
      <3>2. q[w].lts < q[n].lts
        BY <2>2, <3>1
      <3>3. w < n
        BY <1>2, <3>2
      <3> QED
        BY <1>6, <1>8, <3>1, <3>3
    <2> QED
      BY <2>1, <2>2 DEF StampsText
  <1> QED
    BY <1>7, <1>9 DEF k

\* A record is the same on two boards if both logs have the same of it, and timestamps
\* tell the order in both.
LEMMA SameRecord ==
  ASSUME NEW L \in SUBSET Update, NEW b, NEW k, NEW o \in Object, NEW p \in Object,
         KeyHeld(o) = k, KeyHeld(p) = k,
         StampsLive(L, b, o, k), StampsText(L, b, o, k),
         StampsLive(L, b, p, k), StampsText(L, b, p, k),
         \A u, v \in TextBy(L, b, k) : u.lts = v.lts => u = v
  PROVE  o = p
PROOF
  <1>1. o.status = p.status
    BY DEF StampsLive, Object
  <1>2. PICK w \in TextBy(L, b, k) :
          /\ o.obj = w.obj /\ ~ GoneSince(L, b, k, w)
          /\ \A v \in TextBy(L, b, k) : v.lts > w.lts => GoneSince(L, b, k, v)
    BY DEF StampsText
  <1>3. PICK x \in TextBy(L, b, k) :
          /\ p.obj = x.obj /\ ~ GoneSince(L, b, k, x)
          /\ \A v \in TextBy(L, b, k) : v.lts > x.lts => GoneSince(L, b, k, v)
    BY DEF StampsText
  <1>4. w.lts \in Nat /\ x.lts \in Nat
    BY DEF TextBy, Update
  <1>5. ~ (x.lts > w.lts) /\ ~ (w.lts > x.lts)
    BY <1>2, <1>3
  <1>6. w = x
    BY <1>4, <1>5
  <1>7. o.obj = p.obj
    BY <1>2, <1>3, <1>6
  <1>8. o.obj_id = p.obj_id /\ o.server_index = p.server_index
    BY DEF KeyHeld
  <1> QED
    BY <1>1, <1>7, <1>8 DEF Object

\* An object changed at home only has its updates in the order of their timestamps.
LEMMA HomeOrder ==
  ASSUME CoreStateInv, NEW s \in Server, NEW b, NEW k, ChangedAtHome(log[s], b, k)
  PROVE  /\ \A i, j \in PlacesOf(log[s], b, k) : i < j <=> log[s][i].lts < log[s][j].lts
         /\ \A u, v \in TextBy(Logged(s), b, k) : u.lts = v.lts => u = v
PROOF
  <1>0. /\ TypeOK /\ KeyIsStamp /\ LogsAscend /\ UpdateKeyUnique
    BY DEF CoreStateInv, TypeInv, CoreInv, BoardInv, KeyInv
  <1> DEFINE q == log[s]
  <1>1. /\ q \in Seq(Update) /\ DOMAIN q = 1 .. Len(q) /\ Len(q) \in Nat
        /\ \A n \in DOMAIN q : q[n] \in Logged(s) /\ q[n] \in Known /\ q[n] \in Update
    BY <1>0, KnownFacts, LenProperties DEF TypeOK, FileType, Logged
  <1>2. \A n \in PlacesOf(q, b, k) : n \in DOMAIN q /\ q[n].server_id = k[2]
    <2> SUFFICES ASSUME NEW n \in PlacesOf(q, b, k) PROVE n \in DOMAIN q /\ q[n].server_id = k[2]
      OBVIOUS
    <2>1. n \in DOMAIN q /\ q[n].op \in {"a", "e", "d"} /\ q[n].db_name = b
          /\ <<q[n].obj_id, q[n].server_index>> = k
      BY DEF PlacesOf, MadeAt, GoneAt, TextAt, LoggedAt
    <2>2. CASE q[n].op = "a"
      BY <1>0, <1>1, <2>1, <2>2 DEF KeyIsStamp
    <2>3. CASE q[n].op # "a"
      <3>1. n \in LoggedAt(q, b, k, {"e", "d"})
        BY <2>1, <2>3 DEF LoggedAt
      <3> QED
        BY <2>1, <3>1 DEF ChangedAtHome
    <2> QED
      BY <2>2, <2>3
  <1>3. \A i, j \in DOMAIN q : i < j /\ q[i].server_id = q[j].server_id => q[i].lts < q[j].lts
    BY <1>0 DEF LogsAscend
  <1>4. ASSUME NEW i \in PlacesOf(q, b, k), NEW j \in PlacesOf(q, b, k)
        PROVE  i < j <=> q[i].lts < q[j].lts
    <2>1. i \in DOMAIN q /\ j \in DOMAIN q /\ q[i].server_id = q[j].server_id
      BY <1>2
    <2>2. i \in Nat /\ j \in Nat /\ q[i].lts \in Nat /\ q[j].lts \in Nat
      <3>1. q[i] \in Update /\ q[j] \in Update /\ i \in Nat /\ j \in Nat
        BY <1>1, <2>1
      <3> HIDE DEF q
      <3> QED
        BY <3>1 DEF Update
    <2>3. /\ i < j => q[i].lts < q[j].lts
          /\ j < i => q[j].lts < q[i].lts
      BY <1>3, <2>1
    <2> HIDE DEF q
    <2>4. i = j => q[i].lts = q[j].lts
      OBVIOUS
    <2> QED
      BY <2>2, <2>3, <2>4
  <1>5. ASSUME NEW u \in TextBy(Logged(s), b, k), NEW v \in TextBy(Logged(s), b, k), u.lts = v.lts
        PROVE  u = v
    <2>1. u \in Logged(s) /\ v \in Logged(s) /\ u \in Known /\ v \in Known
      BY <1>0, KnownFacts DEF TextBy
    <2>2. \A w \in TextBy(Logged(s), b, k) : \E n \in PlacesOf(q, b, k) : q[n] = w
      BY DEF TextBy, Logged, Concerns, KeyOf, PlacesOf, TextAt, LoggedAt
    <2>3. u.server_id = v.server_id
      BY <1>2, <2>2
    <2> QED
      BY <1>0, <1>5, <2>1, <2>3 DEF UpdateKeyUnique
  <1> QED
    BY <1>4, <1>5

LEMMA RestingObjects ==
  ASSUME CoreStateInv, NEW s \in Server, AtRest(s), NEW t \in comp[s], NEW b \in InitialBoards,
         b \in DOMAIN db[s], b \in DOMAIN db[t]
  PROVE  SameObjects(s, t, b)
PROOF
  <1>0. /\ TypeOK /\ BoardsMatch /\ BoardsShowLog
    BY DEF CoreStateInv, TypeInv, CoreInv, BoardInv
  <1>1. t \in Server /\ Logged(s) = Logged(t)
    BY RestingAgree
  <1>2. Made(s, b) = Made(t, b)
    BY <1>1 DEF Made
  <1>3. /\ ToSet(Keys(db[s][b])) = ToSet(Keys(db[t][b]))
        /\ IsInjective(Keys(db[s][b]))
    BY <1>0, <1>1, <1>2 DEF BoardsMatch
  <1>4. ASSUME NEW i \in DOMAIN db[s][b], NEW j \in DOMAIN db[t][b],
               Keys(db[s][b])[i] = Keys(db[t][b])[j]
        PROVE  SameObject(s, t, b, i, j)
    <2> DEFINE o == db[s][b][i]
               p == db[t][b][j]
               k == Keys(db[s][b])[i]
    <2>1. KeyHeld(o) = k /\ KeyHeld(p) = k
      BY <1>4 DEF Keys, KeyHeld
    <2>2. /\ LiveInLog(log[s], b, o) /\ TextInLog(log[s], b, o)
          /\ LiveInLog(log[t], b, p) /\ TextInLog(log[t], b, p)
      BY <1>0, <1>1 DEF BoardsShowLog
    <2>3. MadeAt(log[s], b, KeyHeld(o)) # {} /\ MadeAt(log[t], b, KeyHeld(p)) # {}
      BY <1>0, <1>1, RecordMade
    <2>4. o \in Object /\ p \in Object
      BY <1>0, <1>1 DEF TypeOK, FileType, IsFiles
    <2> HIDE DEF o, p, k
    <2>5. ASSUME MadeFirst(log[s], b, k), MadeFirst(log[t], b, k) PROVE o.status = p.status
      <3>1. ASSUME NEW x \in Server, NEW r \in Object, LiveInLog(log[x], b, r), KeyHeld(r) = k,
                   MadeAt(log[x], b, k) # {}, MadeFirst(log[x], b, k), Logged(x) = Logged(s)
            PROVE  r.status <=> GoneBy(Logged(s), b, k) = {}
        <4>1. r.status <=> \A c \in MadeAt(log[x], b, k), d \in GoneAt(log[x], b, k) : d < c
          BY <3>1, ShownPlaces DEF ShowsLive
        <4>2. \A c \in MadeAt(log[x], b, k), d \in GoneAt(log[x], b, k) : c < d
          BY <3>1 DEF MadeFirst, MadeAt, GoneAt
        <4>3. \A n \in MadeAt(log[x], b, k) \cup GoneAt(log[x], b, k) : n \in Nat
          <5>1. log[x] \in Seq(Update)
            BY <1>0 DEF TypeOK, FileType
          <5> QED
            BY <5>1, LenProperties DEF MadeAt, GoneAt, LoggedAt
        <4>4. r.status <=> GoneAt(log[x], b, k) = {}
          BY <3>1, <4>1, <4>2, <4>3
        <4>5. GoneAt(log[x], b, k) = {} <=> GoneBy(Logged(x), b, k) = {}
          BY DEF GoneAt, LoggedAt, GoneBy, Logged, Concerns, KeyOf
        <4> QED
          BY <3>1, <4>4, <4>5
      <3>2. o.status <=> GoneBy(Logged(s), b, k) = {}
        BY <2>1, <2>2, <2>3, <2>4, <2>5, <3>1
      <3>3. p.status <=> GoneBy(Logged(s), b, k) = {}
        BY <1>1, <2>1, <2>2, <2>3, <2>4, <2>5, <3>1
      <3> QED
        BY <2>4, <3>2, <3>3 DEF Object
    <2>6. ASSUME ChangedAtHome(log[s], b, k) PROVE o = p
      <3>1. ChangedAtHome(log[t], b, k)
        <4> SUFFICES ASSUME NEW n \in LoggedAt(log[t], b, k, {"e", "d"})
                     PROVE  log[t][n].server_id = k[2]
          BY DEF ChangedAtHome
        <4>1. log[t][n] \in Logged(s)
          BY <1>1 DEF LoggedAt, Logged
        <4>2. PICK m \in DOMAIN log[s] : log[s][m] = log[t][n]
          BY <4>1 DEF Logged
        <4>3. m \in LoggedAt(log[s], b, k, {"e", "d"})
          BY <4>2 DEF LoggedAt
        <4> QED
          BY <2>6, <4>2, <4>3 DEF ChangedAtHome
      <3>2. /\ \A m, n \in PlacesOf(log[s], b, k) : m < n <=> log[s][m].lts < log[s][n].lts
            /\ \A u, v \in TextBy(Logged(s), b, k) : u.lts = v.lts => u = v
        BY <2>6, HomeOrder
      <3>3. \A m, n \in PlacesOf(log[t], b, k) : m < n <=> log[t][m].lts < log[t][n].lts
        BY <1>1, <3>1, HomeOrder
      <3>4. StampsLive(Logged(s), b, o, k) /\ StampsText(Logged(s), b, o, k)
        BY <2>1, <2>2, <3>2, HomeShows DEF Logged
      <3>5. StampsLive(Logged(s), b, p, k) /\ StampsText(Logged(s), b, p, k)
        BY <1>1, <2>1, <2>2, <3>3, HomeShows DEF Logged
      <3>6. Logged(s) \in SUBSET Update
        BY <1>0, KnownFacts
      <3> QED
        BY <2>1, <2>4, <3>2, <3>4, <3>5, <3>6, SameRecord
    <2> QED
      BY <2>5, <2>6 DEF SameObject, o, p, k
  <1> QED
    BY <1>3, <1>4 DEF SameObjects

LEMMA RestingBoards == CoreStateInv => ObjectsAgreeAtRest
PROOF
  <1> SUFFICES ASSUME CoreStateInv, NEW s \in Server, AtRest(s), NEW t \in comp[s]
               PROVE  /\ DOMAIN db[s] = DOMAIN db[t]
                      /\ \A b \in DOMAIN db[s] : SameObjects(s, t, b)
    BY DEF ObjectsAgreeAtRest
  <1>1. t \in Server
    BY RestingAgree
  <1>2. DOMAIN db[s] = InitialBoards /\ DOMAIN db[t] = InitialBoards
    BY <1>1 DEF CoreStateInv, CoreInv, ControlInv, Undisturbed, NoBoardCreated
  <1> QED
    BY <1>2, RestingObjects

\* Servers that have read all messages and have synchronised after the last change of
\* the network have the same updates and the same vector.
THEOREM ServersAgree == ASSUME InitialBoards = Board PROVE CalmSpec => []AgreeAtRest
PROOF
  <1>1. CalmStateInv => AgreeAtRest
    BY RestingServers DEF CalmStateInv
  <1> QED
    BY <1>1, CalmHolds, PTL

\* ... and the same boards with the same objects, each of them once: no board misses
\* one.  An object both have made before its deletion is deleted on both or on neither,
\* and one changed only by the server it was posted at is the same to its text.
THEOREM BoardsAgree == ASSUME InitialBoards = Board PROVE CalmSpec => []ObjectsAgreeAtRest
PROOF
  <1>1. CalmStateInv => ObjectsAgreeAtRest
    BY RestingBoards DEF CalmStateInv
  <1> QED
    BY <1>1, CalmHolds, PTL

\* Whatever a server has in its log, send_response has passed to its clients or will.
THEOREM ClientsAreTold == ASSUME InitialBoards = Board PROVE CalmSpec => []ClientsTold
PROOF
  <1>1. CalmStateInv => ClientsTold
    BY DEF CalmStateInv, Told, ClientsTold, Carried, Positions
  <1> QED
    BY <1>1, CalmHolds, PTL

LEMMA VectorStep ==
  ASSUME CoreStateInv, NoBoardCreated', [CalmNext]_vars, NEW s \in Server, NEW o \in Server
  PROVE  server_lts'[s][o] >= server_lts[s][o]
PROOF
  <1>0. TypeOK /\ ControlInv /\ Components /\ Undisturbed /\ server_lts[s][o] \in Nat
    BY KnownFacts DEF CoreStateInv, TypeInv, CoreInv, ControlInv
  <1>1. UNCHANGED clockVars => server_lts'[s][o] >= server_lts[s][o]
    BY <1>0 DEF clockVars
  <1>2. ASSUME NEW r \in Server, ServerStep(r) PROVE server_lts'[s][o] >= server_lts[s][o]
    <2>1. CASE RecvUpdate(r) \/ RecvSyncUpdate(r)
      <3>1. server_lts[s][o] <= server_lts'[s][o]
        BY <2>1, ReadHas
      <3> QED
        BY <3>1
    <2>2. CASE RecvMembership(r) \/ RecvVector(r) \/ RecvSyncEnd(r) \/ SendSyncEnd(r) \/ SendUpdate(r)
      BY <1>0, <1>1, <2>2, QuietSteps DEF SendUpdate
    <2>3. CASE Drain(r)
      BY <1>0, <2>3 DEF Drain, Undisturbed
    <2> QED
      BY <1>2, <2>1, <2>2, <2>3 DEF ServerStep
  <1>3. ASSUME NEW r \in Server, QuietClients(r), NEW q \in ClientRequests, ClientRequest(r, q)
        PROVE  server_lts'[s][o] >= server_lts[s][o]
    <2>1. UNCHANGED clockVars \/ Posts(r, q)
      BY <1>3, RequestEffect
    <2>2. CASE Posts(r, q)
      <3>1. server_lts[s][o] <= server_lts'[s][o]
        BY <1>0, <2>2, TakesEffect DEF Posts
      <3> QED
        BY <3>1
    <2> QED
      BY <1>1, <2>1, <2>2
  <1>4. CASE Partitioning
    BY <1>0, <1>1, <1>4, PartitionShape DEF Repartitioned
  <1>5. CASE UNCHANGED vars
    BY <1>1, <1>5 DEF vars
  <1> QED
    BY <1>2, <1>3, <1>4, <1>5 DEF CalmNext, Requesting

\* apply_update never puts an older timestamp in the place of a later one.
THEOREM VectorsAdvance == ASSUME InitialBoards = Board PROVE CalmSpec => VectorAdvances
PROOF
  <1>1. CalmStateInv /\ [CalmNext]_vars =>
          [\A s, o \in Server : server_lts'[s][o] >= server_lts[s][o]]_vars
    BY NoneCreated, VectorStep DEF CalmStateInv
  <1> QED
    BY <1>1, CalmHolds, PTL DEF CalmSpec, VectorAdvances

\* The calm replication implements OriginOrder: with all its vectors, elections and
\* partitions, what apply_update and write_log bring into the logs are the updates of
\* each originator, the next one each time and each of them once.
THEOREM OriginOrderIsKept == ASSUME InitialBoards = Board PROVE CalmSpec => OriginOrderKept
PROOF
  <1>1. Init => Abstract!Init
    BY SequenceInit
  <1>2. CalmStateInv /\ [CalmNext]_vars =>
          [Abstract!Next]_[s \in Server |-> [o \in Server |-> OfOriginator(log[s], o)]]
    BY NoneCreated, SequenceStep DEF CalmStateInv
  <1> QED
    BY <1>1, <1>2, CalmHolds, PTL DEF CalmSpec, OriginOrderKept, Abstract!Spec
================================================================================
