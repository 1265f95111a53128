----------------------------- MODULE SyncJobProofs -----------------------------
(***************************************************************************)
(* The election of the senders, for any number of servers, any vectors and *)
(* any start value of the search for the minimum: what a server is asked   *)
(* to send its own vector claims, and only a column whose maximum an       *)
(* earlier column has can be left unsent.                                  *)
(*                                                                         *)
(* The work is to show that the minimum and the maximum the loops of       *)
(* find_max_min look for exist.  The maximum needs the view to be finite:  *)
(* the bound is built up row by row, as the loop does, by taking the least *)
(* prefix of the rows that would have none.                                *)
(***************************************************************************)
EXTENDS SyncJob, WellFoundedInduction, TLAPS

\* Least number principle, for sets: a set of naturals has a least element.
LEMMA LeastNatural ==
  ASSUME NEW S, S \subseteq Nat, S # {}
  PROVE  \E n \in S : \A m \in S : n <= m
PROOF
  <1>1. PICK n \in S : \A m \in S : ~ (<<m, n>> \in OpToRel(<, Nat))
    BY WFMin, NatLessThanWellFounded
  <1>2. n \in Nat
    OBVIOUS
  <1>3. ASSUME NEW m \in S PROVE n <= m
    <2>1. m \in Nat /\ ~ (m < n)
      BY <1>1, <1>2 DEF OpToRel
    <2> QED
      BY <2>1, <1>2
  <1> QED
    BY <1>3

\* The entries of the rows with a number up to any n are bounded.
LEMMA PrefixBounded ==
  ASSUME NEW m, IsSummary(m), NEW c \in Server, NEW n \in Nat
  PROVE  \E b \in Nat : \A s \in DOMAIN m : s <= n => m[s][c] <= b
PROOF
  <1> DEFINE Bounded(k, b) == \A s \in DOMAIN m : s <= k => m[s][c] <= b
             Bad == {k \in Nat : ~ \E b \in Nat : Bounded(k, b)}
  <1>0. \A s \in DOMAIN m : s \in Nat /\ s > 0 /\ m[s][c] \in Nat
    BY NAssumption DEF IsSummary, Vector, Server
  <1>1. SUFFICES ASSUME Bad # {} PROVE FALSE
    OBVIOUS
  <1>2. PICK k \in Bad : \A j \in Bad : k <= j
    BY <1>1, LeastNatural, Bad \subseteq Nat
  <1>3. k # 0
    <2>1. Bounded(0, 0)
      BY <1>0
    <2> QED
      BY <2>1, <1>2
  <1>4. k - 1 \in Nat /\ k - 1 \notin Bad
    BY <1>2, <1>3
  <1>5. PICK b \in Nat : Bounded(k - 1, b)
    BY <1>4
  <1>6. CASE k \in DOMAIN m
    <2> DEFINE d == IF m[k][c] > b THEN m[k][c] ELSE b
    <2>1. d \in Nat /\ m[k][c] <= d /\ b <= d
      BY <1>0, <1>6
    <2>2. ASSUME NEW s \in DOMAIN m, s <= k PROVE m[s][c] <= d
      <3>1. CASE s = k
        BY <3>1, <2>1
      <3>2. CASE s # k
        <4>1. s <= k - 1
          BY <3>2, <2>2, <1>0, <1>4
        <4>2. m[s][c] <= b /\ m[s][c] \in Nat
          BY <4>1, <1>5, <1>0
        <4> QED
          BY <4>2, <2>1
      <3> QED
        BY <3>1, <3>2
    <2>3. Bounded(k, d)
      BY <2>2
    <2> QED
      BY <2>1, <2>3, <1>2
  <1>7. CASE k \notin DOMAIN m
    <2>1. ASSUME NEW s \in DOMAIN m, s <= k PROVE m[s][c] <= b
      <3>1. s <= k - 1
        BY <2>1, <1>7, <1>0, <1>4
      <3> QED
        BY <3>1, <1>5
    <2>2. Bounded(k, b)
      BY <2>1
    <2> QED
      BY <2>2, <1>2
  <1> QED
    BY <1>6, <1>7

\* A column with an entry has a greatest one.
LEMMA ColumnMaximum ==
  ASSUME NEW m, IsSummary(m), NEW c \in Server, Column(m, c) # {}
  PROVE  \E v \in Column(m, c) : \A w \in Column(m, c) : w <= v
PROOF
  <1>0. Column(m, c) \subseteq Nat
    BY DEF Column, IsSummary, Vector
  <1>1. PICK b \in Nat : \A s \in DOMAIN m : s <= N => m[s][c] <= b
    BY PrefixBounded, NAssumption
  <1>2. \A v \in Column(m, c) : v <= b
    BY <1>1, NAssumption DEF Column, IsSummary, Server
  <1> DEFINE Gaps == {b - v : v \in Column(m, c)}
  <1>3. Gaps \subseteq Nat /\ Gaps # {}
    BY <1>0, <1>2
  <1> HIDE DEF Gaps
  <1>4. PICK g \in Gaps : \A h \in Gaps : g <= h
    BY <1>3, LeastNatural
  <1>5. PICK v \in Column(m, c) : g = b - v
    BY <1>4 DEF Gaps
  <1>6. ASSUME NEW w \in Column(m, c) PROVE w <= v
    <2>1. b - v <= b - w
      BY <1>4, <1>5 DEF Gaps
    <2> QED
      BY <2>1, <1>0
  <1> QED
    BY <1>5, <1>6

\* MaxLts is a natural, no entry is above it, and a row has it unless it is 0.
LEMMA MaxLtsProperties ==
  ASSUME NEW m, IsSummary(m), NEW c \in Server
  PROVE  /\ MaxLts(m, c) \in Nat
         /\ \A s \in DOMAIN m : m[s][c] <= MaxLts(m, c)
         /\ MaxLts(m, c) > 0 => \E s \in DOMAIN m : m[s][c] = MaxLts(m, c)
PROOF
  <1>0. /\ Column(m, c) \subseteq Nat
        /\ \A s \in DOMAIN m : m[s][c] \in Column(m, c)
    BY DEF Column, IsSummary, Vector
  <1>1. CASE \E v \in Column(m, c) : v > 0
    <2> DEFINE v == MaxLts(m, c)
    <2>1. \E x \in Column(m, c) : \A w \in Column(m, c) : w <= x
      BY <1>1, ColumnMaximum
    <2>2. v \in Column(m, c) /\ \A w \in Column(m, c) : w <= v
      BY <1>1, <2>1 DEF MaxLts
    <2> QED
      BY <1>0, <2>2 DEF Column
  <1>2. CASE ~ \E v \in Column(m, c) : v > 0
    <2>1. MaxLts(m, c) = 0
      BY <1>2 DEF MaxLts
    <2> QED
      BY <1>0, <1>2, <2>1
  <1> QED
    BY <1>1, <1>2

\* MinLts is a natural and no entry is below it.
LEMMA MinLtsProperties ==
  ASSUME NEW m, IsSummary(m), NEW c \in Server
  PROVE  /\ MinLts(m, c) \in Nat
         /\ \A s \in DOMAIN m : MinLts(m, c) <= m[s][c]
PROOF
  <1>0. /\ Column(m, c) \subseteq Nat
        /\ \A s \in DOMAIN m : m[s][c] \in Column(m, c)
    BY DEF Column, IsSummary, Vector
  <1>1. CASE \E v \in Column(m, c) : v < MinSeed
    <2>1. \E x \in Column(m, c) : \A w \in Column(m, c) : x <= w
      BY <1>0, <1>1, LeastNatural
    <2>2. /\ MinLts(m, c) \in Column(m, c)
          /\ \A w \in Column(m, c) : MinLts(m, c) <= w
      BY <1>1, <2>1 DEF MinLts
    <2> QED
      BY <1>0, <2>2
  <1>2. CASE ~ \E v \in Column(m, c) : v < MinSeed
    <2>1. MinLts(m, c) = MinSeed
      BY <1>2 DEF MinLts
    <2> QED
      BY <1>0, <1>2, <2>1, MinSeedAssumption
  <1> QED
    BY <1>1, <1>2

\* The sender of a column with a positive maximum is in the view and has it.
LEMMA SenderProperties ==
  ASSUME NEW m, IsSummary(m), NEW c \in Server, MaxLts(m, c) > 0
  PROVE  Sender(m, c) \in DOMAIN m /\ m[Sender(m, c)][c] = MaxLts(m, c)
PROOF
  <1>1. Holders(m, c) # {}
    BY MaxLtsProperties DEF Holders
  <1>2. Holders(m, c) \subseteq Nat
    BY NAssumption DEF Holders, IsSummary, Server
  <1>3. \E s \in Holders(m, c) : \A t \in Holders(m, c) : s <= t
    BY <1>1, <1>2, LeastNatural
  <1>4. MaxLts(m, c) # 0
    BY MaxLtsProperties
  <1>5. Sender(m, c) \in Holders(m, c)
    BY <1>3, <1>4 DEF Sender
  <1> QED
    BY <1>5 DEF Holders

\* A job is a set of pairs of a server and a timestamp.
LEMMA JobType ==
  ASSUME NEW m, IsSummary(m), NEW me \in Server
  PROVE  Job(me, m) \subseteq Server \X Nat
PROOF
  <1>1. ASSUME NEW c \in Server PROVE Wanted(m, c) \subseteq Nat
    BY MinLtsProperties, MaxLtsProperties DEF Wanted
  <1> QED
    BY <1>1 DEF Job, ColumnJob

\* A server is asked only for what its own vector claims to have
\* (find_my_job names the first row with the maximum of the column).
THEOREM SenderHasWhatItSends ==
  \A m : IsSummary(m) => SenderHolds(m)
PROOF
  <1> SUFFICES ASSUME NEW m, IsSummary(m), NEW s \in DOMAIN m, NEW p \in Job(s, m)
               PROVE  p[2] <= m[s][p[1]]
    BY DEF SenderHolds
  <1>1. PICK c \in Server : p \in ColumnJob(s, m, c)
    BY DEF Job
  <1>2. PICK l \in Wanted(m, c) : p = <<c, l>> /\ Sender(m, c) = s
    BY <1>1 DEF ColumnJob
  <1>3. l \in Nat /\ l > 0 /\ l <= MaxLts(m, c) /\ MaxLts(m, c) \in Nat
    BY <1>2, MinLtsProperties, MaxLtsProperties DEF Wanted
  <1>4. m[s][c] = MaxLts(m, c)
    BY <1>2, <1>3, SenderProperties
  <1> QED
    BY <1>2, <1>3, <1>4

\* Whatever a member of the view lacks and another has is sent, by a member of the
\* view, if no earlier column has the same maximum (send_updates skips those).
THEOREM MissingUpdatesAreSent ==
  \A m : IsSummary(m) => MissingSent(m)
PROOF
  <1> SUFFICES ASSUME NEW m, IsSummary(m), NEW c \in Server,
                      \A j \in 1 .. (c - 1) : MaxLts(m, j) # MaxLts(m, c),
                      NEW r \in DOMAIN m, NEW l \in (m[r][c] + 1) .. MaxLts(m, c)
               PROVE  \E s \in DOMAIN m : <<c, l>> \in Job(s, m)
    BY DEF MissingSent
  <1>1. m[r][c] \in Nat
    BY DEF IsSummary, Vector
  <1>2. /\ MaxLts(m, c) \in Nat /\ MaxLts(m, c) > 0
        /\ l \in Nat /\ l <= MaxLts(m, c) /\ l > m[r][c]
    BY <1>1, MaxLtsProperties
  <1>3. l \in Wanted(m, c)
    BY <1>1, <1>2, MinLtsProperties DEF Wanted
  <1>4. Sender(m, c) \in DOMAIN m
    BY <1>2, SenderProperties
  <1>5. <<c, l>> \in ColumnJob(Sender(m, c), m, c)
    BY <1>3 DEF ColumnJob, ShouldSend
  <1> QED
    BY <1>4, <1>5 DEF Job

================================================================================
