-------------------------------- MODULE SyncJob --------------------------------
(***************************************************************************)
(* Who sends which missing updates when a partition heals.                 *)
(*                                                                         *)
(* Every server of the new membership multicasts its vector: for each      *)
(* server of the system, the Lamport timestamp of the last update of that  *)
(* server it applied.  When a server has all the vectors it elects, column *)
(* by column, the server that will resend the updates of that column       *)
(* (find_max_min, find_my_job, send_updates, send_server_updates of        *)
(* server/sync.c).  Nothing is exchanged to agree on the election: it has  *)
(* to come out the same everywhere, as a function of the vectors.          *)
(*                                                                         *)
(* A summary is the matrix of the vectors received: a function from the    *)
(* servers in the view (the rows server_view marks) to their vectors.      *)
(***************************************************************************)
EXTENDS Integers

CONSTANTS
  N,        \* NUM_OF_SERVERS, 5 in the code
  MinSeed   \* the start value of the search for a minimum, 1000000 in the code

ASSUME NAssumption == N \in Nat \ {0}
ASSUME MinSeedAssumption == MinSeed \in Nat

Server == 1 .. N
Vector == [Server -> Nat]
IsSummary(m) == DOMAIN m \subseteq Server /\ m \in [DOMAIN m -> Vector]

Column(summary, c) == {summary[s][c] : s \in DOMAIN summary}

\* tmp_max: it starts at 0, and only a larger value replaces it.
MaxLts(summary, c) ==
  IF \E v \in Column(summary, c) : v > 0
    THEN CHOOSE v \in Column(summary, c) : \A w \in Column(summary, c) : w <= v
    ELSE 0

\* tmp_min: it starts at MinSeed, and only a smaller value replaces it.
MinLts(summary, c) ==
  IF \E v \in Column(summary, c) : v < MinSeed
    THEN CHOOSE v \in Column(summary, c) : \A w \in Column(summary, c) : v <= w
    ELSE MinSeed

Holders(summary, c) ==
  {s \in DOMAIN summary : summary[s][c] = MaxLts(summary, c)}

\* Mutant of Sender: the search never moves from its start value.
AlwaysFirst(summary, c) == 1

\* tmp_mach_id: the first row that reaches the maximum, and 1 if none is above 0.
Sender(summary, c) ==
  IF MaxLts(summary, c) = 0
    THEN 1
    ELSE CHOOSE s \in Holders(summary, c) : \A t \in Holders(summary, c) : s <= t

\* Mutant of ShouldSend: it yields to later columns too.
YieldToAny(summary, c) ==
  \A j \in Server : j # c => MaxLts(summary, j) # MaxLts(summary, c)

\* The elected sender skips a column if an earlier one has the same maximum.
ShouldSend(summary, c) ==
  \A j \in 1 .. (c - 1) : MaxLts(summary, j) # MaxLts(summary, c)

\* Mutant of Wanted: off by one at the lower end.
SkipFirst(summary, c) == (MinLts(summary, c) + 2) .. MaxLts(summary, c)

\* The timestamps the sender of column c looks up in its log.
Wanted(summary, c) == (MinLts(summary, c) + 1) .. MaxLts(summary, c)

ColumnJob(me, summary, c) ==
  IF Sender(summary, c) = me /\ ShouldSend(summary, c)
    THEN {<<c, l>> : l \in Wanted(summary, c)}
    ELSE {}

\* All that server me looks up and sends, as pairs <<column, timestamp>>.
Job(me, summary) == UNION {ColumnJob(me, summary, c) : c \in Server}

\* Column c is not sent although some server of the view lacks a part of it.
TiedOut(summary, c) ==
  Wanted(summary, c) # {} /\ ~ ShouldSend(summary, c)

\* Mutant of Before: a column is sent from its last timestamp down.
Backwards(p, q) == p[1] < q[1] \/ (p[1] = q[1] /\ p[2] >= q[2])

\* The order in which the two loops go through a job.
Before(p, q) == p[1] < q[1] \/ (p[1] = q[1] /\ p[2] <= q[2])
First(job) == CHOOSE p \in job : \A q \in job : Before(p, q)

--------------------------------------------------------------------------------
(* Properties of a summary m *)

\* A server is elected only for updates its own vector claims: what it looks up
\* for a column is never later than its own entry.
SenderHolds(m) ==
  \A s \in DOMAIN m : \A p \in Job(s, m) : p[2] <= m[s][p[1]]

\* Every update some server of the view lacks and another has is sent by a member
\* of the view, unless an earlier column has the same maximum.
MissingSent(m) ==
  \A c \in Server : (\A j \in 1 .. (c - 1) : MaxLts(m, j) # MaxLts(m, c)) =>
    \A r \in DOMAIN m : \A l \in (m[r][c] + 1) .. MaxLts(m, c) :
      \E s \in DOMAIN m : <<c, l>> \in Job(s, m)
================================================================================
