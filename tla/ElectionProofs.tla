----------------------------- MODULE ElectionProofs -----------------------------
(***************************************************************************)
(* The election while the vectors come in, for any number of servers and   *)
(* any bound on the entries.                                               *)
(***************************************************************************)
EXTENDS MCSyncJob, SyncJobProofs

LEMMA ArrivedIsSummary == Spec => []IsSummary(rows)
PROOF
  <1> DEFINE Arrives(s, v) == rows' = [t \in DOMAIN rows \cup {s} |-> IF t = s THEN v ELSE rows[t]]
  <1>1. Init => IsSummary(rows)
    BY DEF Init, NoRow, IsSummary
  <1>2. IsSummary(rows) /\ [Next]_rows => IsSummary(rows)'
    <2>1. ASSUME IsSummary(rows), NEW s \in Server, NEW v \in [Server -> 0 .. MaxTimestamp],
                 Arrives(s, v)
          PROVE  IsSummary(rows)'
      BY <2>1, MaxTimestampAssumption DEF IsSummary, Vector
    <2>2. Next => \E s \in Server : \E v \in [Server -> 0 .. MaxTimestamp] : Arrives(s, v)
      BY DEF Next, Arrive
    <2>3. IsSummary(rows) /\ UNCHANGED rows => IsSummary(rows)'
      BY DEF IsSummary
    <2> HIDE DEF Arrives
    <2> QED
      BY <2>1, <2>2, <2>3
  <1> QED
    BY <1>1, <1>2, PTL DEF Spec

\* In whatever order process_vector gets the vectors, and however large their entries
\* are, who is elected for a column has what it will look up in its log.
THEOREM ArrivedSendersHold == Spec => []ArrivedSenderHolds
PROOF
  <1>1. IsSummary(rows) => ArrivedSenderHolds
    BY SenderHasWhatItSends DEF ArrivedSenderHolds
  <1> QED
    BY <1>1, ArrivedIsSummary, PTL

\* ... and what one of the senders lacks and another has is in the job of one of them,
\* unless send_updates skips the column.
THEOREM ArrivedMissingAreSent == Spec => []ArrivedMissingSent
PROOF
  <1>1. IsSummary(rows) => ArrivedMissingSent
    BY MissingUpdatesAreSent DEF ArrivedMissingSent
  <1> QED
    BY <1>1, ArrivedIsSummary, PTL
================================================================================
