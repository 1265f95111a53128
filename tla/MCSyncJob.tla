------------------------------- MODULE MCSyncJob -------------------------------
(***************************************************************************)
(* All summaries with small timestamps: the vectors come in one by one, in *)
(* any order, from any of the servers.                                     *)
(***************************************************************************)
EXTENDS SyncJob

CONSTANT MaxTimestamp   \* bound: the largest entry of a vector

ASSUME MaxTimestampAssumption == MaxTimestamp \in Nat

VARIABLE rows

NoRow == [s \in {} |-> [c \in Server |-> 0]]

Init == rows = NoRow

Arrive(s, v) ==
  /\ s \notin DOMAIN rows
  /\ rows' = [t \in DOMAIN rows \cup {s} |-> IF t = s THEN v ELSE rows[t]]

Next == \E s \in Server : \E v \in [Server -> 0 .. MaxTimestamp] : Arrive(s, v)

Spec == Init /\ [][Next]_rows

\* SenderHolds and MissingSent of the vectors that have come in.
ArrivedSenderHolds == SenderHolds(rows)
ArrivedMissingSent == MissingSent(rows)
================================================================================
