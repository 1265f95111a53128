------------------------------ MODULE OriginOrder ------------------------------
(***************************************************************************)
(* What the replication promises, without vectors, logs or partitions:     *)
(* the updates of one server reach every other server in the order their   *)
(* originator made them, without gap and without repetition.  A server     *)
(* may learn the next update of an originator from any server that has it. *)
(***************************************************************************)
EXTENDS Naturals, Sequences

CONSTANT Server

VARIABLE known   \* known[s][o]: the updates of originator o that server s has

Init == known = [s \in Server |-> [o \in Server |-> <<>>]]

\* Server o makes an update, whatever it is: it comes last at o and nowhere else.
Originate(o) ==
  /\ Len(known'[o][o]) = Len(known[o][o]) + 1
  /\ known' = [known EXCEPT ![o][o] = Append(@, known'[o][o][Len(@) + 1])]

\* Server s learns the next update of originator o from server t.
Learn(s, t, o) ==
  /\ Len(known[s][o]) < Len(known[t][o])
  /\ known' = [known EXCEPT ![s][o] = Append(@, known[t][o][Len(@) + 1])]

Next ==
  \/ \E o \in Server : Originate(o)
  \/ \E s, t, o \in Server : Learn(s, t, o)

Spec == Init /\ [][Next]_known
================================================================================
