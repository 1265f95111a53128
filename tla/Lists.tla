--------------------------------- MODULE Lists ---------------------------------
(***************************************************************************)
(* What the linked lists of the server and of the client promise: lists of *)
(* nodes, each node on one list at most.  Rings implements it.             *)
(***************************************************************************)
EXTENDS Naturals, SequencesExt

CONSTANTS
  Node,    \* nodes, named by obj_id and server_index: 21 is object 2 of server 1
  Ring,    \* the lists of nodes in the order of their arrival
  Sorted   \* the lists of nodes in the order of their keys

VARIABLE lists

Init == lists = [r \in Ring \cup Sorted |-> <<>>]

Free(n) == \A r \in Ring \cup Sorted : n \notin ToSet(lists[r])

Append1(r, n) ==
  Free(n) /\ lists' = [lists EXCEPT ![r] = Append(@, n)]

TakeOff(r, n) ==
  n \in ToSet(lists[r]) /\ lists' = [lists EXCEPT ![r] = RemoveFirst(@, n)]

Move(r, t, n) ==
  /\ r # t /\ n \in ToSet(lists[r])
  /\ lists' = [lists EXCEPT ![r] = RemoveFirst(@, n), ![t] = Append(@, n)]

Ascending(q) == \A i \in DOMAIN q : \A j \in DOMAIN q : i < j => q[i] < q[j]

\* There is one list of the nodes in S in the order of their keys.
Insert(r, n) ==
  /\ Free(n)
  /\ lists' = [lists EXCEPT ![r] = lists'[r]]
  /\ lists'[r] \in Seq(Node) /\ Ascending(lists'[r])
  /\ ToSet(lists'[r]) = ToSet(lists[r]) \cup {n}

Clear(r) == lists' = [lists EXCEPT ![r] = <<>>]

Next ==
  \/ \E r \in Ring, n \in Node : Append1(r, n) \/ \E t \in Ring : Move(r, t, n)
  \/ \E r \in Ring \cup Sorted, n \in Node : TakeOff(r, n)
  \/ \E r \in Sorted : Clear(r) \/ \E n \in Node : Insert(r, n)

Spec == Init /\ [][Next]_lists
================================================================================
