--------------------------------- MODULE Rings ---------------------------------
(***************************************************************************)
(* The linked lists, pointer by pointer: rings of nodes with a pointer to  *)
(* the first.  list.c keeps the clients and the boards of a server, queue.c *)
(* the buffered requests, object_list.c of the client the objects it shows *)
(* in the order of their keys.  join_db moves the node of a client from    *)
(* one ring to another.                                                    *)
(***************************************************************************)
EXTENDS Naturals, FiniteSets, SequencesExt

CONSTANTS
  Node,      \* nodes, named by obj_id and server_index: 21 is object 2 of server 1
  Clients,   \* the rings of list.c: client_list_head, and cl_head of each board
  Queue,     \* the ring of queue.c
  Objects    \* the ring of object_list.c

Ring == Clients \cup {Queue, Objects}
Null == 0

ASSUME RingAssumption == Queue \notin Clients /\ Objects \notin Clients \cup {Queue}
ASSUME NodeAssumption == Node \subseteq Nat \ {Null} /\ IsFiniteSet(Node)

VARIABLES head, next, prev

vars == <<head, next, prev>>
Links == [head |-> head, next |-> next, prev |-> prev]

Init ==
  /\ head = [r \in Ring |-> Null]
  /\ next = [n \in Node |-> Null]
  /\ prev = [n \in Node |-> Null]

--------------------------------------------------------------------------------
(* Going round a ring *)

\* Where a loop of the code is after so many steps from the head of a ring.
Steps(L, r) ==
  LET from[i \in 0 .. Cardinality(Node)] ==
        IF i = 0 THEN L.head[r] ELSE L.next[from[i - 1]]
  IN from

\* The nodes of a ring from its head on, as the loops of the code come by them:
\* they stop when they are at the head again.  Of a ring that does not lead back
\* to its head these are more nodes than there are.
Visited(L, r) ==
  LET from == Steps(L, r)
      back == {i \in 1 .. Cardinality(Node) : from[i] = L.head[r]}
                \cup {Cardinality(Node) + 1}
  IN IF L.head[r] = Null THEN <<>>
     ELSE [i \in 1 .. Min(back) |-> from[i - 1]]

Free(n) == \A r \in Ring : n \notin ToSet(Visited(Links, r))

--------------------------------------------------------------------------------
(* The operations, on the links L *)

\* Node n between c and the node before c.
Before(L, c, n) ==
  [L EXCEPT !.next = [@ EXCEPT ![n] = c, ![L.prev[c]] = n],
            !.prev = [@ EXCEPT ![n] = L.prev[c], ![c] = n]]

\* Node n alone on ring r.
Alone(L, r, n) ==
  [L EXCEPT !.head[r] = n, !.next[n] = n, !.prev[n] = n]

\* add, enqueueReq and append: before the head, which is the end.
Added(L, r, n) ==
  IF L.head[r] = Null THEN Alone(L, r, n) ELSE Before(L, L.head[r], n)

\* Mutant of Removed: the head stays where it is.
RemovedBehind(L, r, n) ==
  IF L.next[n] = n THEN [L EXCEPT !.head[r] = Null]
  ELSE [L EXCEPT !.next[L.prev[n]] = L.next[n], !.prev[L.next[n]] = L.prev[n]]

\* rem and del.
Removed(L, r, n) ==
  IF L.head[r] = n /\ L.next[n] = n THEN [L EXCEPT !.head[r] = Null]
  ELSE [L EXCEPT !.head[r] = IF @ = n THEN L.next[n] ELSE @,
                 !.next[L.prev[n]] = L.next[n],
                 !.prev[L.next[n]] = L.prev[n]]

\* Mutant of Dequeued: the last request keeps the first as its next.
DequeuedHalf(L) ==
  LET first == L.head[Queue]
      top == L.next[first]
  IN IF top = first THEN [L EXCEPT !.head[Queue] = Null]
     ELSE [L EXCEPT !.head[Queue] = top, !.prev[top] = L.prev[first]]

\* dequeueReq.
Dequeued(L) ==
  LET first == L.head[Queue]
      top == L.next[first]
      two == [L.next EXCEPT ![top] = IF @ = first THEN top ELSE @]
  IN IF top = first THEN [L EXCEPT !.head[Queue] = Null]
     ELSE [L EXCEPT !.head[Queue] = top,
                    !.next = [two EXCEPT ![L.prev[first]] = top],
                    !.prev[top] = L.prev[first]]

obj_id(n) == n \div 10
server_index(n) == n % 10

\* Mutant of Passes: the server index is not looked at.
PassesObject(c, n) == obj_id(c) <= obj_id(n)

\* insert goes past the node c to find the place of node n.
Passes(c, n) ==
  \/ obj_id(c) < obj_id(n)
  \/ obj_id(c) = obj_id(n) /\ server_index(c) <= server_index(n)

\* Mutant of Inserted: the head stays where it is.
InsertedBehind(L, r, n) ==
  LET ring == Visited(L, r)
      stops == {i \in DOMAIN ring : ~ Passes(ring[i], n)}
  IN IF stops = {} THEN Added(L, r, n) ELSE Before(L, ring[Min(stops)], n)

\* insert: before the first node it does not pass, or at the end.
Inserted(L, r, n) ==
  LET ring == Visited(L, r)
      stops == {i \in DOMAIN ring : ~ Passes(ring[i], n)}
  IN IF stops = {} THEN Added(L, r, n)
     ELSE LET c == ring[Min(stops)] IN
            [Before(L, c, n) EXCEPT !.head[r] = IF c = L.head[r] THEN n ELSE @]

\* re_init_list: the head is deleted until there is none.
Cleared(L, r) ==
  LET n == Len(Visited(L, r))
      left[i \in 0 .. n] ==
        IF i = 0 THEN L ELSE Removed(left[i - 1], r, left[i - 1].head[r])
  IN left[n]

--------------------------------------------------------------------------------
(* What the programs do with them *)

Becomes(L) == head' = L.head /\ next' = L.next /\ prev' = L.prev

\* put_on_client_list, handle_client_req during a synchronisation.
Add(r, n) == Free(n) /\ Becomes(Added(Links, r, n))

\* remove_client, and a deleted object.
Unlink(r, n) == n \in ToSet(Visited(Links, r)) /\ Becomes(Removed(Links, r, n))

\* join_db.
Switch(r, t, n) ==
  /\ r # t /\ n \in ToSet(Visited(Links, r))
  /\ Becomes(Added(Removed(Links, r, n), t, n))

\* process_syncEnd.
Dequeue == head[Queue] # Null /\ Becomes(Dequeued(Links))

\* A response with an object that is not on the list.  Of one that is the text is
\* replaced and the links stay.
Insert(n) == Free(n) /\ Becomes(Inserted(Links, Objects, n))

\* A client that joins a board or loses its server.
Clear == Becomes(Cleared(Links, Objects))

Next ==
  \/ \E r \in Clients \cup {Queue}, n \in Node : Add(r, n)
  \/ \E r \in Clients \cup {Objects}, n \in Node : Unlink(r, n)
  \/ \E r, t \in Clients, n \in Node : Switch(r, t, n)
  \/ Dequeue \/ Clear \/ \E n \in Node : Insert(n)

Spec == Init /\ [][Next]_vars

--------------------------------------------------------------------------------
(* Properties *)

\* Every ring closes in both directions and its head is on it; the loops of the
\* code that wait to be at the head again end.  Going back gives the same nodes.
RingsClose ==
  \A r \in Ring :
    head[r] # Null =>
      LET ring == Visited(Links, r) IN
        /\ IsInjective(ring)
        /\ \A i \in DOMAIN ring :
             prev[ring[i]] = ring[IF i = 1 THEN Len(ring) ELSE i - 1]

\* No node is on two rings: the node that join_db moves to another list has left the old
\* one, and the loop over a list never runs on into another.
OneRing ==
  \A r, t \in Ring : r # t => ToSet(Visited(Links, r)) \cap ToSet(Visited(Links, t)) = {}

\* Ring r holds the nodes of q, linked in its order: each node has the node after it
\* as its next, the last one the head, and each the node before it as its prev.
Closes(L, r, q) ==
  /\ q \in Seq(Node) /\ IsInjective(q)
  /\ L.head[r] = IF q = <<>> THEN Null ELSE q[1]
  /\ \A i \in 1 .. Len(q) :
       /\ L.next[q[i]] = q[IF i = Len(q) THEN 1 ELSE i + 1]
       /\ L.prev[q[i]] = q[IF i = 1 THEN Len(q) ELSE i - 1]

Ascending(q) == \A i \in DOMAIN q : \A j \in DOMAIN q : i < j => q[i] < q[j]

LinksOK ==
  /\ head \in [Ring -> Node \cup {Null}]
  /\ next \in [Node -> Node \cup {Null}]
  /\ prev \in [Node -> Node \cup {Null}]

\* From any state with it each operation leads to one with it: the pointers have
\* their types, every ring closes in both directions, no node is on two rings, and
\* insert left the objects in the order of their keys, which its next search needs.
RingInv ==
  /\ LinksOK
  /\ \A r \in Ring : Closes(Links, r, Visited(Links, r))
  /\ OneRing
  /\ Ascending(Visited(Links, Objects))

\* The rings are the lists they stand for: the order of arrival is kept, which
\* replays requests in the order they came, and objects are in the order of
\* their keys, without repetition, on every client.
Abstract == INSTANCE Lists WITH
  Ring <- Clients \cup {Queue}, Sorted <- {Objects},
  lists <- [r \in Ring |-> Visited(Links, r)]
ImplementsLists == Abstract!Spec
================================================================================
