------------------------------- MODULE RingProofs -------------------------------
(***************************************************************************)
(* The rings, for any set of nodes and any number of lists of clients: the *)
(* pointers close every ring, no node is on two, and the rings are the     *)
(* lists of Lists.                                                         *)
(*                                                                         *)
(* First what the loops and the operations do with a ring that closes:     *)
(* each makes of the nodes of a sequence q those of another sequence.      *)
(* Then a lemma for each action, and the theorems.                         *)
(***************************************************************************)
EXTENDS Rings, FiniteSetTheorems, SequenceTheorems, WellFoundedInduction, TLAPS

--------------------------------------------------------------------------------
(* Going round a ring *)

\* Least number principle.
LEMMA LeastNatural ==
  ASSUME NEW S, S \subseteq Nat, S # {}
  PROVE  \E n \in S : \A m \in S : n <= m
PROOF
  <1>1. PICK n \in S : \A m \in S : ~ (<<m, n>> \in OpToRel(<, Nat))
    BY WFMin, NatLessThanWellFounded
  <1>2. ASSUME NEW m \in S PROVE n <= m
    BY <1>1, m \in Nat, n \in Nat, ~ (<<m, n>> \in OpToRel(<, Nat)) DEF OpToRel
  <1> QED
    BY <1>2

LEMMA MinIs ==
  ASSUME NEW S, S \subseteq Nat, NEW k \in S, \A m \in S : k <= m
  PROVE  Min(S) = k
PROOF
  <1>1. \A x \in S : (\A y \in S : x <= y) => x = k
    BY k \in Nat
  <1> QED
    BY <1>1 DEF Min

\* f walks n steps from x.
Walk(f, x, pointer, n) == f = [i \in 0 .. n |-> IF i = 0 THEN x ELSE pointer[f[i - 1]]]

\* There is such a walk, whatever the pointers are.
LEMMA WalkExists ==
  ASSUME NEW x, NEW pointer, NEW n \in Nat
  PROVE  \E f : Walk(f, x, pointer, n)
PROOF
  <1> DEFINE Fails == {m \in Nat : ~ \E f : Walk(f, x, pointer, m)}
  <1>1. SUFFICES ASSUME Fails # {} PROVE FALSE
    OBVIOUS
  <1> HIDE DEF Fails
  <1>0. Fails \subseteq Nat
    BY DEF Fails
  <1>2. PICK m \in Fails : \A k \in Fails : m <= k
    BY <1>0, <1>1, LeastNatural
  <1>3. CASE m = 0
    <2>1. Walk([i \in 0 .. 0 |-> x], x, pointer, 0)
      BY DEF Walk
    <2> QED
      BY <2>1, <1>3 DEF Fails
  <1>4. CASE m # 0
    <2>1. m \in Nat /\ m - 1 \in Nat /\ m - 1 \notin Fails
      BY <1>0, <1>2, <1>4
    <2>2. PICK f : Walk(f, x, pointer, m - 1)
      BY <2>1 DEF Fails
    <2> DEFINE g == [i \in 0 .. m |-> IF i = m THEN pointer[f[m - 1]] ELSE f[i]]
    <2>3. \A i \in 0 .. m - 1 : g[i] = f[i]
      BY <2>1
    <2>4. ASSUME NEW i \in 0 .. m
          PROVE  g[i] = IF i = 0 THEN x ELSE pointer[g[i - 1]]
      <3>1. CASE i = m
        BY <3>1, <2>3, <2>1, <1>4
      <3>2. CASE i # m
        <4>1. i \in 0 .. m - 1 /\ f[i] = IF i = 0 THEN x ELSE pointer[f[i - 1]]
          BY <2>2, <3>2, <2>1 DEF Walk
        <4>2. i # 0 => i - 1 \in 0 .. m - 1
          BY <4>1, <2>1
        <4> QED
          BY <4>1, <4>2, <2>3
      <3> QED
        BY <3>1, <3>2
    <2>5. Walk(g, x, pointer, m)
      BY <2>4, g = [i \in 0 .. m |-> g[i]] DEF Walk
    <2> QED
      BY <2>5, <1>2 DEF Fails
  <1> QED
    BY <1>3, <1>4

\* Each step follows a pointer.
LEMMA StepsFollow ==
  ASSUME NEW L, NEW r
  PROVE  /\ Steps(L, r)[0] = L.head[r]
         /\ \A i \in 1 .. Cardinality(Node) : Steps(L, r)[i] = L.next[Steps(L, r)[i - 1]]
PROOF
  <1> DEFINE n == Cardinality(Node)
  <1>1. n \in Nat
    BY NodeAssumption, FS_CardinalityType
  <1> DEFINE x == L.head[r]
             pointer == L.next
  <1>2. Steps(L, r) = CHOOSE f : Walk(f, x, pointer, n)
    BY DEF Steps, Walk
  <1> HIDE DEF x, pointer, n
  <1>3. \E f : Walk(f, x, pointer, n)
    BY <1>1, WalkExists
  <1> DEFINE from == Steps(L, r)
  <1>4. Walk(from, x, pointer, n)
    BY <1>2, <1>3, Zenon
  <1> HIDE DEF from
  <1>5. from[0] = x /\ \A i \in 1 .. n : from[i] = pointer[from[i - 1]]
    BY <1>4, <1>1 DEF Walk
  <1> QED
    BY <1>5 DEF from, n, x, pointer

\* A sequence of nodes without repetition is not longer than there are nodes.
LEMMA NoMoreThanNodes ==
  ASSUME NEW q \in Seq(Node), IsInjective(q)
  PROVE  Len(q) \in Nat /\ Cardinality(Node) \in Nat /\ Len(q) <= Cardinality(Node)
PROOF
  <1>1. Len(q) \in Nat /\ DOMAIN q = 1 .. Len(q) /\ q \in [1 .. Len(q) -> Node]
    OBVIOUS
  <1>2. q \in Injection(1 .. Len(q), Node)
    BY <1>1 DEF Injection
  <1>3. Cardinality(1 .. Len(q)) <= Cardinality(Node)
    BY <1>2, NodeAssumption, FS_Injection
  <1>4. Cardinality(1 .. Len(q)) = Len(q)
    BY <1>1, FS_Interval
  <1> QED
    BY <1>1, <1>3, <1>4, NodeAssumption, FS_CardinalityType

\* Of a ring that closes the loops of the code see the nodes, once each, in order.
LEMMA VisitedIs ==
  ASSUME NEW L, NEW r, NEW q, Closes(L, r, q)
  PROVE  Visited(L, r) = q
PROOF
  <1>1. q \in Seq(Node) /\ IsInjective(q) /\ Len(q) \in Nat /\ DOMAIN q = 1 .. Len(q)
    BY DEF Closes
  <1>2. CASE q = <<>>
    BY <1>2 DEF Closes, Visited
  <1>3. CASE q # <<>>
    <2>0. Len(q) >= 1 /\ q[1] \in Node /\ L.head[r] = q[1]
      <3>1. Len(q) # 0
        BY <1>1, <1>3, EmptySeq
      <3>2. L.head[r] = q[1]
        BY <1>3, Zenon DEF Closes
      <3>3. Len(q) >= 1 /\ 1 \in 1 .. Len(q)
        BY <1>1, <3>1
      <3> QED
        BY <1>1, <3>2, <3>3
    <2> DEFINE n == Len(q)
               from == Steps(L, r)
               Wrong == {i \in 0 .. n - 1 : from[i] # q[i + 1]}
    <2>1. n \in Nat /\ n >= 1 /\ L.head[r] = q[1] /\ q[1] \in Node /\ L.head[r] # Null
      BY <1>1, <2>0, NodeAssumption
    <2>2. n <= Cardinality(Node) /\ Cardinality(Node) \in Nat
      BY <1>1, NoMoreThanNodes
    <2>3. from[0] = q[1] /\ \A i \in 1 .. n : from[i] = L.next[from[i - 1]]
      BY <2>1, <2>2, StepsFollow
    <2>4. \A i \in 1 .. n : L.next[q[i]] = q[IF i = n THEN 1 ELSE i + 1]
      BY DEF Closes
    <2> HIDE DEF n, from, Wrong
    <2>5. Wrong = {}
      <3>1. SUFFICES ASSUME Wrong # {} PROVE FALSE
        OBVIOUS
      <3>2. Wrong \subseteq Nat
        BY DEF Wrong
      <3>3. PICK i \in Wrong : \A j \in Wrong : i <= j
        BY <3>1, <3>2, LeastNatural
      <3>4. i \in 0 .. n - 1 /\ from[i] # q[i + 1] /\ i # 0
        BY <2>1, <2>3, <3>3 DEF Wrong
      <3>5. i - 1 \in 0 .. n - 1 /\ i - 1 \notin Wrong
        BY <3>3, <3>4, <2>1, <3>2
      <3>6. from[i - 1] = q[i]
        BY <3>5, <3>4, <2>1 DEF Wrong
      <3>7. i \in 1 .. n /\ i # n
        BY <3>4, <2>1
      <3>8. from[i] = L.next[q[i]] /\ L.next[q[i]] = q[i + 1]
        BY <2>3, <2>4, <3>6, <3>7
      <3> QED
        BY <3>4, <3>8
    <2>6. \A i \in 0 .. n - 1 : from[i] = q[i + 1]
      BY <2>5 DEF Wrong
    <2>7. from[n] = q[1]
      <3>1. n - 1 \in 0 .. n - 1 /\ n \in 1 .. n
        BY <2>1
      <3>2. from[n - 1] = q[n]
        BY <2>1, <2>6, <3>1
      <3> QED
        BY <3>1, <3>2, <2>3, <2>4
    <2> DEFINE back == {i \in 1 .. Cardinality(Node) : from[i] = L.head[r]}
                         \cup {Cardinality(Node) + 1}
    <2>8. n \in back /\ back \subseteq Nat
      BY <2>1, <2>2, <2>7
    <2>9. ASSUME NEW i \in back, i < n PROVE FALSE
      <3>1. i \in 0 .. n - 1 /\ i \in 1 .. n /\ from[i] = q[1]
        BY <2>9, <2>1, <2>2
      <3>2. q[i + 1] = q[1] /\ i + 1 \in 1 .. n /\ 1 \in 1 .. n
        BY <3>1, <2>6, <2>1
      <3> QED
        BY <3>1, <3>2, <1>1 DEF IsInjective, n
    <2>10. \A i \in back : n <= i
      BY <2>8, <2>9, <2>1
    <2> HIDE DEF back
    <2>11. Min(back) = n
      BY <2>8, <2>10, MinIs
    <2>12. Visited(L, r) = [i \in 1 .. n |-> from[i - 1]]
      BY <2>1, <2>11 DEF Visited, from, back
    <2>13. \A i \in 1 .. n : from[i - 1] = q[i]
      BY <2>6, <2>1
    <2>14. q = [i \in 1 .. n |-> q[i]]
      BY <1>1 DEF n
    <2> QED
      BY <2>12, <2>13, <2>14
  <1> QED
    BY <1>2, <1>3

--------------------------------------------------------------------------------
(* What the operations do with a ring that closes *)

LinkSet == [head : [Ring -> Node \cup {Null}], next : [Node -> Node \cup {Null}],
            prev : [Node -> Node \cup {Null}]]

\* Between L and M nothing changed but the head of ring r and pointers of nodes in S.
OnlyAt(L, M, r, S) ==
  /\ \A t \in Ring \ {r} : M.head[t] = L.head[t]
  /\ \A x \in Node \ S : M.next[x] = L.next[x] /\ M.prev[x] = L.prev[x]

LEMMA OthersClose ==
  ASSUME NEW L, NEW M, NEW r, NEW S, OnlyAt(L, M, r, S),
         NEW t \in Ring, t # r, NEW q, Closes(L, t, q), ToSet(q) \cap S = {}
  PROVE  Closes(M, t, q)
PROOF
  <1>1. M.head[t] = L.head[t] /\ q \in Seq(Node)
    BY DEF OnlyAt, Closes
  <1>2. ASSUME NEW i \in 1 .. Len(q)
        PROVE  M.next[q[i]] = L.next[q[i]] /\ M.prev[q[i]] = L.prev[q[i]]
    <2>1. q[i] \in Node \ S
      BY <1>1 DEF ToSet
    <2> QED
      BY <2>1 DEF OnlyAt
  <1> QED
    BY <1>1, <1>2 DEF Closes

LEMMA NodesAreNotNull == \A x \in Node : x \in Nat /\ x # Null
PROOF
  BY NodeAssumption

\* The nodes of a ring, their places and the pointers between them.
LEMMA PlacesOf ==
  ASSUME NEW L, NEW r, NEW q, Closes(L, r, q)
  PROVE  /\ q \in Seq(Node) /\ Len(q) \in Nat /\ DOMAIN q = 1 .. Len(q)
         /\ \A i \in 1 .. Len(q) : q[i] \in Node /\ q[i] # Null /\ q[i] \in ToSet(q)
         /\ \A x \in ToSet(q) : \E i \in 1 .. Len(q) : q[i] = x
         /\ \A i, j \in 1 .. Len(q) : q[i] = q[j] => i = j
         /\ q # <<>> => Len(q) >= 1 /\ L.head[r] = q[1]
         /\ L.head[r] = Null <=> q = <<>>
PROOF
  <1>1. q \in Seq(Node) /\ Len(q) \in Nat /\ DOMAIN q = 1 .. Len(q)
    BY DEF Closes
  <1>2. \A i \in 1 .. Len(q) : q[i] \in Node /\ q[i] # Null /\ q[i] \in ToSet(q)
    BY <1>1, NodesAreNotNull DEF ToSet
  <1>3. \A x \in ToSet(q) : \E i \in 1 .. Len(q) : q[i] = x
    BY <1>1 DEF ToSet
  <1>4. \A i, j \in 1 .. Len(q) : q[i] = q[j] => i = j
    BY <1>1 DEF Closes, IsInjective
  <1>5. q # <<>> => Len(q) >= 1 /\ L.head[r] = q[1]
    <2>1. q # <<>> => Len(q) # 0
      BY <1>1, EmptySeq
    <2>2. q # <<>> => L.head[r] = q[1]
      BY Zenon DEF Closes
    <2> QED
      BY <1>1, <2>1, <2>2
  <1>6. L.head[r] = Null <=> q = <<>>
    <2>1. q # <<>> => q[1] # Null
      BY <1>1, <1>2, <1>5
    <2> QED
      BY <2>1, <1>5 DEF Closes
  <1> QED
    BY <1>1, <1>2, <1>3, <1>4, <1>5, <1>6

LEMMA BeforeIs ==
  ASSUME NEW L \in LinkSet, NEW c \in Node, NEW n \in Node, L.prev[c] \in Node,
         n # c, n # L.prev[c]
  PROVE  LET M == Before(L, c, n) IN
           /\ M \in LinkSet /\ M.head = L.head
           /\ M.next[n] = c /\ M.next[L.prev[c]] = n
           /\ \A x \in Node \ {n, L.prev[c]} : M.next[x] = L.next[x]
           /\ M.prev[n] = L.prev[c] /\ M.prev[c] = n
           /\ \A x \in Node \ {n, c} : M.prev[x] = L.prev[x]
PROOF
  <1> DEFINE M == Before(L, c, n)
  <1>1. /\ L.next \in [Node -> Node \cup {Null}] /\ L.prev \in [Node -> Node \cup {Null}]
        /\ L.head \in [Ring -> Node \cup {Null}]
    BY DEF LinkSet
  <1>2. /\ M.head = L.head
        /\ M.next = [[L.next EXCEPT ![n] = c] EXCEPT ![L.prev[c]] = n]
        /\ M.prev = [[L.prev EXCEPT ![n] = L.prev[c]] EXCEPT ![c] = n]
        /\ M = [head |-> M.head, next |-> M.next, prev |-> M.prev]
    <2> DEFINE next1 == [[L.next EXCEPT ![n] = c] EXCEPT ![L.prev[c]] = n]
               prev1 == [[L.prev EXCEPT ![n] = L.prev[c]] EXCEPT ![c] = n]
    <2>1. M = [[L EXCEPT !.next = next1] EXCEPT !.prev = prev1]
      BY DEF Before
    <2> HIDE DEF M, next1, prev1
    <2>2. M.head = L.head /\ M.next = next1 /\ M.prev = prev1
      BY <2>1 DEF LinkSet
    <2>3. M = [head |-> M.head, next |-> M.next, prev |-> M.prev]
      BY <2>1 DEF LinkSet
    <2> QED
      BY <2>2, <2>3 DEF next1, prev1
  <1> HIDE DEF M
  <1>3. M \in LinkSet
    BY <1>1, <1>2 DEF LinkSet
  <1>4. /\ M.next[n] = c /\ M.next[L.prev[c]] = n
        /\ \A x \in Node \ {n, L.prev[c]} : M.next[x] = L.next[x]
    BY <1>1, <1>2
  <1>5. /\ M.prev[n] = L.prev[c] /\ M.prev[c] = n
        /\ \A x \in Node \ {n, c} : M.prev[x] = L.prev[x]
    BY <1>1, <1>2
  <1> QED
    BY <1>2, <1>3, <1>4, <1>5 DEF M

\* add, enqueueReq and append put the node at the end.
LEMMA AddedCloses ==
  ASSUME NEW L \in LinkSet, NEW r \in Ring, NEW q, Closes(L, r, q),
         NEW n \in Node, n \notin ToSet(q)
  PROVE  /\ Added(L, r, n) \in LinkSet
         /\ Closes(Added(L, r, n), r, Append(q, n))
         /\ OnlyAt(L, Added(L, r, n), r, ToSet(q) \cup {n})
PROOF
  <1> DEFINE M == Added(L, r, n)
             a == Append(q, n)
  <1>1. /\ q \in Seq(Node) /\ Len(q) \in Nat /\ DOMAIN q = 1 .. Len(q)
        /\ \A i \in 1 .. Len(q) : q[i] \in Node /\ q[i] # Null /\ q[i] \in ToSet(q)
        /\ \A i, j \in 1 .. Len(q) : q[i] = q[j] => i = j
        /\ q # <<>> => Len(q) >= 1 /\ L.head[r] = q[1]
        /\ L.head[r] = Null <=> q = <<>>
    BY PlacesOf
  <1>2. /\ a \in Seq(Node) /\ Len(a) = Len(q) + 1 /\ DOMAIN a = 1 .. Len(q) + 1
        /\ a[Len(q) + 1] = n /\ \A i \in 1 .. Len(q) : a[i] = q[i]
    BY <1>1
  <1> HIDE DEF a
  <1>3. IsInjective(a) /\ a # <<>>
    BY <1>1, <1>2 DEF IsInjective
  <1>4. /\ L.next \in [Node -> Node \cup {Null}] /\ L.prev \in [Node -> Node \cup {Null}]
        /\ L.head \in [Ring -> Node \cup {Null}]
    BY DEF LinkSet
  <1>5. CASE q = <<>>
    <2>1. /\ M.head = [L.head EXCEPT ![r] = n]
          /\ M.next = [L.next EXCEPT ![n] = n]
          /\ M.prev = [L.prev EXCEPT ![n] = n]
          /\ M = [head |-> M.head, next |-> M.next, prev |-> M.prev]
      BY <1>1, <1>5 DEF LinkSet, Added, Alone
    <2> HIDE DEF M
    <2>2. M \in LinkSet
      BY <1>4, <2>1 DEF LinkSet
    <2>3. Len(a) = 1 /\ a[1] = n
      BY <1>2, <1>5
    <2>4. Closes(M, r, a)
      BY <1>2, <1>3, <1>4, <2>1, <2>3 DEF Closes
    <2>5. OnlyAt(L, M, r, ToSet(q) \cup {n})
      BY <1>4, <2>1 DEF OnlyAt
    <2> QED
      BY <2>2, <2>4, <2>5 DEF M, a
  <1>6. CASE q # <<>>
    <2> DEFINE l == Len(q)
    <2>0. l >= 1 /\ L.head[r] = q[1] /\ 1 \in 1 .. l
      BY <1>1, <1>6
    <2>1. l \in Nat /\ l >= 1 /\ L.head[r] = q[1] /\ L.prev[q[1]] = q[l] /\ M = Before(L, q[1], n)
      <3>1. L.prev[q[1]] = q[l]
        BY <2>0 DEF Closes
      <3>2. M = Before(L, q[1], n)
        BY <2>0, <1>1, <1>6 DEF Added
      <3> QED
        BY <3>1, <3>2, <2>0, <1>1
    <2>2. q[1] \in Node /\ q[l] \in Node /\ n # q[1] /\ n # q[l]
      BY <1>1, <2>1
    <2>3. /\ M \in LinkSet /\ M.head = L.head
          /\ M.next[n] = q[1] /\ M.next[q[l]] = n
          /\ \A x \in Node \ {n, q[l]} : M.next[x] = L.next[x]
          /\ M.prev[n] = q[l] /\ M.prev[q[1]] = n
          /\ \A x \in Node \ {n, q[1]} : M.prev[x] = L.prev[x]
      BY <2>1, <2>2, BeforeIs
    <2> HIDE DEF M
    <2>4. ASSUME NEW i \in 1 .. l + 1
          PROVE  /\ M.next[a[i]] = a[IF i = l + 1 THEN 1 ELSE i + 1]
                 /\ M.prev[a[i]] = a[IF i = 1 THEN l + 1 ELSE i - 1]
      <3>1. a[1] = q[1] /\ a[l] = q[l] /\ a[l + 1] = n
        BY <1>2, <2>1, <1>1
      <3>2. CASE i = l + 1
        BY <3>1, <3>2, <2>3, <2>1, <1>1
      <3>3. CASE i # l + 1
        <4>1. i \in 1 .. l /\ a[i] = q[i] /\ q[i] \in Node \ {n}
          BY <3>3, <1>1, <1>2
        <4>2. /\ L.next[q[i]] = q[IF i = l THEN 1 ELSE i + 1]
              /\ L.prev[q[i]] = q[IF i = 1 THEN l ELSE i - 1]
          BY <4>1 DEF Closes
        <4>3. M.next[a[i]] = a[i + 1]
          <5>1. CASE i = l
            BY <5>1, <3>1, <2>3
          <5>2. CASE i # l
            <6>0. i + 1 \in 1 .. l /\ l \in 1 .. l
              BY <5>2, <4>1, <2>1
            <6>1. i + 1 \in 1 .. l /\ l \in 1 .. l /\ q[i] # q[l]
              BY <6>0, <5>2, <4>1, <1>1
            <6> QED
              BY <6>1, <4>1, <4>2, <5>2, <2>3, <1>2
          <5> QED
            BY <5>1, <5>2
        <4>4. M.prev[a[i]] = a[IF i = 1 THEN l + 1 ELSE i - 1]
          <5>1. CASE i = 1
            BY <5>1, <3>1, <2>3
          <5>2. CASE i # 1
            <6>1. i - 1 \in 1 .. l /\ 1 \in 1 .. l /\ q[i] # q[1]
              BY <5>2, <4>1, <1>1
            <6> QED
              BY <6>1, <4>1, <4>2, <5>2, <2>3, <1>2
          <5> QED
            BY <5>1, <5>2
        <4> QED
          BY <4>3, <4>4, <3>3
      <3> QED
        BY <3>2, <3>3
    <2>5. Closes(M, r, a)
      <3>1. M.head[r] = a[1]
        BY <1>2, <2>1, <2>3
      <3> QED
        BY <3>1, <2>4, <1>2, <1>3 DEF Closes
    <2>6. OnlyAt(L, M, r, ToSet(q) \cup {n})
      <3>1. q[1] \in ToSet(q) /\ q[l] \in ToSet(q)
        BY <1>1, <2>1
      <3> QED
        BY <3>1, <2>3 DEF OnlyAt
    <2> QED
      BY <2>3, <2>5, <2>6 DEF M, a
  <1> QED
    BY <1>5, <1>6

\* q without its element at k.
DropAt(q, k) == [i \in 1 .. Len(q) - 1 |-> q[IF i < k THEN i ELSE i + 1]]

\* rem and del take the node out and close the ring behind it.
LEMMA RemovedCloses ==
  ASSUME NEW L \in LinkSet, NEW r \in Ring, NEW q, Closes(L, r, q), NEW k \in 1 .. Len(q)
  PROVE  /\ Removed(L, r, q[k]) \in LinkSet
         /\ Closes(Removed(L, r, q[k]), r, DropAt(q, k))
         /\ OnlyAt(L, Removed(L, r, q[k]), r, ToSet(q))
PROOF
  <1> DEFINE M == Removed(L, r, q[k])
             a == DropAt(q, k)
             l == Len(q)
             place(i) == IF i < k THEN i ELSE i + 1
             after(i) == IF i = l THEN 1 ELSE i + 1
             before(i) == IF i = 1 THEN l ELSE i - 1
  <1>1. /\ q \in Seq(Node) /\ l \in Nat /\ DOMAIN q = 1 .. l
        /\ \A i \in 1 .. l : q[i] \in Node /\ q[i] # Null /\ q[i] \in ToSet(q)
        /\ \A i, j \in 1 .. l : q[i] = q[j] => i = j
    BY PlacesOf
  <1>2. l \in Nat /\ l >= 1 /\ k \in 1 .. l /\ 1 \in 1 .. l
    BY <1>1
  <1>3. L.head[r] = q[1]
    <2>1. q # <<>>
      BY <1>2, EmptySeq
    <2> QED
      BY <2>1, PlacesOf
  <1>4. \A i \in 1 .. l : L.next[q[i]] = q[after(i)] /\ L.prev[q[i]] = q[before(i)]
    BY DEF Closes
  <1>5. /\ L.next \in [Node -> Node \cup {Null}] /\ L.prev \in [Node -> Node \cup {Null}]
        /\ L.head \in [Ring -> Node \cup {Null}]
    BY DEF LinkSet
  <1>6. a \in [1 .. l - 1 -> Node] /\ \A i \in 1 .. l - 1 : place(i) \in 1 .. l /\ a[i] = q[place(i)]
    <2>1. \A i \in 1 .. l - 1 : place(i) \in 1 .. l
      BY <1>2
    <2> HIDE DEF place, l
    <2>2. a = [i \in 1 .. l - 1 |-> q[place(i)]]
      BY DEF DropAt, place, l
    <2> QED
      BY <2>1, <2>2, <1>1
  <1> HIDE DEF a, l
  <1>7. a \in Seq(Node) /\ Len(a) = l - 1 /\ DOMAIN a = 1 .. l - 1
    BY <1>2, <1>6
  <1>8. IsInjective(a)
    <2>1. ASSUME NEW i \in 1 .. l - 1, NEW j \in 1 .. l - 1, a[i] = a[j] PROVE i = j
      <3>1. place(i) = place(j)
        BY <2>1, <1>1, <1>6
      <3> QED
        BY <3>1, <1>2
    <2> QED
      BY <2>1, <1>7 DEF IsInjective
  <1>9. CASE l = 1
    <2>1. k = 1 /\ q[k] = q[1] /\ L.next[q[1]] = q[1]
      BY <1>2, <1>4, <1>9
    <2>2. M = [L EXCEPT !.head[r] = Null]
      BY <2>1, <1>3 DEF Removed
    <2> HIDE DEF M
    <2>3. /\ M.head = [L.head EXCEPT ![r] = Null] /\ M.next = L.next /\ M.prev = L.prev
          /\ M = [head |-> M.head, next |-> M.next, prev |-> M.prev]
      BY <2>2 DEF LinkSet
    <2>4. M \in LinkSet
      BY <1>5, <2>3 DEF LinkSet
    <2>5. a = <<>>
      BY <1>7, <1>9, EmptySeq
    <2>6. M.head[r] = Null
      BY <2>3, <1>5
    <2>7. Closes(M, r, a)
      BY <1>7, <1>8, <1>9, <2>5, <2>6 DEF Closes
    <2>8. OnlyAt(L, M, r, ToSet(q))
      BY <1>5, <2>3 DEF OnlyAt
    <2> QED
      BY <2>4, <2>7, <2>8 DEF M, a
  <1>10. CASE l # 1
    <2>1. after(k) \in 1 .. l /\ before(k) \in 1 .. l /\ after(k) # k
      BY <1>2, <1>10
    <2> DEFINE x == q[k]
               b == q[before(k)]
               d == q[after(k)]
    <2>2. L.prev[x] = b /\ L.next[x] = d /\ b \in Node /\ d \in Node /\ x \in Node /\ x # d
      BY <1>1, <1>2, <1>4, <2>1
    <2>3. L.head[r] = x <=> k = 1
      BY <1>1, <1>2, <1>3
    <2> HIDE DEF x, b, d
    <2>4. M = [[[L EXCEPT !.head = [L.head EXCEPT ![r] = IF k = 1 THEN d ELSE q[1]]]
                   EXCEPT !.next = [L.next EXCEPT ![b] = d]]
                   EXCEPT !.prev = [L.prev EXCEPT ![d] = b]]
      <3>1. M = [L EXCEPT !.head[r] = IF @ = x THEN L.next[x] ELSE @,
                          !.next[L.prev[x]] = L.next[x],
                          !.prev[L.next[x]] = L.prev[x]]
        BY <2>2, <2>3, <1>3 DEF Removed, x
      <3> QED
        BY <3>1, <2>2, <2>3, <1>3
    <2> HIDE DEF M
    <2>5. /\ M.head = [L.head EXCEPT ![r] = IF k = 1 THEN d ELSE q[1]]
          /\ M.next = [L.next EXCEPT ![b] = d] /\ M.prev = [L.prev EXCEPT ![d] = b]
          /\ M = [head |-> M.head, next |-> M.next, prev |-> M.prev]
      BY <2>4 DEF LinkSet
    <2>6. M \in LinkSet
      <3>1. q[1] \in Node
        BY <1>1, <1>2
      <3> QED
        BY <3>1, <1>5, <2>2, <2>5 DEF LinkSet
    <2>7. M.head[r] = a[1] /\ a # <<>>
      <3>1. 1 \in 1 .. l - 1
        BY <1>2, <1>10
      <3>2. place(1) = IF k = 1 THEN after(k) ELSE 1
        BY <1>2, <1>10
      <3>3. a[1] = IF k = 1 THEN d ELSE q[1]
        BY <3>1, <3>2, <1>6 DEF d
      <3>4. a # <<>>
        BY <3>1, <1>7, EmptySeq
      <3> QED
        BY <3>3, <3>4, <2>5, <1>5
    <2>8. ASSUME NEW i \in 1 .. l - 1
          PROVE  /\ M.next[a[i]] = a[IF i = l - 1 THEN 1 ELSE i + 1]
                 /\ M.prev[a[i]] = a[IF i = 1 THEN l - 1 ELSE i - 1]
      <3> DEFINE j == place(i)
                 i1 == IF i = l - 1 THEN 1 ELSE i + 1
                 i0 == IF i = 1 THEN l - 1 ELSE i - 1
      <3>1. /\ j \in 1 .. l /\ a[i] = q[j] /\ q[j] \in Node
            /\ q[j] = b <=> j = before(k)
            /\ q[j] = d <=> j = after(k)
        BY <1>1, <1>6, <2>1 DEF b, d
      <3>2. /\ L.next[q[j]] = q[after(j)] /\ L.prev[q[j]] = q[before(j)]
        BY <1>4, <3>1
      <3>3. /\ M.next[q[j]] = q[IF j = before(k) THEN after(k) ELSE after(j)]
            /\ M.prev[q[j]] = q[IF j = after(k) THEN before(k) ELSE before(j)]
        <4> HIDE DEF j, after, before
        <4> QED
          BY <3>1, <3>2, <2>5, <1>5 DEF b, d
      <3>4. /\ i1 \in 1 .. l - 1 /\ place(i1) = IF j = before(k) THEN after(k) ELSE after(j)
            /\ i0 \in 1 .. l - 1 /\ place(i0) = IF j = after(k) THEN before(k) ELSE before(j)
        BY <1>2, <1>10
      <3> HIDE DEF j, i0, i1, place, after, before
      <3>5. a[i1] = q[place(i1)] /\ a[i0] = q[place(i0)]
        BY <3>4, <1>6
      <3>6. M.next[a[i]] = a[i1] /\ M.prev[a[i]] = a[i0]
        BY <3>1, <3>3, <3>4, <3>5
      <3> QED
        BY <3>6 DEF i0, i1
    <2>9. Closes(M, r, a)
      BY <2>7, <2>8, <1>7, <1>8 DEF Closes
    <2>10. OnlyAt(L, M, r, ToSet(q))
      <3>1. b \in ToSet(q) /\ d \in ToSet(q)
        BY <1>1, <2>1 DEF b, d
      <3> QED
        BY <3>1, <2>5, <1>5 DEF OnlyAt
    <2> QED
      BY <2>6, <2>9, <2>10 DEF M, a
  <1> QED
    BY <1>9, <1>10

\* q with n before its element at k.
PutAt(q, k, n) ==
  [i \in 1 .. Len(q) + 1 |-> IF i = k THEN n ELSE q[IF i < k THEN i ELSE i - 1]]

\* insert links the node in before the one where it stopped, which at the head makes
\* it the head.
LEMMA PutCloses ==
  ASSUME NEW L \in LinkSet, NEW r \in Ring, NEW q, Closes(L, r, q), NEW k \in 1 .. Len(q),
         NEW n \in Node, n \notin ToSet(q)
  PROVE  LET M == [Before(L, q[k], n) EXCEPT !.head[r] = IF q[k] = L.head[r] THEN n ELSE @] IN
           M \in LinkSet /\ Closes(M, r, PutAt(q, k, n)) /\ OnlyAt(L, M, r, ToSet(q) \cup {n})
PROOF
  <1> DEFINE B == Before(L, q[k], n)
             M == [B EXCEPT !.head[r] = IF q[k] = L.head[r] THEN n ELSE @]
             a == PutAt(q, k, n)
             l == Len(q)
             place(i) == IF i < k THEN i ELSE i - 1
             after(i) == IF i = l THEN 1 ELSE i + 1
             before(i) == IF i = 1 THEN l ELSE i - 1
  <1>1. /\ q \in Seq(Node) /\ l \in Nat /\ DOMAIN q = 1 .. l
        /\ \A i \in 1 .. l : q[i] \in Node /\ q[i] # Null /\ q[i] \in ToSet(q)
        /\ \A i, j \in 1 .. l : q[i] = q[j] => i = j
    BY PlacesOf
  <1>2. l \in Nat /\ l >= 1 /\ k \in 1 .. l /\ 1 \in 1 .. l
    BY <1>1
  <1>3. L.head[r] = q[1]
    <2>1. q # <<>>
      BY <1>2, EmptySeq
    <2> QED
      BY <2>1, PlacesOf
  <1>4. \A i \in 1 .. l : L.next[q[i]] = q[after(i)] /\ L.prev[q[i]] = q[before(i)]
    BY DEF Closes
  <1>5. before(k) \in 1 .. l
    BY <1>2
  <1>6. /\ L.next \in [Node -> Node \cup {Null}] /\ L.prev \in [Node -> Node \cup {Null}]
        /\ L.head \in [Ring -> Node \cup {Null}]
    BY DEF LinkSet
  <1>7. /\ a \in [1 .. l + 1 -> Node] /\ a[k] = n
        /\ \A i \in 1 .. l + 1 : i # k => place(i) \in 1 .. l /\ a[i] = q[place(i)]
    <2>1. \A i \in 1 .. l + 1 : i # k => place(i) \in 1 .. l
      BY <1>2
    <2>2. k \in 1 .. l + 1
      BY <1>2
    <2> HIDE DEF place, l
    <2>3. a = [i \in 1 .. l + 1 |-> IF i = k THEN n ELSE q[place(i)]]
      BY DEF PutAt, place, l
    <2> QED
      BY <2>1, <2>2, <2>3, <1>1
  <1> HIDE DEF a
  <1>8. a \in Seq(Node) /\ Len(a) = l + 1 /\ DOMAIN a = 1 .. l + 1
    BY <1>2, <1>7
  <1>9. a # <<>>
    BY <1>2, <1>8, EmptySeq
  <1> HIDE DEF l
  <1>10. IsInjective(a)
    <2>1. ASSUME NEW i \in 1 .. l + 1, NEW j \in 1 .. l + 1, a[i] = a[j] PROVE i = j
      <3>1. i # k => a[i] # n
        BY <1>1, <1>7
      <3>2. j # k => a[j] # n
        BY <1>1, <1>7
      <3>3. CASE i # k /\ j # k
        <4>1. place(i) = place(j)
          BY <2>1, <3>3, <1>1, <1>7
        <4> QED
          BY <4>1, <3>3, <1>2
      <3> QED
        BY <3>1, <3>2, <3>3, <2>1, <1>7
    <2> QED
      BY <2>1, <1>8 DEF IsInjective
  <1> DEFINE c == q[k]
             b == q[before(k)]
  <1>11. c \in Node /\ b \in Node /\ L.prev[c] = b /\ n # c /\ n # b /\ c \in ToSet(q) /\ b \in ToSet(q)
    BY <1>1, <1>2, <1>4, <1>5
  <1> HIDE DEF b, c
  <1>12. /\ B \in LinkSet /\ B.head = L.head
         /\ B.next[n] = c /\ B.next[b] = n
         /\ \A x \in Node \ {n, b} : B.next[x] = L.next[x]
         /\ B.prev[n] = b /\ B.prev[c] = n
         /\ \A x \in Node \ {n, c} : B.prev[x] = L.prev[x]
    BY <1>11, BeforeIs DEF c
  <1>13. q[k] = L.head[r] <=> k = 1
    BY <1>1, <1>2, <1>3
  <1>14. M = [B EXCEPT !.head = [L.head EXCEPT ![r] = IF k = 1 THEN n ELSE q[1]]]
    <2> HIDE DEF B
    <2> QED
      BY <1>3, <1>12, <1>13
  <1> HIDE DEF B, M
  <1>15. /\ M.head = [L.head EXCEPT ![r] = IF k = 1 THEN n ELSE q[1]]
         /\ M.next = B.next /\ M.prev = B.prev
         /\ M = [head |-> M.head, next |-> M.next, prev |-> M.prev]
    BY <1>12, <1>14 DEF LinkSet
  <1>16. M \in LinkSet
    <2>1. q[1] \in Node
      BY <1>1, <1>2
    <2> QED
      BY <2>1, <1>6, <1>12, <1>15 DEF LinkSet
  <1>17. M.head[r] = a[1]
    <2>1. k # 1 => a[1] = q[1]
      BY <1>2, <1>7
    <2> QED
      BY <2>1, <1>6, <1>7, <1>15
  <1>18. ASSUME NEW i \in 1 .. l + 1
         PROVE  /\ M.next[a[i]] = a[IF i = l + 1 THEN 1 ELSE i + 1]
                /\ M.prev[a[i]] = a[IF i = 1 THEN l + 1 ELSE i - 1]
    <2> DEFINE i1 == IF i = l + 1 THEN 1 ELSE i + 1
               i0 == IF i = 1 THEN l + 1 ELSE i - 1
    <2>1. i0 \in 1 .. l + 1 /\ i1 \in 1 .. l + 1
      BY <1>2
    <2>2. CASE i = k
      <3>1. i1 # k /\ place(i1) = k /\ i0 # k /\ place(i0) = before(k)
        BY <1>2, <2>2
      <3> HIDE DEF i0, i1, place, before
      <3>2. a[i1] = c /\ a[i0] = b
        BY <3>1, <2>1, <1>7 DEF c, b
      <3>3. M.next[a[i]] = a[i1] /\ M.prev[a[i]] = a[i0]
        BY <3>2, <2>2, <1>7, <1>12, <1>15
      <3> QED
        BY <3>3 DEF i0, i1
    <2>3. CASE i # k
      <3> DEFINE j == place(i)
      <3>1. /\ j \in 1 .. l /\ a[i] = q[j] /\ q[j] \in Node /\ q[j] # n
            /\ q[j] = b <=> j = before(k)
            /\ q[j] = c <=> j = k
        BY <2>3, <1>1, <1>2, <1>5, <1>7 DEF b, c
      <3>2. /\ L.next[q[j]] = q[after(j)] /\ L.prev[q[j]] = q[before(j)]
        BY <1>4, <3>1
      <3>3. /\ M.next[q[j]] = IF j = before(k) THEN n ELSE q[after(j)]
            /\ M.prev[q[j]] = IF j = k THEN n ELSE q[before(j)]
        <4> HIDE DEF j, after, before
        <4> QED
          BY <3>1, <3>2, <1>12, <1>15
      <3>4. /\ i1 = k <=> j = before(k)
            /\ i1 # k => place(i1) = after(j)
            /\ i0 = k <=> j = k
            /\ i0 # k => place(i0) = before(j)
        BY <2>3, <1>2
      <3> HIDE DEF j, i0, i1, place, after, before
      <3>5. M.next[a[i]] = a[i1]
        BY <2>1, <3>1, <3>3, <3>4, <1>7
      <3>6. M.prev[a[i]] = a[i0]
        BY <2>1, <3>1, <3>3, <3>4, <1>7
      <3> QED
        BY <3>5, <3>6 DEF i0, i1
    <2> QED
      BY <2>2, <2>3
  <1>19. Closes(M, r, a)
    BY <1>8, <1>9, <1>10, <1>17, <1>18 DEF Closes
  <1>20. OnlyAt(L, M, r, ToSet(q) \cup {n})
    BY <1>6, <1>11, <1>12, <1>15 DEF OnlyAt
  <1> QED
    BY <1>16, <1>19, <1>20 DEF M, a, B

\* The place of a node is by its name as a number.
LEMMA PassesIsOrder ==
  ASSUME NEW c \in Nat, NEW n \in Nat
  PROVE  Passes(c, n) <=> c <= n
PROOF
  <1>1. /\ c = (10 * (c \div 10)) + (c % 10) /\ c \div 10 \in Nat /\ c % 10 \in 0 .. 9
        /\ n = (10 * (n \div 10)) + (n % 10) /\ n \div 10 \in Nat /\ n % 10 \in 0 .. 9
    OBVIOUS
  <1> DEFINE oc == c \div 10
             sc == c % 10
             on == n \div 10
             sn == n % 10
  <1>2. Passes(c, n) <=> oc < on \/ (oc = on /\ sc <= sn)
    BY DEF Passes, obj_id, server_index
  <1> HIDE DEF oc, sc, on, sn
  <1>3. /\ c = 10 * oc + sc /\ oc \in Nat /\ sc \in 0 .. 9
        /\ n = 10 * on + sn /\ on \in Nat /\ sn \in 0 .. 9
    BY <1>1 DEF oc, sc, on, sn
  <1> QED
    BY <1>2, <1>3

\* insert keeps the order of the keys.
LEMMA InsertedCloses ==
  ASSUME NEW L \in LinkSet, NEW r \in Ring, NEW q, Closes(L, r, q), Ascending(q),
         NEW n \in Node, n \notin ToSet(q)
  PROVE  \E a : /\ Inserted(L, r, n) \in LinkSet
                /\ Closes(Inserted(L, r, n), r, a) /\ Ascending(a)
                /\ ToSet(a) = ToSet(q) \cup {n}
                /\ OnlyAt(L, Inserted(L, r, n), r, ToSet(q) \cup {n})
PROOF
  <1> DEFINE l == Len(q)
             stops == {i \in DOMAIN q : ~ Passes(q[i], n)}
  <1>1. /\ q \in Seq(Node) /\ l \in Nat /\ DOMAIN q = 1 .. l
        /\ \A i \in 1 .. l : q[i] \in Node
    BY PlacesOf
  <1>2. \A i \in 1 .. l : q[i] \in Nat /\ q[i] # n /\ n \in Nat
    BY <1>1, NodesAreNotNull DEF ToSet
  <1>3. stops = {i \in 1 .. l : n < q[i]}
    <2>1. \A i \in 1 .. l : ~ Passes(q[i], n) <=> n < q[i]
      BY <1>2, PassesIsOrder
    <2> QED
      BY <2>1, <1>1
  <1>4. \A i, j \in 1 .. l : i < j => q[i] < q[j]
    BY <1>1 DEF Ascending
  <1>5. Visited(L, r) = q
    BY VisitedIs
  <1>6. CASE stops = {}
    <2> DEFINE a == Append(q, n)
    <2>1. Inserted(L, r, n) = Added(L, r, n)
      BY <1>5, <1>6 DEF Inserted
    <2>2. /\ a \in Seq(Node) /\ DOMAIN a = 1 .. l + 1 /\ a[l + 1] = n
          /\ \A i \in 1 .. l : a[i] = q[i]
      BY <1>1
    <2> HIDE DEF a
    <2>3. \A i \in 1 .. l : q[i] < n
      BY <1>2, <1>3, <1>6
    <2>4. Ascending(a)
      <3>1. ASSUME NEW i \in 1 .. l + 1, NEW j \in 1 .. l + 1, i < j PROVE a[i] < a[j]
        <4>1. i \in 1 .. l /\ a[i] = q[i]
          BY <1>1, <2>2, <3>1
        <4>2. CASE j = l + 1
          BY <4>1, <4>2, <2>2, <2>3
        <4>3. CASE j # l + 1
          <5>1. j \in 1 .. l /\ a[j] = q[j]
            BY <4>3, <1>1, <2>2
          <5> QED
            BY <5>1, <4>1, <3>1, <1>4
        <4> QED
          BY <4>2, <4>3
      <3> QED
        BY <3>1, <2>2 DEF Ascending
    <2>5. ToSet(a) = ToSet(q) \cup {n}
      <3>1. DOMAIN a = (1 .. l) \cup {l + 1} /\ DOMAIN q = 1 .. l
        BY <1>1, <2>2
      <3> QED
        BY <3>1, <2>2 DEF ToSet
    <2> QED
      BY <2>1, <2>4, <2>5, AddedCloses DEF a
  <1>7. CASE stops # {}
    <2> DEFINE k == Min(stops)
               a == PutAt(q, k, n)
               place(i) == IF i < k THEN i ELSE i - 1
    <2>1. k \in 1 .. l /\ n < q[k] /\ \A i \in 1 .. l : i < k => q[i] < n
      <3>1. stops \subseteq Nat
        BY <1>3
      <3>2. PICK m \in stops : \A i \in stops : m <= i
        BY <3>1, <1>7, LeastNatural
      <3>3. k = m
        <4> HIDE DEF stops
        <4> QED
          BY <3>1, <3>2, MinIs
      <3>4. m \in 1 .. l /\ n < q[m] /\ \A i \in 1 .. l : i < m => i \notin stops
        BY <3>2, <1>3
      <3>5. \A i \in 1 .. l : i < m => q[i] < n
        BY <3>4, <1>2, <1>3
      <3> QED
        BY <3>3, <3>4, <3>5
    <2>2. Inserted(L, r, n) =
            [Before(L, q[k], n) EXCEPT !.head[r] = IF q[k] = L.head[r] THEN n ELSE @]
      BY <1>5, <1>7 DEF Inserted
    <2> HIDE DEF k
    <2>3. /\ DOMAIN a = 1 .. l + 1 /\ a[k] = n
          /\ \A i \in 1 .. l + 1 : i # k => place(i) \in 1 .. l /\ a[i] = q[place(i)]
      <3>1. \A i \in 1 .. l + 1 : i # k => place(i) \in 1 .. l
        BY <2>1, <1>1
      <3>2. k \in 1 .. l + 1
        BY <2>1, <1>1
      <3> HIDE DEF place, l
      <3>3. a = [i \in 1 .. l + 1 |-> IF i = k THEN n ELSE q[place(i)]]
        BY DEF PutAt, place, l
      <3> QED
        BY <3>1, <3>2, <3>3
    <2> HIDE DEF a, stops
    <2>4. Ascending(a)
      <3>1. ASSUME NEW i \in 1 .. l + 1, NEW j \in 1 .. l + 1, i < j PROVE a[i] < a[j]
        <4>1. CASE i = k
          <5>1. j # k /\ place(j) \in 1 .. l /\ a[j] = q[place(j)] /\ (place(j) = k \/ k < place(j))
            BY <4>1, <3>1, <2>1, <2>3, <1>1
          <5>2. q[k] = q[place(j)] \/ q[k] < q[place(j)]
            BY <5>1, <2>1, <1>4
          <5> QED
            BY <5>1, <5>2, <4>1, <2>1, <2>3, <1>2
        <4>2. CASE j = k
          <5>1. i # k /\ place(i) = i /\ a[i] = q[i] /\ i \in 1 .. l
            BY <4>2, <3>1, <2>1, <2>3, <1>1
          <5> QED
            BY <5>1, <4>2, <3>1, <2>1, <2>3
        <4>3. CASE i # k /\ j # k
          <5>1. /\ place(i) \in 1 .. l /\ a[i] = q[place(i)] /\ place(j) \in 1 .. l /\ a[j] = q[place(j)]
            BY <4>3, <2>3
          <5>2. place(i) < place(j)
            BY <4>3, <3>1, <2>1, <1>1
          <5> QED
            BY <5>1, <5>2, <1>4
        <4> QED
          BY <4>1, <4>2, <4>3
      <3> QED
        BY <3>1, <2>3 DEF Ascending
    <2>5. ToSet(a) = ToSet(q) \cup {n}
      <3>1. ASSUME NEW i \in 1 .. l PROVE \E j \in 1 .. l + 1 : a[j] = q[i]
        <4> DEFINE j == IF i < k THEN i ELSE i + 1
        <4>1. j \in 1 .. l + 1 /\ j # k /\ place(j) = i
          BY <2>1, <1>1
        <4> QED
          BY <4>1, <2>3
      <3>2. k \in 1 .. l + 1
        BY <2>1, <1>1
      <3>3. \A i \in 1 .. l + 1 : a[i] = n \/ a[i] \in ToSet(q)
        BY <2>3, <1>1 DEF ToSet
      <3>4. \A x \in ToSet(a) : \E i \in 1 .. l + 1 : x = a[i]
        BY <2>3 DEF ToSet
      <3>5. \A x \in ToSet(q) : \E i \in 1 .. l : x = q[i]
        BY <1>1 DEF ToSet
      <3>6. \A i \in 1 .. l + 1 : a[i] \in ToSet(a)
        BY <2>3 DEF ToSet
      <3> QED
        BY <3>1, <3>2, <3>3, <3>4, <3>5, <3>6, <2>3
    <2>6. /\ Inserted(L, r, n) \in LinkSet /\ Closes(Inserted(L, r, n), r, a)
          /\ OnlyAt(L, Inserted(L, r, n), r, ToSet(q) \cup {n})
      <3>1. k \in 1 .. Len(q)
        BY <2>1
      <3>2. LET M == [Before(L, q[k], n) EXCEPT !.head[r] = IF q[k] = L.head[r] THEN n ELSE @] IN
              M \in LinkSet /\ Closes(M, r, PutAt(q, k, n)) /\ OnlyAt(L, M, r, ToSet(q) \cup {n})
        BY <3>1, PutCloses
      <3> QED
        BY <3>2, <2>2 DEF a
    <2> QED
      BY <2>4, <2>5, <2>6
  <1> QED
    BY <1>6, <1>7

\* dequeueReq deletes the first request as del would.
LEMMA DequeuedIs ==
  ASSUME NEW L \in LinkSet, NEW q, Closes(L, Queue, q), L.head[Queue] # Null
  PROVE  q # <<>> /\ q[1] = L.head[Queue] /\ Dequeued(L) = Removed(L, Queue, q[1])
PROOF
  <1> DEFINE l == Len(q)
             first == L.head[Queue]
             top == L.next[first]
             last == L.prev[first]
             two == [L.next EXCEPT ![top] = IF @ = first THEN top ELSE @]
  <1>1. /\ q \in Seq(Node) /\ l \in Nat /\ q # <<>> /\ l >= 1 /\ first = q[1]
        /\ \A i \in 1 .. l : q[i] \in Node
        /\ \A i, j \in 1 .. l : q[i] = q[j] => i = j
    BY PlacesOf
  <1>2. \A i \in 1 .. l : /\ L.next[q[i]] = q[IF i = l THEN 1 ELSE i + 1]
                          /\ L.prev[q[i]] = q[IF i = 1 THEN l ELSE i - 1]
    BY DEF Closes
  <1>3. /\ L.next \in [Node -> Node \cup {Null}] /\ L.prev \in [Node -> Node \cup {Null}]
        /\ L.head \in [Ring -> Node \cup {Null}]
    BY DEF LinkSet
  <1>4. 1 \in 1 .. l /\ l \in 1 .. l /\ last = q[l] /\ top = q[IF l = 1 THEN 1 ELSE 2]
    <2>1. 1 \in 1 .. l /\ l \in 1 .. l
      BY <1>1
    <2>2. last = q[l]
      BY <1>1, <1>2, <2>1
    <2>3. top = q[IF 1 = l THEN 1 ELSE 1 + 1]
      BY <1>1, <1>2, <2>1
    <2> QED
      BY <2>1, <2>2, <2>3
  <1> HIDE DEF l
  <1>5. CASE top = first
    BY <1>1, <1>5 DEF Dequeued, Removed
  <1>6. CASE top # first
    <2>1. l >= 2 /\ 2 \in 1 .. l /\ top = q[2]
      <3>1. l # 1
        BY <1>1, <1>4, <1>6
      <3>2. l >= 2 /\ 2 \in 1 .. l
        BY <3>1, <1>1
      <3> QED
        BY <3>1, <3>2, <1>4
    <2>2. L.next[top] = first => last = top
      <3>1. CASE l = 2
        BY <3>1, <1>4, <2>1
      <3>2. CASE l # 2
        <4>1. L.next[top] = q[3] /\ 3 \in 1 .. l
          <5>1. 3 \in 1 .. l
            BY <3>2, <2>1, <1>1
          <5>2. L.next[q[2]] = q[IF 2 = l THEN 1 ELSE 2 + 1]
            BY <1>2, <2>1
          <5> QED
            BY <5>1, <5>2, <3>2, <2>1
        <4> QED
          BY <4>1, <1>1, <1>4
      <3> QED
        BY <3>1, <3>2
    <2>3. top \in Node /\ last \in Node /\ first \in Node
      BY <1>1, <1>4, <2>1
    <2> HIDE DEF first, top, last
    <2>4. [two EXCEPT ![last] = top] = [L.next EXCEPT ![last] = top]
      BY <1>3, <2>2, <2>3
    <2> HIDE DEF two
    <2>5. Dequeued(L) = [L EXCEPT !.head[Queue] = top,
                                  !.next = [two EXCEPT ![last] = top],
                                  !.prev[top] = last]
      BY <1>6 DEF Dequeued, first, top, last, two
    <2>6. Removed(L, Queue, first) = [L EXCEPT !.head[Queue] = top,
                                               !.next[last] = top,
                                               !.prev[top] = last]
      BY <1>6 DEF Removed, first, top, last
    <2>7. Dequeued(L) = Removed(L, Queue, first)
      BY <2>4, <2>5, <2>6
    <2> QED
      BY <1>1, <2>7 DEF first
  <1> QED
    BY <1>5, <1>6

\* Of a sequence without repetition RemoveFirst takes the element at k.
LEMMA RemoveFirstIs ==
  ASSUME NEW q \in Seq(Node), IsInjective(q), NEW k \in 1 .. Len(q)
  PROVE  RemoveFirst(q, q[k]) = DropAt(q, k)
PROOF
  <1> DEFINE e == q[k]
             l == Len(q)
             I == {i \in 1 .. l : q[i] = e}
             A == SubSeq(q, 1, k - 1)
             B == SubSeq(q, k + 1, Len(q))
  <1>1. l \in Nat /\ DOMAIN q = 1 .. l /\ k \in 1 .. l
    OBVIOUS
  <1>2. I = {k}
    BY <1>1 DEF IsInjective
  <1>3. Min(I) = k
    <2> HIDE DEF I
    <2> QED
      BY <1>1, <1>2 DEF Min
  <1>4. SelectInSeq(q, LAMBDA v : v = e) = k
    BY <1>2, <1>3 DEF SelectInSeq
  <1>5. RemoveFirst(q, e) = RemoveAt(q, k)
    BY <1>1, <1>4 DEF RemoveFirst
  <1>6. RemoveFirst(q, e) = A \o B
    BY <1>5 DEF RemoveAt
  <1>70. /\ SubSeq(q, 1, k - 1) \in Seq(Node) /\ Len(SubSeq(q, 1, k - 1)) = k - 1
         /\ SubSeq(q, k + 1, Len(q)) \in Seq(Node) /\ Len(SubSeq(q, k + 1, Len(q))) = Len(q) - k
         /\ \A j \in 1 .. k - 1 : SubSeq(q, 1, k - 1)[j] = q[j]
         /\ \A j \in 1 .. Len(q) - k : SubSeq(q, k + 1, Len(q))[j] = q[k + j]
    OBVIOUS
  <1>7. /\ A \in Seq(Node) /\ Len(A) = k - 1 /\ \A j \in 1 .. k - 1 : A[j] = q[j]
        /\ B \in Seq(Node) /\ Len(B) = l - k /\ \A j \in 1 .. l - k : B[j] = q[k + j]
    BY <1>70
  <1> HIDE DEF A, B, e, l
  <1>8. /\ DOMAIN (A \o B) = 1 .. Len(A) + Len(B) /\ A \o B \in Seq(Node)
        /\ \A j \in 1 .. Len(A) : (A \o B)[j] = A[j]
        /\ \A j \in 1 .. Len(B) : (A \o B)[Len(A) + j] = B[j]
    <2>1. A \in Seq(Node) /\ B \in Seq(Node)
      BY <1>7
    <2> QED
      BY <2>1
  <1>9. Len(A) + Len(B) = l - 1
    BY <1>1, <1>7
  <1>10. ASSUME NEW j \in 1 .. l - 1
         PROVE  (A \o B)[j] = q[IF j < k THEN j ELSE j + 1]
    <2>1. CASE j < k
      <3>1. j \in 1 .. k - 1 /\ j \in 1 .. Len(A)
        BY <2>1, <1>1, <1>7
      <3> QED
        BY <3>1, <2>1, <1>7, <1>8
    <2>2. CASE ~ j < k
      <3> DEFINE i == j - (k - 1)
      <3>1. i \in 1 .. l - k /\ k + i = j + 1 /\ (k - 1) + i = j
        BY <2>2, <1>1
      <3> HIDE DEF i
      <3>2. B[i] = q[j + 1] /\ i \in 1 .. Len(B) /\ Len(A) + i = j
        BY <3>1, <1>7
      <3> QED
        BY <3>2, <2>2, <1>8
    <2> QED
      BY <2>1, <2>2
  <1>11. A \o B = [j \in 1 .. l - 1 |-> (A \o B)[j]]
    <2>1. DOMAIN (A \o B) = 1 .. l - 1
      BY <1>8, <1>9
    <2>2. A \o B \in Seq(Node)
      BY <1>8
    <2> DEFINE R == A \o B
    <2>3. R \in Seq(Node)
      BY <2>2
    <2> HIDE DEF R
    <2>4. R = [j \in DOMAIN R |-> R[j]]
      BY <2>3
    <2> QED
      BY <2>1, <2>4 DEF R
  <1>12. A \o B = [j \in 1 .. l - 1 |-> q[IF j < k THEN j ELSE j + 1]]
    BY <1>10, <1>11
  <1> QED
    BY <1>6, <1>12 DEF DropAt, e, l

LEMMA DroppedIsPart ==
  ASSUME NEW q, NEW k \in Nat, Len(q) \in Nat, DOMAIN q = 1 .. Len(q)
  PROVE  ToSet(DropAt(q, k)) \subseteq ToSet(q)
PROOF
  <1>1. \A i \in 1 .. Len(q) - 1 : (IF i < k THEN i ELSE i + 1) \in 1 .. Len(q)
    OBVIOUS
  <1>2. DOMAIN DropAt(q, k) = 1 .. Len(q) - 1
    BY DEF DropAt
  <1>3. \A i \in 1 .. Len(q) - 1 : DropAt(q, k)[i] = q[IF i < k THEN i ELSE i + 1]
    BY DEF DropAt
  <1> QED
    BY <1>1, <1>2, <1>3 DEF ToSet

\* re_init_list after i nodes are gone.
HeadRemoved(M, r) == Removed(M, r, M.head[r])
Rest(q, i) == [j \in 1 .. Len(q) - i |-> q[i + j]]
Clears(f, L, r, n) == f = [i \in 0 .. n |-> IF i = 0 THEN L ELSE HeadRemoved(f[i - 1], r)]

LEMMA ClearsExists ==
  ASSUME NEW L, NEW r, NEW n \in Nat
  PROVE  \E f : Clears(f, L, r, n)
PROOF
  <1> DEFINE Fails == {m \in Nat : ~ \E f : Clears(f, L, r, m)}
  <1>1. SUFFICES ASSUME Fails # {} PROVE FALSE
    OBVIOUS
  <1> HIDE DEF Fails
  <1>0. Fails \subseteq Nat
    BY DEF Fails
  <1>2. PICK m \in Fails : \A k \in Fails : m <= k
    BY <1>0, <1>1, LeastNatural
  <1>3. CASE m = 0
    <2>1. Clears([i \in 0 .. 0 |-> L], L, r, 0)
      BY DEF Clears
    <2> QED
      BY <2>1, <1>3 DEF Fails
  <1>4. CASE m # 0
    <2>1. m \in Nat /\ m - 1 \in Nat /\ m - 1 \notin Fails
      BY <1>0, <1>2, <1>4
    <2>2. PICK f : Clears(f, L, r, m - 1)
      BY <2>1 DEF Fails
    <2> DEFINE g == [i \in 0 .. m |-> IF i = m THEN HeadRemoved(f[m - 1], r) ELSE f[i]]
    <2>3. \A i \in 0 .. m - 1 : g[i] = f[i]
      BY <2>1
    <2>4. ASSUME NEW i \in 0 .. m
          PROVE  g[i] = IF i = 0 THEN L ELSE HeadRemoved(g[i - 1], r)
      <3>1. CASE i = m
        <4>1. m - 1 \in 0 .. m - 1 /\ g[m] = HeadRemoved(f[m - 1], r)
          BY <2>1
        <4> HIDE DEF g
        <4> QED
          BY <3>1, <4>1, <2>3, <1>4
      <3>2. CASE i # m
        <4>1. i \in 0 .. m - 1 /\ f[i] = IF i = 0 THEN L ELSE HeadRemoved(f[i - 1], r)
          BY <2>2, <3>2, <2>1 DEF Clears
        <4>2. i # 0 => i - 1 \in 0 .. m - 1
          BY <4>1, <2>1
        <4> HIDE DEF g
        <4> QED
          BY <4>1, <4>2, <2>3
      <3> QED
        BY <3>1, <3>2
    <2>5. Clears(g, L, r, m)
      BY <2>4, g = [i \in 0 .. m |-> g[i]] DEF Clears
    <2> QED
      BY <2>5, <1>2 DEF Fails
  <1> QED
    BY <1>3, <1>4

LEMMA ClearedCloses ==
  ASSUME NEW L \in LinkSet, NEW r \in Ring, NEW q, Closes(L, r, q)
  PROVE  /\ Cleared(L, r) \in LinkSet
         /\ Closes(Cleared(L, r), r, <<>>)
         /\ OnlyAt(L, Cleared(L, r), r, ToSet(q))
PROOF
  <1> DEFINE n == Len(q)
             left == CHOOSE f : Clears(f, L, r, n)
  <1>1. /\ q \in Seq(Node) /\ n \in Nat /\ DOMAIN q = 1 .. n
        /\ \A i \in 1 .. n : q[i] \in Node /\ q[i] \in ToSet(q)
    BY PlacesOf
  <1>2. Cleared(L, r) = left[n]
    BY VisitedIs DEF Cleared, Clears, HeadRemoved
  <1>3. Clears(left, L, r, n)
    BY <1>1, ClearsExists, Zenon
  <1> HIDE DEF left, n
  <1>4. left[0] = L /\ \A i \in 1 .. n : left[i] = HeadRemoved(left[i - 1], r)
    BY <1>1, <1>3 DEF Clears
  <1> DEFINE Good(i) == /\ left[i] \in LinkSet /\ Closes(left[i], r, Rest(q, i))
                        /\ OnlyAt(L, left[i], r, ToSet(q))
             Bad == {i \in 0 .. n : ~ Good(i)}
  <1>5. \A i \in 0 .. n : /\ DOMAIN Rest(q, i) = 1 .. n - i
                          /\ \A j \in 1 .. n - i : Rest(q, i)[j] = q[i + j]
    BY DEF Rest, n
  <1>6. Good(0)
    <2>1. Rest(q, 0) = q
      <3>1. q = [j \in 1 .. n |-> q[j]] /\ 0 \in 0 .. n /\ n - 0 = n
        BY <1>1
      <3>2. \A j \in 1 .. n : 0 + j = j
        OBVIOUS
      <3>3. Rest(q, 0) = [j \in 1 .. n |-> q[j]]
        BY <3>1, <3>2 DEF Rest, n
      <3> QED
        BY <3>1, <3>3
    <2>2. OnlyAt(L, L, r, ToSet(q))
      BY DEF OnlyAt
    <2> QED
      BY <2>1, <2>2, <1>4
  <1>7. ASSUME NEW i \in 1 .. n, Good(i - 1) PROVE Good(i)
    <2> DEFINE M == left[i - 1]
               a == Rest(q, i - 1)
    <2>1. /\ a \in Seq(Node) /\ Len(a) \in Nat /\ DOMAIN a = 1 .. Len(a)
          /\ a # <<>> => Len(a) >= 1 /\ M.head[r] = a[1]
      BY <1>7, PlacesOf
    <2>2. i - 1 \in 0 .. n /\ i \in 0 .. n /\ i \in Nat
      BY <1>1
    <2>3. DOMAIN a = 1 .. n - (i - 1) /\ \A j \in 1 .. n - (i - 1) : a[j] = q[(i - 1) + j]
      BY <2>2, <1>5
    <2>4. 1 \in DOMAIN a
      BY <2>2, <2>3, <1>1
    <2> HIDE DEF M, a
    <2>5. Len(a) = n - (i - 1)
      BY <2>1, <2>3, <2>2, <2>4, <1>1
    <2>6. a # <<>> /\ 1 \in 1 .. Len(a)
      BY <2>1, <2>4, EmptySeq
    <2>7. left[i] = Removed(M, r, a[1])
      BY <2>1, <2>6, <1>4 DEF HeadRemoved, M
    <2>8. /\ left[i] \in LinkSet /\ Closes(left[i], r, DropAt(a, 1))
          /\ OnlyAt(M, left[i], r, ToSet(a))
      <3>1. M \in LinkSet /\ Closes(M, r, a)
        BY <1>7 DEF M, a
      <3> QED
        BY <3>1, <2>6, <2>7, RemovedCloses
    <2>9. DropAt(a, 1) = Rest(q, i)
      <3>1. Len(a) - 1 = n - i
        BY <2>2, <2>5, <1>1
      <3>2. ASSUME NEW j \in 1 .. n - i PROVE a[IF j < 1 THEN j ELSE j + 1] = q[i + j]
        <4>1. ~ j < 1 /\ j + 1 \in 1 .. n - (i - 1) /\ (i - 1) + (j + 1) = i + j
          BY <2>2, <1>1
        <4> QED
          BY <4>1, <2>3
      <3> QED
        BY <3>1, <3>2 DEF DropAt, Rest, n
    <2>10. ToSet(a) \subseteq ToSet(q)
      <3>1. \A j \in 1 .. n - (i - 1) : (i - 1) + j \in 1 .. n
        BY <2>2, <1>1
      <3> QED
        BY <3>1, <2>3, <1>1 DEF ToSet
    <2>11. OnlyAt(L, left[i], r, ToSet(q))
      <3>1. OnlyAt(L, M, r, ToSet(q))
        BY <1>7 DEF M
      <3> QED
        BY <3>1, <2>8, <2>10 DEF OnlyAt
    <2> QED
      BY <2>8, <2>9, <2>11
  <1>8. Bad = {}
    <2> SUFFICES ASSUME Bad # {} PROVE FALSE
      OBVIOUS
    <2> HIDE DEF Good
    <2>1. Bad \subseteq Nat
      OBVIOUS
    <2> HIDE DEF Bad
    <2>2. PICK i \in Bad : \A j \in Bad : i <= j
      BY <2>1, LeastNatural
    <2>3. i \in 0 .. n /\ ~ Good(i)
      BY <2>2 DEF Bad
    <2>4. i # 0
      BY <2>3, <1>6
    <2>5. i \in 1 .. n /\ i - 1 \in 0 .. n /\ i - 1 \notin Bad
      BY <2>1, <2>2, <2>3, <2>4, <1>1
    <2>6. Good(i - 1)
      BY <2>5 DEF Bad
    <2> QED
      BY <2>3, <2>5, <2>6, <1>7
  <1>9. n \in 0 .. n
    BY <1>1
  <1>10. Good(n)
    <2> HIDE DEF Good
    <2> QED
      BY <1>8, <1>9
  <1>11. Rest(q, n) = <<>>
    <2>1. Rest(q, n) \in Seq(Node) /\ Len(Rest(q, n)) \in Nat /\ DOMAIN Rest(q, n) = 1 .. Len(Rest(q, n))
      BY <1>10, PlacesOf
    <2> DEFINE m == Len(Rest(q, n))
    <2>2. DOMAIN Rest(q, n) = 1 .. n - n
      BY <1>5, <1>9
    <2>3. 1 .. n - n = {}
      BY <1>1
    <2>4. m \in Nat /\ 1 .. m = {}
      BY <2>1, <2>2, <2>3
    <2> HIDE DEF m
    <2>5. m = 0
      BY <2>4
    <2> QED
      BY <2>1, <2>5, EmptySeq DEF m
  <1> QED
    BY <1>2, <1>10, <1>11

--------------------------------------------------------------------------------
(* All rings *)

\* RingInv of links that need not be those of the state, and their lists.
AllClose(L) ==
  /\ L \in LinkSet
  /\ \A r \in Ring : Closes(L, r, Visited(L, r))
  /\ \A r, t \in Ring : r # t => ToSet(Visited(L, r)) \cap ToSet(Visited(L, t)) = {}
  /\ Ascending(Visited(L, Objects))

ListsOf(L) == [r \in Ring |-> Visited(L, r)]
FreeIn(L, n) == \A r \in Ring : n \notin ToSet(Visited(L, r))

LEMMA InvIsAllClose == RingInv <=> AllClose(Links)
PROOF
  <1>1. Links.head = head /\ Links.next = next /\ Links.prev = prev
    BY DEF Links
  <1>2. LinksOK <=> Links \in LinkSet
    BY DEF LinksOK, LinkSet, Links
  <1> QED
    BY <1>2 DEF RingInv, AllClose, OneRing

LEMMA RingsAre == Queue \in Ring /\ Objects \in Ring /\ Clients \subseteq Ring
PROOF
  BY DEF Ring

\* An operation on one ring that touches nodes of it and free ones only leaves the
\* other lists as they are.
LEMMA OneRingChanges ==
  ASSUME NEW L, AllClose(L), NEW M \in LinkSet, NEW r \in Ring, NEW a, Closes(M, r, a),
         NEW S, \A n \in S : n \in ToSet(Visited(L, r)) \/ FreeIn(L, n),
         OnlyAt(L, M, r, S), ToSet(a) \subseteq S,
         r = Objects => Ascending(a)
  PROVE  AllClose(M) /\ ListsOf(M) = [ListsOf(L) EXCEPT ![r] = a]
PROOF
  <1>1. Visited(M, r) = a
    BY VisitedIs
  <1>2. ASSUME NEW t \in Ring, t # r
        PROVE  Closes(M, t, Visited(L, t)) /\ Visited(M, t) = Visited(L, t)
    <2>1. Closes(L, t, Visited(L, t)) /\ ToSet(Visited(L, t)) \cap S = {}
      BY <1>2 DEF AllClose, FreeIn
    <2>2. Closes(M, t, Visited(L, t))
      BY <2>1, <1>2, OthersClose
    <2> QED
      BY <2>2, VisitedIs
  <1>3. \A t \in Ring : Closes(M, t, Visited(M, t))
    BY <1>1, <1>2
  <1>4. ASSUME NEW t \in Ring, NEW u \in Ring, t # u
        PROVE  ToSet(Visited(M, t)) \cap ToSet(Visited(M, u)) = {}
    <2>1. \A v \in Ring : v # r => ToSet(a) \cap ToSet(Visited(L, v)) = {}
      BY DEF AllClose, FreeIn
    <2>2. t # r /\ u # r => ToSet(Visited(L, t)) \cap ToSet(Visited(L, u)) = {}
      BY <1>4 DEF AllClose
    <2> QED
      BY <2>1, <2>2, <1>1, <1>2, <1>4
  <1>5. Ascending(Visited(M, Objects))
    BY <1>1, <1>2, RingsAre DEF AllClose
  <1>6. ListsOf(M) = [ListsOf(L) EXCEPT ![r] = a]
    BY <1>1, <1>2 DEF ListsOf
  <1> QED
    BY <1>3, <1>4, <1>5, <1>6 DEF AllClose

LEMMA BecomesIs ==
  ASSUME NEW M \in LinkSet, Becomes(M)
  PROVE  Links' = M
PROOF
  <1>1. Links' = [head |-> M.head, next |-> M.next, prev |-> M.prev]
    BY DEF Becomes, Links
  <1> QED
    BY <1>1 DEF LinkSet

LEMMA AllCloseAdd ==
  ASSUME NEW L, AllClose(L), NEW r \in Ring, r # Objects, NEW n \in Node, FreeIn(L, n)
  PROVE  LET M == Added(L, r, n) IN
           M \in LinkSet /\ AllClose(M) /\ ListsOf(M) = [ListsOf(L) EXCEPT ![r] = Append(@, n)]
PROOF
  <1> DEFINE M == Added(L, r, n)
             q == Visited(L, r)
  <1>1. L \in LinkSet /\ Closes(L, r, q) /\ n \notin ToSet(q)
    BY DEF AllClose, FreeIn
  <1>2. M \in LinkSet /\ Closes(M, r, Append(q, n)) /\ OnlyAt(L, M, r, ToSet(q) \cup {n})
    BY <1>1, AddedCloses
  <1>3. ToSet(Append(q, n)) \subseteq ToSet(q) \cup {n}
    <2>1. q \in Seq(Node)
      BY <1>1 DEF Closes
    <2> HIDE DEF q
    <2>2. \A i \in 1 .. Len(q) + 1 : Append(q, n)[i] = n \/ (i \in 1 .. Len(q) /\ Append(q, n)[i] = q[i])
      BY <2>1
    <2>3. DOMAIN Append(q, n) = 1 .. Len(q) + 1 /\ DOMAIN q = 1 .. Len(q)
      BY <2>1
    <2> QED
      BY <2>2, <2>3 DEF ToSet
  <1> HIDE DEF M
  <1>4. AllClose(M) /\ ListsOf(M) = [ListsOf(L) EXCEPT ![r] = Append(q, n)]
    <2> DEFINE S == ToSet(q) \cup {n}
    <2>1. \A m \in S : m \in ToSet(q) \/ FreeIn(L, m)
      OBVIOUS
    <2> DEFINE a == Append(q, n)
    <2> HIDE DEF S, a
    <2>2. /\ OnlyAt(L, M, r, S) /\ ToSet(a) \subseteq S
          /\ M \in LinkSet /\ Closes(M, r, a)
      BY <1>2, <1>3 DEF S, a
    <2>3. AllClose(M) /\ ListsOf(M) = [ListsOf(L) EXCEPT ![r] = a]
      BY <2>1, <2>2, OneRingChanges
    <2> QED
      BY <2>3 DEF a
  <1>5. ListsOf(L)[r] = q /\ DOMAIN ListsOf(L) = Ring
    BY DEF ListsOf
  <1> QED
    BY <1>2, <1>4, <1>5 DEF M

LEMMA AllCloseRemove ==
  ASSUME NEW L, AllClose(L), NEW r \in Ring, NEW n \in ToSet(Visited(L, r))
  PROVE  LET M == Removed(L, r, n) IN
           M \in LinkSet /\ AllClose(M) /\ ListsOf(M) = [ListsOf(L) EXCEPT ![r] = RemoveFirst(@, n)]
PROOF
  <1> DEFINE M == Removed(L, r, n)
             q == Visited(L, r)
  <1>1. L \in LinkSet /\ Closes(L, r, q)
    BY DEF AllClose
  <1>2. /\ q \in Seq(Node) /\ Len(q) \in Nat /\ DOMAIN q = 1 .. Len(q)
        /\ \E i \in 1 .. Len(q) : q[i] = n
    BY <1>1, PlacesOf
  <1>3. PICK k \in 1 .. Len(q) : q[k] = n
    BY <1>2
  <1> DEFINE a == DropAt(q, k)
  <1>4. M \in LinkSet /\ Closes(M, r, a) /\ OnlyAt(L, M, r, ToSet(q))
    BY <1>1, <1>3, RemovedCloses
  <1>5. ToSet(a) \subseteq ToSet(q) /\ RemoveFirst(q, n) = a
    <2>1. IsInjective(q)
      BY <1>1 DEF Closes
    <2>2. k \in Nat
      BY <1>2
    <2> QED
      BY <2>1, <2>2, <1>2, <1>3, DroppedIsPart, RemoveFirstIs
  <1>6. r = Objects => Ascending(a)
    <2> SUFFICES ASSUME r = Objects PROVE Ascending(a)
      OBVIOUS
    <2>1. \A i, j \in 1 .. Len(q) : i < j => q[i] < q[j]
      BY <1>2 DEF AllClose, Ascending
    <2> DEFINE place(i) == IF i < k THEN i ELSE i + 1
    <2>2. a = [i \in 1 .. Len(q) - 1 |-> q[place(i)]]
      BY DEF DropAt
    <2>3. \A i \in 1 .. Len(q) - 1 : place(i) \in 1 .. Len(q)
      BY <1>2
    <2>4. \A i, j \in 1 .. Len(q) - 1 : i < j => place(i) < place(j)
      BY <1>2
    <2> HIDE DEF place, q, a
    <2> QED
      BY <2>1, <2>2, <2>3, <2>4 DEF Ascending
  <1> HIDE DEF M, a
  <1>7. AllClose(M) /\ ListsOf(M) = [ListsOf(L) EXCEPT ![r] = a]
    <2>1. \A m \in ToSet(q) : m \in ToSet(q) \/ FreeIn(L, m)
      OBVIOUS
    <2> QED
      BY <2>1, <1>4, <1>5, <1>6, OneRingChanges
  <1>8. ListsOf(L)[r] = q /\ DOMAIN ListsOf(L) = Ring
    BY DEF ListsOf
  <1> QED
    BY <1>4, <1>5, <1>7, <1>8 DEF M

LEMMA AllCloseClear ==
  ASSUME NEW L, AllClose(L), NEW r \in Ring
  PROVE  LET M == Cleared(L, r) IN
           M \in LinkSet /\ AllClose(M) /\ ListsOf(M) = [ListsOf(L) EXCEPT ![r] = <<>>]
PROOF
  <1> DEFINE M == Cleared(L, r)
             q == Visited(L, r)
             a == <<>>
  <1>1. L \in LinkSet /\ Closes(L, r, q)
    BY DEF AllClose
  <1>2. M \in LinkSet /\ Closes(M, r, a) /\ OnlyAt(L, M, r, ToSet(q))
    BY <1>1, ClearedCloses
  <1>3. ToSet(a) \subseteq ToSet(q) /\ Ascending(a)
    BY DEF ToSet, Ascending
  <1>4. \A m \in ToSet(q) : m \in ToSet(q) \/ FreeIn(L, m)
    OBVIOUS
  <1> HIDE DEF M, a
  <1>5. AllClose(M) /\ ListsOf(M) = [ListsOf(L) EXCEPT ![r] = a]
    BY <1>2, <1>3, <1>4, OneRingChanges
  <1> QED
    BY <1>2, <1>5 DEF M, a

LEMMA AllCloseInsert ==
  ASSUME NEW L, AllClose(L), NEW n \in Node, FreeIn(L, n)
  PROVE  LET M == Inserted(L, Objects, n) IN
           /\ M \in LinkSet /\ AllClose(M)
           /\ \E a \in Seq(Node) :
                /\ ListsOf(M) = [ListsOf(L) EXCEPT ![Objects] = a]
                /\ Ascending(a) /\ ToSet(a) = ToSet(Visited(L, Objects)) \cup {n}
PROOF
  <1> DEFINE M == Inserted(L, Objects, n)
             q == Visited(L, Objects)
             S == ToSet(q) \cup {n}
  <1>1. /\ L \in LinkSet /\ Objects \in Ring /\ Closes(L, Objects, q)
        /\ Ascending(q) /\ n \notin ToSet(q)
    BY RingsAre DEF AllClose, FreeIn
  <1>2. \E a : /\ M \in LinkSet /\ Closes(M, Objects, a) /\ Ascending(a)
               /\ ToSet(a) = S /\ OnlyAt(L, M, Objects, S)
    BY <1>1, InsertedCloses
  <1>3. PICK a : /\ M \in LinkSet /\ Closes(M, Objects, a) /\ Ascending(a)
                 /\ ToSet(a) = S /\ OnlyAt(L, M, Objects, S)
    BY <1>2
  <1>4. \A m \in S : m \in ToSet(Visited(L, Objects)) \/ FreeIn(L, m)
    OBVIOUS
  <1>5. a \in Seq(Node)
    BY <1>3 DEF Closes
  <1> HIDE DEF M, S
  <1>6. AllClose(M) /\ ListsOf(M) = [ListsOf(L) EXCEPT ![Objects] = a]
    BY <1>1, <1>3, <1>4, OneRingChanges
  <1> QED
    BY <1>3, <1>5, <1>6 DEF M, S

--------------------------------------------------------------------------------
(* The actions and what they are of Lists *)

lists == ListsOf(Links)

\* The operators on sequences are the same in both modules.
LEMMA SameOperators ==
  ASSUME NEW q, NEW n
  PROVE  /\ Abstract!ToSet(q) = ToSet(q) /\ Abstract!RemoveFirst(q, n) = RemoveFirst(q, n)
         /\ Abstract!Ascending(q) = Ascending(q)
PROOF
  <1>1. Abstract!ToSet(q) = ToSet(q)
    BY DEF ToSet, Abstract!ToSet
  <1>2. \A S : Abstract!Min(S) = Min(S)
    BY DEF Min, Abstract!Min
  <1>3. \A k : Abstract!RemoveAt(q, k) = RemoveAt(q, k)
    BY DEF RemoveAt, Abstract!RemoveAt
  <1>4. Abstract!SelectInSeq(q, LAMBDA v : v = n) = SelectInSeq(q, LAMBDA v : v = n)
    BY <1>2 DEF SelectInSeq, Abstract!SelectInSeq
  <1>5. Abstract!RemoveFirst(q, n) = RemoveFirst(q, n)
    BY <1>3, <1>4 DEF RemoveFirst, Abstract!RemoveFirst
  <1>6. Abstract!Ascending(q) = Ascending(q)
    BY DEF Ascending, Abstract!Ascending
  <1> QED
    BY <1>1, <1>5, <1>6

LEMMA StepIsAbstract ==
  ASSUME RingInv
  PROVE  /\ AllClose(Links) /\ lists = [r \in Ring |-> Visited(Links, r)]
         /\ \A n : Free(n) <=> FreeIn(Links, n)
         /\ \A n : Abstract!Free(n) <=> Free(n)
         /\ (Clients \cup {Queue}) \cup {Objects} = Ring
PROOF
  <1>1. (Clients \cup {Queue}) \cup {Objects} = Ring
    BY DEF Ring
  <1>2. \A n : Abstract!Free(n) <=> Free(n)
    <2>1. \A r \in Ring : [t \in Ring |-> Visited(Links, t)][r] = Visited(Links, r)
      OBVIOUS
    <2> QED
      BY <1>1, <2>1, SameOperators DEF Abstract!Free, Free
  <1> QED
    BY <1>1, <1>2, InvIsAllClose DEF Free, FreeIn, lists, ListsOf

LEMMA LinksNext ==
  ASSUME NEW M \in LinkSet, AllClose(M), Becomes(M)
  PROVE  RingInv' /\ lists' = ListsOf(M)
PROOF
  <1>1. Links' = M
    BY BecomesIs
  <1>4. AllClose(Links')
    BY <1>1
  <1>2. AllClose(Links)'
    BY <1>4
  <1>3. lists' = ListsOf(M)
    BY <1>1 DEF lists, ListsOf, Visited, Steps
  <1> QED
    BY <1>2, <1>3, InvIsAllClose, PTL

LEMMA AddStep ==
  ASSUME RingInv, NEW r \in Clients \cup {Queue}, NEW n \in Node, Add(r, n)
  PROVE  RingInv' /\ Abstract!Append1(r, n)
PROOF
  <1> DEFINE M == Added(Links, r, n)
  <1>1. Free(n) /\ Becomes(M) /\ r \in Ring /\ r # Objects
    BY RingsAre, RingAssumption DEF Add
  <1>2. M \in LinkSet /\ AllClose(M) /\ ListsOf(M) = [lists EXCEPT ![r] = Append(@, n)]
    BY <1>1, StepIsAbstract, AllCloseAdd DEF lists
  <1> HIDE DEF M
  <1>3. RingInv' /\ lists' = [lists EXCEPT ![r] = Append(@, n)]
    BY <1>1, <1>2, LinksNext
  <1> QED
    BY <1>1, <1>3, StepIsAbstract DEF Abstract!Append1, lists, ListsOf

LEMMA UnlinkStep ==
  ASSUME RingInv, NEW r \in Ring, NEW n \in ToSet(Visited(Links, r)),
         Becomes(Removed(Links, r, n))
  PROVE  RingInv' /\ Abstract!TakeOff(r, n)
PROOF
  <1> DEFINE M == Removed(Links, r, n)
  <1>1. M \in LinkSet /\ AllClose(M) /\ ListsOf(M) = [lists EXCEPT ![r] = RemoveFirst(@, n)]
    BY StepIsAbstract, AllCloseRemove DEF lists
  <1>2. Becomes(M)
    OBVIOUS
  <1> HIDE DEF M
  <1>3. RingInv' /\ lists' = [lists EXCEPT ![r] = RemoveFirst(@, n)]
    BY <1>1, <1>2, LinksNext
  <1>4. n \in ToSet(lists[r])
    BY DEF lists, ListsOf
  <1>5. lists = [t \in Ring |-> Visited(Links, t)]
    BY DEF lists, ListsOf
  <1> QED
    BY <1>3, <1>4, <1>5, SameOperators DEF Abstract!TakeOff, lists, ListsOf

LEMMA SwitchStep ==
  ASSUME RingInv, NEW r \in Clients, NEW t \in Clients, NEW n \in Node, Switch(r, t, n)
  PROVE  RingInv' /\ Abstract!Move(r, t, n)
PROOF
  <1> DEFINE K == Removed(Links, r, n)
             M == Added(K, t, n)
  <1>1. /\ r # t /\ n \in ToSet(Visited(Links, r)) /\ Becomes(M)
        /\ r \in Ring /\ t \in Ring /\ r # Objects /\ t # Objects
    BY RingsAre, RingAssumption DEF Switch
  <1>2. K \in LinkSet /\ AllClose(K) /\ ListsOf(K) = [lists EXCEPT ![r] = RemoveFirst(@, n)]
    BY <1>1, StepIsAbstract, AllCloseRemove DEF lists
  <1>3. FreeIn(K, n)
    <2> DEFINE q == Visited(Links, r)
    <2>1. AllClose(Links) /\ Closes(Links, r, q)
      BY <1>1, StepIsAbstract DEF AllClose
    <2>2. /\ q \in Seq(Node) /\ IsInjective(q) /\ Len(q) \in Nat
          /\ \A i, j \in 1 .. Len(q) : q[i] = q[j] => i = j
          /\ \E i \in 1 .. Len(q) : q[i] = n
      <3>1. q \in Seq(Node) /\ IsInjective(q)
        BY <2>1 DEF Closes
      <3>2. \A x \in ToSet(q) : \E i \in 1 .. Len(q) : q[i] = x
        BY <2>1, PlacesOf
      <3>3. Len(q) \in Nat /\ \A i, j \in 1 .. Len(q) : q[i] = q[j] => i = j
        BY <2>1, PlacesOf
      <3> QED
        BY <3>1, <3>2, <3>3, <1>1
    <2>3. PICK k \in 1 .. Len(q) : q[k] = n
      BY <2>2
    <2> HIDE DEF q
    <2>4. RemoveFirst(q, n) = DropAt(q, k)
      BY <2>2, <2>3, RemoveFirstIs
    <2>5. n \notin ToSet(DropAt(q, k))
      <3>1. \A i \in 1 .. Len(q) - 1 :
              /\ (IF i < k THEN i ELSE i + 1) \in 1 .. Len(q)
              /\ (IF i < k THEN i ELSE i + 1) # k
        BY <2>2
      <3>2. /\ DOMAIN DropAt(q, k) = 1 .. Len(q) - 1
            /\ \A i \in 1 .. Len(q) - 1 : DropAt(q, k)[i] = q[IF i < k THEN i ELSE i + 1]
        BY DEF DropAt
      <3> QED
        BY <3>1, <3>2, <2>2, <2>3 DEF ToSet
    <2>6. \A u \in Ring : u # r => n \notin ToSet(Visited(Links, u))
      BY <2>1, <1>1 DEF AllClose
    <2>7. /\ Visited(K, r) = DropAt(q, k)
          /\ \A u \in Ring : u # r => Visited(K, u) = Visited(Links, u)
      <3>1. ListsOf(K)[r] = RemoveFirst(q, n) /\ \A u \in Ring : u # r => ListsOf(K)[u] = Visited(Links, u)
        BY <1>1, <1>2 DEF lists, ListsOf, q
      <3>2. \A u \in Ring : ListsOf(K)[u] = Visited(K, u)
        BY DEF ListsOf
      <3> QED
        BY <3>1, <3>2, <2>4, <1>1
    <2> QED
      BY <2>5, <2>6, <2>7 DEF FreeIn
  <1> HIDE DEF K
  <1>4. M \in LinkSet /\ AllClose(M) /\ ListsOf(M) = [ListsOf(K) EXCEPT ![t] = Append(@, n)]
    BY <1>1, <1>2, <1>3, AllCloseAdd
  <1> HIDE DEF M
  <1>5. RingInv' /\ lists' = ListsOf(M)
    BY <1>1, <1>4, LinksNext
  <1>6. lists' = [lists EXCEPT ![r] = RemoveFirst(@, n), ![t] = Append(@, n)]
    <2>1. DOMAIN lists = Ring /\ lists = [u \in Ring |-> lists[u]]
      BY DEF lists, ListsOf
    <2> DEFINE A == RemoveFirst(lists[r], n)
    <2> HIDE DEF A
    <2>2. ListsOf(K) = [lists EXCEPT ![r] = A]
      BY <1>2 DEF A
    <2>3. ListsOf(K)[t] = lists[t]
      BY <2>1, <2>2, <1>1
    <2> DEFINE B == Append(lists[t], n)
    <2> HIDE DEF B
    <2>4. lists' = [ListsOf(K) EXCEPT ![t] = B]
      BY <1>4, <1>5, <2>3 DEF B
    <2>5. lists' = [lists EXCEPT ![r] = A, ![t] = B]
      BY <2>2, <2>4
    <2> QED
      BY <2>5 DEF A, B
  <1>7. n \in ToSet(lists[r])
    BY <1>1 DEF lists, ListsOf
  <1>8. /\ lists = [u \in Ring |-> Visited(Links, u)]
        /\ lists' = [u \in Ring |-> Visited(Links, u)]'
    BY DEF lists, ListsOf
  <1> QED
    <2> HIDE DEF lists
    <2>1. Abstract!ToSet(lists[r]) = ToSet(lists[r]) /\ Abstract!RemoveFirst(lists[r], n) = RemoveFirst(lists[r], n)
      BY SameOperators
    <2> QED
      BY <1>1, <1>5, <1>6, <1>7, <1>8, <2>1 DEF Abstract!Move

LEMMA DequeueStep ==
  ASSUME RingInv, Dequeue
  PROVE  RingInv' /\ \E n \in Node : Abstract!TakeOff(Queue, n)
PROOF
  <1> DEFINE q == Visited(Links, Queue)
  <1>1. Links \in LinkSet /\ Closes(Links, Queue, q) /\ Queue \in Ring
    BY StepIsAbstract, RingsAre DEF AllClose
  <1>2. Links.head[Queue] # Null /\ Becomes(Dequeued(Links))
    BY DEF Dequeue, Links
  <1>3. q # <<>> /\ Dequeued(Links) = Removed(Links, Queue, q[1])
    BY <1>1, <1>2, DequeuedIs
  <1>4. q[1] \in Node /\ q[1] \in ToSet(q)
    <2>1. /\ \A i \in 1 .. Len(q) : q[i] \in Node /\ q[i] \in ToSet(q)
          /\ Len(q) \in Nat /\ Len(q) >= 1
      BY <1>1, <1>3, PlacesOf
    <2> QED
      BY <2>1
  <1>5. RingInv' /\ Abstract!TakeOff(Queue, q[1])
    BY <1>1, <1>2, <1>3, <1>4, UnlinkStep
  <1> QED
    BY <1>4, <1>5

LEMMA InsertStep ==
  ASSUME RingInv, NEW n \in Node, Insert(n)
  PROVE  RingInv' /\ Abstract!Insert(Objects, n)
PROOF
  <1> DEFINE M == Inserted(Links, Objects, n)
  <1>1. Free(n) /\ FreeIn(Links, n) /\ Becomes(M) /\ AllClose(Links)
    BY StepIsAbstract DEF Insert
  <1>2. /\ M \in LinkSet /\ AllClose(M)
        /\ \E a \in Seq(Node) :
             /\ ListsOf(M) = [lists EXCEPT ![Objects] = a]
             /\ Ascending(a) /\ ToSet(a) = ToSet(Visited(Links, Objects)) \cup {n}
    BY <1>1, AllCloseInsert DEF lists
  <1> HIDE DEF M
  <1>3. RingInv' /\ lists' = ListsOf(M)
    BY <1>1, <1>2, LinksNext
  <1>4. PICK a \in Seq(Node) :
             /\ lists' = [lists EXCEPT ![Objects] = a]
             /\ Ascending(a) /\ ToSet(a) = ToSet(Visited(Links, Objects)) \cup {n}
    BY <1>2, <1>3
  <1>5. DOMAIN lists = Ring /\ Objects \in Ring /\ lists[Objects] = Visited(Links, Objects)
    BY RingsAre DEF lists, ListsOf
  <1>6. lists'[Objects] = a /\ lists' = [lists EXCEPT ![Objects] = lists'[Objects]]
    BY <1>4, <1>5
  <1>7. ToSet(lists'[Objects]) = ToSet(lists[Objects]) \cup {n}
    BY <1>4, <1>5, <1>6
  <1>8. lists'[Objects] \in Seq(Node) /\ Ascending(lists'[Objects])
    BY <1>4, <1>6
  <1>9. Abstract!Free(n)
    BY <1>1, StepIsAbstract
  <1>10. /\ lists = [r \in Ring |-> Visited(Links, r)]
         /\ lists' = [r \in Ring |-> Visited(Links, r)]'
    BY DEF lists, ListsOf
  <1> HIDE DEF lists
  <1> QED
    BY <1>3, <1>6, <1>7, <1>8, <1>9, <1>10, SameOperators DEF Abstract!Insert

LEMMA ClearStep ==
  ASSUME RingInv, Clear
  PROVE  RingInv' /\ Abstract!Clear(Objects)
PROOF
  <1> DEFINE M == Cleared(Links, Objects)
  <1>1. AllClose(Links) /\ Becomes(M) /\ Objects \in Ring
    BY StepIsAbstract, RingsAre DEF Clear
  <1>2. M \in LinkSet /\ AllClose(M) /\ ListsOf(M) = [lists EXCEPT ![Objects] = <<>>]
    BY <1>1, AllCloseClear DEF lists
  <1> HIDE DEF M
  <1>3. RingInv' /\ lists' = [lists EXCEPT ![Objects] = <<>>]
    BY <1>1, <1>2, LinksNext
  <1> QED
    BY <1>3 DEF Abstract!Clear, lists, ListsOf

LEMMA RingInit == Init => RingInv /\ Abstract!Init
PROOF
  <1> SUFFICES ASSUME Init PROVE RingInv /\ Abstract!Init
    OBVIOUS
  <1>1. Links \in LinkSet /\ \A r \in Ring : Links.head[r] = Null
    BY DEF Init, LinkSet, Links
  <1>2. \A r \in Ring : Closes(Links, r, <<>>)
    BY <1>1 DEF Closes, IsInjective
  <1>3. \A r \in Ring : Visited(Links, r) = <<>>
    BY <1>1 DEF Visited
  <1>4. ToSet(<<>>) = {} /\ Ascending(<<>>)
    BY DEF ToSet, Ascending
  <1>5. AllClose(Links)
    BY <1>1, <1>2, <1>3, <1>4, RingsAre DEF AllClose
  <1>6. (Clients \cup {Queue}) \cup {Objects} = Ring
    BY DEF Ring
  <1>7. Abstract!Init
    BY <1>3, <1>6 DEF Abstract!Init
  <1> QED
    BY <1>5, <1>7, InvIsAllClose

LEMMA RingNext ==
  RingInv /\ [Next]_vars =>
    RingInv' /\ [Abstract!Next]_[r \in Ring |-> Visited(Links, r)]
PROOF
  <1> SUFFICES ASSUME RingInv, [Next]_vars
               PROVE  RingInv' /\ [Abstract!Next]_[r \in Ring |-> Visited(Links, r)]
    OBVIOUS
  <1>1. CASE UNCHANGED vars
    <2>1. Links' = Links
      BY <1>1 DEF vars, Links
    <2>2. AllClose(Links')
      BY <2>1, InvIsAllClose
    <2>3. AllClose(Links)'
      BY <2>2
    <2>4. lists' = lists
      BY <2>1 DEF lists, ListsOf, Visited, Steps
    <2>5. RingInv'
      BY <2>3, InvIsAllClose, PTL
    <2> QED
      BY <2>4, <2>5 DEF lists, ListsOf
  <1>2. ASSUME NEW r \in Clients \cup {Queue}, NEW n \in Node, Add(r, n)
        PROVE  RingInv' /\ Abstract!Next
    BY <1>2, AddStep DEF Abstract!Next
  <1>3. ASSUME NEW r \in Clients \cup {Objects}, NEW n \in Node, Unlink(r, n)
        PROVE  RingInv' /\ Abstract!Next
    <2>1. /\ r \in Ring /\ r \in (Clients \cup {Queue}) \cup {Objects}
          /\ n \in ToSet(Visited(Links, r)) /\ Becomes(Removed(Links, r, n))
      BY <1>3, RingsAre DEF Unlink
    <2>2. RingInv' /\ Abstract!TakeOff(r, n)
      BY <2>1, UnlinkStep
    <2> QED
      BY <2>1, <2>2 DEF Abstract!Next
  <1>4. ASSUME NEW r \in Clients, NEW t \in Clients, NEW n \in Node, Switch(r, t, n)
        PROVE  RingInv' /\ Abstract!Next
    BY <1>4, SwitchStep DEF Abstract!Next
  <1>5. ASSUME Dequeue PROVE RingInv' /\ Abstract!Next
    BY <1>5, DequeueStep DEF Abstract!Next
  <1>6. ASSUME Clear PROVE RingInv' /\ Abstract!Next
    BY <1>6, ClearStep DEF Abstract!Next
  <1>7. ASSUME NEW n \in Node, Insert(n) PROVE RingInv' /\ Abstract!Next
    BY <1>7, InsertStep DEF Abstract!Next
  <1> QED
    BY <1>1, <1>2, <1>3, <1>4, <1>5, <1>6, <1>7 DEF Next

--------------------------------------------------------------------------------
(* Theorems *)

\* Whatever the order of the operations, the pointers have their types, the rings
\* close, share no node, and the objects are in the order of their keys.
THEOREM RingInvariance == Spec => []RingInv
PROOF
  <1>1. Init => RingInv
    BY RingInit
  <1>2. RingInv /\ [Next]_vars => RingInv'
    BY RingNext
  <1> QED
    BY <1>1, <1>2, PTL DEF Spec

\* The loops of list.c, queue.c and object_list.c end: each ring leads back to its
\* head, forward and backward, with any number of nodes.
THEOREM RingsAlwaysClose == Spec => []RingsClose
PROOF
  <1>1. RingInv => RingsClose
    <2> SUFFICES ASSUME RingInv, NEW r \in Ring
                 PROVE  LET ring == Visited(Links, r) IN
                          /\ IsInjective(ring)
                          /\ \A i \in DOMAIN ring :
                               prev[ring[i]] = ring[IF i = 1 THEN Len(ring) ELSE i - 1]
      BY DEF RingsClose
    <2> DEFINE q == Visited(Links, r)
    <2>1. Closes(Links, r, q) /\ Links.prev = prev
      BY DEF RingInv, Links
    <2> HIDE DEF q
    <2>2. q \in Seq(Node) /\ DOMAIN q = 1 .. Len(q)
      BY <2>1 DEF Closes
    <2> QED
      BY <2>1, <2>2 DEF Closes, q
  <1> QED
    BY <1>1, RingInvariance, PTL

\* No node is on two rings, whatever the number of the boards: join_db takes a node off
\* its list before it links it into another.  (A client that connects twice has two nodes.)
THEOREM NodesAreOnOneRing == Spec => []OneRing
PROOF
  <1>1. RingInv => OneRing
    BY DEF RingInv
  <1> QED
    BY <1>1, RingInvariance, PTL

\* The pointers implement the lists: requests are replayed in the order in which they
\* came, clients keep their order, and objects are shown in the order of their keys.
THEOREM RingsAreLists == Spec => ImplementsLists
PROOF
  <1>1. Init => Abstract!Init
    BY RingInit
  <1>2. RingInv /\ [Next]_vars => [Abstract!Next]_[r \in Ring |-> Visited(Links, r)]
    BY RingNext
  <1> QED
    BY <1>1, <1>2, RingInvariance, PTL DEF Spec, ImplementsLists, Abstract!Spec
================================================================================
