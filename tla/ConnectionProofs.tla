--------------------------- MODULE ConnectionProofs ----------------------------
(***************************************************************************)
(* Types and connections: for any number of clients, servers, boards,      *)
(* commands and faults, the variables keep their types, and a client that  *)
(* has read its messages and believes itself connected is.                 *)
(*                                                                         *)
(* The first part is about the data of the model: sequences, the inboxes   *)
(* and what each way to send a message does to them, files and lists of    *)
(* boards.  The second is one lemma for each action and each part of the   *)
(* type invariant.  The third is the connection: at each step either the   *)
(* group of a client and its server is as it was, or the client has a      *)
(* message on its way that says how it is.                                 *)
(***************************************************************************)
EXTENDS SessionInvariant, FiniteSetTheorems, WellFoundedInduction, TLAPS

--------------------------------------------------------------------------------
(* Sequences *)

\* Least number principle.
LEMMA LeastNatural ==
  ASSUME NEW S, S \subseteq Nat, S # {}
  PROVE  \E n \in S : \A m \in S : n <= m
PROOF
  <1>1. PICK n \in S : \A m \in S : ~ (<<m, n>> \in OpToRel(<, Nat))
    BY WFMin, NatLessThanWellFounded
  <1>2. ASSUME NEW m \in S PROVE n <= m
    BY <1>1, m \in Nat, n \in Nat, ~ (<<m, n>> \in OpToRel(<, Nat)) DEF OpToRel
  <1> QED
    BY <1>2

\* A bounded set of naturals has a greatest element.
LEMMA GreatestNatural ==
  ASSUME NEW S, S \subseteq Nat, S # {}, NEW n \in Nat, \A m \in S : m <= n
  PROVE  \E k \in S : \A m \in S : m <= k
PROOF
  <1> DEFINE D == {d \in 0 .. n : n - d \in S}
  <1>1. D \subseteq Nat
    OBVIOUS
  <1>2. PICK x \in S : TRUE
    OBVIOUS
  <1>3. n - x \in D
    BY <1>2
  <1> HIDE DEF D
  <1>4. PICK d \in D : \A e \in D : d <= e
    BY <1>1, <1>3, LeastNatural
  <1>5. n - d \in S /\ d \in 0 .. n
    BY <1>4 DEF D
  <1>6. ASSUME NEW m \in S PROVE m <= n - d
    <2>1. m \in Nat /\ m <= n
      OBVIOUS
    <2>2. n - m \in D
      BY <2>1 DEF D
    <2>3. d <= n - m
      BY <2>2, <1>4
    <2> QED
      BY <2>1, <2>3, <1>5
  <1> QED
    BY <1>5, <1>6

\* The entries of a sequence with one more, without its first, and of two in a row.
LEMMA AppendAt ==
  ASSUME NEW S, NEW q \in Seq(S), NEW m \in S
  PROVE  /\ Append(q, m) \in Seq(S) /\ Len(Append(q, m)) = Len(q) + 1
         /\ DOMAIN q = 1 .. Len(q) /\ Len(q) \in Nat
         /\ DOMAIN Append(q, m) = 1 .. Len(q) + 1
         /\ \A i \in 1 .. Len(q) : Append(q, m)[i] = q[i]
         /\ Append(q, m)[Len(q) + 1] = m
PROOF
  OBVIOUS

LEMMA TailAt ==
  ASSUME NEW S, NEW q \in Seq(S), q # <<>>
  PROVE  /\ Tail(q) \in Seq(S) /\ Len(Tail(q)) = Len(q) - 1 /\ Head(q) \in S
         /\ DOMAIN q = 1 .. Len(q) /\ Len(q) \in Nat /\ Len(q) >= 1 /\ q[1] = Head(q)
         /\ DOMAIN Tail(q) = 1 .. Len(q) - 1
         /\ \A i \in 1 .. Len(q) - 1 : Tail(q)[i] = q[i + 1]
PROOF
  <1>1. Len(q) \in Nat /\ Len(q) >= 1
    OBVIOUS
  <1> QED
    BY <1>1

LEMMA ConcatAt ==
  ASSUME NEW S, NEW q \in Seq(S), NEW r \in Seq(S)
  PROVE  /\ q \o r \in Seq(S) /\ Len(q \o r) = Len(q) + Len(r)
         /\ DOMAIN q = 1 .. Len(q) /\ Len(q) \in Nat /\ DOMAIN r = 1 .. Len(r) /\ Len(r) \in Nat
         /\ DOMAIN (q \o r) = 1 .. Len(q) + Len(r)
         /\ \A i \in 1 .. Len(q) : (q \o r)[i] = q[i]
         /\ \A i \in 1 .. Len(r) : (q \o r)[Len(q) + i] = r[i]
PROOF
  OBVIOUS

\* A sequence is empty when nothing is in it.
LEMMA EmptySeq ==
  ASSUME NEW S, NEW q, q = <<>>
  PROVE  q \in Seq(S) /\ Len(q) = 0 /\ DOMAIN q = {}
PROOF
  <1>1. q \in Seq(S) /\ Len(q) = 0
    OBVIOUS
  <1> QED
    BY <1>1

LEMMA NothingIn ==
  ASSUME NEW q, DOMAIN q = {}
  PROVE  ToSet(q) = {}
PROOF
  BY DEF ToSet

\* RemoveFirst takes one element away and closes the gap.
LEMMA RemoveFirstAt ==
  ASSUME NEW S, NEW q \in Seq(S), NEW e, e \in ToSet(q)
  PROVE  \E k \in 1 .. Len(q) :
           /\ q[k] = e /\ RemoveFirst(q, e) \in Seq(S)
           /\ DOMAIN RemoveFirst(q, e) = 1 .. Len(q) - 1
           /\ \A j \in 1 .. Len(q) - 1 : RemoveFirst(q, e)[j] = IF j < k THEN q[j] ELSE q[j + 1]
PROOF
  <1> DEFINE I == {i \in 1 .. Len(q) : q[i] = e}
             k == SelectInSeq(q, LAMBDA v : v = e)
             R == SubSeq(q, 1, k - 1) \o SubSeq(q, k + 1, Len(q))
  <1>1. I # {} /\ I \subseteq Nat
    BY DEF ToSet
  <1>2. k = Min(I)
    BY <1>1 DEF SelectInSeq
  <1>3. \E i \in I : \A j \in I : i <= j
    BY <1>1, LeastNatural
  <1>4. Min(I) \in I
    BY <1>3 DEF Min
  <1>5. k \in 1 .. Len(q) /\ q[k] = e
    BY <1>2, <1>4
  <1>6. RemoveFirst(q, e) = R
    BY <1>5 DEF RemoveFirst, RemoveAt
  <1> HIDE DEF k, I
  <1>7. /\ SubSeq(q, 1, k - 1) \in Seq(S) /\ Len(SubSeq(q, 1, k - 1)) = k - 1
        /\ SubSeq(q, k + 1, Len(q)) \in Seq(S) /\ Len(SubSeq(q, k + 1, Len(q))) = Len(q) - k
        /\ \A j \in 1 .. k - 1 : SubSeq(q, 1, k - 1)[j] = q[j]
        /\ \A j \in 1 .. Len(q) - k : SubSeq(q, k + 1, Len(q))[j] = q[k + j]
    BY <1>5
  <1> DEFINE A == SubSeq(q, 1, k - 1)
             B == SubSeq(q, k + 1, Len(q))
  <1>70. A \in Seq(S) /\ B \in Seq(S) /\ Len(A) = k - 1 /\ Len(B) = Len(q) - k
    BY <1>7
  <1> HIDE DEF A, B
  <1>71. /\ A \o B \in Seq(S) /\ DOMAIN (A \o B) = 1 .. Len(A) + Len(B)
         /\ \A j \in 1 .. Len(A) : (A \o B)[j] = A[j]
         /\ \A j \in 1 .. Len(B) : (A \o B)[Len(A) + j] = B[j]
    BY <1>70
  <1>72. R = A \o B
    BY DEF A, B
  <1>73. Len(A) + Len(B) = Len(q) - 1
    BY <1>5, <1>70
  <1>8. R \in Seq(S) /\ DOMAIN R = 1 .. Len(q) - 1
    BY <1>71, <1>72, <1>73
  <1>9. ASSUME NEW j \in 1 .. Len(q) - 1
        PROVE  R[j] = IF j < k THEN q[j] ELSE q[j + 1]
    <2>1. CASE j < k
      <3>1. j \in 1 .. Len(A)
        BY <2>1, <1>5, <1>70
      <3>2. R[j] = A[j]
        BY <3>1, <1>71, <1>72
      <3>3. A[j] = q[j]
        BY <3>1, <1>7, <1>70 DEF A
      <3> QED
        BY <2>1, <3>2, <3>3
    <2>2. CASE ~ (j < k)
      <3>1. j - (k - 1) \in 1 .. Len(q) - k /\ k + (j - (k - 1)) = j + 1
        BY <2>2, <1>5
      <3>2. R[j] = B[j - (k - 1)]
        <4>1. Len(A) + (j - (k - 1)) = j /\ j - (k - 1) \in 1 .. Len(B)
          BY <1>5, <1>70, <3>1
        <4> QED
          BY <4>1, <1>71, <1>72
      <3> QED
        BY <2>2, <3>1, <3>2, <1>7 DEF B
    <2> QED
      BY <2>1, <2>2
  <1> QED
    BY <1>5, <1>6, <1>8, <1>9

\* What RemoveFirst leaves on a list on which the element is once.
LEMMA RemoveFirstFacts ==
  ASSUME NEW S, NEW q \in Seq(S), NEW e
  PROVE  /\ RemoveFirst(q, e) \in Seq(S)
         /\ ToSet(RemoveFirst(q, e)) \subseteq ToSet(q)
         /\ ToSet(q) \ {e} \subseteq ToSet(RemoveFirst(q, e))
         /\ \A d : Once(q, d) => Once(RemoveFirst(q, e), d)
         /\ Once(q, e) => e \notin ToSet(RemoveFirst(q, e))
PROOF
  <1>1. CASE e \in ToSet(q)
    <2> DEFINE R == RemoveFirst(q, e)
    <2>1. PICK k \in 1 .. Len(q) :
            /\ q[k] = e /\ R \in Seq(S) /\ DOMAIN R = 1 .. Len(q) - 1
            /\ \A j \in 1 .. Len(q) - 1 : R[j] = IF j < k THEN q[j] ELSE q[j + 1]
      BY <1>1, RemoveFirstAt
    <2>2. DOMAIN q = 1 .. Len(q) /\ Len(q) \in Nat
      OBVIOUS
    <2> HIDE DEF R
    <2>3. ToSet(R) \subseteq ToSet(q)
      BY <2>1, <2>2 DEF ToSet
    <2>4. ASSUME NEW x \in ToSet(q), x # e PROVE x \in ToSet(R)
      <3>1. PICK i \in 1 .. Len(q) : q[i] = x
        BY <2>2 DEF ToSet
      <3>2. i # k
        BY <3>1, <2>1, <2>4
      <3>3. CASE i < k
        BY <3>1, <3>3, <2>1, <2>2, i \in 1 .. Len(q) - 1, R[i] = x DEF ToSet
      <3>4. CASE i > k
        BY <3>1, <3>4, <2>1, <2>2, i - 1 \in 1 .. Len(q) - 1, R[i - 1] = x DEF ToSet
      <3> QED
        BY <3>2, <3>3, <3>4
    <2>5. ASSUME NEW d, Once(q, d) PROVE Once(R, d)
      <3> SUFFICES ASSUME NEW i \in DOMAIN R, NEW j \in DOMAIN R, R[i] = d, R[j] = d PROVE i = j
        BY DEF Once
      <3> DEFINE f(n) == IF n < k THEN n ELSE n + 1
      <3>1. i \in 1 .. Len(q) - 1 /\ j \in 1 .. Len(q) - 1
        BY <2>1
      <3>2. f(i) \in 1 .. Len(q) /\ f(j) \in 1 .. Len(q) /\ q[f(i)] = d /\ q[f(j)] = d
        BY <3>1, <2>1, <2>2
      <3>3. f(i) = f(j)
        BY <3>2, <2>2, <2>5 DEF Once
      <3> QED
        BY <3>1, <3>3
    <2>6. ASSUME Once(q, e), e \in ToSet(R) PROVE FALSE
      <3>1. PICK i \in 1 .. Len(q) - 1 : R[i] = e
        BY <2>1, <2>6 DEF ToSet
      <3>2. CASE i < k
        <4>1. q[i] = e /\ i \in 1 .. Len(q)
          BY <3>1, <3>2, <2>1, <2>2
        <4> QED
          BY <4>1, <3>2, <2>1, <2>2, <2>6 DEF Once
      <3>3. CASE ~ (i < k)
        <4>1. q[i + 1] = e /\ i + 1 \in 1 .. Len(q) /\ i + 1 # k
          BY <3>1, <3>3, <2>1, <2>2
        <4> QED
          BY <4>1, <2>1, <2>2, <2>6 DEF Once
      <3> QED
        BY <3>2, <3>3
    <2> QED
      BY <2>1, <2>3, <2>4, <2>5, <2>6 DEF R
  <1>2. CASE e \notin ToSet(q)
    <2>1. RemoveFirst(q, e) = q
      BY <1>2 DEF RemoveFirst, ToSet
    <2> QED
      BY <1>2, <2>1
  <1> QED
    BY <1>1, <1>2

\* What Append puts on a list.
LEMMA AppendedFacts ==
  ASSUME NEW S, NEW q \in Seq(S), NEW e \in S
  PROVE  /\ Append(q, e) \in Seq(S) /\ ToSet(Append(q, e)) = ToSet(q) \cup {e}
         /\ \A d : d # e /\ Once(q, d) => Once(Append(q, e), d)
         /\ e \notin ToSet(q) => Once(Append(q, e), e)
PROOF
  <1>1. /\ Append(q, e) \in Seq(S)
        /\ DOMAIN q = 1 .. Len(q) /\ Len(q) \in Nat
        /\ DOMAIN Append(q, e) = 1 .. Len(q) + 1
        /\ \A i \in 1 .. Len(q) : Append(q, e)[i] = q[i]
        /\ Append(q, e)[Len(q) + 1] = e
    BY AppendAt
  <1>2. \A i \in 1 .. Len(q) + 1 : i \in 1 .. Len(q) \/ i = Len(q) + 1
    BY <1>1
  <1>3. \A i \in 1 .. Len(q) : i \in 1 .. Len(q) + 1
    BY <1>1
  <1> DEFINE A == Append(q, e)
  <1> HIDE DEF A
  <1>4. ToSet(A) = ToSet(q) \cup {e}
    BY <1>1, <1>2, <1>3 DEF ToSet, A
  <1>5. ASSUME NEW d, d # e, Once(q, d) PROVE Once(A, d)
    BY <1>1, <1>2, <1>5 DEF Once, A
  <1>6. ASSUME e \notin ToSet(q) PROVE Once(A, e)
    BY <1>1, <1>2, <1>6 DEF Once, ToSet, A
  <1> QED
    BY <1>1, <1>4, <1>5, <1>6 DEF A

--------------------------------------------------------------------------------
(* Finite sets of numbers in their order *)

\* Increasing sequences of the elements of a set.
Increasing(S, q) == \A i, j \in DOMAIN q : i < j => q[i] < q[j]

\* Every finite set of numbers can be put in order.
LEMMA AscendingExists ==
  ASSUME NEW S, S \subseteq Nat, IsFiniteSet(S)
  PROVE  \E q \in [1 .. Cardinality(S) -> S] : Increasing(S, q)
PROOF
  <1> DEFINE Good(T) == \E q \in [1 .. Cardinality(T) -> T] : Increasing(T, q)
             Bad == {n \in Nat : \E T \in SUBSET S : Cardinality(T) = n /\ ~ Good(T)}
  <1>1. Cardinality(S) \in Nat
    BY FS_CardinalityType
  <1>2. SUFFICES ASSUME Bad # {} PROVE FALSE
    BY <1>1, <1>2, S \in SUBSET S
  <1>3. PICK n \in Bad : \A m \in Bad : n <= m
    BY <1>2, LeastNatural
  <1>4. PICK T \in SUBSET S : Cardinality(T) = n /\ ~ Good(T)
    BY <1>3
  <1>5. IsFiniteSet(T) /\ n \in Nat /\ T \subseteq Nat
    BY <1>3, FS_Subset
  <1>6. T # {}
    <2>1. ASSUME T = {} PROVE FALSE
      <3>1. 1 .. Cardinality(T) = {}
        BY <2>1, FS_EmptySet
      <3>2. [x \in {} |-> x] \in [1 .. Cardinality(T) -> T]
        BY <3>1
      <3>3. Increasing(T, [x \in {} |-> x])
        BY DEF Increasing
      <3> QED
        BY <3>2, <3>3, <1>4
    <2> QED
      BY <2>1
  <1>7. PICK x \in T : \A y \in T : x <= y
    BY <1>5, <1>6, LeastNatural
  <1>8. Cardinality(T \ {x}) = n - 1 /\ n >= 1
    <2>1. n # 0
      BY <1>4, <1>5, <1>6, FS_EmptySet
    <2>2. Cardinality(T \ {x}) = Cardinality(T) - 1
      BY <1>5, <1>7, FS_RemoveElement
    <2> QED
      BY <2>1, <2>2, <1>4, <1>5
  <1>9. Good(T \ {x})
    <2>1. n - 1 \in Nat /\ n - 1 \notin Bad
      BY <1>3, <1>5, <1>8
    <2> QED
      BY <2>1, <1>8, T \ {x} \in SUBSET S
  <1>10. PICK q \in [1 .. n - 1 -> T \ {x}] : Increasing(T \ {x}, q)
    BY <1>8, <1>9
  <1> DEFINE p == [i \in 1 .. n |-> IF i = 1 THEN x ELSE q[i - 1]]
  <1>11. ASSUME NEW i \in 1 .. n, i # 1 PROVE i - 1 \in 1 .. n - 1 /\ q[i - 1] \in T /\ x < q[i - 1]
    <2>1. i - 1 \in 1 .. n - 1
      BY <1>5, <1>11
    <2>2. q[i - 1] \in T \ {x}
      BY <2>1, <1>10
    <2>3. x \in Nat /\ q[i - 1] \in Nat /\ x <= q[i - 1] /\ q[i - 1] # x
      BY <2>2, <1>5, <1>7
    <2> QED
      BY <2>1, <2>2, <2>3
  <1>12. p \in [1 .. Cardinality(T) -> T]
    BY <1>4, <1>7, <1>11
  <1>13. ASSUME NEW i \in 1 .. n, NEW j \in 1 .. n, i < j PROVE p[i] < p[j]
    <2>1. j # 1 /\ j - 1 \in 1 .. n - 1 /\ p[j] = q[j - 1] /\ x < q[j - 1]
      BY <1>11, <1>13, <1>5
    <2>2. CASE i = 1
      BY <2>1, <2>2
    <2>3. CASE i # 1
      <3>1. i - 1 \in 1 .. n - 1 /\ p[i] = q[i - 1] /\ i - 1 < j - 1
        BY <1>11, <1>13, <1>5, <2>3
      <3> QED
        BY <3>1, <2>1, <1>10 DEF Increasing
    <2> QED
      BY <2>2, <2>3
  <1>14. Increasing(T, p)
    BY <1>13 DEF Increasing
  <1> QED
    BY <1>4, <1>12, <1>14

\* Ascending lists all elements, each once.
LEMMA AscendingFacts ==
  ASSUME NEW S, S \subseteq Nat, IsFiniteSet(S)
  PROVE  /\ Cardinality(S) \in Nat
         /\ Ascending(S) \in [1 .. Cardinality(S) -> S] /\ Ascending(S) \in Seq(S)
         /\ \A i, j \in DOMAIN Ascending(S) : Ascending(S)[i] = Ascending(S)[j] => i = j
         /\ \A x \in S : \E i \in DOMAIN Ascending(S) : Ascending(S)[i] = x
PROOF
  <1> DEFINE q == Ascending(S)
  <1>1. Cardinality(S) \in Nat
    BY FS_CardinalityType
  <1>2. q \in [1 .. Cardinality(S) -> S] /\ \A i, j \in DOMAIN q : i < j => q[i] < q[j]
    BY AscendingExists DEF Ascending, Increasing
  <1> HIDE DEF q
  <1>3. q \in Seq(S)
    BY <1>1, <1>2
  <1>4. ASSUME NEW i \in DOMAIN q, NEW j \in DOMAIN q, q[i] = q[j] PROVE i = j
    <2>0. i \in 1 .. Cardinality(S) /\ j \in 1 .. Cardinality(S)
      BY <1>2
    <2>1. i \in Nat /\ j \in Nat
      BY <2>0, <1>1
    <2>2. q[i] \in Nat /\ q[j] \in Nat
      BY <2>0, <1>2
    <2>3. ~ (i < j) /\ ~ (j < i)
      <3>1. ~ (q[i] < q[j]) /\ ~ (q[j] < q[i])
        BY <2>2, <1>4
      <3> QED
        BY <3>1, <1>2
    <2> QED
      BY <2>1, <2>3
  <1>5. ASSUME NEW x \in S, \A i \in DOMAIN q : q[i] # x PROVE FALSE
    <2>1. q \in [1 .. Cardinality(S) -> S \ {x}]
      BY <1>2, <1>5
    <2>2. IsFiniteSet(S \ {x}) /\ Cardinality(S \ {x}) = Cardinality(S) - 1
      BY FS_RemoveElement
    <2>3. IsFiniteSet(1 .. Cardinality(S)) /\ Cardinality(1 .. Cardinality(S)) = Cardinality(S)
      BY <1>1, FS_Interval
    <2>4. \E i, j \in 1 .. Cardinality(S) : i # j /\ q[i] = q[j]
      BY <2>1, <2>2, <2>3, <1>1, FS_PigeonHole
    <2> QED
      BY <2>4, <1>2, <1>4
  <1> QED
    BY <1>1, <1>2, <1>3, <1>4, <1>5 DEF q

--------------------------------------------------------------------------------
(* Messages and boxes *)

\* Clients are no servers, and no server has the number of NoServer.
LEMMA Processes ==
  /\ \A c \in Client : c \in Proc /\ c \notin Server /\ c \notin Nat
  /\ \A s \in Server : s \in Proc /\ s \notin Client /\ s \in Nat /\ s # NoServer
  /\ NoServer \notin Server
PROOF
  BY ServerAssumption DEF Proc, NoServer

\* What is sent has the types of messages.
LEMMA ClientMessages ==
  /\ \A s \in Server, n \in {1, 2}, cause \in {"join", "gone", "network"} :
       /\ Membership(s, n, cause) \in ClientMessage
       /\ Membership(s, n, cause).type = "Membership" /\ Membership(s, n, cause).group = s
       /\ Membership(s, n, cause).members = n /\ Membership(s, n, cause).cause = cause
  /\ \A op \in {"a", "e", "d", "v"}, i \in Nat :
       Response(op, i) \in ClientMessage /\ Response(op, i).type = "Response"
PROOF
  BY DEF Membership, Response, ClientMessage

LEMMA ServerMessages ==
  /\ \A c \in Client : /\ Left(c) \in ServerMessage /\ Left(c).type = "Left" /\ Left(c).client = c
  /\ \A op \in {"c", "v"}, c \in Client :
       Request(op, c, NoBoard, 0, NoBoard) \in RequestMessage
  /\ \A op \in {"j", "a", "e", "d"}, c \in Client, b \in Board, i \in Nat, d \in Place :
       Request(op, c, b, i, d) \in RequestMessage
  /\ \A op \in {"a", "e", "d"}, b \in Board, i \in Nat :
       Update(op, b, i) \in UpdateMessage
  /\ \A m \in RequestMessage \cup UpdateMessage : m \in ServerMessage
PROOF
  <1>1. \A c \in Client : /\ Left(c) \in ServerMessage /\ Left(c).type = "Left" /\ Left(c).client = c
    BY DEF Left, ServerMessage
  <1>2. \A op \in {"c", "v"}, c \in Client :
          Request(op, c, NoBoard, 0, NoBoard) \in RequestMessage
    BY DEF Request, RequestMessage, Place
  <1>3. ASSUME NEW op \in {"j", "a", "e", "d"}, NEW c \in Client, NEW b \in Board, NEW i \in Nat,
               NEW d \in Place
        PROVE  Request(op, c, b, i, d) \in RequestMessage
    BY DEF Request, RequestMessage, Place
  <1>4. \A op \in {"a", "e", "d"}, b \in Board, i \in Nat : Update(op, b, i) \in UpdateMessage
    BY DEF Update, UpdateMessage
  <1>5. \A m \in RequestMessage \cup UpdateMessage : m \in ServerMessage
    BY DEF ServerMessage
  <1> QED
    BY <1>1, <1>2, <1>3, <1>4, <1>5

LEMMA RequestParts ==
  ASSUME NEW op, NEW c, NEW b, NEW i, NEW d
  PROVE  /\ Request(op, c, b, i, d).type = "Client" /\ Request(op, c, b, i, d).op = op
         /\ Request(op, c, b, i, d).client = c /\ Request(op, c, b, i, d).db_name = b
         /\ Request(op, c, b, i, d).obj = d
PROOF
  BY DEF Request

\* The kinds of messages, and what each has.
LEMMA MessageKinds ==
  /\ \A m \in ClientMessage :
       \/ /\ m.type = "Membership" /\ m.group \in Server /\ m.members \in {1, 2}
          /\ m.cause \in {"join", "gone", "network"}
       \/ m.type = "Response" /\ m.op \in {"a", "e", "d", "v"} /\ m.obj_id \in Nat
  /\ \A m \in ServerMessage :
       \/ m.type = "Left" /\ m.client \in Client /\ m = Left(m.client)
       \/ m.type = "Client" /\ m \in RequestMessage
       \/ m.type = "Update" /\ m \in UpdateMessage
  /\ \A m \in RequestMessage :
       /\ m.type = "Client" /\ m.op \in {"c", "j", "a", "e", "d", "v"} /\ m.client \in Client
       /\ m.db_name \in Place /\ m.obj_id \in Nat /\ m.obj \in Place
       /\ m.op \in {"j", "a", "e", "d"} => m.db_name \in Board
  /\ \A m \in UpdateMessage :
       /\ m.type = "Update" /\ m.op \in {"a", "e", "d"} /\ m.db_name \in Board /\ m.obj_id \in Nat
PROOF
  <1>1. \A m \in ClientMessage :
          \/ /\ m.type = "Membership" /\ m.group \in Server /\ m.members \in {1, 2}
             /\ m.cause \in {"join", "gone", "network"}
          \/ m.type = "Response" /\ m.op \in {"a", "e", "d", "v"} /\ m.obj_id \in Nat
    BY DEF ClientMessage
  <1>2. \A m \in RequestMessage :
          /\ m.type = "Client" /\ m.op \in {"c", "j", "a", "e", "d", "v"} /\ m.client \in Client
          /\ m.db_name \in Place /\ m.obj_id \in Nat /\ m.obj \in Place
          /\ m.op \in {"j", "a", "e", "d"} => m.db_name \in Board
    BY DEF RequestMessage
  <1>3. \A m \in UpdateMessage :
          m.type = "Update" /\ m.op \in {"a", "e", "d"} /\ m.db_name \in Board /\ m.obj_id \in Nat
    BY DEF UpdateMessage
  <1>4. \A m \in [type : {"Left"}, client : Client] :
          m.type = "Left" /\ m.client \in Client /\ m = Left(m.client)
    BY DEF Left
  <1> QED
    BY <1>1, <1>2, <1>3, <1>4 DEF ServerMessage

\* The inboxes, and what each way to send a message does to them.
LEMMA BoxAt ==
  ASSUME NEW box, IsBox(box)
  PROVE  /\ \A c \in Client : box[c] \in Seq(ClientMessage)
         /\ \A s \in Server : box[s] \in Seq(ServerMessage)
         /\ DOMAIN box = Proc
PROOF
  BY DEF IsBox

LEMMA ToAt ==
  ASSUME NEW box, IsBox(box), NEW p, NEW q \in Proc, NEW m,
         q \in Client => m \in ClientMessage, q \in Server => m \in ServerMessage
  PROVE  /\ IsBox(To(box, p, q, m))
         /\ \A r \in Proc : To(box, p, q, m)[r] =
              IF r = q /\ up[q] /\ Together(p, q) THEN Append(box[r], m) ELSE box[r]
PROOF
  <1>1. CASE up[q] /\ Together(p, q)
    <2>1. /\ q \in Client => Append(box[q], m) \in Seq(ClientMessage)
          /\ q \in Server => Append(box[q], m) \in Seq(ServerMessage)
      BY BoxAt
    <2>2. To(box, p, q, m) = [box EXCEPT ![q] = Append(box[q], m)]
      BY <1>1 DEF To
    <2> DEFINE a == Append(box[q], m)
               new == To(box, p, q, m)
    <2>3. /\ q \in Client => a \in Seq(ClientMessage)
          /\ q \in Server => a \in Seq(ServerMessage)
          /\ new = [box EXCEPT ![q] = a]
      BY <2>1, <2>2
    <2> HIDE DEF a, new
    <2>4. IsBox(new) /\ \A r \in Proc : new[r] = IF r = q THEN a ELSE box[r]
      BY <2>3, Processes DEF IsBox
    <2> QED
      BY <1>1, <2>4 DEF a, new
  <1>2. CASE ~ (up[q] /\ Together(p, q))
    <2>1. To(box, p, q, m) = box
      BY <1>2 DEF To
    <2> QED
      BY <1>2, <2>1
  <1> QED
    BY <1>1, <1>2

\* To a client or to a server.
LEMMA ToClientAt ==
  ASSUME NEW box, IsBox(box), NEW p, NEW c \in Client, NEW m \in ClientMessage
  PROVE  /\ IsBox(To(box, p, c, m))
         /\ \A r \in Proc : To(box, p, c, m)[r] =
              IF r = c /\ up[c] /\ Together(p, c) THEN Append(box[r], m) ELSE box[r]
PROOF
  <1>1. c \in Proc /\ c \notin Server
    BY Processes
  <1> QED
    BY <1>1, ToAt

LEMMA ToServerAt ==
  ASSUME NEW box, IsBox(box), NEW p, NEW s \in Server, NEW m \in ServerMessage
  PROVE  /\ IsBox(To(box, p, s, m))
         /\ \A r \in Proc : To(box, p, s, m)[r] =
              IF r = s /\ up[s] /\ Together(p, s) THEN Append(box[r], m) ELSE box[r]
PROOF
  <1>1. s \in Proc /\ s \notin Client
    BY Processes
  <1> QED
    BY <1>1, ToAt

LEMMA TogetherSelf == \A p, q : Together(p, p) /\ (Together(p, q) <=> Together(q, p))
PROOF
  BY DEF Together

LEMMA LeavingAt ==
  ASSUME NEW box, IsBox(box), NEW c \in Client, NEW s \in Server
  PROVE  /\ IsBox(Leaving(box, c, s))
         /\ \A r \in Proc : Leaving(box, c, s)[r] =
              IF r = s /\ Both(c, s) /\ up[s] THEN Append(box[r], Left(c)) ELSE box[r]
PROOF
  <1>0. Left(c) \in ServerMessage
    BY ServerMessages
  <1>1. /\ IsBox(To(box, c, s, Left(c)))
        /\ \A r \in Proc : To(box, c, s, Left(c))[r] =
             IF r = s /\ up[s] /\ Together(c, s) THEN Append(box[r], Left(c)) ELSE box[r]
    BY <1>0, ToServerAt
  <1>2. CASE Both(c, s)
    BY <1>1, <1>2 DEF Leaving, Both
  <1>3. CASE ~ Both(c, s)
    BY <1>3 DEF Leaving
  <1> QED
    BY <1>2, <1>3

LEMMA JoiningAt ==
  ASSUME NEW box, IsBox(box), NEW c \in Client, NEW s \in Server
  PROVE  /\ IsBox(Joining(box, c, s))
         /\ \A r \in Proc : Joining(box, c, s)[r] =
              IF r = c /\ up[c] /\ s \notin member[c]
                THEN Append(box[r], Membership(s, IF c \in joined[s] /\ Together(c, s) THEN 2 ELSE 1,
                                               "join"))
                ELSE box[r]
PROOF
  <1> DEFINE m == Membership(s, IF c \in joined[s] /\ Together(c, s) THEN 2 ELSE 1, "join")
  <1>1. m \in ClientMessage
    BY ClientMessages
  <1>2. Joining(box, c, s) = IF s \in member[c] THEN box ELSE To(box, c, c, m)
    BY DEF Joining
  <1> HIDE DEF m
  <1>30. /\ IsBox(To(box, c, c, m))
         /\ \A r \in Proc : To(box, c, c, m)[r] =
              IF r = c /\ up[c] /\ Together(c, c) THEN Append(box[r], m) ELSE box[r]
    BY <1>1, ToClientAt
  <1>3. /\ IsBox(To(box, c, c, m))
        /\ \A r \in Proc : To(box, c, c, m)[r] = IF r = c /\ up[c] THEN Append(box[r], m) ELSE box[r]
    BY <1>30, TogetherSelf
  <1>4. /\ IsBox(Joining(box, c, s))
        /\ \A r \in Proc : Joining(box, c, s)[r] =
             IF r = c /\ up[c] /\ s \notin member[c] THEN Append(box[r], m) ELSE box[r]
    BY <1>2, <1>3
  <1> QED
    BY <1>4 DEF m

LEMMA ServerJoinsAt ==
  ASSUME NEW box, IsBox(box), NEW c \in Client, NEW s \in Server
  PROVE  /\ IsBox(ServerJoins(box, s, c))
         /\ \A r \in Proc : ServerJoins(box, s, c)[r] =
              IF r = c /\ up[c] /\ Together(c, s) /\ s \in member[c] /\ c \notin joined[s]
                THEN Append(box[r], Membership(s, 2, "join")) ELSE box[r]
PROOF
  <1>1. Membership(s, 2, "join") \in ClientMessage
    BY ClientMessages
  <1>2. /\ IsBox(To(box, s, c, Membership(s, 2, "join")))
        /\ \A r \in Proc : To(box, s, c, Membership(s, 2, "join"))[r] =
             IF r = c /\ up[c] /\ Together(s, c) THEN Append(box[r], Membership(s, 2, "join")) ELSE box[r]
    BY <1>1, ToClientAt
  <1> QED
    BY <1>2, TogetherSelf DEF ServerJoins

LEMMA ServerLeavesAt ==
  ASSUME NEW box, IsBox(box), NEW c \in Client, NEW s \in Server
  PROVE  /\ IsBox(ServerLeaves(box, s, c))
         /\ \A r \in Proc : ServerLeaves(box, s, c)[r] =
              IF r = c /\ up[c] /\ Both(c, s) THEN Append(box[r], Membership(s, 1, "gone")) ELSE box[r]
PROOF
  <1>1. Membership(s, 1, "gone") \in ClientMessage
    BY ClientMessages
  <1>2. /\ IsBox(To(box, s, c, Membership(s, 1, "gone")))
        /\ \A r \in Proc : To(box, s, c, Membership(s, 1, "gone"))[r] =
             IF r = c /\ up[c] /\ Together(s, c) THEN Append(box[r], Membership(s, 1, "gone")) ELSE box[r]
    BY <1>1, ToClientAt
  <1>3. Both(c, s) => Together(s, c)
    BY TogetherSelf DEF Both
  <1> QED
    BY <1>2, <1>3 DEF ServerLeaves

LEMMA ReceivedAt ==
  ASSUME IsBox(inbox), NEW p \in Proc, inbox[p] # <<>>
  PROVE  /\ IsBox(Received(p))
         /\ \A r \in Proc : Received(p)[r] = IF r = p THEN Tail(inbox[r]) ELSE inbox[r]
PROOF
  <1>1. /\ p \in Client => Tail(inbox[p]) \in Seq(ClientMessage)
        /\ p \in Server => Tail(inbox[p]) \in Seq(ServerMessage)
    BY BoxAt
  <1>2. Received(p) = [inbox EXCEPT ![p] = Tail(inbox[p])]
    BY DEF Received
  <1> DEFINE a == Tail(inbox[p])
             new == Received(p)
  <1>3. /\ p \in Client => a \in Seq(ClientMessage)
        /\ p \in Server => a \in Seq(ServerMessage)
        /\ new = [inbox EXCEPT ![p] = a]
    BY <1>1, <1>2
  <1> HIDE DEF a, new
  <1>4. IsBox(new) /\ \A r \in Proc : new[r] = IF r = p THEN a ELSE inbox[r]
    BY <1>3, Processes DEF IsBox
  <1> QED
    BY <1>4 DEF a, new

\* What is at the head of a box.
LEMMA HeadOfClient ==
  ASSUME IsBox(inbox), NEW c \in Client, NEW type, Receives(c, type)
  PROVE  /\ up[c] /\ inbox[c] # <<>> /\ inbox[c] \in Seq(ClientMessage)
         /\ Head(inbox[c]) \in ClientMessage /\ Head(inbox[c]).type = type
PROOF
  BY BoxAt DEF Receives

LEMMA HeadOfServer ==
  ASSUME IsBox(inbox), NEW s \in Server, NEW type, Receives(s, type)
  PROVE  /\ up[s] /\ inbox[s] # <<>> /\ inbox[s] \in Seq(ServerMessage)
         /\ Head(inbox[s]) \in ServerMessage /\ Head(inbox[s]).type = type
PROOF
  BY BoxAt DEF Receives

--------------------------------------------------------------------------------
(* Files *)

\* A file has finitely many records, and the new key is none of them.
LEMMA FilesFinite ==
  ASSUME FileType
  PROVE  /\ IsFiniteSet(Used) /\ Used \subseteq Nat
         /\ \A s \in Server : DOMAIN file[s] \subseteq Used /\ IsFiniteSet(DOMAIN file[s])
         /\ \A s \in Server, b \in Board :
              OnBoard(s, b) \subseteq DOMAIN file[s] /\ IsFiniteSet(OnBoard(s, b))
PROOF
  <1>1. PICK n \in Nat : \A k \in Used : k <= n
    BY DEF FileType
  <1>2. Used \in SUBSET Nat
    BY DEF FileType, Used
  <1>3. IsFiniteSet(Used)
    BY <1>1, <1>2, FS_BoundedSetOfNaturals
  <1>4. ASSUME NEW s \in Server PROVE DOMAIN file[s] \subseteq Used /\ IsFiniteSet(DOMAIN file[s])
    <2>1. DOMAIN file[s] \subseteq Used
      BY DEF Used
    <2> QED
      BY <1>3, <2>1, FS_Subset, DOMAIN file[s] \in SUBSET Used
  <1>5. ASSUME NEW s \in Server, NEW b \in Board
        PROVE  OnBoard(s, b) \subseteq DOMAIN file[s] /\ IsFiniteSet(OnBoard(s, b))
    <2>1. OnBoard(s, b) \in SUBSET DOMAIN file[s]
      BY DEF OnBoard
    <2> QED
      BY <1>4, <2>1, FS_Subset
  <1> QED
    BY <1>2, <1>3, <1>4, <1>5

LEMMA NewKeyIsNew ==
  ASSUME FileType
  PROVE  NewKey \in Nat /\ \A k \in Used : k < NewKey
PROOF
  <1> DEFINE S == Used \cup {0}
  <1>1. PICK n \in Nat : \A k \in Used : k <= n
    BY DEF FileType
  <1>2. S \subseteq Nat /\ S # {} /\ \A k \in S : k <= n
    BY <1>1, FilesFinite
  <1> HIDE DEF S
  <1>3. \E k \in S : \A m \in S : m <= k
    BY <1>2, GreatestNatural
  <1>4. \E k \in S : \A m \in S : k >= m
    BY <1>2, <1>3
  <1>5. Max(S) \in S /\ \A m \in S : Max(S) >= m
    BY <1>4 DEF Max
  <1>6. NewKey = 1 + Max(S)
    BY DEF NewKey, S
  <1>7. \A k \in Used : k \in S
    BY DEF S
  <1>8. Max(S) \in Nat
    BY <1>2, <1>5
  <1>9. ASSUME NEW k \in Used PROVE k < NewKey
    <2>1. k \in Nat /\ Max(S) >= k
      BY <1>2, <1>5, <1>7
    <2> QED
      BY <2>1, <1>6, <1>8
  <1> QED
    BY <1>6, <1>8, <1>9

LEMMA DboardType ==
  ASSUME FileType, NEW s \in Server, NEW b \in Board
  PROVE  /\ Dboard(s, b) \in Seq(ClientMessage)
         /\ \A i \in DOMAIN Dboard(s, b) : Dboard(s, b)[i].type = "Response"
PROOF
  <1> DEFINE S == OnBoard(s, b)
             q == Ascending(S)
  <1>1. S \subseteq Nat /\ IsFiniteSet(S)
    BY FilesFinite DEF FileType
  <1> HIDE DEF S
  <1>2. Cardinality(S) \in Nat /\ q \in [1 .. Cardinality(S) -> S]
    BY <1>1, AscendingFacts
  <1> HIDE DEF q
  <1>3. Dboard(s, b) = [i \in 1 .. Cardinality(S) |-> Response("a", q[i])]
    <2>1. Dboard(s, b) = [i \in DOMAIN q |-> Response("a", q[i])]
      BY DEF Dboard, q, S
    <2> QED
      BY <1>2, <2>1
  <1>4. \A i \in 1 .. Cardinality(S) :
          Response("a", q[i]) \in ClientMessage /\ Response("a", q[i]).type = "Response"
    <2> TAKE i \in 1 .. Cardinality(S)
    <2>1. q[i] \in Nat
      BY <1>1, <1>2
    <2> QED
      BY <2>1, ClientMessages
  <1>5. Dboard(s, b) \in Seq(ClientMessage)
    BY <1>2, <1>3, <1>4
  <1> QED
    BY <1>3, <1>4, <1>5

LEMMA SendDboardAt ==
  ASSUME FileType, NEW box, IsBox(box), NEW s \in Server, NEW c \in Client, NEW b \in Board
  PROVE  /\ IsBox(SendDboard(box, s, c, b))
         /\ \A r \in Proc : SendDboard(box, s, c, b)[r] =
              IF r = c /\ up[c] /\ Together(s, c) THEN box[r] \o Dboard(s, b) ELSE box[r]
PROOF
  <1>1. Dboard(s, b) \in Seq(ClientMessage) /\ box[c] \in Seq(ClientMessage)
    BY DboardType, BoxAt
  <1>2. box[c] \o Dboard(s, b) \in Seq(ClientMessage)
    BY <1>1
  <1>3. CASE up[c] /\ Together(s, c)
    <2>1. SendDboard(box, s, c, b) = [box EXCEPT ![c] = box[c] \o Dboard(s, b)]
      BY <1>3 DEF SendDboard
    <2>2. c \in Proc /\ c \notin Server
      BY Processes
    <2> DEFINE a == box[c] \o Dboard(s, b)
               new == SendDboard(box, s, c, b)
    <2>3. /\ c \in Client => a \in Seq(ClientMessage)
          /\ c \in Server => a \in Seq(ServerMessage)
          /\ c \in Proc /\ new = [box EXCEPT ![c] = a]
      BY <1>2, <2>1, <2>2
    <2> HIDE DEF a, new
    <2>4. IsBox(new) /\ \A r \in Proc : new[r] = IF r = c THEN a ELSE box[r]
      BY <2>3, Processes DEF IsBox
    <2> QED
      BY <1>3, <2>4 DEF a, new
  <1>4. CASE ~ (up[c] /\ Together(s, c))
    BY <1>4 DEF SendDboard
  <1> QED
    BY <1>3, <1>4

LEMMA ServeAt ==
  ASSUME NEW box, IsBox(box), ListType, NEW s \in Server, NEW u \in UpdateMessage
  PROVE  /\ IsBox(Serve(box, s, u))
         /\ \A r \in Proc : Serve(box, s, u)[r] =
              IF r \in JoinedTo(s, u.db_name) /\ up[r] /\ Together(s, r)
                THEN Append(box[r], Response(u.op, u.obj_id)) ELSE box[r]
         /\ JoinedTo(s, u.db_name) \subseteq Client
         /\ Response(u.op, u.obj_id) \in ClientMessage
         /\ Response(u.op, u.obj_id).type = "Response"
PROOF
  <1>1. JoinedTo(s, u.db_name) \subseteq Client
    <2>0. db_list[s] \in Seq(BoardNode)
      BY DEF ListType
    <2>1. \A i \in DOMAIN db_list[s] : db_list[s][i].clients \in Seq(Client)
      <3> TAKE i \in DOMAIN db_list[s]
      <3>1. db_list[s][i] \in BoardNode
        BY <2>0
      <3> QED
        BY <3>1 DEF BoardNode
    <2>2. \A i \in DOMAIN db_list[s] : ToSet(db_list[s][i].clients) \subseteq Client
      BY <2>1 DEF ToSet
    <2> QED
      BY <2>2 DEF JoinedTo, Nodes
  <1>2. Response(u.op, u.obj_id) \in ClientMessage /\ Response(u.op, u.obj_id).type = "Response"
    BY ClientMessages, MessageKinds
  <1>3. \A r \in Proc : Serve(box, s, u)[r] =
          IF r \in JoinedTo(s, u.db_name) /\ up[r] /\ Together(s, r)
            THEN Append(box[r], Response(u.op, u.obj_id)) ELSE box[r]
    BY DEF Serve
  <1>4. \A c \in Client : Serve(box, s, u)[c] \in Seq(ClientMessage)
    <2> TAKE c \in Client
    <2>1. c \in Proc /\ box[c] \in Seq(ClientMessage)
      BY Processes, BoxAt
    <2>2. Append(box[c], Response(u.op, u.obj_id)) \in Seq(ClientMessage)
      BY <2>1, <1>2
    <2> QED
      BY <1>3, <2>1, <2>2
  <1>5. \A t \in Server : Serve(box, s, u)[t] \in Seq(ServerMessage)
    BY <1>1, <1>3, Processes, BoxAt
  <1>6. Serve(box, s, u) = [p \in Proc |-> Serve(box, s, u)[p]]
    BY DEF Serve
  <1> QED
    BY <1>1, <1>2, <1>3, <1>4, <1>5, <1>6 DEF IsBox

LEMMA AppliedType ==
  ASSUME FileType, NEW s \in Server, NEW u \in UpdateMessage,
         file' = [file EXCEPT ![s] = Applied(@, u)]
  PROVE  FileType'
PROOF
  <1> DEFINE f == file[s]
             g == Applied(f, u)
  <1>1. /\ u.op \in {"a", "e", "d"} /\ u.db_name \in Board /\ u.obj_id \in Nat
        /\ DOMAIN f \subseteq Nat /\ f \in [DOMAIN f -> Record]
    BY MessageKinds DEF FileType
  <1> HIDE DEF f
  <1>2. DOMAIN g \subseteq DOMAIN f \cup {u.obj_id} /\ g \in [DOMAIN g -> Record]
    <2>1. CASE u.op = "a"
      <3>1. g = [k \in DOMAIN f \cup {u.obj_id} |->
                  IF k = u.obj_id THEN [db_name |-> u.db_name, status |-> TRUE] ELSE f[k]]
        BY <2>1 DEF Applied
      <3>2. [db_name |-> u.db_name, status |-> TRUE] \in Record
        BY <1>1 DEF Record
      <3> QED
        BY <1>1, <3>1, <3>2
    <2>2. CASE u.op = "d" /\ Found(f, u)
      <3>1. g = [f EXCEPT ![u.obj_id].status = FALSE]
        BY <2>2 DEF Applied
      <3>2. u.obj_id \in DOMAIN f /\ [f[u.obj_id] EXCEPT !.status = FALSE] \in Record
        BY <1>1, <2>2 DEF Record, Found
      <3>3. g = [f EXCEPT ![u.obj_id] = [f[u.obj_id] EXCEPT !.status = FALSE]]
        BY <3>1
      <3> QED
        BY <1>1, <3>2, <3>3
    <2>3. CASE ~ (u.op = "a") /\ ~ (u.op = "d" /\ Found(f, u))
      <3>1. g = f
        BY <2>3 DEF Applied
      <3> QED
        BY <3>1, <1>1
    <2> QED
      BY <2>1, <2>2, <2>3
  <1> HIDE DEF g
  <1>3. /\ DOMAIN file' = Server /\ file'[s] = g
        /\ \A t \in Server : t # s => file'[t] = file[t]
    BY DEF FileType, f, g
  <1>4. PICK n \in Nat : \A k \in Used : k <= n
    BY DEF FileType
  <1>5. \A k \in Used' : k \in Used \/ k = u.obj_id
    <2>1. \A t \in Server : \A k \in DOMAIN file'[t] : k \in Used \/ k = u.obj_id
      BY <1>2, <1>3 DEF Used, f
    <2> QED
      BY <2>1 DEF Used
  <1>6. \A k \in Used' : k <= n + u.obj_id
    BY <1>1, <1>4, <1>5, FilesFinite
  <1>7. n + u.obj_id \in Nat
    BY <1>1
  <1>8. \E m \in Nat : \A k \in Used' : k <= m
    BY <1>6, <1>7
  <1>9. ASSUME NEW t \in Server PROVE DOMAIN file'[t] \subseteq Nat /\ file'[t] \in [DOMAIN file'[t] -> Record]
    BY <1>1, <1>2, <1>3 DEF FileType
  <1> QED
    BY <1>3, <1>8, <1>9 DEF FileType

--------------------------------------------------------------------------------
(* Lists of boards *)

BoardList(list) ==
  list \in Seq(BoardNode)
  /\ \A i, j \in DOMAIN list : list[i].db_name = list[j].db_name => i = j

\* The boards of a list that a client is on.
Having(list, c) == {i \in DOMAIN list : c \in ToSet(list[i].clients)}
On(list, c) == {list[i].db_name : i \in Having(list, c)}
OnceEach(list, c) == \A i \in DOMAIN list : Once(list[i].clients, c)

\* Where a client is, from the two lists of a server.
LEMMA AtIs ==
  ASSUME NEW s \in Server, NEW c \in Client
  PROVE  At(s, c) = On(db_list[s], c) \cup (IF c \in ToSet(client_list[s]) THEN {NoBoard} ELSE {})
PROOF
  BY DEF At, On, Having, NodesWith

LEMMA NodeParts ==
  ASSUME NEW list, BoardList(list), NEW i \in DOMAIN list
  PROVE  /\ i \in Nat /\ list[i].db_name \in Board /\ list[i].clients \in Seq(Client)
         /\ list[i].db_name # NoBoard
         /\ list[i] = [db_name |-> list[i].db_name, clients |-> list[i].clients]
PROOF
  <1>1. i \in Nat /\ list[i] \in BoardNode
    BY DEF BoardList
  <1> QED
    BY <1>1, BoardAssumption DEF BoardNode

\* A list that differs from another in the clients of its boards.
LEMMA NodesChanged ==
  ASSUME NEW list, BoardList(list), NEW new, DOMAIN new = DOMAIN list,
         new = [i \in DOMAIN list |-> new[i]],
         \A i \in DOMAIN list : /\ new[i] = [db_name |-> list[i].db_name, clients |-> new[i].clients]
                                /\ new[i].clients \in Seq(Client)
  PROVE  BoardList(new) /\ \A i \in DOMAIN list : new[i].db_name = list[i].db_name
PROOF
  <1>1. \A i \in DOMAIN list : new[i].db_name = list[i].db_name
    OBVIOUS
  <1>2. \A i \in DOMAIN list : new[i] \in BoardNode
    BY NodeParts DEF BoardNode
  <1>3. DOMAIN list = 1 .. Len(list) /\ Len(list) \in Nat
    BY DEF BoardList
  <1>4. new \in Seq(BoardNode)
    BY <1>2, <1>3
  <1> QED
    BY <1>1, <1>4 DEF BoardList

\* A node for a board, a client on it, a client off it, and a switch of boards.
LEMMA WithNodeFacts ==
  ASSUME NEW list, BoardList(list), NEW b \in Board
  PROVE  /\ BoardList(WithNode(list, b))
         /\ \A c \in Client : On(WithNode(list, b), c) = On(list, c)
         /\ \A c \in Client : OnceEach(list, c) => OnceEach(WithNode(list, b), c)
         /\ \E i \in DOMAIN WithNode(list, b) : WithNode(list, b)[i].db_name = b
PROOF
  <1>1. CASE \E i \in DOMAIN list : list[i].db_name = b
    BY <1>1 DEF WithNode
  <1>2. CASE ~ \E i \in DOMAIN list : list[i].db_name = b
    <2> DEFINE node == [db_name |-> b, clients |-> <<>>]
               new == Append(list, node)
    <2>1. WithNode(list, b) = new
      BY <1>2 DEF WithNode
    <2>2. node \in BoardNode /\ list \in Seq(BoardNode)
      BY EmptySeq DEF BoardNode, BoardList
    <2>3. node.db_name = b /\ node.clients = <<>>
      OBVIOUS
    <2> HIDE DEF node
    <2>4. /\ new \in Seq(BoardNode)
          /\ DOMAIN list = 1 .. Len(list) /\ Len(list) \in Nat
          /\ DOMAIN new = 1 .. Len(list) + 1
          /\ \A i \in 1 .. Len(list) : new[i] = list[i]
          /\ new[Len(list) + 1] = node
      BY <2>2, AppendAt
    <2> HIDE DEF new
    <2>5. \A i \in DOMAIN new : i \in DOMAIN list \/ i = Len(list) + 1
      BY <2>4
    <2>6. /\ \A i \in DOMAIN list : i \in DOMAIN new /\ new[i] = list[i]
          /\ Len(list) + 1 \in DOMAIN new
      BY <2>4
    <2>7. BoardList(new)
      BY <1>2, <2>3, <2>4, <2>5, <2>6 DEF BoardList
    <2>8. \A c : c \notin ToSet(node.clients) /\ Once(node.clients, c)
      BY <2>3, EmptySeq, NothingIn DEF Once
    <2>9. ASSUME NEW c \in Client PROVE On(new, c) = On(list, c)
      <3>1. Having(new, c) = Having(list, c)
        BY <2>4, <2>5, <2>6, <2>8 DEF Having
      <3>2. \A i \in Having(list, c) : new[i] = list[i]
        BY <2>6 DEF Having
      <3> QED
        BY <3>1, <3>2 DEF On
    <2>10. ASSUME NEW c \in Client, OnceEach(list, c) PROVE OnceEach(new, c)
      BY <2>4, <2>5, <2>6, <2>8, <2>10 DEF OnceEach
    <2> QED
      BY <2>1, <2>3, <2>4, <2>6, <2>7, <2>9, <2>10
  <1> QED
    BY <1>1, <1>2

LEMMA WithClientFacts ==
  ASSUME NEW list, BoardList(list), NEW b \in Board, NEW c \in Client
  PROVE  /\ BoardList(WithClient(list, b, c))
         /\ \A d \in Client : d # c => /\ On(WithClient(list, b, c), d) = On(list, d)
                                       /\ OnceEach(list, d) => OnceEach(WithClient(list, b, c), d)
         /\ On(WithClient(list, b, c), c) \subseteq On(list, c) \cup {b}
         /\ On(list, c) \subseteq On(WithClient(list, b, c), c)
         /\ (\E i \in DOMAIN list : list[i].db_name = b) => b \in On(WithClient(list, b, c), c)
         /\ OnceEach(list, c) /\ b \notin On(list, c) => OnceEach(WithClient(list, b, c), c)
PROOF
  <1> DEFINE new == WithClient(list, b, c)
  <1>1. /\ DOMAIN new = DOMAIN list /\ new = [i \in DOMAIN list |-> new[i]]
        /\ \A i \in DOMAIN list : new[i] = IF list[i].db_name = b
             THEN [list[i] EXCEPT !.clients = Append(@, c)] ELSE list[i]
    BY DEF WithClient
  <1> HIDE DEF new
  <1>2. ASSUME NEW i \in DOMAIN list
        PROVE  /\ new[i] = [db_name |-> list[i].db_name, clients |-> new[i].clients]
               /\ new[i].clients = IF list[i].db_name = b THEN Append(list[i].clients, c)
                                                           ELSE list[i].clients
    <2>1. list[i] = [db_name |-> list[i].db_name, clients |-> list[i].clients]
      BY NodeParts
    <2>2. CASE list[i].db_name = b
      <3>1. new[i] = [list[i] EXCEPT !.clients = Append(list[i].clients, c)]
        BY <1>1, <2>2
      <3>2. new[i] = [db_name |-> list[i].db_name, clients |-> Append(list[i].clients, c)]
        BY <2>1, <3>1
      <3> QED
        BY <2>2, <3>2
    <2>3. CASE list[i].db_name # b
      BY <1>1, <2>1, <2>3
    <2> QED
      BY <2>2, <2>3
  <1>3. ASSUME NEW i \in DOMAIN list
        PROVE  /\ list[i].clients \in Seq(Client)
               /\ Append(list[i].clients, c) \in Seq(Client)
               /\ ToSet(Append(list[i].clients, c)) = ToSet(list[i].clients) \cup {c}
               /\ \A d : d # c /\ Once(list[i].clients, d) => Once(Append(list[i].clients, c), d)
               /\ c \notin ToSet(list[i].clients) => Once(Append(list[i].clients, c), c)
    <2>1. list[i].clients \in Seq(Client)
      BY NodeParts
    <2> QED
      BY <2>1, AppendedFacts
  <1>4. BoardList(new) /\ \A i \in DOMAIN list : new[i].db_name = list[i].db_name
    BY <1>1, <1>2, <1>3, NodesChanged
  <1>5. ASSUME NEW d \in Client, d # c
        PROVE  On(new, d) = On(list, d) /\ (OnceEach(list, d) => OnceEach(new, d))
    <2>1. Having(new, d) = Having(list, d)
      BY <1>1, <1>2, <1>3, <1>5 DEF Having
    <2>2. On(new, d) = On(list, d)
      BY <1>4, <2>1 DEF On, Having
    <2>3. ASSUME OnceEach(list, d) PROVE OnceEach(new, d)
      BY <1>1, <1>2, <1>3, <1>5, <2>3 DEF OnceEach
    <2> QED
      BY <2>2, <2>3
  <1>6. On(new, c) \subseteq On(list, c) \cup {b}
    <2>1. \A i \in Having(new, c) : i \in Having(list, c) \/ list[i].db_name = b
      BY <1>1, <1>2 DEF Having
    <2>2. \A i \in Having(new, c) : i \in DOMAIN list
      BY <1>1 DEF Having
    <2> QED
      BY <2>1, <2>2, <1>4 DEF On
  <1>7. On(list, c) \subseteq On(new, c)
    <2>1. \A i \in Having(list, c) : i \in Having(new, c) /\ new[i].db_name = list[i].db_name
      BY <1>1, <1>2, <1>3, <1>4 DEF Having
    <2> QED
      BY <2>1 DEF On
  <1>8. ASSUME NEW i \in DOMAIN list, list[i].db_name = b PROVE b \in On(new, c)
    <2>1. i \in Having(new, c) /\ new[i].db_name = b
      BY <1>1, <1>2, <1>3, <1>4, <1>8 DEF Having
    <2> QED
      BY <2>1 DEF On
  <1>9. ASSUME OnceEach(list, c), b \notin On(list, c) PROVE OnceEach(new, c)
    <2> SUFFICES ASSUME NEW i \in DOMAIN list PROVE Once(new[i].clients, c)
      BY <1>1 DEF OnceEach
    <2>1. CASE list[i].db_name = b
      <3>1. i \notin Having(list, c)
        BY <1>9, <2>1 DEF On
      <3>2. c \notin ToSet(list[i].clients)
        BY <3>1 DEF Having
      <3> QED
        BY <3>2, <2>1, <1>2, <1>3
    <2>2. CASE list[i].db_name # b
      BY <2>2, <1>2, <1>9 DEF OnceEach
    <2> QED
      BY <2>1, <2>2
  <1> QED
    BY <1>4, <1>5, <1>6, <1>7, <1>8, <1>9 DEF new

LEMMA WithoutClientFacts ==
  ASSUME NEW list, BoardList(list), NEW b, NEW c \in Client
  PROVE  /\ BoardList(WithoutClient(list, b, c))
         /\ \A d \in Client : OnceEach(list, d) => OnceEach(WithoutClient(list, b, c), d)
         /\ \A d \in Client : d # c => On(WithoutClient(list, b, c), d) = On(list, d)
         /\ On(WithoutClient(list, b, c), c) \subseteq On(list, c)
         /\ On(list, c) \ {b} \subseteq On(WithoutClient(list, b, c), c)
         /\ OnceEach(list, c) => b \notin On(WithoutClient(list, b, c), c)
PROOF
  <1> DEFINE new == WithoutClient(list, b, c)
  <1>1. /\ DOMAIN new = DOMAIN list /\ new = [i \in DOMAIN list |-> new[i]]
        /\ \A i \in DOMAIN list : new[i] = IF list[i].db_name = b
             THEN [list[i] EXCEPT !.clients = RemoveFirst(@, c)] ELSE list[i]
    BY DEF WithoutClient
  <1> HIDE DEF new
  <1>2. ASSUME NEW i \in DOMAIN list
        PROVE  /\ new[i] = [db_name |-> list[i].db_name, clients |-> new[i].clients]
               /\ new[i].clients = IF list[i].db_name = b THEN RemoveFirst(list[i].clients, c)
                                                           ELSE list[i].clients
    <2>1. list[i] = [db_name |-> list[i].db_name, clients |-> list[i].clients]
      BY NodeParts
    <2>2. CASE list[i].db_name = b
      <3>1. new[i] = [list[i] EXCEPT !.clients = RemoveFirst(list[i].clients, c)]
        BY <1>1, <2>2
      <3>2. new[i] = [db_name |-> list[i].db_name, clients |-> RemoveFirst(list[i].clients, c)]
        BY <2>1, <3>1
      <3> QED
        BY <2>2, <3>2
    <2>3. CASE list[i].db_name # b
      BY <1>1, <2>1, <2>3
    <2> QED
      BY <2>2, <2>3
  <1>3. ASSUME NEW i \in DOMAIN list
        PROVE  /\ list[i].clients \in Seq(Client)
               /\ RemoveFirst(list[i].clients, c) \in Seq(Client)
               /\ ToSet(RemoveFirst(list[i].clients, c)) \subseteq ToSet(list[i].clients)
               /\ ToSet(list[i].clients) \ {c} \subseteq ToSet(RemoveFirst(list[i].clients, c))
               /\ \A d : Once(list[i].clients, d) => Once(RemoveFirst(list[i].clients, c), d)
               /\ Once(list[i].clients, c) => c \notin ToSet(RemoveFirst(list[i].clients, c))
    <2>1. list[i].clients \in Seq(Client)
      BY NodeParts
    <2> QED
      BY <2>1, RemoveFirstFacts
  <1>4. BoardList(new) /\ \A i \in DOMAIN list : new[i].db_name = list[i].db_name
    BY <1>1, <1>2, <1>3, NodesChanged
  <1>5. ASSUME NEW d \in Client, OnceEach(list, d) PROVE OnceEach(new, d)
    BY <1>1, <1>2, <1>3, <1>5 DEF OnceEach
  <1>6. ASSUME NEW d \in Client, d # c PROVE On(new, d) = On(list, d)
    <2>1. \A i \in DOMAIN list : d \in ToSet(new[i].clients) <=> d \in ToSet(list[i].clients)
      BY <1>2, <1>3, <1>6
    <2>2. Having(new, d) = Having(list, d)
      BY <1>1, <2>1 DEF Having
    <2> QED
      BY <1>4, <2>2 DEF On, Having
  <1>7. On(new, c) \subseteq On(list, c)
    <2>1. \A i \in Having(new, c) : i \in Having(list, c) /\ new[i].db_name = list[i].db_name
      BY <1>1, <1>2, <1>3, <1>4 DEF Having
    <2> QED
      BY <2>1 DEF On
  <1>8. On(list, c) \ {b} \subseteq On(new, c)
    <2>1. \A i \in Having(list, c) :
            list[i].db_name # b => i \in Having(new, c) /\ new[i].db_name = list[i].db_name
      BY <1>1, <1>2, <1>4 DEF Having
    <2> QED
      BY <2>1 DEF On
  <1>9. ASSUME OnceEach(list, c), b \in On(new, c) PROVE FALSE
    <2>1. PICK i \in Having(new, c) : new[i].db_name = b
      BY <1>9 DEF On
    <2>2. i \in DOMAIN list /\ list[i].db_name = b /\ c \in ToSet(new[i].clients)
      BY <1>1, <1>4, <2>1 DEF Having
    <2>3. Once(list[i].clients, c)
      BY <1>9, <2>2 DEF OnceEach
    <2> QED
      BY <1>2, <1>3, <2>2, <2>3
  <1> QED
    BY <1>4, <1>5, <1>6, <1>7, <1>8, <1>9 DEF new

\* join_db on the list of the boards.
Switched(list, old, b, c) == WithClient(WithNode(WithoutClient(list, old, c), b), b, c)

LEMMA SwitchedFacts ==
  ASSUME NEW list, BoardList(list), NEW old, NEW b \in Board, NEW c \in Client
  PROVE  /\ BoardList(Switched(list, old, b, c))
         /\ \A e \in Client : e # c => On(Switched(list, old, b, c), e) = On(list, e)
         /\ \A e \in Client : e # c /\ OnceEach(list, e) => OnceEach(Switched(list, old, b, c), e)
         /\ b \in On(Switched(list, old, b, c), c)
         /\ OnceEach(list, c) /\ On(list, c) \subseteq {old} =>
              On(Switched(list, old, b, c), c) = {b} /\ OnceEach(Switched(list, old, b, c), c)
PROOF
  <1> DEFINE l1 == WithoutClient(list, old, c)
             l2 == WithNode(l1, b)
             l3 == WithClient(l2, b, c)
  <1>1. /\ BoardList(l1)
        /\ \A e \in Client : OnceEach(list, e) => OnceEach(l1, e)
        /\ \A e \in Client : e # c => On(l1, e) = On(list, e)
        /\ On(l1, c) \subseteq On(list, c)
        /\ OnceEach(list, c) => old \notin On(l1, c)
    BY WithoutClientFacts
  <1> HIDE DEF l1
  <1>2. /\ BoardList(l2)
        /\ \A e \in Client : On(l2, e) = On(l1, e)
        /\ \A e \in Client : OnceEach(l1, e) => OnceEach(l2, e)
        /\ \E i \in DOMAIN l2 : l2[i].db_name = b
    BY <1>1, WithNodeFacts
  <1> HIDE DEF l2
  <1>3. /\ BoardList(l3)
        /\ \A e \in Client : e # c => On(l3, e) = On(l2, e) /\ (OnceEach(l2, e) => OnceEach(l3, e))
        /\ On(l3, c) \subseteq On(l2, c) \cup {b} /\ b \in On(l3, c)
        /\ OnceEach(l2, c) /\ b \notin On(l2, c) => OnceEach(l3, c)
    BY <1>2, WithClientFacts
  <1> HIDE DEF l3
  <1>4. ASSUME OnceEach(list, c), On(list, c) \subseteq {old}
        PROVE  On(l3, c) = {b} /\ OnceEach(l3, c)
    <2>1. On(l1, c) = {}
      BY <1>1, <1>4
    <2> QED
      BY <2>1, <1>1, <1>2, <1>3, <1>4
  <1>5. Switched(list, old, b, c) = l3
    BY DEF Switched, l1, l2, l3
  <1> QED
    BY <1>1, <1>2, <1>3, <1>4, <1>5

--------------------------------------------------------------------------------
(* What a request does, and the types *)

\* The lists of a server, and one of them replaced.
LEMMA ListsAre ==
  ASSUME ListType, NEW s \in Server
  PROVE  /\ client_list[s] \in Seq(Client) /\ BoardList(db_list[s])
         /\ ToSet(client_list[s]) \subseteq Client
PROOF
  <1>1. client_list[s] \in Seq(Client) /\ BoardList(db_list[s])
    BY DEF ListType, BoardList
  <1>2. ToSet(client_list[s]) \subseteq Client
    BY <1>1 DEF ToSet
  <1> QED
    BY <1>1, <1>2

LEMMA ListsWith ==
  ASSUME ListType, NEW s \in Server, NEW clients \in Seq(Client), NEW boards, BoardList(boards),
         client_list' = [client_list EXCEPT ![s] = clients],
         db_list' = [db_list EXCEPT ![s] = boards]
  PROVE  /\ ListType'
         /\ client_list'[s] = clients /\ db_list'[s] = boards
         /\ \A t \in Server : t # s => client_list'[t] = client_list[t] /\ db_list'[t] = db_list[t]
PROOF
  BY DEF ListType, BoardList

\* The four requests: the lists, the file, and the other variables.
LEMMA HandlerLists ==
  ASSUME ListType, NEW s \in Server, NEW r \in RequestMessage, NEW box, HandleClientReq(s, r, box)
  PROVE  /\ ListType'
         /\ \A t \in Server : t # s => client_list'[t] = client_list[t] /\ db_list'[t] = db_list[t]
         /\ r.op = "c" => /\ client_list'[s] = Append(client_list[s], r.client)
                          /\ db_list'[s] = db_list[s]
         /\ r.op = "j" /\ ~ JoinFails(s, r) =>
              /\ client_list'[s] = IF r.obj = NoBoard THEN RemoveFirst(client_list[s], r.client)
                                                      ELSE client_list[s]
              /\ db_list'[s] = Switched(db_list[s], r.obj, r.db_name, r.client)
         /\ r.op \notin {"c", "j"} \/ (r.op = "j" /\ JoinFails(s, r)) =>
              client_list' = client_list /\ db_list' = db_list
PROOF
  <1>1. client_list[s] \in Seq(Client) /\ BoardList(db_list[s])
    BY ListsAre
  <1>2. /\ client_list = [client_list EXCEPT ![s] = client_list[s]]
        /\ db_list = [db_list EXCEPT ![s] = db_list[s]]
    BY DEF ListType
  <1>3. r.client \in Client /\ (r.op = "j" => r.db_name \in Board)
        /\ r.op \in {"c", "j", "a", "e", "d", "v"}
    BY MessageKinds
  <1>4. CASE r.op = "c"
    <2>1. /\ client_list' = [client_list EXCEPT ![s] = Append(client_list[s], r.client)]
          /\ db_list' = db_list
      BY <1>4 DEF HandleClientReq, PutOnClientList
    <2>2. Append(client_list[s], r.client) \in Seq(Client)
      BY <1>1, <1>3
    <2> QED
      BY <1>1, <1>2, <1>4, <2>1, <2>2, ListsWith
  <1>5. CASE r.op = "j" /\ ~ JoinFails(s, r)
    <2> DEFINE clients == IF r.obj = NoBoard THEN RemoveFirst(client_list[s], r.client)
                                             ELSE client_list[s]
               boards == Switched(db_list[s], r.obj, r.db_name, r.client)
    <2>1. JoinDb(s, r, box)
      BY <1>5 DEF HandleClientReq
    <2>2. client_list' = [client_list EXCEPT ![s] = clients]
      BY <1>2, <1>5, <2>1 DEF JoinDb
    <2>3. db_list' = [db_list EXCEPT ![s] = boards]
      BY <1>5, <2>1 DEF JoinDb, Switched
    <2>4. clients \in Seq(Client)
      BY <1>1, <1>3, RemoveFirstFacts
    <2>5. BoardList(boards)
      BY <1>1, <1>3, <1>5, SwitchedFacts
    <2> HIDE DEF clients, boards
    <2>6. /\ ListType'
          /\ client_list'[s] = clients /\ db_list'[s] = boards
          /\ \A t \in Server : t # s => client_list'[t] = client_list[t] /\ db_list'[t] = db_list[t]
      BY <2>2, <2>3, <2>4, <2>5, ListsWith
    <2> QED
      BY <1>5, <2>6 DEF clients, boards
  <1>6. CASE r.op \notin {"c", "j"} \/ (r.op = "j" /\ JoinFails(s, r))
    <2>1. client_list' = client_list /\ db_list' = db_list
      <3>1. CASE r.op = "j" /\ JoinFails(s, r)
        BY <3>1 DEF HandleClientReq, JoinDb
      <3>2. CASE r.op = "v"
        BY <3>2 DEF HandleClientReq, SendView
      <3>3. CASE r.op \notin {"c", "j", "v"}
        BY <3>3 DEF HandleClientReq, UpdateReplicas
      <3> QED
        BY <1>6, <3>1, <3>2, <3>3
    <2>2. ListType'
      BY <2>1 DEF ListType
    <2> QED
      BY <1>6, <2>1, <2>2
  <1> QED
    BY <1>4, <1>5, <1>6

LEMMA OwnUpdate ==
  ASSUME FileType, NEW r \in RequestMessage, r.op \notin {"c", "j", "v"}
  PROVE  Update(r.op, r.db_name, IF r.op = "a" THEN NewKey ELSE r.obj_id) \in UpdateMessage
PROOF
  <1>1. /\ r.op \in {"a", "e", "d"} /\ r.db_name \in Board /\ r.obj_id \in Nat
    BY MessageKinds
  <1>2. (IF r.op = "a" THEN NewKey ELSE r.obj_id) \in Nat
    BY <1>1, NewKeyIsNew
  <1> QED
    BY <1>1, <1>2, ServerMessages

LEMMA HandlerFile ==
  ASSUME FileType, NEW s \in Server, NEW r \in RequestMessage, NEW box, HandleClientReq(s, r, box)
  PROVE  FileType'
PROOF
  <1>1. CASE r.op \in {"c", "j", "v"}
    <2>1. UNCHANGED file
      <3>1. CASE r.op = "c"
        BY <3>1 DEF HandleClientReq, PutOnClientList
      <3>2. CASE r.op = "j"
        BY <3>2 DEF HandleClientReq, JoinDb
      <3>3. CASE r.op = "v"
        BY <3>3 DEF HandleClientReq, SendView
      <3> QED
        BY <1>1, <3>1, <3>2, <3>3
    <2> QED
      BY <2>1 DEF FileType, Used
  <1>2. CASE r.op \notin {"c", "j", "v"}
    <2> DEFINE u == Update(r.op, r.db_name, IF r.op = "a" THEN NewKey ELSE r.obj_id)
    <2>1. file' = [file EXCEPT ![s] = Applied(@, u)]
      BY <1>2 DEF HandleClientReq, UpdateReplicas
    <2>2. u \in UpdateMessage
      BY <1>2, OwnUpdate
    <2> HIDE DEF u
    <2> QED
      BY <2>1, <2>2, AppliedType
  <1> QED
    BY <1>1, <1>2

\* What a handler sends: responses to a client, a membership to the client that
\* connects, or its own update to itself.
LEMMA HandlerBox ==
  ASSUME FileType, NEW s \in Server, NEW r \in RequestMessage, NEW box, IsBox(box),
         HandleClientReq(s, r, box)
  PROVE  /\ IsBox(inbox')
         /\ \A t \in Server : \/ inbox'[t] = box[t]
                              \/ \E u \in UpdateMessage : inbox'[t] = Append(box[t], u)
         /\ r.op = "c" => inbox' = ServerJoins(box, s, r.client)
         /\ r.op # "c" => \A c \in Client :
              \/ inbox'[c] = box[c]
              \/ \E w \in Seq(ClientMessage) : /\ \A i \in DOMAIN w : w[i].type = "Response"
                                               /\ inbox'[c] = box[c] \o w
PROOF
  <1>1. r.client \in Client /\ (r.op = "j" => r.db_name \in Board)
    BY MessageKinds
  <1>2. CASE r.op = "c"
    <2>1. inbox' = ServerJoins(box, s, r.client)
      BY <1>2 DEF HandleClientReq, PutOnClientList
    <2> QED
      BY <2>1, <1>1, <1>2, ServerJoinsAt, Processes
  <1>3. CASE r.op = "j"
    <2>1. inbox' = box \/ inbox' = SendDboard(box, s, r.client, r.db_name)
      BY <1>3 DEF HandleClientReq, JoinDb
    <2>2. CASE inbox' = box
      BY <1>3, <2>2
    <2>3. CASE inbox' = SendDboard(box, s, r.client, r.db_name)
      <3>1. /\ IsBox(inbox')
            /\ \A p \in Proc : inbox'[p] =
                 IF p = r.client /\ up[p] /\ Together(s, p) THEN box[p] \o Dboard(s, r.db_name)
                                                            ELSE box[p]
        BY <1>1, <1>3, <2>3, SendDboardAt
      <3>2. Dboard(s, r.db_name) \in Seq(ClientMessage)
            /\ \A i \in DOMAIN Dboard(s, r.db_name) : Dboard(s, r.db_name)[i].type = "Response"
        BY <1>1, <1>3, DboardType
      <3> QED
        BY <1>1, <1>3, <3>1, <3>2, Processes
    <2> QED
      BY <2>1, <2>2, <2>3
  <1>4. CASE r.op = "v"
    <2>1. inbox' = To(box, s, r.client, Response("v", 0))
      BY <1>4 DEF HandleClientReq, SendView
    <2>2. Response("v", 0) \in ClientMessage /\ Response("v", 0).type = "Response"
      BY ClientMessages
    <2> DEFINE m == Response("v", 0)
               d == r.client
               new == To(box, s, d, m)
    <2>20. m \in ClientMessage /\ d \in Client
      BY <1>1, <2>2
    <2> HIDE DEF m, d
    <2>21. /\ IsBox(new)
           /\ \A p \in Proc : new[p] =
                IF p = d /\ up[d] /\ Together(s, d) THEN Append(box[p], m) ELSE box[p]
      BY <2>20, ToClientAt
    <2>22. inbox' = new
      BY <2>1 DEF m, d
    <2> HIDE DEF new
    <2>3. /\ IsBox(inbox')
          /\ \A p \in Proc : inbox'[p] =
               IF p = r.client /\ up[p] /\ Together(s, p) THEN Append(box[p], Response("v", 0))
                                                          ELSE box[p]
      BY <2>21, <2>22 DEF m, d
    <2> DEFINE w == <<Response("v", 0)>>
    <2>4. w \in Seq(ClientMessage) /\ \A i \in DOMAIN w : w[i].type = "Response"
      BY <2>2
    <2>5. \A c \in Client : box[c] \in Seq(ClientMessage) /\ Append(box[c], Response("v", 0)) = box[c] \o w
      BY BoxAt
    <2> HIDE DEF w
    <2>6. ASSUME NEW c \in Client
          PROVE \/ inbox'[c] = box[c]
                \/ \E x \in Seq(ClientMessage) : /\ \A i \in DOMAIN x : x[i].type = "Response"
                                                 /\ inbox'[c] = box[c] \o x
      <3>1. c \in Proc /\ (inbox'[c] = box[c] \/ inbox'[c] = box[c] \o w)
        BY <2>3, <2>5, Processes
      <3> QED
        BY <3>1, <2>4
    <2>7. \A t \in Server : inbox'[t] = box[t]
      BY <1>1, <2>3, Processes
    <2> QED
      BY <1>4, <2>3, <2>6, <2>7
  <1>5. CASE r.op \notin {"c", "j", "v"}
    <2> DEFINE u == Update(r.op, r.db_name, IF r.op = "a" THEN NewKey ELSE r.obj_id)
    <2>1. inbox' = [box EXCEPT ![s] = Append(@, u)]
      BY <1>5 DEF HandleClientReq, UpdateReplicas
    <2>2. u \in UpdateMessage /\ u \in ServerMessage
      BY <1>5, OwnUpdate, ServerMessages
    <2> HIDE DEF u
    <2>3. Append(box[s], u) \in Seq(ServerMessage)
      BY <2>2, BoxAt
    <2>4. IsBox(inbox')
      BY <2>1, <2>3, Processes DEF IsBox
    <2>5. \A t \in Server : inbox'[t] = IF t = s THEN Append(box[t], u) ELSE box[t]
      BY <2>1, BoxAt, Processes
    <2>6. \A c \in Client : inbox'[c] = box[c]
      BY <2>1, BoxAt, Processes
    <2> QED
      BY <1>5, <2>2, <2>4, <2>5, <2>6
  <1> QED
    BY <1>2, <1>3, <1>4, <1>5

LEMMA HandlerVariables ==
  ASSUME VariableType, NEW s \in Server, NEW r \in RequestMessage, NEW box,
         HandleClientReq(s, r, box)
  PROVE  /\ up' \in [Proc -> BOOLEAN] /\ joined' \in [Server -> SUBSET Client]
         /\ \A p \in Proc : p # s => up'[p] = up[p]
         /\ up'[s] => up[s] /\ ~ (r.op = "j" /\ JoinFails(s, r))
         /\ r.op = "j" /\ JoinFails(s, r) => ~ up'[s] /\ joined' = joined /\ inbox' = box
         /\ ~ (r.op = "j" /\ JoinFails(s, r)) /\ up[s] => up' = up
         /\ r.op = "c" => joined' = [joined EXCEPT ![s] = @ \cup {r.client}]
         /\ r.op # "c" => joined' = joined
PROOF
  <1>1. r.client \in Client /\ s \in Proc
    BY MessageKinds, Processes
  <1>2. CASE r.op = "c"
    BY <1>1, <1>2 DEF HandleClientReq, PutOnClientList, VariableType
  <1>3. CASE r.op = "j"
    <2>1. JoinDb(s, r, box)
      BY <1>3 DEF HandleClientReq
    <2> QED
      BY <1>1, <1>3, <2>1 DEF JoinDb, Exit, VariableType
  <1>4. CASE r.op = "v"
    BY <1>4 DEF HandleClientReq, SendView, VariableType
  <1>5. CASE r.op \notin {"c", "j", "v"}
    BY <1>5 DEF HandleClientReq, UpdateReplicas, VariableType
  <1> QED
    BY <1>2, <1>3, <1>4, <1>5

\* The screen of a client.
LEMMA ScreenTypeWith ==
  ASSUME ScreenType, NEW c \in Client, NEW keys, keys \subseteq Nat, IsFiniteSet(keys), NEW n \in Nat,
         objects' = [objects EXCEPT ![c] = keys], obj_num' = [obj_num EXCEPT ![c] = n],
         wiped' \in [Client -> BOOLEAN]
  PROVE  ScreenType'
PROOF
  <1>1. \A d \in Client : objects'[d] = IF d = c THEN keys ELSE objects[d]
    BY DEF ScreenType
  <1> QED
    BY <1>1 DEF ScreenType

LEMMA ScreenTypeShown ==
  ASSUME ScreenType, NEW c \in Client, NEW keys, keys \subseteq Nat, IsFiniteSet(keys),
         objects' = [objects EXCEPT ![c] = keys], obj_num' = Displayed(c, keys), UNCHANGED wiped
  PROVE  ScreenType'
PROOF
  <1>1. Cardinality(keys) \in Nat
    BY FS_CardinalityType
  <1>2. wiped' \in [Client -> BOOLEAN]
    BY DEF ScreenType
  <1> QED
    BY <1>1, <1>2, ScreenTypeWith DEF Displayed

LEMMA ScreenTypeKept ==
  ASSUME ScreenType, UNCHANGED <<objects, obj_num, wiped>>
  PROVE  ScreenType'
PROOF
  BY DEF ScreenType

LEMMA ReInitType ==
  ASSUME ScreenType, NEW c \in Client, ReInit(c)
  PROVE  ScreenType'
PROOF
  <1>1. /\ objects' = [objects EXCEPT ![c] = {}] /\ obj_num' = [obj_num EXCEPT ![c] = 0]
        /\ IsFiniteSet({}) /\ {} \subseteq Nat /\ 0 \in Nat
    BY FS_EmptySet DEF ReInit
  <1>2. wiped' \in [Client -> BOOLEAN]
    BY DEF ReInit, ScreenType
  <1> QED
    BY <1>1, <1>2, ScreenTypeWith

LEMMA NthObjectType ==
  ASSUME NEW keys, keys \subseteq Nat, IsFiniteSet(keys), keys # {}, NEW n \in Nat \ {0}
  PROVE  NthObject(keys, n) \in keys /\ NthObject(keys, n) \in Nat
PROOF
  <1> DEFINE k == Cardinality(keys)
             q == Ascending(keys)
  <1>1. k \in Nat /\ q \in [1 .. k -> keys]
    BY AscendingFacts
  <1>2. k # 0
    BY FS_EmptySet
  <1> HIDE DEF k, q
  <1>3. (n - 1) % k \in 0 .. k - 1
    BY <1>1, <1>2
  <1>4. 1 + ((n - 1) % k) \in 1 .. k
    BY <1>1, <1>3
  <1>5. q[1 + ((n - 1) % k)] \in keys
    BY <1>1, <1>4
  <1> QED
    BY <1>5 DEF NthObject, k, q

\* The lists, files and queues of the servers are left alone.
LEMMA ServerTypesKept ==
  ASSUME ListType, FileType, QueueType, UNCHANGED serverVars
  PROVE  ListType' /\ FileType' /\ QueueType'
PROOF
  BY DEF serverVars, syncVars, ListType, FileType, Used, QueueType

\* A request to the server of the last connect command.
LEMMA Requested ==
  ASSUME TypeInv, NEW c \in Client, NEW r \in RequestMessage,
         cs_index[c] \in Server
  PROVE  /\ IsBox(To(inbox, c, cs_index[c], r))
         /\ \A p \in Proc : To(inbox, c, cs_index[c], r)[p] =
              IF p = cs_index[c] /\ up[p] /\ Together(c, p) THEN Append(inbox[p], r) ELSE inbox[p]
PROOF
  <1> DEFINE s == cs_index[c]
             new == To(inbox, c, s, r)
  <1>1. s \in Server /\ r \in ServerMessage /\ IsBox(inbox)
    BY ServerMessages DEF TypeInv
  <1> HIDE DEF s
  <1>2. /\ IsBox(new)
        /\ \A p \in Proc : new[p] =
             IF p = s /\ up[s] /\ Together(c, s) THEN Append(inbox[p], r) ELSE inbox[p]
    BY <1>1, ToServerAt
  <1> HIDE DEF new
  <1>3. IsBox(new) /\ \A p \in Proc : new[p] =
          IF p = s /\ up[p] /\ Together(c, p) THEN Append(inbox[p], r) ELSE inbox[p]
    BY <1>2
  <1> QED
    BY <1>3 DEF new, s


\* A client that is connected takes the server of its last command for its own.
LEMMA ConnectedTo ==
  ASSUME TypeInv, ConnectionInv, NEW c \in Client, client_connected[c]
  PROVE  /\ client_server_group[c] = cs_index[c] /\ cs_index[c] \in Server
         /\ client_server_group[c] # NoServer
PROOF
  BY DEF TypeInv, VariableType, ConnectionInv, Truthful

\* One lemma for each action: it keeps the types.
LEMMA ConnectType ==
  ASSUME TypeInv, ConnectionInv, NEW c \in Client, NEW s \in Server, Connect(c, s)
  PROVE  TypeInv'
PROOF
  <1> DEFINE old == client_server_group[c]
             box == IF client_connected[c] THEN Leaving(inbox, c, old) ELSE inbox
  <1>1. VariableType /\ ScreenType /\ IsBox(inbox)
    BY DEF TypeInv
  <1>2. VariableType'
    <2>1. member' \in [Client -> SUBSET Server] /\ curr_db' \in [Client -> Place]
          /\ client_connected' \in [Client -> BOOLEAN]
      <3>1. CASE client_connected[c]
        <4>1. /\ member' = [member EXCEPT ![c] = (@ \ {old}) \cup {s}]
              /\ curr_db' = [curr_db EXCEPT ![c] = NoBoard]
              /\ client_connected' = [client_connected EXCEPT ![c] = FALSE]
          BY <3>1 DEF Connect, ReInit
        <4> HIDE DEF old
        <4> QED
          BY <1>1, <4>1 DEF VariableType, Place
      <3>2. CASE ~ client_connected[c]
        <4>1. /\ member' = [member EXCEPT ![c] = @ \cup {s}]
              /\ UNCHANGED <<curr_db, client_connected>>
          BY <3>2 DEF Connect
        <4> QED
          BY <1>1, <4>1 DEF VariableType
      <3> QED
        BY <3>1, <3>2
    <2>2. UNCHANGED <<up, syncOn, pc, joined, far, lost>>
      BY DEF Connect, Command, serverVars, syncVars
    <2>3. /\ cs_index' \in [Client -> Server \cup {NoServer}]
          /\ client_server_group' \in [Client -> Server \cup {NoServer}]
      BY <1>1 DEF Connect, VariableType
    <2>4. hasty' \in [Client -> BOOLEAN]
      BY <1>1 DEF Connect, VariableType, Hasty, Waits
    <2>5. switched' \in [Client -> SUBSET {"board", "server"}]
      BY <1>1 DEF Connect, VariableType
    <2> QED
      BY <1>1, <2>1, <2>2, <2>3, <2>4, <2>5 DEF VariableType
  <1>3. ScreenType'
    BY <1>1, ReInitType, ScreenTypeKept DEF Connect, screenVars
  <1>4. IsBox(box)
    BY <1>1, ConnectedTo, LeavingAt
  <1> HIDE DEF box
  <1>5. IsBox(Joining(box, c, s))
    BY <1>4, JoiningAt
  <1>6. Request("c", c, NoBoard, 0, NoBoard) \in ServerMessage
    BY ServerMessages
  <1>7. inbox' = To(Joining(box, c, s), c, s, Request("c", c, NoBoard, 0, NoBoard))
    BY DEF Connect, box
  <1>8. IsBox(inbox')
    BY <1>5, <1>6, <1>7, ToServerAt
  <1>9. ListType' /\ FileType' /\ QueueType'
    BY ServerTypesKept DEF Connect, Command, TypeInv
  <1> QED
    BY <1>2, <1>3, <1>8, <1>9 DEF TypeInv

\* A command that does no more than to send a request.
LEMMA AskType ==
  ASSUME TypeInv, ConnectionInv, NEW c \in Client, client_connected[c], NEW r \in RequestMessage,
         inbox' = To(inbox, c, cs_index[c], r)
  PROVE  IsBox(inbox')
PROOF
  BY ConnectedTo, Requested

LEMMA SilentType ==
  ASSUME TypeInv, IsBox(inbox'),
         UNCHANGED <<up, clientVars, serverVars, netVars>>
  PROVE  TypeInv'
PROOF
  <1>1. VariableType'
    BY DEF TypeInv, VariableType, clientVars, sessionVars, screenVars, historyVars, serverVars,
           syncVars, netVars
  <1>2. ScreenType'
    BY ScreenTypeKept DEF TypeInv, clientVars, screenVars
  <1> QED
    BY <1>1, <1>2, ServerTypesKept DEF TypeInv

LEMMA RequestsType ==
  ASSUME TypeInv, ConnectionInv, NEW c \in Client,
         \/ Post(c) \/ AskView(c)
         \/ \E op \in {"e", "d"}, line \in 1 .. obj_num[c] : Change(c, op, line)
  PROVE  TypeInv'
PROOF
  <1>1. /\ client_connected[c] /\ UNCHANGED <<up, clientVars, serverVars, netVars>>
    BY DEF Post, AskView, Change, Command, netVars
  <1>2. /\ curr_db[c] \in Place /\ (curr_db[c] # NoBoard => curr_db[c] \in Board)
        /\ NoBoard \in Place
        /\ objects[c] \subseteq Nat /\ IsFiniteSet(objects[c]) /\ obj_num[c] \in Nat
    BY DEF TypeInv, VariableType, Place, ScreenType
  <1>3. \E r \in RequestMessage : inbox' = To(inbox, c, cs_index[c], r)
    <2>1. CASE Post(c)
      <3>1. Request("a", c, curr_db[c], 0, NoBoard) \in RequestMessage
        BY <1>2, <2>1, ServerMessages DEF Post
      <3> QED
        BY <2>1, <3>1 DEF Post
    <2>2. CASE AskView(c)
      <3>1. Request("v", c, NoBoard, 0, NoBoard) \in RequestMessage
        BY ServerMessages
      <3> QED
        BY <2>2, <3>1 DEF AskView
    <2>3. ASSUME NEW op \in {"e", "d"}, NEW line \in 1 .. obj_num[c], Change(c, op, line)
          PROVE  \E r \in RequestMessage : inbox' = To(inbox, c, cs_index[c], r)
      <3>1. line \in Nat \ {0} /\ objects[c] # {} /\ curr_db[c] \in Board
        BY <1>2, <2>3 DEF Change
      <3>2. NthObject(objects[c], line) \in Nat
        BY <1>2, <3>1, NthObjectType
      <3>3. Request(op, c, curr_db[c], NthObject(objects[c], line), NoBoard) \in RequestMessage
        BY <1>2, <3>1, <3>2, ServerMessages
      <3> QED
        BY <2>3, <3>3 DEF Change
    <2> QED
      BY <2>1, <2>2, <2>3
  <1>4. IsBox(inbox')
    BY <1>1, <1>3, AskType
  <1> QED
    BY <1>1, <1>4, SilentType

LEMMA JoinType ==
  ASSUME TypeInv, ConnectionInv, NEW c \in Client, NEW b \in Board, Join(c, b)
  PROVE  TypeInv'
PROOF
  <1>1. VariableType /\ ScreenType /\ IsBox(inbox)
    BY DEF TypeInv
  <1>2. VariableType'
    BY <1>1 DEF Join, Command, serverVars, syncVars, VariableType, Place
  <1>3. ScreenType'
    <2>1. IsFiniteSet({}) /\ {} \subseteq Nat /\ 0 \in Nat
      BY FS_EmptySet
    <2>2. objects' = [objects EXCEPT ![c] = {}] /\ obj_num' = [obj_num EXCEPT ![c] = 0]
      BY DEF Join
    <2>3. wiped' \in [Client -> BOOLEAN]
      BY <1>1 DEF Join, ScreenType
    <2> QED
      BY <1>1, <2>1, <2>2, <2>3, ScreenTypeWith
  <1>4. curr_db[c] \in Place /\ client_connected[c]
    BY <1>1 DEF VariableType, Join
  <1>5. Request("j", c, b, 0, curr_db[c]) \in RequestMessage
    BY <1>4, ServerMessages
  <1>6. inbox' = To(inbox, c, cs_index[c], Request("j", c, b, 0, curr_db[c]))
    BY DEF Join
  <1>7. IsBox(inbox')
    BY <1>4, <1>5, <1>6, AskType
  <1> QED
    BY <1>2, <1>3, <1>7, ServerTypesKept DEF Join, Command, TypeInv

LEMMA JoinRefusedType ==
  ASSUME TypeInv, NEW c \in Client, JoinRefused(c)
  PROVE  TypeInv'
PROOF
  <1>1. VariableType'
    BY DEF TypeInv, JoinRefused, Command, sessionVars, historyVars, serverVars, syncVars, VariableType
  <1>2. ScreenType'
    <2>1. IsFiniteSet({}) /\ {} \subseteq Nat /\ obj_num[c] \in Nat
          /\ obj_num = [obj_num EXCEPT ![c] = obj_num[c]]
      BY FS_EmptySet DEF TypeInv, ScreenType
    <2>2. objects' = [objects EXCEPT ![c] = {}] /\ obj_num' = obj_num
      BY DEF JoinRefused
    <2>3. wiped' \in [Client -> BOOLEAN]
      BY DEF TypeInv, ScreenType, JoinRefused
    <2> QED
      BY <2>1, <2>2, <2>3, ScreenTypeWith DEF TypeInv
  <1> QED
    BY <1>1, <1>2, ServerTypesKept DEF JoinRefused, Command, TypeInv

\* A client goes from all groups it is in.
LEMMA LeavingAllAt ==
  ASSUME IsBox(inbox), NEW c \in Client, inbox' = [LeavingAll(inbox, c) EXCEPT ![c] = <<>>]
  PROVE  /\ IsBox(inbox') /\ inbox'[c] = <<>>
         /\ \A d \in Client : d # c => inbox'[d] = inbox[d]
         /\ \A s \in Server : inbox'[s] =
              IF Both(c, s) /\ up[s] THEN Append(inbox[s], Left(c)) ELSE inbox[s]
PROOF
  <1>1. inbox' = [p \in Proc |-> IF p = c THEN <<>>
                                 ELSE IF p \in Server /\ Both(c, p) /\ up[p]
                                        THEN Append(inbox[p], Left(c)) ELSE inbox[p]]
    BY DEF LeavingAll
  <1>2. \A s \in Server : inbox'[s] =
          IF Both(c, s) /\ up[s] THEN Append(inbox[s], Left(c)) ELSE inbox[s]
    BY <1>1, Processes
  <1>3. inbox'[c] = <<>> /\ \A d \in Client : d # c => inbox'[d] = inbox[d]
    BY <1>1, Processes
  <1>4. \A s \in Server : inbox'[s] \in Seq(ServerMessage)
    <2> TAKE s \in Server
    <2>1. inbox[s] \in Seq(ServerMessage) /\ Left(c) \in ServerMessage
      BY BoxAt, ServerMessages
    <2>2. Append(inbox[s], Left(c)) \in Seq(ServerMessage)
      BY <2>1
    <2> QED
      BY <1>2, <2>1, <2>2
  <1>5. \A d \in Client : inbox'[d] \in Seq(ClientMessage)
    <2> TAKE d \in Client
    <2>1. inbox[d] \in Seq(ClientMessage) /\ <<>> \in Seq(ClientMessage)
      BY BoxAt
    <2> QED
      BY <1>3, <2>1
  <1>6. inbox' = [p \in Proc |-> inbox'[p]]
    BY <1>1
  <1> QED
    BY <1>2, <1>3, <1>4, <1>5, <1>6 DEF IsBox

LEMMA QuitType ==
  ASSUME TypeInv, NEW c \in Client, Quit(c)
  PROVE  TypeInv'
PROOF
  <1>1. VariableType'
    BY Processes DEF TypeInv, Quit, Command, clientVars, sessionVars, historyVars, serverVars, syncVars,
           VariableType
  <1>2. ScreenType'
    BY ScreenTypeKept DEF TypeInv, Quit, clientVars, screenVars
  <1>3. IsBox(inbox')
    BY LeavingAllAt DEF TypeInv, Quit
  <1> QED
    BY <1>1, <1>2, <1>3, ServerTypesKept DEF Quit, Command, TypeInv

LEMMA CommandType ==
  ASSUME TypeInv, ConnectionInv, NEW c \in Client, UserCommand(c)
  PROVE  TypeInv'
PROOF
  BY ConnectType, JoinType, JoinRefusedType, QuitType, RequestsType DEF UserCommand

LEMMA ResponseType ==
  ASSUME TypeInv, NEW c \in Client, RecvResponse(c)
  PROVE  TypeInv'
PROOF
  <1> DEFINE m == Head(inbox[c])
             keys == AfterResponse(objects[c], m)
  <1>1. m.op \in {"a", "e", "d", "v"} /\ m.obj_id \in Nat /\ inbox[c] # <<>>
    BY HeadOfClient, MessageKinds DEF RecvResponse, TypeInv
  <1>2. objects[c] \subseteq Nat /\ IsFiniteSet(objects[c])
    BY DEF TypeInv, ScreenType
  <1> HIDE DEF m
  <1>3. keys \subseteq Nat /\ IsFiniteSet(keys)
    <2>1. CASE m.op = "a"
      <3>1. keys = objects[c] \cup {m.obj_id}
        BY <2>1 DEF AfterResponse
      <3>2. IsFiniteSet(objects[c] \cup {m.obj_id})
        BY <1>2, FS_AddElement
      <3> QED
        BY <1>1, <1>2, <3>1, <3>2
    <2>2. CASE m.op = "d"
      <3>1. keys = objects[c] \ {m.obj_id}
        BY <2>2 DEF AfterResponse
      <3>2. IsFiniteSet(objects[c] \ {m.obj_id})
        BY <1>2, FS_RemoveElement
      <3> QED
        BY <1>2, <3>1, <3>2
    <2>3. CASE m.op \in {"e", "v"}
      <3>1. keys = objects[c]
        BY <2>3 DEF AfterResponse
      <3> QED
        BY <1>2, <3>1
    <2> QED
      BY <1>1, <2>1, <2>2, <2>3
  <1> HIDE DEF keys
  <1>4. /\ objects' = [objects EXCEPT ![c] = keys] /\ obj_num' = Displayed(c, keys)
        /\ UNCHANGED wiped
    BY DEF RecvResponse, keys, m
  <1>5. ScreenType'
    BY <1>3, <1>4, ScreenTypeShown DEF TypeInv
  <1>6. IsBox(inbox')
    BY <1>1, ReceivedAt, Processes DEF RecvResponse, TypeInv
  <1>7. VariableType'
    BY DEF TypeInv, RecvResponse, sessionVars, historyVars, serverVars, syncVars, netVars, VariableType
  <1> QED
    BY <1>5, <1>6, <1>7, ServerTypesKept DEF RecvResponse, TypeInv

LEMMA MembershipType ==
  ASSUME TypeInv, NEW c \in Client, RecvMembership(c)
  PROVE  TypeInv'
PROOF
  <1> DEFINE m == Head(inbox[c])
             gone == m.cause = "gone" /\ m.group = client_server_group[c]
  <1>1. m.group \in Server /\ inbox[c] # <<>>
    BY HeadOfClient, MessageKinds DEF RecvMembership, TypeInv
  <1>2. IsBox(Received(c))
    BY <1>1, ReceivedAt, Processes DEF TypeInv
  <1>3. IsBox(inbox')
    BY <1>1, <1>2, LeavingAt DEF RecvMembership
  <1>4. ScreenType'
    <2>1. objects = [objects EXCEPT ![c] = objects[c]] /\ objects[c] \subseteq Nat
          /\ IsFiniteSet(objects[c])
      BY DEF TypeInv, ScreenType
    <2>2. ReInit(c) \/ (UNCHANGED <<objects, wiped>> /\ obj_num' = Displayed(c, objects[c]))
      BY DEF RecvMembership
    <2> QED
      BY <2>1, <2>2, ReInitType, ScreenTypeShown DEF TypeInv
  <1>5. VariableType'
    <2>0. /\ UNCHANGED <<up, cs_index, syncOn, pc, joined, far, hasty, lost, switched>>
          /\ VariableType
      BY DEF TypeInv, RecvMembership, historyVars, serverVars, syncVars
    <2>1. CASE gone
      <3>1. /\ member' = [member EXCEPT ![c] = @ \ {m.group}]
            /\ client_server_group' = [client_server_group EXCEPT ![c] = NoServer]
            /\ curr_db' = [curr_db EXCEPT ![c] = NoBoard]
            /\ client_connected' = [client_connected EXCEPT ![c] = FALSE]
        BY <2>1 DEF RecvMembership, ReInit
      <3> HIDE DEF m
      <3> QED
        BY <2>0, <3>1 DEF VariableType, Place
    <2>2. CASE ~ gone
      <3>1. /\ UNCHANGED <<member, client_server_group, curr_db>>
            /\ client_connected' = [client_connected EXCEPT ![c] = IsConnection(c, m)]
        BY <2>2 DEF RecvMembership
      <3>2. IsConnection(c, m) \in BOOLEAN
        BY DEF IsConnection
      <3> HIDE DEF m
      <3> QED
        BY <2>0, <3>1, <3>2 DEF VariableType
    <2> QED
      BY <2>1, <2>2
  <1> QED
    BY <1>3, <1>4, <1>5, ServerTypesKept DEF RecvMembership, TypeInv

LEMMA ReconnectType ==
  ASSUME TypeInv, NEW c \in Client, Reconnect(c)
  PROVE  TypeInv'
PROOF
  <1>1. ScreenType'
    <2>1. objects = [objects EXCEPT ![c] = objects[c]] /\ objects[c] \subseteq Nat
          /\ IsFiniteSet(objects[c])
      BY DEF TypeInv, ScreenType
    <2> QED
      BY <2>1, ScreenTypeShown DEF TypeInv, Reconnect
  <1>2. IsBox(inbox')
    BY LeavingAllAt DEF TypeInv, Reconnect
  <1>3. VariableType'
    BY DEF TypeInv, Reconnect, sessionVars, serverVars, syncVars, VariableType
  <1> QED
    BY <1>1, <1>2, <1>3, ServerTypesKept DEF Reconnect, TypeInv

\* Nothing about the clients changes but their boxes.
LEMMA ServersOnlyType ==
  ASSUME TypeInv, UNCHANGED clientVars, UNCHANGED <<member, far>>,
         up' \in [Proc -> BOOLEAN], joined' \in [Server -> SUBSET Client],
         syncOn' \in [Server -> BOOLEAN], pc' \in [Server -> {"idle", "draining"}],
         IsBox(inbox'), ListType', FileType', QueueType'
  PROVE  TypeInv'
PROOF
  <1>1. VariableType'
    BY DEF TypeInv, VariableType, clientVars, sessionVars, historyVars
  <1>2. ScreenType'
    BY ScreenTypeKept DEF TypeInv, clientVars, screenVars
  <1> QED
    BY <1>1, <1>2 DEF TypeInv

LEMMA RequestType ==
  ASSUME TypeInv, NEW s \in Server, RecvRequest(s)
  PROVE  TypeInv'
PROOF
  <1> DEFINE r == Head(inbox[s])
  <1>1. r \in RequestMessage /\ inbox[s] # <<>>
    BY HeadOfServer, MessageKinds DEF RecvRequest, TypeInv
  <1>2. HandleClientReq(s, r, Received(s))
    BY DEF RecvRequest
  <1>3. IsBox(Received(s))
    BY <1>1, ReceivedAt, Processes DEF TypeInv
  <1> HIDE DEF r
  <1>4. IsBox(inbox') /\ ListType' /\ FileType'
        /\ up' \in [Proc -> BOOLEAN] /\ joined' \in [Server -> SUBSET Client]
    BY <1>1, <1>2, <1>3, HandlerLists, HandlerFile, HandlerBox, HandlerVariables DEF TypeInv
  <1>5. QueueType'
    <2>1. pc[s] = "idle" /\ UNCHANGED <<syncOn, pc>>
      BY DEF RecvRequest
    <2>2. queue' = queue \/ queue' = [queue EXCEPT ![s] = Append(@, r)]
      BY DEF RecvRequest, r
    <2>3. Append(queue[s], r) \in Seq(RequestMessage)
      BY <1>1 DEF TypeInv, QueueType
    <2> QED
      BY <2>1, <2>2, <2>3 DEF TypeInv, QueueType
  <1>6. UNCHANGED clientVars /\ UNCHANGED <<member, far, syncOn, pc>>
    BY DEF RecvRequest
  <1>7. syncOn' \in [Server -> BOOLEAN] /\ pc' \in [Server -> {"idle", "draining"}]
    BY <1>6 DEF TypeInv, VariableType
  <1> QED
    BY <1>4, <1>5, <1>6, <1>7, ServersOnlyType

LEMMA DrainType ==
  ASSUME TypeInv, NEW s \in Server, Drain(s)
  PROVE  TypeInv'
PROOF
  <1> DEFINE r == Head(queue[s])
  <1>1. queue[s] \in Seq(RequestMessage) /\ queue[s] # <<>> /\ ~ syncOn[s]
    BY DEF Drain, TypeInv, QueueType
  <1>2. r \in RequestMessage
    BY <1>1
  <1>3. HandleClientReq(s, r, inbox)
    BY DEF Drain
  <1> HIDE DEF r
  <1>4. IsBox(inbox') /\ ListType' /\ FileType'
        /\ up' \in [Proc -> BOOLEAN] /\ joined' \in [Server -> SUBSET Client]
    BY <1>2, <1>3, HandlerLists, HandlerFile, HandlerBox, HandlerVariables DEF TypeInv
  <1>5. UNCHANGED clientVars /\ UNCHANGED <<member, far, syncOn>>
    BY DEF Drain
  <1>6. /\ queue' = [queue EXCEPT ![s] = Tail(@)]
        /\ pc' = [pc EXCEPT ![s] = IF Len(queue[s]) = 1 THEN "idle" ELSE "draining"]
    BY DEF Drain
  <1>7. QueueType'
    <2>1. Tail(queue[s]) \in Seq(RequestMessage) /\ (Len(queue[s]) # 1 => Tail(queue[s]) # <<>>)
      <3> DEFINE q == queue[s]
      <3>1. /\ Tail(q) \in Seq(RequestMessage) /\ Len(Tail(q)) = Len(q) - 1
            /\ Len(q) \in Nat /\ Len(q) >= 1
        BY <1>1, TailAt
      <3>2. Len(q) # 1 => Len(Tail(q)) # 0
        BY <3>1
      <3>3. \A x : x = <<>> => Len(x) = 0
        BY EmptySeq
      <3> QED
        BY <3>1, <3>2, <3>3
    <2> QED
      BY <1>1, <1>5, <1>6, <2>1 DEF TypeInv, QueueType, VariableType
  <1>8. syncOn' \in [Server -> BOOLEAN] /\ pc' \in [Server -> {"idle", "draining"}]
    BY <1>5, <1>6 DEF TypeInv, VariableType
  <1> QED
    BY <1>4, <1>5, <1>7, <1>8, ServersOnlyType

LEMMA OwnUpdateType ==
  ASSUME TypeInv, NEW s \in Server, RecvOwnUpdate(s)
  PROVE  TypeInv'
PROOF
  <1> DEFINE u == Head(inbox[s])
  <1>1. u \in UpdateMessage /\ inbox[s] # <<>>
    BY HeadOfServer, MessageKinds DEF RecvOwnUpdate, TypeInv
  <1>2. IsBox(Received(s)) /\ ListType
    BY <1>1, ReceivedAt, Processes DEF TypeInv
  <1>3. inbox' = IF syncOn[s] THEN Received(s) ELSE Serve(Received(s), s, u)
    BY DEF RecvOwnUpdate
  <1> HIDE DEF u
  <1>4. IsBox(inbox')
    BY <1>1, <1>2, <1>3, ServeAt
  <1> QED
    BY <1>4, SilentType DEF RecvOwnUpdate

LEMMA LeaveType ==
  ASSUME TypeInv, NEW s \in Server, RecvLeave(s)
  PROVE  TypeInv'
PROOF
  <1> DEFINE c == Head(inbox[s]).client
             none == NodesWith(s, c) = {} /\ c \notin ToSet(client_list[s])
  <1>1. c \in Client /\ inbox[s] # <<>>
    BY HeadOfServer, MessageKinds DEF RecvLeave, TypeInv
  <1>2. IsBox(Received(s))
    BY <1>1, ReceivedAt, Processes DEF TypeInv
  <1>3. UNCHANGED <<clientVars, syncVars, file, member, far>>
    BY DEF RecvLeave
  <1>4. FileType' /\ QueueType'
    BY <1>3 DEF TypeInv, FileType, Used, QueueType, syncVars
  <1>5. syncOn' \in [Server -> BOOLEAN] /\ pc' \in [Server -> {"idle", "draining"}]
    BY <1>3 DEF TypeInv, VariableType, syncVars
  <1>6. IsBox(inbox') /\ ListType'
        /\ up' \in [Proc -> BOOLEAN] /\ joined' \in [Server -> SUBSET Client]
    <2>1. CASE none
      <3>1. Exit(s) /\ inbox' = Received(s) /\ UNCHANGED <<client_list, db_list, joined>>
        BY <2>1 DEF RecvLeave
      <3> QED
        BY <3>1, <1>2 DEF Exit, TypeInv, VariableType, ListType
    <2>2. CASE ~ none
      <3>1. /\ inbox' = ServerLeaves(Received(s), s, c)
            /\ joined' = [joined EXCEPT ![s] = @ \ {c}] /\ UNCHANGED up
            /\ \/ /\ UNCHANGED client_list
                  /\ db_list' = [db_list EXCEPT ![s] =
                       WithoutClient(@, @[Min(NodesWith(s, c))].db_name, c)]
               \/ /\ UNCHANGED db_list
                  /\ client_list' = [client_list EXCEPT ![s] = RemoveFirst(@, c)]
        BY <2>2 DEF RecvLeave
      <3> HIDE DEF c
      <3>2. IsBox(inbox')
        BY <1>1, <1>2, <3>1, ServerLeavesAt
      <3>3. ListType /\ client_list[s] \in Seq(Client) /\ BoardList(db_list[s])
        BY ListsAre DEF TypeInv
      <3>4. /\ client_list = [client_list EXCEPT ![s] = client_list[s]]
            /\ db_list = [db_list EXCEPT ![s] = db_list[s]]
        BY <3>3 DEF ListType
      <3>5. CASE db_list' = [db_list EXCEPT ![s] =
                   WithoutClient(@, @[Min(NodesWith(s, c))].db_name, c)] /\ UNCHANGED client_list
        <4> DEFINE new == WithoutClient(db_list[s], db_list[s][Min(NodesWith(s, c))].db_name, c)
        <4>1. BoardList(new)
          BY <1>1, <3>3, WithoutClientFacts
        <4>2. db_list' = [db_list EXCEPT ![s] = new]
          BY <3>5
        <4> HIDE DEF new
        <4>3. ListType'
          BY <3>3, <3>4, <3>5, <4>1, <4>2, ListsWith
        <4> QED
          BY <3>1, <3>2, <4>3 DEF TypeInv, VariableType
      <3>6. CASE client_list' = [client_list EXCEPT ![s] = RemoveFirst(@, c)] /\ UNCHANGED db_list
        <4>1. RemoveFirst(client_list[s], c) \in Seq(Client)
          BY <3>3, RemoveFirstFacts
        <4>2. ListType'
          BY <3>3, <3>4, <3>6, <4>1, ListsWith
        <4> QED
          BY <3>1, <3>2, <4>2 DEF TypeInv, VariableType
      <3> QED
        BY <3>1, <3>5, <3>6
    <2> QED
      BY <2>1, <2>2
  <1> QED
    BY <1>3, <1>4, <1>5, <1>6, ServersOnlyType

LEMMA NewsUpdates ==
  ASSUME FileType, NEW s \in Server, NEW u \in NewsFor(s)
  PROVE  u \in UpdateMessage
PROOF
  <1>0. \A t \in Server : \A k \in DOMAIN file[t] : file[t][k].db_name \in Board /\ k \in Nat
    BY DEF FileType, Record
  <1>1. CASE u \in {Update("a", b, NewKey) : b \in Board}
    BY <1>1, NewKeyIsNew, ServerMessages
  <1>2. CASE u \in Elsewhere(s)
    <2>1. PICK t \in Server : u \in {Update("a", file[t][k].db_name, k) : k \in DOMAIN file[t] \ DOMAIN file[s]}
      BY <1>2 DEF Elsewhere
    <2>2. PICK k \in DOMAIN file[t] : u = Update("a", file[t][k].db_name, k)
      BY <2>1
    <2> QED
      BY <1>0, <2>2, ServerMessages
  <1>3. CASE u \in {Update(op, file[s][k].db_name, k) : op \in {"e", "d"}, k \in Delivered(s)}
    <2>1. PICK op \in {"e", "d"}, k \in Delivered(s) : u = Update(op, file[s][k].db_name, k)
      BY <1>3
    <2>2. k \in DOMAIN file[s]
      BY DEF Delivered
    <2> QED
      BY <1>0, <2>1, <2>2, ServerMessages
  <1> QED
    BY <1>1, <1>2, <1>3 DEF NewsFor

LEMMA NewsType ==
  ASSUME TypeInv, NEW s \in Server, NEW u \in NewsFor(s), News(s, u)
  PROVE  TypeInv'
PROOF
  <1>1. u \in UpdateMessage /\ IsBox(inbox) /\ ListType /\ FileType
    BY NewsUpdates DEF TypeInv
  <1>2. IsBox(inbox')
    BY <1>1, ServeAt DEF News
  <1>3. FileType'
    BY <1>1, AppliedType DEF News
  <1>4. UNCHANGED <<up, clientVars, syncVars, client_list, db_list, netVars>>
    BY DEF News
  <1>5. ListType' /\ QueueType'
    BY <1>4 DEF TypeInv, ListType, QueueType, syncVars
  <1>6. up' \in [Proc -> BOOLEAN] /\ joined' \in [Server -> SUBSET Client]
        /\ syncOn' \in [Server -> BOOLEAN] /\ pc' \in [Server -> {"idle", "draining"}]
    BY <1>4 DEF TypeInv, VariableType, syncVars, netVars
  <1> QED
    BY <1>2, <1>3, <1>4, <1>5, <1>6, ServersOnlyType DEF netVars

LEMMA SyncType ==
  ASSUME TypeInv, NEW s \in Server, StartSync(s) \/ EndSync(s)
  PROVE  TypeInv'
PROOF
  <1>1. UNCHANGED <<up, clientVars, queue, client_list, db_list, file, netVars, inbox>>
    BY DEF StartSync, EndSync
  <1>2. IsBox(inbox') /\ ListType' /\ FileType'
    BY <1>1 DEF TypeInv, IsBox, ListType, FileType, Used
  <1>3. QueueType' /\ syncOn' \in [Server -> BOOLEAN] /\ pc' \in [Server -> {"idle", "draining"}]
    <2>1. CASE StartSync(s)
      BY <2>1 DEF StartSync, TypeInv, VariableType, QueueType
    <2>2. CASE EndSync(s)
      BY <2>2 DEF EndSync, TypeInv, VariableType, QueueType
    <2> QED
      BY <2>1, <2>2
  <1>4. up' \in [Proc -> BOOLEAN] /\ joined' \in [Server -> SUBSET Client]
    BY <1>1 DEF TypeInv, VariableType, netVars
  <1> QED
    BY <1>1, <1>2, <1>3, <1>4, ServersOnlyType DEF netVars

LEMMA CrashType ==
  ASSUME TypeInv, NEW s \in Server, Crash(s)
  PROVE  TypeInv'
PROOF
  <1>1. UNCHANGED <<clientVars, serverVars, netVars, inbox>> /\ up' = [up EXCEPT ![s] = FALSE]
    BY DEF Crash, Exit
  <1>2. IsBox(inbox') /\ ListType' /\ FileType' /\ QueueType'
    BY <1>1, ServerTypesKept DEF TypeInv, IsBox
  <1>3. /\ up' \in [Proc -> BOOLEAN] /\ joined' \in [Server -> SUBSET Client]
        /\ syncOn' \in [Server -> BOOLEAN] /\ pc' \in [Server -> {"idle", "draining"}]
    BY <1>1 DEF TypeInv, VariableType, netVars, serverVars, syncVars
  <1> QED
    BY <1>1, <1>2, <1>3, ServersOnlyType DEF netVars

LEMMA DisconnectAt ==
  ASSUME TypeInv, NEW s \in Server, Disconnect(s)
  PROVE  /\ IsBox(inbox') /\ inbox'[s] = <<>>
         /\ \A t \in Server : t # s => inbox'[t] = inbox[t]
         /\ \A c \in Client : inbox'[c] =
              IF Both(c, s) /\ up[c] THEN Append(inbox[c], Membership(s, 1, "gone")) ELSE inbox[c]
PROOF
  <1>1. inbox' = [p \in Proc |->
                   IF p = s THEN <<>>
                   ELSE IF p \in joined[s] /\ Both(p, s) /\ up[p]
                     THEN Append(inbox[p], Membership(s, 1, "gone")) ELSE inbox[p]]
    BY DEF Disconnect
  <1>2. joined[s] \subseteq Client /\ IsBox(inbox)
    BY DEF TypeInv, VariableType
  <1>3. inbox'[s] = <<>> /\ \A t \in Server : t # s => inbox'[t] = inbox[t]
    BY <1>1, <1>2, Processes
  <1>4. \A c \in Client : inbox'[c] =
          IF Both(c, s) /\ up[c] THEN Append(inbox[c], Membership(s, 1, "gone")) ELSE inbox[c]
    BY <1>1, Processes DEF Both
  <1>5. \A c \in Client : inbox'[c] \in Seq(ClientMessage)
    <2> TAKE c \in Client
    <2>1. inbox[c] \in Seq(ClientMessage) /\ Membership(s, 1, "gone") \in ClientMessage
      BY <1>2, BoxAt, ClientMessages
    <2>2. Append(inbox[c], Membership(s, 1, "gone")) \in Seq(ClientMessage)
      BY <2>1
    <2> QED
      BY <1>4, <2>1, <2>2
  <1>6. \A t \in Server : inbox'[t] \in Seq(ServerMessage)
    <2> TAKE t \in Server
    <2>1. inbox[t] \in Seq(ServerMessage) /\ <<>> \in Seq(ServerMessage)
      BY <1>2, BoxAt
    <2> QED
      BY <1>3, <2>1
  <1>7. inbox' = [p \in Proc |-> inbox'[p]]
    BY <1>1
  <1> QED
    BY <1>3, <1>4, <1>5, <1>6, <1>7 DEF IsBox

LEMMA DisconnectType ==
  ASSUME TypeInv, NEW s \in Server, Disconnect(s)
  PROVE  TypeInv'
PROOF
  <1>1. UNCHANGED <<up, clientVars, serverVars, member, far>> /\ joined' = [joined EXCEPT ![s] = {}]
    BY DEF Disconnect
  <1>2. IsBox(inbox') /\ ListType' /\ FileType' /\ QueueType'
    BY <1>1, DisconnectAt, ServerTypesKept DEF TypeInv
  <1>3. /\ up' \in [Proc -> BOOLEAN] /\ joined' \in [Server -> SUBSET Client]
        /\ syncOn' \in [Server -> BOOLEAN] /\ pc' \in [Server -> {"idle", "draining"}]
    BY <1>1 DEF TypeInv, VariableType, serverVars, syncVars
  <1> QED
    BY <1>1, <1>2, <1>3, ServersOnlyType

\* The members of a group that see each other before or after a partition but not both.
Turns(c, s, A) == c \in joined[s] /\ ~ (Together(c, s) <=> (c \in A <=> s \in A))

\* What client c is told of a partition.
Tells(c, A, w) ==
  /\ \A i \in DOMAIN w : \E s \in member[c] :
       Turns(c, s, A) /\ w[i] = Membership(s, IF Together(c, s) THEN 1 ELSE 2, "network")
  /\ \A s \in member[c] : Turns(c, s, A) => \E i \in DOMAIN w : w[i].group = s

LEMMA PartitionAt ==
  ASSUME TypeInv, NEW A, Partition(A)
  PROVE  /\ IsBox(inbox')
         /\ \A t \in Server : inbox'[t] = inbox[t]
         /\ \A c \in Client : ~ up[c] => inbox'[c] = inbox[c]
         /\ \A c \in Client : up[c] =>
              \E w \in Seq(ClientMessage) : inbox'[c] = inbox[c] \o w /\ Tells(c, A, w)
PROOF
  <1> DEFINE groups(c) == {s \in member[c] : c \in joined[s]
                                               /\ Together(c, s) # ((c \in A) = (s \in A))}
             order(c) == Ascending(groups(c))
             w(c) == [i \in DOMAIN order(c) |->
                       Membership(order(c)[i], IF Together(c, order(c)[i]) THEN 1 ELSE 2, "network")]
  <1>1. inbox' = [p \in Proc |-> IF p \in Client /\ up[p] THEN inbox[p] \o w(p) ELSE inbox[p]]
    BY DEF Partition
  <1>2. IsBox(inbox)
    BY DEF TypeInv
  <1>3. ASSUME NEW c \in Client
        PROVE  w(c) \in Seq(ClientMessage) /\ Tells(c, A, w(c))
    <2>1. groups(c) \in SUBSET Server /\ groups(c) \subseteq Nat
      BY ServerAssumption DEF TypeInv, VariableType
    <2>2. \A s \in Server : s \in groups(c) <=> s \in member[c] /\ Turns(c, s, A)
      BY DEF Turns, Together
    <2> DEFINE G == groups(c)
               q == order(c)
    <2>3. IsFiniteSet(G)
      BY <2>1, ServerAssumption, FS_Subset
    <2>4. q = Ascending(G) /\ G \subseteq Nat /\ G \subseteq Server
      BY <2>1
    <2>5. w(c) = [i \in DOMAIN q |-> Membership(q[i], IF Together(c, q[i]) THEN 1 ELSE 2, "network")]
      OBVIOUS
    <2> DEFINE v == w(c)
    <2>6. v = [i \in DOMAIN q |-> Membership(q[i], IF Together(c, q[i]) THEN 1 ELSE 2, "network")]
      BY <2>5
    <2>7. \A s \in Server : s \in G <=> s \in member[c] /\ Turns(c, s, A)
      BY <2>2
    <2> HIDE DEF G, q, v
    <2>8. /\ Cardinality(G) \in Nat /\ q \in [1 .. Cardinality(G) -> G]
          /\ \A x \in G : \E i \in DOMAIN q : q[i] = x
      BY <2>3, <2>4, AscendingFacts
    <2>9. \A i \in DOMAIN q : q[i] \in G /\ q[i] \in Server
      BY <2>4, <2>8
    <2>10. \A i \in DOMAIN q : v[i] \in ClientMessage /\ v[i].group = q[i]
      BY <2>6, <2>9, ClientMessages
    <2>11. v \in Seq(ClientMessage) /\ DOMAIN v = DOMAIN q
      BY <2>6, <2>8, <2>10
    <2>12. \A i \in DOMAIN v : \E s \in member[c] :
             Turns(c, s, A) /\ v[i] = Membership(s, IF Together(c, s) THEN 1 ELSE 2, "network")
      BY <2>6, <2>7, <2>9, <2>11
    <2>13. \A s \in member[c] : Turns(c, s, A) => \E i \in DOMAIN v : v[i].group = s
      <3> TAKE s \in member[c]
      <3> HAVE Turns(c, s, A)
      <3>1. s \in G
        BY <2>7 DEF TypeInv, VariableType
      <3> QED
        BY <3>1, <2>8, <2>10, <2>11
    <2>14. Tells(c, A, v)
      BY <2>12, <2>13 DEF Tells
    <2> QED
      BY <2>11, <2>14 DEF v
  <1> HIDE DEF w
  <1>4. \A t \in Server : inbox'[t] = inbox[t]
    BY <1>1, Processes
  <1>5. \A c \in Client : inbox'[c] = IF up[c] THEN inbox[c] \o w(c) ELSE inbox[c]
    BY <1>1, Processes
  <1>6. \A c \in Client : inbox'[c] \in Seq(ClientMessage)
    <2> TAKE c \in Client
    <2>1. inbox[c] \in Seq(ClientMessage) /\ w(c) \in Seq(ClientMessage)
      BY <1>2, <1>3, BoxAt
    <2>2. inbox[c] \o w(c) \in Seq(ClientMessage)
      BY <2>1
    <2> QED
      BY <1>5, <2>1, <2>2
  <1>7. inbox' = [p \in Proc |-> inbox'[p]]
    BY <1>1
  <1>8. IsBox(inbox')
    BY <1>2, <1>4, <1>6, <1>7, BoxAt DEF IsBox
  <1>9. ASSUME NEW c \in Client, up[c]
        PROVE  \E x \in Seq(ClientMessage) : inbox'[c] = inbox[c] \o x /\ Tells(c, A, x)
    BY <1>3, <1>5, <1>9
  <1> QED
    BY <1>4, <1>5, <1>8, <1>9

LEMMA PartitionType ==
  ASSUME TypeInv, NEW A \in SUBSET Proc, Partition(A)
  PROVE  TypeInv'
PROOF
  <1>1. UNCHANGED <<up, clientVars, serverVars, member, joined>> /\ far' = A
    BY DEF Partition
  <1>2. VariableType'
    BY <1>1 DEF TypeInv, VariableType, clientVars, sessionVars, historyVars, serverVars, syncVars
  <1>3. ScreenType'
    BY <1>1, ScreenTypeKept DEF TypeInv, clientVars, screenVars
  <1> QED
    BY <1>1, <1>2, <1>3, PartitionAt, ServerTypesKept DEF TypeInv

LEMMA TypeStutter ==
  ASSUME TypeInv, UNCHANGED vars
  PROVE  TypeInv'
PROOF
  <1>1. UNCHANGED <<up, clientVars, serverVars, netVars, inbox>>
    BY DEF vars
  <1>2. IsBox(inbox')
    BY <1>1 DEF TypeInv
  <1> QED
    BY <1>1, <1>2, SilentType

\* Every step keeps the types.
LEMMA TypeStep == TypeInv /\ ConnectionInv /\ [Next]_vars => TypeInv'
PROOF
  <1> SUFFICES ASSUME TypeInv, ConnectionInv, [Next]_vars PROVE TypeInv'
    OBVIOUS
  <1>1. ASSUME NEW c \in Client, UserCommand(c) \/ ClientStep(c) \/ Reconnect(c) PROVE TypeInv'
    BY <1>1, CommandType, ResponseType, MembershipType, ReconnectType DEF ClientStep
  <1>2. ASSUME NEW s \in Server,
               ServerStep(s) \/ StartSync(s) \/ EndSync(s) \/ Crash(s) \/ Disconnect(s)
        PROVE  TypeInv'
    BY <1>2, RequestType, OwnUpdateType, LeaveType, DrainType, SyncType, CrashType, DisconnectType
       DEF ServerStep
  <1>3. ASSUME NEW s \in Server, NEW u \in NewsFor(s), News(s, u) PROVE TypeInv'
    BY <1>3, NewsType
  <1>4. ASSUME NEW A \in SUBSET Proc, Partition(A) PROVE TypeInv'
    BY <1>4, PartitionType
  <1>5. CASE UNCHANGED vars
    BY <1>5, TypeStutter
  <1> QED
    BY <1>1, <1>2, <1>3, <1>4, <1>5 DEF Next

LEMMA TypeInit == Init => TypeInv
PROOF
  <1> SUFFICES ASSUME Init PROVE TypeInv
    OBVIOUS
  <1>1. VariableType
    BY DEF Init, VariableType, Place
  <1>2. ScreenType
    BY FS_EmptySet DEF Init, ScreenType
  <1>3. IsBox(inbox)
    BY Processes DEF Init, IsBox
  <1>4. ListType /\ QueueType
    BY DEF Init, ListType, QueueType
  <1>5. FileType
    <2>1. /\ DOMAIN file = Server /\ \A s \in Server : file[s] = NoRecords
          /\ DOMAIN NoRecords = {}
      BY DEF Init, NoRecords
    <2>2. Used = {}
      BY <2>1 DEF Used
    <2>3. NoRecords \in [{} -> Record]
      BY DEF NoRecords
    <2> QED
      BY <2>1, <2>2, <2>3, 0 \in Nat DEF FileType
  <1> QED
    BY <1>1, <1>2, <1>3, <1>4, <1>5 DEF TypeInv

--------------------------------------------------------------------------------
(* The connection *)

IsAbout(m, s) == m.type = "Membership" /\ m.group = s

\* The memberships of a group in a sequence of messages, as it grows and shrinks.
LEMMA AboutIs ==
  ASSUME NEW q, NEW s
  PROVE  /\ \A i : i \in About(q, s) <=> i \in DOMAIN q /\ IsAbout(q[i], s)
         /\ \A i : i \in Twos(q, s) <=> i \in About(q, s) /\ q[i].members = 2
         /\ LastIsTwo(q, s) <=> \E i \in Twos(q, s) : \A j \in About(q, s) : j <= i
PROOF
  BY DEF About, IsAbout, Twos, LastIsTwo

LEMMA AboutAppend ==
  ASSUME NEW q \in Seq(ClientMessage), NEW m \in ClientMessage, NEW s
  PROVE  /\ IsAbout(m, s) => /\ About(Append(q, m), s) = About(q, s) \cup {Len(q) + 1}
                             /\ About(Append(q, m), s) # {}
                             /\ LastIsTwo(Append(q, m), s) <=> m.members = 2
                             /\ m.members = 2 => Twos(Append(q, m), s) = Twos(q, s) \cup {Len(q) + 1}
                             /\ m.members # 2 => Twos(Append(q, m), s) = Twos(q, s)
         /\ ~ IsAbout(m, s) => /\ About(Append(q, m), s) = About(q, s)
                               /\ LastIsTwo(Append(q, m), s) <=> LastIsTwo(q, s)
                               /\ Twos(Append(q, m), s) = Twos(q, s)
PROOF
  <1> DEFINE a == Append(q, m)
             n == Len(q) + 1
  <1>1. /\ DOMAIN q = 1 .. Len(q) /\ Len(q) \in Nat /\ DOMAIN a = 1 .. Len(q) + 1
        /\ \A i \in 1 .. Len(q) : a[i] = q[i]
        /\ a[n] = m
    BY AppendAt
  <1> HIDE DEF a
  <1>2. \A i \in DOMAIN a : i \in DOMAIN q \/ i = n
    BY <1>1
  <1>3. \A i \in DOMAIN q : i \in DOMAIN a /\ a[i] = q[i] /\ i \in Nat /\ i < n
    BY <1>1
  <1>4. n \in DOMAIN a /\ n \notin DOMAIN q /\ n \in Nat
    BY <1>1
  <1> HIDE DEF n
  <1>5. ASSUME IsAbout(m, s)
        PROVE  /\ About(a, s) = About(q, s) \cup {n}
               /\ LastIsTwo(a, s) <=> m.members = 2
               /\ m.members = 2 => Twos(a, s) = Twos(q, s) \cup {n}
               /\ m.members # 2 => Twos(a, s) = Twos(q, s)
    <2>1. About(a, s) = About(q, s) \cup {n}
      BY <1>1, <1>2, <1>3, <1>4, <1>5, AboutIs
    <2>2. m.members = 2 => Twos(a, s) = Twos(q, s) \cup {n}
      BY <1>1, <1>2, <1>3, <1>4, <1>5, <2>1, AboutIs
    <2>3. ASSUME m.members # 2 PROVE Twos(a, s) = Twos(q, s)
      <3>1. \A i \in Twos(a, s) : i \in Twos(q, s)
        BY <1>1, <1>3, <2>1, <2>3, AboutIs
      <3>2. \A i \in Twos(q, s) : i \in Twos(a, s)
        BY <1>3, <2>1, AboutIs
      <3> QED
        BY <3>1, <3>2
    <2>4. \A i \in About(q, s) : i \in Nat /\ i < n
      BY <1>3, AboutIs
    <2>5. \A i \in Twos(q, s) : i \in About(q, s)
      BY AboutIs
    <2>6. ASSUME m.members = 2 PROVE LastIsTwo(a, s)
      <3>1. n \in Twos(a, s) /\ \A j \in About(a, s) : j <= n
        BY <2>1, <2>2, <2>4, <2>6, <1>4
      <3> QED
        BY <3>1, AboutIs
    <2>7. ASSUME m.members # 2, LastIsTwo(a, s) PROVE FALSE
      <3>1. PICK i \in Twos(a, s) : \A j \in About(a, s) : j <= i
        BY <2>7, AboutIs
      <3>2. i \in Nat /\ i < n
        BY <2>3, <2>4, <2>5, <2>7
      <3>3. n <= i
        BY <3>1, <2>1
      <3> QED
        BY <3>2, <3>3, <1>4
    <2> QED
      BY <2>1, <2>2, <2>3, <2>6, <2>7
  <1>6. ASSUME ~ IsAbout(m, s)
        PROVE  /\ About(a, s) = About(q, s) /\ Twos(a, s) = Twos(q, s)
               /\ LastIsTwo(a, s) <=> LastIsTwo(q, s)
    <2>1. About(a, s) = About(q, s)
      <3>1. \A i \in About(a, s) : i \in About(q, s)
        BY <1>1, <1>2, <1>3, <1>6, AboutIs
      <3>2. \A i \in About(q, s) : i \in About(a, s)
        BY <1>3, AboutIs
      <3> QED
        BY <3>1, <3>2
    <2>2. Twos(a, s) = Twos(q, s)
      <3>1. \A i \in Twos(a, s) : i \in Twos(q, s)
        BY <2>1, <1>3, AboutIs
      <3>2. \A i \in Twos(q, s) : i \in Twos(a, s)
        BY <2>1, <1>3, AboutIs
      <3> QED
        BY <3>1, <3>2
    <2> QED
      BY <2>1, <2>2 DEF LastIsTwo
  <1> QED
    BY <1>5, <1>6 DEF a, n

LEMMA AboutTail ==
  ASSUME NEW q \in Seq(ClientMessage), q # <<>>, NEW s
  PROVE  /\ \A i \in DOMAIN Tail(q) : Tail(q)[i] = q[i + 1] /\ i + 1 \in DOMAIN q /\ i \in Nat
         /\ \A i : i \in About(Tail(q), s) <=> i \in Nat \ {0} /\ i + 1 \in About(q, s)
         /\ \A i : i \in Twos(Tail(q), s) <=> i \in Nat \ {0} /\ i + 1 \in Twos(q, s)
         /\ 1 \in About(q, s) <=> IsAbout(Head(q), s)
         /\ 1 \in Twos(q, s) <=> IsAbout(Head(q), s) /\ Head(q).members = 2
         /\ LastIsTwo(Tail(q), s) => LastIsTwo(q, s)
         /\ About(Tail(q), s) = {} /\ 1 \in Twos(q, s) => LastIsTwo(q, s)
         /\ About(Tail(q), s) = {} /\ ~ IsAbout(Head(q), s) => About(q, s) = {}
         /\ \A i \in About(q, s) : i \in Nat \ {0} /\ (i = 1 \/ i - 1 \in About(Tail(q), s))
PROOF
  <1> DEFINE t == Tail(q)
  <1>1. /\ DOMAIN q = 1 .. Len(q) /\ Len(q) \in Nat /\ Len(q) >= 1 /\ q[1] = Head(q)
        /\ DOMAIN t = 1 .. Len(q) - 1
        /\ \A i \in 1 .. Len(q) - 1 : t[i] = q[i + 1]
    BY TailAt
  <1> HIDE DEF t
  <1>2. \A i : i \in DOMAIN t <=> i \in Nat \ {0} /\ i + 1 \in DOMAIN q
    BY <1>1
  <1>3. \A i \in DOMAIN t : t[i] = q[i + 1]
    BY <1>1
  <1>4. \A i : i \in About(t, s) <=> i \in Nat \ {0} /\ i + 1 \in About(q, s)
    BY <1>2, <1>3, AboutIs
  <1>5. \A i : i \in Twos(t, s) <=> i \in Nat \ {0} /\ i + 1 \in Twos(q, s)
    BY <1>2, <1>3, <1>4, AboutIs
  <1>6. /\ 1 \in About(q, s) <=> IsAbout(Head(q), s)
        /\ 1 \in Twos(q, s) <=> IsAbout(Head(q), s) /\ Head(q).members = 2
    BY <1>1, AboutIs
  <1>7. ASSUME NEW i \in About(q, s)
        PROVE  i \in Nat \ {0} /\ (i = 1 \/ i - 1 \in About(t, s))
    <2>1. i \in DOMAIN q
      BY AboutIs
    <2>2. i \in Nat \ {0}
      BY <2>1, <1>1
    <2>3. i # 1 => i - 1 \in Nat \ {0} /\ (i - 1) + 1 = i
      BY <2>2
    <2> QED
      BY <2>2, <2>3, <1>4
  <1>8. ASSUME LastIsTwo(t, s) PROVE LastIsTwo(q, s)
    <2>1. PICK i \in Twos(t, s) : \A j \in About(t, s) : j <= i
      BY <1>8, AboutIs
    <2>2. i \in Nat \ {0} /\ i + 1 \in Twos(q, s)
      BY <1>5
    <2>3. ASSUME NEW j \in About(q, s) PROVE j <= i + 1
      <3>1. j \in Nat \ {0} /\ (j = 1 \/ j - 1 <= i)
        BY <1>7, <2>1
      <3> QED
        BY <2>2, <3>1
    <2> QED
      BY <2>2, <2>3, AboutIs
  <1>9. ASSUME About(t, s) = {}, 1 \in Twos(q, s) PROVE LastIsTwo(q, s)
    <2>1. \A j \in About(q, s) : j <= 1
      BY <1>7, <1>9
    <2> QED
      BY <1>9, <2>1, AboutIs
  <1>10. ASSUME About(t, s) = {}, ~ IsAbout(Head(q), s) PROVE About(q, s) = {}
    BY <1>6, <1>7, <1>10
  <1>11. \A i \in DOMAIN t : t[i] = q[i + 1] /\ i + 1 \in DOMAIN q /\ i \in Nat
    BY <1>2, <1>3
  <1> QED
    BY <1>4, <1>5, <1>6, <1>7, <1>8, <1>9, <1>10, <1>11 DEF t

LEMMA AboutConcat ==
  ASSUME NEW q \in Seq(ClientMessage), NEW w \in Seq(ClientMessage), NEW s
  PROVE  /\ About(w, s) = {} => /\ About(q \o w, s) = About(q, s) /\ Twos(q \o w, s) = Twos(q, s)
                                /\ LastIsTwo(q \o w, s) <=> LastIsTwo(q, s)
         /\ About(w, s) # {} => /\ About(q \o w, s) # {}
                                /\ LastIsTwo(q \o w, s) => Twos(w, s) # {}
PROOF
  <1> DEFINE a == q \o w
             n == Len(q)
  <1>1. /\ DOMAIN q = 1 .. n /\ n \in Nat /\ DOMAIN w = 1 .. Len(w) /\ Len(w) \in Nat
        /\ DOMAIN a = 1 .. n + Len(w)
        /\ \A i \in 1 .. n : a[i] = q[i]
        /\ \A i \in 1 .. Len(w) : a[n + i] = w[i]
    BY ConcatAt
  <1> HIDE DEF a, n
  <1>2. ASSUME NEW i \in DOMAIN a PROVE i \in DOMAIN q \/ (i > n /\ i - n \in DOMAIN w /\ a[i] = w[i - n])
    <2>1. CASE i <= n
      BY <2>1, <1>1
    <2>2. CASE ~ (i <= n)
      <3>1. i - n \in 1 .. Len(w) /\ n + (i - n) = i /\ i > n
        BY <1>1, <2>2
      <3> QED
        BY <3>1, <1>1
    <2> QED
      BY <2>1, <2>2
  <1>3. \A i \in DOMAIN q : i \in DOMAIN a /\ a[i] = q[i] /\ i \in Nat /\ i <= n
    BY <1>1
  <1>4. \A i \in DOMAIN w : n + i \in DOMAIN a /\ a[n + i] = w[i] /\ n + i \in Nat /\ n + i > n
    BY <1>1
  <1>5. ASSUME About(w, s) = {}
        PROVE  /\ About(a, s) = About(q, s) /\ Twos(a, s) = Twos(q, s)
               /\ LastIsTwo(a, s) <=> LastIsTwo(q, s)
    <2>1. \A i \in About(a, s) : i \in About(q, s)
      BY <1>2, <1>3, <1>5, AboutIs
    <2>2. \A i \in About(q, s) : i \in About(a, s)
      BY <1>3, AboutIs
    <2>3. About(a, s) = About(q, s)
      BY <2>1, <2>2
    <2>4. Twos(a, s) = Twos(q, s)
      <3>1. \A i \in Twos(a, s) : i \in Twos(q, s)
        BY <2>3, <1>3, AboutIs
      <3>2. \A i \in Twos(q, s) : i \in Twos(a, s)
        BY <2>3, <1>3, AboutIs
      <3> QED
        BY <3>1, <3>2
    <2> QED
      BY <2>3, <2>4 DEF LastIsTwo
  <1>6. ASSUME About(w, s) # {} PROVE About(a, s) # {} /\ (LastIsTwo(a, s) => Twos(w, s) # {})
    <2>1. PICK k \in About(w, s) : TRUE
      BY <1>6
    <2>2. k \in DOMAIN w /\ n + k \in About(a, s)
      BY <1>4, AboutIs
    <2>3. ASSUME LastIsTwo(a, s) PROVE Twos(w, s) # {}
      <3>1. PICK i \in Twos(a, s) : \A j \in About(a, s) : j <= i
        BY <2>3, AboutIs
      <3>2. n + k <= i /\ i \in DOMAIN a
        BY <3>1, <2>2, AboutIs
      <3>3. i \notin DOMAIN q
        <4>1. i \in Nat
          BY <3>2, <1>1
        <4> QED
          BY <3>2, <2>2, <1>3, <1>4, <1>1, <4>1
      <3>4. i - n \in DOMAIN w /\ a[i] = w[i - n]
        BY <1>2, <3>2, <3>3
      <3>5. i - n \in Twos(w, s)
        BY <3>1, <3>4, AboutIs
      <3> QED
        BY <3>5
    <2> QED
      BY <2>2, <2>3
  <1> QED
    BY <1>5, <1>6 DEF a

\* Responses are about no group.
LEMMA AboutResponses ==
  ASSUME NEW w, \A i \in DOMAIN w : w[i].type = "Response"
  PROVE  \A s : About(w, s) = {}
PROOF
  BY DEF About


\* What a step may do to the connection of client c with server s: it tells the client
\* no more and takes nothing away, or it tells the client, or both are in the group.
Kept(c, s) ==
  \/ /\ LastIsTwo(inbox'[c], s) => LastIsTwo(inbox[c], s)
     /\ About(inbox'[c], s) = {} => About(inbox[c], s) = {}
     /\ Both(c, s) => Both(c, s)'
  \/ ~ LastIsTwo(inbox'[c], s) /\ About(inbox'[c], s) # {}
  \/ Both(c, s)'

\* A step that tells the client nothing and breaks no group keeps what it believes true.
LEMMA TruthfulKept ==
  ASSUME TypeInv, NEW c \in Client, Truthful(c), up'[c] => up[c],
         cs_index'[c] = cs_index[c], client_server_group'[c] = client_server_group[c],
         client_connected'[c] = client_connected[c], lost'[c] = lost[c], member'[c] = member[c],
         \A s \in member[c] : up[c] => Kept(c, s)
  PROVE  Truthful(c)'
PROOF
  <1> DEFINE g == client_server_group[c]
  <1>1. /\ g \in {cs_index[c], NoServer} /\ (client_connected[c] => g # NoServer)
        /\ up[c] => \A s \in member[c] : LastIsTwo(inbox[c], s) => Both(c, s)
        /\ up[c] /\ ~ lost[c] /\ g # NoServer =>
             g \in member[c] /\ (client_connected[c] /\ About(inbox[c], g) = {} => Both(c, g))
    BY DEF Truthful
  <1>2. ASSUME up'[c], NEW s \in member[c], LastIsTwo(inbox'[c], s) PROVE Both(c, s)'
    BY <1>1, <1>2 DEF Kept
  <1>3. ASSUME up'[c], ~ lost'[c], g # NoServer
        PROVE  /\ g \in member[c]
               /\ client_connected[c] /\ About(inbox'[c], g) = {} => Both(c, g)'
    BY <1>1, <1>3 DEF Kept
  <1> QED
    BY <1>1, <1>2, <1>3 DEF Truthful

\* Nothing happens to the connection of c.
LEMMA TruthfulSame ==
  ASSUME TypeInv, NEW c \in Client, Truthful(c), up'[c] => up[c],
         cs_index'[c] = cs_index[c], client_server_group'[c] = client_server_group[c],
         client_connected'[c] = client_connected[c], lost'[c] = lost[c], member'[c] = member[c],
         UNCHANGED far, \A s \in Server : c \in joined[s] => c \in joined'[s],
         \/ inbox'[c] = inbox[c]
         \/ inbox'[c] = Tail(inbox[c]) /\ inbox[c] # <<>> /\ Head(inbox[c]).type = "Response"
         \/ \E w \in Seq(ClientMessage) : /\ \A i \in DOMAIN w : w[i].type = "Response"
                                          /\ inbox'[c] = inbox[c] \o w
         \/ \E m \in ClientMessage : m.type = "Response" /\ inbox'[c] = Append(inbox[c], m)
  PROVE  Truthful(c)'
PROOF
  <1>1. inbox[c] \in Seq(ClientMessage) /\ member[c] \subseteq Server
    BY BoxAt DEF TypeInv, VariableType
  <1>2. ASSUME NEW s \in member[c]
        PROVE  /\ LastIsTwo(inbox'[c], s) => LastIsTwo(inbox[c], s)
               /\ About(inbox'[c], s) = {} => About(inbox[c], s) = {}
    <2>1. CASE inbox'[c] = inbox[c]
      BY <2>1
    <2>2. CASE inbox'[c] = Tail(inbox[c]) /\ inbox[c] # <<>> /\ Head(inbox[c]).type = "Response"
      <3>1. ~ IsAbout(Head(inbox[c]), s)
        BY <2>2 DEF IsAbout
      <3> QED
        BY <1>1, <2>2, <3>1, AboutTail
    <2>3. CASE \E w \in Seq(ClientMessage) : /\ \A i \in DOMAIN w : w[i].type = "Response"
                                             /\ inbox'[c] = inbox[c] \o w
      BY <1>1, <2>3, AboutResponses, AboutConcat
    <2>4. CASE \E m \in ClientMessage : m.type = "Response" /\ inbox'[c] = Append(inbox[c], m)
      <3>1. PICK m \in ClientMessage : m.type = "Response" /\ inbox'[c] = Append(inbox[c], m)
        BY <2>4
      <3>2. ~ IsAbout(m, s)
        BY <3>1 DEF IsAbout
      <3> QED
        BY <1>1, <3>1, <3>2, AboutAppend
    <2> QED
      BY <2>1, <2>2, <2>3, <2>4
  <1>3. ASSUME NEW s \in member[c] PROVE Both(c, s) => Both(c, s)'
    BY <1>1 DEF Both, Together
  <1>4. \A s \in member[c] : Kept(c, s)
    BY <1>2, <1>3 DEF Kept
  <1> QED
    BY <1>4, TruthfulKept

--------------------------------------------------------------------------------
(* What a step of a client sends *)

\* What the other clients see of a step of client d: nothing.
SameClient(c) ==
  /\ up'[c] = up[c] /\ inbox'[c] = inbox[c] /\ member'[c] = member[c]
  /\ cs_index'[c] = cs_index[c] /\ client_server_group'[c] = client_server_group[c]
  /\ client_connected'[c] = client_connected[c] /\ curr_db'[c] = curr_db[c]
  /\ hasty'[c] = hasty[c] /\ lost'[c] = lost[c]

\* Client and server will see each other when the client joins.
Meets(c, s) == c \in joined[s] /\ Together(c, s)

\* A connect: the membership, the leave and the request that it sends.
LEMMA ConnectBoxes ==
  ASSUME TypeInv, ConnectionInv, NEW d \in Client, NEW s \in Server, Connect(d, s)
  PROVE  /\ inbox'[d] = IF s \in member[d] THEN inbox[d]
                        ELSE Append(inbox[d], Membership(s, IF Meets(d, s) THEN 2 ELSE 1, "join"))
         /\ \A c \in Client : c # d => inbox'[c] = inbox[c]
         /\ \A t \in Server :
              inbox'[t] =
                IF t = s
                  THEN IF up[s] /\ Together(d, s)
                         THEN Append(inbox[s], Request("c", d, NoBoard, 0, NoBoard)) ELSE inbox[s]
                ELSE IF client_connected[d] /\ t = client_server_group[d] /\ Both(d, t) /\ up[t]
                  THEN Append(inbox[t], Left(d)) ELSE inbox[t]
PROOF
  <1> DEFINE old == client_server_group[d]
             box == IF client_connected[d] THEN Leaving(inbox, d, old) ELSE inbox
             r == Request("c", d, NoBoard, 0, NoBoard)
             m == Membership(s, IF Meets(d, s) THEN 2 ELSE 1, "join")
  <1>1. IsBox(inbox) /\ up[d]
    BY DEF TypeInv, Connect
  <1>2. client_connected[d] => old \in Server /\ old # s
    BY ConnectedTo DEF Connect
  <1>3. /\ IsBox(box)
        /\ \A p \in Proc : box[p] =
             IF client_connected[d] /\ p = old /\ Both(d, p) /\ up[p]
               THEN Append(inbox[p], Left(d)) ELSE inbox[p]
    <2>1. CASE client_connected[d]
      <3>1. box = Leaving(inbox, d, old)
        BY <2>1
      <3> HIDE DEF box
      <3>2. old \in Server
        BY <1>2, <2>1
      <3> HIDE DEF old
      <3>3. /\ IsBox(Leaving(inbox, d, old))
            /\ \A p \in Proc : Leaving(inbox, d, old)[p] =
                 IF p = old /\ Both(d, old) /\ up[old] THEN Append(inbox[p], Left(d)) ELSE inbox[p]
        BY <1>1, <3>2, LeavingAt
      <3> QED
        BY <2>1, <3>1, <3>3
    <2>2. CASE ~ client_connected[d]
      BY <1>1, <2>2
    <2> QED
      BY <2>1, <2>2
  <1> HIDE DEF box
  <1> DEFINE joining == Joining(box, d, s)
  <1>4. /\ IsBox(joining)
        /\ \A p \in Proc : joining[p] =
             IF p = d /\ up[d] /\ s \notin member[d] THEN Append(box[p], m) ELSE box[p]
    BY <1>3, JoiningAt DEF Meets
  <1> HIDE DEF joining
  <1>5. r \in ServerMessage
    BY ServerMessages
  <1>6. inbox' = To(joining, d, s, r)
    BY DEF Connect, box, joining
  <1> HIDE DEF r, m
  <1>7. \A p \in Proc : To(joining, d, s, r)[p] =
          IF p = s /\ up[s] /\ Together(d, s) THEN Append(joining[p], r) ELSE joining[p]
    BY <1>4, <1>5, ToServerAt
  <1>8. \A p \in Proc : inbox'[p] =
          IF p = s /\ up[s] /\ Together(d, s) THEN Append(joining[p], r) ELSE joining[p]
    BY <1>6, <1>7
  <1>9. inbox'[d] = IF s \in member[d] THEN inbox[d] ELSE Append(inbox[d], m)
    BY <1>1, <1>2, <1>3, <1>4, <1>8, Processes
  <1>10. \A c \in Client : c # d => inbox'[c] = inbox[c]
    BY <1>2, <1>3, <1>4, <1>8, Processes
  <1>11. ASSUME NEW t \in Server
         PROVE  inbox'[t] =
                  IF t = s THEN IF up[s] /\ Together(d, s) THEN Append(inbox[s], r) ELSE inbox[s]
                  ELSE IF client_connected[d] /\ t = old /\ Both(d, t) /\ up[t]
                    THEN Append(inbox[t], Left(d)) ELSE inbox[t]
    <2>1. t \in Proc /\ t # d
      BY Processes
    <2>2. joining[t] = IF client_connected[d] /\ t = old /\ Both(d, t) /\ up[t]
                         THEN Append(inbox[t], Left(d)) ELSE inbox[t]
      BY <1>3, <1>4, <2>1
    <2>3. t = s => joining[t] = inbox[t]
      BY <1>2, <2>2
    <2> QED
      BY <1>8, <2>1, <2>2, <2>3
  <1> QED
    BY <1>9, <1>10, <1>11 DEF r, m

\* The commands that send a request on the connection.
LEMMA AskBoxes ==
  ASSUME TypeInv, ConnectionInv, NEW d \in Client, client_connected[d], NEW r \in RequestMessage,
         inbox' = To(inbox, d, cs_index[d], r)
  PROVE  /\ \A c \in Client : inbox'[c] = inbox[c]
         /\ \A t \in Server : inbox'[t] =
              IF t = client_server_group[d] /\ up[t] /\ Together(d, t)
                THEN Append(inbox[t], r) ELSE inbox[t]
PROOF
  <1>1. client_server_group[d] = cs_index[d] /\ cs_index[d] \in Server
    BY ConnectedTo
  <1>2. \A p \in Proc : inbox'[p] =
          IF p = cs_index[d] /\ up[p] /\ Together(d, p) THEN Append(inbox[p], r) ELSE inbox[p]
    BY <1>1, Requested
  <1> QED
    BY <1>1, <1>2, Processes

\* The requests that do not move the client.
LEMMA OtherRequests ==
  ASSUME TypeInv, ConnectionInv, NEW d \in Client,
         \/ Post(d) \/ AskView(d)
         \/ \E op \in {"e", "d"}, line \in 1 .. obj_num[d] : Change(d, op, line)
  PROVE  /\ client_connected[d] /\ UNCHANGED <<up, clientVars, serverVars, netVars, disturbed>>
         /\ \E r \in RequestMessage : /\ r.op \in {"a", "e", "d", "v"} /\ r.client = d
                                      /\ inbox' = To(inbox, d, cs_index[d], r)
PROOF
  <1>1. client_connected[d] /\ UNCHANGED <<up, clientVars, serverVars, netVars, disturbed>>
    BY DEF Post, AskView, Change, Command, netVars
  <1>2. /\ curr_db[d] \in Place /\ (curr_db[d] # NoBoard => curr_db[d] \in Board)
        /\ NoBoard \in Place
        /\ objects[d] \subseteq Nat /\ IsFiniteSet(objects[d]) /\ obj_num[d] \in Nat
    BY DEF TypeInv, VariableType, Place, ScreenType
  <1>3. CASE Post(d)
    <2>1. Request("a", d, curr_db[d], 0, NoBoard) \in RequestMessage
      BY <1>2, <1>3, ServerMessages DEF Post
    <2> QED
      BY <1>1, <1>3, <2>1, RequestParts DEF Post
  <1>4. CASE AskView(d)
    <2>1. Request("v", d, NoBoard, 0, NoBoard) \in RequestMessage
      BY ServerMessages
    <2> QED
      BY <1>1, <1>4, <2>1, RequestParts DEF AskView
  <1>5. ASSUME NEW op \in {"e", "d"}, NEW line \in 1 .. obj_num[d], Change(d, op, line)
        PROVE  \E r \in RequestMessage : /\ r.op \in {"a", "e", "d", "v"} /\ r.client = d
                                         /\ inbox' = To(inbox, d, cs_index[d], r)
    <2>1. line \in Nat \ {0} /\ objects[d] # {} /\ curr_db[d] \in Board
      BY <1>2, <1>5 DEF Change
    <2>2. NthObject(objects[d], line) \in Nat
      BY <1>2, <2>1, NthObjectType
    <2>3. Request(op, d, curr_db[d], NthObject(objects[d], line), NoBoard) \in RequestMessage
      BY <1>2, <2>1, <2>2, ServerMessages
    <2> QED
      BY <1>5, <2>3, RequestParts DEF Change
  <1> QED
    BY <1>1, <1>3, <1>4, <1>5

\* A step of client d changes nothing of the others.
LEMMA OthersSeeNothing ==
  ASSUME TypeInv, ConnectionInv, NEW d \in Client, UserCommand(d) \/ ClientStep(d) \/ Reconnect(d)
  PROVE  /\ UNCHANGED <<joined, far, client_list, db_list, syncOn, queue, pc>>
         /\ \A s \in Server : up'[s] = up[s]
         /\ \A c \in Client : c # d => SameClient(c)
PROOF
  <1>1. UNCHANGED <<joined, far, client_list, db_list, syncOn, queue, pc>>
    BY DEF UserCommand, Connect, Join, JoinRefused, Post, Change, Quit, AskView, Command, ClientStep,
           RecvResponse, RecvMembership, Reconnect, serverVars, syncVars, netVars
  <1>2. TypeInv /\ VariableType /\ IsBox(inbox)
    BY DEF TypeInv
  <1>3. CASE \E s \in Server : Connect(d, s)
    <2>1. PICK s \in Server : Connect(d, s)
      BY <1>3
    <2>2. \A c \in Client : c # d => inbox'[c] = inbox[c]
      BY <2>1, ConnectBoxes
    <2>3. /\ \A c \in Client : c # d => client_connected'[c] = client_connected[c]
                                        /\ curr_db'[c] = curr_db[c] /\ member'[c] = member[c]
      BY <1>2, <2>1 DEF Connect, ReInit, VariableType
    <2>4. /\ \A c \in Client : c # d => /\ cs_index'[c] = cs_index[c] /\ hasty'[c] = hasty[c]
                                        /\ client_server_group'[c] = client_server_group[c]
          /\ UNCHANGED <<up, lost>>
      BY <1>2, <2>1 DEF Connect, VariableType
    <2> QED
      BY <1>1, <2>2, <2>3, <2>4 DEF SameClient
  <1>4. CASE \E b \in Board : Join(d, b)
    <2>1. PICK b \in Board : Join(d, b)
      BY <1>4
    <2>2. curr_db[d] \in Place /\ client_connected[d]
      BY <1>2, <2>1 DEF VariableType, Join
    <2>3. Request("j", d, b, 0, curr_db[d]) \in RequestMessage
      BY <2>2, ServerMessages
    <2>4. inbox' = To(inbox, d, cs_index[d], Request("j", d, b, 0, curr_db[d]))
      BY <2>1 DEF Join
    <2>5. \A c \in Client : inbox'[c] = inbox[c]
      BY <2>2, <2>3, <2>4, AskBoxes
    <2> QED
      BY <1>1, <1>2, <2>1, <2>5 DEF Join, SameClient, VariableType
  <1>5. CASE JoinRefused(d)
    BY <1>1, <1>5 DEF JoinRefused, SameClient, sessionVars, historyVars
  <1>6. CASE Quit(d)
    <2>1. \A c \in Client : c # d => inbox'[c] = inbox[c]
      BY <1>2, <1>6, LeavingAllAt DEF Quit
    <2>2. /\ \A p \in Proc : p # d => up'[p] = up[p]
          /\ \A c \in Client : c # d => member'[c] = member[c]
      BY <1>2, <1>6 DEF Quit, VariableType
    <2> QED
      BY <1>1, <1>6, <2>1, <2>2, Processes DEF Quit, SameClient, clientVars, sessionVars, historyVars
  <1>7. CASE \/ Post(d) \/ AskView(d)
             \/ \E op \in {"e", "d"}, line \in 1 .. obj_num[d] : Change(d, op, line)
    <2>1. /\ client_connected[d] /\ UNCHANGED <<up, clientVars, serverVars, netVars>>
          /\ \E r \in RequestMessage : inbox' = To(inbox, d, cs_index[d], r)
      BY <1>7, OtherRequests
    <2>2. \A c \in Client : inbox'[c] = inbox[c]
      BY <2>1, AskBoxes
    <2> QED
      BY <1>1, <2>1, <2>2 DEF SameClient, clientVars, sessionVars, historyVars, netVars
  <1>8. CASE RecvResponse(d)
    <2>1. inbox[d] # <<>> /\ inbox' = Received(d)
      BY <1>8 DEF RecvResponse, Receives
    <2>2. \A c \in Client : c # d => inbox'[c] = inbox[c]
      BY <1>2, <2>1, ReceivedAt, Processes
    <2> QED
      BY <1>1, <1>8, <2>2 DEF RecvResponse, SameClient, sessionVars, historyVars, netVars
  <1>9. CASE RecvMembership(d)
    <2> DEFINE m == Head(inbox[d])
    <2>1. inbox[d] # <<>> /\ m.group \in Server
      BY <1>2, <1>9, HeadOfClient, MessageKinds DEF RecvMembership
    <2>2. /\ IsBox(Received(d))
          /\ \A p \in Proc : p # d => Received(d)[p] = inbox[p]
      BY <1>2, <2>1, ReceivedAt, Processes
    <2>3. inbox' = Received(d) \/ inbox' = Leaving(Received(d), d, m.group)
      BY <1>9 DEF RecvMembership
    <2>4. \A c \in Client : c # d => inbox'[c] = inbox[c]
      BY <2>1, <2>2, <2>3, LeavingAt, Processes
    <2>5. /\ UNCHANGED <<up, cs_index, hasty, lost>>
          /\ \A c \in Client : c # d => /\ client_connected'[c] = client_connected[c]
                                        /\ curr_db'[c] = curr_db[c] /\ member'[c] = member[c]
                                        /\ client_server_group'[c] = client_server_group[c]
      BY <1>2, <1>9 DEF RecvMembership, ReInit, VariableType, historyVars
    <2> QED
      BY <1>1, <2>4, <2>5 DEF SameClient
  <1>10. CASE Reconnect(d)
    <2>1. \A c \in Client : c # d => inbox'[c] = inbox[c]
      BY <1>2, <1>10, LeavingAllAt DEF Reconnect
    <2> QED
      BY <1>1, <1>2, <1>10, <2>1 DEF Reconnect, SameClient, sessionVars, VariableType
  <1> QED
    BY <1>3, <1>4, <1>5, <1>6, <1>7, <1>8, <1>9, <1>10 DEF UserCommand, ClientStep

--------------------------------------------------------------------------------
(* The connection, step by step *)

\* A membership that says that one of the two is not in the group.
LEMMA AMembership ==
  \A s \in Server, cause \in {"join", "gone", "network"} :
    /\ Membership(s, 1, cause) \in ClientMessage /\ Membership(s, 1, cause).members # 2
    /\ \A t : IsAbout(Membership(s, 1, cause), t) <=> t = s
PROOF
  BY ClientMessages DEF IsAbout

\* A connect: the client believes nothing until it is told.
LEMMA ConnectTruthful ==
  ASSUME TypeInv, ConnectionInv, NEW c \in Client, NEW s \in Server, Connect(c, s)
  PROVE  Truthful(c)'
PROOF
  <1> DEFINE q == inbox[c]
             m == Membership(s, IF Meets(c, s) THEN 2 ELSE 1, "join")
  <1>1. /\ Truthful(c) /\ VariableType /\ up[c] /\ q \in Seq(ClientMessage)
        /\ inbox'[c] = IF s \in member[c] THEN q ELSE Append(q, m)
    BY ConnectBoxes, BoxAt DEF TypeInv, ConnectionInv, Connect
  <1>2. m \in ClientMessage /\ (\A t : IsAbout(m, t) <=> t = s) /\ (m.members = 2 <=> Meets(c, s))
    BY ClientMessages DEF IsAbout
  <1> HIDE DEF m
  <1>3. /\ UNCHANGED <<up, joined, far, lost>>
        /\ cs_index'[c] = s /\ client_server_group'[c] = s /\ ~ client_connected'[c]
        /\ s \in member'[c] /\ \A t \in member'[c] : t = s \/ t \in member[c]
    BY <1>1 DEF Connect, Command, ReInit, VariableType
  <1>4. \A t \in member[c] : LastIsTwo(q, t) => Both(c, t)
    BY <1>1 DEF Truthful
  <1>5. ASSUME NEW t \in member'[c], LastIsTwo(inbox'[c], t) PROVE Both(c, t)'
    <2>1. Both(c, t)' <=> c \in joined[t] /\ Together(c, t)
      BY <1>3 DEF Both, Together
    <2>2. CASE t \in member[c] /\ (s \in member[c] \/ t # s)
      <3>1. LastIsTwo(q, t)
        BY <1>1, <1>2, <1>5, <2>2, AboutAppend
      <3> QED
        BY <1>4, <2>1, <2>2, <3>1 DEF Both
    <2>3. CASE s \notin member[c] /\ t = s
      <3>1. LastIsTwo(Append(q, m), s)
        BY <1>1, <1>5, <2>3
      <3>2. m.members = 2
        BY <1>1, <1>2, <3>1, AboutAppend
      <3> QED
        BY <1>2, <2>1, <2>3, <3>2 DEF Meets
    <2> QED
      BY <1>3, <2>2, <2>3
  <1> QED
    BY <1>3, <1>5, Processes DEF Truthful

\* A membership: the client believes what the last one said.
LEMMA MembershipTruthful ==
  ASSUME TypeInv, ConnectionInv, NEW c \in Client, RecvMembership(c)
  PROVE  Truthful(c)'
PROOF
  <1> DEFINE q == inbox[c]
             m == Head(q)
             g == client_server_group[c]
             gone == m.cause = "gone" /\ m.group = g
  <1>1. /\ Truthful(c) /\ VariableType /\ up[c] /\ q \in Seq(ClientMessage) /\ q # <<>>
        /\ m \in ClientMessage /\ m.type = "Membership" /\ m.group \in Server
    BY HeadOfClient, MessageKinds DEF TypeInv, ConnectionInv, RecvMembership
  <1>2. inbox'[c] = Tail(q)
    <2>1. IsBox(Received(c)) /\ Received(c)[c] = Tail(q)
      BY <1>1, ReceivedAt, Processes DEF TypeInv
    <2>2. inbox' = Received(c) \/ inbox' = Leaving(Received(c), c, m.group)
      BY DEF RecvMembership
    <2>3. Leaving(Received(c), c, m.group)[c] = Received(c)[c]
      BY <1>1, <2>1, LeavingAt, Processes
    <2> QED
      BY <2>1, <2>2, <2>3
  <1>3. /\ UNCHANGED <<up, joined, far, lost, cs_index>>
        /\ \A t \in member'[c] : t \in member[c]
        /\ IF gone THEN client_server_group'[c] = NoServer /\ ~ client_connected'[c]
           ELSE /\ client_server_group'[c] = g /\ member'[c] = member[c]
                /\ client_connected'[c] = IsConnection(c, m)
    <2>1. UNCHANGED <<up, joined, far, lost, cs_index>>
      BY DEF RecvMembership, historyVars
    <2>2. CASE gone
      BY <1>1, <2>1, <2>2 DEF RecvMembership, ReInit, VariableType
    <2>3. CASE ~ gone
      BY <1>1, <2>1, <2>3 DEF RecvMembership, VariableType
    <2> QED
      BY <2>1, <2>2, <2>3
  <1>4. \A t : Both(c, t)' <=> t \in member'[c] /\ c \in joined[t] /\ Together(c, t)
    BY <1>3 DEF Both, Together
  <1>5. /\ g \in {cs_index[c], NoServer}
        /\ \A t \in member[c] : LastIsTwo(q, t) => Both(c, t)
        /\ ~ lost[c] /\ g # NoServer => g \in member[c]
    BY <1>1 DEF Truthful
  <1>6. ASSUME NEW t \in member'[c], LastIsTwo(inbox'[c], t) PROVE Both(c, t)'
    BY <1>1, <1>2, <1>3, <1>4, <1>5, <1>6, AboutTail DEF Both
  <1>7. CASE gone
    BY <1>3, <1>5, <1>6, <1>7 DEF Truthful
  <1>8. CASE ~ gone
    <2>1. client_connected'[c] => g \in Server /\ IsAbout(m, g) /\ m.members = 2
      BY <1>1, <1>3, <1>8 DEF IsConnection, IsAbout
    <2>2. ASSUME ~ lost[c], client_connected'[c], About(inbox'[c], g) = {} PROVE Both(c, g)'
      <3>1. LastIsTwo(q, g)
        BY <1>1, <1>2, <2>1, <2>2, AboutTail
      <3> QED
        BY <1>3, <1>4, <1>5, <1>8, <2>1, <2>2, <3>1, Processes DEF Both
    <2> QED
      BY <1>3, <1>5, <1>6, <1>8, <2>1, <2>2, Processes DEF Truthful
  <1> QED
    BY <1>7, <1>8

\* Any step of a client, and the other clients.
LEMMA ActorTruthful ==
  ASSUME TypeInv, ConnectionInv, NEW c \in Client, UserCommand(c) \/ ClientStep(c) \/ Reconnect(c)
  PROVE  Truthful(c)'
PROOF
  <1>1. /\ Truthful(c) /\ VariableType /\ IsBox(inbox)
    BY DEF TypeInv, ConnectionInv
  <1>2. /\ client_server_group[c] \in {cs_index[c], NoServer}
        /\ client_connected[c] => client_server_group[c] # NoServer
    BY <1>1 DEF Truthful
  <1>3. ASSUME NEW b \in Board, Join(c, b) PROVE Truthful(c)'
    <2>1. curr_db[c] \in Place /\ client_connected[c]
      BY <1>1, <1>3 DEF VariableType, Join
    <2>2. Request("j", c, b, 0, curr_db[c]) \in RequestMessage
      BY <2>1, ServerMessages
    <2>3. inbox'[c] = inbox[c]
      BY <1>3, <2>1, <2>2, AskBoxes DEF Join
    <2> QED
      BY <1>1, <1>3, <2>3, TruthfulSame DEF Join, Command
  <1>4. CASE JoinRefused(c)
    BY <1>1, <1>4, TruthfulSame DEF JoinRefused, Command, sessionVars, historyVars
  <1>5. CASE \/ Post(c) \/ AskView(c)
             \/ \E op \in {"e", "d"}, line \in 1 .. obj_num[c] : Change(c, op, line)
    <2>1. /\ client_connected[c] /\ UNCHANGED <<up, clientVars, netVars>>
          /\ inbox'[c] = inbox[c]
      BY <1>5, OtherRequests, AskBoxes
    <2> QED
      BY <1>1, <2>1, TruthfulSame DEF clientVars, sessionVars, historyVars, netVars
  <1>6. CASE Quit(c)
    <2>1. ~ up'[c]
      BY <1>1, <1>6, Processes DEF Quit, VariableType
    <2> QED
      BY <1>2, <1>6, <2>1 DEF Quit, Truthful, clientVars, sessionVars
  <1>7. CASE RecvResponse(c)
    <2>1. /\ inbox[c] # <<>> /\ Head(inbox[c]).type = "Response" /\ inbox'[c] = Tail(inbox[c])
      BY <1>1, <1>7, ReceivedAt, Processes DEF RecvResponse, Receives
    <2> QED
      BY <1>1, <1>7, <2>1, TruthfulSame DEF RecvResponse, sessionVars, historyVars, netVars
  <1>8. CASE Reconnect(c)
    <2>1. member'[c] = {} /\ lost'[c]
      BY <1>1, <1>8 DEF Reconnect, VariableType
    <2> QED
      BY <1>2, <1>8, <2>1 DEF Reconnect, Truthful, sessionVars
  <1> QED
    BY <1>3, <1>4, <1>5, <1>6, <1>7, <1>8, ConnectTruthful, MembershipTruthful
       DEF UserCommand, ClientStep

LEMMA OthersTruthful ==
  ASSUME TypeInv, ConnectionInv, NEW d \in Client, UserCommand(d) \/ ClientStep(d) \/ Reconnect(d)
  PROVE  ConnectionInv'
PROOF
  <1>1. ASSUME NEW c \in Client, c # d PROVE Truthful(c)'
    <2>1. SameClient(c) /\ UNCHANGED <<joined, far>> /\ Truthful(c)
      BY <1>1, OthersSeeNothing DEF ConnectionInv
    <2> QED
      BY <2>1, TruthfulSame DEF SameClient
  <1>2. Truthful(d)'
    BY ActorTruthful
  <1> QED
    BY <1>1, <1>2 DEF ConnectionInv


\* What a request does to the connections.
LEMMA HandlerTruthful ==
  ASSUME TypeInv, ConnectionInv, NEW s \in Server, NEW r \in RequestMessage, NEW box, IsBox(box),
         \A c \in Client : box[c] = inbox[c], HandleClientReq(s, r, box),
         UNCHANGED clientVars, UNCHANGED <<member, far>>
  PROVE  ConnectionInv'
PROOF
  <1> SUFFICES ASSUME NEW c \in Client PROVE Truthful(c)'
    BY DEF ConnectionInv
  <1>1. /\ Truthful(c) /\ VariableType /\ FileType /\ member[c] \subseteq Server
        /\ inbox[c] \in Seq(ClientMessage)
    BY BoxAt DEF TypeInv, ConnectionInv, VariableType
  <1>2. /\ cs_index'[c] = cs_index[c] /\ client_server_group'[c] = client_server_group[c]
        /\ client_connected'[c] = client_connected[c] /\ lost'[c] = lost[c]
        /\ member'[c] = member[c] /\ UNCHANGED far
    BY DEF clientVars, sessionVars, historyVars
  <1>3. up'[c] = up[c]
    BY <1>1, HandlerVariables, Processes
  <1>4. CASE r.op # "c"
    <2>1. joined' = joined
      BY <1>1, <1>4, HandlerVariables
    <2>2. \/ inbox'[c] = inbox[c]
          \/ \E w \in Seq(ClientMessage) : /\ \A i \in DOMAIN w : w[i].type = "Response"
                                           /\ inbox'[c] = inbox[c] \o w
      <3>1. FileType
        BY <1>1
      <3>2. r.op # "c" => \A e \in Client :
              \/ inbox'[e] = box[e]
              \/ \E w \in Seq(ClientMessage) : /\ \A i \in DOMAIN w : w[i].type = "Response"
                                               /\ inbox'[e] = box[e] \o w
        BY <3>1, HandlerBox, ZenonT(60)
      <3>3. box[c] = inbox[c]
        OBVIOUS
      <3> QED
        BY <1>4, <3>2, <3>3
    <2> QED
      BY <1>1, <1>2, <1>3, <2>1, <2>2, TruthfulSame
  <1>5. CASE r.op = "c"
    <2> DEFINE d == r.client
    <2>1. d \in Client
      BY MessageKinds
    <2> HIDE DEF d
    <2>2. joined' = [joined EXCEPT ![s] = @ \cup {d}] /\ inbox' = ServerJoins(box, s, d)
      BY <1>1, <1>5, HandlerVariables, HandlerBox DEF d
    <2>3. inbox'[c] =
            IF c = d /\ up[d] /\ Together(d, s) /\ s \in member[d] /\ d \notin joined[s]
              THEN Append(inbox[c], Membership(s, 2, "join")) ELSE inbox[c]
      BY <2>1, <2>2, ServerJoinsAt, Processes
    <2>4. \A t \in Server : c \in joined[t] => c \in joined'[t]
      BY <1>1, <2>2 DEF VariableType
    <2>5. CASE c # d
      BY <1>1, <1>2, <1>3, <2>3, <2>4, <2>5, TruthfulSame
    <2>6. CASE c = d
      <3> DEFINE m == Membership(s, 2, "join")
      <3>1. m \in ClientMessage /\ \A t : IsAbout(m, t) <=> t = s
        BY ClientMessages DEF IsAbout
      <3> HIDE DEF m
      <3>2. ASSUME NEW t \in member[c] PROVE Kept(c, t)
        <4>1. Both(c, t) => Both(c, t)'
          BY <1>1, <1>2, <2>4 DEF Both, Together
        <4>2. c \in joined'[s]
          BY <1>1, <2>2, <2>6 DEF VariableType
        <4>3. CASE inbox'[c] = inbox[c]
          BY <4>1, <4>3 DEF Kept
        <4>4. CASE inbox'[c] = Append(inbox[c], m) /\ t # s
          BY <1>1, <3>1, <4>1, <4>4, AboutAppend DEF Kept
        <4>5. CASE Together(c, s) /\ s \in member[c] /\ t = s
          BY <1>2, <4>2, <4>5 DEF Kept, Both, Together
        <4> QED
          BY <2>3, <2>6, <4>3, <4>4, <4>5 DEF m
      <3> QED
        BY <1>1, <1>2, <1>3, <3>2, TruthfulKept
    <2> QED
      BY <2>5, <2>6
  <1> QED
    BY <1>4, <1>5

\* A server leaves a group: the client is told in the same step.
LEMMA LeaveTruthful ==
  ASSUME TypeInv, ConnectionInv, NEW s \in Server, RecvLeave(s)
  PROVE  ConnectionInv'
PROOF
  <1> SUFFICES ASSUME NEW c \in Client PROVE Truthful(c)'
    BY DEF ConnectionInv
  <1> DEFINE d == Head(inbox[s]).client
  <1>1. /\ Truthful(c) /\ VariableType /\ IsBox(inbox) /\ member[c] \subseteq Server
        /\ inbox[c] \in Seq(ClientMessage)
    BY BoxAt DEF TypeInv, ConnectionInv, VariableType
  <1>2. d \in Client /\ inbox[s] # <<>>
    BY <1>1, HeadOfServer, MessageKinds DEF RecvLeave
  <1>3. IsBox(Received(s)) /\ Received(s)[c] = inbox[c]
    BY <1>1, <1>2, ReceivedAt, Processes
  <1>4. /\ cs_index'[c] = cs_index[c] /\ client_server_group'[c] = client_server_group[c]
        /\ client_connected'[c] = client_connected[c] /\ lost'[c] = lost[c]
        /\ member'[c] = member[c] /\ UNCHANGED far
    BY DEF RecvLeave, clientVars, sessionVars, historyVars
  <1>5. \/ up' = [up EXCEPT ![s] = FALSE] /\ inbox' = Received(s) /\ UNCHANGED joined
        \/ /\ UNCHANGED up /\ inbox' = ServerLeaves(Received(s), s, d)
           /\ joined' = [joined EXCEPT ![s] = @ \ {d}]
    BY DEF RecvLeave, Exit
  <1> HIDE DEF d
  <1>6. CASE up' = [up EXCEPT ![s] = FALSE] /\ inbox' = Received(s) /\ UNCHANGED joined
    <2>1. up'[c] = up[c]
      BY <1>1, <1>6, Processes DEF VariableType
    <2> QED
      BY <1>1, <1>3, <1>4, <1>6, <2>1, TruthfulSame
  <1>7. CASE /\ UNCHANGED up /\ inbox' = ServerLeaves(Received(s), s, d)
             /\ joined' = [joined EXCEPT ![s] = @ \ {d}]
    <2>1. inbox'[c] = IF c = d /\ up[d] /\ Both(d, s)
                        THEN Append(inbox[c], Membership(s, 1, "gone")) ELSE inbox[c]
      BY <1>2, <1>3, <1>7, ServerLeavesAt, Processes
    <2>2. \A t \in Server : t # s \/ c # d => (c \in joined'[t] <=> c \in joined[t])
      BY <1>1, <1>7 DEF VariableType
    <2>3. ASSUME NEW t \in member[c], up[c] PROVE Kept(c, t)
      <3> DEFINE m == Membership(s, 1, "gone")
      <3>1. m \in ClientMessage /\ m.members # 2 /\ \A u : IsAbout(m, u) <=> u = s
        BY AMembership
      <3> HIDE DEF m
      <3>2. t # s \/ c # d => (Both(c, t) => Both(c, t)')
        BY <1>1, <1>4, <2>2 DEF Both, Together
      <3>3. CASE inbox'[c] = inbox[c] /\ (t # s \/ c # d \/ ~ Both(c, t))
        BY <3>2, <3>3 DEF Kept
      <3>4. CASE inbox'[c] = Append(inbox[c], m) /\ t # s
        BY <1>1, <3>1, <3>2, <3>4, AboutAppend DEF Kept
      <3>5. CASE inbox'[c] = Append(inbox[c], m) /\ t = s
        BY <1>1, <3>1, <3>5, AboutAppend DEF Kept
      <3> QED
        BY <2>1, <2>3, <3>3, <3>4, <3>5 DEF m
    <2> QED
      BY <1>1, <1>4, <1>7, <2>3, TruthfulKept
  <1> QED
    BY <1>5, <1>6, <1>7

\* The server reads a message that is about no client, or changes its own state.
LEMMA RequestTruthful ==
  ASSUME TypeInv, ConnectionInv, NEW s \in Server, RecvRequest(s) \/ Drain(s)
  PROVE  ConnectionInv'
PROOF
  <1>1. IsBox(inbox) /\ QueueType
    BY DEF TypeInv
  <1>2. CASE RecvRequest(s)
    <2> DEFINE r == Head(inbox[s])
    <2>1. r \in RequestMessage /\ inbox[s] # <<>>
      BY <1>1, <1>2, HeadOfServer, MessageKinds DEF RecvRequest
    <2> HIDE DEF r
    <2>2. IsBox(Received(s)) /\ \A c \in Client : Received(s)[c] = inbox[c]
      BY <1>1, <2>1, ReceivedAt, Processes
    <2>3. HandleClientReq(s, r, Received(s)) /\ UNCHANGED clientVars /\ UNCHANGED <<member, far>>
      BY <1>2 DEF RecvRequest, r
    <2> QED
      BY <2>1, <2>2, <2>3, HandlerTruthful
  <1>3. CASE Drain(s)
    <2> DEFINE r == Head(queue[s])
    <2>1. queue[s] \in Seq(RequestMessage) /\ queue[s] # <<>>
      BY <1>1, <1>3 DEF Drain, QueueType
    <2>2. r \in RequestMessage
      BY <2>1, TailAt
    <2> HIDE DEF r
    <2>3. HandleClientReq(s, r, inbox) /\ UNCHANGED clientVars /\ UNCHANGED <<member, far>>
      BY <1>3 DEF Drain, r
    <2> QED
      BY <1>1, <2>2, <2>3, HandlerTruthful
  <1> QED
    BY <1>2, <1>3

\* The clients see no more than responses.
LEMMA UpdatesTruthful ==
  ASSUME TypeInv, ConnectionInv, NEW s \in Server,
         RecvOwnUpdate(s) \/ StartSync(s) \/ EndSync(s) \/ Crash(s) \/ \E u \in NewsFor(s) : News(s, u)
  PROVE  ConnectionInv'
PROOF
  <1> SUFFICES ASSUME NEW c \in Client PROVE Truthful(c)'
    BY DEF ConnectionInv
  <1>1. /\ Truthful(c) /\ VariableType /\ IsBox(inbox) /\ ListType /\ FileType
    BY DEF TypeInv, ConnectionInv
  <1>2. /\ UNCHANGED clientVars /\ UNCHANGED <<member, joined, far>>
    BY DEF RecvOwnUpdate, StartSync, EndSync, Crash, News, serverVars, netVars
  <1>3. up'[c] = up[c]
    BY <1>1, Processes DEF RecvOwnUpdate, StartSync, EndSync, Crash, Exit, News, VariableType
  <1>4. ASSUME NEW box, IsBox(box), box[c] = inbox[c], NEW u \in UpdateMessage, inbox' = Serve(box, s, u)
        PROVE  \/ inbox'[c] = inbox[c]
               \/ \E m \in ClientMessage : m.type = "Response" /\ inbox'[c] = Append(inbox[c], m)
    <2> DEFINE m == Response(u.op, u.obj_id)
    <2>1. /\ Serve(box, s, u)[c] = IF c \in JoinedTo(s, u.db_name) /\ up[c] /\ Together(s, c)
                                     THEN Append(box[c], m) ELSE box[c]
          /\ m \in ClientMessage /\ m.type = "Response"
      BY <1>1, <1>4, ServeAt, Processes
    <2> HIDE DEF m
    <2> QED
      BY <1>4, <2>1
  <1>5. \/ inbox'[c] = inbox[c]
        \/ \E m \in ClientMessage : m.type = "Response" /\ inbox'[c] = Append(inbox[c], m)
    <2>1. CASE RecvOwnUpdate(s)
      <3> DEFINE u == Head(inbox[s])
      <3>1. u \in UpdateMessage /\ inbox[s] # <<>>
        BY <1>1, <2>1, HeadOfServer, MessageKinds DEF RecvOwnUpdate
      <3>2. inbox' = Received(s) \/ inbox' = Serve(Received(s), s, u)
        BY <2>1 DEF RecvOwnUpdate
      <3> HIDE DEF u
      <3>3. IsBox(Received(s)) /\ Received(s)[c] = inbox[c]
        BY <1>1, <3>1, ReceivedAt, Processes
      <3> QED
        BY <1>4, <3>1, <3>2, <3>3
    <2>2. CASE StartSync(s) \/ EndSync(s) \/ Crash(s)
      BY <2>2 DEF StartSync, EndSync, Crash
    <2>3. ASSUME NEW u \in NewsFor(s), News(s, u)
          PROVE  \/ inbox'[c] = inbox[c]
                 \/ \E m \in ClientMessage : m.type = "Response" /\ inbox'[c] = Append(inbox[c], m)
      <3>1. u \in UpdateMessage /\ inbox' = Serve(inbox, s, u)
        BY <1>1, <2>3, NewsUpdates DEF News
      <3> QED
        BY <1>1, <1>4, <3>1
    <2> QED
      BY <2>1, <2>2, <2>3
  <1> QED
    BY <1>1, <1>2, <1>3, <1>5, TruthfulSame DEF clientVars, sessionVars, historyVars

\* Exits and partitions: every client concerned is told.
LEMMA DisconnectTruthful ==
  ASSUME TypeInv, ConnectionInv, NEW s \in Server, Disconnect(s)
  PROVE  ConnectionInv'
PROOF
  <1> SUFFICES ASSUME NEW c \in Client PROVE Truthful(c)'
    BY DEF ConnectionInv
  <1> DEFINE m == Membership(s, 1, "gone")
  <1>1. /\ Truthful(c) /\ VariableType /\ member[c] \subseteq Server
        /\ inbox[c] \in Seq(ClientMessage)
    BY BoxAt DEF TypeInv, ConnectionInv, VariableType
  <1>2. /\ cs_index'[c] = cs_index[c] /\ client_server_group'[c] = client_server_group[c]
        /\ client_connected'[c] = client_connected[c] /\ lost'[c] = lost[c]
        /\ member'[c] = member[c] /\ UNCHANGED <<up, far>>
    BY DEF Disconnect, clientVars, sessionVars, historyVars
  <1>3. \A t \in Server : t # s => (c \in joined'[t] <=> c \in joined[t])
    BY <1>1 DEF Disconnect, VariableType
  <1>4. inbox'[c] = IF Both(c, s) /\ up[c] THEN Append(inbox[c], m) ELSE inbox[c]
    BY DisconnectAt
  <1>5. m \in ClientMessage /\ m.members # 2 /\ \A u : IsAbout(m, u) <=> u = s
    BY AMembership
  <1> HIDE DEF m
  <1>6. ASSUME NEW t \in member[c], up[c] PROVE Kept(c, t)
    <2>1. t # s => (Both(c, t) => Both(c, t)')
      BY <1>1, <1>2, <1>3 DEF Both, Together
    <2>2. CASE inbox'[c] = inbox[c] /\ (t # s \/ ~ Both(c, t))
      BY <2>1, <2>2 DEF Kept
    <2>3. CASE inbox'[c] = Append(inbox[c], m) /\ t # s
      BY <1>1, <1>5, <2>1, <2>3, AboutAppend DEF Kept
    <2>4. CASE inbox'[c] = Append(inbox[c], m) /\ t = s
      BY <1>1, <1>5, <2>4, AboutAppend DEF Kept
    <2> QED
      BY <1>4, <1>6, <2>2, <2>3, <2>4
  <1> QED
    BY <1>1, <1>2, <1>6, TruthfulKept

LEMMA PartitionTruthful ==
  ASSUME TypeInv, ConnectionInv, NEW A \in SUBSET Proc, Partition(A)
  PROVE  ConnectionInv'
PROOF
  <1> SUFFICES ASSUME NEW c \in Client PROVE Truthful(c)'
    BY DEF ConnectionInv
  <1>1. /\ Truthful(c) /\ VariableType /\ member[c] \subseteq Server
        /\ inbox[c] \in Seq(ClientMessage)
    BY BoxAt DEF TypeInv, ConnectionInv, VariableType
  <1>2. /\ cs_index'[c] = cs_index[c] /\ client_server_group'[c] = client_server_group[c]
        /\ client_connected'[c] = client_connected[c] /\ lost'[c] = lost[c]
        /\ UNCHANGED <<up, member, joined>> /\ far' = A
    BY DEF Partition, clientVars, sessionVars, historyVars
  <1>3. ASSUME NEW s \in member[c], up[c] PROVE Kept(c, s)
    <2>1. PICK w \in Seq(ClientMessage) :
            inbox'[c] = inbox[c] \o w /\ Tells(c, A, w)
      BY <1>3, PartitionAt
    <2>2. \A i \in DOMAIN w : \A t \in member[c] :
            LET n == IF Together(c, t) THEN 1 ELSE 2 IN
              w[i] = Membership(t, n, "network") =>
                w[i].type = "Membership" /\ w[i].group = t /\ w[i].members = n
      BY <1>1, ClientMessages
    <2>3. \A i \in About(w, s) : Turns(c, s, A) /\ w[i].members = IF Together(c, s) THEN 1 ELSE 2
      BY <2>1, <2>2, AboutIs DEF IsAbout, Tells
    <2>4. Both(c, s) <=> c \in joined[s] /\ Together(c, s)
      BY DEF Both
    <2>5. Both(c, s)' <=> c \in joined[s] /\ (c \in A <=> s \in A)
      BY <1>2 DEF Both, Together
    <2>6. CASE ~ Turns(c, s, A)
      <3>1. About(w, s) = {}
        BY <2>3, <2>6
      <3>2. Both(c, s) => Both(c, s)'
        BY <2>4, <2>5, <2>6 DEF Turns
      <3> QED
        BY <1>1, <2>1, <3>1, <3>2, AboutConcat DEF Kept
    <2>7. CASE Turns(c, s, A) /\ ~ Together(c, s)
      <3>1. Both(c, s)'
        BY <2>5, <2>7 DEF Turns
      <3> QED
        BY <3>1 DEF Kept
    <2>8. CASE Turns(c, s, A) /\ Together(c, s)
      <3>1. About(w, s) # {}
        <4>1. PICK i \in DOMAIN w : w[i].group = s
          BY <2>1, <2>8 DEF Tells
        <4>2. i \in About(w, s)
          BY <2>1, <2>2, <4>1, AboutIs DEF IsAbout, Tells
        <4> QED
          BY <4>2
      <3>2. Twos(w, s) = {}
        BY <2>3, <2>8, AboutIs
      <3>3. About(inbox[c] \o w, s) # {} /\ ~ LastIsTwo(inbox[c] \o w, s)
        BY <1>1, <3>1, <3>2, AboutConcat
      <3> QED
        BY <2>1, <3>3 DEF Kept
    <2> QED
      BY <2>6, <2>7, <2>8
  <1> QED
    BY <1>1, <1>2, <1>3, TruthfulKept

\* Every step keeps the beliefs true.
LEMMA ConnectionStep == TypeInv /\ ConnectionInv /\ [Next]_vars => ConnectionInv'
PROOF
  <1> SUFFICES ASSUME TypeInv, ConnectionInv, [Next]_vars PROVE ConnectionInv'
    OBVIOUS
  <1>1. ASSUME NEW c \in Client, UserCommand(c) \/ ClientStep(c) \/ Reconnect(c)
        PROVE  ConnectionInv'
    BY <1>1, OthersTruthful
  <1>2. ASSUME NEW s \in Server,
               ServerStep(s) \/ StartSync(s) \/ EndSync(s) \/ Crash(s) \/ Disconnect(s)
        PROVE  ConnectionInv'
    BY <1>2, RequestTruthful, UpdatesTruthful, LeaveTruthful, DisconnectTruthful DEF ServerStep
  <1>3. ASSUME NEW s \in Server, NEW u \in NewsFor(s), News(s, u) PROVE ConnectionInv'
    BY <1>3, UpdatesTruthful
  <1>4. ASSUME NEW A \in SUBSET Proc, Partition(A) PROVE ConnectionInv'
    BY <1>4, PartitionTruthful
  <1>5. CASE UNCHANGED vars
    BY <1>5 DEF ConnectionInv, Truthful, LastIsTwo, About, Twos, Both, Together, vars, clientVars,
                sessionVars, historyVars, netVars
  <1> QED
    BY <1>1, <1>2, <1>3, <1>4, <1>5 DEF Next

LEMMA ConnectionInit == Init => ConnectionInv
PROOF
  <1> SUFFICES ASSUME Init, NEW c \in Client PROVE Truthful(c)
    BY DEF ConnectionInv
  <1> QED
    BY DEF Init, Truthful

\* Types and connections together, over every behaviour.
LEMMA ConnectionHolds == Spec => [](TypeInv /\ ConnectionInv)
PROOF
  <1>1. Init => TypeInv /\ ConnectionInv
    BY TypeInit, ConnectionInit
  <1>2. TypeInv /\ ConnectionInv /\ [Next]_vars => (TypeInv /\ ConnectionInv)'
    BY TypeStep, ConnectionStep
  <1> QED
    BY <1>1, <1>2, PTL DEF Spec

\* Every variable has its type, and no server has two nodes for one board, however
\* requests, leaves and replays follow one another.
THEOREM TypeIsOK == Spec => []TypeOK
PROOF
  <1>1. ASSUME TypeInv PROVE TypeOK
    <2>1. VariableType /\ ScreenType /\ ListType /\ FileType /\ QueueType
      BY <1>1 DEF TypeInv
    <2>2. ASSUME NEW s \in Server
          PROVE  /\ ToSet(client_list[s]) \subseteq Client
                 /\ \A i \in DOMAIN db_list[s] : db_list[s][i].db_name \in Board
                 /\ IsInjective([i \in DOMAIN db_list[s] |-> db_list[s][i].db_name])
                 /\ \A k \in DOMAIN file[s] : file[s][k].db_name \in Board
                 /\ pc[s] = "draining" => queue[s] # <<>> /\ ~ syncOn[s]
      <3>1. ToSet(client_list[s]) \subseteq Client /\ BoardList(db_list[s])
        BY <2>1, ListsAre
      <3>2. \A i \in DOMAIN db_list[s] : db_list[s][i].db_name \in Board
        BY <3>1, NodeParts
      <3>3. IsInjective([i \in DOMAIN db_list[s] |-> db_list[s][i].db_name])
        BY <3>1 DEF IsInjective, BoardList
      <3>4. \A k \in DOMAIN file[s] : file[s][k].db_name \in Board
        BY <2>1 DEF FileType, Record
      <3> QED
        BY <2>1, <3>1, <3>2, <3>3, <3>4 DEF QueueType
    <2> QED
      BY <2>1, <2>2 DEF TypeOK, VariableType, ScreenType, Place
  <1> QED
    BY <1>1, ConnectionHolds, PTL

\* A client that has read all its messages, believes itself connected and never
\* lost its daemon is in a group with its server: Read_message may take the last
\* membership for the state of the connection, through crashes and partitions.
THEOREM ConnectionsAreReal == Spec => []ConnectedIsReal
PROOF
  <1>1. ASSUME TypeInv, ConnectionInv, NEW c \in Client, up[c], inbox[c] = <<>>,
               client_connected[c], ~ lost[c]
        PROVE  Both(c, client_server_group[c])
    <2>1. Truthful(c)
      BY <1>1 DEF ConnectionInv
    <2>2. \A s : About(inbox[c], s) = {}
      <3>1. DOMAIN inbox[c] = {}
        BY <1>1, EmptySeq
      <3> QED
        BY <3>1, AboutIs
    <2> QED
      BY <1>1, <2>1, <2>2 DEF Truthful
  <1>2. TypeInv /\ ConnectionInv => ConnectedIsReal
    BY <1>1 DEF ConnectedIsReal
  <1> QED
    BY <1>2, ConnectionHolds, PTL
================================================================================
