----------------------------- MODULE SessionProofs -----------------------------
(***************************************************************************)
(* The places of the clients on the lists of the servers, what the clients *)
(* are told of them, the objects they show and the lines on their screens, *)
(* for any number of clients, servers, boards, commands and faults.        *)
(*                                                                         *)
(* A client moves from place to place as a server reads what it sent, so   *)
(* the argument is a walk through the inbox of the server: what is read    *)
(* next fits where the client is, each message fits where the one before   *)
(* it leaves the client, and after the last one the client is where it     *)
(* believes it is.  A step of the client adds to the end of the walk, a    *)
(* step of the server takes the first message of it.                       *)
(*                                                                         *)
(* What a client shows is a walk through its own inbox: the last message   *)
(* about an object decides whether it will be listed.  That is right once  *)
(* nothing about the object waits for the server, so an update makes it    *)
(* open from when the server sends it until the server serves it.          *)
(***************************************************************************)
EXTENDS ConnectionProofs

--------------------------------------------------------------------------------
(* The place of a client *)

\* The messages that move a client, and where it is before one of them.
LEMMA MovesAre ==
  ASSUME NEW q \in Seq(ServerMessage), NEW c
  PROVE  /\ \A i : i \in Moves(q, c) <=> i \in DOMAIN q /\ IsMove(q[i], c)
         /\ \A i \in Moves(q, c) : i \in Nat \ {0} /\ i <= Len(q)
PROOF
  BY DEF Moves

LEMMA PlaceBeforeIs ==
  ASSUME NEW q \in Seq(ServerMessage), NEW c, NEW P, NEW i \in Nat
  PROVE  \/ (\A j \in Moves(q, c) : ~ (j < i)) /\ PlaceBefore(q, c, P, i) = P
         \/ \E k \in Moves(q, c) :
              /\ k < i /\ \A j \in Moves(q, c) : j < i => j <= k
              /\ PlaceBefore(q, c, P, i) = After(q[k])
PROOF
  <1> DEFINE E == {j \in Moves(q, c) : j < i}
  <1>1. E \subseteq Nat /\ \A j \in E : j <= i
    BY MovesAre
  <1>2. PlaceBefore(q, c, P, i) = IF E = {} THEN P ELSE After(q[Max(E)])
    BY DEF PlaceBefore
  <1>3. CASE E = {}
    BY <1>2, <1>3
  <1>4. CASE E # {}
    <2>1. \A j : j \in E <=> j \in Moves(q, c) /\ j < i
      OBVIOUS
    <2> HIDE DEF E
    <2>2. \E k \in E : \A m \in E : m <= k
      BY <1>1, <1>4, GreatestNatural
    <2>3. \E k \in E : \A m \in E : k >= m
      BY <1>1, <2>2
    <2>4. Max(E) \in E /\ \A m \in E : Max(E) >= m
      BY <2>3 DEF Max
    <2>5. \A m \in E : m <= Max(E)
      BY <1>1, <2>4
    <2> QED
      BY <1>2, <1>4, <2>1, <2>4, <2>5
  <1> QED
    BY <1>3, <1>4

\* Whether a client has a place depends on its first place for no more.
LEMMA PlaceBeforeKept ==
  ASSUME NEW q \in Seq(ServerMessage), NEW c, NEW P, NEW Q, P # {} => Q # {}, NEW i \in Nat,
         PlaceBefore(q, c, P, i) # {}
  PROVE  PlaceBefore(q, c, Q, i) # {}
PROOF
  BY DEF PlaceBefore

\* A message more at the end, and one less at the head.
LEMMA PlaceAppend ==
  ASSUME NEW q \in Seq(ServerMessage), NEW m \in ServerMessage, NEW c, NEW P
  PROVE  /\ \A i \in 1 .. Len(q) : PlaceBefore(Append(q, m), c, P, i) = PlaceBefore(q, c, P, i)
         /\ PlaceBefore(Append(q, m), c, P, Len(q) + 1) = EndPlace(q, c, P)
         /\ EndPlace(Append(q, m), c, P) = IF IsMove(m, c) THEN After(m) ELSE EndPlace(q, c, P)
         /\ \A i : i \in Moves(Append(q, m), c)
                     <=> i \in Moves(q, c) \/ (i = Len(q) + 1 /\ IsMove(m, c))
PROOF
  <1> DEFINE a == Append(q, m)
             n == Len(q) + 1
  <1>1. /\ DOMAIN q = 1 .. Len(q) /\ Len(q) \in Nat /\ DOMAIN a = 1 .. Len(q) + 1
        /\ \A i \in 1 .. Len(q) : a[i] = q[i]
        /\ a[n] = m /\ a \in Seq(ServerMessage) /\ Len(a) = n
    BY AppendAt
  <1> HIDE DEF a
  <1>2. \A i : i \in DOMAIN a <=> i \in DOMAIN q \/ i = n
    BY <1>1
  <1>3. \A i : i \in Moves(a, c) <=> i \in Moves(q, c) \/ (i = n /\ IsMove(m, c))
    BY <1>1, <1>2, MovesAre
  <1>4. \A i \in Moves(q, c) : i \in Nat \ {0} /\ i < n /\ a[i] = q[i]
    BY <1>1, MovesAre
  <1>5. n \in Nat
    BY <1>1
  <1> HIDE DEF n
  <1>6. ASSUME NEW i \in Nat, i <= n PROVE PlaceBefore(a, c, P, i) = PlaceBefore(q, c, P, i)
    <2>1. \A j : j \in Moves(a, c) /\ j < i <=> j \in Moves(q, c) /\ j < i
      BY <1>3, <1>5, <1>6
    <2>2. CASE \A j \in Moves(q, c) : ~ (j < i)
      BY <1>1, <2>1, <2>2, PlaceBeforeIs
    <2>3. CASE ~ \A j \in Moves(q, c) : ~ (j < i)
      <3>1. PICK k \in Moves(q, c) : /\ k < i /\ \A j \in Moves(q, c) : j < i => j <= k
                                     /\ PlaceBefore(q, c, P, i) = After(q[k])
        BY <2>3, PlaceBeforeIs
      <3>2. PICK l \in Moves(a, c) : /\ l < i /\ \A j \in Moves(a, c) : j < i => j <= l
                                     /\ PlaceBefore(a, c, P, i) = After(a[l])
        BY <1>1, <2>1, <2>3, PlaceBeforeIs
      <3>3. k = l
        BY <2>1, <3>1, <3>2, <1>4
      <3> QED
        BY <3>1, <3>2, <3>3, <1>4
    <2> QED
      BY <2>2, <2>3
  <1>7. PlaceBefore(a, c, P, n) = EndPlace(q, c, P)
    BY <1>5, <1>6 DEF EndPlace, n
  <1>8. EndPlace(a, c, P) = IF IsMove(m, c) THEN After(m) ELSE EndPlace(q, c, P)
    <2>1. EndPlace(a, c, P) = PlaceBefore(a, c, P, n + 1) /\ n + 1 \in Nat
      BY <1>1, <1>5 DEF EndPlace
    <2>2. CASE IsMove(m, c)
      <3>1. n \in Moves(a, c) /\ n < n + 1 /\ \A j \in Moves(a, c) : j <= n
        BY <1>3, <1>4, <1>5, <2>2
      <3>2. PICK k \in Moves(a, c) : /\ k < n + 1 /\ \A j \in Moves(a, c) : j < n + 1 => j <= k
                                     /\ PlaceBefore(a, c, P, n + 1) = After(a[k])
        BY <1>1, <2>1, <3>1, PlaceBeforeIs
      <3>3. k = n
        BY <3>1, <3>2, <1>4, <1>3, <1>5
      <3> QED
        BY <1>1, <2>1, <2>2, <3>2, <3>3
    <2>3. CASE ~ IsMove(m, c)
      <3>1. \A j : j \in Moves(a, c) <=> j \in Moves(q, c)
        BY <1>3, <2>3
      <3>2. \A j \in Moves(a, c) : j < n + 1 <=> j < n
        BY <3>1, <1>4, <1>5
      <3>3. PlaceBefore(a, c, P, n + 1) = PlaceBefore(a, c, P, n)
        <4>1. {j \in Moves(a, c) : j < n + 1} = {j \in Moves(a, c) : j < n}
          BY <3>2
        <4> QED
          BY <4>1 DEF PlaceBefore
      <3> QED
        BY <1>7, <2>1, <2>3, <3>3
    <2> QED
      BY <2>2, <2>3
  <1>9. \A i \in 1 .. Len(q) : PlaceBefore(a, c, P, i) = PlaceBefore(q, c, P, i)
    BY <1>6, <1>1 DEF n
  <1> QED
    BY <1>3, <1>7, <1>8, <1>9 DEF a, n

LEMMA PlaceTail ==
  ASSUME NEW q \in Seq(ServerMessage), q # <<>>, NEW c, NEW P, NEW Q,
         Q = IF IsMove(Head(q), c) THEN After(Head(q)) ELSE P
  PROVE  /\ \A i \in 1 .. Len(q) - 1 : PlaceBefore(Tail(q), c, Q, i) = PlaceBefore(q, c, P, i + 1)
         /\ EndPlace(Tail(q), c, Q) = EndPlace(q, c, P)
         /\ \A i : i \in Moves(Tail(q), c) <=> i \in Nat \ {0} /\ i + 1 \in Moves(q, c)
         /\ PlaceBefore(q, c, P, 1) = P
PROOF
  <1> DEFINE t == Tail(q)
  <1>1. /\ DOMAIN q = 1 .. Len(q) /\ Len(q) \in Nat /\ Len(q) >= 1 /\ q[1] = Head(q)
        /\ DOMAIN t = 1 .. Len(q) - 1
        /\ \A i \in 1 .. Len(q) - 1 : t[i] = q[i + 1]
        /\ t \in Seq(ServerMessage) /\ Len(t) = Len(q) - 1
    BY TailAt
  <1> HIDE DEF t
  <1>2. \A i : i \in DOMAIN t <=> i \in Nat \ {0} /\ i + 1 \in DOMAIN q
    BY <1>1
  <1>3. \A i \in DOMAIN t : t[i] = q[i + 1]
    BY <1>1
  <1>4. \A i : i \in Moves(t, c) <=> i \in Nat \ {0} /\ i + 1 \in Moves(q, c)
    BY <1>1, <1>2, <1>3, MovesAre
  <1>5. \A j \in Moves(q, c) : j \in Nat \ {0} /\ (j # 1 => j - 1 \in Moves(t, c) /\ (j - 1) + 1 = j)
    <2> TAKE j \in Moves(q, c)
    <2>1. j \in Nat \ {0}
      BY MovesAre
    <2>2. j # 1 => j - 1 \in Nat \ {0} /\ (j - 1) + 1 = j
      BY <2>1
    <2> QED
      BY <2>1, <2>2, <1>4
  <1>6. 1 \in Moves(q, c) <=> IsMove(Head(q), c)
    BY <1>1, MovesAre
  <1>7. \A k \in Moves(t, c) : k \in Nat /\ t[k] = q[k + 1]
    BY <1>1, <1>3, MovesAre
  <1>8. ASSUME NEW i \in Nat \ {0} PROVE PlaceBefore(t, c, Q, i) = PlaceBefore(q, c, P, i + 1)
    <2>1. i \in Nat /\ i + 1 \in Nat
      OBVIOUS
    <2>2. CASE \A j \in Moves(t, c) : ~ (j < i)
      <3>1. PlaceBefore(t, c, Q, i) = Q
        BY <1>1, <2>1, <2>2, PlaceBeforeIs
      <3>2. \A j \in Moves(q, c) : j < i + 1 => j = 1
        BY <2>1, <2>2, <1>5, <1>7
      <3>3. CASE IsMove(Head(q), c)
        <4>1. 1 \in Moves(q, c) /\ 1 < i + 1
          BY <1>6, <3>3, <2>1
        <4>2. PICK k \in Moves(q, c) : k < i + 1 /\ PlaceBefore(q, c, P, i + 1) = After(q[k])
          BY <2>1, <4>1, PlaceBeforeIs
        <4> QED
          BY <3>1, <3>2, <3>3, <4>2, <1>1
      <3>4. CASE ~ IsMove(Head(q), c)
        <4>1. \A j \in Moves(q, c) : ~ (j < i + 1)
          BY <3>2, <3>4, <1>6
        <4>2. PlaceBefore(q, c, P, i + 1) = P
          BY <2>1, <4>1, PlaceBeforeIs
        <4> QED
          BY <3>1, <3>4, <4>2
      <3> QED
        BY <3>3, <3>4
    <2>3. CASE ~ \A j \in Moves(t, c) : ~ (j < i)
      <3>1. PICK k \in Moves(t, c) : /\ k < i /\ \A j \in Moves(t, c) : j < i => j <= k
                                     /\ PlaceBefore(t, c, Q, i) = After(t[k])
        BY <1>1, <2>1, <2>3, PlaceBeforeIs
      <3>2. k + 1 \in Moves(q, c) /\ k + 1 < i + 1
        BY <3>1, <1>4, <2>1
      <3>3. PICK l \in Moves(q, c) : /\ l < i + 1 /\ \A j \in Moves(q, c) : j < i + 1 => j <= l
                                     /\ PlaceBefore(q, c, P, i + 1) = After(q[l])
        BY <2>1, <3>2, PlaceBeforeIs
      <3>4. k + 1 <= l /\ l \in Nat /\ k \in Nat /\ l # 1
        BY <3>2, <3>3, <1>5, <1>7, <1>4
      <3>5. l - 1 \in Moves(t, c) /\ l - 1 < i
        BY <3>3, <3>4, <1>5, <2>1
      <3>6. l - 1 <= k
        BY <3>1, <3>5
      <3>7. l = k + 1
        BY <3>4, <3>6
      <3> QED
        BY <3>1, <3>3, <3>7, <1>7
    <2> QED
      BY <2>2, <2>3
  <1>9. EndPlace(t, c, Q) = EndPlace(q, c, P)
    <2>1. Len(t) + 1 \in Nat \ {0} /\ (Len(t) + 1) + 1 = Len(q) + 1
      BY <1>1
    <2> QED
      BY <1>8, <2>1 DEF EndPlace
  <1>10. PlaceBefore(q, c, P, 1) = P
    <2>1. \A j \in Moves(q, c) : ~ (j < 1)
      BY <1>5
    <2> QED
      BY <2>1, PlaceBeforeIs
  <1>11. \A i \in 1 .. Len(q) - 1 : PlaceBefore(t, c, Q, i) = PlaceBefore(q, c, P, i + 1)
    BY <1>8
  <1> QED
    BY <1>4, <1>9, <1>10, <1>11 DEF t

--------------------------------------------------------------------------------
(* What the handlers do to the places *)

PlacesOn(clients, boards, c) ==
  On(boards, c) \cup (IF c \in ToSet(clients) THEN {NoBoard} ELSE {})
OneOn(clients, boards, c) ==
  /\ \A P, Q \in PlacesOn(clients, boards, c) : P = Q
  /\ Once(clients, c) /\ OnceEach(boards, c)

\* The second lists hold client c where the first do.
SamePlace(clients, boards, C, B, c) ==
  /\ PlacesOn(C, B, c) = PlacesOn(clients, boards, c)
  /\ OneOn(clients, boards, c) => OneOn(C, B, c)

\* The places of a client, from the values of the two lists.
LEMMA PlacesAre ==
  ASSUME NEW s \in Server, NEW c \in Client
  PROVE  /\ At(s, c) = PlacesOn(client_list[s], db_list[s], c)
         /\ OnOneList(s, c) <=> OneOn(client_list[s], db_list[s], c)
PROOF
  <1>1. At(s, c) = PlacesOn(client_list[s], db_list[s], c)
    BY AtIs DEF PlacesOn
  <1> QED
    BY <1>1 DEF OnOneList, OneOn, OnceEach

LEMMA PlacesNext ==
  ASSUME NEW s \in Server, NEW c \in Client
  PROVE  /\ At(s, c)' = PlacesOn(client_list'[s], db_list'[s], c)
         /\ OnOneList(s, c)' <=> OneOn(client_list'[s], db_list'[s], c)
PROOF
  <1>1. At(s, c)' = PlacesOn(client_list'[s], db_list'[s], c)
    BY DEF PlacesOn, At, On, Having, NodesWith
  <1> QED
    BY <1>1 DEF OnOneList, OneOn, OnceEach

LEMMA OnBoards ==
  ASSUME NEW boards, BoardList(boards), NEW c
  PROVE  On(boards, c) \subseteq Board /\ NoBoard \notin On(boards, c)
PROOF
  BY NodeParts DEF On, Having

\* A connect puts a client on the list of those on no board, a join on one board.
LEMMA ConnectPlaces ==
  ASSUME NEW clients \in Seq(Client), NEW boards, BoardList(boards), NEW d \in Client
  PROVE  /\ \A c \in Client : c # d => SamePlace(clients, boards, Append(clients, d), boards, c)
         /\ PlacesOn(Append(clients, d), boards, d) = PlacesOn(clients, boards, d) \cup {NoBoard}
         /\ PlacesOn(clients, boards, d) = {} /\ OneOn(clients, boards, d) =>
              OneOn(Append(clients, d), boards, d)
PROOF
  <1> DEFINE C == Append(clients, d)
  <1>1. /\ ToSet(C) = ToSet(clients) \cup {d}
        /\ \A c : c # d /\ Once(clients, c) => Once(C, c)
        /\ d \notin ToSet(clients) => Once(C, d)
    BY AppendedFacts
  <1> HIDE DEF C
  <1>2. ASSUME NEW c \in Client, c # d PROVE SamePlace(clients, boards, C, boards, c)
    BY <1>1, <1>2 DEF SamePlace, PlacesOn, OneOn
  <1>3. PlacesOn(C, boards, d) = PlacesOn(clients, boards, d) \cup {NoBoard}
    BY <1>1 DEF PlacesOn
  <1>4. ASSUME PlacesOn(clients, boards, d) = {}, OneOn(clients, boards, d)
        PROVE  OneOn(C, boards, d)
    <2>1. d \notin ToSet(clients)
      BY <1>4 DEF PlacesOn
    <2> QED
      BY <1>1, <1>3, <1>4, <2>1 DEF OneOn
  <1> QED
    BY <1>2, <1>3, <1>4 DEF C

LEMMA SwitchedOthers ==
  ASSUME NEW boards, BoardList(boards), NEW d \in Client, NEW old, NEW b \in Board
  PROVE  \A c \in Client : c # d => On(Switched(boards, old, b, d), c) = On(boards, c)
PROOF
  BY SwitchedFacts

LEMMA JoinPlaces ==
  ASSUME NEW clients \in Seq(Client), NEW boards, BoardList(boards), NEW d \in Client,
         NEW old \in Place, NEW b \in Board,
         NEW C, C = IF old = NoBoard THEN RemoveFirst(clients, d) ELSE clients,
         NEW B, B = Switched(boards, old, b, d)
  PROVE  /\ \A c \in Client : c # d => SamePlace(clients, boards, C, B, c)
         /\ b \in PlacesOn(C, B, d)
         /\ PlacesOn(clients, boards, d) = {old} /\ OneOn(clients, boards, d) =>
              PlacesOn(C, B, d) = {b} /\ OneOn(C, B, d)
PROOF
  <1>1. /\ \A c \in Client : c # d => On(B, c) = On(boards, c)
        /\ \A c \in Client : c # d /\ OnceEach(boards, c) => OnceEach(B, c)
        /\ b \in On(B, d)
        /\ OnceEach(boards, d) /\ On(boards, d) \subseteq {old} => On(B, d) = {b} /\ OnceEach(B, d)
    <2> DEFINE W == Switched(boards, old, b, d)
    <2>3. b \in On(W, d)
      BY SwitchedFacts
    <2>4. \A c \in Client : c # d => On(W, c) = On(boards, c)
      BY SwitchedOthers
    <2>5. \A c \in Client : c # d /\ OnceEach(boards, c) => OnceEach(W, c)
      BY SwitchedFacts
    <2>6. OnceEach(boards, d) /\ On(boards, d) \subseteq {old} => On(W, d) = {b} /\ OnceEach(W, d)
      BY SwitchedFacts
    <2>1. /\ \A c \in Client : c # d => On(W, c) = On(boards, c)
          /\ \A c \in Client : c # d /\ OnceEach(boards, c) => OnceEach(W, c)
          /\ b \in On(W, d)
          /\ OnceEach(boards, d) /\ On(boards, d) \subseteq {old} => On(W, d) = {b} /\ OnceEach(W, d)
      BY <2>3, <2>4, <2>5, <2>6
    <2>2. B = W
      OBVIOUS
    <2> HIDE DEF W
    <2> QED
      BY <2>1, <2>2
  <1>2. /\ \A c : c # d => (c \in ToSet(C) <=> c \in ToSet(clients))
        /\ \A c : Once(clients, c) => Once(C, c)
        /\ old = NoBoard /\ Once(clients, d) => d \notin ToSet(C)
        /\ old # NoBoard => C = clients
    <2>1. CASE old = NoBoard
      <3>1. C = RemoveFirst(clients, d)
        BY <2>1
      <3> QED
        BY <2>1, <3>1, RemoveFirstFacts
    <2>2. CASE old # NoBoard
      BY <2>2
    <2> QED
      BY <2>1, <2>2
  <1>3. ASSUME NEW c \in Client, c # d PROVE SamePlace(clients, boards, C, B, c)
    <2>1. PlacesOn(C, B, c) = PlacesOn(clients, boards, c)
      BY <1>1, <1>2, <1>3 DEF PlacesOn
    <2> QED
      BY <1>1, <1>2, <1>3, <2>1 DEF SamePlace, OneOn
  <1>4. b \in PlacesOn(C, B, d)
    BY <1>1 DEF PlacesOn
  <1>5. ASSUME PlacesOn(clients, boards, d) = {old}, OneOn(clients, boards, d)
        PROVE  PlacesOn(C, B, d) = {b} /\ OneOn(C, B, d)
    <2>1. Once(clients, d) /\ OnceEach(boards, d) /\ On(boards, d) \subseteq {old}
      BY <1>5 DEF OneOn, PlacesOn
    <2>2. On(B, d) = {b} /\ OnceEach(B, d) /\ Once(C, d)
      BY <1>1, <1>2, <2>1
    <2>3. d \notin ToSet(C)
      <3>1. d \in ToSet(clients) => old = NoBoard
        BY <1>5 DEF PlacesOn
      <3> QED
        BY <1>2, <2>1, <3>1
    <2>4. PlacesOn(C, B, d) = {b}
      BY <2>2, <2>3 DEF PlacesOn
    <2> QED
      BY <2>2, <2>4 DEF OneOn
  <1> QED
    BY <1>3, <1>4, <1>5

\* A client is taken off a board.
LEMMA OffBoard ==
  ASSUME NEW clients \in Seq(Client), NEW boards, BoardList(boards), NEW d \in Client, NEW b,
         b \in On(boards, d), NEW B, B = WithoutClient(boards, b, d)
  PROVE  /\ BoardList(B)
         /\ \A c \in Client : c # d => SamePlace(clients, boards, clients, B, c)
         /\ OneOn(clients, boards, d) => PlacesOn(clients, B, d) = {} /\ OneOn(clients, B, d)
PROOF
  <1>1. /\ BoardList(B)
        /\ \A c \in Client : OnceEach(boards, c) => OnceEach(B, c)
        /\ \A c \in Client : c # d => On(B, c) = On(boards, c)
        /\ On(B, d) \subseteq On(boards, d)
        /\ OnceEach(boards, d) => b \notin On(B, d)
    BY WithoutClientFacts
  <1>2. ASSUME NEW c \in Client, c # d PROVE SamePlace(clients, boards, clients, B, c)
    BY <1>1, <1>2 DEF SamePlace, PlacesOn, OneOn
  <1>3. ASSUME OneOn(clients, boards, d) PROVE PlacesOn(clients, B, d) = {} /\ OneOn(clients, B, d)
    <2>1. /\ \A P, Q \in PlacesOn(clients, boards, d) : P = Q
          /\ Once(clients, d) /\ OnceEach(boards, d)
      BY <1>3 DEF OneOn
    <2>2. b \in PlacesOn(clients, boards, d) /\ b # NoBoard
      BY OnBoards DEF PlacesOn
    <2>3. d \notin ToSet(clients)
      BY <2>1, <2>2 DEF PlacesOn
    <2>4. \A P \in On(boards, d) : P = b
      BY <2>1, <2>2 DEF PlacesOn
    <2>5. On(B, d) = {}
      BY <1>1, <2>1, <2>4
    <2>6. PlacesOn(clients, B, d) = {}
      BY <2>3, <2>5 DEF PlacesOn
    <2> QED
      BY <1>1, <2>1, <2>6 DEF OneOn
  <1> QED
    BY <1>1, <1>2, <1>3

\* A client on no board is taken off the list of the others.
LEMMA OffList ==
  ASSUME NEW clients \in Seq(Client), NEW boards, BoardList(boards), NEW d \in Client,
         On(boards, d) = {}, NEW C, C = RemoveFirst(clients, d)
  PROVE  /\ C \in Seq(Client)
         /\ \A c \in Client : c # d => SamePlace(clients, boards, C, boards, c)
         /\ OneOn(clients, boards, d) => PlacesOn(C, boards, d) = {} /\ OneOn(C, boards, d)
PROOF
  <1>1. /\ C \in Seq(Client)
        /\ \A c : c # d => (c \in ToSet(C) <=> c \in ToSet(clients))
        /\ \A c : Once(clients, c) => Once(C, c)
        /\ Once(clients, d) => d \notin ToSet(C)
    BY RemoveFirstFacts
  <1>2. ASSUME NEW c \in Client, c # d PROVE SamePlace(clients, boards, C, boards, c)
    BY <1>1, <1>2 DEF SamePlace, PlacesOn, OneOn
  <1>3. ASSUME OneOn(clients, boards, d) PROVE PlacesOn(C, boards, d) = {} /\ OneOn(C, boards, d)
    <2>1. PlacesOn(C, boards, d) = {}
      BY <1>1, <1>3 DEF PlacesOn, OneOn
    <2> QED
      BY <1>1, <1>3, <2>1 DEF OneOn
  <1> QED
    BY <1>1, <1>2, <1>3


\* Client c stays where it is at server s.
Stays(s, c) == At(s, c)' = At(s, c) /\ (OnOneList(s, c) => OnOneList(s, c)')

LEMMA StaysWhenSame ==
  ASSUME NEW s \in Server, NEW c \in Client,
         client_list'[s] = client_list[s], db_list'[s] = db_list[s]
  PROVE  Stays(s, c)
PROOF
  BY PlacesAre, PlacesNext DEF Stays

\* A request moves no client but the one that asks, a leave takes it off.
LEMMA HandlerAt ==
  ASSUME ListType, NEW s \in Server, NEW r \in RequestMessage, NEW box, HandleClientReq(s, r, box)
  PROVE  /\ \A t \in Server, c \in Client : t # s \/ c # r.client => Stays(t, c)
         /\ r.op \notin {"c", "j"} \/ (r.op = "j" /\ JoinFails(s, r)) =>
              \A c \in Client : Stays(s, c)
         /\ r.op = "c" => /\ At(s, r.client)' = At(s, r.client) \cup {NoBoard}
                          /\ At(s, r.client) = {} /\ OnOneList(s, r.client) =>
                               OnOneList(s, r.client)'
         /\ r.op = "j" /\ ~ JoinFails(s, r) =>
              /\ r.db_name \in At(s, r.client)'
              /\ At(s, r.client) = {r.obj} /\ OnOneList(s, r.client) =>
                   At(s, r.client)' = {r.db_name} /\ OnOneList(s, r.client)'
PROOF
  <1> DEFINE d == r.client
  <1>1. d \in Client /\ r.obj \in Place /\ (r.op = "j" => r.db_name \in Board)
    BY MessageKinds
  <1>2. client_list[s] \in Seq(Client) /\ BoardList(db_list[s])
    BY ListsAre
  <1>3. ASSUME NEW t \in Server, t # s, NEW c \in Client PROVE Stays(t, c)
    BY <1>3, HandlerLists, StaysWhenSame
  <1>4. ASSUME r.op \notin {"c", "j"} \/ (r.op = "j" /\ JoinFails(s, r)), NEW c \in Client
        PROVE  Stays(s, c)
    <2>1. client_list' = client_list /\ db_list' = db_list
      BY <1>4, HandlerLists
    <2> QED
      BY <2>1, StaysWhenSame
  <1>5. ASSUME r.op = "c"
        PROVE  /\ At(s, d)' = At(s, d) \cup {NoBoard}
               /\ At(s, d) = {} /\ OnOneList(s, d) => OnOneList(s, d)'
               /\ \A c \in Client : c # d => Stays(s, c)
    <2>1. client_list'[s] = Append(client_list[s], d) /\ db_list'[s] = db_list[s]
      BY <1>5, HandlerLists
    <2> HIDE DEF d
    <2>2. /\ \A c \in Client : c # d =>
               SamePlace(client_list[s], db_list[s], client_list'[s], db_list'[s], c)
          /\ PlacesOn(client_list'[s], db_list'[s], d)
               = PlacesOn(client_list[s], db_list[s], d) \cup {NoBoard}
          /\ PlacesOn(client_list[s], db_list[s], d) = {} /\ OneOn(client_list[s], db_list[s], d) =>
               OneOn(client_list'[s], db_list'[s], d)
      BY <1>1, <1>2, <2>1, ConnectPlaces
    <2>3. \A c \in Client : c # d => Stays(s, c)
      BY <2>2, PlacesAre, PlacesNext DEF SamePlace, Stays
    <2> QED
      BY <1>1, <2>2, <2>3, PlacesAre, PlacesNext
  <1>6. ASSUME r.op = "j", ~ JoinFails(s, r)
        PROVE  /\ r.db_name \in At(s, d)'
               /\ At(s, d) = {r.obj} /\ OnOneList(s, d) => At(s, d)' = {r.db_name} /\ OnOneList(s, d)'
               /\ \A c \in Client : c # d => Stays(s, c)
    <2> DEFINE old == r.obj
               b == r.db_name
    <2>1. /\ client_list'[s] = IF old = NoBoard THEN RemoveFirst(client_list[s], d) ELSE client_list[s]
          /\ db_list'[s] = Switched(db_list[s], old, b, d)
      BY <1>6, HandlerLists
    <2>2. old \in Place /\ b \in Board
      BY <1>1, <1>6
    <2> HIDE DEF d, old, b
    <2> DEFINE clients == client_list[s]
               boards == db_list[s]
               C == client_list'[s]
               B == db_list'[s]
    <2>5. /\ C = IF old = NoBoard THEN RemoveFirst(clients, d) ELSE clients
          /\ B = Switched(boards, old, b, d)
      BY <2>1
    <2>6. clients \in Seq(Client) /\ BoardList(boards)
      BY <1>2
    <2> HIDE DEF clients, boards, C, B
    <2>7. /\ \A c \in Client : c # d => SamePlace(clients, boards, C, B, c)
          /\ b \in PlacesOn(C, B, d)
          /\ PlacesOn(clients, boards, d) = {old} /\ OneOn(clients, boards, d) =>
               PlacesOn(C, B, d) = {b} /\ OneOn(C, B, d)
      BY <1>1, <2>2, <2>5, <2>6, JoinPlaces
    <2>3. /\ \A c \in Client : c # d =>
               SamePlace(client_list[s], db_list[s], client_list'[s], db_list'[s], c)
          /\ b \in PlacesOn(client_list'[s], db_list'[s], d)
          /\ PlacesOn(client_list[s], db_list[s], d) = {old} /\ OneOn(client_list[s], db_list[s], d) =>
               PlacesOn(client_list'[s], db_list'[s], d) = {b} /\ OneOn(client_list'[s], db_list'[s], d)
      BY <2>7 DEF clients, boards, C, B
    <2>4. \A c \in Client : c # d => Stays(s, c)
      BY <2>3, PlacesAre, PlacesNext DEF SamePlace, Stays
    <2> QED
      BY <1>1, <2>3, <2>4, PlacesAre, PlacesNext DEF old, b
  <1>7. r.op \in {"c", "j"} \/ r.op \notin {"c", "j"}
    OBVIOUS
  <1> QED
    BY <1>3, <1>4, <1>5, <1>6, <1>7

LEMMA LeaveAt ==
  ASSUME VariableType, ListType, IsBox(inbox), NEW s \in Server, RecvLeave(s), up'[s],
         NEW d, d = Head(inbox[s]).client
  PROVE  /\ d \in Client
         /\ \A t \in Server, c \in Client : t # s \/ c # d => Stays(t, c)
         /\ OnOneList(s, d) => At(s, d)' = {} /\ OnOneList(s, d)'
         /\ UNCHANGED up /\ inbox' = ServerLeaves(Received(s), s, d)
         /\ joined' = [joined EXCEPT ![s] = @ \ {d}]
PROOF
  <1>1. d \in Client /\ up[s] /\ inbox[s] # <<>>
    BY HeadOfServer, MessageKinds DEF RecvLeave
  <1>2. client_list[s] \in Seq(Client) /\ BoardList(db_list[s])
    BY ListsAre
  <1>3. \/ /\ NodesWith(s, d) # {} /\ UNCHANGED client_list
           /\ db_list' = [db_list EXCEPT ![s] =
                            WithoutClient(@, @[Min(NodesWith(s, d))].db_name, d)]
        \/ /\ NodesWith(s, d) = {} /\ UNCHANGED db_list
           /\ client_list' = [client_list EXCEPT ![s] = RemoveFirst(@, d)]
        \/ up' = [up EXCEPT ![s] = FALSE]
    BY DEF RecvLeave, Exit
  <1>4. ~ (up' = [up EXCEPT ![s] = FALSE])
    <2>1. s \in DOMAIN up
      BY Processes DEF VariableType
    <2> QED
      BY <2>1
  <1>5. /\ UNCHANGED up /\ inbox' = ServerLeaves(Received(s), s, d)
        /\ joined' = [joined EXCEPT ![s] = @ \ {d}]
    BY <1>4 DEF RecvLeave, Exit
  <1>6. DOMAIN client_list = Server /\ DOMAIN db_list = Server
    BY DEF ListType
  <1>7. CASE /\ NodesWith(s, d) # {} /\ UNCHANGED client_list
             /\ db_list' = [db_list EXCEPT ![s] = WithoutClient(@, @[Min(NodesWith(s, d))].db_name, d)]
    <2> DEFINE b == db_list[s][Min(NodesWith(s, d))].db_name
    <2>1. b \in On(db_list[s], d)
      <3>1. NodesWith(s, d) = Having(db_list[s], d) /\ NodesWith(s, d) \subseteq Nat
        BY <1>2, NodeParts DEF NodesWith, Having
      <3>2. PICK n \in NodesWith(s, d) : \A m \in NodesWith(s, d) : n <= m
        BY <1>7, <3>1, LeastNatural
      <3>3. Min(NodesWith(s, d)) \in NodesWith(s, d)
        BY <3>2 DEF Min
      <3> QED
        BY <3>1, <3>3 DEF On
    <2>2. db_list'[s] = WithoutClient(db_list[s], b, d)
      BY <1>6, <1>7
    <2>3. \A t \in Server : t # s => client_list'[t] = client_list[t] /\ db_list'[t] = db_list[t]
      BY <1>7
    <2>4. client_list'[s] = client_list[s]
      BY <1>7
    <2> HIDE DEF b
    <2>5. /\ \A c \in Client : c # d =>
               SamePlace(client_list[s], db_list[s], client_list'[s], db_list'[s], c)
          /\ OneOn(client_list[s], db_list[s], d) =>
               PlacesOn(client_list'[s], db_list'[s], d) = {} /\ OneOn(client_list'[s], db_list'[s], d)
      BY <1>1, <1>2, <2>1, <2>2, <2>4, OffBoard
    <2>6. \A c \in Client : c # d => Stays(s, c)
      BY <2>5, PlacesAre, PlacesNext DEF SamePlace, Stays
    <2>7. OnOneList(s, d) => At(s, d)' = {} /\ OnOneList(s, d)'
      <3>1. OnOneList(s, d) <=> OneOn(client_list[s], db_list[s], d)
        BY <1>1, PlacesAre
      <3>2. /\ At(s, d)' = PlacesOn(client_list'[s], db_list'[s], d)
            /\ OnOneList(s, d)' <=> OneOn(client_list'[s], db_list'[s], d)
        BY <1>1, PlacesNext
      <3> QED
        BY <2>5, <3>1, <3>2
    <2>8. \A t \in Server, c \in Client : t # s => Stays(t, c)
      BY <2>3, StaysWhenSame
    <2> QED
      BY <1>1, <1>5, <2>6, <2>7, <2>8
  <1>8. CASE /\ NodesWith(s, d) = {} /\ UNCHANGED db_list
             /\ client_list' = [client_list EXCEPT ![s] = RemoveFirst(@, d)]
    <2>1. On(db_list[s], d) = {}
      BY <1>8 DEF On, Having, NodesWith
    <2>2. client_list'[s] = RemoveFirst(client_list[s], d) /\ db_list'[s] = db_list[s]
      BY <1>6, <1>8
    <2>3. \A t \in Server : t # s => client_list'[t] = client_list[t] /\ db_list'[t] = db_list[t]
      BY <1>8
    <2>5. /\ \A c \in Client : c # d =>
               SamePlace(client_list[s], db_list[s], client_list'[s], db_list'[s], c)
          /\ OneOn(client_list[s], db_list[s], d) =>
               PlacesOn(client_list'[s], db_list'[s], d) = {} /\ OneOn(client_list'[s], db_list'[s], d)
      BY <1>1, <1>2, <2>1, <2>2, OffList
    <2>6. \A c \in Client : c # d => Stays(s, c)
      BY <2>5, PlacesAre, PlacesNext DEF SamePlace, Stays
    <2>7. OnOneList(s, d) => At(s, d)' = {} /\ OnOneList(s, d)'
      <3>1. OnOneList(s, d) <=> OneOn(client_list[s], db_list[s], d)
        BY <1>1, PlacesAre
      <3>2. /\ At(s, d)' = PlacesOn(client_list'[s], db_list'[s], d)
            /\ OnOneList(s, d)' <=> OneOn(client_list'[s], db_list'[s], d)
        BY <1>1, PlacesNext
      <3> QED
        BY <2>5, <3>1, <3>2
    <2>8. \A t \in Server, c \in Client : t # s => Stays(t, c)
      BY <2>3, StaysWhenSame
    <2> QED
      BY <1>1, <1>5, <2>6, <2>7, <2>8
  <1> QED
    BY <1>3, <1>4, <1>7, <1>8

--------------------------------------------------------------------------------
(* A leave finds the client *)

\* Which messages move a client, and where to.
LEMMA Moving ==
  /\ \A c \in Client, d \in Client : IsMove(Left(d), c) <=> c = d
  /\ \A c \in Client : After(Left(c)) = {}
  /\ \A r \in RequestMessage, c \in Client :
       /\ IsMove(r, c) <=> r.client = c /\ r.op \in {"c", "j"}
       /\ r.type # "Left"
       /\ After(r) = IF r.op = "c" THEN {NoBoard} ELSE {r.db_name}
  /\ \A u \in UpdateMessage, c \in Client : ~ IsMove(u, c) /\ u.type # "Left"
PROOF
  <1>1. \A d \in Client : Left(d).type = "Left" /\ Left(d).client = d
    BY DEF Left
  <1>2. \A r \in RequestMessage : r.type = "Client"
    BY MessageKinds
  <1>3. \A u \in UpdateMessage : u.type = "Update"
    BY MessageKinds
  <1> QED
    BY <1>1, <1>2, <1>3 DEF IsMove, After

\* That leaves find the client is kept when messages come and go.
LEMMA FindsAppend ==
  ASSUME NEW q \in Seq(ServerMessage), NEW m \in ServerMessage, NEW c, NEW P,
         LeavesFind(q, c, P), IsMove(m, c) /\ m.type = "Left" => EndPlace(q, c, P) # {}
  PROVE  LeavesFind(Append(q, m), c, P)
PROOF
  <1> DEFINE a == Append(q, m)
             n == Len(q) + 1
  <1>1. /\ \A i \in 1 .. Len(q) : a[i] = q[i]
        /\ a[n] = m
    BY AppendAt
  <1>2. /\ \A i \in 1 .. Len(q) : PlaceBefore(a, c, P, i) = PlaceBefore(q, c, P, i)
        /\ PlaceBefore(a, c, P, n) = EndPlace(q, c, P)
        /\ \A i : i \in Moves(a, c) <=> i \in Moves(q, c) \/ (i = n /\ IsMove(m, c))
    BY PlaceAppend
  <1>3. \A i \in Moves(q, c) : i \in 1 .. Len(q)
    BY MovesAre
  <1> HIDE DEF a, n
  <1>4. ASSUME NEW i \in Moves(a, c), a[i].type = "Left" PROVE PlaceBefore(a, c, P, i) # {}
    <2>1. CASE i \in Moves(q, c)
      BY <1>1, <1>2, <1>3, <1>4, <2>1 DEF LeavesFind
    <2>2. CASE i = n /\ IsMove(m, c)
      BY <1>1, <1>2, <1>4, <2>2
    <2> QED
      BY <1>2, <2>1, <2>2
  <1> QED
    BY <1>4 DEF LeavesFind, a

LEMMA FindsTail ==
  ASSUME NEW q \in Seq(ServerMessage), q # <<>>, NEW c, NEW P, LeavesFind(q, c, P), NEW Q,
         Q = IF IsMove(Head(q), c) THEN After(Head(q)) ELSE P
  PROVE  LeavesFind(Tail(q), c, Q) /\ EndPlace(Tail(q), c, Q) = EndPlace(q, c, P)
PROOF
  <1> DEFINE t == Tail(q)
  <1>1. /\ \A i \in 1 .. Len(q) - 1 : PlaceBefore(t, c, Q, i) = PlaceBefore(q, c, P, i + 1)
        /\ EndPlace(t, c, Q) = EndPlace(q, c, P)
        /\ \A i : i \in Moves(t, c) <=> i \in Nat \ {0} /\ i + 1 \in Moves(q, c)
    BY PlaceTail
  <1>2. \A i \in Moves(t, c) : i \in 1 .. Len(q) - 1 /\ t[i] = q[i + 1]
    <2>1. t \in Seq(ServerMessage) /\ Len(t) = Len(q) - 1 /\ Len(q) \in Nat
      BY TailAt
    <2>2. \A i \in 1 .. Len(q) - 1 : t[i] = q[i + 1]
      BY TailAt
    <2> HIDE DEF t
    <2>3. \A i \in Moves(t, c) : i \in Nat \ {0} /\ i <= Len(t)
      BY <2>1, MovesAre
    <2> QED
      BY <2>1, <2>2, <2>3
  <1> HIDE DEF t
  <1> QED
    BY <1>1, <1>2 DEF LeavesFind, t

\* The client is found after a step that leaves q of the messages to server s and puts
\* the client at no less than P.
LEMMA FindableAfter ==
  ASSUME NEW s \in Server, NEW c \in Client, NEW q \in Seq(ServerMessage), NEW P,
         LeavesFind(q, c, P), s \in member'[c] => EndPlace(q, c, P) # {},
         P # {} => At(s, c)' # {}, inbox'[s] = q
  PROVE  Findable(s, c)'
PROOF
  <1> DEFINE Q == At(s, c)'
  <1>1. P # {} => Q # {}
    OBVIOUS
  <1>2. Findable(s, c)' <=> LeavesFind(q, c, Q) /\ (s \in member'[c] => EndPlace(q, c, Q) # {})
    BY DEF Findable, LeavesFind, EndPlace, PlaceBefore, Moves, IsMove, After
  <1> HIDE DEF Q
  <1>3. ASSUME NEW i \in Nat, PlaceBefore(q, c, P, i) # {} PROVE PlaceBefore(q, c, Q, i) # {}
    BY <1>1, <1>3, PlaceBeforeKept
  <1>4. LeavesFind(q, c, Q)
    BY <1>3, MovesAre DEF LeavesFind
  <1>5. s \in member'[c] => EndPlace(q, c, Q) # {}
    BY <1>3 DEF EndPlace
  <1> QED
    BY <1>2, <1>4, <1>5

\* The messages that wait are the same but for one that moves others or nobody.
LEMMA FindableKept ==
  ASSUME TypeInv, NEW s \in Server, NEW c \in Client, Findable(s, c),
         \/ inbox'[s] = inbox[s]
         \/ \E m \in ServerMessage : ~ IsMove(m, c) /\ inbox'[s] = Append(inbox[s], m),
         s \in member'[c] => s \in member[c], At(s, c) # {} => At(s, c)' # {}
  PROVE  Findable(s, c)'
PROOF
  <1> DEFINE q == inbox[s]
             P == At(s, c)
  <1>1. q \in Seq(ServerMessage)
    BY BoxAt DEF TypeInv
  <1>2. LeavesFind(q, c, P) /\ (s \in member[c] => EndPlace(q, c, P) # {})
    BY DEF Findable
  <1>3. P # {} => At(s, c)' # {}
    OBVIOUS
  <1> HIDE DEF P
  <1>4. CASE inbox'[s] = q
    BY <1>1, <1>2, <1>3, <1>4, FindableAfter
  <1>5. CASE \E m \in ServerMessage : ~ IsMove(m, c) /\ inbox'[s] = Append(q, m)
    <2>1. PICK m \in ServerMessage : ~ IsMove(m, c) /\ inbox'[s] = Append(q, m)
      BY <1>5
    <2>2. LeavesFind(Append(q, m), c, P)
      BY <1>1, <1>2, <2>1, FindsAppend
    <2>3. EndPlace(Append(q, m), c, P) = EndPlace(q, c, P)
      BY <1>1, <2>1, PlaceAppend
    <2>4. Append(q, m) \in Seq(ServerMessage)
      BY <1>1, AppendAt
    <2> QED
      BY <1>2, <1>3, <2>1, <2>2, <2>3, <2>4, FindableAfter
  <1> QED
    BY <1>4, <1>5

\* Server s reads its first message, and may send itself an update.
LEMMA FindableRead ==
  ASSUME TypeInv, NEW s \in Server, NEW c \in Client, Findable(s, c), inbox[s] # <<>>,
         \/ inbox'[s] = Tail(inbox[s])
         \/ \E u \in UpdateMessage : inbox'[s] = Append(Tail(inbox[s]), u),
         member'[c] = member[c],
         IF IsMove(Head(inbox[s]), c) THEN After(Head(inbox[s])) # {} => At(s, c)' # {}
         ELSE At(s, c) # {} => At(s, c)' # {}
  PROVE  Findable(s, c)'
PROOF
  <1> DEFINE q == inbox[s]
             t == Tail(q)
             P == At(s, c)
             Q == IF IsMove(Head(q), c) THEN After(Head(q)) ELSE P
  <1>1. q \in Seq(ServerMessage) /\ t \in Seq(ServerMessage)
    BY BoxAt, TailAt DEF TypeInv
  <1>2. LeavesFind(q, c, P) /\ (s \in member[c] => EndPlace(q, c, P) # {})
    BY DEF Findable
  <1>3. Q # {} => At(s, c)' # {}
    OBVIOUS
  <1> HIDE DEF P
  <1>4. LeavesFind(t, c, Q) /\ EndPlace(t, c, Q) = EndPlace(q, c, P)
    BY <1>1, <1>2, FindsTail
  <1>5. inbox'[s] = t \/ \E u \in UpdateMessage : inbox'[s] = Append(t, u)
    OBVIOUS
  <1> HIDE DEF t, Q
  <1>6. CASE inbox'[s] = t
    BY <1>1, <1>2, <1>3, <1>4, <1>6, FindableAfter
  <1>7. CASE \E u \in UpdateMessage : inbox'[s] = Append(t, u)
    <2>1. PICK u \in UpdateMessage : inbox'[s] = Append(t, u)
      BY <1>7
    <2>2. u \in ServerMessage /\ ~ IsMove(u, c)
      BY Moving, ServerMessages
    <2>3. LeavesFind(Append(t, u), c, Q)
      BY <1>1, <1>4, <2>2, FindsAppend
    <2>4. EndPlace(Append(t, u), c, Q) = EndPlace(t, c, Q)
      BY <1>1, <2>2, PlaceAppend
    <2>5. Append(t, u) \in Seq(ServerMessage)
      BY <1>1, <2>2, AppendAt
    <2> QED
      BY <1>2, <1>3, <1>4, <2>1, <2>3, <2>4, <2>5, FindableAfter
  <1> QED
    BY <1>5, <1>6, <1>7

--------------------------------------------------------------------------------
(* A leave finds the client, step by step *)

\* What a step of client d sends to server t, and what it does to the group.
Silent(d, t) ==
  /\ inbox'[t] = inbox[t]
  /\ t \in member'[d] => t \in member[d] \/ ~ up[t] \/ ~ Together(d, t)
Leaves(d, t) ==
  inbox'[t] = Append(inbox[t], Left(d)) /\ t \in member[d] /\ t \notin member'[d]
Requests(d, t) ==
  \E m \in RequestMessage :
    /\ m.client = d /\ inbox'[t] = Append(inbox[t], m)
    /\ m.op = "c" \/ (t \in member'[d] => t \in member[d])
Sends(d, t) == Silent(d, t) \/ Leaves(d, t) \/ Requests(d, t)

\* What each step of a client sends to a server.
LEMMA AskSends ==
  ASSUME TypeInv, ConnectionInv, NEW d \in Client, client_connected[d], NEW r \in RequestMessage,
         r.client = d, inbox' = To(inbox, d, cs_index[d], r), UNCHANGED member
  PROVE  \A t \in Server : Sends(d, t)
PROOF
  BY AskBoxes DEF Sends, Silent, Requests

LEMMA ConnectSends ==
  ASSUME TypeInv, ConnectionInv, NEW d \in Client, NEW s \in Server, Connect(d, s), NEW t \in Server
  PROVE  Sends(d, t)
PROOF
  <1> DEFINE r == Request("c", d, NoBoard, 0, NoBoard)
             old == client_server_group[d]
  <1>1. /\ inbox'[t] =
             IF t = s THEN IF up[s] /\ Together(d, s) THEN Append(inbox[s], r) ELSE inbox[s]
             ELSE IF client_connected[d] /\ t = old /\ Both(d, t) /\ up[t]
               THEN Append(inbox[t], Left(d)) ELSE inbox[t]
    BY ConnectBoxes
  <1>2. r \in RequestMessage /\ r.client = d /\ r.op = "c"
    BY ServerMessages, RequestParts
  <1> HIDE DEF r
  <1>3. member'[d] = IF client_connected[d] THEN (member[d] \ {old}) \cup {s} ELSE member[d] \cup {s}
    BY DEF Connect, TypeInv, VariableType
  <1> HIDE DEF old
  <1>4. CASE t = s
    <2>1. CASE up[s] /\ Together(d, s)
      BY <1>1, <1>2, <1>4, <2>1 DEF Sends, Requests
    <2>2. CASE ~ (up[s] /\ Together(d, s))
      BY <1>1, <1>4, <2>2 DEF Sends, Silent
    <2> QED
      BY <2>1, <2>2
  <1>5. CASE t # s
    <2>1. CASE client_connected[d] /\ t = old /\ Both(d, t) /\ up[t]
      <3>1. t \in member[d] /\ t \notin member'[d]
        BY <1>3, <1>5, <2>1 DEF Both
      <3> QED
        BY <1>1, <1>5, <2>1, <3>1 DEF Sends, Leaves
    <2>2. CASE ~ (client_connected[d] /\ t = old /\ Both(d, t) /\ up[t])
      BY <1>1, <1>3, <1>5, <2>2 DEF Sends, Silent
    <2> QED
      BY <2>1, <2>2
  <1> QED
    BY <1>4, <1>5

\* The client that exits or loses its daemon leaves the groups it is in.
LEMMA LeavingAllSends ==
  ASSUME TypeInv, NEW d \in Client, inbox' = [LeavingAll(inbox, d) EXCEPT ![d] = <<>>],
         member' = [member EXCEPT ![d] = {}]
  PROVE  \A t \in Server : Sends(d, t)
PROOF
  <1> SUFFICES ASSUME NEW t \in Server PROVE Sends(d, t)
    OBVIOUS
  <1>1. member'[d] = {}
    BY DEF TypeInv, VariableType
  <1>2. inbox'[t] = IF Both(d, t) /\ up[t] THEN Append(inbox[t], Left(d)) ELSE inbox[t]
    BY LeavingAllAt DEF TypeInv
  <1>3. CASE Both(d, t) /\ up[t]
    BY <1>1, <1>2, <1>3 DEF Sends, Leaves, Both
  <1>4. CASE ~ (Both(d, t) /\ up[t])
    BY <1>1, <1>2, <1>4 DEF Sends, Silent
  <1> QED
    BY <1>3, <1>4

LEMMA MembershipSends ==
  ASSUME TypeInv, NEW d \in Client, RecvMembership(d), NEW t \in Server
  PROVE  Sends(d, t)
PROOF
  <1> DEFINE m == Head(inbox[d])
             g == m.group
  <1>1. inbox[d] # <<>> /\ g \in Server
    BY HeadOfClient, MessageKinds DEF RecvMembership, TypeInv
  <1>2. IsBox(Received(d)) /\ Received(d)[t] = inbox[t]
    BY <1>1, ReceivedAt, Processes DEF TypeInv
  <1>3. \/ inbox' = Received(d) /\ UNCHANGED member
        \/ inbox' = Leaving(Received(d), d, g) /\ member' = [member EXCEPT ![d] = @ \ {g}]
    BY DEF RecvMembership
  <1> HIDE DEF g, m
  <1>4. CASE inbox' = Received(d) /\ UNCHANGED member
    BY <1>2, <1>4 DEF Sends, Silent
  <1>5. CASE inbox' = Leaving(Received(d), d, g) /\ member' = [member EXCEPT ![d] = @ \ {g}]
    <2>1. member'[d] = member[d] \ {g}
      BY <1>5 DEF TypeInv, VariableType
    <2>2. inbox'[t] = IF t = g /\ Both(d, g) /\ up[g] THEN Append(inbox[t], Left(d)) ELSE inbox[t]
      BY <1>1, <1>2, <1>5, LeavingAt, Processes
    <2>3. CASE t = g /\ Both(d, g) /\ up[g]
      BY <2>1, <2>2, <2>3 DEF Sends, Leaves, Both
    <2>4. CASE ~ (t = g /\ Both(d, g) /\ up[g])
      BY <2>1, <2>2, <2>4 DEF Sends, Silent
    <2> QED
      BY <2>3, <2>4
  <1> QED
    BY <1>3, <1>4, <1>5

LEMMA ClientSends ==
  ASSUME TypeInv, ConnectionInv, NEW d \in Client, UserCommand(d) \/ ClientStep(d) \/ Reconnect(d),
         NEW t \in Server
  PROVE  Sends(d, t)
PROOF
  <1>1. ASSUME NEW b \in Board, Join(d, b) PROVE Sends(d, t)
    <2> DEFINE r == Request("j", d, b, 0, curr_db[d])
    <2>1. curr_db[d] \in Place /\ client_connected[d]
      BY <1>1 DEF TypeInv, VariableType, Join
    <2>2. r \in RequestMessage /\ r.client = d
      BY <2>1, ServerMessages, RequestParts
    <2>3. inbox' = To(inbox, d, cs_index[d], r) /\ UNCHANGED member
      BY <1>1 DEF Join
    <2> HIDE DEF r
    <2> QED
      BY <2>1, <2>2, <2>3, AskSends
  <1>2. CASE JoinRefused(d)
    BY <1>2 DEF JoinRefused, Sends, Silent
  <1>3. CASE \/ Post(d) \/ AskView(d)
             \/ \E op \in {"e", "d"}, line \in 1 .. obj_num[d] : Change(d, op, line)
    <2>1. PICK r \in RequestMessage : r.client = d /\ inbox' = To(inbox, d, cs_index[d], r)
      BY <1>3, OtherRequests
    <2>2. client_connected[d] /\ UNCHANGED member
      BY <1>3, OtherRequests DEF netVars
    <2> QED
      BY <2>1, <2>2, AskSends
  <1>4. CASE Quit(d)
    BY <1>4, LeavingAllSends DEF Quit
  <1>5. CASE RecvResponse(d)
    <2>1. inbox[d] # <<>> /\ inbox' = Received(d) /\ UNCHANGED member
      BY <1>5 DEF RecvResponse, Receives, netVars
    <2>2. inbox'[t] = inbox[t]
      BY <2>1, ReceivedAt, Processes DEF TypeInv
    <2> QED
      BY <2>1, <2>2 DEF Sends, Silent
  <1>6. CASE Reconnect(d)
    BY <1>6, LeavingAllSends DEF Reconnect
  <1> QED
    BY <1>1, <1>2, <1>3, <1>4, <1>5, <1>6, ConnectSends, MembershipSends DEF UserCommand, ClientStep


\* Without faults every client stays findable at every server that runs.
AllFindable == \A s \in Server, c \in Client : up[s] => Findable(s, c)

\* A step of a client, a request, a leave, and all others.
LEMMA ClientFindable ==
  ASSUME TypeInv, ConnectionInv, AllFindable, far = {}, NEW d \in Client,
         UserCommand(d) \/ ClientStep(d) \/ Reconnect(d)
  PROVE  AllFindable'
PROOF
  <1> SUFFICES ASSUME NEW s \in Server, NEW c \in Client, up'[s] PROVE Findable(s, c)'
    BY DEF AllFindable
  <1> DEFINE q == inbox[s]
             P == At(s, c)
  <1>1. /\ UNCHANGED <<client_list, db_list>> /\ up[s]
        /\ c # d => member'[c] = member[c]
    BY OthersSeeNothing DEF SameClient
  <1>2. Sends(d, s)
    BY ClientSends
  <1>3. q \in Seq(ServerMessage)
    BY BoxAt DEF TypeInv
  <1>4. Findable(s, c) /\ LeavesFind(q, c, P) /\ (s \in member[c] => EndPlace(q, c, P) # {})
    BY <1>1 DEF AllFindable, Findable
  <1>5. At(s, c)' = P
    BY <1>1, StaysWhenSame DEF Stays
  <1> HIDE DEF P
  <1>6. CASE c # d
    <2>1. \/ inbox'[s] = inbox[s]
          \/ \E m \in ServerMessage : ~ IsMove(m, c) /\ inbox'[s] = Append(inbox[s], m)
      BY <1>2, <1>6, Moving, ServerMessages DEF Sends, Silent, Leaves, Requests
    <2> QED
      BY <1>1, <1>4, <1>5, <1>6, <2>1, FindableKept DEF P
  <1>7. CASE c = d /\ Silent(d, s)
    <2>1. s \in member'[c] => s \in member[c]
      BY <1>1, <1>7 DEF Silent, Together
    <2> QED
      BY <1>4, <1>5, <1>7, <2>1, FindableKept DEF P, Silent
  <1>8. ASSUME c = d, NEW m \in ServerMessage, inbox'[s] = Append(q, m),
               IsMove(m, c) /\ m.type = "Left" => s \in member[c],
               s \in member'[c] => IF IsMove(m, c) THEN After(m) # {} ELSE s \in member[c]
        PROVE  Findable(s, c)'
    <2>1. LeavesFind(Append(q, m), c, P)
      BY <1>3, <1>4, <1>8, FindsAppend
    <2>2. EndPlace(Append(q, m), c, P) = IF IsMove(m, c) THEN After(m) ELSE EndPlace(q, c, P)
      BY <1>3, PlaceAppend
    <2>3. Append(q, m) \in Seq(ServerMessage)
      BY <1>3, AppendAt
    <2> DEFINE a == Append(q, m)
    <2>4. /\ a \in Seq(ServerMessage) /\ inbox'[s] = a /\ LeavesFind(a, c, P)
          /\ s \in member'[c] => EndPlace(a, c, P) # {}
      BY <1>4, <1>8, <2>1, <2>2, <2>3
    <2> HIDE DEF a
    <2> QED
      BY <1>5, <2>4, FindableAfter
  <1>9. CASE c = d /\ Leaves(d, s)
    <2>1. Left(d) \in ServerMessage
      BY ServerMessages
    <2> QED
      BY <1>8, <1>9, <2>1 DEF Leaves
  <1>10. CASE c = d /\ Requests(d, s)
    <2>1. PICK m \in RequestMessage : /\ m.client = d /\ inbox'[s] = Append(q, m)
                                      /\ m.op = "c" \/ (s \in member'[d] => s \in member[d])
      BY <1>10 DEF Requests
    <2>2. m \in ServerMessage /\ m.type # "Left" /\ (IsMove(m, c) <=> m.op \in {"c", "j"})
      BY <1>10, <2>1, Moving, ServerMessages
    <2>3. After(m) # {}
      <3>1. After(m) = IF m.op = "c" THEN {NoBoard} ELSE {m.db_name}
        BY Moving
      <3> QED
        BY <3>1
    <2> QED
      BY <1>8, <1>10, <2>1, <2>2, <2>3
  <1> QED
    BY <1>2, <1>6, <1>7, <1>9, <1>10 DEF Sends

\* The request that server s handles: the first of its messages or of its queue.
LEMMA HandlerCase ==
  ASSUME TypeInv, NEW s \in Server, RecvRequest(s) \/ Drain(s)
  PROVE  \E r \in RequestMessage, box \in {inbox, Received(s)} :
           /\ IsBox(box) /\ HandleClientReq(s, r, box) /\ UNCHANGED <<clientVars, member, far>>
           /\ \A u \in Server : u # s => box[u] = inbox[u]
           /\ \A c \in Client : box[c] = inbox[c]
           /\ \/ box[s] = inbox[s] /\ queue[s] # <<>> /\ r = Head(queue[s])
              \/ inbox[s] # <<>> /\ box[s] = Tail(inbox[s]) /\ r = Head(inbox[s])
PROOF
  <1>1. VariableType /\ QueueType /\ IsBox(inbox)
    BY DEF TypeInv
  <1>2. CASE Drain(s)
    <2>1. queue[s] \in Seq(RequestMessage) /\ queue[s] # <<>>
      BY <1>1, <1>2 DEF Drain, QueueType
    <2>2. Head(queue[s]) \in RequestMessage
      BY <2>1, TailAt
    <2> QED
      BY <1>1, <1>2, <2>1, <2>2 DEF Drain
  <1>3. CASE RecvRequest(s)
    <2>1. Head(inbox[s]) \in RequestMessage /\ inbox[s] # <<>>
      BY <1>1, <1>3, HeadOfServer, MessageKinds DEF RecvRequest
    <2>2. /\ IsBox(Received(s)) /\ Received(s)[s] = Tail(inbox[s])
          /\ \A u \in Server : u # s => Received(s)[u] = inbox[u]
          /\ \A c \in Client : Received(s)[c] = inbox[c]
      BY <1>1, <2>1, ReceivedAt, Processes
    <2>3. HandleClientReq(s, Head(inbox[s]), Received(s)) /\ UNCHANGED <<clientVars, member, far>>
      BY <1>3 DEF RecvRequest
    <2> QED
      BY <2>1, <2>2, <2>3
  <1> QED
    BY <1>2, <1>3

LEMMA HandlerFindable ==
  ASSUME TypeInv, AllFindable, NEW s \in Server, RecvRequest(s) \/ Drain(s)
  PROVE  AllFindable'
PROOF
  <1> SUFFICES ASSUME NEW t \in Server, NEW c \in Client, up'[t] PROVE Findable(t, c)'
    BY DEF AllFindable
  <1>1. VariableType /\ ListType /\ FileType /\ IsBox(inbox)
    BY DEF TypeInv
  <1>2. PICK r \in RequestMessage, box \in {inbox, Received(s)} :
          /\ IsBox(box) /\ HandleClientReq(s, r, box) /\ UNCHANGED <<member, far>>
          /\ \A u \in Server : u # s => box[u] = inbox[u]
          /\ \/ box[s] = inbox[s] /\ queue[s] # <<>> /\ r = Head(queue[s])
             \/ inbox[s] # <<>> /\ box[s] = Tail(inbox[s]) /\ r = Head(inbox[s])
    BY HandlerCase
  <1> DEFINE Drains == box[s] = inbox[s]
  <1>3. /\ \A u \in Server : \/ inbox'[u] = box[u]
                             \/ \E w \in UpdateMessage : inbox'[u] = Append(box[u], w)
    BY <1>1, <1>2, HandlerBox
  <1>4. up[t] /\ (t = s => ~ (r.op = "j" /\ JoinFails(s, r)))
    <2>1. /\ \A p \in Proc : p # s => up'[p] = up[p]
          /\ up'[s] => up[s] /\ ~ (r.op = "j" /\ JoinFails(s, r))
      BY <1>1, <1>2, HandlerVariables
    <2> QED
      BY <2>1, Processes
  <1>5. Findable(t, c)
    BY <1>4 DEF AllFindable
  <1>6. /\ t # s \/ c # r.client \/ r.op \notin {"c", "j"} => At(t, c)' = At(t, c)
        /\ t = s /\ c = r.client /\ r.op \in {"c", "j"} => At(t, c)' # {}
    <2>1. /\ \A u \in Server, e \in Client : u # s \/ e # r.client => Stays(u, e)
          /\ r.op \notin {"c", "j"} => \A e \in Client : Stays(s, e)
          /\ r.op = "c" => At(s, r.client)' = At(s, r.client) \cup {NoBoard}
          /\ r.op = "j" /\ ~ JoinFails(s, r) => r.db_name \in At(s, r.client)'
      BY <1>1, <1>2, HandlerAt
    <2>2. t # s \/ c # r.client \/ r.op \notin {"c", "j"} => At(t, c)' = At(t, c)
      BY <2>1 DEF Stays
    <2>3. ASSUME t = s, c = r.client, r.op \in {"c", "j"} PROVE At(t, c)' # {}
      BY <1>4, <2>1, <2>3
    <2> QED
      BY <2>2, <2>3
  <1>7. \A w \in UpdateMessage : w \in ServerMessage /\ ~ IsMove(w, c)
    BY Moving, ServerMessages
  <1>8. CASE t # s \/ Drains
    <2>1. box[t] = inbox[t]
      BY <1>2, <1>8
    <2>2. \/ inbox'[t] = inbox[t]
          \/ \E m \in ServerMessage : ~ IsMove(m, c) /\ inbox'[t] = Append(inbox[t], m)
      BY <1>3, <1>7, <2>1
    <2> QED
      BY <1>2, <1>5, <1>6, <2>2, FindableKept
  <1>9. CASE t = s /\ ~ Drains
    <2>1. inbox[s] # <<>> /\ box[s] = Tail(inbox[s]) /\ r = Head(inbox[s])
      BY <1>2, <1>9
    <2>2. \/ inbox'[t] = Tail(inbox[t])
          \/ \E u \in UpdateMessage : inbox'[t] = Append(Tail(inbox[t]), u)
      BY <1>3, <1>9, <2>1
    <2>3. IsMove(r, c) <=> r.client = c /\ r.op \in {"c", "j"}
      BY <1>2, Moving
    <2>4. IF IsMove(Head(inbox[t]), c) THEN After(Head(inbox[t])) # {} => At(t, c)' # {}
          ELSE At(t, c) # {} => At(t, c)' # {}
      BY <1>6, <1>9, <2>1, <2>3
    <2> QED
      BY <1>2, <1>5, <1>9, <2>1, <2>2, <2>4, FindableRead
  <1> QED
    BY <1>8, <1>9

LEMMA LeaveFindable ==
  ASSUME TypeInv, AllFindable, NEW s \in Server, RecvLeave(s)
  PROVE  AllFindable'
PROOF
  <1> SUFFICES ASSUME NEW t \in Server, NEW c \in Client, up'[t] PROVE Findable(t, c)'
    BY DEF AllFindable
  <1>1. VariableType /\ ListType /\ IsBox(inbox) /\ UNCHANGED member
    BY DEF TypeInv, RecvLeave
  <1>2. /\ inbox[s] # <<>> /\ Head(inbox[s]) \in ServerMessage /\ Head(inbox[s]).type = "Left"
    BY <1>1, HeadOfServer DEF RecvLeave
  <1>3. /\ Head(inbox[s]).client \in Client /\ Head(inbox[s]) = Left(Head(inbox[s]).client)
    BY <1>2, MessageKinds
  <1>4. PICK d \in Client : d = Head(inbox[s]).client
    BY <1>3
  <1>5. /\ IsBox(Received(s)) /\ Received(s)[s] = Tail(inbox[s])
        /\ \A u \in Server : u # s => Received(s)[u] = inbox[u]
    BY <1>1, <1>2, ReceivedAt, Processes
  <1>6. inbox'[t] = Received(s)[t]
    <2>1. inbox' = Received(s) \/ inbox' = ServerLeaves(Received(s), s, d)
      BY <1>4 DEF RecvLeave
    <2>2. ServerLeaves(Received(s), s, d)[t] = Received(s)[t]
      BY <1>5, ServerLeavesAt, Processes
    <2> QED
      BY <2>1, <2>2
  <1>7. up[t]
    BY <1>1, Processes DEF RecvLeave, Exit, VariableType
  <1>8. Findable(t, c)
    BY <1>7 DEF AllFindable
  <1>9. CASE t # s
    <2>1. inbox'[t] = inbox[t]
      BY <1>5, <1>6, <1>9
    <2>2. At(t, c)' = At(t, c)
      <3>1. \/ client_list' = client_list
            \/ \E list : client_list' = [client_list EXCEPT ![s] = list]
        BY DEF RecvLeave
      <3>2. \/ db_list' = db_list
            \/ \E list : db_list' = [db_list EXCEPT ![s] = list]
        BY DEF RecvLeave
      <3>3. client_list'[t] = client_list[t] /\ db_list'[t] = db_list[t]
        BY <1>1, <1>9, <3>1, <3>2 DEF ListType
      <3> QED
        BY <3>3, StaysWhenSame DEF Stays
    <2> QED
      BY <1>1, <1>8, <2>1, <2>2, FindableKept
  <1>10. CASE t = s
    <2>1. /\ \A e \in Client : e # d => Stays(s, e)
      BY <1>1, <1>4, <1>10, LeaveAt
    <2>2. inbox'[s] = Tail(inbox[s])
      BY <1>5, <1>6, <1>10
    <2>3. (IsMove(Head(inbox[s]), c) <=> c = d) /\ (c = d => After(Head(inbox[s])) = {})
      BY <1>3, <1>4, Moving
    <2>4. IF IsMove(Head(inbox[s]), c) THEN After(Head(inbox[s])) # {} => At(s, c)' # {}
          ELSE At(s, c) # {} => At(s, c)' # {}
      BY <2>1, <2>3 DEF Stays
    <2> QED
      BY <1>1, <1>2, <1>8, <1>10, <2>2, <2>4, FindableRead
  <1> QED
    BY <1>9, <1>10

\* Updates, synchronisations and exits move nobody.
LEMMA UpdateFindable ==
  ASSUME TypeInv, AllFindable, NEW s \in Server,
         \/ RecvOwnUpdate(s) \/ StartSync(s) \/ EndSync(s) \/ Crash(s) \/ Disconnect(s)
         \/ \E u \in NewsFor(s) : News(s, u)
  PROVE  AllFindable'
PROOF
  <1> SUFFICES ASSUME NEW t \in Server, NEW c \in Client, up'[t] PROVE Findable(t, c)'
    BY DEF AllFindable
  <1>1. VariableType /\ ListType /\ FileType /\ IsBox(inbox)
    BY DEF TypeInv
  <1>2. UNCHANGED <<member, client_list, db_list>>
    BY DEF RecvOwnUpdate, StartSync, EndSync, Crash, Disconnect, News, serverVars, netVars
  <1>3. up[t]
    BY <1>1, Processes DEF RecvOwnUpdate, StartSync, EndSync, Crash, Exit, Disconnect, News, VariableType
  <1>4. Findable(t, c) /\ At(t, c)' = At(t, c)
    BY <1>2, <1>3, StaysWhenSame DEF AllFindable, Stays
  <1>5. ASSUME inbox'[t] = inbox[t] PROVE Findable(t, c)'
    BY <1>2, <1>4, <1>5, FindableKept
  <1>6. CASE RecvOwnUpdate(s)
    <2> DEFINE u == Head(inbox[s])
    <2>1. u \in UpdateMessage /\ inbox[s] # <<>>
      BY <1>1, <1>6, HeadOfServer, MessageKinds DEF RecvOwnUpdate
    <2>2. inbox' = Received(s) \/ inbox' = Serve(Received(s), s, u)
      BY <1>6 DEF RecvOwnUpdate
    <2>3. ~ IsMove(u, c)
      BY <2>1, Moving
    <2> HIDE DEF u
    <2>4. /\ IsBox(Received(s)) /\ Received(s)[s] = Tail(inbox[s])
          /\ t # s => Received(s)[t] = inbox[t]
      BY <1>1, <2>1, ReceivedAt, Processes
    <2>5. Serve(Received(s), s, u)[t] = Received(s)[t]
      BY <1>1, <2>1, <2>4, ServeAt, Processes
    <2>6. inbox'[t] = Received(s)[t]
      BY <2>2, <2>5
    <2>7. CASE t = s
      <3>1. inbox'[s] = Tail(inbox[s]) /\ ~ IsMove(Head(inbox[s]), c)
        BY <2>3, <2>4, <2>6, <2>7 DEF u
      <3>2. IF IsMove(Head(inbox[s]), c) THEN After(Head(inbox[s])) # {} => At(s, c)' # {}
            ELSE At(s, c) # {} => At(s, c)' # {}
        BY <1>4, <2>7, <3>1
      <3> QED
        BY <1>2, <1>4, <2>1, <2>7, <3>1, <3>2, FindableRead
    <2> QED
      BY <1>5, <2>4, <2>6, <2>7
  <1>7. CASE StartSync(s) \/ EndSync(s) \/ Crash(s)
    BY <1>5, <1>7 DEF StartSync, EndSync, Crash
  <1>8. CASE Disconnect(s)
    <2>1. ~ up[s]
      BY <1>8 DEF Disconnect
    <2> QED
      BY <1>3, <1>5, <1>8, <2>1, DisconnectAt
  <1>9. ASSUME NEW u \in NewsFor(s), News(s, u) PROVE Findable(t, c)'
    <2>1. u \in UpdateMessage /\ inbox' = Serve(inbox, s, u)
      BY <1>1, <1>9, NewsUpdates DEF News
    <2>2. inbox'[t] = inbox[t]
      BY <1>1, <2>1, ServeAt, Processes
    <2> QED
      BY <1>5, <2>2
  <1> QED
    BY <1>6, <1>7, <1>8, <1>9

\* Disturbances are remembered.
LEMMA Disturbances ==
  ASSUME [Next]_vars
  PROVE  /\ disturbed \subseteq disturbed'
         /\ \A c \in Client : Reconnect(c) => "fault" \in disturbed'
         /\ \A A \in SUBSET Proc : Partition(A) => "fault" \in disturbed'
         /\ \A s \in Server : Crash(s) => "crash" \in disturbed'
         /\ \A s \in Server : StartSync(s) => "sync" \in disturbed'
PROOF
  <1>1. ASSUME NEW c \in Client, UserCommand(c) \/ ClientStep(c) PROVE UNCHANGED disturbed
    BY <1>1 DEF UserCommand, Connect, Join, JoinRefused, Post, Change, Quit, AskView, Command, ClientStep,
                RecvResponse, RecvMembership, boundVars
  <1>2. ASSUME NEW s \in Server, ServerStep(s) \/ EndSync(s) \/ Disconnect(s) PROVE UNCHANGED disturbed
    BY <1>2 DEF ServerStep, RecvRequest, RecvOwnUpdate, RecvLeave, Drain, EndSync, Disconnect, boundVars
  <1>3. ASSUME NEW s \in Server, StartSync(s) \/ Crash(s) \/ \E u \in NewsFor(s) : News(s, u)
        PROVE  disturbed \subseteq disturbed'
    BY <1>3 DEF StartSync, Crash, News, Happens
  <1>4. ASSUME Next PROVE disturbed \subseteq disturbed'
    BY <1>1, <1>2, <1>3, <1>4 DEF Next, Reconnect, Partition, Happens
  <1>5. ASSUME UNCHANGED vars PROVE disturbed \subseteq disturbed'
    BY <1>5 DEF vars, boundVars
  <1>6. disturbed \subseteq disturbed'
    BY <1>4, <1>5
  <1>7. ASSUME NEW kinds, Happens(kinds) PROVE \A k \in kinds : k \in disturbed'
    BY <1>7 DEF Happens
  <1>8. \A c \in Client : Reconnect(c) => "fault" \in disturbed'
    BY <1>7 DEF Reconnect
  <1>9. \A A \in SUBSET Proc : Partition(A) => "fault" \in disturbed'
    BY <1>7 DEF Partition
  <1>10. \A s \in Server : (Crash(s) => "crash" \in disturbed') /\ (StartSync(s) => "sync" \in disturbed')
    BY <1>7 DEF Crash, StartSync
  <1> QED
    BY <1>6, <1>8, <1>9, <1>10

\* Every step keeps a place for each leave.
LEMMA LeaveStep == TypeInv /\ ConnectionInv /\ LeaveInv /\ [Next]_vars => LeaveInv'
PROOF
  <1> SUFFICES ASSUME TypeInv, ConnectionInv, LeaveInv, [Next]_vars, "fault" \notin disturbed'
               PROVE  far' = {} /\ AllFindable'
    BY DEF LeaveInv, AllFindable
  <1>1. far = {} /\ AllFindable
    BY Disturbances DEF LeaveInv, AllFindable
  <1>2. ASSUME NEW c \in Client, UserCommand(c) \/ ClientStep(c) \/ Reconnect(c)
        PROVE  far' = {} /\ AllFindable'
    BY <1>1, <1>2, ClientFindable, OthersSeeNothing
  <1>3. ASSUME NEW s \in Server,
               ServerStep(s) \/ StartSync(s) \/ EndSync(s) \/ Crash(s) \/ Disconnect(s)
        PROVE  far' = {} /\ AllFindable'
    <2>1. UNCHANGED far
      BY <1>3 DEF ServerStep, RecvRequest, RecvOwnUpdate, RecvLeave, Drain, StartSync, EndSync, Crash,
                  Disconnect, netVars
    <2> QED
      BY <1>1, <1>3, <2>1, HandlerFindable, LeaveFindable, UpdateFindable DEF ServerStep
  <1>4. ASSUME NEW s \in Server, NEW u \in NewsFor(s), News(s, u) PROVE far' = {} /\ AllFindable'
    BY <1>1, <1>4, UpdateFindable DEF News, netVars
  <1>5. ASSUME NEW A \in SUBSET Proc, Partition(A) PROVE FALSE
    BY <1>5, Disturbances
  <1>6. CASE UNCHANGED vars
    <2>1. UNCHANGED <<up, inbox, member, far, client_list, db_list>>
      BY <1>6 DEF vars, netVars, serverVars
    <2> SUFFICES ASSUME NEW s \in Server, NEW c \in Client, up'[s] PROVE Findable(s, c)'
      BY <1>1, <2>1 DEF AllFindable
    <2>2. Findable(s, c) /\ At(s, c)' = At(s, c)
      BY <1>1, <2>1, StaysWhenSame DEF AllFindable, Stays
    <2> QED
      BY <2>1, <2>2, FindableKept
  <1> QED
    BY <1>2, <1>3, <1>4, <1>5, <1>6 DEF Next

LEMMA LeaveInit == Init => LeaveInv
PROOF
  <1> SUFFICES ASSUME Init PROVE LeaveInv
    OBVIOUS
  <1>1. ASSUME NEW s \in Server, NEW c \in Client PROVE Findable(s, c)
    <2>1. inbox[s] = <<>> /\ member[c] = {}
      BY Processes DEF Init
    <2>2. DOMAIN inbox[s] = {}
      BY <2>1, EmptySeq
    <2> HIDE DEF Init
    <2> QED
      BY <2>1, <2>2 DEF Findable, LeavesFind, Moves
  <1> QED
    BY <1>1 DEF Init, LeaveInv

\* With it the third part of the invariant holds over every behaviour.
LEMMA LeaveHolds == Spec => [](TypeInv /\ ConnectionInv /\ LeaveInv)
PROOF
  <1>1. Init => TypeInv /\ ConnectionInv /\ LeaveInv
    BY TypeInit, ConnectionInit, LeaveInit
  <1>2. TypeInv /\ ConnectionInv /\ LeaveInv /\ [Next]_vars => (TypeInv /\ ConnectionInv /\ LeaveInv)'
    BY TypeStep, ConnectionStep, LeaveStep
  <1> QED
    BY <1>1, <1>2, PTL DEF Spec

\* While there are no faults, remove_client finds the client that left on one of the
\* lists, however connects, joins, leaves and replayed requests follow one another: it
\* never follows a null pointer.
THEOREM LeavesFindClients == Spec => []RemoveFindsClient
PROOF
  <1>1. ASSUME TypeInv, LeaveInv, "fault" \notin disturbed, NEW s \in Server, Receives(s, "Left"),
               NEW c, c = Head(inbox[s]).client
        PROVE  NodesWith(s, c) # {} \/ c \in ToSet(client_list[s])
    <2> DEFINE q == inbox[s]
               P == At(s, c)
    <2>1. /\ up[s] /\ q # <<>> /\ q \in Seq(ServerMessage)
          /\ Head(q) \in ServerMessage /\ Head(q).type = "Left"
      BY <1>1, HeadOfServer DEF TypeInv
    <2>2. c \in Client
      BY <1>1, <2>1, MessageKinds
    <2>3. LeavesFind(q, c, P)
      BY <1>1, <2>1, <2>2 DEF LeaveInv, Findable
    <2>4. 1 \in DOMAIN q /\ q[1] = Head(q)
      BY <2>1, TailAt
    <2>5. IsMove(Head(q), c)
      BY <1>1, <2>1 DEF IsMove
    <2> HIDE DEF P
    <2>6. 1 \in Moves(q, c)
      BY <2>4, <2>5 DEF Moves
    <2>7. PlaceBefore(q, c, P, 1) # {}
      BY <2>1, <2>3, <2>4, <2>6 DEF LeavesFind
    <2>8. PlaceBefore(q, c, P, 1) = P
      <3> DEFINE Q == IF IsMove(Head(q), c) THEN After(Head(q)) ELSE P
      <3>1. Q = IF IsMove(Head(q), c) THEN After(Head(q)) ELSE P
        OBVIOUS
      <3> HIDE DEF Q
      <3> QED
        BY <2>1, <3>1, PlaceTail
    <2>9. At(s, c) # {}
      BY <2>7, <2>8 DEF P
    <2> QED
      BY <2>9 DEF At
  <1>2. TypeInv /\ LeaveInv => RemoveFindsClient
    <2> SUFFICES ASSUME TypeInv, LeaveInv, "fault" \notin disturbed, NEW s \in Server,
                        Receives(s, "Left")
                 PROVE  LET c == Head(inbox[s]).client IN
                          NodesWith(s, c) # {} \/ c \in ToSet(client_list[s])
      BY DEF RemoveFindsClient
    <2> QED
      BY <1>1
  <1> QED
    BY <1>2, LeaveHolds, PTL

--------------------------------------------------------------------------------
(* A client whose user waits: what it is told *)

\* At most one message on its way says that both are in a group.
LEMMA OneTwoIs ==
  ASSUME NEW q, NEW s
  PROVE  OneTwo(q, s) <=> /\ \A i, j \in Twos(q, s) : i = j
                          /\ \A i \in About(q, s) : q[i].cause # "gone"
PROOF
  BY DEF OneTwo

\* What a client reads takes nothing away from this.
LEMMA OneTwoTail ==
  ASSUME NEW q \in Seq(ClientMessage), q # <<>>, NEW s, OneTwo(q, s)
  PROVE  /\ OneTwo(Tail(q), s)
         /\ Twos(Tail(q), s) # {} => Twos(q, s) # {}
         /\ Twos(q, s) # {} => 1 \in Twos(q, s) \/ Twos(Tail(q), s) # {}
         /\ 1 \in Twos(q, s) => Twos(Tail(q), s) = {}
         /\ IsAbout(Head(q), s) => Head(q).cause # "gone"
PROOF
  <1> DEFINE t == Tail(q)
  <1>1. /\ \A i \in DOMAIN t : t[i] = q[i + 1] /\ i + 1 \in DOMAIN q /\ i \in Nat
        /\ \A i : i \in About(t, s) <=> i \in Nat \ {0} /\ i + 1 \in About(q, s)
        /\ \A i : i \in Twos(t, s) <=> i \in Nat \ {0} /\ i + 1 \in Twos(q, s)
        /\ 1 \in About(q, s) <=> IsAbout(Head(q), s)
        /\ \A i \in About(q, s) : i \in Nat \ {0} /\ (i = 1 \/ i - 1 \in About(t, s))
    BY AboutTail
  <1>2. q[1] = Head(q)
    BY TailAt
  <1> HIDE DEF t
  <1>3. /\ \A i, j \in Twos(q, s) : i = j
        /\ \A i \in About(q, s) : q[i].cause # "gone"
    BY OneTwoIs
  <1>4. ASSUME NEW i \in Twos(t, s), NEW j \in Twos(t, s) PROVE i = j
    <2>1. i \in Nat /\ j \in Nat /\ i + 1 = j + 1
      BY <1>1, <1>3
    <2> QED
      BY <2>1
  <1>5. ASSUME NEW i \in About(t, s) PROVE t[i].cause # "gone"
    <2>1. i \in DOMAIN t
      BY AboutIs
    <2> QED
      BY <1>1, <1>3, <2>1
  <1>6. ASSUME Twos(q, s) # {}, 1 \notin Twos(q, s) PROVE Twos(t, s) # {}
    <2>1. PICK i \in Twos(q, s) : i # 1
      BY <1>6
    <2>2. i \in Nat \ {0}
      BY <1>1, AboutIs
    <2>3. i - 1 \in Nat \ {0} /\ (i - 1) + 1 = i
      BY <2>1, <2>2
    <2>4. i - 1 \in Twos(t, s)
      BY <1>1, <2>3
    <2> QED
      BY <2>4
  <1>7. ASSUME 1 \in Twos(q, s), NEW i \in Twos(t, s) PROVE FALSE
    <2>1. i \in Nat \ {0} /\ i + 1 = 1
      BY <1>1, <1>3, <1>7
    <2> QED
      BY <2>1
  <1>8. IsAbout(Head(q), s) => Head(q).cause # "gone"
    BY <1>1, <1>2, <1>3
  <1>9. OneTwo(t, s)
    BY <1>4, <1>5, OneTwoIs
  <1> QED
    BY <1>1, <1>6, <1>7, <1>8, <1>9 DEF t

\* One message more, or responses.
LEMMA OneTwoAppend ==
  ASSUME NEW q \in Seq(ClientMessage), NEW m \in ClientMessage, NEW s, OneTwo(q, s),
         IsAbout(m, s) => m.cause # "gone" /\ (m.members = 2 => Twos(q, s) = {})
  PROVE  /\ OneTwo(Append(q, m), s)
         /\ Twos(Append(q, m), s) # {} <=> Twos(q, s) # {} \/ (IsAbout(m, s) /\ m.members = 2)
PROOF
  <1> DEFINE a == Append(q, m)
             n == Len(q) + 1
  <1>1. /\ IsAbout(m, s) => /\ About(a, s) = About(q, s) \cup {n}
                            /\ m.members = 2 => Twos(a, s) = Twos(q, s) \cup {n}
                            /\ m.members # 2 => Twos(a, s) = Twos(q, s)
        /\ ~ IsAbout(m, s) => About(a, s) = About(q, s) /\ Twos(a, s) = Twos(q, s)
    BY AboutAppend
  <1>2. DOMAIN q = 1 .. Len(q) /\ (\A i \in 1 .. Len(q) : a[i] = q[i]) /\ a[n] = m
    BY AppendAt
  <1> HIDE DEF a, n
  <1>3. /\ \A i, j \in Twos(q, s) : i = j
        /\ \A i \in About(q, s) : q[i].cause # "gone"
    BY OneTwoIs
  <1>4. \A i, j \in Twos(a, s) : i = j
    BY <1>1, <1>3
  <1>5. ASSUME NEW i \in About(a, s) PROVE a[i].cause # "gone"
    <2>1. CASE i \in About(q, s)
      BY <1>2, <1>3, <2>1, AboutIs
    <2>2. CASE i \notin About(q, s)
      BY <1>1, <1>2, <2>2
    <2> QED
      BY <2>1, <2>2
  <1>6. OneTwo(a, s)
    BY <1>4, <1>5, OneTwoIs
  <1> QED
    BY <1>1, <1>6 DEF a

LEMMA OneTwoConcat ==
  ASSUME NEW q \in Seq(ClientMessage), NEW w \in Seq(ClientMessage), NEW s, OneTwo(q, s),
         \A i \in DOMAIN w : w[i].type = "Response"
  PROVE  OneTwo(q \o w, s) /\ Twos(q \o w, s) = Twos(q, s)
PROOF
  <1> DEFINE a == q \o w
  <1>1. About(a, s) = About(q, s) /\ Twos(a, s) = Twos(q, s)
    BY AboutResponses, AboutConcat
  <1>2. DOMAIN q = 1 .. Len(q) /\ \A i \in 1 .. Len(q) : a[i] = q[i]
    BY ConcatAt
  <1> HIDE DEF a
  <1>3. /\ \A i, j \in Twos(q, s) : i = j
        /\ \A i \in About(q, s) : q[i].cause # "gone"
    BY OneTwoIs
  <1>4. \A i \in About(a, s) : a[i].cause # "gone"
    BY <1>1, <1>2, <1>3, AboutIs
  <1>5. OneTwo(a, s)
    BY <1>1, <1>3, <1>4, OneTwoIs
  <1> QED
    BY <1>1, <1>5 DEF a

\* Client c reads a response or is sent some, or nothing happens to its messages.
OnlyResponses(c) ==
  \/ inbox'[c] = inbox[c]
  \/ inbox'[c] = Tail(inbox[c]) /\ inbox[c] # <<>> /\ Head(inbox[c]).type = "Response"
  \/ \E w \in Seq(ClientMessage) : /\ \A i \in DOMAIN w : w[i].type = "Response"
                                   /\ inbox'[c] = inbox[c] \o w
  \/ \E m \in ClientMessage : m.type = "Response" /\ inbox'[c] = Append(inbox[c], m)

\* Responses say nothing about a group.
LEMMA ResponsesTell ==
  ASSUME TypeInv, NEW c \in Client, OnlyResponses(c), NEW s, OneTwo(inbox[c], s)
  PROVE  OneTwo(inbox'[c], s) /\ (Twos(inbox'[c], s) # {} <=> Twos(inbox[c], s) # {})
PROOF
  <1> DEFINE q == inbox[c]
  <1>1. q \in Seq(ClientMessage)
    BY BoxAt DEF TypeInv
  <1>2. CASE inbox'[c] = q
    BY <1>2
  <1>3. CASE inbox'[c] = Tail(q) /\ q # <<>> /\ Head(q).type = "Response"
    <2>1. ~ IsAbout(Head(q), s)
      BY <1>3 DEF IsAbout
    <2>2. 1 \notin Twos(q, s)
      BY <1>1, <1>3, <2>1, AboutTail
    <2> QED
      BY <1>1, <1>3, <2>2, OneTwoTail
  <1>4. CASE \E w \in Seq(ClientMessage) : /\ \A i \in DOMAIN w : w[i].type = "Response"
                                           /\ inbox'[c] = q \o w
    BY <1>1, <1>4, OneTwoConcat
  <1>5. CASE \E m \in ClientMessage : m.type = "Response" /\ inbox'[c] = Append(q, m)
    <2>1. PICK m \in ClientMessage : m.type = "Response" /\ inbox'[c] = Append(q, m)
      BY <1>5
    <2>2. ~ IsAbout(m, s)
      BY <2>1 DEF IsAbout
    <2> QED
      BY <1>1, <2>1, <2>2, OneTwoAppend
  <1> QED
    BY <1>2, <1>3, <1>4, <1>5 DEF OnlyResponses

LEMMA ToldKept ==
  ASSUME TypeInv, NEW c \in Client, NEW s \in Server, ToldOnce(c, s),
         OneTwo(inbox'[c], s), Twos(inbox'[c], s) # {} => Twos(inbox[c], s) # {},
         client_server_group'[c] = client_server_group[c],
         client_connected'[c] = client_connected[c], c \in joined[s] => c \in joined'[s]
  PROVE  ToldOnce(c, s)'
PROOF
  BY DEF ToldOnce, OneTwo, Twos, About

LEMMA ToldAppend ==
  ASSUME TypeInv, NEW c \in Client, NEW s \in Server, ToldOnce(c, s), NEW m \in ClientMessage,
         inbox'[c] = Append(inbox[c], m), ~ IsAbout(m, s),
         client_server_group'[c] = client_server_group[c],
         client_connected'[c] = client_connected[c], c \in joined[s] => c \in joined'[s]
  PROVE  ToldOnce(c, s)'
PROOF
  <1>1. inbox[c] \in Seq(ClientMessage) /\ OneTwo(inbox[c], s)
    BY BoxAt DEF TypeInv, ToldOnce
  <1>2. OneTwo(Append(inbox[c], m), s) /\ (Twos(Append(inbox[c], m), s) # {} <=> Twos(inbox[c], s) # {})
    BY <1>1, OneTwoAppend
  <1> QED
    BY <1>2, ToldKept

--------------------------------------------------------------------------------
(* A client whose user waits: where it is *)

\* That each move fits the place before it is kept when messages come and go.
LEMMA FitsAppend ==
  ASSUME NEW q \in Seq(ServerMessage), NEW m \in ServerMessage, NEW c, NEW P, AllFit(q, c, P),
         IsMove(m, c) => Fits(m, EndPlace(q, c, P))
  PROVE  AllFit(Append(q, m), c, P)
PROOF
  <1> DEFINE a == Append(q, m)
             n == Len(q) + 1
  <1>1. /\ \A i \in 1 .. Len(q) : a[i] = q[i]
        /\ a[n] = m
    BY AppendAt
  <1>2. /\ \A i \in 1 .. Len(q) : PlaceBefore(a, c, P, i) = PlaceBefore(q, c, P, i)
        /\ PlaceBefore(a, c, P, n) = EndPlace(q, c, P)
        /\ \A i : i \in Moves(a, c) <=> i \in Moves(q, c) \/ (i = n /\ IsMove(m, c))
    BY PlaceAppend
  <1>3. \A i \in Moves(q, c) : i \in 1 .. Len(q)
    BY MovesAre
  <1> HIDE DEF a, n
  <1>4. ASSUME NEW i \in Moves(a, c) PROVE Fits(a[i], PlaceBefore(a, c, P, i))
    <2>1. CASE i \in Moves(q, c)
      <3>1. a[i] = q[i] /\ PlaceBefore(a, c, P, i) = PlaceBefore(q, c, P, i)
        BY <1>1, <1>2, <1>3, <2>1
      <3>2. Fits(q[i], PlaceBefore(q, c, P, i))
        BY <2>1 DEF AllFit
      <3> QED
        BY <3>1, <3>2
    <2>2. CASE i = n /\ IsMove(m, c)
      BY <1>1, <1>2, <1>4, <2>2
    <2> QED
      BY <1>2, <1>4, <2>1, <2>2
  <1> QED
    BY <1>4 DEF AllFit, a

LEMMA FitsTail ==
  ASSUME NEW q \in Seq(ServerMessage), q # <<>>, NEW c, NEW P, AllFit(q, c, P), NEW Q,
         Q = IF IsMove(Head(q), c) THEN After(Head(q)) ELSE P
  PROVE  /\ AllFit(Tail(q), c, Q) /\ EndPlace(Tail(q), c, Q) = EndPlace(q, c, P)
         /\ IsMove(Head(q), c) => Fits(Head(q), P)
PROOF
  <1> DEFINE t == Tail(q)
  <1>1. /\ \A i \in 1 .. Len(q) - 1 : PlaceBefore(t, c, Q, i) = PlaceBefore(q, c, P, i + 1)
        /\ EndPlace(t, c, Q) = EndPlace(q, c, P)
        /\ \A i : i \in Moves(t, c) <=> i \in Nat \ {0} /\ i + 1 \in Moves(q, c)
    BY PlaceTail
  <1>6. PlaceBefore(q, c, P, 1) = P
    BY PlaceTail
  <1>2. \A i \in Moves(t, c) : i \in 1 .. Len(q) - 1 /\ t[i] = q[i + 1]
    <2>1. t \in Seq(ServerMessage) /\ Len(t) = Len(q) - 1 /\ Len(q) \in Nat
      BY TailAt
    <2>2. \A i \in 1 .. Len(q) - 1 : t[i] = q[i + 1]
      BY TailAt
    <2> HIDE DEF t
    <2>3. \A i \in Moves(t, c) : i \in Nat \ {0} /\ i <= Len(t)
      BY <2>1, MovesAre
    <2> QED
      BY <2>1, <2>2, <2>3
  <1>3. DOMAIN q = 1 .. Len(q) /\ Len(q) \in Nat /\ Len(q) >= 1 /\ q[1] = Head(q)
    BY TailAt
  <1> HIDE DEF t
  <1>4. ASSUME NEW i \in Moves(t, c) PROVE Fits(t[i], PlaceBefore(t, c, Q, i))
    <2>1. Fits(q[i + 1], PlaceBefore(q, c, P, i + 1))
      BY <1>1, <1>4 DEF AllFit
    <2>2. t[i] = q[i + 1] /\ PlaceBefore(t, c, Q, i) = PlaceBefore(q, c, P, i + 1)
      BY <1>1, <1>2, <1>4
    <2> QED
      BY <2>1, <2>2
  <1>5. ASSUME IsMove(Head(q), c) PROVE Fits(Head(q), P)
    <2>1. 1 \in Moves(q, c)
      BY <1>3, <1>5, MovesAre
    <2>2. Fits(q[1], PlaceBefore(q, c, P, 1))
      BY <2>1 DEF AllFit
    <2> QED
      BY <1>3, <1>6, <2>2
  <1> QED
    BY <1>1, <1>4, <1>5 DEF AllFit, t

\* No leave of client c waits.
NoLeft(q, c) == \A i \in DOMAIN q : q[i] # Left(c)

\* No leave is on its way.
LEMMA NoLeftAppend ==
  ASSUME NEW q \in Seq(ServerMessage), NEW m \in ServerMessage, NEW c, NoLeft(q, c), m # Left(c)
  PROVE  NoLeft(Append(q, m), c)
PROOF
  <1>1. /\ DOMAIN q = 1 .. Len(q) /\ Len(q) \in Nat
        /\ DOMAIN Append(q, m) = 1 .. Len(q) + 1
        /\ \A i \in 1 .. Len(q) : Append(q, m)[i] = q[i]
        /\ Append(q, m)[Len(q) + 1] = m
    BY AppendAt
  <1> QED
    BY <1>1 DEF NoLeft

LEMMA NoLeftTail ==
  ASSUME NEW q \in Seq(ServerMessage), q # <<>>, NEW c, NoLeft(q, c)
  PROVE  NoLeft(Tail(q), c) /\ Head(q) # Left(c)
PROOF
  <1>1. /\ DOMAIN q = 1 .. Len(q) /\ Len(q) \in Nat /\ Len(q) >= 1 /\ q[1] = Head(q)
        /\ DOMAIN Tail(q) = 1 .. Len(q) - 1
        /\ \A i \in 1 .. Len(q) - 1 : Tail(q)[i] = q[i + 1]
    BY TailAt
  <1> QED
    BY <1>1 DEF NoLeft

\* A client is in its place, by parts.
LEMMA InPlaceIs ==
  ASSUME NEW s \in Server, NEW c \in Client
  PROVE  InPlace(s, c) <=>
           /\ c \in joined[s] <=> At(s, c) # {}
           /\ AllFit(inbox[s], c, At(s, c))
           /\ up[c] => EndPlace(inbox[s], c, At(s, c)) = Expected(c, s)
           /\ s \in member[c] => NoLeft(inbox[s], c)
PROOF
  BY DEF InPlace, NoLeft

\* The client is in place after a step that leaves q of the messages to server s and
\* puts it at P.
LEMMA InPlaceAfter ==
  ASSUME NEW s \in Server, NEW c \in Client, NEW q \in Seq(ServerMessage), NEW P,
         inbox'[s] = q, At(s, c)' = P, AllFit(q, c, P), c \in joined'[s] <=> P # {},
         up'[c] => EndPlace(q, c, P) = Expected(c, s)', s \in member'[c] => NoLeft(q, c)
  PROVE  InPlace(s, c)'
PROOF
  <1>1. InPlace(s, c)' <=>
           /\ c \in joined'[s] <=> P # {}
           /\ AllFit(q, c, P)
           /\ up'[c] => EndPlace(q, c, P) = Expected(c, s)'
           /\ s \in member'[c] => NoLeft(q, c)
    BY DEF InPlace, AllFit, EndPlace, PlaceBefore, Moves, IsMove, After, Fits, NoLeft, Left
  <1> QED
    BY <1>1

LEMMA InPlaceKept ==
  ASSUME TypeInv, NEW s \in Server, NEW c \in Client, InPlace(s, c),
         \/ inbox'[s] = inbox[s]
         \/ \E m \in ServerMessage : ~ IsMove(m, c) /\ inbox'[s] = Append(inbox[s], m),
         s \in member'[c] => s \in member[c], up'[c] => up[c] /\ Expected(c, s)' = Expected(c, s),
         At(s, c)' = At(s, c), c \in joined'[s] <=> c \in joined[s]
  PROVE  InPlace(s, c)'
PROOF
  <1> DEFINE q == inbox[s]
             P == At(s, c)
             E == Expected(c, s)
  <1>1. q \in Seq(ServerMessage)
    BY BoxAt DEF TypeInv
  <1>2. /\ c \in joined[s] <=> P # {}
        /\ AllFit(q, c, P)
        /\ up[c] => EndPlace(q, c, P) = E
        /\ s \in member[c] => NoLeft(q, c)
    BY InPlaceIs
  <1>3. At(s, c)' = P /\ (up'[c] => Expected(c, s)' = E)
    OBVIOUS
  <1> HIDE DEF P, E
  <1>4. CASE inbox'[s] = q
    BY <1>1, <1>2, <1>3, <1>4, InPlaceAfter
  <1>5. CASE \E m \in ServerMessage : ~ IsMove(m, c) /\ inbox'[s] = Append(q, m)
    <2>1. PICK m \in ServerMessage : ~ IsMove(m, c) /\ inbox'[s] = Append(q, m)
      BY <1>5
    <2>2. AllFit(Append(q, m), c, P)
      BY <1>1, <1>2, <2>1, FitsAppend
    <2>3. EndPlace(Append(q, m), c, P) = EndPlace(q, c, P)
      BY <1>1, <2>1, PlaceAppend
    <2>4. Append(q, m) \in Seq(ServerMessage)
      BY <1>1, AppendAt
    <2>5. m # Left(c)
      BY <2>1, Moving
    <2>6. s \in member'[c] => NoLeft(Append(q, m), c)
      BY <1>1, <1>2, <2>5, NoLeftAppend
    <2> DEFINE a == Append(q, m)
    <2>7. /\ a \in Seq(ServerMessage) /\ AllFit(a, c, P) /\ EndPlace(a, c, P) = EndPlace(q, c, P)
          /\ s \in member'[c] => NoLeft(a, c)
          /\ inbox'[s] = a
      BY <2>1, <2>2, <2>3, <2>4, <2>6
    <2> HIDE DEF a
    <2> QED
      BY <1>2, <1>3, <2>7, InPlaceAfter
  <1> QED
    BY <1>4, <1>5

\* Client c sends a message that moves it.
LEMMA InPlaceMoved ==
  ASSUME TypeInv, NEW s \in Server, NEW c \in Client, InPlace(s, c),
         NEW m \in ServerMessage, inbox'[s] = Append(inbox[s], m), IsMove(m, c),
         Fits(m, EndPlace(inbox[s], c, At(s, c))), up'[c] => After(m) = Expected(c, s)',
         s \in member'[c] => NoLeft(inbox[s], c) /\ m # Left(c),
         At(s, c)' = At(s, c), c \in joined'[s] <=> c \in joined[s]
  PROVE  InPlace(s, c)'
PROOF
  <1> DEFINE q == inbox[s]
             P == At(s, c)
             a == Append(q, m)
  <1>1. q \in Seq(ServerMessage)
    BY BoxAt DEF TypeInv
  <1>2. /\ c \in joined[s] <=> P # {}
        /\ AllFit(q, c, P)
    BY InPlaceIs
  <1>3. At(s, c)' = P /\ Fits(m, EndPlace(q, c, P)) /\ inbox'[s] = a
    OBVIOUS
  <1> HIDE DEF P
  <1>4. AllFit(a, c, P)
    BY <1>1, <1>2, <1>3, FitsAppend
  <1>5. EndPlace(a, c, P) = After(m)
    BY <1>1, PlaceAppend
  <1>6. a \in Seq(ServerMessage)
    BY <1>1, AppendAt
  <1>7. s \in member'[c] => NoLeft(a, c)
    BY <1>1, NoLeftAppend
  <1> HIDE DEF a
  <1> QED
    BY <1>2, <1>3, <1>4, <1>5, <1>6, <1>7, InPlaceAfter

\* Server s reads its first message, and may send itself an update.
LEMMA InPlaceRead ==
  ASSUME TypeInv, NEW s \in Server, NEW c \in Client, InPlace(s, c), inbox[s] # <<>>,
         \/ inbox'[s] = Tail(inbox[s])
         \/ \E u \in UpdateMessage : inbox'[s] = Append(Tail(inbox[s]), u),
         member'[c] = member[c], up'[c] => up[c] /\ Expected(c, s)' = Expected(c, s),
         At(s, c)' = IF IsMove(Head(inbox[s]), c) THEN After(Head(inbox[s])) ELSE At(s, c),
         c \in joined'[s] <=> At(s, c)' # {}
  PROVE  InPlace(s, c)'
PROOF
  <1> DEFINE q == inbox[s]
             t == Tail(q)
             P == At(s, c)
             Q == IF IsMove(Head(q), c) THEN After(Head(q)) ELSE P
             E == Expected(c, s)
  <1>1. q \in Seq(ServerMessage) /\ t \in Seq(ServerMessage)
    BY BoxAt, TailAt DEF TypeInv
  <1>2. /\ AllFit(q, c, P)
        /\ up[c] => EndPlace(q, c, P) = E
        /\ s \in member[c] => NoLeft(q, c)
    BY InPlaceIs
  <1>3. At(s, c)' = Q /\ (up'[c] => Expected(c, s)' = E) /\ (c \in joined'[s] <=> Q # {})
    OBVIOUS
  <1> HIDE DEF P, E
  <1>4. AllFit(t, c, Q) /\ EndPlace(t, c, Q) = EndPlace(q, c, P)
    BY <1>1, <1>2, FitsTail
  <1>5. s \in member'[c] => NoLeft(t, c)
    BY <1>1, <1>2, NoLeftTail
  <1>6. inbox'[s] = t \/ \E u \in UpdateMessage : inbox'[s] = Append(t, u)
    OBVIOUS
  <1> HIDE DEF t, Q
  <1>7. CASE inbox'[s] = t
    BY <1>1, <1>2, <1>3, <1>4, <1>5, <1>7, InPlaceAfter
  <1>8. CASE \E u \in UpdateMessage : inbox'[s] = Append(t, u)
    <2>1. PICK u \in UpdateMessage : inbox'[s] = Append(t, u)
      BY <1>8
    <2>2. u \in ServerMessage /\ ~ IsMove(u, c)
      BY Moving, ServerMessages
    <2>3. u # Left(c)
      BY <2>1, Moving DEF Left
    <2>4. AllFit(Append(t, u), c, Q)
      BY <1>1, <1>4, <2>2, FitsAppend
    <2>5. EndPlace(Append(t, u), c, Q) = EndPlace(t, c, Q)
      BY <1>1, <2>2, PlaceAppend
    <2>6. Append(t, u) \in Seq(ServerMessage)
      BY <1>1, <2>2, AppendAt
    <2>7. s \in member'[c] => NoLeft(Append(t, u), c)
      BY <1>1, <1>5, <2>2, <2>3, NoLeftAppend
    <2> DEFINE a == Append(t, u)
    <2>8. /\ a \in Seq(ServerMessage) /\ AllFit(a, c, Q) /\ EndPlace(a, c, Q) = EndPlace(q, c, P)
          /\ s \in member'[c] => NoLeft(a, c)
          /\ inbox'[s] = a
      BY <1>4, <2>1, <2>4, <2>5, <2>6, <2>7
    <2> HIDE DEF a
    <2> QED
      BY <1>2, <1>3, <2>8, InPlaceAfter
  <1> QED
    BY <1>6, <1>7, <1>8

--------------------------------------------------------------------------------
(* A step that does not move the client *)

\* Nothing happens to the messages at server s that move client c.
NotMoved(s, c) ==
  \/ inbox'[s] = inbox[s]
  \/ \E m \in ServerMessage : ~ IsMove(m, c) /\ inbox'[s] = Append(inbox[s], m)
  \/ /\ inbox[s] # <<>> /\ ~ IsMove(Head(inbox[s]), c)
     /\ \/ inbox'[s] = Tail(inbox[s])
        \/ \E u \in UpdateMessage : inbox'[s] = Append(Tail(inbox[s]), u)

\* Client c is told nothing new about server s.
NoNews(c, s) ==
  OneTwo(inbox[c], s) =>
    OneTwo(inbox'[c], s) /\ (Twos(inbox'[c], s) # {} => Twos(inbox[c], s) # {})

SameSession(c) ==
  /\ up'[c] = up[c] /\ member'[c] = member[c] /\ curr_db'[c] = curr_db[c]
  /\ client_server_group'[c] = client_server_group[c] /\ client_connected'[c] = client_connected[c]

\* A client is placed, by parts, now and after a step.
LEMMA PlacedIs ==
  ASSUME NEW c \in Client
  PROVE  Placed(c) <=>
           /\ OneGroup(c)
           /\ \A s \in Server : /\ OnOneList(s, c)
                                /\ up[s] => InPlace(s, c) /\ (up[c] => ToldOnce(c, s))
PROOF
  BY DEF Placed

LEMMA PlacedNext ==
  ASSUME NEW c \in Client, OneGroup(c)', \A s \in Server : OnOneList(s, c)',
         \A s \in Server : up'[s] => InPlace(s, c)' /\ (up'[c] => ToldOnce(c, s)')
  PROVE  Placed(c)'
PROOF
  BY DEF Placed

\* What server s has of client c, and what c is told of s.
Standing(s, c) ==
  OnOneList(s, c) /\ (up[s] => InPlace(s, c) /\ (up[c] => ToldOnce(c, s)))

LEMMA StandingKept ==
  ASSUME TypeInv, NEW c \in Client, NEW s \in Server, Standing(s, c), SameSession(c), Stays(s, c),
         up'[s] => /\ up[s] /\ NotMoved(s, c) /\ (c \in joined'[s] <=> c \in joined[s])
                   /\ up[c] => NoNews(c, s)
  PROVE  Standing(s, c)'
PROOF
  <1>1. OnOneList(s, c)'
    BY DEF Stays, Standing
  <1>2. ASSUME up'[s] PROVE InPlace(s, c)'
    <2>1. InPlace(s, c) /\ NotMoved(s, c) /\ (c \in joined'[s] <=> c \in joined[s])
      BY <1>2 DEF Standing
    <2>2. At(s, c)' = At(s, c)
      BY DEF Stays
    <2>3. /\ member'[c] = member[c] /\ (up'[c] <=> up[c])
          /\ Expected(c, s)' = Expected(c, s)
      BY DEF SameSession, Expected
    <2>4. c \in joined[s] <=> At(s, c) # {}
      BY <2>1, InPlaceIs
    <2>5. CASE \/ inbox'[s] = inbox[s]
               \/ \E m \in ServerMessage : ~ IsMove(m, c) /\ inbox'[s] = Append(inbox[s], m)
      BY <2>1, <2>2, <2>3, <2>5, InPlaceKept
    <2>6. CASE /\ inbox[s] # <<>> /\ ~ IsMove(Head(inbox[s]), c)
               /\ \/ inbox'[s] = Tail(inbox[s])
                  \/ \E u \in UpdateMessage : inbox'[s] = Append(Tail(inbox[s]), u)
      <3>1. At(s, c)' = IF IsMove(Head(inbox[s]), c) THEN After(Head(inbox[s])) ELSE At(s, c)
        BY <2>2, <2>6
      <3>2. c \in joined'[s] <=> At(s, c)' # {}
        BY <2>1, <2>2, <2>4
      <3> QED
        BY <2>1, <2>3, <2>6, <3>1, <3>2, InPlaceRead
    <2> QED
      BY <2>1, <2>5, <2>6 DEF NotMoved
  <1>3. ASSUME up'[s], up'[c] PROVE ToldOnce(c, s)'
    <2>1. ToldOnce(c, s) /\ NoNews(c, s) /\ (c \in joined'[s] <=> c \in joined[s])
      BY <1>3 DEF SameSession, Standing
    <2>2. OneTwo(inbox[c], s)
      BY <2>1 DEF ToldOnce
    <2> QED
      BY <2>1, <2>2, ToldKept DEF NoNews, SameSession
  <1> QED
    BY <1>1, <1>2, <1>3 DEF Standing

LEMMA PlacedParts ==
  ASSUME NEW c \in Client
  PROVE  /\ Placed(c) <=> OneGroup(c) /\ \A s \in Server : Standing(s, c)
         /\ Placed(c)' <=> OneGroup(c)' /\ \A s \in Server : Standing(s, c)'
PROOF
  BY DEF Placed, Standing

\* The group and the belief of the client stay, and so does its place.
LEMMA PlacedKept ==
  ASSUME TypeInv, NEW c \in Client, Placed(c), SameSession(c),
         \A s \in Server : Stays(s, c),
         \A s \in Server : up'[s] =>
           /\ up[s] /\ NotMoved(s, c) /\ (c \in joined'[s] <=> c \in joined[s])
           /\ up[c] => NoNews(c, s)
  PROVE  Placed(c)'
PROOF
  <1>1. OneGroup(c)'
    BY PlacedIs DEF OneGroup, SameSession
  <1>2. ASSUME NEW s \in Server PROVE Standing(s, c)'
    <2>1. Standing(s, c)
      BY PlacedParts
    <2> QED
      BY <2>1, StandingKept
  <1> QED
    BY <1>1, <1>2, PlacedParts

\* A step of one client is nothing to the others.
LEMMA OthersPlaced ==
  ASSUME TypeInv, ConnectionInv, NEW d \in Client, UserCommand(d) \/ ClientStep(d),
         NEW c \in Client, c # d, Placed(c)
  PROVE  Placed(c)'
PROOF
  <1>1. SameClient(c) /\ UNCHANGED <<joined, client_list, db_list>> /\ \A s \in Server : up'[s] = up[s]
    BY OthersSeeNothing
  <1>2. SameSession(c) /\ \A s \in Server : NoNews(c, s)
    BY <1>1 DEF SameClient, SameSession, NoNews
  <1>3. ASSUME NEW s \in Server PROVE Stays(s, c)
    BY <1>1, StaysWhenSame
  <1>4. ASSUME NEW s \in Server PROVE NotMoved(s, c)
    <2>1. Sends(d, s)
      BY ClientSends
    <2>2. CASE Silent(d, s)
      BY <2>2 DEF Silent, NotMoved
    <2>3. CASE Leaves(d, s)
      <3>1. Left(d) \in ServerMessage /\ ~ IsMove(Left(d), c)
        BY Moving, ServerMessages
      <3> QED
        BY <2>3, <3>1 DEF Leaves, NotMoved
    <2>4. CASE Requests(d, s)
      <3>1. PICK m \in RequestMessage : m.client = d /\ inbox'[s] = Append(inbox[s], m)
        BY <2>4 DEF Requests
      <3>2. m \in ServerMessage /\ ~ IsMove(m, c)
        BY <3>1, Moving, ServerMessages
      <3> QED
        BY <3>1, <3>2 DEF NotMoved
    <2> QED
      BY <2>1, <2>2, <2>3, <2>4 DEF Sends
  <1> QED
    BY <1>1, <1>2, <1>3, <1>4, PlacedKept

\* A client that has left sends no more, and one that asks is where it was.
LEMMA AskPlaced ==
  ASSUME TypeInv, ConnectionInv, NEW d \in Client, Placed(d),
         \/ JoinRefused(d) \/ Post(d) \/ AskView(d)
         \/ \E op \in {"e", "d"}, line \in 1 .. obj_num[d] : Change(d, op, line)
  PROVE  Placed(d)'
PROOF
  <1>1. CASE JoinRefused(d)
    <2>1. UNCHANGED <<up, sessionVars, member, inbox, joined, client_list, db_list>>
      BY <1>1 DEF JoinRefused, Command, serverVars
    <2>2. SameSession(d) /\ \A s \in Server : NoNews(d, s) /\ NotMoved(s, d) /\ Stays(s, d)
      BY <2>1, StaysWhenSame DEF SameSession, NoNews, NotMoved, sessionVars
    <2> QED
      BY <2>1, <2>2, PlacedKept
  <1>2. CASE \/ Post(d) \/ AskView(d)
             \/ \E op \in {"e", "d"}, line \in 1 .. obj_num[d] : Change(d, op, line)
    <2>1. /\ client_connected[d] /\ UNCHANGED <<up, clientVars, serverVars, netVars>>
          /\ \E r \in RequestMessage : /\ r.op \in {"a", "e", "d", "v"} /\ r.client = d
                                       /\ inbox' = To(inbox, d, cs_index[d], r)
      BY <1>2, OtherRequests
    <2>2. PICK r \in RequestMessage : /\ r.op \in {"a", "e", "d", "v"} /\ r.client = d
                                      /\ inbox' = To(inbox, d, cs_index[d], r)
      BY <2>1
    <2>3. /\ \A c \in Client : inbox'[c] = inbox[c]
          /\ \A t \in Server : inbox'[t] =
               IF t = client_server_group[d] /\ up[t] /\ Together(d, t)
                 THEN Append(inbox[t], r) ELSE inbox[t]
      BY <2>1, <2>2, AskBoxes
    <2>4. r \in ServerMessage /\ ~ IsMove(r, d)
      BY <2>2, Moving, ServerMessages
    <2>5. SameSession(d) /\ UNCHANGED <<up, joined, client_list, db_list>>
      BY <2>1 DEF SameSession, clientVars, sessionVars, serverVars, netVars
    <2>6. \A s \in Server : NoNews(d, s) /\ NotMoved(s, d) /\ Stays(s, d)
      BY <2>3, <2>4, <2>5, StaysWhenSame DEF NoNews, NotMoved
    <2> QED
      BY <2>5, <2>6, PlacedKept
  <1> QED
    BY <1>1, <1>2

\* A response does not move the client.
LEMMA ResponsePlaced ==
  ASSUME TypeInv, NEW d \in Client, Placed(d), RecvResponse(d)
  PROVE  Placed(d)'
PROOF
  <1>1. /\ UNCHANGED <<up, sessionVars, member, joined, client_list, db_list>>
        /\ inbox[d] # <<>> /\ Head(inbox[d]).type = "Response" /\ inbox' = Received(d)
    BY DEF RecvResponse, Receives, serverVars, netVars
  <1>2. inbox'[d] = Tail(inbox[d]) /\ \A s \in Server : inbox'[s] = inbox[s]
    BY <1>1, ReceivedAt, Processes DEF TypeInv
  <1>3. OnlyResponses(d)
    BY <1>1, <1>2 DEF OnlyResponses
  <1>4. \A s \in Server : NoNews(d, s)
    BY <1>3, ResponsesTell DEF NoNews
  <1>5. SameSession(d) /\ \A s \in Server : NotMoved(s, d) /\ Stays(s, d)
    BY <1>1, <1>2, StaysWhenSame DEF SameSession, NotMoved, sessionVars
  <1> QED
    BY <1>1, <1>4, <1>5, PlacedKept

--------------------------------------------------------------------------------
(* A command of the client *)

\* The client changes boards: its request finds it where it believes it is.
LEMMA JoinPlaced ==
  ASSUME TypeInv, ConnectionInv, NEW d \in Client, Placed(d), far = {}, NEW b \in Board, Join(d, b)
  PROVE  Placed(d)'
PROOF
  <1> DEFINE r == Request("j", d, b, 0, curr_db[d])
  <1>1. /\ up[d] /\ client_connected[d] /\ inbox' = To(inbox, d, cs_index[d], r)
        /\ UNCHANGED <<up, client_server_group, client_connected, member, joined, client_list, db_list>>
        /\ curr_db' = [curr_db EXCEPT ![d] = b]
    BY DEF Join, Command, serverVars
  <1>2. VariableType /\ curr_db[d] \in Place /\ curr_db'[d] = b
    BY <1>1 DEF TypeInv, VariableType
  <1>3. /\ r \in RequestMessage /\ r \in ServerMessage /\ r.client = d /\ r.op = "j" /\ r.db_name = b
        /\ r.obj = curr_db[d] /\ r.type = "Client"
    BY <1>2, ServerMessages DEF Request
  <1>4. PICK g \in Server : g = client_server_group[d] /\ g # NoServer
    BY <1>1, ConnectedTo
  <1> HIDE DEF r
  <1>5. /\ \A c \in Client : inbox'[c] = inbox[c]
        /\ \A t \in Server : inbox'[t] =
             IF t = client_server_group[d] /\ up[t] /\ Together(d, t)
               THEN Append(inbox[t], r) ELSE inbox[t]
    BY <1>1, <1>3, AskBoxes
  <1>6. OneGroup(d) /\ g \in member[d]
    BY <1>1, <1>4, PlacedIs DEF OneGroup
  <1>7. OneGroup(d)'
    BY <1>1, <1>4, <1>6 DEF OneGroup
  <1>8. \A s \in Server : Stays(s, d)
    BY <1>1, StaysWhenSame
  <1>9. \A s \in Server : OnOneList(s, d)'
    BY <1>8, PlacedIs DEF Stays
  <1>10. ASSUME NEW s \in Server, up'[s] PROVE ToldOnce(d, s)'
    BY <1>1, <1>5, <1>10, PlacedIs, ToldKept DEF ToldOnce
  <1>11. ASSUME NEW s \in Server, up'[s], s # g PROVE InPlace(s, d)'
    <2>1. inbox'[s] = inbox[s] /\ InPlace(s, d) /\ At(s, d)' = At(s, d)
      BY <1>1, <1>4, <1>5, <1>8, <1>11, PlacedIs DEF Stays
    <2>2. s \notin member[d]
      BY <1>4, <1>6, <1>11 DEF OneGroup
    <2>3. Expected(d, s)' = Expected(d, s)
      BY <1>1, <2>2 DEF Expected
    <2> QED
      BY <1>1, <2>1, <2>3, InPlaceKept
  <1>12. ASSUME up'[g] PROVE InPlace(g, d)'
    <2>1. InPlace(g, d) /\ At(g, d)' = At(g, d)
      BY <1>1, <1>4, <1>8, <1>12, PlacedIs DEF Stays
    <2>2. inbox'[g] = Append(inbox[g], r)
      <3>1. Together(d, g) /\ up[g]
        BY <1>1, <1>12 DEF Together
      <3> QED
        BY <1>4, <1>5, <3>1
    <2>3. IsMove(r, d) /\ After(r) = {b} /\ r # Left(d)
      BY <1>3, Moving DEF Left
    <2>4. EndPlace(inbox[g], d, At(g, d)) = {curr_db[d]} /\ NoLeft(inbox[g], d)
      <3>1. EndPlace(inbox[g], d, At(g, d)) = Expected(d, g) /\ NoLeft(inbox[g], d)
        BY <1>1, <1>4, <1>6, <2>1, InPlaceIs
      <3> QED
        BY <1>6, <3>1 DEF Expected
    <2>5. Fits(r, EndPlace(inbox[g], d, At(g, d)))
      BY <1>3, <2>4 DEF Fits
    <2>6. Expected(d, g)' = {b}
      BY <1>1, <1>2, <1>6 DEF Expected
    <2> QED
      BY <1>1, <1>3, <1>4, <2>1, <2>2, <2>3, <2>4, <2>5, <2>6, InPlaceMoved
  <1> QED
    BY <1>7, <1>9, <1>10, <1>11, <1>12, PlacedNext

\* The client leaves: its leave finds it where it was.
LEMMA QuitPlaced ==
  ASSUME TypeInv, NEW d \in Client, Placed(d), Quit(d)
  PROVE  Placed(d)'
PROOF
  <1>1. /\ up[d] /\ inbox' = [LeavingAll(inbox, d) EXCEPT ![d] = <<>>]
        /\ up' = [up EXCEPT ![d] = FALSE] /\ member' = [member EXCEPT ![d] = {}]
        /\ UNCHANGED <<client_server_group, client_connected, curr_db, joined, client_list, db_list>>
    BY DEF Quit, Command, serverVars, clientVars, sessionVars
  <1>2. /\ up'[d] = FALSE /\ member'[d] = {} /\ \A s \in Server : up'[s] = up[s]
    BY <1>1, Processes DEF TypeInv, VariableType
  <1>3. \A s \in Server : inbox'[s] = IF Both(d, s) /\ up[s] THEN Append(inbox[s], Left(d)) ELSE inbox[s]
    BY <1>1, LeavingAllAt DEF TypeInv
  <1>4. OneGroup(d)'
    BY <1>1, <1>2, PlacedIs DEF OneGroup
  <1>5. \A s \in Server : Stays(s, d)
    BY <1>1, StaysWhenSame
  <1>6. \A s \in Server : OnOneList(s, d)'
    BY <1>5, PlacedIs DEF Stays
  <1>7. ASSUME NEW s \in Server, up'[s] PROVE InPlace(s, d)'
    <2>1. InPlace(s, d) /\ At(s, d)' = At(s, d)
      BY <1>2, <1>5, <1>7, PlacedIs DEF Stays
    <2>2. CASE inbox'[s] = inbox[s]
      BY <1>1, <1>2, <2>1, <2>2, InPlaceKept
    <2>3. CASE Both(d, s) /\ inbox'[s] = Append(inbox[s], Left(d))
      <3>1. Left(d) \in ServerMessage /\ Left(d).type = "Left" /\ IsMove(Left(d), d)
        BY Moving, ServerMessages
      <3>2. EndPlace(inbox[s], d, At(s, d)) = {curr_db[d]}
        <4>1. EndPlace(inbox[s], d, At(s, d)) = Expected(d, s)
          BY <1>1, <2>1, InPlaceIs
        <4> QED
          BY <2>3, <4>1 DEF Expected, Both
      <3>3. Fits(Left(d), EndPlace(inbox[s], d, At(s, d)))
        BY <3>1, <3>2 DEF Fits
      <3> QED
        BY <1>1, <1>2, <2>1, <2>3, <3>1, <3>3, InPlaceMoved
    <2> QED
      BY <1>3, <2>2, <2>3
  <1> QED
    BY <1>2, <1>4, <1>6, <1>7, PlacedNext

\* A client that does not wait is in the group of the server it is connected to, and
\* in no other.
LEMMA Settled ==
  ASSUME TypeInv, ConnectionInv, NEW d \in Client, Placed(d), up[d], ~ Waits(d)
  PROVE  /\ member[d] \subseteq Server /\ client_server_group[d] \in Server \cup {NoServer}
         /\ client_connected[d] =>
              /\ client_server_group[d] = cs_index[d] /\ client_server_group[d] \in Server
              /\ member[d] = {client_server_group[d]}
         /\ ~ client_connected[d] =>
              client_server_group[d] = NoServer /\ member[d] = {} /\ curr_db[d] = NoBoard
         /\ \A s \in Server : up[s] => Twos(inbox[d], s) = {}
PROOF
  <1>1. member[d] \subseteq Server /\ client_server_group[d] \in Server \cup {NoServer}
    BY DEF TypeInv, VariableType
  <1>2. OneGroup(d)
    BY PlacedIs
  <1>3. ASSUME client_connected[d]
        PROVE  /\ client_server_group[d] = cs_index[d] /\ client_server_group[d] \in Server
               /\ member[d] = {client_server_group[d]}
    <2>1. /\ client_server_group[d] = cs_index[d] /\ cs_index[d] \in Server
          /\ client_server_group[d] # NoServer
      BY <1>3, ConnectedTo
    <2> QED
      BY <1>2, <2>1 DEF OneGroup
  <1>4. ASSUME ~ client_connected[d]
        PROVE  client_server_group[d] = NoServer /\ member[d] = {} /\ curr_db[d] = NoBoard
    <2>1. client_server_group[d] = NoServer
      BY <1>4 DEF Waits
    <2> QED
      BY <1>1, <1>2, <2>1, Processes DEF OneGroup
  <1>5. ASSUME NEW s \in Server, up[s] PROVE Twos(inbox[d], s) = {}
    <2>1. Twos(inbox[d], s) # {} => s = client_server_group[d] /\ ~ client_connected[d]
      BY <1>5, PlacedIs DEF ToldOnce
    <2> QED
      BY <1>4, <2>1, Processes
  <1> QED
    BY <1>1, <1>3, <1>4, <1>5

ConnectState(d, s) ==
  /\ member'[d] = {s} /\ curr_db'[d] = NoBoard /\ client_server_group'[d] = s
  /\ ~ client_connected'[d] /\ up'[d] /\ s \notin member[d] /\ s # client_server_group[d]

\* A connect of a user who waits: the client has left its group before.
LEMMA ConnectBelief ==
  ASSUME TypeInv, ConnectionInv, NEW d \in Client, Placed(d), NEW s \in Server, Connect(d, s),
         ~ hasty'[d]
  PROVE  /\ up[d] /\ ~ Waits(d) /\ NoLeft(inbox[s], d) /\ ConnectState(d, s)
         /\ UNCHANGED <<up, joined, client_list, db_list>>
PROOF
  <1>1. /\ up[d] /\ ~ (client_connected[d] /\ cs_index[d] = s)
        /\ UNCHANGED <<up, joined, client_list, db_list>>
        /\ IF client_connected[d]
             THEN /\ ReInit(d)
                  /\ member' = [member EXCEPT ![d] = (@ \ {client_server_group[d]}) \cup {s}]
             ELSE /\ UNCHANGED <<client_connected, curr_db>>
                  /\ member' = [member EXCEPT ![d] = @ \cup {s}]
        /\ client_server_group' = [client_server_group EXCEPT ![d] = s]
        /\ hasty' = [hasty EXCEPT ![d] = @ \/ Hasty(d, s)]
    BY DEF Connect, Command, serverVars
  <1>2. VariableType /\ inbox[s] \in Seq(ServerMessage)
    BY BoxAt DEF TypeInv
  <1>3. ~ Hasty(d, s)
    BY <1>1, <1>2 DEF VariableType
  <1>4. ~ Waits(d) /\ Left(d) \notin ToSet(inbox[s])
    BY <1>3 DEF Hasty
  <1>5. NoLeft(inbox[s], d)
    BY <1>4 DEF NoLeft, ToSet
  <1>6. /\ client_connected[d] =>
             /\ client_server_group[d] = cs_index[d] /\ client_server_group[d] \in Server
             /\ member[d] = {client_server_group[d]}
        /\ ~ client_connected[d] =>
             client_server_group[d] = NoServer /\ member[d] = {} /\ curr_db[d] = NoBoard
    BY <1>1, <1>4, Settled
  <1>7. client_connected[d] => curr_db'[d] = NoBoard /\ ~ client_connected'[d]
    BY <1>1, <1>2 DEF ReInit, VariableType
  <1>8. s \notin member[d] /\ s # client_server_group[d]
    BY <1>1, <1>6, Processes
  <1>9. member'[d] = {s} /\ client_server_group'[d] = s
    BY <1>1, <1>2, <1>6 DEF VariableType
  <1> QED
    BY <1>1, <1>4, <1>5, <1>6, <1>7, <1>8, <1>9 DEF ConnectState

\* The client turns to another server: the old one finds it, the new one does not.
LEMMA ConnectPlaced ==
  ASSUME TypeInv, ConnectionInv, NEW d \in Client, Placed(d), far = {}, NEW s \in Server,
         Connect(d, s), ~ hasty'[d]
  PROVE  Placed(d)'
PROOF
  <1> DEFINE old == client_server_group[d]
             r == Request("c", d, NoBoard, 0, NoBoard)
             m == Membership(s, IF Meets(d, s) THEN 2 ELSE 1, "join")
  <1>1. /\ up[d] /\ ~ Waits(d) /\ NoLeft(inbox[s], d) /\ ConnectState(d, s)
        /\ UNCHANGED <<up, joined, client_list, db_list>>
    BY ConnectBelief
  <1>2. /\ client_connected[d] => old \in Server /\ member[d] = {old}
        /\ ~ client_connected[d] => old = NoServer /\ member[d] = {}
        /\ \A t \in Server : up[t] => Twos(inbox[d], t) = {}
    BY <1>1, Settled
  <1>3. inbox'[d] = Append(inbox[d], m)
    BY <1>1, ConnectBoxes DEF ConnectState
  <1>4. \A t \in Server :
          inbox'[t] = IF t = s THEN IF up[s] /\ Together(d, s) THEN Append(inbox[s], r) ELSE inbox[s]
                      ELSE IF client_connected[d] /\ t = old /\ Both(d, t) /\ up[t]
                        THEN Append(inbox[t], Left(d)) ELSE inbox[t]
    BY ConnectBoxes
  <1>5. /\ r \in RequestMessage /\ r \in ServerMessage /\ r.client = d /\ r.op = "c" /\ r.type = "Client"
    BY ServerMessages DEF Request
  <1>6. /\ m \in ClientMessage /\ m.cause = "join" /\ (m.members = 2 <=> Meets(d, s))
        /\ \A t \in Server : IsAbout(m, t) <=> t = s
    <2> DEFINE n == IF Meets(d, s) THEN 2 ELSE 1
    <2>1. n \in {1, 2} /\ (n = 2 <=> Meets(d, s))
      OBVIOUS
    <2> HIDE DEF n
    <2>2. /\ Membership(s, n, "join") \in ClientMessage /\ Membership(s, n, "join").cause = "join"
          /\ Membership(s, n, "join").members = n
          /\ \A t \in Server : IsAbout(Membership(s, n, "join"), t) <=> t = s
      BY <2>1, ClientMessages DEF Membership, IsAbout
    <2> QED
      BY <2>1, <2>2 DEF n
  <1> HIDE DEF r, m
  <1>7. OneGroup(d)'
    BY <1>1 DEF OneGroup, ConnectState
  <1>8. \A t \in Server : Stays(t, d)
    BY <1>1, StaysWhenSame
  <1>9. \A t \in Server : OnOneList(t, d)'
    BY <1>8, PlacedIs DEF Stays
  <1>10. ASSUME NEW t \in Server, up'[t] PROVE ToldOnce(d, t)'
    <2>1. ToldOnce(d, t) /\ Twos(inbox[d], t) = {} /\ inbox[d] \in Seq(ClientMessage)
      BY <1>1, <1>2, <1>10, BoxAt, PlacedIs DEF TypeInv
    <2>2. OneTwo(inbox[d], t)
      BY <2>1 DEF ToldOnce
    <2>3. /\ OneTwo(Append(inbox[d], m), t)
          /\ Twos(Append(inbox[d], m), t) # {} <=>
               Twos(inbox[d], t) # {} \/ (IsAbout(m, t) /\ m.members = 2)
      BY <1>6, <2>1, <2>2, OneTwoAppend
    <2>4. OneTwo(inbox'[d], t) /\ (Twos(inbox'[d], t) # {} => t = s /\ Meets(d, s))
      BY <1>3, <1>6, <2>1, <2>3
    <2>5. /\ OneTwo(inbox[d], t)' <=> OneTwo(inbox'[d], t)
          /\ Twos(inbox[d], t)' = Twos(inbox'[d], t)
      BY DEF OneTwo, Twos, About
    <2>6. /\ Twos(inbox'[d], t) # {} =>
               t = client_server_group'[d] /\ ~ client_connected'[d] /\ d \in joined'[t]
          /\ ~ client_connected'[d]
      BY <1>1, <2>4 DEF ConnectState, Meets
    <2> QED
      BY <2>4, <2>5, <2>6 DEF ToldOnce
  <1>11. ASSUME NEW t \in Server, up'[t] PROVE InPlace(t, d)'
    <2>1. InPlace(t, d) /\ At(t, d)' = At(t, d) /\ up[t] /\ Together(d, t)
      BY <1>1, <1>8, <1>11, PlacedIs DEF Stays, Together
    <2>2. EndPlace(inbox[t], d, At(t, d)) = Expected(d, t)
      BY <1>1, <2>1, InPlaceIs
    <2>3. CASE t = s
      <3>1. inbox'[t] = Append(inbox[t], r)
        BY <1>4, <2>1, <2>3
      <3>2. IsMove(r, d) /\ After(r) = {NoBoard} /\ r # Left(d)
        BY <1>5, Moving DEF Left
      <3>3. EndPlace(inbox[t], d, At(t, d)) = {}
        BY <1>1, <2>2, <2>3 DEF Expected, ConnectState
      <3>4. Fits(r, EndPlace(inbox[t], d, At(t, d)))
        BY <1>5, <3>3 DEF Fits
      <3>5. Expected(d, t)' = {NoBoard}
        BY <1>1, <2>3 DEF Expected, ConnectState
      <3> QED
        BY <1>1, <1>5, <2>1, <2>3, <3>1, <3>2, <3>4, <3>5, InPlaceMoved
    <2>4. ASSUME t # s PROVE Expected(d, t)' = {} /\ t \notin member'[d]
      BY <1>1, <2>4 DEF Expected, ConnectState
    <2>5. CASE t # s /\ t \in member[d]
      <3>1. client_connected[d] /\ t = old
        BY <1>2, <2>5
      <3>2. d \in joined[t]
        BY <1>1, <2>1, <3>1, PlacedIs DEF ToldOnce
      <3>3. Both(d, t)
        BY <2>1, <2>5, <3>2 DEF Both
      <3>4. inbox'[t] = Append(inbox[t], Left(d))
        BY <1>4, <2>1, <2>5, <3>1, <3>3
      <3>5. Left(d) \in ServerMessage /\ Left(d).type = "Left" /\ IsMove(Left(d), d) /\ After(Left(d)) = {}
        BY Moving, ServerMessages
      <3>6. EndPlace(inbox[t], d, At(t, d)) = {curr_db[d]}
        BY <2>2, <2>5 DEF Expected
      <3>7. Fits(Left(d), EndPlace(inbox[t], d, At(t, d)))
        BY <3>5, <3>6 DEF Fits
      <3> QED
        BY <1>1, <2>1, <2>4, <2>5, <3>4, <3>5, <3>7, InPlaceMoved
    <2>6. CASE t # s /\ t \notin member[d]
      <3>1. inbox'[t] = inbox[t]
        BY <1>4, <2>6 DEF Both
      <3>2. Expected(d, t)' = Expected(d, t)
        BY <2>4, <2>6 DEF Expected
      <3> QED
        BY <1>1, <2>1, <2>4, <2>6, <3>1, <3>2, InPlaceKept
    <2> QED
      BY <2>3, <2>5, <2>6
  <1> QED
    BY <1>7, <1>9, <1>10, <1>11, PlacedNext

--------------------------------------------------------------------------------
(* What the client reads *)

\* A client that hears that its server has gone is in no group.
LEMMA MembershipPlaced ==
  ASSUME TypeInv, NEW d \in Client, Placed(d), RecvMembership(d)
  PROVE  Placed(d)'
PROOF
  <1> DEFINE m == Head(inbox[d])
  <1>1. /\ VariableType /\ IsBox(inbox) /\ up[d] /\ inbox[d] # <<>> /\ inbox[d] \in Seq(ClientMessage)
        /\ m \in ClientMessage /\ m.type = "Membership" /\ m.group \in Server /\ m.members \in {1, 2}
    BY HeadOfClient, MessageKinds DEF RecvMembership, TypeInv
  <1>2. /\ UNCHANGED <<up, joined, client_list, db_list>>
        /\ IF m.cause = "gone" /\ m.group = client_server_group[d]
             THEN /\ inbox' = Leaving(Received(d), d, m.group)
                  /\ member' = [member EXCEPT ![d] = @ \ {m.group}]
                  /\ ReInit(d)
                  /\ client_server_group' = [client_server_group EXCEPT ![d] = NoServer]
             ELSE /\ inbox' = Received(d)
                  /\ client_connected' = [client_connected EXCEPT ![d] = IsConnection(d, m)]
                  /\ UNCHANGED <<member, client_server_group, curr_db>>
    BY DEF RecvMembership, serverVars
  <1>3. /\ IsBox(Received(d)) /\ Received(d)[d] = Tail(inbox[d])
        /\ \A s \in Server : Received(d)[s] = inbox[s]
    BY <1>1, ReceivedAt, Processes
  <1>4. PICK g \in Server : g = m.group
    BY <1>1
  <1>5. OneGroup(d) /\ \A s \in Server : Stays(s, d)
    BY <1>2, PlacedIs, StaysWhenSame
  <1>6. \A s \in Server : OnOneList(s, d)'
    BY <1>5, PlacedIs DEF Stays
  <1>7. ASSUME NEW s \in Server, up[s]
        PROVE  /\ ToldOnce(d, s) /\ OneTwo(Tail(inbox[d]), s)
               /\ Twos(Tail(inbox[d]), s) # {} => Twos(inbox[d], s) # {}
               /\ g = s => m.cause # "gone"
               /\ g = s /\ m.members = 2 =>
                    Twos(inbox[d], s) # {} /\ Twos(Tail(inbox[d]), s) = {}
    <2>1. ToldOnce(d, s)
      BY <1>1, <1>7, PlacedIs
    <2>2. OneTwo(inbox[d], s)
      BY <2>1 DEF ToldOnce
    <2>3. /\ OneTwo(Tail(inbox[d]), s)
          /\ Twos(Tail(inbox[d]), s) # {} => Twos(inbox[d], s) # {}
          /\ 1 \in Twos(inbox[d], s) => Twos(Tail(inbox[d]), s) = {}
          /\ IsAbout(m, s) => m.cause # "gone"
      BY <1>1, <2>2, OneTwoTail
    <2>4. g = s => IsAbout(m, s)
      BY <1>1, <1>4 DEF IsAbout
    <2>5. 1 \in Twos(inbox[d], s) <=> IsAbout(m, s) /\ m.members = 2
      BY <1>1, AboutTail
    <2> QED
      BY <2>1, <2>3, <2>4, <2>5
  <1> HIDE DEF m
  <1>8. CASE m.cause = "gone" /\ m.group = client_server_group[d]
    <2>1. /\ inbox' = Leaving(Received(d), d, g) /\ ~ up[g] /\ g = client_server_group[d]
          /\ member'[d] = {} /\ curr_db'[d] = NoBoard /\ ~ client_connected'[d]
          /\ client_server_group'[d] = NoServer
      <3>1. ~ up[g]
        BY <1>4, <1>7, <1>8
      <3>2. member'[d] = {}
        BY <1>1, <1>2, <1>4, <1>5, <1>8 DEF OneGroup, VariableType
      <3>3. curr_db'[d] = NoBoard /\ ~ client_connected'[d] /\ client_server_group'[d] = NoServer
        BY <1>1, <1>2, <1>8 DEF ReInit, VariableType
      <3> QED
        BY <1>2, <1>4, <1>8, <3>1, <3>2, <3>3
    <2>2. inbox'[d] = Tail(inbox[d]) /\ \A s \in Server : inbox'[s] = inbox[s]
      <3>1. \A p \in Proc : Leaving(Received(d), d, g)[p] =
              IF p = g /\ Both(d, g) /\ up[g] THEN Append(Received(d)[p], Left(d)) ELSE Received(d)[p]
        BY <1>3, LeavingAt
      <3> QED
        BY <1>3, <2>1, <3>1, Processes
    <2>3. OneGroup(d)'
      BY <2>1 DEF OneGroup
    <2>4. ASSUME NEW s \in Server, up'[s] PROVE InPlace(s, d)'
      <3>1. InPlace(s, d) /\ At(s, d)' = At(s, d) /\ s # g
        BY <1>2, <1>5, <2>1, <2>4, PlacedIs DEF Stays
      <3>2. s \notin member[d]
        BY <1>5, <2>1, <3>1 DEF OneGroup
      <3>3. Expected(d, s)' = Expected(d, s) /\ s \notin member'[d]
        BY <2>1, <3>2 DEF Expected
      <3> QED
        BY <1>2, <2>2, <3>1, <3>3, InPlaceKept
    <2>5. ASSUME NEW s \in Server, up'[s] PROVE ToldOnce(d, s)'
      <3>1. /\ OneTwo(inbox'[d], s) /\ s # g /\ ToldOnce(d, s)
            /\ Twos(inbox'[d], s) # {} => Twos(inbox[d], s) # {}
        BY <1>2, <1>7, <2>1, <2>2, <2>5
      <3>2. Twos(inbox'[d], s) = {}
        BY <2>1, <3>1 DEF ToldOnce
      <3>3. /\ OneTwo(inbox[d], s)' <=> OneTwo(inbox'[d], s)
            /\ Twos(inbox[d], s)' = Twos(inbox'[d], s)
        BY DEF OneTwo, Twos, About
      <3> QED
        BY <2>1, <3>1, <3>2, <3>3 DEF ToldOnce
    <2> QED
      BY <1>6, <2>3, <2>4, <2>5, PlacedNext
  <1>9. CASE ~ (m.cause = "gone" /\ m.group = client_server_group[d])
    <2>1. /\ inbox'[d] = Tail(inbox[d]) /\ \A s \in Server : inbox'[s] = inbox[s]
          /\ UNCHANGED <<member, client_server_group, curr_db>>
          /\ client_connected'[d] <=> g = client_server_group[d] /\ m.members = 2
      BY <1>1, <1>2, <1>3, <1>4, <1>9 DEF IsConnection, VariableType
    <2>2. OneGroup(d)'
      BY <1>2, <1>5, <2>1 DEF OneGroup
    <2>3. ASSUME NEW s \in Server, up'[s] PROVE InPlace(s, d)'
      <3>1. InPlace(s, d) /\ At(s, d)' = At(s, d)
        BY <1>2, <1>5, <2>3, PlacedIs DEF Stays
      <3>2. Expected(d, s)' = Expected(d, s)
        BY <2>1 DEF Expected
      <3> QED
        BY <1>2, <2>1, <3>1, <3>2, InPlaceKept
    <2>4. ASSUME NEW s \in Server, up'[s] PROVE ToldOnce(d, s)'
      <3>1. /\ OneTwo(inbox'[d], s) /\ ToldOnce(d, s)
            /\ Twos(inbox'[d], s) # {} => Twos(inbox[d], s) # {}
            /\ g = s /\ m.members = 2 => Twos(inbox[d], s) # {} /\ Twos(inbox'[d], s) = {}
        BY <1>2, <1>7, <2>1, <2>4
      <3>2. Twos(inbox'[d], s) # {} =>
              s = client_server_group'[d] /\ ~ client_connected'[d] /\ d \in joined'[s]
        BY <1>2, <2>1, <3>1 DEF ToldOnce
      <3>3. client_connected'[d] /\ client_server_group'[d] = s => d \in joined'[s]
        BY <1>2, <2>1, <3>1 DEF ToldOnce
      <3>4. /\ OneTwo(inbox[d], s)' <=> OneTwo(inbox'[d], s)
            /\ Twos(inbox[d], s)' = Twos(inbox'[d], s)
        BY DEF OneTwo, Twos, About
      <3> QED
        BY <3>1, <3>2, <3>3, <3>4 DEF ToldOnce
    <2> QED
      BY <1>6, <2>2, <2>3, <2>4, PlacedNext
  <1> QED
    BY <1>8, <1>9

AllPlaced == \A c \in Client : ~ hasty[c] => Placed(c)

\* Any step of a client.
LEMMA ClientPlaced ==
  ASSUME TypeInv, ConnectionInv, AllPlaced, far = {}, NEW d \in Client,
         UserCommand(d) \/ ClientStep(d)
  PROVE  AllPlaced'
PROOF
  <1> SUFFICES ASSUME NEW c \in Client, ~ hasty'[c] PROVE Placed(c)'
    BY DEF AllPlaced
  <1>1. ~ hasty[c]
    BY DEF UserCommand, Connect, Join, JoinRefused, Post, Change, Quit, AskView, ClientStep, RecvResponse,
           RecvMembership, clientVars, historyVars, TypeInv, VariableType
  <1>2. Placed(c)
    BY <1>1 DEF AllPlaced
  <1>3. CASE c # d
    BY <1>2, <1>3, OthersPlaced
  <1>4. CASE c = d
    <2>1. CASE ClientStep(d)
      BY <1>2, <1>4, <2>1, ResponsePlaced, MembershipPlaced DEF ClientStep
    <2>2. CASE UserCommand(d)
      <3>1. ASSUME NEW s \in Server, Connect(d, s) PROVE Placed(d)'
        BY <1>2, <1>4, <3>1, ConnectPlaced
      <3>2. ASSUME NEW b \in Board, Join(d, b) PROVE Placed(d)'
        BY <1>2, <1>4, <3>2, JoinPlaced
      <3>3. ASSUME \/ JoinRefused(d) \/ Post(d) \/ AskView(d)
                   \/ \E op \in {"e", "d"}, line \in 1 .. obj_num[d] : Change(d, op, line)
            PROVE  Placed(d)'
        BY <1>2, <1>4, <3>3, AskPlaced
      <3>4. ASSUME Quit(d) PROVE Placed(d)'
        BY <1>2, <1>4, <3>4, QuitPlaced
      <3> QED
        BY <1>4, <2>2, <3>1, <3>2, <3>3, <3>4 DEF UserCommand
    <2> QED
      BY <2>1, <2>2
  <1> QED
    BY <1>3, <1>4

--------------------------------------------------------------------------------
(* A request that a server handles *)

\* A request at server s, and what it leaves of the messages.
LEMMA RequestCase ==
  ASSUME TypeInv, NEW s \in Server, RecvRequest(s), NEW r, r = Head(inbox[s])
  PROVE  /\ Receives(s, "Client") /\ up[s] /\ inbox[s] # <<>>
         /\ r \in RequestMessage /\ r.client \in Client
         /\ HandleClientReq(s, r, Received(s)) /\ UNCHANGED <<clientVars, member, far>>
         /\ IsBox(Received(s)) /\ Received(s)[s] = Tail(inbox[s])
         /\ \A p \in Proc : p # s => Received(s)[p] = inbox[p]
PROOF
  <1>1. IsBox(inbox)
    BY DEF TypeInv
  <1>2. r \in RequestMessage /\ up[s] /\ inbox[s] # <<>>
    BY <1>1, HeadOfServer, MessageKinds DEF RecvRequest
  <1>3. IsBox(Received(s)) /\ \A p \in Proc : Received(s)[p] = IF p = s THEN Tail(inbox[p]) ELSE inbox[p]
    BY <1>1, <1>2, ReceivedAt, Processes
  <1>4. r.client \in Client
    BY <1>2 DEF RequestMessage
  <1> QED
    BY <1>2, <1>3, <1>4, Processes DEF RecvRequest

\* A request other than a connect is answered by responses.
LEMMA HandlerResponds ==
  ASSUME FileType, NEW s \in Server, NEW r \in RequestMessage, NEW box, IsBox(box),
         HandleClientReq(s, r, box), r.op # "c", NEW c \in Client, box[c] = inbox[c]
  PROVE  OnlyResponses(c)
PROOF
  <1>1. \/ inbox'[c] = box[c]
        \/ \E w \in Seq(ClientMessage) : /\ \A i \in DOMAIN w : w[i].type = "Response"
                                         /\ inbox'[c] = box[c] \o w
    BY HandlerBox
  <1> QED
    BY <1>1 DEF OnlyResponses

\* A client that does not ask, or does not ask to be moved, stays where it is.
LEMMA RequestPlaced ==
  ASSUME TypeInv, NEW s \in Server, RecvRequest(s), NEW r, r = Head(inbox[s]),
         NEW c \in Client, Placed(c),
         c # r.client \/ r.op \notin {"c", "j"} \/ (r.op = "j" /\ JoinFails(s, r))
  PROVE  Placed(c)'
PROOF
  <1>1. VariableType /\ ListType /\ FileType
    BY DEF TypeInv
  <1>2. /\ r \in RequestMessage /\ up[s] /\ inbox[s] # <<>>
        /\ HandleClientReq(s, r, Received(s)) /\ UNCHANGED <<clientVars, member>>
        /\ IsBox(Received(s)) /\ Received(s)[s] = Tail(inbox[s])
        /\ \A p \in Proc : p # s => Received(s)[p] = inbox[p]
    BY RequestCase
  <1> DEFINE box == Received(s)
  <1>12. FileType /\ r \in RequestMessage /\ IsBox(box) /\ HandleClientReq(s, r, box)
    BY <1>1, <1>2
  <1> HIDE DEF box
  <1>3. \A t \in Server : \/ inbox'[t] = box[t]
                          \/ \E u \in UpdateMessage : inbox'[t] = Append(box[t], u)
    BY <1>12, HandlerBox
  <1>13. r.op = "c" => inbox' = ServerJoins(box, s, r.client)
    BY <1>12, HandlerBox
  <1>4. /\ \A p \in Proc : p # s => up'[p] = up[p]
        /\ up'[s] => up[s] /\ ~ (r.op = "j" /\ JoinFails(s, r))
        /\ r.op = "c" => joined' = [joined EXCEPT ![s] = @ \cup {r.client}]
        /\ r.op # "c" => joined' = joined
    BY <1>1, <1>2, HandlerVariables
  <1>5. /\ \A t \in Server, d \in Client : t # s \/ d # r.client => Stays(t, d)
        /\ r.op \notin {"c", "j"} \/ (r.op = "j" /\ JoinFails(s, r)) =>
             \A d \in Client : Stays(s, d)
    BY <1>1, <1>2, HandlerAt
  <1>6. ASSUME NEW t \in Server PROVE Stays(t, c)
    BY <1>5
  <1>7. SameSession(c)
    BY <1>2, <1>4, Processes DEF SameSession, clientVars, sessionVars
  <1>8. ASSUME NEW t \in Server PROVE NoNews(c, t)
    <2>1. OnlyResponses(c)
      <3>1. box[c] = inbox[c]
        BY <1>2, Processes DEF box
      <3>2. CASE r.op # "c"
        BY <1>12, <3>1, <3>2, HandlerResponds
      <3>3. CASE r.op = "c"
        <4>1. c # r.client /\ r.client \in Client
          BY <3>3, RequestCase
        <4>2. ServerJoins(box, s, r.client)[c] = box[c]
          BY <1>2, <4>1, ServerJoinsAt, Processes DEF box
        <4> QED
          BY <1>13, <3>1, <3>3, <4>2 DEF OnlyResponses
      <3> QED
        BY <3>2, <3>3
    <2> QED
      BY <2>1, ResponsesTell DEF NoNews
  <1>9. ASSUME NEW t \in Server, up'[t] PROVE c \in joined'[t] <=> c \in joined[t]
    <2>1. CASE r.op = "c"
      BY <1>1, <1>4, <2>1 DEF VariableType
    <2>2. CASE r.op # "c"
      BY <1>4, <2>2
    <2> QED
      BY <2>1, <2>2
  <1>10. ASSUME NEW t \in Server, up'[t] PROVE NotMoved(t, c)
    <2>1. \A u \in UpdateMessage : u \in ServerMessage /\ ~ IsMove(u, c)
      BY Moving, ServerMessages
    <2>2. CASE t # s
      <3>1. box[t] = inbox[t]
        BY <1>2, <2>2, Processes DEF box
      <3>2. \/ inbox'[t] = inbox[t]
            \/ \E m \in ServerMessage : ~ IsMove(m, c) /\ inbox'[t] = Append(inbox[t], m)
        BY <1>3, <2>1, <3>1
      <3> QED
        BY <3>2 DEF NotMoved
    <2>3. CASE t = s
      <3>1. ~ IsMove(r, c)
        <4>1. c # r.client \/ r.op \notin {"c", "j"}
          BY <1>4, <1>10, <2>3
        <4> QED
          BY <1>2, <4>1, Moving
      <3>2. box[t] = Tail(inbox[t]) /\ inbox[t] # <<>>
        BY <1>2, <2>3 DEF box
      <3>3. \/ inbox'[t] = Tail(inbox[t])
            \/ \E u \in UpdateMessage : inbox'[t] = Append(Tail(inbox[t]), u)
        BY <1>3, <3>2
      <3> QED
        BY <2>3, <3>1, <3>2, <3>3 DEF NotMoved
    <2> QED
      BY <2>2, <2>3
  <1>11. \A t \in Server : up'[t] => up[t]
    BY <1>4, Processes
  <1> QED
    BY <1>6, <1>7, <1>8, <1>9, <1>10, <1>11, PlacedKept

\* A request that moves a client finds it where it must be.
LEMMA MovePlaced ==
  ASSUME TypeInv, NEW s \in Server, Receives(s, "Client"), NEW r, r = Head(inbox[s]),
         NEW c \in Client, c = r.client, Placed(c), r.op \in {"c", "j"}
  PROVE  /\ Fits(r, At(s, c))
         /\ r.op = "c" => At(s, c) = {} /\ c \notin joined[s]
         /\ r.op = "j" => At(s, c) = {r.obj} /\ ~ JoinFails(s, r)
         /\ After(r) # {}
PROOF
  <1>1. r \in RequestMessage /\ up[s] /\ inbox[s] # <<>> /\ inbox[s] \in Seq(ServerMessage)
    BY HeadOfServer, MessageKinds DEF TypeInv
  <1>2. InPlace(s, c)
    BY <1>1, PlacedIs
  <1>3. IsMove(r, c) /\ r.type # "Left" /\ After(r) # {}
    <2>1. /\ IsMove(r, c) <=> r.client = c /\ r.op \in {"c", "j"}
          /\ r.type # "Left" /\ After(r) = IF r.op = "c" THEN {NoBoard} ELSE {r.db_name}
      BY <1>1, Moving
    <2> QED
      BY <2>1
  <1> DEFINE P == At(s, c)
             Q == IF IsMove(r, c) THEN After(r) ELSE P
  <1>4. AllFit(inbox[s], c, P) /\ (c \in joined[s] <=> P # {})
    BY <1>2, InPlaceIs
  <1> HIDE DEF P, Q
  <1>5. IsMove(Head(inbox[s]), c) => Fits(Head(inbox[s]), P)
    BY <1>1, <1>4, FitsTail DEF Q
  <1>6. Fits(r, P)
    BY <1>3, <1>5
  <1>7. r.op = "c" => P = {}
    BY <1>3, <1>6 DEF Fits
  <1>8. r.op = "j" => P = {r.obj}
    BY <1>3, <1>6 DEF Fits
  <1>9. ASSUME r.op = "j" PROVE ~ JoinFails(s, r)
    <2>1. r.obj \in At(s, c)
      BY <1>8, <1>9 DEF P
    <2>2. CASE r.obj = NoBoard
      <3>1. c \in ToSet(client_list[s])
        <4>1. NoBoard \notin On(db_list[s], c)
          BY ListsAre, OnBoards DEF TypeInv
        <4> QED
          BY <2>1, <2>2, <4>1, AtIs
      <3> QED
        BY <2>2, <3>1 DEF JoinFails
    <2>3. CASE r.obj # NoBoard
      <3>1. PICK i \in NodesWith(s, c) : db_list[s][i].db_name = r.obj
        BY <2>1, <2>3 DEF At
      <3>2. c \in JoinedTo(s, r.obj)
        BY <3>1 DEF JoinedTo, Nodes, NodesWith
      <3> QED
        BY <2>3, <3>2 DEF JoinFails
    <2> QED
      BY <2>2, <2>3
  <1> QED
    BY <1>3, <1>4, <1>6, <1>7, <1>8, <1>9 DEF P

\* The client goes from where it was to where its request puts it.
LEMMA MoverInPlace ==
  ASSUME TypeInv, NEW s \in Server, RecvRequest(s), NEW r, r = Head(inbox[s]),
         NEW c \in Client, c = r.client, Placed(c), r.op \in {"c", "j"}
  PROVE  OnOneList(s, c)' /\ InPlace(s, c)' /\ UNCHANGED up /\ \A t \in Server : t # s => Stays(t, c)
PROOF
  <1>1. ListType /\ VariableType /\ FileType
    BY DEF TypeInv
  <1>2. /\ r \in RequestMessage /\ up[s] /\ inbox[s] # <<>>
        /\ HandleClientReq(s, r, Received(s)) /\ UNCHANGED <<clientVars, member>>
        /\ IsBox(Received(s)) /\ Received(s)[s] = Tail(inbox[s])
    BY RequestCase
  <1>3. /\ r.op = "c" => At(s, c) = {} /\ c \notin joined[s]
        /\ r.op = "j" => At(s, c) = {r.obj} /\ ~ JoinFails(s, r)
        /\ After(r) # {}
    BY RequestCase, MovePlaced
  <1>4. OnOneList(s, c) /\ InPlace(s, c)
    BY <1>2, PlacedIs
  <1>5. /\ \A t \in Server, d \in Client : t # s \/ d # r.client => Stays(t, d)
        /\ r.op = "c" => /\ At(s, r.client)' = At(s, r.client) \cup {NoBoard}
                         /\ At(s, r.client) = {} /\ OnOneList(s, r.client) =>
                              OnOneList(s, r.client)'
        /\ r.op = "j" /\ ~ JoinFails(s, r) =>
             /\ r.db_name \in At(s, r.client)'
             /\ At(s, r.client) = {r.obj} /\ OnOneList(s, r.client) =>
                  At(s, r.client)' = {r.db_name} /\ OnOneList(s, r.client)'
    BY <1>1, <1>2, HandlerAt
  <1>6. IsMove(r, c) /\ After(r) = IF r.op = "c" THEN {NoBoard} ELSE {r.db_name}
    BY <1>2, Moving
  <1>7. At(s, c)' = After(r) /\ OnOneList(s, c)'
    <2>1. CASE r.op = "c"
      BY <1>3, <1>4, <1>5, <1>6, <2>1
    <2>2. CASE r.op = "j"
      BY <1>3, <1>4, <1>5, <1>6, <2>2
    <2> QED
      BY <2>1, <2>2
  <1>8. UNCHANGED up /\ c \in joined'[s]
    <2>1. /\ ~ (r.op = "j" /\ JoinFails(s, r)) /\ up[s] => up' = up
          /\ r.op = "c" => joined' = [joined EXCEPT ![s] = @ \cup {r.client}]
          /\ r.op # "c" => joined' = joined
      BY <1>1, <1>2, HandlerVariables
    <2>2. CASE r.op = "c"
      BY <1>1, <1>2, <2>1, <2>2 DEF VariableType
    <2>3. CASE r.op = "j"
      BY <1>2, <1>3, <1>4, <2>1, <2>3, InPlaceIs
    <2> QED
      BY <2>2, <2>3
  <1>9. \/ inbox'[s] = Tail(inbox[s])
        \/ \E u \in UpdateMessage : inbox'[s] = Append(Tail(inbox[s]), u)
    <2> DEFINE box == Received(s)
    <2>1. FileType /\ r \in RequestMessage /\ IsBox(box) /\ HandleClientReq(s, r, box)
      BY <1>1, <1>2
    <2>2. box[s] = Tail(inbox[s])
      BY <1>2
    <2> HIDE DEF box
    <2>3. inbox'[s] = box[s] \/ \E u \in UpdateMessage : inbox'[s] = Append(box[s], u)
      BY <2>1, HandlerBox
    <2> QED
      BY <2>2, <2>3
  <1>10. member'[c] = member[c] /\ Expected(c, s)' = Expected(c, s)
    BY <1>2 DEF Expected, clientVars, sessionVars
  <1>11. /\ At(s, c)' = IF IsMove(Head(inbox[s]), c) THEN After(Head(inbox[s])) ELSE At(s, c)
         /\ c \in joined'[s] <=> At(s, c)' # {}
    BY <1>3, <1>6, <1>7, <1>8
  <1>12. InPlace(s, c)'
    BY <1>2, <1>4, <1>8, <1>9, <1>10, <1>11, InPlaceRead
  <1> QED
    BY <1>5, <1>7, <1>8, <1>12

\* The same client at the other servers, and what it is told.
LEMMA MoverPlaced ==
  ASSUME TypeInv, NEW s \in Server, RecvRequest(s), NEW r, r = Head(inbox[s]), far = {},
         NEW c \in Client, c = r.client, Placed(c), r.op \in {"c", "j"}
  PROVE  Placed(c)'
PROOF
  <1>1. VariableType /\ FileType /\ inbox[c] \in Seq(ClientMessage)
    BY BoxAt DEF TypeInv
  <1>2. /\ r \in RequestMessage /\ up[s] /\ inbox[s] # <<>>
        /\ HandleClientReq(s, r, Received(s)) /\ UNCHANGED <<clientVars, member>>
        /\ IsBox(Received(s))
        /\ \A p \in Proc : p # s => Received(s)[p] = inbox[p]
    BY RequestCase
  <1>3. OnOneList(s, c)' /\ InPlace(s, c)' /\ UNCHANGED up /\ \A t \in Server : t # s => Stays(t, c)
    BY MoverInPlace
  <1>4. SameSession(c)
    BY <1>2, <1>3 DEF SameSession, clientVars, sessionVars
  <1>5. OneGroup(c)'
    BY <1>4, PlacedIs DEF OneGroup, SameSession
  <1> DEFINE box == Received(s)
  <1>6. FileType /\ r \in RequestMessage /\ IsBox(box) /\ HandleClientReq(s, r, box)
    BY <1>1, <1>2
  <1>7. box[c] = inbox[c] /\ \A t \in Server : t # s => box[t] = inbox[t]
    BY <1>2, Processes
  <1> HIDE DEF box
  <1>8. \A t \in Server : inbox'[t] = box[t] \/ \E u \in UpdateMessage : inbox'[t] = Append(box[t], u)
    BY <1>6, HandlerBox
  <1>9. /\ r.op = "c" => joined' = [joined EXCEPT ![s] = @ \cup {c}] /\ inbox' = ServerJoins(box, s, c)
        /\ r.op = "j" => joined' = joined /\ OnlyResponses(c)
    <2>1. /\ r.op = "c" => joined' = [joined EXCEPT ![s] = @ \cup {r.client}]
          /\ r.op # "c" => joined' = joined
      BY <1>1, <1>2, HandlerVariables
    <2>2. r.op = "c" => inbox' = ServerJoins(box, s, r.client)
      BY <1>6, HandlerBox
    <2>3. ASSUME r.op = "j" PROVE OnlyResponses(c)
      BY <1>6, <1>7, <2>3, HandlerResponds
    <2> QED
      BY <2>1, <2>2, <2>3
  <1> DEFINE m == Membership(s, 2, "join")
             Told == up[c] /\ s \in member[c]
  <1>10. ASSUME r.op = "c" PROVE inbox'[c] = IF Told THEN Append(inbox[c], m) ELSE inbox[c]
    <2>1. c \notin joined[s] /\ Together(c, s)
      BY <1>10, RequestCase, MovePlaced DEF Together
    <2>2. ServerJoins(box, s, c)[c] =
            IF up[c] /\ Together(c, s) /\ s \in member[c] /\ c \notin joined[s]
              THEN Append(box[c], m) ELSE box[c]
      BY <1>6, ServerJoinsAt, Processes
    <2> QED
      BY <1>7, <1>9, <1>10, <2>1, <2>2
  <1>11. m \in ClientMessage /\ m.cause = "join" /\ m.members = 2 /\ \A t \in Server : IsAbout(m, t) <=> t = s
    BY ClientMessages DEF IsAbout
  <1> HIDE DEF m
  <1>12. ASSUME NEW t \in Server, t # s, OneTwo(inbox[c], t)
         PROVE  OneTwo(inbox'[c], t) /\ (Twos(inbox'[c], t) # {} <=> Twos(inbox[c], t) # {})
    <2>1. CASE r.op = "j"
      BY <1>9, <1>12, <2>1, ResponsesTell
    <2>2. CASE r.op = "c"
      <3>1. ~ IsAbout(m, t)
        BY <1>11, <1>12
      <3>2. /\ OneTwo(Append(inbox[c], m), t)
            /\ Twos(Append(inbox[c], m), t) # {} <=>
                 Twos(inbox[c], t) # {} \/ (IsAbout(m, t) /\ m.members = 2)
        BY <1>1, <1>11, <1>12, <3>1, OneTwoAppend
      <3> QED
        BY <1>10, <1>12, <2>2, <3>1, <3>2
    <2> QED
      BY <2>1, <2>2
  <1>13. ASSUME NEW t \in Server, t # s PROVE Standing(t, c)'
    <2>1. NotMoved(t, c)
      <3>1. \A u \in UpdateMessage : u \in ServerMessage /\ ~ IsMove(u, c)
        BY Moving, ServerMessages
      <3> QED
        BY <1>7, <1>8, <1>13, <3>1 DEF NotMoved
    <2>2. NoNews(c, t)
      BY <1>12, <1>13 DEF NoNews
    <2>3. c \in joined'[t] <=> c \in joined[t]
      BY <1>1, <1>9, <1>13 DEF VariableType
    <2>4. Standing(t, c)
      BY PlacedParts
    <2> QED
      BY <1>3, <1>4, <1>13, <2>1, <2>2, <2>3, <2>4, StandingKept
  <1>14. ASSUME up[c] PROVE ToldOnce(c, s)'
    <2>1. ToldOnce(c, s) /\ OneTwo(inbox[c], s)
      BY <1>2, <1>14, PlacedIs DEF ToldOnce
    <2>2. CASE r.op = "j"
      BY <1>4, <1>9, <2>1, <2>2, ResponsesTell, ToldKept DEF SameSession
    <2>3. CASE r.op = "c"
      <3>1. c \notin joined[s] /\ c \in joined'[s]
        BY <1>1, <1>9, <2>3, RequestCase, MovePlaced DEF VariableType
      <3>2. Twos(inbox[c], s) = {} /\ ~ (client_connected[c] /\ client_server_group[c] = s)
        BY <2>1, <3>1 DEF ToldOnce
      <3>3. /\ OneTwo(inbox'[c], s)
            /\ Twos(inbox'[c], s) # {} => s \in member[c]
        <4>1. CASE Told
          BY <1>1, <1>10, <1>11, <2>1, <2>3, <3>2, <4>1, OneTwoAppend
        <4>2. CASE ~ Told
          BY <1>10, <2>1, <2>3, <3>2, <4>2
        <4> QED
          BY <4>1, <4>2
      <3>4. s \in member[c] => s = client_server_group[c]
        BY PlacedIs DEF OneGroup
      <3>5. /\ OneTwo(inbox[c], s)' <=> OneTwo(inbox'[c], s)
            /\ Twos(inbox[c], s)' = Twos(inbox'[c], s)
        BY DEF OneTwo, Twos, About
      <3> QED
        BY <1>4, <3>1, <3>2, <3>3, <3>4, <3>5 DEF ToldOnce, SameSession
    <2> QED
      BY <2>2, <2>3
  <1>15. Standing(s, c)'
    BY <1>3, <1>4, <1>14 DEF Standing, SameSession
  <1> QED
    BY <1>5, <1>13, <1>15, PlacedParts

\* Any request.
LEMMA HandlerPlaced ==
  ASSUME TypeInv, far = {}, NEW s \in Server, RecvRequest(s), NEW c \in Client, Placed(c)
  PROVE  Placed(c)'
PROOF
  <1> DEFINE r == Head(inbox[s])
  <1>1. r = Head(inbox[s])
    OBVIOUS
  <1> HIDE DEF r
  <1>2. CASE c # r.client \/ r.op \notin {"c", "j"}
    BY <1>1, <1>2, RequestPlaced
  <1>3. CASE c = r.client /\ r.op \in {"c", "j"}
    BY <1>1, <1>3, MoverPlaced
  <1> QED
    BY <1>2, <1>3

--------------------------------------------------------------------------------
(* A leave that a server reads, updates and exits *)

\* A server reads that client d has left: it is where it stays, off the lists.
LEMMA LeaverPlaced ==
  ASSUME TypeInv, NEW s \in Server, RecvLeave(s), up'[s],
         NEW d \in Client, d = Head(inbox[s]).client, Placed(d)
  PROVE  Placed(d)'
PROOF
  <1>1. VariableType /\ ListType /\ IsBox(inbox)
    BY DEF TypeInv
  <1>2. up[s] /\ inbox[s] # <<>> /\ Head(inbox[s]) = Left(d) /\ inbox[s] \in Seq(ServerMessage)
    BY <1>1, HeadOfServer, MessageKinds DEF RecvLeave
  <1>3. /\ \A t \in Server, c \in Client : t # s \/ c # d => Stays(t, c)
        /\ OnOneList(s, d) => At(s, d)' = {} /\ OnOneList(s, d)'
        /\ UNCHANGED up /\ inbox' = ServerLeaves(Received(s), s, d)
        /\ joined' = [joined EXCEPT ![s] = @ \ {d}]
    BY <1>1, LeaveAt
  <1>4. UNCHANGED <<clientVars, member>>
    BY DEF RecvLeave
  <1>5. InPlace(s, d) /\ OnOneList(s, d)
    BY <1>2, PlacedIs
  <1>6. s \notin member[d]
    <2>1. s \in member[d] => NoLeft(inbox[s], d)
      BY <1>5, InPlaceIs
    <2> QED
      BY <1>2, <2>1, NoLeftTail
  <1>7. /\ inbox'[s] = Tail(inbox[s]) /\ inbox'[d] = inbox[d]
        /\ \A t \in Server : t # s => inbox'[t] = inbox[t]
    <2>1. /\ IsBox(Received(s))
          /\ \A p \in Proc : Received(s)[p] = IF p = s THEN Tail(inbox[p]) ELSE inbox[p]
      BY <1>1, <1>2, ReceivedAt, Processes
    <2>2. \A p \in Proc : ServerLeaves(Received(s), s, d)[p] = Received(s)[p]
      BY <1>6, <2>1, ServerLeavesAt DEF Both
    <2> QED
      BY <1>3, <2>1, <2>2, Processes
  <1>8. SameSession(d)
    BY <1>3, <1>4 DEF SameSession, clientVars, sessionVars
  <1>9. OneGroup(d)'
    BY <1>8, PlacedIs DEF OneGroup, SameSession
  <1>10. ASSUME NEW t \in Server, t # s PROVE Standing(t, d)'
    <2>1. NotMoved(t, d) /\ NoNews(d, t) /\ Standing(t, d)
      BY <1>7, <1>10, PlacedParts DEF NotMoved, NoNews
    <2>2. d \in joined'[t] <=> d \in joined[t]
      BY <1>1, <1>3, <1>10 DEF VariableType
    <2> QED
      BY <1>3, <1>8, <1>10, <2>1, <2>2, StandingKept
  <1>11. InPlace(s, d)'
    <2>1. IsMove(Head(inbox[s]), d) /\ After(Head(inbox[s])) = {}
      BY <1>2, Moving
    <2>2. d \notin joined'[s]
      BY <1>1, <1>3 DEF VariableType
    <2>3. Expected(d, s)' = Expected(d, s) /\ member'[d] = member[d]
      BY <1>8 DEF Expected, SameSession
    <2>4. /\ At(s, d)' = IF IsMove(Head(inbox[s]), d) THEN After(Head(inbox[s])) ELSE At(s, d)
          /\ d \in joined'[s] <=> At(s, d)' # {}
      BY <1>3, <1>5, <2>1, <2>2
    <2> QED
      BY <1>2, <1>3, <1>5, <1>7, <2>3, <2>4, InPlaceRead
  <1>12. ASSUME up[d] PROVE ToldOnce(d, s)'
    <2>1. ToldOnce(d, s)
      BY <1>2, <1>12, PlacedIs
    <2>2. s # client_server_group[d]
      BY <1>6, <1>12, Processes, PlacedIs DEF OneGroup
    <2>3. /\ OneTwo(inbox[d], s)' <=> OneTwo(inbox'[d], s)
          /\ Twos(inbox[d], s)' = Twos(inbox'[d], s)
      BY DEF OneTwo, Twos, About
    <2> QED
      BY <1>7, <1>8, <2>1, <2>2, <2>3 DEF ToldOnce, SameSession
  <1>13. Standing(s, d)'
    BY <1>3, <1>5, <1>8, <1>11, <1>12 DEF Standing, SameSession
  <1> QED
    BY <1>9, <1>10, <1>13, PlacedParts

\* The other clients when a leave is read.
LEMMA LeavePlaced ==
  ASSUME TypeInv, NEW s \in Server, RecvLeave(s), NEW c \in Client, Placed(c)
  PROVE  Placed(c)'
PROOF
  <1>1. VariableType /\ ListType /\ IsBox(inbox)
    BY DEF TypeInv
  <1>2. /\ inbox[s] # <<>> /\ Head(inbox[s]) \in ServerMessage /\ Head(inbox[s]).type = "Left"
    BY <1>1, HeadOfServer DEF RecvLeave
  <1>3. /\ Head(inbox[s]).client \in Client /\ Head(inbox[s]) = Left(Head(inbox[s]).client)
    BY <1>2, MessageKinds
  <1>4. PICK d \in Client : d = Head(inbox[s]).client
    BY <1>3
  <1>5. /\ IsBox(Received(s))
        /\ \A p \in Proc : Received(s)[p] = IF p = s THEN Tail(inbox[p]) ELSE inbox[p]
    BY <1>1, <1>2, ReceivedAt, Processes
  <1>6. UNCHANGED <<clientVars, member>>
    BY DEF RecvLeave
  <1>7. /\ \A p \in Proc : p # s => up'[p] = up[p]
        /\ up'[s] => up[s]
    BY <1>1, Processes DEF RecvLeave, Exit, VariableType
  <1>8. SameSession(c)
    BY <1>6, <1>7, Processes DEF SameSession, clientVars, sessionVars
  <1>9. CASE ~ up'[s]
    <2>1. inbox' = Received(s) /\ UNCHANGED <<client_list, db_list, joined>>
      <3>1. UNCHANGED up => FALSE
        BY <1>1, <1>9, HeadOfServer DEF RecvLeave
      <3> QED
        BY <3>1 DEF RecvLeave
    <2>2. ASSUME NEW t \in Server, up'[t]
          PROVE  up[t] /\ NotMoved(t, c) /\ (c \in joined'[t] <=> c \in joined[t]) /\ NoNews(c, t)
      BY <1>5, <1>7, <1>9, <2>1, <2>2, Processes DEF NotMoved, NoNews
    <2>3. \A t \in Server : Stays(t, c)
      BY <2>1, StaysWhenSame
    <2> QED
      BY <1>8, <2>2, <2>3, PlacedKept
  <1>10. CASE up'[s] /\ c = d
    BY <1>4, <1>10, LeaverPlaced
  <1>11. CASE up'[s] /\ c # d
    <2>1. /\ \A t \in Server, e \in Client : t # s \/ e # d => Stays(t, e)
          /\ UNCHANGED up /\ inbox' = ServerLeaves(Received(s), s, d)
          /\ joined' = [joined EXCEPT ![s] = @ \ {d}]
      BY <1>1, <1>4, <1>11, LeaveAt
    <2>2. \A p \in Proc : p # d => inbox'[p] = IF p = s THEN Tail(inbox[p]) ELSE inbox[p]
      BY <1>5, <2>1, ServerLeavesAt
    <2>3. inbox'[c] = inbox[c] /\ \A t \in Server : inbox'[t] = IF t = s THEN Tail(inbox[t]) ELSE inbox[t]
      BY <1>11, <2>2, Processes
    <2>4. ~ IsMove(Head(inbox[s]), c)
      BY <1>3, <1>4, <1>11, Moving
    <2>5. ASSUME NEW t \in Server
          PROVE  NotMoved(t, c) /\ (c \in joined'[t] <=> c \in joined[t]) /\ NoNews(c, t) /\ Stays(t, c)
      BY <1>1, <1>2, <1>11, <2>1, <2>3, <2>4 DEF NotMoved, NoNews, VariableType
    <2> QED
      BY <1>8, <2>1, <2>5, PlacedKept
  <1> QED
    BY <1>9, <1>10, <1>11

\* Clients are sent responses.
LEMMA ServeResponds ==
  ASSUME TypeInv, NEW s \in Server, NEW c \in Client, NEW box, IsBox(box), box[c] = inbox[c],
         NEW u \in UpdateMessage, inbox' = Serve(box, s, u)
  PROVE  OnlyResponses(c)
PROOF
  <1> DEFINE m == Response(u.op, u.obj_id)
  <1>1. ListType
    BY DEF TypeInv
  <1>2. /\ Serve(box, s, u)[c] = IF c \in JoinedTo(s, u.db_name) /\ up[c] /\ Together(s, c)
                                   THEN Append(box[c], m) ELSE box[c]
        /\ m \in ClientMessage /\ m.type = "Response"
    BY <1>1, ServeAt, Processes
  <1> HIDE DEF m
  <1> QED
    BY <1>2 DEF OnlyResponses

\* Updates are served as responses.
LEMMA UpdatesRespond ==
  ASSUME TypeInv, NEW s \in Server, NEW c \in Client,
         RecvOwnUpdate(s) \/ \E u \in NewsFor(s) : News(s, u)
  PROVE  OnlyResponses(c)
PROOF
  <1>1. IsBox(inbox) /\ FileType
    BY DEF TypeInv
  <1>2. CASE RecvOwnUpdate(s)
    <2> DEFINE u == Head(inbox[s])
    <2>1. u \in UpdateMessage /\ inbox[s] # <<>>
      BY <1>1, <1>2, HeadOfServer, MessageKinds DEF RecvOwnUpdate
    <2>2. inbox' = Received(s) \/ inbox' = Serve(Received(s), s, u)
      BY <1>2 DEF RecvOwnUpdate
    <2> HIDE DEF u
    <2>3. IsBox(Received(s)) /\ Received(s)[c] = inbox[c]
      BY <1>1, <2>1, ReceivedAt, Processes
    <2> QED
      BY <2>1, <2>2, <2>3, ServeResponds DEF OnlyResponses
  <1>3. ASSUME NEW u \in NewsFor(s), News(s, u) PROVE OnlyResponses(c)
    <2>1. u \in UpdateMessage /\ inbox' = Serve(inbox, s, u)
      BY <1>1, <1>3, NewsUpdates DEF News
    <2> QED
      BY <1>1, <2>1, ServeResponds
  <1> QED
    BY <1>2, <1>3

\* Updates and exits move nobody, and who is told that a server has exited is told
\* nothing of the others.
LEMMA UpdatePlaced ==
  ASSUME TypeInv, NEW s \in Server, NEW c \in Client, Placed(c),
         \/ RecvOwnUpdate(s) \/ Crash(s) \/ Disconnect(s)
         \/ \E u \in NewsFor(s) : News(s, u)
  PROVE  Placed(c)'
PROOF
  <1>1. VariableType /\ ListType /\ FileType /\ IsBox(inbox) /\ inbox[c] \in Seq(ClientMessage)
    BY BoxAt DEF TypeInv
  <1>2. UNCHANGED <<clientVars, member, client_list, db_list>>
    BY DEF RecvOwnUpdate, Crash, Disconnect, News, serverVars, netVars
  <1>3. /\ \A p \in Proc : p # s => up'[p] = up[p]
        /\ up'[s] => up[s]
    BY <1>1, Processes DEF RecvOwnUpdate, Crash, Exit, Disconnect, News, VariableType
  <1>4. SameSession(c) /\ \A t \in Server : Stays(t, c) /\ (up'[t] => up[t])
    BY <1>2, <1>3, Processes, StaysWhenSame DEF SameSession, clientVars, sessionVars
  <1>5. CASE RecvOwnUpdate(s)
    <2> DEFINE u == Head(inbox[s])
    <2>1. u \in UpdateMessage /\ inbox[s] # <<>>
      BY <1>1, <1>5, HeadOfServer, MessageKinds DEF RecvOwnUpdate
    <2>2. (inbox' = Received(s) \/ inbox' = Serve(Received(s), s, u)) /\ UNCHANGED joined
      BY <1>5 DEF RecvOwnUpdate, netVars
    <2>3. ~ IsMove(u, c)
      BY <2>1, Moving
    <2> HIDE DEF u
    <2>4. /\ IsBox(Received(s)) /\ Received(s)[s] = Tail(inbox[s])
          /\ \A p \in Proc : p # s => Received(s)[p] = inbox[p]
      BY <1>1, <2>1, ReceivedAt, Processes
    <2>5. \A t \in Server : Serve(Received(s), s, u)[t] = Received(s)[t]
      BY <1>1, <2>1, <2>4, ServeAt, Processes
    <2>6. \A t \in Server : inbox'[t] = IF t = s THEN Tail(inbox[t]) ELSE inbox[t]
      BY <2>2, <2>4, <2>5, Processes
    <2>7. OnlyResponses(c)
      BY <1>5, UpdatesRespond
    <2>8. ASSUME NEW t \in Server PROVE NotMoved(t, c) /\ NoNews(c, t)
      BY <2>1, <2>3, <2>6, <2>7, ResponsesTell DEF NotMoved, NoNews, u
    <2> QED
      BY <1>4, <2>2, <2>8, PlacedKept
  <1>6. CASE Crash(s)
    <2>1. UNCHANGED <<inbox, joined>>
      BY <1>6 DEF Crash, netVars
    <2> QED
      BY <1>4, <2>1, PlacedKept DEF NotMoved, NoNews
  <1>7. CASE Disconnect(s)
    <2> DEFINE m == Membership(s, 1, "gone")
    <2>1. ~ up[s] /\ joined' = [joined EXCEPT ![s] = {}]
      BY <1>7 DEF Disconnect
    <2>2. /\ \A t \in Server : t # s => inbox'[t] = inbox[t]
          /\ inbox'[c] = inbox[c] \/ inbox'[c] = Append(inbox[c], m)
      BY <1>7, DisconnectAt
    <2>3. m \in ClientMessage /\ \A t \in Server : IsAbout(m, t) <=> t = s
      BY ClientMessages DEF IsAbout
    <2> HIDE DEF m
    <2>4. ASSUME NEW t \in Server, t # s PROVE NotMoved(t, c) /\ NoNews(c, t)
      <3>1. ASSUME OneTwo(inbox[c], t)
            PROVE  /\ OneTwo(Append(inbox[c], m), t)
                   /\ Twos(Append(inbox[c], m), t) # {} => Twos(inbox[c], t) # {}
        BY <1>1, <2>3, <2>4, <3>1, OneTwoAppend
      <3> QED
        BY <2>2, <2>4, <3>1 DEF NotMoved, NoNews
    <2>5. ASSUME NEW t \in Server, up'[t]
          PROVE  /\ up[t] /\ NotMoved(t, c) /\ (c \in joined'[t] <=> c \in joined[t])
                 /\ NoNews(c, t)
      <3>1. t # s /\ up[t]
        BY <1>4, <2>1, <2>5
      <3> QED
        BY <1>1, <2>1, <2>4, <3>1 DEF VariableType
    <2> QED
      BY <1>4, <2>5, PlacedKept
  <1>8. ASSUME NEW u \in NewsFor(s), News(s, u) PROVE Placed(c)'
    <2>1. u \in UpdateMessage /\ inbox' = Serve(inbox, s, u) /\ UNCHANGED joined
      BY <1>1, <1>8, NewsUpdates DEF News, netVars
    <2>2. \A t \in Server : inbox'[t] = inbox[t]
      BY <1>1, <2>1, ServeAt, Processes
    <2>3. OnlyResponses(c)
      BY <1>8, UpdatesRespond
    <2>4. ASSUME NEW t \in Server PROVE NotMoved(t, c) /\ NoNews(c, t)
      BY <2>2, <2>3, ResponsesTell DEF NotMoved, NoNews
    <2> QED
      BY <1>4, <2>1, <2>4, PlacedKept
  <1> QED
    BY <1>5, <1>6, <1>7, <1>8

--------------------------------------------------------------------------------
(* The places, step by step *)

LEMMA PlaceInvIs ==
  /\ PlaceInv <=> (ExitsOnly => NotInSync /\ AllPlaced)
  /\ PlaceInv' <=> (ExitsOnly' => NotInSync' /\ AllPlaced')
PROOF
  BY DEF PlaceInv, AllPlaced

\* No server is in a synchronisation if none was ever started.
LEMMA NotInSyncStep ==
  ASSUME NotInSync, QueueType, VariableType, [Next]_vars, "sync" \notin disturbed'
  PROVE  NotInSync' /\ \A s \in Server : ~ Drain(s) /\ ~ EndSync(s) /\ ~ StartSync(s)
PROOF
  <1>1. \A s \in Server : ~ Drain(s) /\ ~ EndSync(s) /\ ~ StartSync(s)
    BY Disturbances DEF Drain, EndSync, NotInSync
  <1>2. UNCHANGED syncVars
    <2>1. ASSUME NEW c \in Client, UserCommand(c) \/ ClientStep(c) \/ Reconnect(c)
          PROVE  UNCHANGED syncVars
      BY <2>1 DEF UserCommand, Connect, Join, JoinRefused, Post, Change, Quit, AskView, Command, ClientStep,
                  RecvResponse, RecvMembership, Reconnect, serverVars
    <2>2. ASSUME NEW s \in Server, ServerStep(s) \/ Crash(s) \/ Disconnect(s)
          PROVE  UNCHANGED syncVars
      <3>1. ~ syncOn[s] /\ ~ Drain(s)
        BY <1>1 DEF NotInSync
      <3> QED
        BY <2>2, <3>1 DEF ServerStep, RecvRequest, RecvOwnUpdate, RecvLeave, Crash, Disconnect, serverVars,
                          syncVars
    <2>3. ASSUME NEW s \in Server, NEW u \in NewsFor(s), News(s, u) PROVE UNCHANGED syncVars
      BY <2>3 DEF News
    <2>4. ASSUME NEW A \in SUBSET Proc, Partition(A) PROVE UNCHANGED syncVars
      BY <2>4 DEF Partition, serverVars
    <2>5. CASE UNCHANGED vars
      BY <2>5 DEF vars, serverVars
    <2> QED
      BY <1>1, <2>1, <2>2, <2>3, <2>4, <2>5 DEF Next
  <1> QED
    BY <1>1, <1>2 DEF NotInSync, syncVars

\* Every step keeps the clients placed.
LEMMA PlaceStep == TypeInv /\ ConnectionInv /\ LeaveInv /\ PlaceInv /\ [Next]_vars => PlaceInv'
PROOF
  <1> SUFFICES ASSUME TypeInv, ConnectionInv, LeaveInv, PlaceInv, [Next]_vars, ExitsOnly'
               PROVE  NotInSync' /\ AllPlaced'
    BY PlaceInvIs
  <1>1. /\ ExitsOnly /\ "fault" \notin disturbed' /\ "sync" \notin disturbed'
        /\ "fault" \notin disturbed
    BY Disturbances DEF ExitsOnly
  <1>2. far = {} /\ NotInSync /\ AllPlaced
    BY <1>1, PlaceInvIs DEF LeaveInv
  <1>3. /\ NotInSync'
        /\ \A s \in Server : ~ Drain(s) /\ ~ EndSync(s) /\ ~ StartSync(s)
    BY <1>1, <1>2, NotInSyncStep DEF TypeInv
  <1>4. ASSUME NEW c \in Client, UserCommand(c) \/ ClientStep(c) PROVE AllPlaced'
    BY <1>2, <1>4, ClientPlaced
  <1>5. ASSUME NEW s \in Server, \/ ServerStep(s) \/ Crash(s) \/ Disconnect(s)
                                 \/ \E u \in NewsFor(s) : News(s, u)
        PROVE  AllPlaced'
    <2> SUFFICES ASSUME NEW c \in Client, ~ hasty'[c] PROVE Placed(c)'
      BY DEF AllPlaced
    <2>1. ~ hasty[c]
      BY <1>5 DEF ServerStep, RecvRequest, RecvOwnUpdate, RecvLeave, Drain, Crash, Disconnect, News, clientVars,
                  historyVars
    <2>2. Placed(c)
      BY <1>2, <2>1 DEF AllPlaced
    <2>3. CASE RecvRequest(s)
      BY <1>2, <2>2, <2>3, HandlerPlaced
    <2>4. CASE RecvLeave(s)
      BY <2>2, <2>4, LeavePlaced
    <2>5. CASE \/ RecvOwnUpdate(s) \/ Crash(s) \/ Disconnect(s)
               \/ \E u \in NewsFor(s) : News(s, u)
      BY <2>2, <2>5, UpdatePlaced
    <2> QED
      BY <1>3, <1>5, <2>3, <2>4, <2>5 DEF ServerStep
  <1>6. CASE UNCHANGED vars
    <2>1. UNCHANGED <<up, inbox, member, joined, client_list, db_list, sessionVars, hasty>>
      BY <1>6 DEF vars, netVars, serverVars, clientVars, historyVars
    <2> SUFFICES ASSUME NEW c \in Client, ~ hasty'[c] PROVE Placed(c)'
      BY <1>3 DEF AllPlaced
    <2>2. SameSession(c) /\ \A s \in Server : NotMoved(s, c) /\ NoNews(c, s) /\ Stays(s, c)
      BY <2>1, StaysWhenSame DEF SameSession, NotMoved, NoNews, sessionVars
    <2>3. Placed(c)
      BY <1>2, <2>1 DEF AllPlaced
    <2> QED
      BY <2>1, <2>2, <2>3, PlacedKept
  <1>7. \A c \in Client : ~ Reconnect(c)
    BY <1>1, Disturbances
  <1>8. \A A \in SUBSET Proc : ~ Partition(A)
    BY <1>1, Disturbances
  <1> QED
    BY <1>3, <1>4, <1>5, <1>6, <1>7, <1>8 DEF Next

LEMMA PlaceInit == Init => PlaceInv
PROOF
  <1> SUFFICES ASSUME Init PROVE NotInSync /\ AllPlaced
    BY PlaceInvIs
  <1>1. NotInSync
    BY DEF Init, NotInSync
  <1>2. ASSUME NEW c \in Client PROVE Placed(c)
    <2>1. OneGroup(c)
      BY DEF Init, OneGroup
    <2>2. ASSUME NEW s \in Server PROVE Standing(s, c)
      <3>1. /\ inbox[s] = <<>> /\ inbox[c] = <<>> /\ member[c] = {} /\ joined[s] = {}
            /\ client_list[s] = <<>> /\ db_list[s] = <<>> /\ ~ client_connected[c]
        BY Processes DEF Init
      <3> HIDE DEF Init
      <3>2. /\ DOMAIN inbox[s] = {} /\ DOMAIN inbox[c] = {} /\ DOMAIN client_list[s] = {}
            /\ DOMAIN db_list[s] = {}
        BY <3>1, EmptySeq
      <3>3. ToSet(client_list[s]) = {}
        BY <3>2, NothingIn
      <3>4. At(s, c) = {}
        BY <3>2, <3>3 DEF At, NodesWith
      <3>5. OnOneList(s, c)
        BY <3>2, <3>4 DEF OnOneList, Once
      <3>6. Moves(inbox[s], c) = {}
        BY <3>2 DEF Moves
      <3>7. AllFit(inbox[s], c, At(s, c)) /\ EndPlace(inbox[s], c, At(s, c)) = {}
        BY <3>4, <3>6 DEF AllFit, EndPlace, PlaceBefore
      <3>8. InPlace(s, c)
        BY <3>1, <3>4, <3>7, InPlaceIs DEF Expected
      <3>9. ToldOnce(c, s)
        BY <3>1, <3>2 DEF ToldOnce, OneTwo, Twos, About
      <3> QED
        BY <3>5, <3>8, <3>9 DEF Standing
    <2> QED
      BY <2>1, <2>2, PlacedParts
  <1> QED
    BY <1>1, <1>2 DEF AllPlaced

\* With it the fourth part of the invariant holds over every behaviour.
LEMMA PlaceHolds == Spec => [](TypeInv /\ ConnectionInv /\ LeaveInv /\ PlaceInv)
PROOF
  <1>1. Init => TypeInv /\ ConnectionInv /\ LeaveInv /\ PlaceInv
    BY TypeInit, ConnectionInit, LeaveInit, PlaceInit
  <1>2. TypeInv /\ ConnectionInv /\ LeaveInv /\ PlaceInv /\ [Next]_vars =>
          (TypeInv /\ ConnectionInv /\ LeaveInv /\ PlaceInv)'
    BY TypeStep, ConnectionStep, LeaveStep, PlaceStep
  <1> QED
    BY <1>1, <1>2, PTL DEF Spec

\* A client whose user waits for a connection is on the list its join names when the
\* server handles it: join_db never ends the server, whatever the other clients do and
\* whichever servers exit.
THEOREM JoinsFindClients == Spec => []JoinFindsClient
PROOF
  <1>1. TypeInv /\ PlaceInv => JoinFindsClient
    <2> SUFFICES ASSUME TypeInv, PlaceInv, ExitsOnly, NEW s \in Server, Receives(s, "Client"),
                        Head(inbox[s]).op = "j", ~ hasty[Head(inbox[s]).client]
                 PROVE  ~ JoinFails(s, Head(inbox[s]))
      BY DEF JoinFindsClient
    <2> DEFINE r == Head(inbox[s])
    <2>1. r.client \in Client
      BY HeadOfServer, MessageKinds DEF TypeInv, RequestMessage
    <2>2. PICK c \in Client : c = r.client
      BY <2>1
    <2>3. Placed(c)
      BY <2>2, PlaceInvIs DEF AllPlaced
    <2>4. r = Head(inbox[s]) /\ r.op = "j"
      OBVIOUS
    <2> HIDE DEF r
    <2>5. ~ JoinFails(s, r)
      BY <2>2, <2>3, <2>4, MovePlaced
    <2> QED
      BY <2>4, <2>5
  <1> QED
    BY <1>1, PlaceHolds, PTL

\* A set whose elements are all equal has at most one.
LEMMA AtMostOne ==
  ASSUME NEW S, \A x, y \in S : x = y
  PROVE  Cardinality(S) <= 1
PROOF
  <1>1. CASE S = {}
    BY <1>1, FS_EmptySet
  <1>2. CASE S # {}
    <2>1. PICK x \in S : TRUE
      BY <1>2
    <2>2. S = {x}
      BY <2>1
    <2> QED
      BY <2>2, FS_Singleton
  <1> QED
    BY <1>1, <1>2

\* Such a client is on one list of a server and there once: serve_clients copies it into
\* its array of ten one time.
THEOREM OncePerServer == Spec => []OnBoardOnce
PROOF
  <1>1. TypeInv /\ PlaceInv => OnBoardOnce
    <2> SUFFICES ASSUME TypeInv, PlaceInv, ExitsOnly, NEW s \in Server, NEW c \in Client, ~ hasty[c]
                 PROVE  /\ Cardinality(NodesWith(s, c)) <= 1
                        /\ \A i \in DOMAIN db_list[s] : Times(db_list[s][i].clients, c) <= 1
      BY DEF OnBoardOnce
    <2>1. OnOneList(s, c)
      BY PlaceInvIs, PlacedIs DEF AllPlaced
    <2>2. ASSUME NEW i \in NodesWith(s, c), NEW j \in NodesWith(s, c) PROVE i = j
      <3>1. db_list[s][i].db_name \in At(s, c) /\ db_list[s][j].db_name \in At(s, c)
        BY <2>2 DEF At
      <3>2. db_list[s][i].db_name = db_list[s][j].db_name
        BY <2>1, <3>1 DEF OnOneList
      <3>3. i \in DOMAIN db_list[s] /\ j \in DOMAIN db_list[s]
        BY <2>2 DEF NodesWith
      <3> QED
        BY <3>2, <3>3 DEF TypeInv, ListType
    <2>3. Cardinality(NodesWith(s, c)) <= 1
      BY <2>2, AtMostOne
    <2>4. ASSUME NEW i \in DOMAIN db_list[s] PROVE Times(db_list[s][i].clients, c) <= 1
      <3> DEFINE list == db_list[s][i].clients
                 places == {j \in DOMAIN list : list[j] = c}
      <3>1. Once(list, c)
        BY <2>1 DEF OnOneList
      <3>2. \A x, y \in places : x = y
        BY <3>1 DEF Once
      <3> HIDE DEF places
      <3>3. Cardinality(places) <= 1
        BY <3>2, AtMostOne
      <3> QED
        BY <3>3 DEF Times, places
    <2> QED
      BY <2>3, <2>4
  <1> QED
    BY <1>1, PlaceHolds, PTL

--------------------------------------------------------------------------------
(* What a client is told when no server has exited *)

NoMembership(q) == \A i \in DOMAIN q : q[i].type # "Membership"

\* That every membership is about one group is kept as messages come and go.
LEMMA AllAboutAppend ==
  ASSUME NEW q \in Seq(ClientMessage), NEW s, NEW m \in ClientMessage,
         \/ AllAbout(q, s) /\ (IsAbout(m, s) \/ m.type # "Membership") /\ Twos(q, s) = {}
         \/ AllAbout(q, s) /\ m.type # "Membership"
  PROVE  /\ AllAbout(Append(q, m), s)
         /\ NoMembership(q) /\ m.type # "Membership" => NoMembership(Append(q, m))
PROOF
  <1> DEFINE a == Append(q, m)
             n == Len(q) + 1
  <1>1. /\ DOMAIN q = 1 .. Len(q) /\ Len(q) \in Nat /\ DOMAIN a = 1 .. Len(q) + 1
        /\ \A i \in 1 .. Len(q) : a[i] = q[i]
        /\ a[Len(q) + 1] = m
    BY AppendAt
  <1>2. /\ IsAbout(m, s) => /\ m.members = 2 => Twos(a, s) = Twos(q, s) \cup {n}
                            /\ m.members # 2 => Twos(a, s) = Twos(q, s)
        /\ ~ IsAbout(m, s) => Twos(a, s) = Twos(q, s)
    BY AboutAppend
  <1> HIDE DEF a
  <1>3. ASSUME NEW i \in DOMAIN a, a[i].type = "Membership" PROVE a[i].group = s
    <2>1. AllAbout(q, s) /\ (m.type = "Membership" => m.group = s)
      BY DEF IsAbout
    <2>2. CASE i = Len(q) + 1
      BY <1>1, <1>3, <2>1, <2>2
    <2>3. CASE i \in DOMAIN q
      BY <1>1, <1>3, <2>1, <2>3 DEF AllAbout
    <2> QED
      BY <1>1, <2>2, <2>3
  <1>4. ASSUME NEW i \in DOMAIN a, a[i].type = "Membership", NEW j \in Twos(a, s)
        PROVE  a[i].group = s /\ i <= j
    <2>1. CASE m.type # "Membership"
      <3>1. i \in DOMAIN q /\ a[i] = q[i] /\ ~ IsAbout(m, s)
        BY <1>1, <1>4, <2>1 DEF IsAbout
      <3> QED
        BY <1>2, <1>4, <2>1, <3>1 DEF AllAbout
    <2>2. CASE m.type = "Membership"
      <3>1. IsAbout(m, s) /\ Twos(q, s) = {} /\ j = n
        BY <1>2, <1>4, <2>2
      <3> QED
        BY <1>1, <1>4, <1>3, <3>1
    <2> QED
      BY <2>1, <2>2
  <1>5. NoMembership(q) /\ m.type # "Membership" => NoMembership(a)
    BY <1>1 DEF NoMembership
  <1> QED
    BY <1>4, <1>3, <1>5 DEF AllAbout, a

LEMMA AllAboutTail ==
  ASSUME NEW q \in Seq(ClientMessage), q # <<>>, NEW s, AllAbout(q, s)
  PROVE  /\ AllAbout(Tail(q), s)
         /\ Head(q).type = "Membership" => IsAbout(Head(q), s)
         /\ 1 \in Twos(q, s) \/ NoMembership(q) => NoMembership(Tail(q))
PROOF
  <1> DEFINE t == Tail(q)
  <1>1. /\ \A i \in DOMAIN t : t[i] = q[i + 1] /\ i + 1 \in DOMAIN q /\ i \in Nat
        /\ \A i : i \in Twos(t, s) <=> i \in Nat \ {0} /\ i + 1 \in Twos(q, s)
    BY AboutTail
  <1>2. 1 \in DOMAIN q /\ q[1] = Head(q) /\ DOMAIN t = 1 .. Len(q) - 1 /\ Len(q) \in Nat
    BY TailAt
  <1> HIDE DEF t
  <1>3. ASSUME NEW i \in DOMAIN t, t[i].type = "Membership"
        PROVE  t[i].group = s /\ \A j \in Twos(t, s) : i <= j
    <2>1. q[i + 1].group = s /\ \A j \in Twos(q, s) : i + 1 <= j
      BY <1>1, <1>3 DEF AllAbout
    <2> QED
      BY <1>1, <1>3, <2>1
  <1>4. Head(q).type = "Membership" => IsAbout(Head(q), s)
    BY <1>2 DEF AllAbout, IsAbout
  <1>5. ASSUME 1 \in Twos(q, s) \/ NoMembership(q), NEW i \in DOMAIN t PROVE t[i].type # "Membership"
    <2>1. q[i + 1].type = "Membership" => \A j \in Twos(q, s) : i + 1 <= j
      BY <1>1, <1>5 DEF AllAbout
    <2>2. i \in Nat /\ i >= 1
      BY <1>2, <1>5
    <2>3. q[i + 1].type # "Membership"
      BY <1>1, <1>5, <2>1, <2>2 DEF NoMembership
    <2> QED
      BY <1>1, <1>5, <2>3
  <1> QED
    BY <1>3, <1>4, <1>5 DEF AllAbout, NoMembership, t

LEMMA AllAboutConcat ==
  ASSUME NEW q \in Seq(ClientMessage), NEW w \in Seq(ClientMessage), NEW s, AllAbout(q, s),
         \A i \in DOMAIN w : w[i].type = "Response"
  PROVE  AllAbout(q \o w, s) /\ (NoMembership(q) => NoMembership(q \o w))
PROOF
  <1> DEFINE a == q \o w
  <1>1. /\ DOMAIN q = 1 .. Len(q) /\ Len(q) \in Nat /\ DOMAIN w = 1 .. Len(w) /\ Len(w) \in Nat
        /\ DOMAIN a = 1 .. Len(q) + Len(w)
        /\ \A i \in 1 .. Len(q) : a[i] = q[i]
        /\ \A i \in 1 .. Len(w) : a[Len(q) + i] = w[i]
    BY ConcatAt
  <1>2. Twos(a, s) = Twos(q, s)
    BY AboutResponses, AboutConcat
  <1> HIDE DEF a
  <1>3. ASSUME NEW i \in DOMAIN a, a[i].type = "Membership" PROVE i \in DOMAIN q /\ a[i] = q[i]
    <2>1. CASE i <= Len(q)
      BY <1>1, <2>1
    <2>2. CASE i > Len(q)
      <3>1. i - Len(q) \in DOMAIN w /\ a[i] = w[i - Len(q)]
        BY <1>1, <2>2
      <3> QED
        BY <1>3, <3>1
    <2> QED
      BY <1>1, <2>1, <2>2
  <1>4. AllAbout(a, s)
    BY <1>2, <1>3 DEF AllAbout
  <1>5. NoMembership(q) => NoMembership(a)
    BY <1>3 DEF NoMembership
  <1> QED
    BY <1>4, <1>5 DEF a

LEMMA AllAboutResponds ==
  ASSUME TypeInv, NEW c \in Client, OnlyResponses(c), NEW s, AllAbout(inbox[c], s)
  PROVE  AllAbout(inbox'[c], s) /\ (NoMembership(inbox[c]) => NoMembership(inbox'[c]))
PROOF
  <1> DEFINE q == inbox[c]
  <1>1. q \in Seq(ClientMessage)
    BY BoxAt DEF TypeInv
  <1>2. CASE inbox'[c] = q
    BY <1>2
  <1>3. CASE inbox'[c] = Tail(q) /\ q # <<>> /\ Head(q).type = "Response"
    BY <1>1, <1>3, AllAboutTail
  <1>4. CASE \E w \in Seq(ClientMessage) : /\ \A i \in DOMAIN w : w[i].type = "Response"
                                           /\ inbox'[c] = q \o w
    BY <1>1, <1>4, AllAboutConcat
  <1>5. CASE \E m \in ClientMessage : m.type = "Response" /\ inbox'[c] = Append(q, m)
    BY <1>1, <1>5, AllAboutAppend
  <1> QED
    BY <1>2, <1>3, <1>4, <1>5 DEF OnlyResponses

\* A client is informed, by parts, now and after a step.
LEMMA InformedIs ==
  ASSUME NEW c \in Client, NEW g, g = client_server_group[c]
  PROVE  Informed(c) <=>
           /\ AllAbout(inbox[c], g)
           /\ client_connected[c] \/ g = NoServer => NoMembership(inbox[c])
           /\ g # NoServer /\ ~ client_connected[c] /\ c \in joined[g] => Twos(inbox[c], g) # {}
PROOF
  BY DEF Informed, NoMembership

LEMMA InformedNext ==
  ASSUME NEW c \in Client, NEW g, g = client_server_group'[c],
         AllAbout(inbox'[c], g), client_connected'[c] \/ g = NoServer => NoMembership(inbox'[c]),
         g # NoServer /\ ~ client_connected'[c] /\ c \in joined'[g] => Twos(inbox'[c], g) # {}
  PROVE  Informed(c)'
PROOF
  BY DEF Informed, NoMembership, AllAbout, Twos, About

\* The client believes what it did, and hears of no group.
LEMMA InformedKept ==
  ASSUME TypeInv, NEW c \in Client, Placed(c), up[c], \A s \in Server : up[s], Informed(c),
         OnlyResponses(c), client_server_group'[c] = client_server_group[c],
         client_connected'[c] = client_connected[c],
         \A s \in Server : c \in joined'[s] => c \in joined[s]
  PROVE  Informed(c)'
PROOF
  <1>1. PICK g \in Server \cup {NoServer} : g = client_server_group[c]
    BY DEF TypeInv, VariableType
  <1>2. /\ AllAbout(inbox[c], g)
        /\ client_connected[c] \/ g = NoServer => NoMembership(inbox[c])
        /\ g # NoServer /\ ~ client_connected[c] /\ c \in joined[g] => Twos(inbox[c], g) # {}
    BY <1>1, InformedIs
  <1>3. AllAbout(inbox'[c], g) /\ (NoMembership(inbox[c]) => NoMembership(inbox'[c]))
    BY <1>2, AllAboutResponds
  <1>4. ASSUME g # NoServer, ~ client_connected'[c], c \in joined'[g] PROVE Twos(inbox'[c], g) # {}
    <2>1. g \in Server /\ Twos(inbox[c], g) # {}
      BY <1>1, <1>2, <1>4
    <2>2. OneTwo(inbox[c], g)
      BY <2>1, PlacedIs DEF ToldOnce
    <2> QED
      BY <2>1, <2>2, ResponsesTell
  <1> QED
    BY <1>1, <1>2, <1>3, <1>4, InformedNext

\* A connect: the client is told at once, or when the server has joined.
LEMMA ConnectInformed ==
  ASSUME TypeInv, ConnectionInv, NEW d \in Client, Placed(d), far = {}, \A t \in Server : up[t],
         Informed(d), NEW s \in Server, Connect(d, s), ~ hasty'[d]
  PROVE  Informed(d)'
PROOF
  <1> DEFINE q == inbox[d]
             n == IF Meets(d, s) THEN 2 ELSE 1
             m == Membership(s, n, "join")
  <1>1. /\ up[d] /\ ~ Waits(d) /\ ConnectState(d, s) /\ UNCHANGED joined
    BY ConnectBelief
  <1>2. q \in Seq(ClientMessage)
    BY BoxAt DEF TypeInv
  <1>3. NoMembership(q)
    <2>1. client_connected[d] \/ client_server_group[d] = NoServer
      BY <1>1 DEF Waits
    <2> QED
      BY <2>1, InformedIs
  <1>4. n \in {1, 2} /\ (n = 2 <=> d \in joined[s])
    BY DEF Meets, Together
  <1> HIDE DEF n
  <1>5. m \in ClientMessage /\ m.type = "Membership" /\ m.members = n /\ IsAbout(m, s)
    BY <1>4, ClientMessages DEF IsAbout
  <1>6. inbox'[d] = Append(q, m)
    BY <1>1, ConnectBoxes DEF ConnectState, n
  <1> HIDE DEF m
  <1>7. AllAbout(q, s) /\ Twos(q, s) = {}
    BY <1>3 DEF AllAbout, NoMembership, Twos, About
  <1>8. AllAbout(Append(q, m), s)
    BY <1>2, <1>5, <1>7, AllAboutAppend
  <1>9. d \in joined[s] => Twos(Append(q, m), s) # {}
    <2>1. m.members = 2 => Twos(Append(q, m), s) = Twos(q, s) \cup {Len(q) + 1}
      BY <1>2, <1>5, AboutAppend
    <2> QED
      BY <1>4, <1>5, <2>1
  <1>10. client_server_group'[d] = s /\ ~ client_connected'[d] /\ s # NoServer
    BY <1>1, Processes DEF ConnectState
  <1> QED
    BY <1>1, <1>6, <1>8, <1>9, <1>10, InformedNext

\* The client reads what it is told.
LEMMA MembershipInformed ==
  ASSUME TypeInv, NEW d \in Client, Placed(d), \A t \in Server : up[t], Informed(d),
         RecvMembership(d)
  PROVE  Informed(d)'
PROOF
  <1> DEFINE q == inbox[d]
             m == Head(q)
  <1>1. /\ VariableType /\ IsBox(inbox) /\ up[d] /\ q # <<>> /\ q \in Seq(ClientMessage)
        /\ m \in ClientMessage /\ m.type = "Membership" /\ m.group \in Server /\ m.members \in {1, 2}
    BY HeadOfClient, MessageKinds DEF RecvMembership, TypeInv
  <1>2. PICK g \in Server \cup {NoServer} : g = client_server_group[d]
    BY <1>1 DEF VariableType
  <1>3. /\ AllAbout(q, g)
        /\ client_connected[d] \/ g = NoServer => NoMembership(q)
        /\ g # NoServer /\ ~ client_connected[d] /\ d \in joined[g] => Twos(q, g) # {}
    BY <1>2, InformedIs
  <1>4. /\ AllAbout(Tail(q), g) /\ IsAbout(m, g)
        /\ 1 \in Twos(q, g) => NoMembership(Tail(q))
    BY <1>1, <1>3, AllAboutTail
  <1>5. g \in Server /\ g # NoServer /\ m.group = g
    BY <1>1, <1>4, Processes DEF IsAbout
  <1>6. ~ client_connected[d]
    <2>1. 1 \in DOMAIN q /\ q[1] = m
      BY <1>1, TailAt
    <2> QED
      BY <1>1, <1>3, <2>1 DEF NoMembership
  <1>7. OneTwo(q, g)
    BY <1>1, <1>5, PlacedIs DEF ToldOnce
  <1>8. /\ Twos(q, g) # {} => 1 \in Twos(q, g) \/ Twos(Tail(q), g) # {}
        /\ m.cause # "gone"
        /\ 1 \in Twos(q, g) <=> m.members = 2
    <2>1. /\ Twos(q, g) # {} => 1 \in Twos(q, g) \/ Twos(Tail(q), g) # {}
          /\ IsAbout(m, g) => m.cause # "gone"
      BY <1>1, <1>7, OneTwoTail
    <2>2. 1 \in Twos(q, g) <=> IsAbout(m, g) /\ m.members = 2
      BY <1>1, AboutTail
    <2> QED
      BY <1>4, <2>1, <2>2
  <1>9. /\ inbox' = Received(d) /\ client_connected' = [client_connected EXCEPT ![d] = IsConnection(d, m)]
        /\ UNCHANGED <<client_server_group, joined>>
    BY <1>8 DEF RecvMembership
  <1>10. inbox'[d] = Tail(q)
    BY <1>1, <1>9, ReceivedAt, Processes
  <1>11. client_connected'[d] <=> m.members = 2
    BY <1>1, <1>2, <1>5, <1>9 DEF IsConnection, VariableType
  <1> HIDE DEF m
  <1>12. /\ client_connected'[d] => NoMembership(Tail(q))
         /\ ~ client_connected'[d] /\ d \in joined[g] => Twos(Tail(q), g) # {}
    BY <1>3, <1>4, <1>5, <1>6, <1>8, <1>11
  <1> QED
    BY <1>2, <1>4, <1>5, <1>9, <1>10, <1>12, InformedNext

\* The server joins the group of the client: the client is told last.
LEMMA AnswerInformed ==
  ASSUME TypeInv, far = {}, NEW s \in Server, RecvRequest(s), NEW r, r = Head(inbox[s]), r.op = "c",
         NEW c \in Client, c = r.client, Placed(c), up[c], \A t \in Server : up[t], Informed(c)
  PROVE  Informed(c)'
PROOF
  <1> DEFINE q == inbox[c]
             m == Membership(s, 2, "join")
  <1>1. VariableType /\ FileType /\ q \in Seq(ClientMessage)
    BY BoxAt DEF TypeInv
  <1>2. /\ Receives(s, "Client") /\ r \in RequestMessage
        /\ HandleClientReq(s, r, Received(s)) /\ UNCHANGED <<clientVars, member>>
        /\ IsBox(Received(s)) /\ Received(s)[c] = q
    BY RequestCase, Processes
  <1>3. c \notin joined[s]
    BY <1>2, MovePlaced
  <1>4. ToldOnce(c, s) /\ OneGroup(c)
    BY PlacedIs
  <1>5. Twos(q, s) = {} /\ ~ (client_connected[c] /\ client_server_group[c] = s)
    BY <1>3, <1>4 DEF ToldOnce
  <1>6. joined' = [joined EXCEPT ![s] = @ \cup {c}] /\ inbox' = ServerJoins(Received(s), s, c)
    BY <1>1, <1>2, HandlerVariables, HandlerBox
  <1>7. inbox'[c] = IF s \in member[c] THEN Append(q, m) ELSE q
    BY <1>2, <1>3, <1>6, ServerJoinsAt, Processes DEF Together
  <1>8. m \in ClientMessage /\ m.members = 2 /\ IsAbout(m, s)
    BY ClientMessages DEF IsAbout
  <1>9. PICK g \in Server \cup {NoServer} : g = client_server_group[c]
    BY <1>1 DEF VariableType
  <1> HIDE DEF m
  <1>10. /\ AllAbout(q, g)
         /\ client_connected[c] \/ g = NoServer => NoMembership(q)
         /\ g # NoServer /\ ~ client_connected[c] /\ c \in joined[g] => Twos(q, g) # {}
    BY <1>9, InformedIs
  <1>11. /\ client_server_group'[c] = g /\ client_connected'[c] = client_connected[c]
         /\ \A t \in Server : t # s => joined'[t] = joined[t]
    BY <1>1, <1>2, <1>6, <1>9 DEF clientVars, sessionVars, VariableType
  <1>12. s \in member[c] <=> s = g
    BY <1>4, <1>9, Processes DEF OneGroup
  <1>13. CASE s = g
    <2>1. inbox'[c] = Append(q, m)
      BY <1>7, <1>12, <1>13
    <2>2. AllAbout(Append(q, m), s) /\ Twos(Append(q, m), s) # {}
      <3>1. Twos(Append(q, m), s) = Twos(q, s) \cup {Len(q) + 1}
        BY <1>1, <1>8, AboutAppend
      <3>2. AllAbout(q, s)
        BY <1>10, <1>13
      <3>3. AllAbout(Append(q, m), s)
        BY <1>1, <1>5, <1>8, <3>2, AllAboutAppend
      <3> QED
        BY <3>1, <3>3
    <2>3. ~ client_connected[c] /\ g # NoServer
      BY <1>5, <1>9, <1>13, Processes
    <2> QED
      BY <1>11, <1>13, <2>1, <2>2, <2>3, InformedNext
  <1>14. CASE s # g
    <2>1. inbox'[c] = q
      BY <1>7, <1>12, <1>14
    <2>2. g # NoServer => joined'[g] = joined[g]
      BY <1>9, <1>11, <1>14
    <2> QED
      BY <1>10, <1>11, <2>1, <2>2, InformedNext
  <1> QED
    BY <1>13, <1>14

--------------------------------------------------------------------------------
(* What a client is told, step by step *)

\* Processes do not start again, and a hasty user stays one.
LEMMA OneWay ==
  ASSUME VariableType, [Next]_vars
  PROVE  /\ \A p \in Proc : up'[p] => up[p]
         /\ \A c \in Client : ~ hasty'[c] => ~ hasty[c]
PROOF
  <1>1. ASSUME NEW d \in Client, UserCommand(d) \/ ClientStep(d) \/ Reconnect(d)
        PROVE  /\ up' = up \/ up' = [up EXCEPT ![d] = FALSE]
               /\ hasty' = hasty \/ \E s \in Server : hasty' = [hasty EXCEPT ![d] = @ \/ Hasty(d, s)]
    BY <1>1 DEF UserCommand, Connect, Join, JoinRefused, Post, Change, Quit, AskView, ClientStep, RecvResponse,
                RecvMembership, Reconnect, clientVars, historyVars
  <1>2. ASSUME NEW s \in Server, RecvRequest(s) \/ Drain(s)
        PROVE  (up' = up \/ up' = [up EXCEPT ![s] = FALSE]) /\ hasty' = hasty
    BY <1>2 DEF RecvRequest, Drain, HandleClientReq, PutOnClientList, JoinDb, SendView, UpdateReplicas, Exit,
                clientVars, historyVars
  <1>3. ASSUME NEW s \in Server, \/ RecvOwnUpdate(s) \/ RecvLeave(s) \/ StartSync(s) \/ EndSync(s)
                                 \/ Crash(s) \/ Disconnect(s) \/ \E u \in NewsFor(s) : News(s, u)
        PROVE  (up' = up \/ up' = [up EXCEPT ![s] = FALSE]) /\ hasty' = hasty
    BY <1>3 DEF RecvOwnUpdate, RecvLeave, StartSync, EndSync, Crash, Disconnect, News, Exit, clientVars,
                historyVars
  <1>4. ASSUME NEW A \in SUBSET Proc, Partition(A) PROVE up' = up /\ hasty' = hasty
    BY <1>4 DEF Partition, clientVars, historyVars
  <1>5. CASE UNCHANGED vars
    BY <1>5 DEF vars, clientVars, historyVars
  <1>6. \/ \E d \in Client : UserCommand(d) \/ ClientStep(d) \/ Reconnect(d)
        \/ \E s \in Server : RecvRequest(s) \/ Drain(s)
        \/ \E s \in Server : \/ RecvOwnUpdate(s) \/ RecvLeave(s) \/ StartSync(s) \/ EndSync(s)
                             \/ Crash(s) \/ Disconnect(s) \/ \E u \in NewsFor(s) : News(s, u)
        \/ \E A \in SUBSET Proc : Partition(A)
        \/ UNCHANGED vars
    BY DEF Next, ServerStep
  <1>7. \A p \in Proc : up'[p] => up[p]
    <2> DEFINE Exits == up' = up \/ \E p \in Proc : up' = [up EXCEPT ![p] = FALSE]
    <2>1. Exits
      <3>1. ASSUME NEW p \in Proc, up' = up \/ up' = [up EXCEPT ![p] = FALSE] PROVE Exits
        BY <3>1
      <3> HIDE DEF Exits
      <3>2. ASSUME NEW d \in Client, UserCommand(d) \/ ClientStep(d) \/ Reconnect(d) PROVE Exits
        BY <1>1, <3>1, <3>2, Processes
      <3>3. ASSUME NEW s \in Server, up' = up \/ up' = [up EXCEPT ![s] = FALSE] PROVE Exits
        BY <3>1, <3>3, Processes
      <3>4. up' = up => Exits
        BY DEF Exits
      <3> QED
        BY <1>2, <1>3, <1>4, <1>5, <1>6, <3>2, <3>3, <3>4 DEF vars
    <2> QED
      BY <2>1 DEF VariableType
  <1>8. \A c \in Client : ~ hasty'[c] => ~ hasty[c]
    <2>1. CASE hasty' = hasty
      BY <2>1
    <2>2. ASSUME NEW d \in Client, NEW s \in Server, hasty' = [hasty EXCEPT ![d] = @ \/ Hasty(d, s)]
          PROVE  \A c \in Client : ~ hasty'[c] => ~ hasty[c]
      BY <2>2 DEF VariableType
    <2> QED
      BY <1>1, <1>2, <1>3, <1>4, <1>5, <1>6, <2>1, <2>2
  <1> QED
    BY <1>7, <1>8

\* A command or a message of one client.
LEMMA ClientInformed ==
  ASSUME TypeInv, ConnectionInv, far = {}, \A t \in Server : up[t],
         NEW d \in Client, UserCommand(d) \/ ClientStep(d),
         NEW c \in Client, up'[c], ~ hasty'[c], up[c], Placed(c), Informed(c)
  PROVE  Informed(c)'
PROOF
  <1>1. UNCHANGED joined
    BY DEF UserCommand, Connect, Join, JoinRefused, Post, Change, Quit, AskView, Command, ClientStep,
           RecvResponse, RecvMembership, netVars
  <1>2. CASE c # d
    <2>1. SameClient(c)
      BY <1>2, OthersSeeNothing
    <2> QED
      BY <1>1, <2>1, InformedKept DEF SameClient, OnlyResponses
  <1>3. CASE c = d /\ UserCommand(d)
    <2>1. ASSUME NEW s \in Server, Connect(d, s) PROVE Informed(d)'
      BY <1>3, <2>1, ConnectInformed
    <2>2. ASSUME NEW b \in Board, Join(d, b) PROVE Informed(d)'
      <3>1. /\ client_connected[d] /\ inbox' = To(inbox, d, cs_index[d], Request("j", d, b, 0, curr_db[d]))
            /\ UNCHANGED <<client_server_group, client_connected>>
        BY <2>2 DEF Join
      <3>2. Request("j", d, b, 0, curr_db[d]) \in RequestMessage
        BY ServerMessages DEF TypeInv, VariableType, Request
      <3>3. inbox'[d] = inbox[d]
        BY <3>1, <3>2, AskBoxes
      <3> QED
        BY <1>1, <1>3, <3>1, <3>3, InformedKept DEF OnlyResponses
    <2>3. ASSUME JoinRefused(d) PROVE Informed(d)'
      <3>1. UNCHANGED <<inbox, client_server_group, client_connected>>
        BY <2>3 DEF JoinRefused, sessionVars
      <3> QED
        BY <1>1, <1>3, <3>1, InformedKept DEF OnlyResponses
    <2>4. ASSUME \/ Post(d) \/ AskView(d)
                 \/ \E op \in {"e", "d"}, line \in 1 .. obj_num[d] : Change(d, op, line)
          PROVE  Informed(d)'
      <3>1. /\ client_connected[d] /\ UNCHANGED <<clientVars, netVars>>
            /\ \E r \in RequestMessage : inbox' = To(inbox, d, cs_index[d], r)
        BY <2>4, OtherRequests
      <3>2. inbox'[d] = inbox[d]
        BY <3>1, AskBoxes
      <3> QED
        BY <1>1, <1>3, <3>1, <3>2, InformedKept DEF OnlyResponses, clientVars, sessionVars
    <2>5. ~ Quit(d)
      BY <1>3 DEF Quit, TypeInv, VariableType, Proc
    <2> QED
      BY <1>3, <2>1, <2>2, <2>3, <2>4, <2>5 DEF UserCommand
  <1>4. CASE c = d /\ ClientStep(d)
    <2>1. CASE RecvResponse(d)
      <3>1. /\ inbox[d] # <<>> /\ Head(inbox[d]).type = "Response" /\ inbox' = Received(d)
            /\ UNCHANGED <<client_server_group, client_connected>>
        BY <2>1 DEF RecvResponse, Receives, sessionVars
      <3>2. inbox'[d] = Tail(inbox[d])
        BY <3>1, ReceivedAt, Processes DEF TypeInv
      <3> QED
        BY <1>1, <1>4, <3>1, <3>2, InformedKept DEF OnlyResponses
    <2>2. CASE RecvMembership(d)
      BY <1>4, <2>2, MembershipInformed
    <2> QED
      BY <1>4, <2>1, <2>2 DEF ClientStep
  <1> QED
    BY <1>2, <1>3, <1>4

\* A request that a server handles.
LEMMA HandlerInformed ==
  ASSUME TypeInv, far = {}, NEW s \in Server, RecvRequest(s),
         NEW c \in Client, Placed(c), up[c], \A t \in Server : up[t], Informed(c)
  PROVE  Informed(c)'
PROOF
  <1> DEFINE r == Head(inbox[s])
             box == Received(s)
  <1>1. r = Head(inbox[s])
    OBVIOUS
  <1> HIDE DEF r
  <1>2. /\ VariableType /\ FileType /\ r \in RequestMessage /\ r.client \in Client
        /\ HandleClientReq(s, r, box) /\ UNCHANGED clientVars /\ IsBox(box) /\ box[c] = inbox[c]
    BY <1>1, RequestCase, Processes DEF TypeInv
  <1> HIDE DEF box
  <1>3. CASE r.op # "c"
    <2>1. OnlyResponses(c)
      BY <1>2, <1>3, HandlerResponds
    <2>2. joined' = joined
      BY <1>2, <1>3, HandlerVariables
    <2> QED
      BY <1>2, <2>1, <2>2, InformedKept DEF clientVars, sessionVars
  <1>4. CASE r.op = "c" /\ c = r.client
    BY <1>1, <1>4, AnswerInformed
  <1>5. CASE r.op = "c" /\ c # r.client
    <2>1. inbox' = ServerJoins(box, s, r.client) /\ joined' = [joined EXCEPT ![s] = @ \cup {r.client}]
      BY <1>2, <1>5, HandlerBox, HandlerVariables
    <2>2. ServerJoins(box, s, r.client)[c] = box[c]
      BY <1>2, <1>5, ServerJoinsAt, Processes
    <2>3. \A t \in Server : c \in joined'[t] => c \in joined[t]
      BY <1>2, <1>5, <2>1 DEF VariableType
    <2>4. OnlyResponses(c)
      BY <1>2, <2>1, <2>2 DEF OnlyResponses
    <2> QED
      BY <1>2, <2>3, <2>4, InformedKept DEF clientVars, sessionVars
  <1> QED
    BY <1>3, <1>4, <1>5

\* A leave that a server reads.
LEMMA LeaveInformed ==
  ASSUME TypeInv, NEW s \in Server, RecvLeave(s), up'[s],
         NEW c \in Client, Placed(c), up[c], \A t \in Server : up[t], Informed(c)
  PROVE  Informed(c)'
PROOF
  <1>1. VariableType /\ ListType /\ IsBox(inbox)
    BY DEF TypeInv
  <1>2. up[s] /\ inbox[s] # <<>> /\ inbox[s] \in Seq(ServerMessage) /\ Head(inbox[s]).type = "Left"
        /\ Head(inbox[s]) \in ServerMessage
    BY <1>1, HeadOfServer DEF RecvLeave
  <1>3. PICK d \in Client : d = Head(inbox[s]).client /\ Head(inbox[s]) = Left(d)
    BY <1>2, MessageKinds
  <1>4. /\ inbox' = ServerLeaves(Received(s), s, d) /\ joined' = [joined EXCEPT ![s] = @ \ {d}]
        /\ UNCHANGED clientVars
    BY <1>1, <1>3, LeaveAt DEF RecvLeave
  <1>5. IsBox(Received(s)) /\ Received(s)[c] = inbox[c]
    BY <1>1, <1>2, ReceivedAt, Processes
  <1>6. c = d => s \notin member[d]
    <2>1. c = d => InPlace(s, d)
      BY <1>2, PlacedIs
    <2>2. c = d /\ s \in member[d] => NoLeft(inbox[s], d)
      BY <2>1, InPlaceIs
    <2> QED
      BY <1>2, <1>3, <2>2, NoLeftTail
  <1>7. ServerLeaves(Received(s), s, d)[c] = Received(s)[c]
    BY <1>5, <1>6, ServerLeavesAt, Processes DEF Both
  <1>8. OnlyResponses(c)
    BY <1>4, <1>5, <1>7 DEF OnlyResponses
  <1>9. \A t \in Server : c \in joined'[t] => c \in joined[t]
    BY <1>1, <1>4 DEF VariableType
  <1> QED
    BY <1>4, <1>8, <1>9, InformedKept DEF clientVars, sessionVars

\* Every step keeps the clients informed.
LEMMA InformedStep ==
  TypeInv /\ ConnectionInv /\ LeaveInv /\ PlaceInv /\ InformedInv /\ [Next]_vars => InformedInv'
PROOF
  <1> SUFFICES ASSUME TypeInv, ConnectionInv, LeaveInv, PlaceInv, InformedInv, [Next]_vars, Steady',
                      NEW c \in Client, up'[c], ~ hasty'[c]
               PROVE  Informed(c)'
    BY DEF InformedInv
  <1>1. /\ up[c] /\ ~ hasty[c] /\ disturbed = {} /\ disturbed' = {}
        /\ \A s \in Server : up[s] /\ up'[s]
    BY OneWay, Disturbances, Processes DEF Steady, TypeInv
  <1>2. Informed(c)
    BY <1>1 DEF InformedInv, Steady
  <1>3. far = {} /\ NotInSync /\ Placed(c)
    BY <1>1, PlaceInvIs DEF LeaveInv, AllPlaced, ExitsOnly
  <1>4. \A s \in Server : /\ ~ Drain(s) /\ ~ EndSync(s) /\ ~ StartSync(s) /\ ~ Crash(s)
                          /\ ~ Disconnect(s)
    BY <1>1, <1>3, NotInSyncStep, Disturbances DEF TypeInv, Disconnect
  <1>5. /\ \A d \in Client : ~ Reconnect(d)
        /\ \A A \in SUBSET Proc : ~ Partition(A)
    BY <1>1, Disturbances
  <1>6. ASSUME NEW d \in Client, UserCommand(d) \/ ClientStep(d) PROVE Informed(c)'
    BY <1>1, <1>2, <1>3, <1>6, ClientInformed
  <1>7. ASSUME NEW s \in Server, RecvRequest(s) PROVE Informed(c)'
    BY <1>1, <1>2, <1>3, <1>7, HandlerInformed
  <1>8. ASSUME NEW s \in Server, RecvLeave(s) PROVE Informed(c)'
    BY <1>1, <1>2, <1>3, <1>8, LeaveInformed
  <1>9. ASSUME NEW s \in Server, RecvOwnUpdate(s) \/ \E u \in NewsFor(s) : News(s, u)
        PROVE  Informed(c)'
    <2>1. OnlyResponses(c)
      BY <1>9, UpdatesRespond
    <2>2. UNCHANGED <<clientVars, joined>>
      BY <1>9 DEF RecvOwnUpdate, News, netVars
    <2> QED
      BY <1>1, <1>2, <1>3, <2>1, <2>2, InformedKept DEF clientVars, sessionVars
  <1>10. CASE UNCHANGED vars
    <2>1. UNCHANGED <<inbox, joined, client_server_group, client_connected>>
      BY <1>10 DEF vars, netVars, clientVars, sessionVars
    <2> QED
      BY <1>1, <1>2, <1>3, <2>1, InformedKept DEF OnlyResponses
  <1> QED
    BY <1>4, <1>5, <1>6, <1>7, <1>8, <1>9, <1>10 DEF Next, ServerStep

LEMMA InformedInit == Init => InformedInv
PROOF
  <1> SUFFICES ASSUME Init, NEW c \in Client PROVE Informed(c)
    BY DEF InformedInv
  <1>1. inbox[c] = <<>> /\ joined = [s \in Server |-> {}]
    BY Processes DEF Init
  <1>2. DOMAIN inbox[c] = {}
    BY <1>1, EmptySeq
  <1>3. client_server_group[c] = NoServer
    BY DEF Init
  <1> QED
    BY <1>2, <1>3 DEF Informed, AllAbout

--------------------------------------------------------------------------------
(* What a client will have on its list *)

\* What a client has on its list when it has read its messages: the last message about an
\* object decides.
IsMention(m, k) == m.type = "Response" /\ m.op \in {"a", "d"} /\ m.obj_id = k

\* The messages that mention an object, and the last of them.
LEMMA MentionsAre ==
  ASSUME NEW q \in Seq(ClientMessage), NEW k
  PROVE  \A i : i \in Mentions(q, k) <=> i \in 1 .. Len(q) /\ IsMention(q[i], k)
PROOF
  BY DEF Mentions, IsMention

LEMMA LastMention ==
  ASSUME NEW q \in Seq(ClientMessage), NEW k, Mentions(q, k) # {}
  PROVE  \E i \in Mentions(q, k) : \A j \in Mentions(q, k) : j <= i
PROOF
  <1>1. Mentions(q, k) \subseteq 1 .. Len(q) /\ Len(q) \in Nat
    BY MentionsAre
  <1>2. Mentions(q, k) \subseteq Nat /\ \A m \in Mentions(q, k) : m <= Len(q)
    BY <1>1
  <1> QED
    BY <1>1, <1>2, GreatestNatural

\* The last message about an object decides, if there is one.
LEMMA ListedLast ==
  ASSUME NEW q \in Seq(ClientMessage), NEW keys, NEW k,
         NEW i \in Mentions(q, k), \A j \in Mentions(q, k) : j <= i
  PROVE  Listed(q, keys, k) <=> q[i].op = "a"
PROOF
  <1>1. Mentions(q, k) \subseteq Nat
    BY MentionsAre
  <1>2. ASSUME NEW h \in Mentions(q, k), \A j \in Mentions(q, k) : j <= h PROVE h = i
    <2>1. h <= i /\ i <= h /\ h \in Nat /\ i \in Nat
      BY <1>1, <1>2
    <2> QED
      BY <2>1
  <1> QED
    BY <1>2 DEF Listed

LEMMA ListedNone ==
  ASSUME NEW q \in Seq(ClientMessage), NEW keys, NEW k, Mentions(q, k) = {}
  PROVE  Listed(q, keys, k) <=> k \in keys
PROOF
  BY DEF Listed

\* A list as a message is added, or the responses of send_dboard.
LEMMA ListedAppend ==
  ASSUME NEW q \in Seq(ClientMessage), NEW m \in ClientMessage, NEW keys, NEW k
  PROVE  Listed(Append(q, m), keys, k) <=>
           IF IsMention(m, k) THEN m.op = "a" ELSE Listed(q, keys, k)
PROOF
  <1> DEFINE r == Append(q, m)
  <1>1. /\ r \in Seq(ClientMessage) /\ Len(r) = Len(q) + 1 /\ Len(q) \in Nat
        /\ \A i \in 1 .. Len(q) : r[i] = q[i]
        /\ r[Len(q) + 1] = m
    BY AppendAt
  <1> HIDE DEF r
  <1>2. \A i : i \in Mentions(r, k) <=>
          i \in Mentions(q, k) \/ (i = Len(q) + 1 /\ IsMention(m, k))
    <2>1. \A i : i \in Mentions(r, k) <=> i \in 1 .. Len(q) + 1 /\ IsMention(r[i], k)
      BY <1>1, MentionsAre
    <2>2. \A i : i \in Mentions(q, k) <=> i \in 1 .. Len(q) /\ IsMention(q[i], k)
      BY MentionsAre
    <2> QED
      BY <1>1, <2>1, <2>2
  <1>3. Mentions(q, k) \subseteq 1 .. Len(q)
    BY MentionsAre
  <1>4. CASE IsMention(m, k)
    <2>1. Len(q) + 1 \in Mentions(r, k) /\ \A j \in Mentions(r, k) : j <= Len(q) + 1
      BY <1>1, <1>2, <1>3, <1>4
    <2> QED
      BY <1>1, <1>4, <2>1, ListedLast DEF r
  <1>5. CASE ~ IsMention(m, k)
    <2>1. Mentions(r, k) = Mentions(q, k)
      BY <1>2, <1>5
    <2>2. \A i \in Mentions(q, k) : r[i] = q[i]
      BY <1>1, <1>3
    <2> QED
      BY <1>5, <2>1, <2>2 DEF Listed, r
  <1> QED
    BY <1>4, <1>5

LEMMA ListedConcat ==
  ASSUME NEW q \in Seq(ClientMessage), NEW w \in Seq(ClientMessage), NEW keys, NEW k,
         \A i \in DOMAIN w : w[i].type = "Response" /\ w[i].op = "a"
  PROVE  Listed(q \o w, keys, k) <=>
           (\E i \in DOMAIN w : w[i].obj_id = k) \/ Listed(q, keys, k)
PROOF
  <1> DEFINE r == q \o w
  <1>1. /\ r \in Seq(ClientMessage) /\ Len(r) = Len(q) + Len(w) /\ Len(q) \in Nat /\ Len(w) \in Nat
        /\ \A i \in 1 .. Len(q) : r[i] = q[i]
        /\ \A i \in 1 .. Len(w) : r[Len(q) + i] = w[i]
        /\ DOMAIN w = 1 .. Len(w)
    BY ConcatAt
  <1> HIDE DEF r
  <1>2. \A i : i \in Mentions(r, k) <=> i \in 1 .. Len(r) /\ IsMention(r[i], k)
    BY <1>1, MentionsAre
  <1>3. \A i : i \in Mentions(q, k) <=> i \in 1 .. Len(q) /\ IsMention(q[i], k)
    BY MentionsAre
  <1>4. \A i \in DOMAIN w : IsMention(w[i], k) <=> w[i].obj_id = k
    BY DEF IsMention
  <1>5. \A i \in Mentions(r, k) : \/ i \in Mentions(q, k)
                                  \/ /\ i - Len(q) \in DOMAIN w /\ w[i - Len(q)].obj_id = k
                                     /\ i > Len(q) /\ r[i].op = "a"
    <2> SUFFICES ASSUME NEW i \in Mentions(r, k), i \notin Mentions(q, k)
                 PROVE  /\ i - Len(q) \in DOMAIN w /\ w[i - Len(q)].obj_id = k
                        /\ i > Len(q) /\ r[i].op = "a"
      OBVIOUS
    <2>1. i \in 1 .. Len(q) + Len(w) /\ IsMention(r[i], k)
      BY <1>1, <1>2
    <2>2. i > Len(q)
      BY <1>1, <1>3, <2>1
    <2>3. i - Len(q) \in 1 .. Len(w) /\ Len(q) + (i - Len(q)) = i
      BY <1>1, <2>1, <2>2
    <2>4. r[i] = w[i - Len(q)]
      BY <1>1, <2>3
    <2> QED
      BY <1>1, <1>4, <2>1, <2>2, <2>3, <2>4
  <1>6. CASE \E i \in DOMAIN w : w[i].obj_id = k
    <2>1. PICK i \in 1 .. Len(w) : w[i].obj_id = k
      BY <1>1, <1>6
    <2>2. Len(q) + i \in Mentions(r, k)
      <3>1. Len(q) + i \in 1 .. Len(r) /\ r[Len(q) + i] = w[i]
        BY <1>1, <2>1
      <3> QED
        BY <1>1, <1>2, <1>4, <2>1, <3>1
    <2>3. PICK h \in Mentions(r, k) : \A j \in Mentions(r, k) : j <= h
      BY <1>1, <2>2, LastMention
    <2>4. h > Len(q)
      <3>1. h \in Nat /\ Len(q) + i <= h
        BY <1>1, <1>2, <2>2, <2>3
      <3> QED
        BY <1>1, <2>1, <3>1
    <2>5. r[h].op = "a"
      BY <1>1, <1>3, <1>5, <2>3, <2>4
    <2> QED
      BY <1>1, <1>6, <2>3, <2>5, ListedLast DEF r
  <1>7. CASE ~ \E i \in DOMAIN w : w[i].obj_id = k
    <2>1. Mentions(r, k) = Mentions(q, k)
      <3>1. Mentions(r, k) \subseteq Mentions(q, k)
        BY <1>5, <1>7
      <3>2. \A i \in Mentions(q, k) : i \in Mentions(r, k)
        BY <1>1, <1>2, <1>3
      <3> QED
        BY <3>1, <3>2
    <2>2. \A i \in Mentions(q, k) : r[i] = q[i]
      BY <1>1, <1>3
    <2> QED
      BY <1>7, <2>1, <2>2 DEF Listed, r
  <1> QED
    BY <1>6, <1>7

\* What the client does with the message it reads is what Listed expects.
KeysAfter(keys, m) == IF m.type = "Response" THEN AfterResponse(keys, m) ELSE keys

\* Reading a message changes the list now, and not what it will be in the end.
LEMMA ListedTail ==
  ASSUME NEW q \in Seq(ClientMessage), q # <<>>, NEW keys, NEW k
  PROVE  Listed(Tail(q), KeysAfter(keys, Head(q)), k) <=> Listed(q, keys, k)
PROOF
  <1> DEFINE r == Tail(q)
             new == KeysAfter(keys, Head(q))
  <1>1. /\ r \in Seq(ClientMessage) /\ Len(r) = Len(q) - 1 /\ Len(q) \in Nat /\ Len(q) >= 1
        /\ \A i \in 1 .. Len(q) - 1 : r[i] = q[i + 1]
        /\ q[1] = Head(q) /\ Head(q) \in ClientMessage
    BY TailAt
  <1> HIDE DEF r
  <1>2. \A i : i \in Mentions(r, k) <=> i \in 1 .. Len(r) /\ IsMention(r[i], k)
    BY <1>1, MentionsAre
  <1>3. \A i : i \in Mentions(q, k) <=> i \in 1 .. Len(q) /\ IsMention(q[i], k)
    BY MentionsAre
  <1>4. \A i \in Mentions(r, k) : i + 1 \in Mentions(q, k) /\ i \in Nat /\ r[i] = q[i + 1]
    BY <1>1, <1>2, <1>3
  <1>5. \A i \in Mentions(q, k) : i \in Nat /\ (i = 1 \/ i - 1 \in Mentions(r, k))
    <2> SUFFICES ASSUME NEW i \in Mentions(q, k), i # 1 PROVE i \in Nat /\ i - 1 \in Mentions(r, k)
      BY <1>3
    <2>1. i \in 1 .. Len(q) /\ IsMention(q[i], k)
      BY <1>3
    <2>2. i - 1 \in 1 .. Len(q) - 1 /\ (i - 1) + 1 = i
      BY <1>1, <2>1
    <2> QED
      BY <1>1, <1>2, <2>1, <2>2
  <1>6. CASE Mentions(r, k) # {}
    <2>1. PICK i \in Mentions(r, k) : \A j \in Mentions(r, k) : j <= i
      BY <1>1, <1>6, LastMention
    <2>2. i \in Nat /\ i + 1 \in Mentions(q, k) /\ r[i] = q[i + 1]
      BY <1>4, <2>1
    <2>3. ASSUME NEW j \in Mentions(q, k) PROVE j <= i + 1
      <3>1. CASE j = 1
        BY <2>2, <3>1
      <3>2. CASE j - 1 \in Mentions(r, k)
        <4>1. j - 1 <= i /\ j \in Nat
          BY <1>5, <2>1, <3>2
        <4> QED
          BY <2>2, <4>1
      <3> QED
        BY <1>5, <3>1, <3>2
    <2>4. Listed(r, new, k) <=> r[i].op = "a"
      BY <1>1, <2>1, ListedLast
    <2>5. Listed(q, keys, k) <=> q[i + 1].op = "a"
      BY <2>2, <2>3, ListedLast
    <2> QED
      BY <2>2, <2>4, <2>5 DEF r
  <1>7. CASE Mentions(r, k) = {}
    <2>1. Listed(r, new, k) <=> k \in new
      BY <1>1, <1>7, ListedNone
    <2>2. CASE IsMention(Head(q), k)
      <3>1. 1 \in Mentions(q, k) /\ \A j \in Mentions(q, k) : j = 1
        BY <1>1, <1>3, <1>5, <1>7, <2>2
      <3>2. Listed(q, keys, k) <=> Head(q).op = "a"
        BY <1>1, <3>1, ListedLast
      <3>3. k \in new <=> Head(q).op = "a"
        BY <2>2 DEF KeysAfter, AfterResponse, IsMention
      <3> QED
        BY <2>1, <3>2, <3>3 DEF r
    <2>3. CASE ~ IsMention(Head(q), k)
      <3>1. 1 \notin Mentions(q, k)
        BY <1>1, <1>3, <2>3
      <3>2. Mentions(q, k) = {}
        BY <1>5, <1>7, <3>1
      <3>3. Listed(q, keys, k) <=> k \in keys
        BY <3>2, ListedNone
      <3>4. k \in new <=> k \in keys
        <4>1. CASE Head(q).type = "Response"
          <5>1. Head(q).op \in {"a", "e", "d", "v"}
            BY <1>1, <4>1, MessageKinds
          <5> QED
            BY <2>3, <4>1, <5>1 DEF KeysAfter, AfterResponse, IsMention
        <4>2. CASE Head(q).type # "Response"
          BY <4>2 DEF KeysAfter
        <4> QED
          BY <4>1, <4>2
      <3> QED
        BY <2>1, <3>3, <3>4 DEF r
    <2> QED
      BY <2>2, <2>3
  <1> QED
    BY <1>6, <1>7

LEMMA ListedLess ==
  ASSUME NEW q, NEW keys, NEW fewer, fewer \subseteq keys, NEW k, Listed(q, fewer, k)
  PROVE  Listed(q, keys, k)
PROOF
  BY DEF Listed

\* The objects that are on the list or will be.
OfferedIn(q, keys) ==
  keys \cup {q[i].obj_id : i \in {j \in DOMAIN q : q[j].type = "Response" /\ q[j].op = "a"}}

\* What is offered to a client grows by the insertions that are sent to it.
LEMMA OfferedIs ==
  ASSUME NEW c
  PROVE  /\ Offered(c) = OfferedIn(inbox[c], objects[c])
         /\ Offered(c)' = OfferedIn(inbox'[c], objects'[c])
PROOF
  BY DEF Offered, OfferedIn

LEMMA OfferedAre ==
  ASSUME NEW q, NEW keys, NEW k
  PROVE  k \in OfferedIn(q, keys) <=>
           k \in keys \/ \E i \in DOMAIN q : q[i].type = "Response" /\ q[i].op = "a" /\ q[i].obj_id = k
PROOF
  BY DEF OfferedIn

LEMMA ListedOffered ==
  ASSUME NEW q, NEW keys, NEW k, Listed(q, keys, k)
  PROVE  k \in OfferedIn(q, keys)
PROOF
  <1>1. CASE k \in keys
    BY <1>1, OfferedAre
  <1>2. CASE \E i \in Mentions(q, k) : q[i].op = "a"
    BY <1>2, OfferedAre DEF Mentions
  <1> QED
    BY <1>1, <1>2 DEF Listed

LEMMA OfferedAppend ==
  ASSUME NEW q \in Seq(ClientMessage), NEW m \in ClientMessage, NEW keys
  PROVE  OfferedIn(Append(q, m), keys) \subseteq
           OfferedIn(q, keys) \cup
             (IF m.type = "Response" /\ m.op = "a" THEN {m.obj_id} ELSE {})
PROOF
  <1> SUFFICES ASSUME NEW k \in OfferedIn(Append(q, m), keys), k \notin OfferedIn(q, keys)
               PROVE  m.type = "Response" /\ m.op = "a" /\ k = m.obj_id
    OBVIOUS
  <1>1. /\ DOMAIN q = 1 .. Len(q) /\ Len(q) \in Nat /\ DOMAIN Append(q, m) = 1 .. Len(q) + 1
        /\ \A i \in 1 .. Len(q) : Append(q, m)[i] = q[i]
        /\ Append(q, m)[Len(q) + 1] = m
    BY AppendAt
  <1>2. k \notin keys
    BY OfferedAre
  <1>3. k \in OfferedIn(Append(q, m), keys)
    OBVIOUS
  <1>4. PICK i \in DOMAIN Append(q, m) : /\ Append(q, m)[i].type = "Response"
                                         /\ Append(q, m)[i].op = "a" /\ Append(q, m)[i].obj_id = k
    BY <1>2, <1>3 DEF OfferedIn
  <1>5. i = Len(q) + 1
    <2>1. i \notin 1 .. Len(q)
      BY <1>1, <1>4, OfferedAre
    <2> QED
      BY <1>1, <2>1
  <1> QED
    BY <1>1, <1>4, <1>5

LEMMA OfferedConcat ==
  ASSUME NEW q \in Seq(ClientMessage), NEW w \in Seq(ClientMessage), NEW keys
  PROVE  OfferedIn(q \o w, keys) \subseteq OfferedIn(q, keys) \cup {w[i].obj_id : i \in DOMAIN w}
PROOF
  <1> SUFFICES ASSUME NEW k \in OfferedIn(q \o w, keys), k \notin OfferedIn(q, keys)
               PROVE  \E i \in DOMAIN w : k = w[i].obj_id
    OBVIOUS
  <1>1. /\ DOMAIN q = 1 .. Len(q) /\ Len(q) \in Nat /\ DOMAIN w = 1 .. Len(w) /\ Len(w) \in Nat
        /\ DOMAIN (q \o w) = 1 .. Len(q) + Len(w)
        /\ \A i \in 1 .. Len(q) : (q \o w)[i] = q[i]
        /\ \A i \in 1 .. Len(w) : (q \o w)[Len(q) + i] = w[i]
    BY ConcatAt
  <1>2. k \notin keys
    BY OfferedAre
  <1>3. PICK i \in DOMAIN (q \o w) : /\ (q \o w)[i].type = "Response"
                                     /\ (q \o w)[i].op = "a" /\ (q \o w)[i].obj_id = k
    BY <1>2 DEF OfferedIn
  <1>4. i \notin 1 .. Len(q)
    BY <1>1, <1>3, OfferedAre
  <1>5. i - Len(q) \in 1 .. Len(w) /\ Len(q) + (i - Len(q)) = i
    BY <1>1, <1>4
  <1>6. (q \o w)[i] = w[i - Len(q)]
    BY <1>1, <1>5
  <1> QED
    BY <1>1, <1>3, <1>5, <1>6

LEMMA OfferedTail ==
  ASSUME NEW q \in Seq(ClientMessage), q # <<>>, NEW keys
  PROVE  OfferedIn(Tail(q), KeysAfter(keys, Head(q))) \subseteq OfferedIn(q, keys)
PROOF
  <1> SUFFICES ASSUME NEW k \in OfferedIn(Tail(q), KeysAfter(keys, Head(q)))
               PROVE  k \in OfferedIn(q, keys)
    OBVIOUS
  <1>1. /\ DOMAIN q = 1 .. Len(q) /\ Len(q) \in Nat /\ Len(q) >= 1 /\ q[1] = Head(q)
        /\ DOMAIN Tail(q) = 1 .. Len(q) - 1 /\ Head(q) \in ClientMessage
        /\ \A i \in 1 .. Len(q) - 1 : Tail(q)[i] = q[i + 1]
    BY TailAt
  <1>2. CASE k \in KeysAfter(keys, Head(q))
    <2>1. CASE k \in keys
      BY <2>1, OfferedAre
    <2>2. CASE k \notin keys
      <3>1. Head(q).type = "Response" /\ k \in AfterResponse(keys, Head(q))
        BY <1>2, <2>2 DEF KeysAfter
      <3>2. Head(q).op \in {"a", "e", "d", "v"}
        BY <1>1, <3>1, MessageKinds
      <3>3. Head(q).op = "a" /\ Head(q).obj_id = k
        BY <2>2, <3>1, <3>2 DEF AfterResponse
      <3> QED
        BY <1>1, <3>1, <3>3, 1 \in DOMAIN q, OfferedAre
    <2> QED
      BY <2>1, <2>2
  <1>3. CASE \E i \in DOMAIN Tail(q) : /\ Tail(q)[i].type = "Response" /\ Tail(q)[i].op = "a"
                                       /\ Tail(q)[i].obj_id = k
    <2>1. PICK i \in 1 .. Len(q) - 1 : /\ Tail(q)[i].type = "Response" /\ Tail(q)[i].op = "a"
                                       /\ Tail(q)[i].obj_id = k
      BY <1>1, <1>3
    <2>2. i + 1 \in DOMAIN q /\ Tail(q)[i] = q[i + 1]
      BY <1>1
    <2> QED
      BY <2>1, <2>2, OfferedAre
  <1> QED
    BY <1>2, <1>3 DEF OfferedIn

--------------------------------------------------------------------------------
(* What the servers have, and what is on the way to them *)

\* The live records of a board in file f, and the updates that create or delete object
\* k of board b.
LiveOn(f, b) == {k \in DOMAIN f : f[k].db_name = b /\ f[k].status}
Same(u, b, k) == u.op \in {"a", "d"} /\ u.db_name = b /\ u.obj_id = k

LEMMA OnBoardIs ==
  ASSUME NEW s \in Server, NEW b
  PROVE  OnBoard(s, b) = LiveOn(file[s], b) /\ OnBoard(s, b)' = LiveOn(file'[s], b)
PROOF
  BY DEF OnBoard, LiveOn

\* The parts of an update.
LEMMA UpdateParts ==
  /\ \A op, b, k : /\ Update(op, b, k).type = "Update" /\ Update(op, b, k).op = op
                   /\ Update(op, b, k).db_name = b /\ Update(op, b, k).obj_id = k
  /\ \A u \in UpdateMessage : u = Update(u.op, u.db_name, u.obj_id)
PROOF
  BY DEF Update, UpdateMessage

\* Applying an update changes the record of one object.
LEMMA AppliedRecords ==
  ASSUME NEW f, f \in [DOMAIN f -> Record], NEW u \in UpdateMessage,
         u.op = "a" => u.obj_id \notin DOMAIN f, NEW g, g = Applied(f, u)
  PROVE  /\ DOMAIN f \subseteq DOMAIN g
         /\ u.op = "a" => DOMAIN g = DOMAIN f \cup {u.obj_id} /\ u.obj_id \in LiveOn(g, u.db_name)
         /\ u.op = "d" => u.obj_id \notin LiveOn(g, u.db_name)
         /\ u.op # "a" => DOMAIN g = DOMAIN f
         /\ \A b, k : ~ Same(u, b, k) => (k \in LiveOn(g, b) <=> k \in LiveOn(f, b))
PROOF
  <1>1. u.op \in {"a", "e", "d"}
    BY MessageKinds
  <1>2. CASE u.op = "a"
    <2>1. g = [k \in DOMAIN f \cup {u.obj_id} |->
                 IF k = u.obj_id THEN [db_name |-> u.db_name, status |-> TRUE] ELSE f[k]]
      BY <1>2 DEF Applied
    <2>2. DOMAIN g = DOMAIN f \cup {u.obj_id} /\ \A k \in DOMAIN f : g[k] = f[k]
      BY <1>2, <2>1
    <2>3. g[u.obj_id].db_name = u.db_name /\ g[u.obj_id].status
      BY <2>1
    <2>4. u.obj_id \in LiveOn(g, u.db_name)
      BY <2>2, <2>3 DEF LiveOn
    <2>5. ASSUME NEW b, NEW k, ~ Same(u, b, k)
          PROVE  k \in LiveOn(g, b) <=> k \in LiveOn(f, b)
      <3>1. CASE k = u.obj_id
        <4>1. b # u.db_name
          BY <1>2, <2>5, <3>1 DEF Same
        <4> QED
          BY <1>2, <2>3, <3>1, <4>1 DEF LiveOn
      <3>2. CASE k # u.obj_id
        BY <2>2, <3>2 DEF LiveOn
      <3> QED
        BY <3>1, <3>2
    <2> QED
      BY <1>2, <2>2, <2>4, <2>5
  <1>3. CASE u.op = "d" /\ Found(f, u)
    <2>1. g = [f EXCEPT ![u.obj_id].status = FALSE]
      BY <1>3 DEF Applied
    <2>2. f[u.obj_id] \in Record /\ u.obj_id \in DOMAIN f /\ f[u.obj_id].db_name = u.db_name
      BY <1>3 DEF Found
    <2>3. /\ DOMAIN g = DOMAIN f /\ \A k \in DOMAIN f : k # u.obj_id => g[k] = f[k]
          /\ g[u.obj_id] = [f[u.obj_id] EXCEPT !.status = FALSE]
      BY <2>1, <2>2
    <2>4. g[u.obj_id].db_name = u.db_name /\ ~ g[u.obj_id].status
      BY <2>2, <2>3 DEF Record
    <2>5. u.obj_id \notin LiveOn(g, u.db_name)
      BY <2>4 DEF LiveOn
    <2>6. ASSUME NEW b, NEW k, ~ Same(u, b, k)
          PROVE  k \in LiveOn(g, b) <=> k \in LiveOn(f, b)
      <3>1. CASE k = u.obj_id
        <4>1. b # u.db_name
          BY <1>3, <2>6, <3>1 DEF Same
        <4> QED
          BY <2>2, <2>4, <3>1, <4>1 DEF LiveOn
      <3>2. CASE k # u.obj_id
        BY <2>3, <3>2 DEF LiveOn
      <3> QED
        BY <3>1, <3>2
    <2> QED
      BY <1>3, <2>3, <2>5, <2>6
  <1>4. CASE u.op # "a" /\ ~ (u.op = "d" /\ Found(f, u))
    <2>1. g = f
      BY <1>4 DEF Applied
    <2>2. u.op = "d" => u.obj_id \notin LiveOn(g, u.db_name)
      BY <1>4, <2>1 DEF LiveOn, Found
    <2> QED
      BY <1>4, <2>1, <2>2
  <1> QED
    BY <1>1, <1>2, <1>3, <1>4

\* What is on the way to a server.
FlightAt(q, f, i) ==
  LET m == q[i] IN
    /\ m.type \in {"Client", "Update"} /\ m.op = "d" => m.obj_id \in DOMAIN f
    /\ m.type = "Update" /\ m.op = "d" => m.obj_id \notin LiveOn(f, m.db_name)
    /\ m.type = "Update" /\ m.op = "a" =>
         \/ m.obj_id \in LiveOn(f, m.db_name)
         \/ \E j \in DOMAIN q : i < j /\ q[j] = Update("d", m.db_name, m.obj_id)
InFlightIn(q, f) == \A i \in DOMAIN q : FlightAt(q, f, i)

LEMMA InFlightIs ==
  ASSUME NEW s \in Server
  PROVE  /\ InFlight(s) <=> InFlightIn(inbox[s], file[s])
         /\ InFlight(s)' <=> InFlightIn(inbox'[s], file'[s])
PROOF
  BY OnBoardIs DEF InFlight, InFlightIn, FlightAt

\* A request or a leave that is sent to a server, with nothing else changed.
LEMMA FlightAppend ==
  ASSUME NEW q \in Seq(ServerMessage), NEW f, InFlightIn(q, f), NEW m \in ServerMessage,
         m.type # "Update", m.type = "Client" /\ m.op = "d" => m.obj_id \in DOMAIN f
  PROVE  InFlightIn(Append(q, m), f)
PROOF
  <1> DEFINE r == Append(q, m)
  <1>1. /\ DOMAIN q = 1 .. Len(q) /\ Len(q) \in Nat /\ DOMAIN r = 1 .. Len(q) + 1
        /\ \A i \in 1 .. Len(q) : r[i] = q[i]
        /\ r[Len(q) + 1] = m
    BY AppendAt
  <1> HIDE DEF r
  <1>2. ASSUME NEW i \in 1 .. Len(q) PROVE FlightAt(r, f, i)
    <2>1. FlightAt(q, f, i) /\ r[i] = q[i] /\ DOMAIN q \subseteq DOMAIN r
      BY <1>1 DEF InFlightIn
    <2>2. \A j \in DOMAIN q : r[j] = q[j]
      BY <1>1
    <2> QED
      BY <2>1, <2>2 DEF FlightAt
  <1>3. FlightAt(r, f, Len(q) + 1)
    BY <1>1 DEF FlightAt
  <1> QED
    BY <1>1, <1>2, <1>3 DEF InFlightIn, r

\* Reading the first message takes away no update that another one counts on.
LEMMA FlightTail ==
  ASSUME NEW q \in Seq(ServerMessage), NEW f, InFlightIn(q, f), q # <<>>
  PROVE  InFlightIn(Tail(q), f)
PROOF
  <1> DEFINE r == Tail(q)
  <1>1. /\ DOMAIN q = 1 .. Len(q) /\ Len(q) \in Nat /\ Len(q) >= 1
        /\ DOMAIN r = 1 .. Len(q) - 1
        /\ \A i \in 1 .. Len(q) - 1 : r[i] = q[i + 1]
    BY TailAt
  <1> HIDE DEF r
  <1> SUFFICES ASSUME NEW i \in 1 .. Len(q) - 1 PROVE FlightAt(r, f, i)
    BY <1>1 DEF InFlightIn, r
  <1>2. FlightAt(q, f, i + 1) /\ r[i] = q[i + 1]
    BY <1>1 DEF InFlightIn
  <1>3. ASSUME NEW b, NEW k, \E j \in DOMAIN q : i + 1 < j /\ q[j] = Update("d", b, k)
        PROVE  \E j \in DOMAIN r : i < j /\ r[j] = Update("d", b, k)
    <2>1. PICK j \in 1 .. Len(q) : i + 1 < j /\ q[j] = Update("d", b, k)
      BY <1>1, <1>3
    <2>2. j - 1 \in 1 .. Len(q) - 1 /\ i < j - 1 /\ (j - 1) + 1 = j
      BY <1>1, <2>1
    <2>3. j - 1 \in DOMAIN r /\ r[j - 1] = Update("d", b, k)
      BY <1>1, <2>1, <2>2
    <2> QED
      BY <2>2, <2>3
  <1> QED
    BY <1>2, <1>3 DEF FlightAt

\* The server applies an update of its own and sends it.
LEMMA FlightSent ==
  ASSUME NEW q \in Seq(ServerMessage), NEW f, f \in [DOMAIN f -> Record], InFlightIn(q, f),
         NEW u \in UpdateMessage, IF u.op = "a" THEN u.obj_id \notin DOMAIN f
                                  ELSE u.op = "d" => u.obj_id \in DOMAIN f,
         NEW g, g = Applied(f, u)
  PROVE  InFlightIn(Append(q, u), g)
PROOF
  <1> DEFINE r == Append(q, u)
  <1>1. /\ DOMAIN q = 1 .. Len(q) /\ Len(q) \in Nat /\ DOMAIN r = 1 .. Len(q) + 1
        /\ \A i \in 1 .. Len(q) : r[i] = q[i]
        /\ r[Len(q) + 1] = u
    BY AppendAt, ServerMessages
  <1> HIDE DEF r
  <1>2. /\ DOMAIN f \subseteq DOMAIN g
        /\ u.op = "a" => DOMAIN g = DOMAIN f \cup {u.obj_id} /\ u.obj_id \in LiveOn(g, u.db_name)
        /\ u.op = "d" => u.obj_id \notin LiveOn(g, u.db_name)
        /\ \A b, k : ~ Same(u, b, k) => (k \in LiveOn(g, b) <=> k \in LiveOn(f, b))
    BY AppliedRecords
  <1>3. ASSUME NEW i \in 1 .. Len(q) PROVE FlightAt(r, g, i)
    <2> DEFINE m == q[i]
    <2>1. FlightAt(q, f, i) /\ r[i] = m
      BY <1>1 DEF InFlightIn
    <2> HIDE DEF m
    <2>2. m.type \in {"Client", "Update"} /\ m.op = "d" => m.obj_id \in DOMAIN f
      BY <2>1 DEF FlightAt, m
    <2>3. ASSUME m.type = "Update", m.op = "d" PROVE m.obj_id \notin LiveOn(g, m.db_name)
      <3>1. m.obj_id \notin LiveOn(f, m.db_name)
        BY <2>1, <2>3 DEF FlightAt, m
      <3>2. CASE Same(u, m.db_name, m.obj_id)
        BY <1>2, <2>2, <2>3, <3>2 DEF Same
      <3>3. CASE ~ Same(u, m.db_name, m.obj_id)
        BY <1>2, <3>1, <3>3
      <3> QED
        BY <3>2, <3>3
    <2>4. ASSUME m.type = "Update", m.op = "a"
          PROVE  \/ m.obj_id \in LiveOn(g, m.db_name)
                 \/ \E j \in DOMAIN r : i < j /\ r[j] = Update("d", m.db_name, m.obj_id)
      <3>1. CASE m.obj_id \in LiveOn(f, m.db_name)
        <4>1. CASE ~ Same(u, m.db_name, m.obj_id)
          BY <1>2, <3>1, <4>1
        <4>2. CASE Same(u, m.db_name, m.obj_id) /\ u.op = "d"
          <5>1. u = Update("d", m.db_name, m.obj_id)
            BY <4>2, UpdateParts DEF Same
          <5>2. Len(q) + 1 \in DOMAIN r /\ i < Len(q) + 1
            BY <1>1
          <5> QED
            BY <1>1, <5>1, <5>2
        <4>3. CASE Same(u, m.db_name, m.obj_id) /\ u.op = "a"
          BY <1>2, <4>3 DEF Same
        <4> QED
          BY <4>1, <4>2, <4>3 DEF Same
      <3>2. CASE \E j \in DOMAIN q : i < j /\ q[j] = Update("d", m.db_name, m.obj_id)
        <4>1. PICK j \in 1 .. Len(q) : i < j /\ q[j] = Update("d", m.db_name, m.obj_id)
          BY <1>1, <3>2
        <4>2. j \in DOMAIN r /\ r[j] = q[j]
          BY <1>1
        <4> QED
          BY <4>1, <4>2
      <3>3. \/ m.obj_id \in LiveOn(f, m.db_name)
            \/ \E j \in DOMAIN q : i < j /\ q[j] = Update("d", m.db_name, m.obj_id)
        BY <2>1, <2>4 DEF FlightAt, m
      <3> QED
        BY <3>1, <3>2, <3>3
    <2> QED
      BY <1>2, <2>1, <2>2, <2>3, <2>4 DEF FlightAt
  <1>4. FlightAt(r, g, Len(q) + 1)
    BY <1>1, <1>2 DEF FlightAt
  <1> QED
    BY <1>1, <1>3, <1>4 DEF InFlightIn, r

\* It applies one of another server.
LEMMA FlightNews ==
  ASSUME NEW q \in Seq(ServerMessage), NEW f, f \in [DOMAIN f -> Record], InFlightIn(q, f),
         NEW u \in UpdateMessage, u.op = "a" => u.obj_id \notin DOMAIN f,
         u.op = "d" => \A i \in DOMAIN q : q[i].type = "Update" => q[i].obj_id # u.obj_id,
         NEW g, g = Applied(f, u)
  PROVE  InFlightIn(q, g)
PROOF
  <1>2. /\ DOMAIN f \subseteq DOMAIN g
        /\ u.op = "a" => DOMAIN g = DOMAIN f \cup {u.obj_id} /\ u.obj_id \in LiveOn(g, u.db_name)
        /\ u.op = "d" => u.obj_id \notin LiveOn(g, u.db_name)
        /\ \A b, k : ~ Same(u, b, k) => (k \in LiveOn(g, b) <=> k \in LiveOn(f, b))
    BY AppliedRecords
  <1> SUFFICES ASSUME NEW i \in DOMAIN q PROVE FlightAt(q, g, i)
    BY DEF InFlightIn
  <1> DEFINE m == q[i]
  <1>3. FlightAt(q, f, i)
    BY DEF InFlightIn
  <1>4. m.type \in {"Client", "Update"} /\ m.op = "d" => m.obj_id \in DOMAIN f
    BY <1>3 DEF FlightAt
  <1>5. ASSUME m.type = "Update", m.op = "d" PROVE m.obj_id \notin LiveOn(g, m.db_name)
    <2>1. m.obj_id \notin LiveOn(f, m.db_name) /\ m.obj_id \in DOMAIN f
      BY <1>3, <1>5 DEF FlightAt
    <2>2. ~ Same(u, m.db_name, m.obj_id)
      BY <1>5, <2>1 DEF Same
    <2> QED
      BY <1>2, <2>1, <2>2
  <1>6. ASSUME m.type = "Update", m.op = "a", m.obj_id \in LiveOn(f, m.db_name)
        PROVE  m.obj_id \in LiveOn(g, m.db_name)
    <2>1. ~ Same(u, m.db_name, m.obj_id)
      BY <1>6 DEF Same, LiveOn
    <2> QED
      BY <1>2, <1>6, <2>1
  <1> QED
    BY <1>2, <1>3, <1>4, <1>5, <1>6 DEF FlightAt

\* What concerns a client in the inbox of a server.
FirstJoins(q, c) == \A i \in Moves(q, c) : q[i].type = "Client" => q[i].obj = NoBoard

\* A message that is sent to a server, or read by it, and what it says of a client.
LEMMA QueueAppend ==
  ASSUME NEW q \in Seq(ServerMessage), NEW m \in ServerMessage, NEW c
  PROVE  /\ Moves(Append(q, m), c) = {} <=> Moves(q, c) = {} /\ ~ IsMove(m, c)
         /\ \A b, k : NothingDue(Append(q, m), b, k) <=>
                        NothingDue(q, b, k) /\ m \notin {Update("a", b, k), Update("d", b, k)}
         /\ FirstJoins(q, c) /\ (IsMove(m, c) /\ m.type = "Client" => m.obj = NoBoard) =>
              FirstJoins(Append(q, m), c)
PROOF
  <1> DEFINE r == Append(q, m)
  <1>1. /\ DOMAIN q = 1 .. Len(q) /\ Len(q) \in Nat /\ DOMAIN r = 1 .. Len(q) + 1
        /\ \A i \in 1 .. Len(q) : r[i] = q[i]
        /\ r[Len(q) + 1] = m /\ r \in Seq(ServerMessage)
    BY AppendAt
  <1> HIDE DEF r
  <1>2. \A i : i \in Moves(q, c) <=> i \in DOMAIN q /\ IsMove(q[i], c)
    BY MovesAre
  <1>3. \A i : i \in Moves(r, c) <=> i \in DOMAIN r /\ IsMove(r[i], c)
    BY <1>1, MovesAre
  <1>4. \A i \in DOMAIN r : i \in DOMAIN q \/ i = Len(q) + 1
    BY <1>1
  <1>5. Len(q) + 1 \in DOMAIN r /\ DOMAIN q \subseteq DOMAIN r
    BY <1>1
  <1>6. \A i \in DOMAIN q : r[i] = q[i]
    BY <1>1
  <1>7. Moves(r, c) = {} <=> Moves(q, c) = {} /\ ~ IsMove(m, c)
    BY <1>1, <1>2, <1>3, <1>4, <1>5, <1>6
  <1>8. \A b, k : NothingDue(r, b, k) <=>
                    NothingDue(q, b, k) /\ m \notin {Update("a", b, k), Update("d", b, k)}
    BY <1>1, <1>4, <1>5, <1>6 DEF NothingDue
  <1>9. FirstJoins(q, c) /\ (IsMove(m, c) /\ m.type = "Client" => m.obj = NoBoard) =>
          FirstJoins(r, c)
    BY <1>1, <1>2, <1>3, <1>4, <1>5, <1>6 DEF FirstJoins
  <1> QED
    BY <1>7, <1>8, <1>9 DEF r

LEMMA QueueTail ==
  ASSUME NEW q \in Seq(ServerMessage), q # <<>>, NEW c
  PROVE  /\ Moves(q, c) = {} <=> Moves(Tail(q), c) = {} /\ ~ IsMove(Head(q), c)
         /\ \A b, k : NothingDue(q, b, k) <=>
                        NothingDue(Tail(q), b, k)
                          /\ Head(q) \notin {Update("a", b, k), Update("d", b, k)}
         /\ FirstJoins(q, c) =>
              /\ FirstJoins(Tail(q), c)
              /\ IsMove(Head(q), c) /\ Head(q).type = "Client" => Head(q).obj = NoBoard
PROOF
  <1> DEFINE r == Tail(q)
  <1>1. /\ DOMAIN q = 1 .. Len(q) /\ Len(q) \in Nat /\ Len(q) >= 1 /\ q[1] = Head(q)
        /\ DOMAIN r = 1 .. Len(q) - 1 /\ r \in Seq(ServerMessage)
        /\ \A i \in 1 .. Len(q) - 1 : r[i] = q[i + 1]
    BY TailAt
  <1> HIDE DEF r
  <1>2. \A i : i \in Moves(q, c) <=> i \in DOMAIN q /\ IsMove(q[i], c)
    BY MovesAre
  <1>3. \A i : i \in Moves(r, c) <=> i \in DOMAIN r /\ IsMove(r[i], c)
    BY <1>1, MovesAre
  <1>4. 1 \in DOMAIN q /\ \A i \in DOMAIN r : i + 1 \in DOMAIN q /\ r[i] = q[i + 1]
    BY <1>1
  <1>5. ASSUME NEW i \in DOMAIN q, i # 1 PROVE i - 1 \in DOMAIN r /\ r[i - 1] = q[i]
    <2>1. i - 1 \in 1 .. Len(q) - 1 /\ (i - 1) + 1 = i
      BY <1>1, <1>5
    <2> QED
      BY <1>1, <2>1
  <1>7. Moves(q, c) = {} <=> Moves(r, c) = {} /\ ~ IsMove(Head(q), c)
    BY <1>1, <1>2, <1>3, <1>4, <1>5
  <1>8. ASSUME NEW b, NEW k
        PROVE  NothingDue(q, b, k) <=>
                 NothingDue(r, b, k) /\ Head(q) \notin {Update("a", b, k), Update("d", b, k)}
    <2>1. NothingDue(q, b, k) => NothingDue(r, b, k) /\ Head(q) \notin {Update("a", b, k), Update("d", b, k)}
      BY <1>1, <1>4 DEF NothingDue
    <2>2. ASSUME NothingDue(r, b, k), q[1] \notin {Update("a", b, k), Update("d", b, k)}, NEW i \in DOMAIN q
          PROVE  q[i] \notin {Update("a", b, k), Update("d", b, k)}
      BY <1>5, <2>2 DEF NothingDue
    <2> QED
      BY <1>1, <2>1, <2>2 DEF NothingDue
  <1>9. ASSUME FirstJoins(q, c) PROVE FirstJoins(r, c)
    BY <1>2, <1>3, <1>4, <1>9 DEF FirstJoins
  <1>10. FirstJoins(q, c) => (IsMove(Head(q), c) /\ Head(q).type = "Client" => Head(q).obj = NoBoard)
    BY <1>1, <1>2, <1>4 DEF FirstJoins
  <1> QED
    BY <1>7, <1>8, <1>9, <1>10 DEF r

--------------------------------------------------------------------------------
(* What a client shows *)

\* The parts of OnScreen.
LEMMA ShownOthers ==
  ASSUME NEW s, NEW c, NEW k, k \notin OnBoard(s, curr_db[c]) \cup Offered(c)
  PROVE  Shown(s, c, k)
PROOF
  <1>1. ~ Listed(inbox[c], objects[c], k)
    BY ListedOffered, OfferedIs
  <1> QED
    BY <1>1 DEF Shown

LEMMA ShownOthersNext ==
  ASSUME NEW s, NEW c, NEW k, k \notin OnBoard(s, curr_db[c])' \cup Offered(c)'
  PROVE  Shown(s, c, k)'
PROOF
  <1>1. ~ Listed(inbox'[c], objects'[c], k)
    BY ListedOffered, OfferedIs
  <1>2. k \notin OnBoard(s, curr_db[c])'
    OBVIOUS
  <1> QED
    BY <1>1, <1>2 DEF Shown

NowhereOn(c) == \A s \in Server, b \in Board : c \notin JoinedTo(s, b)

\* OnScreen over all objects: the others are shown right for want of any message.
LEMMA OnScreenIs ==
  ASSUME NEW c \in Client
  PROVE  OnScreen(c) <=>
           /\ Attached(c)
           /\ switched[c] = {} =>
                /\ \A s \in Server : FirstJoins(inbox[s], c)
                /\ NowhereOn(c) => \A k : ~ Listed(inbox[c], objects[c], k)
           /\ \A s \in Server : \A k : Shown(s, c, k)
PROOF
  <1>1. (\A k \in Offered(c) : ~ Listed(inbox[c], objects[c], k))
          <=> \A k : ~ Listed(inbox[c], objects[c], k)
    BY ListedOffered, OfferedIs
  <1>2. OnFirstBoard(c) <=>
          /\ \A s \in Server : FirstJoins(inbox[s], c)
          /\ NowhereOn(c) => \A k : ~ Listed(inbox[c], objects[c], k)
    BY <1>1 DEF OnFirstBoard, FirstJoins, NowhereOn
  <1>3. \A s \in Server : (\A k \in OnBoard(s, curr_db[c]) \cup Offered(c) : Shown(s, c, k))
                            <=> \A k : Shown(s, c, k)
    BY ShownOthers
  <1> QED
    BY <1>2, <1>3 DEF OnScreen

LEMMA OnScreenNext ==
  ASSUME NEW c \in Client, Attached(c)',
         switched'[c] = {} =>
           /\ \A s \in Server : FirstJoins(inbox'[s], c)
           /\ NowhereOn(c)' => \A k : ~ Listed(inbox'[c], objects'[c], k),
         \A s \in Server : \A k : Shown(s, c, k)'
  PROVE  OnScreen(c)'
PROOF
  BY DEF OnScreen, OnFirstBoard, FirstJoins, NowhereOn

\* Attached, now and next.
LEMMA AttachedIs ==
  ASSUME NEW c
  PROVE  /\ Attached(c) <=>
              /\ \A s \in Server : NoLeft(inbox[s], c)
              /\ Offered(c) # {} => client_server_group[c] # NoServer
              /\ \A s \in Server : s = client_server_group[c] => Offered(c) \subseteq DOMAIN file[s]
         /\ Attached(c)' <=>
              /\ \A s \in Server : NoLeft(inbox'[s], c)
              /\ Offered(c)' # {} => client_server_group'[c] # NoServer
              /\ \A s \in Server : s = client_server_group'[c] => Offered(c)' \subseteq DOMAIN file'[s]
PROOF
  BY DEF Attached, NoLeft

\* The clients of a board are those that have their place there.
LEMMA JoinedAt ==
  ASSUME ListType, NEW s \in Server, NEW c \in Client, NEW b
  PROVE  c \in JoinedTo(s, b) <=> b \in Board /\ b \in At(s, c)
PROOF
  <1>1. \A i \in DOMAIN db_list[s] : db_list[s][i].db_name \in Board
    BY ListsAre, NodeParts
  <1>2. c \in JoinedTo(s, b) <=> \E i \in DOMAIN db_list[s] :
          c \in ToSet(db_list[s][i].clients) /\ db_list[s][i].db_name = b
    BY DEF JoinedTo, Nodes
  <1>3. b \in Board => b # NoBoard
    BY BoardAssumption
  <1>4. b \in Board => (b \in At(s, c) <=> \E i \in DOMAIN db_list[s] :
          c \in ToSet(db_list[s][i].clients) /\ db_list[s][i].db_name = b)
    BY <1>3 DEF At, NodesWith
  <1> QED
    BY <1>1, <1>2, <1>4

LEMMA JoinedAtNext ==
  ASSUME ListType', NEW s \in Server, NEW c \in Client, NEW b
  PROVE  (c \in JoinedTo(s, b))' <=> b \in Board /\ b \in At(s, c)'
PROOF
  <1>1. \A i \in DOMAIN db_list'[s] : db_list'[s][i].db_name \in Board
    <2>1. BoardList(db_list'[s])
      BY DEF ListType, BoardList
    <2> QED
      BY <2>1, NodeParts
  <1>2. (c \in JoinedTo(s, b))' <=> \E i \in DOMAIN db_list'[s] :
          c \in ToSet(db_list'[s][i].clients) /\ db_list'[s][i].db_name = b
    BY DEF JoinedTo, Nodes
  <1>3. b \in Board => b # NoBoard
    BY BoardAssumption
  <1>4. b \in Board => (b \in At(s, c)' <=> \E i \in DOMAIN db_list'[s] :
          c \in ToSet(db_list'[s][i].clients) /\ db_list'[s][i].db_name = b)
    BY <1>3 DEF At, NodesWith
  <1> QED
    BY <1>1, <1>2, <1>4

LEMMA JoinedStays ==
  ASSUME ListType, ListType', NEW s \in Server, NEW c \in Client, Stays(s, c), NEW b
  PROVE  (c \in JoinedTo(s, b))' <=> c \in JoinedTo(s, b)
PROOF
  BY JoinedAt, JoinedAtNext DEF Stays

\* A client that has left no server is on the lists of the one it is with.
LEMMA HomeIs ==
  ASSUME TypeInv, NEW c \in Client, Placed(c), up[c], Attached(c),
         NEW s \in Server, up[s], s # client_server_group[c]
  PROVE  At(s, c) = {} /\ Moves(inbox[s], c) = {}
PROOF
  <1> DEFINE q == inbox[s]
  <1>1. q \in Seq(ServerMessage)
    BY BoxAt DEF TypeInv
  <1>2. NoLeft(q, c)
    BY AttachedIs
  <1>3. OneGroup(c) /\ InPlace(s, c)
    BY PlacedIs
  <1>4. EndPlace(q, c, At(s, c)) = {}
    BY <1>3, InPlaceIs DEF OneGroup, Expected
  <1> HIDE DEF q
  <1>5. Len(q) + 1 \in Nat /\ \A i \in Moves(q, c) : i \in DOMAIN q /\ IsMove(q[i], c) /\ i < Len(q) + 1
    <2>1. Len(q) \in Nat /\ \A i \in Moves(q, c) : i \in Nat /\ i <= Len(q)
      BY <1>1, MovesAre
    <2> QED
      BY <1>1, <2>1, MovesAre
  <1>6. ASSUME NEW k \in Moves(q, c) PROVE After(q[k]) # {}
    <2>1. q[k] \in ServerMessage /\ IsMove(q[k], c) /\ q[k] # Left(c)
      BY <1>1, <1>2, <1>5 DEF NoLeft
    <2>2. q[k].type # "Left"
      BY <2>1, MessageKinds DEF IsMove
    <2> QED
      BY <2>2 DEF After
  <1>7. (\A j \in Moves(q, c) : ~ (j < Len(q) + 1)) /\ PlaceBefore(q, c, At(s, c), Len(q) + 1) = At(s, c)
    BY <1>1, <1>4, <1>5, <1>6, PlaceBeforeIs DEF EndPlace
  <1> QED
    BY <1>4, <1>5, <1>7 DEF EndPlace, q

\* Shown is kept when nothing changes that it is about, or when the step itself
\* makes the list right.
LEMMA ShownWith ==
  ASSUME NEW s, NEW c, NEW k, Shown(s, c, k), NEW b, b = curr_db[c],
         curr_db'[c] = b, wiped'[c] = wiped[c], switched'[c] = switched[c],
         (c \in JoinedTo(s, b))' /\ Moves(inbox'[s], c) = {} /\ NothingDue(inbox'[s], b, k) =>
           \/ /\ c \in JoinedTo(s, b) /\ Moves(inbox[s], c) = {} /\ NothingDue(inbox[s], b, k)
              /\ k \in OnBoard(s, b)' <=> k \in OnBoard(s, b)
              /\ Listed(inbox'[c], objects'[c], k) <=> Listed(inbox[c], objects[c], k)
           \/ k \in OnBoard(s, b)' <=> Listed(inbox'[c], objects'[c], k)
  PROVE  Shown(s, c, k)'
PROOF
  <1>1. (c \in JoinedTo(s, curr_db[c]))' <=> (c \in JoinedTo(s, b))'
    BY DEF JoinedTo, Nodes
  <1>2. (k \in OnBoard(s, curr_db[c]))' <=> k \in OnBoard(s, b)'
    BY DEF OnBoard
  <1> SUFFICES ASSUME (c \in JoinedTo(s, b))', Moves(inbox'[s], c) = {}, NothingDue(inbox'[s], b, k)
               PROVE  /\ ~ wiped'[c] /\ k \in OnBoard(s, b)' => Listed(inbox'[c], objects'[c], k)
                      /\ switched'[c] = {} /\ Listed(inbox'[c], objects'[c], k) => k \in OnBoard(s, b)'
    BY <1>1, <1>2 DEF Shown
  <1>3. CASE k \in OnBoard(s, b)' <=> Listed(inbox'[c], objects'[c], k)
    BY <1>3
  <1>4. CASE /\ c \in JoinedTo(s, b) /\ Moves(inbox[s], c) = {} /\ NothingDue(inbox[s], b, k)
             /\ k \in OnBoard(s, b)' <=> k \in OnBoard(s, b)
             /\ Listed(inbox'[c], objects'[c], k) <=> Listed(inbox[c], objects[c], k)
    BY <1>4 DEF Shown
  <1> QED
    BY <1>3, <1>4

\* It is kept when the client is not on that board and server.
LEMMA ShownElsewhere ==
  ASSUME NEW s, NEW c, NEW k, (c \notin JoinedTo(s, curr_db[c]))' \/ Moves(inbox'[s], c) # {}
  PROVE  Shown(s, c, k)'
PROOF
  BY DEF Shown

\* What a server reads or gets that client c is not concerned with.
Unconcerned(s, c) ==
  \/ inbox'[s] = inbox[s]
  \/ \E m \in ServerMessage : /\ ~ IsMove(m, c) /\ m.type # "Update"
                              /\ inbox'[s] = Append(inbox[s], m)
  \/ /\ inbox[s] # <<>> /\ ~ IsMove(Head(inbox[s]), c) /\ Head(inbox[s]).type # "Update"
     /\ inbox'[s] = Tail(inbox[s])

\* A step that does not concern a client leaves its moves and what is due to it.
LEMMA UnconcernedKeeps ==
  ASSUME TypeInv, NEW s \in Server, NEW c \in Client, Unconcerned(s, c)
  PROVE  /\ Moves(inbox'[s], c) = {} <=> Moves(inbox[s], c) = {}
         /\ \A b, k : NothingDue(inbox'[s], b, k) <=> NothingDue(inbox[s], b, k)
         /\ FirstJoins(inbox[s], c) => FirstJoins(inbox'[s], c)
         /\ NoLeft(inbox[s], c) => NoLeft(inbox'[s], c)
PROOF
  <1> DEFINE q == inbox[s]
  <1>1. q \in Seq(ServerMessage)
    BY BoxAt DEF TypeInv
  <1>2. \A m : m.type # "Update" => \A b, k : m \notin {Update("a", b, k), Update("d", b, k)}
    BY UpdateParts
  <1> HIDE DEF q
  <1>3. CASE inbox'[s] = q
    BY <1>3 DEF q
  <1>4. CASE \E m \in ServerMessage : ~ IsMove(m, c) /\ m.type # "Update" /\ inbox'[s] = Append(q, m)
    <2>1. PICK m \in ServerMessage : ~ IsMove(m, c) /\ m.type # "Update" /\ inbox'[s] = Append(q, m)
      BY <1>4
    <2>2. m # Left(c)
      BY <2>1 DEF IsMove, Left
    <2> QED
      BY <1>1, <1>2, <2>1, <2>2, QueueAppend, NoLeftAppend DEF q
  <1>5. CASE /\ q # <<>> /\ ~ IsMove(Head(q), c) /\ Head(q).type # "Update" /\ inbox'[s] = Tail(q)
    BY <1>1, <1>2, <1>5, QueueTail, NoLeftTail DEF q
  <1> QED
    BY <1>3, <1>4, <1>5 DEF Unconcerned, q

\* What the client has and will have on its list stays the same.
SameList(c) ==
  /\ \A k : Listed(inbox'[c], objects'[c], k) <=> Listed(inbox[c], objects[c], k)
  /\ Offered(c)' \subseteq Offered(c)
\* What the client takes itself to be is the same.
SameClaims(c) ==
  /\ client_server_group'[c] = client_server_group[c] /\ curr_db'[c] = curr_db[c]
  /\ wiped'[c] = wiped[c] /\ switched'[c] = switched[c]

\* Then what it shows is right as before.
LEMMA ScreenStays ==
  ASSUME TypeInv, ListType', NEW c \in Client, OnScreen(c), SameList(c), SameClaims(c),
         \A s \in Server : Stays(s, c) /\ Unconcerned(s, c) /\ file'[s] = file[s]
  PROVE  OnScreen(c)'
PROOF
  <1>0. ListType
    BY DEF TypeInv
  <1>1. Attached(c)'
    <2>1. \A s \in Server : NoLeft(inbox'[s], c)
      BY UnconcernedKeeps, OnScreenIs, AttachedIs
    <2> QED
      BY <2>1, OnScreenIs, AttachedIs DEF SameList, SameClaims
  <1>2. \A s \in Server : \A b : (c \in JoinedTo(s, b))' <=> c \in JoinedTo(s, b)
    BY <1>0, JoinedStays
  <1>3. ASSUME switched'[c] = {}
        PROVE  /\ \A s \in Server : FirstJoins(inbox'[s], c)
               /\ NowhereOn(c)' => \A k : ~ Listed(inbox'[c], objects'[c], k)
    <2>1. \A s \in Server : FirstJoins(inbox'[s], c)
      BY <1>3, UnconcernedKeeps, OnScreenIs DEF SameClaims
    <2>2. NowhereOn(c)' => NowhereOn(c)
      BY <1>2 DEF NowhereOn
    <2> QED
      BY <1>3, <2>1, <2>2, OnScreenIs DEF SameClaims, SameList
  <1>4. ASSUME NEW s \in Server, NEW k PROVE Shown(s, c, k)'
    <2>1. Shown(s, c, k)
      BY OnScreenIs
    <2>2. \A b : k \in OnBoard(s, b)' <=> k \in OnBoard(s, b)
      BY OnBoardIs
    <2>3. Listed(inbox'[c], objects'[c], k) <=> Listed(inbox[c], objects[c], k)
      BY DEF SameList
    <2> QED
      BY <1>2, <2>1, <2>2, <2>3, UnconcernedKeeps, ShownWith DEF SameClaims
  <1> QED
    BY <1>1, <1>3, <1>4, OnScreenNext

--------------------------------------------------------------------------------
(* What a client shows: its own steps and those of other clients *)

\* The list of a client is the same.
SameScreen(c) ==
  objects'[c] = objects[c] /\ wiped'[c] = wiped[c] /\ switched'[c] = switched[c]

LEMMA OthersSameScreen ==
  ASSUME TypeInv, NEW d \in Client, UserCommand(d) \/ ClientStep(d)
  PROVE  UNCHANGED file /\ \A c \in Client : c # d => SameScreen(c)
PROOF
  <1>1. UNCHANGED file
    BY DEF UserCommand, Connect, Join, JoinRefused, Post, Change, Quit, AskView, Command, ClientStep,
           RecvResponse, RecvMembership, serverVars
  <1>2. VariableType /\ ScreenType
    BY DEF TypeInv
  <1>3. CASE \E s \in Server : Connect(d, s)
    BY <1>1, <1>2, <1>3 DEF Connect, ReInit, screenVars, SameScreen, VariableType, ScreenType
  <1>4. CASE \E b \in Board : Join(d, b)
    BY <1>1, <1>2, <1>4 DEF Join, SameScreen, VariableType, ScreenType
  <1>5. CASE JoinRefused(d)
    BY <1>1, <1>2, <1>5 DEF JoinRefused, historyVars, SameScreen, ScreenType
  <1>6. CASE \/ Post(d) \/ AskView(d) \/ Quit(d)
             \/ \E op \in {"e", "d"}, line \in 1 .. obj_num[d] : Change(d, op, line)
    BY <1>1, <1>6 DEF Post, AskView, Quit, Change, clientVars, screenVars, historyVars, SameScreen
  <1>7. CASE RecvResponse(d)
    BY <1>1, <1>2, <1>7 DEF RecvResponse, historyVars, SameScreen, ScreenType
  <1>8. CASE RecvMembership(d)
    BY <1>1, <1>2, <1>8 DEF RecvMembership, ReInit, historyVars, SameScreen, ScreenType
  <1> QED
    BY <1>3, <1>4, <1>5, <1>6, <1>7, <1>8 DEF UserCommand, ClientStep

\* No message to a client, and no read of one.
LEMMA SameListSame ==
  ASSUME NEW c, inbox'[c] = inbox[c], objects'[c] = objects[c]
  PROVE  SameList(c)
PROOF
  BY OfferedIs DEF SameList

\* What a client sends does not concern the others.
LEMMA SentUnconcerned ==
  ASSUME NEW d \in Client, NEW t \in Server, Sends(d, t), NEW c \in Client, c # d
  PROVE  Unconcerned(t, c)
PROOF
  <1>1. CASE Leaves(d, t)
    <2>1. Left(d) \in ServerMessage /\ ~ IsMove(Left(d), c) /\ Left(d).type # "Update"
      BY Moving, ServerMessages
    <2> QED
      BY <1>1, <2>1 DEF Leaves, Unconcerned
  <1>2. CASE Requests(d, t)
    <2>1. PICK m \in RequestMessage : m.client = d /\ inbox'[t] = Append(inbox[t], m)
      BY <1>2 DEF Requests
    <2>2. m \in ServerMessage /\ ~ IsMove(m, c) /\ m.type # "Update"
      BY <2>1, Moving, ServerMessages, MessageKinds
    <2> QED
      BY <2>1, <2>2 DEF Unconcerned
  <1> QED
    BY <1>1, <1>2 DEF Sends, Silent, Unconcerned

\* A step of one client is nothing to what the others show.
LEMMA OthersOnScreen ==
  ASSUME TypeInv, ListType', ConnectionInv, NEW d \in Client, UserCommand(d) \/ ClientStep(d),
         NEW c \in Client, c # d, OnScreen(c)
  PROVE  OnScreen(c)'
PROOF
  <1>1. SameClient(c) /\ UNCHANGED <<client_list, db_list>>
    BY OthersSeeNothing
  <1>2. SameScreen(c) /\ UNCHANGED file
    BY OthersSameScreen
  <1>3. SameList(c) /\ SameClaims(c)
    BY <1>1, <1>2, SameListSame DEF SameClient, SameScreen, SameClaims
  <1>4. \A s \in Server : Stays(s, c)
    BY <1>1, StaysWhenSame
  <1>5. \A s \in Server : Unconcerned(s, c)
    BY ClientSends, SentUnconcerned
  <1> QED
    BY <1>2, <1>3, <1>4, <1>5, ScreenStays

\* What the client asks for does not move it.
LEMMA AskOnScreen ==
  ASSUME TypeInv, ListType', ConnectionInv, NEW d \in Client, OnScreen(d),
         \/ Post(d) \/ AskView(d)
         \/ \E op \in {"e", "d"}, line \in 1 .. obj_num[d] : Change(d, op, line)
  PROVE  OnScreen(d)'
PROOF
  <1>1. client_connected[d] /\ UNCHANGED <<clientVars, serverVars>>
    BY OtherRequests
  <1>2. PICK r \in RequestMessage : /\ r.op \in {"a", "e", "d", "v"} /\ r.client = d
                                    /\ inbox' = To(inbox, d, cs_index[d], r)
    BY OtherRequests
  <1>3. /\ inbox'[d] = inbox[d]
        /\ \A t \in Server : inbox'[t] = inbox[t] \/ inbox'[t] = Append(inbox[t], r)
    BY <1>1, <1>2, AskBoxes
  <1>4. r \in ServerMessage /\ ~ IsMove(r, d) /\ r.type # "Update"
    BY <1>2, Moving, ServerMessages, MessageKinds
  <1>5. \A s \in Server : Unconcerned(s, d)
    BY <1>3, <1>4 DEF Unconcerned
  <1>6. UNCHANGED <<objects, wiped, switched, client_server_group, curr_db, file, client_list, db_list>>
    BY <1>1 DEF clientVars, sessionVars, screenVars, historyVars, serverVars
  <1>7. SameList(d) /\ SameClaims(d)
    BY <1>3, <1>6, SameListSame DEF SameClaims
  <1>8. \A s \in Server : Stays(s, d) /\ file'[s] = file[s]
    BY <1>6, StaysWhenSame
  <1> QED
    BY <1>5, <1>7, <1>8, ScreenStays

\* A message that the client has read is on its list.
LEMMA ReadOnScreen ==
  ASSUME TypeInv, ListType', NEW d \in Client, OnScreen(d), inbox[d] # <<>>,
         inbox' = Received(d), objects'[d] = KeysAfter(objects[d], Head(inbox[d])),
         SameClaims(d), UNCHANGED serverVars
  PROVE  OnScreen(d)'
PROOF
  <1>1. inbox'[d] = Tail(inbox[d]) /\ \A s \in Server : inbox'[s] = inbox[s]
    BY ReceivedAt, Processes DEF TypeInv
  <1>2. inbox[d] \in Seq(ClientMessage)
    BY BoxAt DEF TypeInv
  <1>3. SameList(d)
    BY <1>1, <1>2, OfferedIs, ListedTail, OfferedTail DEF SameList
  <1>4. \A s \in Server : Unconcerned(s, d)
    BY <1>1 DEF Unconcerned
  <1>5. \A s \in Server : Stays(s, d) /\ file'[s] = file[s]
    BY StaysWhenSame DEF serverVars
  <1> QED
    BY <1>3, <1>4, <1>5, ScreenStays

\* Read_message with a response, or a membership that is not the exit of the server.
LEMMA ResponseOnScreen ==
  ASSUME TypeInv, ListType', NEW d \in Client, OnScreen(d), RecvResponse(d)
  PROVE  OnScreen(d)'
PROOF
  <1>1. /\ inbox[d] # <<>> /\ Head(inbox[d]).type = "Response" /\ inbox' = Received(d)
        /\ UNCHANGED <<sessionVars, wiped, historyVars, serverVars>>
        /\ objects' = [objects EXCEPT ![d] = AfterResponse(@, Head(inbox[d]))]
    BY DEF RecvResponse, Receives
  <1>2. objects'[d] = KeysAfter(objects[d], Head(inbox[d]))
    BY <1>1 DEF KeysAfter, TypeInv, ScreenType
  <1>3. SameClaims(d)
    BY <1>1 DEF SameClaims, sessionVars, historyVars
  <1> QED
    BY <1>1, <1>2, <1>3, ReadOnScreen

\* No server has left the client.
LEMMA NotGone ==
  ASSUME TypeInv, NEW d \in Client, Placed(d), \A t \in Server : up[t], RecvMembership(d)
  PROVE  /\ up[d] /\ inbox[d] # <<>> /\ Head(inbox[d]).type = "Membership" /\ inbox' = Received(d)
         /\ UNCHANGED <<client_server_group, curr_db, objects, wiped, member>>
PROOF
  <1> DEFINE m == Head(inbox[d])
  <1>1. /\ up[d] /\ inbox[d] # <<>> /\ inbox[d] \in Seq(ClientMessage)
        /\ m \in ClientMessage /\ m.type = "Membership"
    BY HeadOfClient DEF RecvMembership, TypeInv
  <1>2. m.group \in Server
    BY <1>1, MessageKinds
  <1>3. OneTwo(inbox[d], m.group)
    BY <1>1, <1>2, PlacedIs DEF ToldOnce
  <1>4. IsAbout(m, m.group)
    BY <1>1 DEF IsAbout
  <1>5. m.cause # "gone"
    BY <1>1, <1>3, <1>4, OneTwoTail
  <1> QED
    BY <1>1, <1>5 DEF RecvMembership

LEMMA MembershipOnScreen ==
  ASSUME TypeInv, ListType', NEW d \in Client, Placed(d), OnScreen(d), \A t \in Server : up[t],
         RecvMembership(d)
  PROVE  OnScreen(d)'
PROOF
  <1>1. /\ inbox[d] # <<>> /\ Head(inbox[d]).type = "Membership" /\ inbox' = Received(d)
        /\ UNCHANGED <<client_server_group, curr_db, objects, wiped>>
    BY NotGone
  <1>2. UNCHANGED <<historyVars, serverVars>>
    BY DEF RecvMembership
  <1>3. objects'[d] = KeysAfter(objects[d], Head(inbox[d])) /\ SameClaims(d)
    BY <1>1, <1>2 DEF KeysAfter, SameClaims, historyVars
  <1> QED
    BY <1>1, <1>2, <1>3, ReadOnScreen

\* A list that is cleared has only less on it.
LEMMA RefusedOnScreen ==
  ASSUME TypeInv, ListType', NEW d \in Client, OnScreen(d), JoinRefused(d)
  PROVE  OnScreen(d)'
PROOF
  <1>1. /\ UNCHANGED <<sessionVars, historyVars, serverVars, inbox>>
        /\ objects'[d] = {} /\ wiped'[d]
    BY DEF JoinRefused, Command, TypeInv, ScreenType
  <1>2. UNCHANGED <<client_server_group, curr_db, switched, client_list, db_list, file>>
    BY <1>1 DEF sessionVars, historyVars, serverVars
  <1>3. \A k : Listed(inbox'[d], objects'[d], k) => Listed(inbox[d], objects[d], k)
    BY <1>1 DEF Listed
  <1>4. Offered(d)' \subseteq Offered(d)
    BY <1>1 DEF Offered
  <1>5. Attached(d)'
    BY <1>1, <1>2, <1>4, OnScreenIs, AttachedIs
  <1>6. \A s \in Server : \A b : (d \in JoinedTo(s, b))' <=> d \in JoinedTo(s, b)
    BY <1>2 DEF JoinedTo, Nodes
  <1>7. switched'[d] = {} =>
          /\ \A s \in Server : FirstJoins(inbox'[s], d)
          /\ NowhereOn(d)' => \A k : ~ Listed(inbox'[d], objects'[d], k)
    BY <1>1, <1>2, <1>3, <1>6, OnScreenIs DEF NowhereOn
  <1>8. ASSUME NEW s \in Server, NEW k PROVE Shown(s, d, k)'
    <2>1. Shown(s, d, k)
      BY OnScreenIs
    <2>2. (d \in JoinedTo(s, curr_db[d]))' <=> d \in JoinedTo(s, curr_db[d])
      BY <1>2 DEF JoinedTo, Nodes
    <2>3. OnBoard(s, curr_db[d])' = OnBoard(s, curr_db[d])
      BY <1>2 DEF OnBoard
    <2> QED
      BY <1>1, <1>2, <1>3, <2>1, <2>2, <2>3 DEF Shown
  <1> QED
    BY <1>5, <1>7, <1>8, OnScreenNext

\* A client on no list of a board stays on none.
LEMMA NotJoinedThere ==
  ASSUME ListType', NEW c \in Client, NEW s \in Server, At(s, c)' = {}, NEW k
  PROVE  Shown(s, c, k)'
PROOF
  <1>1. (c \notin JoinedTo(s, curr_db[c]))'
    BY JoinedAtNext
  <1> QED
    BY <1>1, ShownElsewhere

\* A client that joins a board clears its list; nothing is shown before the server
\* has read the request.
LEMMA JoinOnScreen ==
  ASSUME TypeInv, ListType', ConnectionInv, far = {}, \A t \in Server : up[t],
         NEW d \in Client, Placed(d), OnScreen(d), NEW b \in Board, Join(d, b)
  PROVE  OnScreen(d)'
PROOF
  <1> DEFINE g == client_server_group[d]
             r == Request("j", d, b, 0, curr_db[d])
  <1>1. /\ up[d] /\ client_connected[d] /\ curr_db[d] \in Place
        /\ inbox' = To(inbox, d, cs_index[d], r)
        /\ UNCHANGED <<client_server_group, client_list, db_list, file>>
        /\ objects'[d] = {}
        /\ switched'[d] = IF curr_db[d] # NoBoard THEN switched[d] \cup {"board"} ELSE switched[d]
    BY DEF Join, Command, serverVars, TypeInv, VariableType, ScreenType
  <1>2. r \in RequestMessage /\ g \in Server
    BY <1>1, ServerMessages, ConnectedTo
  <1>3. /\ inbox'[d] = inbox[d]
        /\ inbox'[g] = Append(inbox[g], r) /\ \A t \in Server : t # g => inbox'[t] = inbox[t]
    <2>1. /\ \A c \in Client : inbox'[c] = inbox[c]
          /\ \A t \in Server : inbox'[t] =
               IF t = client_server_group[d] /\ up[t] /\ Together(d, t)
                 THEN Append(inbox[t], r) ELSE inbox[t]
      BY <1>1, <1>2, AskBoxes
    <2>2. \A t : Together(d, t)
      BY DEF Together
    <2> QED
      BY <1>2, <2>1, <2>2
  <1>4. r \in ServerMessage /\ IsMove(r, d) /\ r.type = "Client" /\ r.obj = curr_db[d] /\ r # Left(d)
    BY <1>2, ServerMessages, RequestParts DEF IsMove, Left
  <1>5. \A t \in Server : inbox[t] \in Seq(ServerMessage)
    BY BoxAt DEF TypeInv
  <1> HIDE DEF r
  <1>6. \A k : Listed(inbox'[d], objects'[d], k) => Listed(inbox[d], objects[d], k)
    BY <1>1, <1>3 DEF Listed
  <1>7. Offered(d)' \subseteq Offered(d)
    BY <1>1, <1>3 DEF Offered
  <1>8. Attached(d)'
    <2>1. \A s \in Server : NoLeft(inbox[s], d)
      BY OnScreenIs, AttachedIs
    <2>2. \A s \in Server : NoLeft(inbox'[s], d)
      BY <1>2, <1>3, <1>4, <1>5, <2>1, NoLeftAppend
    <2> QED
      BY <1>1, <1>7, <2>2, OnScreenIs, AttachedIs
  <1>9. ASSUME switched'[d] = {}
        PROVE  /\ \A s \in Server : FirstJoins(inbox'[s], d)
               /\ NowhereOn(d)' => \A k : ~ Listed(inbox'[d], objects'[d], k)
    <2>1. curr_db[d] = NoBoard /\ switched[d] = {}
      BY <1>1, <1>9
    <2>2. \A s \in Server : FirstJoins(inbox'[s], d)
      <3>1. \A s \in Server : FirstJoins(inbox[s], d)
        BY <2>1, OnScreenIs
      <3>2. FirstJoins(Append(inbox[g], r), d)
        BY <1>2, <1>4, <1>5, <2>1, <3>1, QueueAppend
      <3> QED
        BY <1>3, <3>1, <3>2
    <2>3. NowhereOn(d)' => NowhereOn(d)
      BY <1>1 DEF NowhereOn, JoinedTo, Nodes
    <2> QED
      BY <1>6, <2>1, <2>2, <2>3, OnScreenIs
  <1>10. ASSUME NEW s \in Server, NEW k PROVE Shown(s, d, k)'
    <2>1. CASE s = g
      <3>1. Moves(Append(inbox[g], r), d) # {}
        BY <1>2, <1>4, <1>5, QueueAppend
      <3> QED
        BY <1>3, <2>1, <3>1, ShownElsewhere
    <2>2. CASE s # g
      <3>1. At(s, d) = {}
        BY <1>1, <2>2, HomeIs, OnScreenIs
      <3>2. Stays(s, d)
        BY <1>1, StaysWhenSame
      <3> QED
        BY <3>1, <3>2, NotJoinedThere DEF Stays
    <2> QED
      BY <2>1, <2>2
  <1> QED
    BY <1>8, <1>9, <1>10, OnScreenNext

\* A client that connects for the first time has nothing on its list.
LEMMA ConnectOnScreen ==
  ASSUME TypeInv, ListType', ConnectionInv, far = {}, \A t \in Server : up[t],
         NEW d \in Client, Placed(d), OnScreen(d), NEW s \in Server, Connect(d, s),
         ~ hasty'[d], "server" \notin switched'[d]
  PROVE  OnScreen(d)'
PROOF
  <1> DEFINE r == Request("c", d, NoBoard, 0, NoBoard)
  <1>1. /\ up[d] /\ ~ Waits(d) /\ ConnectState(d, s) /\ UNCHANGED <<client_list, db_list>>
    BY ConnectBelief
  <1>2. ~ client_connected[d] /\ switched'[d] = switched[d]
    BY DEF Connect, TypeInv, VariableType
  <1>3. client_server_group[d] = NoServer
    BY <1>1, <1>2, Settled
  <1>4. UNCHANGED <<file, objects>>
    BY <1>2 DEF Connect, Command, serverVars, screenVars
  <1>5. Offered(d) = {} /\ \A t \in Server : NoLeft(inbox[t], d)
    BY <1>3, OnScreenIs, AttachedIs
  <1>6. r \in RequestMessage /\ r \in ServerMessage /\ r.type = "Client" /\ r.obj = NoBoard /\ r # Left(d)
    BY ServerMessages, RequestParts DEF Left
  <1>7. /\ \E m \in ClientMessage : m.type = "Membership" /\ inbox'[d] \in {inbox[d], Append(inbox[d], m)}
        /\ \A t \in Server : inbox'[t] = inbox[t] \/ inbox'[t] = Append(inbox[t], r)
    <2>1. /\ inbox'[d] = IF s \in member[d] THEN inbox[d]
                         ELSE Append(inbox[d], Membership(s, IF Meets(d, s) THEN 2 ELSE 1, "join"))
          /\ \A t \in Server :
               inbox'[t] =
                 IF t = s
                   THEN IF up[s] /\ Together(d, s) THEN Append(inbox[s], r) ELSE inbox[s]
                 ELSE IF client_connected[d] /\ t = client_server_group[d] /\ Both(d, t) /\ up[t]
                   THEN Append(inbox[t], Left(d)) ELSE inbox[t]
      BY ConnectBoxes
    <2>2. (IF Meets(d, s) THEN 2 ELSE 1) \in {1, 2}
      OBVIOUS
    <2>3. /\ Membership(s, IF Meets(d, s) THEN 2 ELSE 1, "join") \in ClientMessage
          /\ Membership(s, IF Meets(d, s) THEN 2 ELSE 1, "join").type = "Membership"
      BY <2>2, ClientMessages
    <2>4. \A t \in Server : inbox'[t] = inbox[t] \/ inbox'[t] = Append(inbox[t], r)
      BY <1>2, <2>1
    <2>5. inbox'[d] \in {inbox[d], Append(inbox[d], Membership(s, IF Meets(d, s) THEN 2 ELSE 1, "join"))}
      BY <2>1
    <2> QED
      BY <2>3, <2>4, <2>5
  <1> HIDE DEF r
  <1>8. inbox[d] \in Seq(ClientMessage) /\ \A t \in Server : inbox[t] \in Seq(ServerMessage)
    BY BoxAt DEF TypeInv
  <1>9. Offered(d)' = {}
    <2>1. PICK m \in ClientMessage : m.type = "Membership" /\ inbox'[d] \in {inbox[d], Append(inbox[d], m)}
      BY <1>7
    <2>2. OfferedIn(inbox[d], objects[d]) = {}
      BY <1>5, OfferedIs
    <2>3. CASE inbox'[d] = inbox[d]
      BY <1>4, <2>2, <2>3, OfferedIs
    <2>4. CASE inbox'[d] = Append(inbox[d], m)
      <3>1. OfferedIn(Append(inbox[d], m), objects[d]) \subseteq OfferedIn(inbox[d], objects[d]) \cup {}
        BY <1>8, <2>1, OfferedAppend
      <3> QED
        BY <1>4, <2>2, <2>4, <3>1, OfferedIs
    <2> QED
      BY <2>1, <2>3, <2>4
  <1>10. Attached(d)'
    <2>1. \A t \in Server : NoLeft(inbox'[t], d)
      <3>1. \A t \in Server : NoLeft(Append(inbox[t], r), d)
        BY <1>5, <1>6, <1>8, NoLeftAppend
      <3> QED
        BY <1>5, <1>7, <3>1
    <2> QED
      BY <1>9, <2>1, AttachedIs
  <1>11. ASSUME switched'[d] = {}
         PROVE  /\ \A t \in Server : FirstJoins(inbox'[t], d)
                /\ NowhereOn(d)' => \A k : ~ Listed(inbox'[d], objects'[d], k)
    <2>1. \A t \in Server : FirstJoins(inbox'[t], d)
      <3>1. \A t \in Server : FirstJoins(inbox[t], d)
        BY <1>2, <1>11, OnScreenIs
      <3>2. \A t \in Server : FirstJoins(Append(inbox[t], r), d)
        BY <1>6, <1>8, <3>1, QueueAppend
      <3> QED
        BY <1>7, <3>1, <3>2
    <2>2. \A k : ~ Listed(inbox'[d], objects'[d], k)
      BY <1>9, ListedOffered, OfferedIs
    <2> QED
      BY <2>1, <2>2
  <1>12. ASSUME NEW t \in Server, NEW k PROVE Shown(t, d, k)'
    <2>1. curr_db'[d] = NoBoard
      BY <1>1 DEF ConnectState
    <2>2. (d \notin JoinedTo(t, curr_db[d]))'
      BY <2>1, JoinedAtNext, BoardAssumption
    <2> QED
      BY <2>2, ShownElsewhere
  <1> QED
    BY <1>10, <1>11, <1>12, OnScreenNext

\* A step of a client, its own or that of another, keeps what it shows right.
LEMMA ClientOnScreen ==
  ASSUME TypeInv, ListType', ConnectionInv, far = {}, \A t \in Server : up[t],
         NEW d \in Client, UserCommand(d) \/ ClientStep(d),
         NEW c \in Client, Placed(c), OnScreen(c), up'[c], ~ hasty'[c], "server" \notin switched'[c]
  PROVE  OnScreen(c)'
PROOF
  <1>1. CASE c # d
    BY <1>1, OthersOnScreen
  <1>2. CASE c = d
    <2>1. CASE \E s \in Server : Connect(d, s)
      BY <1>2, <2>1, ConnectOnScreen
    <2>2. CASE \E b \in Board : Join(d, b)
      BY <1>2, <2>2, JoinOnScreen
    <2>3. CASE JoinRefused(d)
      BY <1>2, <2>3, RefusedOnScreen
    <2>4. CASE \/ Post(d) \/ AskView(d)
               \/ \E op \in {"e", "d"}, line \in 1 .. obj_num[d] : Change(d, op, line)
      BY <1>2, <2>4, AskOnScreen
    <2>5. ~ Quit(d)
      BY <1>2, Processes DEF Quit, TypeInv, VariableType
    <2>6. CASE RecvResponse(d)
      BY <1>2, <2>6, ResponseOnScreen
    <2>7. CASE RecvMembership(d)
      BY <1>2, <2>7, MembershipOnScreen
    <2> QED
      BY <2>1, <2>2, <2>3, <2>4, <2>5, <2>6, <2>7 DEF UserCommand, ClientStep
  <1> QED
    BY <1>1, <1>2

--------------------------------------------------------------------------------
(* What is on the way to the servers from the clients *)

\* A server gets a message; a deletion is that of an object it has.
FlightGets(s, m) ==
  /\ m \in ServerMessage /\ m.type # "Update"
  /\ m.type = "Client" /\ m.op = "d" => m.obj_id \in DOMAIN file[s]
  /\ inbox'[s] = Append(inbox[s], m)

\* A message that is sent keeps what is on the way to a server.
LEMMA FlightKept ==
  ASSUME TypeInv, NEW s \in Server, InFlight(s), UNCHANGED file,
         inbox'[s] = inbox[s] \/ \E m : FlightGets(s, m)
  PROVE  InFlight(s)'
PROOF
  <1>1. inbox[s] \in Seq(ServerMessage) /\ InFlightIn(inbox[s], file[s])
    BY BoxAt, InFlightIs DEF TypeInv
  <1>2. CASE inbox'[s] = inbox[s]
    BY <1>1, <1>2, InFlightIs
  <1>3. CASE \E m : FlightGets(s, m)
    BY <1>1, <1>3, FlightAppend, InFlightIs DEF FlightGets
  <1> QED
    BY <1>2, <1>3

\* Who deletes an object has it from the server.
LEMMA ChangeFlight ==
  ASSUME TypeInv, ConnectionInv, NEW d \in Client, OnScreen(d), NEW op \in {"e", "d"},
         NEW line \in 1 .. obj_num[d], Change(d, op, line), NEW s \in Server
  PROVE  inbox'[s] = inbox[s] \/ \E m : FlightGets(s, m)
PROOF
  <1> DEFINE k == NthObject(objects[d], line)
             r == Request(op, d, curr_db[d], k, NoBoard)
  <1>1. /\ client_connected[d] /\ curr_db[d] \in Board /\ objects[d] # {} /\ line \in Nat \ {0}
        /\ inbox' = To(inbox, d, cs_index[d], r)
        /\ objects[d] \subseteq Nat /\ IsFiniteSet(objects[d])
    BY DEF Change, TypeInv, VariableType, Place, ScreenType
  <1>2. k \in objects[d] /\ k \in Nat
    BY <1>1, NthObjectType
  <1> HIDE DEF k
  <1>3. r \in RequestMessage /\ r \in ServerMessage /\ r.type = "Client" /\ r.obj_id = k
    BY <1>1, <1>2, ServerMessages DEF Request, Place
  <1> HIDE DEF r
  <1>4. inbox'[s] = IF s = client_server_group[d] /\ up[s] /\ Together(d, s)
                      THEN Append(inbox[s], r) ELSE inbox[s]
    BY <1>1, <1>3, AskBoxes
  <1>5. s = client_server_group[d] => k \in DOMAIN file[s]
    BY <1>2, OnScreenIs, AttachedIs DEF Offered
  <1>6. r.type # "Update"
    BY <1>3
  <1>7. CASE inbox'[s] = inbox[s]
    BY <1>7
  <1>8. CASE s = client_server_group[d] /\ inbox'[s] = Append(inbox[s], r)
    BY <1>3, <1>5, <1>6, <1>8 DEF FlightGets
  <1> QED
    BY <1>4, <1>7, <1>8

\* No step of a client sends a deletion of an object its server does not have.
LEMMA ClientFlight ==
  ASSUME TypeInv, ConnectionInv, \A t \in Server : up[t], NEW d \in Client, Placed(d),
         up[d] => OnScreen(d), UserCommand(d) \/ ClientStep(d), NEW s \in Server, InFlight(s)
  PROVE  InFlight(s)'
PROOF
  <1>1. UNCHANGED file
    BY OthersSameScreen
  <1>2. \A c \in Client : Left(c) \in ServerMessage /\ Left(c).type = "Left"
    BY ServerMessages
  <1>3. CASE \E t \in Server : Connect(d, t)
    <2> DEFINE r == Request("c", d, NoBoard, 0, NoBoard)
    <2>1. r \in ServerMessage /\ r.type = "Client" /\ r.op = "c"
      BY ServerMessages, RequestParts
    <2>2. PICK t \in Server : Connect(d, t)
      BY <1>3
    <2>3. inbox'[s] =
            IF s = t
              THEN IF up[t] /\ Together(d, t) THEN Append(inbox[t], r) ELSE inbox[t]
            ELSE IF client_connected[d] /\ s = client_server_group[d] /\ Both(d, s) /\ up[s]
              THEN Append(inbox[s], Left(d)) ELSE inbox[s]
      BY <2>2, ConnectBoxes
    <2> HIDE DEF r
    <2>4. \/ inbox'[s] = inbox[s] \/ inbox'[s] = Append(inbox[s], r)
          \/ inbox'[s] = Append(inbox[s], Left(d))
      BY <2>3
    <2> QED
      BY <1>1, <1>2, <2>1, <2>4, FlightKept DEF FlightGets
  <1>4. CASE \E b \in Board : Join(d, b)
    <2>1. PICK b \in Board : Join(d, b)
      BY <1>4
    <2> DEFINE r == Request("j", d, b, 0, curr_db[d])
    <2>2. client_connected[d] /\ inbox' = To(inbox, d, cs_index[d], r) /\ curr_db[d] \in Place
      BY <2>1 DEF Join, TypeInv, VariableType
    <2>3. r \in RequestMessage /\ r \in ServerMessage /\ r.type = "Client" /\ r.op = "j"
      BY <2>2, ServerMessages, RequestParts
    <2> HIDE DEF r
    <2>4. inbox'[s] = inbox[s] \/ inbox'[s] = Append(inbox[s], r)
      BY <2>2, <2>3, AskBoxes
    <2> QED
      BY <1>1, <2>3, <2>4, FlightKept DEF FlightGets
  <1>5. CASE JoinRefused(d)
    BY <1>1, <1>5, FlightKept DEF JoinRefused
  <1>6. CASE Post(d) \/ AskView(d)
    <2>1. PICK op \in {"a", "v"} :
            /\ client_connected[d] /\ (op = "a" => curr_db[d] # NoBoard)
            /\ inbox' = To(inbox, d, cs_index[d],
                           Request(op, d, IF op = "a" THEN curr_db[d] ELSE NoBoard, 0, NoBoard))
      BY <1>6 DEF Post, AskView
    <2> DEFINE r == Request(op, d, IF op = "a" THEN curr_db[d] ELSE NoBoard, 0, NoBoard)
    <2>2. op = "a" => curr_db[d] \in Board
      BY <2>1 DEF TypeInv, VariableType, Place
    <2>3. r \in RequestMessage
      <3>1. CASE op = "a"
        BY <2>2, <3>1, ServerMessages DEF Place
      <3>2. CASE op = "v"
        BY <3>2, ServerMessages
      <3> QED
        BY <3>1, <3>2
    <2>4. r \in ServerMessage /\ r.type = "Client" /\ r.op = op
      BY <2>3, ServerMessages, RequestParts
    <2>5. inbox' = To(inbox, d, cs_index[d], r)
      BY <2>1
    <2> HIDE DEF r
    <2>6. inbox'[s] = inbox[s] \/ inbox'[s] = Append(inbox[s], r)
      BY <2>1, <2>3, <2>5, AskBoxes
    <2> QED
      BY <1>1, <2>4, <2>6, FlightKept DEF FlightGets
  <1>7. CASE \E op \in {"e", "d"}, line \in 1 .. obj_num[d] : Change(d, op, line)
    <2>1. up[d]
      BY <1>7 DEF Change
    <2> QED
      BY <1>1, <1>7, <2>1, ChangeFlight, FlightKept
  <1>8. CASE Quit(d)
    <2>1. inbox'[s] \in {inbox[s], Append(inbox[s], Left(d))}
      BY <1>8, LeavingAllAt DEF Quit, TypeInv
    <2> QED
      BY <1>1, <1>2, <2>1, FlightKept DEF FlightGets
  <1>9. CASE RecvResponse(d)
    <2>1. inbox'[s] = inbox[s]
      BY <1>9, ReceivedAt, Processes DEF RecvResponse, Receives, TypeInv
    <2> QED
      BY <1>1, <2>1, FlightKept
  <1>10. CASE RecvMembership(d)
    <2>1. inbox'[s] = inbox[s]
      BY <1>10, NotGone, ReceivedAt, Processes DEF TypeInv
    <2> QED
      BY <1>1, <2>1, FlightKept
  <1> QED
    BY <1>3, <1>4, <1>5, <1>6, <1>7, <1>8, <1>9, <1>10 DEF UserCommand, ClientStep

--------------------------------------------------------------------------------
(* What a client shows: the steps of a server *)

\* Nothing but the messages to the clients changes for them.
LEMMA ClaimsKept ==
  ASSUME UNCHANGED clientVars, NEW c
  PROVE  SameClaims(c) /\ objects'[c] = objects[c]
PROOF
  BY DEF SameClaims, clientVars, sessionVars, screenVars, historyVars

\* send_dboard sends the live objects of the board.
LEMMA DboardKeys ==
  ASSUME FileType, NEW s \in Server, NEW b \in Board
  PROVE  /\ Dboard(s, b) \in Seq(ClientMessage)
         /\ \A i \in DOMAIN Dboard(s, b) :
              /\ Dboard(s, b)[i].type = "Response" /\ Dboard(s, b)[i].op = "a"
              /\ Dboard(s, b)[i].obj_id \in OnBoard(s, b)
         /\ \A k \in OnBoard(s, b) : \E i \in DOMAIN Dboard(s, b) : Dboard(s, b)[i].obj_id = k
PROOF
  <1> DEFINE S == OnBoard(s, b)
             keys == Ascending(S)
  <1>1. S \subseteq Nat /\ IsFiniteSet(S)
    BY FilesFinite
  <1>2. /\ \A i \in DOMAIN keys : keys[i] \in S
        /\ \A x \in S : \E i \in DOMAIN keys : keys[i] = x
    BY <1>1, AscendingFacts
  <1> HIDE DEF keys
  <1>3. DOMAIN Dboard(s, b) = DOMAIN keys /\ \A i \in DOMAIN keys : Dboard(s, b)[i] = Response("a", keys[i])
    BY DEF Dboard, keys
  <1>4. \A k : /\ Response("a", k).type = "Response" /\ Response("a", k).op = "a"
               /\ Response("a", k).obj_id = k
    BY DEF Response
  <1> QED
    BY <1>2, <1>3, <1>4, DboardType

\* Server s reads a request or a leave that is not about client c.
LEMMA ReadUnconcerned ==
  ASSUME TypeInv, NEW s \in Server, inbox[s] # <<>>, Head(inbox[s]).type # "Update",
         NEW c \in Client, ~ IsMove(Head(inbox[s]), c), inbox'[s] = Tail(inbox[s]),
         \A t \in Server : t # s => inbox'[t] = inbox[t]
  PROVE  \A t \in Server : Unconcerned(t, c)
PROOF
  BY DEF Unconcerned

\* A message that is no response changes nothing on the list.
LEMMA SameListAppend ==
  ASSUME TypeInv, NEW c \in Client, objects'[c] = objects[c],
         NEW m \in ClientMessage, m.type = "Membership" \/ m.op = "v",
         inbox'[c] = Append(inbox[c], m)
  PROVE  SameList(c)
PROOF
  <1>1. inbox[c] \in Seq(ClientMessage)
    BY BoxAt DEF TypeInv
  <1>2. ~ (m.type = "Response" /\ m.op \in {"a", "d"})
    BY MessageKinds
  <1>3. \A k : ~ IsMention(m, k)
    BY <1>2 DEF IsMention
  <1>4. \A k : Listed(inbox'[c], objects'[c], k) <=> Listed(inbox[c], objects[c], k)
    BY <1>1, <1>3, ListedAppend
  <1>5. OfferedIn(Append(inbox[c], m), objects[c]) \subseteq OfferedIn(inbox[c], objects[c])
    BY <1>1, <1>2, OfferedAppend
  <1> QED
    BY <1>4, <1>5, OfferedIs DEF SameList

\* A server that reads what moves another client, or sends a view.
LEMMA OtherRequestOnScreen ==
  ASSUME TypeInv, ListType', NEW s \in Server, RecvRequest(s), NEW r, r = Head(inbox[s]),
         NEW c \in Client, OnScreen(c), r.op = "v" \/ (r.op \in {"c", "j"} /\ r.client # c)
  PROVE  OnScreen(c)'
PROOF
  <1>1. /\ inbox[s] # <<>> /\ r \in RequestMessage /\ r.client \in Client
        /\ HandleClientReq(s, r, Received(s)) /\ UNCHANGED clientVars
        /\ IsBox(Received(s)) /\ Received(s)[s] = Tail(inbox[s])
        /\ \A p \in Proc : p # s => Received(s)[p] = inbox[p]
    BY RequestCase
  <1>2. ~ IsMove(r, c) /\ r.type # "Update"
    BY <1>1, Moving, MessageKinds
  <1>3. UNCHANGED file
    BY <1>1 DEF HandleClientReq, PutOnClientList, JoinDb, SendView
  <1>4. \A t \in Server : Stays(t, c)
    BY <1>1, HandlerAt DEF TypeInv
  <1>5. r.op = "j" => r.db_name \in Board
    BY <1>1, MessageKinds
  <1>6. CASE r.op = "c"
    <2>1. inbox' = ServerJoins(Received(s), s, r.client)
      BY <1>1, <1>6 DEF HandleClientReq, PutOnClientList
    <2>2. \A p \in Proc : p # r.client => inbox'[p] = Received(s)[p]
      BY <1>1, <2>1, ServerJoinsAt
    <2>3. inbox'[c] = inbox[c] /\ inbox'[s] = Tail(inbox[s]) /\ \A t \in Server : t # s => inbox'[t] = inbox[t]
      BY <1>1, <1>6, <2>2, Processes
    <2> QED
      BY <1>1, <1>2, <1>3, <1>4, <2>3, ClaimsKept, SameListSame, ReadUnconcerned, ScreenStays
  <1>7. CASE r.op = "j"
    <2>1. inbox' = Received(s) \/ inbox' = SendDboard(Received(s), s, r.client, r.db_name)
      BY <1>1, <1>7 DEF HandleClientReq, JoinDb
    <2>2. \A p \in Proc : p # r.client => inbox'[p] = Received(s)[p]
      BY <1>1, <1>5, <1>7, <2>1, SendDboardAt DEF TypeInv
    <2>3. inbox'[c] = inbox[c] /\ inbox'[s] = Tail(inbox[s]) /\ \A t \in Server : t # s => inbox'[t] = inbox[t]
      BY <1>1, <1>7, <2>2, Processes
    <2> QED
      BY <1>1, <1>2, <1>3, <1>4, <2>3, ClaimsKept, SameListSame, ReadUnconcerned, ScreenStays
  <1>8. CASE r.op = "v"
    <2> DEFINE m == Response("v", 0)
    <2>1. inbox' = To(Received(s), s, r.client, m)
      BY <1>1, <1>8 DEF HandleClientReq, SendView
    <2>2. m \in ClientMessage /\ m.op = "v"
      BY ClientMessages DEF Response
    <2> HIDE DEF m
    <2>3. \A p \in Proc : inbox'[p] = Received(s)[p] \/ (p = r.client /\ inbox'[p] = Append(Received(s)[p], m))
      <3>1. \A p \in Proc : To(Received(s), s, r.client, m)[p] =
              IF p = r.client /\ up[r.client] /\ Together(s, r.client)
                THEN Append(Received(s)[p], m) ELSE Received(s)[p]
        BY <1>1, <2>2, ToClientAt
      <3> QED
        BY <2>1, <3>1
    <2>4. /\ inbox'[c] = inbox[c] \/ inbox'[c] = Append(inbox[c], m)
          /\ inbox'[s] = Tail(inbox[s]) /\ \A t \in Server : t # s => inbox'[t] = inbox[t]
      BY <1>1, <2>3, Processes
    <2>5. SameList(c)
      BY <1>1, <2>2, <2>4, ClaimsKept, SameListSame, SameListAppend
    <2> QED
      BY <1>1, <1>2, <1>3, <1>4, <2>4, <2>5, ClaimsKept, ReadUnconcerned, ScreenStays
  <1> QED
    BY <1>6, <1>7, <1>8

\* Who is with a server is on no list of another.
LEMMA NotJoinedElsewhere ==
  ASSUME TypeInv, ListType', NEW c \in Client, Placed(c), up[c], OnScreen(c), \A t \in Server : up[t],
         NEW s \in Server, At(s, c) # {} \/ Moves(inbox[s], c) # {}, \A t \in Server : t # s => Stays(t, c)
  PROVE  /\ s = client_server_group[c]
         /\ \A t \in Server : t # s => At(t, c) = {}
         /\ \A t \in Server : \A k : t # s => Shown(t, c, k)'
PROOF
  <1>1. Attached(c)
    BY OnScreenIs
  <1>2. s = client_server_group[c]
    BY <1>1, HomeIs
  <1>3. \A t \in Server : t # s => At(t, c) = {}
    BY <1>1, <1>2, HomeIs
  <1>4. \A t \in Server : t # s => At(t, c)' = {}
    BY <1>3 DEF Stays
  <1>5. \A t \in Server : \A k : t # s => Shown(t, c, k)'
    BY <1>4, NotJoinedThere
  <1> QED
    BY <1>2, <1>3, <1>5

\* A client on no board has no place on one.
LEMMA NowhereIs ==
  ASSUME ListType, NEW c \in Client
  PROVE  NowhereOn(c) <=> \A s \in Server, b \in Board : b \notin At(s, c)
PROOF
  BY JoinedAt DEF NowhereOn

\* The server reads the connect of the client: it is on no board yet.
LEMMA ConnectedOnScreen ==
  ASSUME TypeInv, ListType', far = {}, \A t \in Server : up[t], NEW s \in Server, RecvRequest(s),
         NEW r, r = Head(inbox[s]), r.op = "c", NEW c \in Client, c = r.client, Placed(c), up[c],
         OnScreen(c)
  PROVE  OnScreen(c)'
PROOF
  <1>1. /\ Receives(s, "Client") /\ inbox[s] # <<>> /\ r \in RequestMessage
        /\ HandleClientReq(s, r, Received(s)) /\ UNCHANGED clientVars
        /\ IsBox(Received(s)) /\ Received(s)[s] = Tail(inbox[s])
        /\ \A p \in Proc : p # s => Received(s)[p] = inbox[p]
    BY RequestCase
  <1>2. UNCHANGED file /\ inbox' = ServerJoins(Received(s), s, c)
    BY <1>1 DEF HandleClientReq, PutOnClientList
  <1>3. /\ inbox'[c] = inbox[c] \/ inbox'[c] = Append(inbox[c], Membership(s, 2, "join"))
        /\ inbox'[s] = Tail(inbox[s]) /\ \A t \in Server : t # s => inbox'[t] = inbox[t]
    <2>1. \A p \in Proc : ServerJoins(Received(s), s, c)[p] =
            IF p = c /\ up[c] /\ Together(c, s) /\ s \in member[c] /\ c \notin joined[s]
              THEN Append(Received(s)[p], Membership(s, 2, "join")) ELSE Received(s)[p]
      BY <1>1, ServerJoinsAt
    <2> QED
      BY <1>1, <1>2, <2>1, Processes
  <1>4. Membership(s, 2, "join") \in ClientMessage /\ Membership(s, 2, "join").type = "Membership"
    BY ClientMessages
  <1>5. SameList(c) /\ SameClaims(c)
    BY <1>1, <1>3, <1>4, ClaimsKept, SameListSame, SameListAppend
  <1>6. inbox[s] \in Seq(ServerMessage)
    BY BoxAt DEF TypeInv
  <1>7. Moves(inbox[s], c) # {}
    <2>1. IsMove(r, c)
      BY <1>1, Moving
    <2> QED
      BY <1>1, <1>6, <2>1, QueueTail
  <1>8. At(s, c) = {} /\ At(s, c)' = {NoBoard} /\ \A t \in Server : t # s => Stays(t, c)
    <2>1. At(s, c) = {}
      BY <1>1, MovePlaced
    <2>2. /\ \A t \in Server, d \in Client : t # s \/ d # r.client => Stays(t, d)
          /\ At(s, r.client)' = At(s, r.client) \cup {NoBoard}
      BY <1>1, HandlerAt DEF TypeInv
    <2> QED
      BY <2>1, <2>2
  <1>9. /\ \A t \in Server : t # s => At(t, c) = {}
        /\ \A t \in Server : \A k : t # s => Shown(t, c, k)'
    BY <1>7, <1>8, NotJoinedElsewhere
  <1>10. Attached(c)'
    <2>1. \A t \in Server : NoLeft(inbox[t], c)
      BY OnScreenIs, AttachedIs
    <2>2. \A t \in Server : NoLeft(inbox'[t], c)
      BY <1>1, <1>3, <1>6, <2>1, NoLeftTail
    <2> QED
      BY <1>2, <1>5, <2>2, OnScreenIs, AttachedIs DEF SameList, SameClaims
  <1>11. ASSUME switched'[c] = {}
         PROVE  /\ \A t \in Server : FirstJoins(inbox'[t], c)
                /\ NowhereOn(c)' => \A k : ~ Listed(inbox'[c], objects'[c], k)
    <2>1. switched[c] = {} /\ NowhereOn(c)
      BY <1>5, <1>8, <1>9, <1>11, NowhereIs DEF SameClaims, TypeInv
    <2>2. \A t \in Server : FirstJoins(inbox[t], c)
      BY <2>1, OnScreenIs
    <2>3. \A t \in Server : FirstJoins(inbox'[t], c)
      BY <1>1, <1>3, <1>6, <2>2, QueueTail
    <2> QED
      BY <1>5, <2>1, <2>3, OnScreenIs DEF SameList
  <1>12. ASSUME NEW k PROVE Shown(s, c, k)'
    <2>1. (c \notin JoinedTo(s, curr_db[c]))'
      BY <1>8, JoinedAtNext, BoardAssumption
    <2> QED
      BY <2>1, ShownElsewhere
  <1> QED
    BY <1>9, <1>10, <1>11, <1>12, OnScreenNext

\* The server reads the join of the client, and sends the board.
LEMMA JoinedOnScreen ==
  ASSUME TypeInv, ListType', far = {}, \A t \in Server : up[t], NEW s \in Server, RecvRequest(s),
         NEW r, r = Head(inbox[s]), r.op = "j", NEW c \in Client, c = r.client, Placed(c), up[c],
         OnScreen(c)
  PROVE  OnScreen(c)'
PROOF
  <1> DEFINE b == r.db_name
             w == Dboard(s, b)
  <1>1. /\ Receives(s, "Client") /\ inbox[s] # <<>> /\ r \in RequestMessage /\ b \in Board
        /\ HandleClientReq(s, r, Received(s)) /\ UNCHANGED clientVars
        /\ IsBox(Received(s)) /\ Received(s)[s] = Tail(inbox[s])
        /\ \A p \in Proc : p # s => Received(s)[p] = inbox[p]
    BY RequestCase, MessageKinds
  <1>2. /\ At(s, c) = {r.obj} /\ ~ JoinFails(s, r) /\ OnOneList(s, c)
    BY <1>1, MovePlaced, PlacedIs
  <1>3. UNCHANGED file /\ inbox' = SendDboard(Received(s), s, c, b)
    BY <1>1, <1>2 DEF HandleClientReq, JoinDb
  <1>4. At(s, c)' = {b} /\ \A t \in Server : t # s => Stays(t, c)
    BY <1>1, <1>2, HandlerAt DEF TypeInv
  <1>5. /\ inbox'[c] = inbox[c] \o w
        /\ inbox'[s] = Tail(inbox[s]) /\ \A t \in Server : t # s => inbox'[t] = inbox[t]
    <2>1. \A p \in Proc : inbox'[p] =
            IF p = c /\ up[c] /\ Together(s, c) THEN Received(s)[p] \o w ELSE Received(s)[p]
      BY <1>1, <1>3, SendDboardAt DEF TypeInv
    <2>2. Together(s, c)
      BY DEF Together
    <2> QED
      BY <1>1, <2>1, <2>2, Processes
  <1>6. /\ w \in Seq(ClientMessage)
        /\ \A i \in DOMAIN w : /\ w[i].type = "Response" /\ w[i].op = "a"
                               /\ w[i].obj_id \in OnBoard(s, b)
        /\ \A k \in OnBoard(s, b) : \E i \in DOMAIN w : w[i].obj_id = k
    BY <1>1, DboardKeys DEF TypeInv
  <1> HIDE DEF w
  <1>7. inbox[s] \in Seq(ServerMessage) /\ inbox[c] \in Seq(ClientMessage)
    BY BoxAt DEF TypeInv
  <1>8. /\ s = client_server_group[c]
        /\ \A t \in Server : t # s => At(t, c) = {}
        /\ \A t \in Server : \A k : t # s => Shown(t, c, k)'
    BY <1>2, <1>4, NotJoinedElsewhere
  <1>9. SameClaims(c) /\ objects'[c] = objects[c]
    BY <1>1, ClaimsKept
  <1>10. Offered(c)' \subseteq DOMAIN file[s]
    <2>1. OfferedIn(inbox'[c], objects'[c]) \subseteq
            OfferedIn(inbox[c], objects[c]) \cup {w[i].obj_id : i \in DOMAIN w}
      BY <1>5, <1>6, <1>7, <1>9, OfferedConcat
    <2>2. OnBoard(s, b) \subseteq DOMAIN file[s]
      BY DEF OnBoard
    <2>3. OfferedIn(inbox[c], objects[c]) \subseteq DOMAIN file[s]
      BY <1>8, OnScreenIs, AttachedIs, OfferedIs
    <2> QED
      BY <1>6, <2>1, <2>2, <2>3, OfferedIs
  <1>11. Attached(c)'
    <2>1. \A t \in Server : NoLeft(inbox[t], c)
      BY OnScreenIs, AttachedIs
    <2>2. \A t \in Server : NoLeft(inbox'[t], c)
      BY <1>1, <1>5, <1>7, <2>1, NoLeftTail
    <2>3. client_server_group'[c] = s /\ s # NoServer
      BY <1>8, <1>9, Processes DEF SameClaims
    <2> QED
      BY <1>3, <1>10, <2>2, <2>3, AttachedIs
  <1>12. \A k : Listed(inbox'[c], objects'[c], k) <=> k \in OnBoard(s, b) \/ Listed(inbox[c], objects[c], k)
    <2>1. \A i \in DOMAIN w : w[i].type = "Response" /\ w[i].op = "a"
      BY <1>6
    <2>2. \A k : (\E i \in DOMAIN w : w[i].obj_id = k) <=> k \in OnBoard(s, b)
      BY <1>6
    <2>3. \A k : Listed(inbox[c] \o w, objects[c], k) <=>
                   (\E i \in DOMAIN w : w[i].obj_id = k) \/ Listed(inbox[c], objects[c], k)
      BY <1>6, <1>7, <2>1, ListedConcat
    <2> QED
      BY <1>5, <1>9, <2>2, <2>3
  <1>13. ASSUME switched'[c] = {}
         PROVE  /\ \A t \in Server : FirstJoins(inbox'[t], c)
                /\ ~ NowhereOn(c)'
                /\ \A k : ~ Listed(inbox[c], objects[c], k)
    <2>1. switched[c] = {} /\ \A t \in Server : FirstJoins(inbox[t], c)
      BY <1>9, <1>13, OnScreenIs DEF SameClaims
    <2>2. \A t \in Server : FirstJoins(inbox'[t], c)
      BY <1>1, <1>5, <1>7, <2>1, QueueTail
    <2>3. (c \in JoinedTo(s, b))'
      BY <1>1, <1>4, JoinedAtNext
    <2>4. r.obj = NoBoard
      <3>1. IsMove(r, c) /\ r.type = "Client"
        BY <1>1, Moving, MessageKinds
      <3> QED
        BY <1>1, <1>7, <2>1, <3>1, QueueTail
    <2>5. NowhereOn(c)
      BY <1>2, <1>8, <2>4, NowhereIs, BoardAssumption DEF TypeInv
    <2> QED
      BY <1>1, <2>1, <2>2, <2>3, <2>5, OnScreenIs DEF NowhereOn
  <1>14. ASSUME NEW k PROVE Shown(s, c, k)'
    <2> SUFFICES ASSUME (c \in JoinedTo(s, curr_db[c]))'
                 PROVE  /\ k \in OnBoard(s, curr_db[c])' => Listed(inbox'[c], objects'[c], k)
                        /\ switched'[c] = {} /\ Listed(inbox'[c], objects'[c], k) =>
                             k \in OnBoard(s, curr_db[c])'
      BY DEF Shown
    <2>1. curr_db'[c] = b
      BY <1>4, JoinedAtNext
    <2>2. OnBoard(s, curr_db[c])' = OnBoard(s, b)
      BY <1>3, <2>1 DEF OnBoard
    <2> QED
      BY <1>12, <1>13, <2>2
  <1> QED
    BY <1>8, <1>11, <1>13, <1>14, OnScreenNext

\* An update u reaches the file of server s, or the clients of its board there.  Where
\* nothing about its object is on the way any more, the list must be right.
LEMMA UpdatedOnScreen ==
  ASSUME TypeInv, ListType', \A t \in Server : up[t], NEW s \in Server, NEW u \in UpdateMessage,
         NEW c \in Client, Placed(c), up[c], OnScreen(c), UNCHANGED clientVars, Attached(c)',
         \A t \in Server : Stays(t, c),
         \A t \in Server : t # s => inbox'[t] = inbox[t] /\ file'[t] = file[t],
         FirstJoins(inbox[s], c) => FirstJoins(inbox'[s], c),
         Moves(inbox'[s], c) = {} => Moves(inbox[s], c) = {},
         \A b, k : ~ Same(u, b, k) =>
           /\ k \in OnBoard(s, b)' <=> k \in OnBoard(s, b)
           /\ NothingDue(inbox'[s], b, k) => NothingDue(inbox[s], b, k),
         c \notin JoinedTo(s, u.db_name) => inbox'[c] = inbox[c],
         \A k : ~ Same(u, u.db_name, k) =>
           (Listed(inbox'[c], objects'[c], k) <=> Listed(inbox[c], objects[c], k)),
         \A k : c \in JoinedTo(s, u.db_name) /\ Same(u, u.db_name, k)
                  /\ NothingDue(inbox'[s], u.db_name, k) =>
           (k \in OnBoard(s, u.db_name)' <=> Listed(inbox'[c], objects'[c], k))
  PROVE  OnScreen(c)'
PROOF
  <1> DEFINE b == u.db_name
             Listing(k) == Listed(inbox'[c], objects'[c], k) <=> Listed(inbox[c], objects[c], k)
  <1>1. ListType /\ b \in Board
    BY MessageKinds DEF TypeInv
  <1>2. SameClaims(c) /\ objects'[c] = objects[c]
    BY ClaimsKept
  <1>3. \A t \in Server : \A e : (c \in JoinedTo(t, e))' <=> c \in JoinedTo(t, e)
    BY <1>1, JoinedStays
  <1>4. c \notin JoinedTo(s, b) => \A k : Listing(k)
    BY <1>2
  <1>5. ASSUME c \in JoinedTo(s, b)
        PROVE  At(s, c) = {b} /\ \A t \in Server : \A k : t # s => Shown(t, c, k)'
    <2>1. b \in At(s, c)
      BY <1>1, <1>5, JoinedAt
    <2>2. \A P, Q \in At(s, c) : P = Q
      BY PlacedIs DEF OnOneList
    <2> QED
      BY <2>1, <2>2, NotJoinedElsewhere
  <1>6. ASSUME switched'[c] = {}
        PROVE  /\ \A t \in Server : FirstJoins(inbox'[t], c)
               /\ NowhereOn(c)' => \A k : ~ Listed(inbox'[c], objects'[c], k)
    <2>1. switched[c] = {}
      BY <1>2, <1>6 DEF SameClaims
    <2>2. \A t \in Server : FirstJoins(inbox'[t], c)
      BY <2>1, OnScreenIs
    <2>3. NowhereOn(c)' => NowhereOn(c) /\ c \notin JoinedTo(s, b)
      BY <1>1, <1>3 DEF NowhereOn
    <2> QED
      BY <1>4, <2>1, <2>2, <2>3, OnScreenIs
  <1>7. ASSUME NEW t \in Server, NEW k, t # s PROVE Shown(t, c, k)'
    <2>1. CASE c \in JoinedTo(s, b)
      BY <1>5, <1>7, <2>1
    <2>2. CASE c \notin JoinedTo(s, b)
      <3>1. Shown(t, c, k) /\ Listing(k)
        BY <1>4, <2>2, OnScreenIs
      <3>2. \A e : k \in OnBoard(t, e)' <=> k \in OnBoard(t, e)
        BY <1>7, OnBoardIs
      <3>3. inbox'[t] = inbox[t]
        BY <1>7
      <3> QED
        BY <1>2, <1>3, <3>1, <3>2, <3>3, ShownWith DEF SameClaims
    <2> QED
      BY <2>1, <2>2
  <1>8. ASSUME NEW k PROVE Shown(s, c, k)'
    <2>0. PICK e : e = curr_db[c]
      OBVIOUS
    <2>1. Shown(s, c, k)
      BY OnScreenIs
    <2>2. ASSUME (c \in JoinedTo(s, e))', Moves(inbox'[s], c) = {}, NothingDue(inbox'[s], e, k)
          PROVE  \/ /\ c \in JoinedTo(s, e) /\ Moves(inbox[s], c) = {} /\ NothingDue(inbox[s], e, k)
                    /\ k \in OnBoard(s, e)' <=> k \in OnBoard(s, e)
                    /\ Listing(k)
                 \/ k \in OnBoard(s, e)' <=> Listed(inbox'[c], objects'[c], k)
      <3>1. c \in JoinedTo(s, e)
        BY <1>3, <2>2
      <3>2. e \in At(s, c)
        BY <1>1, <3>1, JoinedAt
      <3>3. CASE Same(u, e, k)
        <4>1. e = b
          BY <3>3 DEF Same
        <4> QED
          BY <2>2, <3>1, <3>3, <4>1
      <3>4. CASE ~ Same(u, e, k) /\ c \in JoinedTo(s, b)
        <4>1. e = b
          BY <1>5, <3>2, <3>4
        <4>2. Listing(k)
          BY <3>4, <4>1
        <4> QED
          BY <2>2, <3>1, <3>4, <4>2
      <3>5. CASE ~ Same(u, e, k) /\ c \notin JoinedTo(s, b)
        <4>1. Listing(k)
          BY <1>4, <3>5
        <4> QED
          BY <2>2, <3>1, <3>5, <4>1
      <3> QED
        BY <3>3, <3>4, <3>5
    <2>3. curr_db'[c] = e /\ wiped'[c] = wiped[c] /\ switched'[c] = switched[c]
      BY <1>2, <2>0 DEF SameClaims
    <2> QED
      BY <2>0, <2>1, <2>2, <2>3, ShownWith
  <1> QED
    BY <1>6, <1>7, <1>8, OnScreenNext

\* A server that applies an update changes what it has of one object only.
LEMMA AppliedAt ==
  ASSUME FileType, NEW s \in Server, NEW u \in UpdateMessage, u.op = "a" => u.obj_id \notin DOMAIN file[s],
         file' = [file EXCEPT ![s] = Applied(@, u)]
  PROVE  /\ \A t \in Server : t # s => file'[t] = file[t]
         /\ \A t \in Server : DOMAIN file[t] \subseteq DOMAIN file'[t]
         /\ u.op = "a" => u.obj_id \in DOMAIN file'[s]
         /\ \A b, k : ~ Same(u, b, k) => (k \in OnBoard(s, b)' <=> k \in OnBoard(s, b))
         /\ \A b, k : Same(u, b, k) => (k \in OnBoard(s, b)' <=> u.op = "a")
PROOF
  <1>1. file[s] \in [DOMAIN file[s] -> Record] /\ file'[s] = Applied(file[s], u)
        /\ \A t \in Server : t # s => file'[t] = file[t]
    BY DEF FileType
  <1>2. /\ DOMAIN file[s] \subseteq DOMAIN file'[s]
        /\ u.op = "a" => DOMAIN file'[s] = DOMAIN file[s] \cup {u.obj_id}
                         /\ u.obj_id \in LiveOn(file'[s], u.db_name)
        /\ u.op = "d" => u.obj_id \notin LiveOn(file'[s], u.db_name)
        /\ \A b, k : ~ Same(u, b, k) => (k \in LiveOn(file'[s], b) <=> k \in LiveOn(file[s], b))
    BY <1>1, AppliedRecords
  <1>3. \A b, k : ~ Same(u, b, k) => (k \in OnBoard(s, b)' <=> k \in OnBoard(s, b))
    BY <1>2, OnBoardIs
  <1>4. \A b, k : Same(u, b, k) => (k \in LiveOn(file'[s], b) <=> u.op = "a")
    BY <1>2 DEF Same
  <1> QED
    BY <1>1, <1>2, <1>3, <1>4, OnBoardIs

\* A request to post or change an object: the server applies it and sends its update.
LEMMA UpdateSent ==
  ASSUME TypeInv, NEW s \in Server, RecvRequest(s), NEW r, r = Head(inbox[s]),
         r.op \notin {"c", "j", "v"}, InFlight(s)
  PROVE  \E u \in UpdateMessage :
           /\ inbox[s] # <<>> /\ r.type = "Client" /\ UNCHANGED <<clientVars, client_list, db_list>>
           /\ \A c \in Client : ~ IsMove(r, c) /\ inbox'[c] = inbox[c]
           /\ inbox'[s] = Append(Tail(inbox[s]), u) /\ \A t \in Server : t # s => inbox'[t] = inbox[t]
           /\ file' = [file EXCEPT ![s] = Applied(@, u)]
           /\ IF u.op = "a" THEN u.obj_id \notin DOMAIN file[s] ELSE u.op = "d" => u.obj_id \in DOMAIN file[s]
PROOF
  <1> DEFINE u == Update(r.op, r.db_name, IF r.op = "a" THEN NewKey ELSE r.obj_id)
  <1>1. /\ inbox[s] # <<>> /\ r \in RequestMessage
        /\ HandleClientReq(s, r, Received(s)) /\ UNCHANGED clientVars
        /\ IsBox(Received(s)) /\ Received(s)[s] = Tail(inbox[s])
        /\ \A p \in Proc : p # s => Received(s)[p] = inbox[p]
    BY RequestCase
  <1>2. /\ file' = [file EXCEPT ![s] = Applied(@, u)] /\ UNCHANGED <<client_list, db_list>>
        /\ inbox' = [Received(s) EXCEPT ![s] = Append(@, u)]
    BY <1>1 DEF HandleClientReq, UpdateReplicas
  <1>3. u \in UpdateMessage
    BY <1>1, OwnUpdate DEF TypeInv
  <1>4. u.op = r.op /\ u.obj_id = IF r.op = "a" THEN NewKey ELSE r.obj_id
    BY UpdateParts
  <1>5. NewKey \notin DOMAIN file[s]
    BY NewKeyIsNew, FilesFinite DEF TypeInv
  <1> HIDE DEF u
  <1>6. r.type = "Client" /\ \A c \in Client : ~ IsMove(r, c)
    BY <1>1, Moving, MessageKinds
  <1>7. r.op = "d" => r.obj_id \in DOMAIN file[s]
    <2>1. inbox[s] \in Seq(ServerMessage)
      BY BoxAt DEF TypeInv
    <2>2. 1 \in DOMAIN inbox[s] /\ inbox[s][1] = r
      BY <1>1, <2>1, TailAt
    <2> QED
      BY <1>6, <2>2 DEF InFlight
  <1>8. /\ inbox'[s] = Append(Tail(inbox[s]), u) /\ \A t \in Server : t # s => inbox'[t] = inbox[t]
        /\ \A c \in Client : inbox'[c] = inbox[c]
    BY <1>1, <1>2, BoxAt, Processes
  <1> QED
    BY <1>1, <1>2, <1>3, <1>4, <1>5, <1>6, <1>7, <1>8

\* Such a request, and what a client of the board shows: the update is due from now on.
LEMMA SentOnScreen ==
  ASSUME TypeInv, ListType', \A t \in Server : up[t], NEW s \in Server, RecvRequest(s),
         NEW r, r = Head(inbox[s]), r.op \notin {"c", "j", "v"}, InFlight(s),
         NEW c \in Client, Placed(c), up[c], OnScreen(c)
  PROVE  OnScreen(c)'
PROOF
  <1>1. PICK u \in UpdateMessage :
          /\ inbox[s] # <<>> /\ r.type = "Client" /\ UNCHANGED <<clientVars, client_list, db_list>>
          /\ \A d \in Client : ~ IsMove(r, d) /\ inbox'[d] = inbox[d]
          /\ inbox'[s] = Append(Tail(inbox[s]), u) /\ \A t \in Server : t # s => inbox'[t] = inbox[t]
          /\ file' = [file EXCEPT ![s] = Applied(@, u)]
          /\ IF u.op = "a" THEN u.obj_id \notin DOMAIN file[s] ELSE u.op = "d" => u.obj_id \in DOMAIN file[s]
    BY UpdateSent
  <1>2. /\ inbox[s] \in Seq(ServerMessage) /\ Tail(inbox[s]) \in Seq(ServerMessage)
        /\ u \in ServerMessage /\ ~ IsMove(u, c) /\ u # Left(c)
    BY <1>1, BoxAt, TailAt, ServerMessages, Moving DEF TypeInv
  <1>3. /\ \A t \in Server : t # s => file'[t] = file[t]
        /\ \A t \in Server : DOMAIN file[t] \subseteq DOMAIN file'[t]
        /\ \A b, k : ~ Same(u, b, k) => (k \in OnBoard(s, b)' <=> k \in OnBoard(s, b))
    BY <1>1, AppliedAt DEF TypeInv
  <1>4. SameClaims(c) /\ objects'[c] = objects[c] /\ \A t \in Server : Stays(t, c)
    BY <1>1, ClaimsKept, StaysWhenSame
  <1>5. SameList(c)
    BY <1>1, <1>4, SameListSame
  <1>6. Attached(c)'
    <2>1. \A t \in Server : NoLeft(inbox[t], c)
      BY OnScreenIs, AttachedIs
    <2>2. NoLeft(Append(Tail(inbox[s]), u), c)
      BY <1>1, <1>2, <2>1, NoLeftTail, NoLeftAppend
    <2>3. \A t \in Server : NoLeft(inbox'[t], c)
      BY <1>1, <2>1, <2>2
    <2> QED
      BY <1>3, <1>4, <1>5, <2>3, OnScreenIs, AttachedIs DEF SameList, SameClaims
  <1>7. /\ FirstJoins(inbox[s], c) => FirstJoins(inbox'[s], c)
        /\ Moves(inbox'[s], c) = {} => Moves(inbox[s], c) = {}
    <2>1. /\ Moves(Append(Tail(inbox[s]), u), c) = {} <=> Moves(Tail(inbox[s]), c) = {}
          /\ FirstJoins(Tail(inbox[s]), c) => FirstJoins(Append(Tail(inbox[s]), u), c)
      BY <1>2, QueueAppend
    <2>2. /\ Moves(inbox[s], c) = {} <=> Moves(Tail(inbox[s]), c) = {}
          /\ FirstJoins(inbox[s], c) => FirstJoins(Tail(inbox[s]), c)
      BY <1>1, <1>2, QueueTail
    <2> QED
      BY <1>1, <2>1, <2>2
  <1>8. \A b, k : NothingDue(inbox'[s], b, k) => NothingDue(inbox[s], b, k) /\ ~ Same(u, b, k)
    <2> SUFFICES ASSUME NEW b, NEW k, NothingDue(inbox'[s], b, k)
                 PROVE  NothingDue(inbox[s], b, k) /\ ~ Same(u, b, k)
      OBVIOUS
    <2>1. NothingDue(Append(Tail(inbox[s]), u), b, k) <=>
            NothingDue(Tail(inbox[s]), b, k) /\ u \notin {Update("a", b, k), Update("d", b, k)}
      BY <1>2, QueueAppend
    <2>2. NothingDue(Tail(inbox[s]), b, k) /\ u \notin {Update("a", b, k), Update("d", b, k)}
      BY <1>1, <2>1
    <2>3. r \notin {Update("a", b, k), Update("d", b, k)}
      BY <1>1, UpdateParts
    <2>4. NothingDue(inbox[s], b, k)
      BY <1>1, <1>2, <2>2, <2>3, QueueTail
    <2> QED
      BY <2>2, <2>4, UpdateParts DEF Same
  <1>9. \A k : Listed(inbox'[c], objects'[c], k) <=> Listed(inbox[c], objects[c], k)
    BY <1>5 DEF SameList
  <1> QED
    BY <1>1, <1>3, <1>4, <1>6, <1>7, <1>8, <1>9, UpdatedOnScreen

\* Such a request, and what is on the way: the update is applied before it is sent.
LEMMA SentFlight ==
  ASSUME TypeInv, NEW s \in Server, RecvRequest(s), NEW r, r = Head(inbox[s]),
         r.op \notin {"c", "j", "v"}, \A t \in Server : InFlight(t)
  PROVE  \A t \in Server : InFlight(t)'
PROOF
  <1>1. PICK u \in UpdateMessage :
          /\ inbox[s] # <<>>
          /\ inbox'[s] = Append(Tail(inbox[s]), u) /\ \A t \in Server : t # s => inbox'[t] = inbox[t]
          /\ file' = [file EXCEPT ![s] = Applied(@, u)]
          /\ IF u.op = "a" THEN u.obj_id \notin DOMAIN file[s] ELSE u.op = "d" => u.obj_id \in DOMAIN file[s]
    BY UpdateSent
  <1>2. inbox[s] \in Seq(ServerMessage) /\ InFlightIn(inbox[s], file[s])
    BY BoxAt, InFlightIs DEF TypeInv
  <1>3. Tail(inbox[s]) \in Seq(ServerMessage) /\ InFlightIn(Tail(inbox[s]), file[s])
    BY <1>1, <1>2, FlightTail, TailAt
  <1>4. /\ file[s] \in [DOMAIN file[s] -> Record] /\ file'[s] = Applied(file[s], u)
        /\ \A t \in Server : t # s => file'[t] = file[t]
    BY <1>1 DEF TypeInv, FileType
  <1>5. InFlightIn(inbox'[s], file'[s])
    BY <1>1, <1>3, <1>4, FlightSent
  <1>6. ASSUME NEW t \in Server, t # s PROVE InFlight(t)'
    BY <1>1, <1>4, <1>6, InFlightIs
  <1> QED
    BY <1>5, <1>6, InFlightIs

\* A server serves the clients of a board.
LEMMA ServedList ==
  ASSUME TypeInv, NEW c \in Client, NEW u \in UpdateMessage, UNCHANGED clientVars,
         inbox'[c] = inbox[c] \/ inbox'[c] = Append(inbox[c], Response(u.op, u.obj_id))
  PROVE  /\ \A k : ~ Same(u, u.db_name, k) =>
              (Listed(inbox'[c], objects'[c], k) <=> Listed(inbox[c], objects[c], k))
         /\ Offered(c)' \subseteq Offered(c) \cup (IF u.op = "a" THEN {u.obj_id} ELSE {})
         /\ inbox'[c] # inbox[c] =>
              \A k : Same(u, u.db_name, k) => (Listed(inbox'[c], objects'[c], k) <=> u.op = "a")
PROOF
  <1> DEFINE m == Response(u.op, u.obj_id)
  <1>1. m \in ClientMessage /\ m.type = "Response" /\ m.op = u.op /\ m.obj_id = u.obj_id
    BY ClientMessages, MessageKinds DEF Response
  <1>2. inbox[c] \in Seq(ClientMessage) /\ objects'[c] = objects[c]
    BY BoxAt, ClaimsKept DEF TypeInv
  <1>3. \A k : IsMention(m, k) <=> Same(u, u.db_name, k)
    BY <1>1 DEF IsMention, Same
  <1> HIDE DEF m
  <1>4. CASE inbox'[c] = inbox[c]
    BY <1>2, <1>4, OfferedIs
  <1>5. CASE inbox'[c] = Append(inbox[c], m)
    <2>1. \A k : Listed(inbox'[c], objects'[c], k) <=>
                   IF IsMention(m, k) THEN m.op = "a" ELSE Listed(inbox[c], objects[c], k)
      BY <1>1, <1>2, <1>5, ListedAppend
    <2>2. OfferedIn(Append(inbox[c], m), objects[c]) \subseteq
            OfferedIn(inbox[c], objects[c]) \cup (IF u.op = "a" THEN {u.obj_id} ELSE {})
      BY <1>1, <1>2, OfferedAppend
    <2> QED
      BY <1>1, <1>2, <1>3, <1>5, <2>1, <2>2, OfferedIs
  <1> QED
    BY <1>4, <1>5 DEF m

\* What is served is on the list of the client, if it has the object from this server.
LEMMA ServedAttached ==
  ASSUME TypeInv, ListType', NEW s \in Server, NEW u \in UpdateMessage, NEW c \in Client,
         Placed(c), up[c], OnScreen(c), \A t \in Server : up[t], UNCHANGED clientVars,
         \A t \in Server : Stays(t, c), \A t \in Server : NoLeft(inbox'[t], c),
         \A t \in Server : DOMAIN file[t] \subseteq DOMAIN file'[t],
         c \in JoinedTo(s, u.db_name) /\ u.op = "a" => u.obj_id \in DOMAIN file'[s],
         Offered(c)' \subseteq Offered(c) \cup (IF u.op = "a" THEN {u.obj_id} ELSE {}),
         c \notin JoinedTo(s, u.db_name) => Offered(c)' \subseteq Offered(c)
  PROVE  Attached(c)'
PROOF
  <1>1. SameClaims(c)
    BY ClaimsKept
  <1>2. CASE Offered(c)' \subseteq Offered(c)
    BY <1>1, <1>2, OnScreenIs, AttachedIs DEF SameClaims
  <1>3. CASE c \in JoinedTo(s, u.db_name)
    <2>1. At(s, c) # {}
      BY <1>3, JoinedAt DEF TypeInv
    <2>2. client_server_group'[c] = s /\ s # NoServer
      BY <1>1, <2>1, NotJoinedElsewhere, Processes DEF SameClaims
    <2>3. Offered(c) \subseteq DOMAIN file[s]
      BY <1>1, <2>2, OnScreenIs, AttachedIs DEF SameClaims
    <2>4. Offered(c)' \subseteq DOMAIN file'[s]
      BY <1>3, <2>3
    <2> QED
      BY <2>2, <2>4, AttachedIs
  <1> QED
    BY <1>2, <1>3

\* Without faults every client of the board that runs is served, and nobody else.
LEMMA ServedTo ==
  ASSUME TypeInv, far = {}, NEW box, IsBox(box), NEW s \in Server, NEW u \in UpdateMessage,
         inbox' = Serve(box, s, u), NEW c \in Client, up[c], box[c] = inbox[c]
  PROVE  /\ inbox'[c] = IF c \in JoinedTo(s, u.db_name) THEN Append(inbox[c], Response(u.op, u.obj_id))
                                                        ELSE inbox[c]
         /\ \A t \in Server : inbox'[t] = box[t]
PROOF
  <1>1. /\ \A p \in Proc : Serve(box, s, u)[p] =
             IF p \in JoinedTo(s, u.db_name) /\ up[p] /\ Together(s, p)
               THEN Append(box[p], Response(u.op, u.obj_id)) ELSE box[p]
        /\ JoinedTo(s, u.db_name) \subseteq Client
    BY ServeAt DEF TypeInv
  <1>2. Together(s, c)
    BY DEF Together
  <1>3. \A t \in Server : inbox'[t] = box[t]
    BY <1>1, Processes
  <1>4. inbox'[c] = IF c \in JoinedTo(s, u.db_name) /\ up[c] /\ Together(s, c)
                      THEN Append(box[c], Response(u.op, u.obj_id)) ELSE box[c]
    BY <1>1, Processes
  <1> QED
    BY <1>2, <1>3, <1>4

\* A server serves the clients of the board with an update, its own or that of
\* another: what it then has and what they are told are the same.
LEMMA ServedOnScreen ==
  ASSUME TypeInv, ListType', far = {}, \A t \in Server : up[t], NEW box, IsBox(box),
         NEW s \in Server, NEW u \in UpdateMessage, inbox' = Serve(box, s, u),
         UNCHANGED <<clientVars, client_list, db_list>>,
         NEW c \in Client, box[c] = inbox[c], Placed(c), up[c], OnScreen(c),
         \A t \in Server : NoLeft(box[t], c),
         \A t \in Server : t # s => box[t] = inbox[t] /\ file'[t] = file[t],
         \A t \in Server : DOMAIN file[t] \subseteq DOMAIN file'[t],
         u.op = "a" => u.obj_id \in DOMAIN file'[s],
         FirstJoins(inbox[s], c) => FirstJoins(box[s], c),
         Moves(box[s], c) = {} => Moves(inbox[s], c) = {},
         \A b, k : ~ Same(u, b, k) =>
           /\ k \in OnBoard(s, b)' <=> k \in OnBoard(s, b)
           /\ NothingDue(box[s], b, k) => NothingDue(inbox[s], b, k),
         \A b, k : Same(u, b, k) /\ NothingDue(box[s], b, k) =>
           (k \in OnBoard(s, b)' <=> u.op = "a")
  PROVE  OnScreen(c)'
PROOF
  <1> DEFINE m == Response(u.op, u.obj_id)
  <1>1. /\ inbox'[c] = IF c \in JoinedTo(s, u.db_name) THEN Append(inbox[c], m) ELSE inbox[c]
        /\ \A t \in Server : inbox'[t] = box[t]
    BY ServedTo
  <1>2. inbox'[c] = inbox[c] \/ inbox'[c] = Append(inbox[c], m)
    BY <1>1
  <1>3. c \in JoinedTo(s, u.db_name) => inbox'[c] # inbox[c]
    <2>1. inbox[c] \in Seq(ClientMessage)
      BY BoxAt DEF TypeInv
    <2>2. Len(inbox[c]) \in Nat /\ Len(Append(inbox[c], m)) = Len(inbox[c]) + 1
      BY <2>1, AppendAt, ClientMessages, MessageKinds
    <2> QED
      BY <1>1, <2>2
  <1> HIDE DEF m
  <1>4. /\ \A k : ~ Same(u, u.db_name, k) =>
             (Listed(inbox'[c], objects'[c], k) <=> Listed(inbox[c], objects[c], k))
        /\ Offered(c)' \subseteq Offered(c) \cup (IF u.op = "a" THEN {u.obj_id} ELSE {})
        /\ inbox'[c] # inbox[c] =>
             \A k : Same(u, u.db_name, k) => (Listed(inbox'[c], objects'[c], k) <=> u.op = "a")
    BY <1>2, ServedList DEF m
  <1>5. c \notin JoinedTo(s, u.db_name) => Offered(c)' \subseteq Offered(c)
    <2>1. objects'[c] = objects[c]
      BY ClaimsKept
    <2> QED
      BY <1>1, <2>1, OfferedIs
  <1>6. \A t \in Server : Stays(t, c)
    BY StaysWhenSame
  <1>7. \A t \in Server : NoLeft(inbox'[t], c)
    BY <1>1
  <1>8. Attached(c)'
    BY <1>4, <1>5, <1>6, <1>7, ServedAttached
  <1>9. \A k : c \in JoinedTo(s, u.db_name) /\ Same(u, u.db_name, k)
                 /\ NothingDue(inbox'[s], u.db_name, k) =>
          (k \in OnBoard(s, u.db_name)' <=> Listed(inbox'[c], objects'[c], k))
    <2> SUFFICES ASSUME NEW k, c \in JoinedTo(s, u.db_name), Same(u, u.db_name, k),
                        NothingDue(inbox'[s], u.db_name, k)
                 PROVE  k \in OnBoard(s, u.db_name)' <=> Listed(inbox'[c], objects'[c], k)
      OBVIOUS
    <2>1. k \in OnBoard(s, u.db_name)' <=> u.op = "a"
      BY <1>1
    <2>2. Listed(inbox'[c], objects'[c], k) <=> u.op = "a"
      BY <1>3, <1>4
    <2> QED
      BY <2>1, <2>2
  <1>10. /\ FirstJoins(inbox[s], c) => FirstJoins(inbox'[s], c)
         /\ Moves(inbox'[s], c) = {} => Moves(inbox[s], c) = {}
         /\ \A b, k : ~ Same(u, b, k) =>
              /\ k \in OnBoard(s, b)' <=> k \in OnBoard(s, b)
              /\ NothingDue(inbox'[s], b, k) => NothingDue(inbox[s], b, k)
    BY <1>1
  <1>11. \A t \in Server : t # s => inbox'[t] = inbox[t] /\ file'[t] = file[t]
    BY <1>1
  <1>12. c \notin JoinedTo(s, u.db_name) => inbox'[c] = inbox[c]
    BY <1>1
  <1> QED
    BY <1>4, <1>6, <1>8, <1>9, <1>10, <1>11, <1>12, UpdatedOnScreen

\* The update of the server itself that it reads: it has applied it, and perhaps a
\* deletion that still waits.
LEMMA OwnUpdateFlies ==
  ASSUME TypeInv, NEW s \in Server, RecvOwnUpdate(s), ~ syncOn[s], InFlight(s), NEW u, u = Head(inbox[s])
  PROVE  /\ u \in UpdateMessage /\ inbox[s] # <<>> /\ inbox[s] \in Seq(ServerMessage)
         /\ inbox' = Serve(Received(s), s, u)
         /\ u.op = "a" => u.obj_id \in DOMAIN file[s]
         /\ \A b, k : Same(u, b, k) /\ NothingDue(Tail(inbox[s]), b, k) =>
              (k \in OnBoard(s, b) <=> u.op = "a")
PROOF
  <1>1. u \in UpdateMessage /\ inbox[s] # <<>> /\ inbox[s] \in Seq(ServerMessage)
    BY HeadOfServer, MessageKinds DEF RecvOwnUpdate, TypeInv
  <1>2. inbox' = Serve(Received(s), s, u)
    BY DEF RecvOwnUpdate
  <1>3. /\ 1 \in DOMAIN inbox[s] /\ inbox[s][1] = u /\ u.type = "Update"
        /\ DOMAIN inbox[s] = 1 .. Len(inbox[s]) /\ Len(inbox[s]) \in Nat
        /\ DOMAIN Tail(inbox[s]) = 1 .. Len(inbox[s]) - 1
        /\ \A i \in 1 .. Len(inbox[s]) - 1 : Tail(inbox[s])[i] = inbox[s][i + 1]
    BY <1>1, TailAt, MessageKinds
  <1>4. /\ u.op = "d" => u.obj_id \notin OnBoard(s, u.db_name)
        /\ u.op = "a" => \/ u.obj_id \in OnBoard(s, u.db_name)
                         \/ \E j \in DOMAIN inbox[s] :
                              1 < j /\ inbox[s][j] = Update("d", u.db_name, u.obj_id)
    BY <1>3 DEF InFlight
  <1>5. ASSUME u.op = "a" PROVE u.obj_id \in DOMAIN file[s]
    <2>1. CASE u.obj_id \in OnBoard(s, u.db_name)
      BY <2>1 DEF OnBoard
    <2>2. ASSUME NEW j \in DOMAIN inbox[s], inbox[s][j] = Update("d", u.db_name, u.obj_id)
          PROVE  u.obj_id \in DOMAIN file[s]
      <3>1. inbox[s][j].type = "Update" /\ inbox[s][j].op = "d" /\ inbox[s][j].obj_id = u.obj_id
        BY <2>2, UpdateParts
      <3> QED
        BY <3>1 DEF InFlight
    <2> QED
      BY <1>4, <1>5, <2>1, <2>2
  <1>6. ASSUME NEW b, NEW k, Same(u, b, k), NothingDue(Tail(inbox[s]), b, k)
        PROVE  k \in OnBoard(s, b) <=> u.op = "a"
    <2>1. u.op \in {"a", "d"} /\ u.db_name = b /\ u.obj_id = k
      BY <1>6 DEF Same
    <2>2. \A j \in DOMAIN inbox[s] : 1 < j => inbox[s][j] # Update("d", b, k)
      <3>1. ASSUME NEW j \in DOMAIN inbox[s], 1 < j PROVE inbox[s][j] # Update("d", b, k)
        <4>1. j - 1 \in DOMAIN Tail(inbox[s]) /\ Tail(inbox[s])[j - 1] = inbox[s][j]
          BY <1>3, <3>1
        <4> QED
          BY <1>6, <4>1 DEF NothingDue
      <3> QED
        BY <3>1
    <2> QED
      BY <1>4, <2>1, <2>2
  <1> QED
    BY <1>1, <1>2, <1>5, <1>6

\* The update of the server itself comes back and is served to the clients of its board.
LEMMA OwnUpdateOnScreen ==
  ASSUME TypeInv, ListType', far = {}, \A t \in Server : up[t], NEW s \in Server, RecvOwnUpdate(s),
         ~ syncOn[s], InFlight(s), NEW c \in Client, Placed(c), up[c], OnScreen(c)
  PROVE  OnScreen(c)'
PROOF
  <1>1. PICK u : u = Head(inbox[s])
    OBVIOUS
  <1>2. /\ u \in UpdateMessage /\ inbox[s] # <<>> /\ inbox[s] \in Seq(ServerMessage)
        /\ inbox' = Serve(Received(s), s, u)
        /\ u.op = "a" => u.obj_id \in DOMAIN file[s]
        /\ \A b, k : Same(u, b, k) /\ NothingDue(Tail(inbox[s]), b, k) =>
             (k \in OnBoard(s, b) <=> u.op = "a")
    BY <1>1, OwnUpdateFlies
  <1>3. UNCHANGED <<clientVars, client_list, db_list, file>>
    BY DEF RecvOwnUpdate, serverVars
  <1>4. /\ IsBox(Received(s)) /\ Received(s)[c] = inbox[c] /\ Received(s)[s] = Tail(inbox[s])
        /\ \A t \in Server : t # s => Received(s)[t] = inbox[t]
    BY <1>2, ReceivedAt, Processes DEF TypeInv
  <1>5. \A t \in Server : NoLeft(Received(s)[t], c)
    <2>1. \A t \in Server : NoLeft(inbox[t], c)
      BY OnScreenIs, AttachedIs
    <2>2. NoLeft(Tail(inbox[s]), c)
      BY <1>2, <2>1, NoLeftTail
    <2> QED
      BY <1>4, <2>1, <2>2
  <1>6. \A b, k : k \in OnBoard(s, b)' <=> k \in OnBoard(s, b)
    BY <1>3, OnBoardIs
  <1>7. /\ FirstJoins(inbox[s], c) => FirstJoins(Tail(inbox[s]), c)
        /\ Moves(inbox[s], c) = {} <=> Moves(Tail(inbox[s]), c) = {} /\ ~ IsMove(Head(inbox[s]), c)
        /\ \A b, k : NothingDue(inbox[s], b, k) <=>
                       NothingDue(Tail(inbox[s]), b, k)
                         /\ Head(inbox[s]) \notin {Update("a", b, k), Update("d", b, k)}
    BY <1>2, QueueTail
  <1>8. ~ IsMove(u, c) /\ \A b, k : u \in {Update("a", b, k), Update("d", b, k)} => Same(u, b, k)
    BY <1>2, Moving, UpdateParts DEF Same
  <1>9. /\ FirstJoins(inbox[s], c) => FirstJoins(Received(s)[s], c)
        /\ Moves(Received(s)[s], c) = {} => Moves(inbox[s], c) = {}
        /\ \A b, k : ~ Same(u, b, k) =>
             /\ k \in OnBoard(s, b)' <=> k \in OnBoard(s, b)
             /\ NothingDue(Received(s)[s], b, k) => NothingDue(inbox[s], b, k)
        /\ \A b, k : Same(u, b, k) /\ NothingDue(Received(s)[s], b, k) =>
             (k \in OnBoard(s, b)' <=> u.op = "a")
    BY <1>1, <1>2, <1>4, <1>6, <1>7, <1>8
  <1>10. /\ \A t \in Server : t # s => Received(s)[t] = inbox[t] /\ file'[t] = file[t]
         /\ \A t \in Server : DOMAIN file[t] \subseteq DOMAIN file'[t]
         /\ u.op = "a" => u.obj_id \in DOMAIN file'[s]
    BY <1>2, <1>3, <1>4
  <1> QED
    BY <1>2, <1>3, <1>4, <1>5, <1>9, <1>10, ServedOnScreen

\* What another server may send: an object the server does not have, or a change of
\* one whose creation it has read.
LEMMA NewsAre ==
  ASSUME FileType, NEW s \in Server, NEW u \in NewsFor(s)
  PROVE  /\ u.op = "a" => u.obj_id \notin DOMAIN file[s]
         /\ u.op = "d" => \A i \in DOMAIN inbox[s] : inbox[s][i].type = "Update" =>
                            inbox[s][i].obj_id # u.obj_id
PROOF
  <1>1. CASE u \in {Update("a", b, NewKey) : b \in Board}
    <2>1. NewKey \notin DOMAIN file[s]
      BY NewKeyIsNew, FilesFinite
    <2> QED
      BY <1>1, <2>1, UpdateParts
  <1>2. CASE u \in Elsewhere(s)
    <2>1. PICK t \in Server : u \in {Update("a", file[t][k].db_name, k) : k \in DOMAIN file[t] \ DOMAIN file[s]}
      BY <1>2 DEF Elsewhere
    <2>2. PICK k \in DOMAIN file[t] \ DOMAIN file[s] : u = Update("a", file[t][k].db_name, k)
      BY <2>1
    <2> QED
      BY <2>2, UpdateParts
  <1>3. CASE u \in {Update(op, file[s][k].db_name, k) : op \in {"e", "d"}, k \in Delivered(s)}
    <2>1. PICK op \in {"e", "d"}, k \in Delivered(s) : u = Update(op, file[s][k].db_name, k)
      BY <1>3
    <2>2. \A i \in DOMAIN inbox[s] : inbox[s][i].type = "Update" => inbox[s][i].obj_id # k
      BY DEF Delivered
    <2> QED
      BY <2>1, <2>2, UpdateParts
  <1> QED
    BY <1>1, <1>2, <1>3 DEF NewsFor

\* An update of another server is applied and served at once.
LEMMA NewsOnScreen ==
  ASSUME TypeInv, ListType', far = {}, \A t \in Server : up[t], NEW s \in Server,
         NEW u \in NewsFor(s), News(s, u), NEW c \in Client, Placed(c), up[c], OnScreen(c)
  PROVE  OnScreen(c)'
PROOF
  <1>1. u \in UpdateMessage /\ (u.op = "a" => u.obj_id \notin DOMAIN file[s])
    BY NewsUpdates, NewsAre DEF TypeInv
  <1>2. /\ inbox' = Serve(inbox, s, u) /\ file' = [file EXCEPT ![s] = Applied(@, u)]
        /\ UNCHANGED <<clientVars, client_list, db_list>>
    BY DEF News
  <1>3. /\ \A t \in Server : t # s => file'[t] = file[t]
        /\ \A t \in Server : DOMAIN file[t] \subseteq DOMAIN file'[t]
        /\ u.op = "a" => u.obj_id \in DOMAIN file'[s]
        /\ \A b, k : ~ Same(u, b, k) => (k \in OnBoard(s, b)' <=> k \in OnBoard(s, b))
        /\ \A b, k : Same(u, b, k) => (k \in OnBoard(s, b)' <=> u.op = "a")
    BY <1>1, <1>2, AppliedAt DEF TypeInv
  <1>4. \A t \in Server : NoLeft(inbox[t], c)
    BY OnScreenIs, AttachedIs
  <1>5. IsBox(inbox)
    BY DEF TypeInv
  <1> QED
    BY <1>1, <1>2, <1>3, <1>4, <1>5, ServedOnScreen

\* A leave is that of another client.
LEMMA LeaveOnScreen ==
  ASSUME TypeInv, ListType', NEW s \in Server, RecvLeave(s), up'[s], NEW c \in Client, OnScreen(c)
  PROVE  OnScreen(c)'
PROOF
  <1>1. VariableType /\ ListType /\ IsBox(inbox)
    BY DEF TypeInv
  <1>2. /\ inbox[s] # <<>> /\ inbox[s] \in Seq(ServerMessage)
        /\ Head(inbox[s]) \in ServerMessage /\ Head(inbox[s]).type = "Left"
    BY <1>1, HeadOfServer DEF RecvLeave
  <1>3. PICK d \in Client : d = Head(inbox[s]).client /\ Head(inbox[s]) = Left(d)
    BY <1>2, MessageKinds
  <1>4. c # d
    <2>1. NoLeft(inbox[s], c)
      BY OnScreenIs, AttachedIs
    <2> QED
      BY <1>2, <1>3, <2>1, NoLeftTail
  <1>5. /\ inbox' = ServerLeaves(Received(s), s, d) /\ \A t \in Server : Stays(t, c)
        /\ UNCHANGED <<clientVars, file>>
    BY <1>1, <1>3, <1>4, LeaveAt DEF RecvLeave
  <1>6. /\ IsBox(Received(s)) /\ Received(s)[c] = inbox[c] /\ Received(s)[s] = Tail(inbox[s])
        /\ \A t \in Server : t # s => Received(s)[t] = inbox[t]
    BY <1>1, <1>2, ReceivedAt, Processes
  <1>7. \A p \in Proc : p # d => inbox'[p] = Received(s)[p]
    BY <1>5, <1>6, ServerLeavesAt
  <1>8. inbox'[c] = inbox[c] /\ inbox'[s] = Tail(inbox[s]) /\ \A t \in Server : t # s => inbox'[t] = inbox[t]
    BY <1>4, <1>6, <1>7, Processes
  <1>9. ~ IsMove(Head(inbox[s]), c) /\ Head(inbox[s]).type # "Update"
    BY <1>2, <1>3, <1>4, Moving
  <1> QED
    BY <1>2, <1>5, <1>8, <1>9, ClaimsKept, SameListSame, ReadUnconcerned, ScreenStays

--------------------------------------------------------------------------------
(* What a client shows, step by step *)

\* A request, for each client.
LEMMA RequestOnScreen ==
  ASSUME TypeInv, ListType', far = {}, \A t \in Server : up[t], NEW s \in Server, RecvRequest(s),
         InFlight(s), NEW c \in Client, Placed(c), up[c], OnScreen(c)
  PROVE  OnScreen(c)'
PROOF
  <1>1. PICK r : r = Head(inbox[s])
    OBVIOUS
  <1>2. CASE r.op = "v" \/ (r.op \in {"c", "j"} /\ r.client # c)
    BY <1>1, <1>2, OtherRequestOnScreen
  <1>3. CASE r.op = "c" /\ r.client = c
    BY <1>1, <1>3, ConnectedOnScreen
  <1>4. CASE r.op = "j" /\ r.client = c
    BY <1>1, <1>4, JoinedOnScreen
  <1>5. CASE r.op \notin {"c", "j", "v"}
    BY <1>1, <1>5, SentOnScreen
  <1> QED
    BY <1>2, <1>3, <1>4, <1>5

\* What a server reads is no longer in its inbox, and what it has of the objects is
\* the same.
LEMMA ReadFlight ==
  ASSUME TypeInv, \A t \in Server : InFlight(t), NEW s \in Server, inbox[s] # <<>>, UNCHANGED file,
         \A t \in Server : inbox'[t] = Received(s)[t]
  PROVE  \A t \in Server : InFlight(t)'
PROOF
  <1>1. /\ Received(s)[s] = Tail(inbox[s]) /\ \A t \in Server : t # s => Received(s)[t] = inbox[t]
        /\ inbox[s] \in Seq(ServerMessage)
    BY ReceivedAt, Processes, BoxAt DEF TypeInv
  <1>2. InFlightIn(Tail(inbox[s]), file[s])
    BY <1>1, InFlightIs, FlightTail
  <1>3. InFlightIn(inbox'[s], file'[s])
    BY <1>1, <1>2
  <1>4. ASSUME NEW t \in Server, t # s PROVE InFlight(t)'
    BY <1>1, <1>4, InFlightIs
  <1> QED
    BY <1>3, <1>4, InFlightIs

\* A request keeps what is on the way to the servers, and so do updates and leaves.
LEMMA RequestFlight ==
  ASSUME TypeInv, \A t \in Server : InFlight(t), NEW s \in Server, RecvRequest(s)
  PROVE  \A t \in Server : InFlight(t)'
PROOF
  <1>1. PICK r : r = Head(inbox[s])
    OBVIOUS
  <1>2. /\ inbox[s] # <<>> /\ r \in RequestMessage /\ r.client \in Client
        /\ HandleClientReq(s, r, Received(s)) /\ IsBox(Received(s))
    BY <1>1, RequestCase
  <1>3. CASE r.op \notin {"c", "j", "v"}
    BY <1>1, <1>3, SentFlight
  <1>4. CASE r.op \in {"c", "j", "v"}
    <2>1. UNCHANGED file
      BY <1>2, <1>4 DEF HandleClientReq, PutOnClientList, JoinDb, SendView
    <2>2. \A t \in Server : inbox'[t] = Received(s)[t]
      <3>1. CASE r.op = "c"
        <4>1. inbox' = ServerJoins(Received(s), s, r.client)
          BY <1>2, <3>1 DEF HandleClientReq, PutOnClientList
        <4> QED
          BY <1>2, <4>1, ServerJoinsAt, Processes
      <3>2. CASE r.op = "j"
        <4>1. inbox' = Received(s) \/ inbox' = SendDboard(Received(s), s, r.client, r.db_name)
          BY <1>2, <3>2 DEF HandleClientReq, JoinDb
        <4>2. r.db_name \in Board
          BY <1>2, <3>2, MessageKinds
        <4> QED
          BY <1>2, <4>1, <4>2, SendDboardAt, Processes DEF TypeInv
      <3>3. CASE r.op = "v"
        <4>1. inbox' = To(Received(s), s, r.client, Response("v", 0))
          BY <1>2, <3>3 DEF HandleClientReq, SendView
        <4>2. Response("v", 0) \in ClientMessage
          BY ClientMessages
        <4>3. \A p \in Proc : p # r.client =>
                To(Received(s), s, r.client, Response("v", 0))[p] = Received(s)[p]
          BY <1>2, <4>2, ToClientAt
        <4> QED
          BY <1>2, <4>1, <4>3, Processes
      <3> QED
        BY <1>4, <3>1, <3>2, <3>3
    <2> QED
      BY <1>2, <2>1, <2>2, ReadFlight
  <1> QED
    BY <1>3, <1>4

LEMMA UpdateFlight ==
  ASSUME TypeInv, \A t \in Server : InFlight(t), NEW s \in Server,
         RecvOwnUpdate(s) \/ \E u \in NewsFor(s) : News(s, u)
  PROVE  \A t \in Server : InFlight(t)'
PROOF
  <1>1. IsBox(inbox) /\ FileType /\ ListType
    BY DEF TypeInv
  <1>2. CASE RecvOwnUpdate(s)
    <2>1. PICK u : u = Head(inbox[s])
      OBVIOUS
    <2>2. u \in UpdateMessage /\ inbox[s] # <<>>
      BY <1>1, <1>2, <2>1, HeadOfServer, MessageKinds DEF RecvOwnUpdate
    <2>3. (inbox' = Received(s) \/ inbox' = Serve(Received(s), s, u)) /\ UNCHANGED file
      BY <1>2, <2>1 DEF RecvOwnUpdate, serverVars
    <2>4. IsBox(Received(s))
      BY <1>1, <2>2, ReceivedAt, Processes
    <2>5. \A t \in Server : Serve(Received(s), s, u)[t] = Received(s)[t]
      BY <1>1, <2>2, <2>4, ServeAt, Processes
    <2>6. \A t \in Server : inbox'[t] = Received(s)[t]
      BY <2>3, <2>5
    <2> QED
      BY <2>2, <2>3, <2>6, ReadFlight
  <1>3. ASSUME NEW u \in NewsFor(s), News(s, u) PROVE \A t \in Server : InFlight(t)'
    <2>1. /\ u \in UpdateMessage /\ inbox' = Serve(inbox, s, u)
          /\ file' = [file EXCEPT ![s] = Applied(@, u)]
      BY <1>1, <1>3, NewsUpdates DEF News
    <2>2. \A t \in Server : inbox'[t] = inbox[t]
      BY <1>1, <2>1, ServeAt, Processes
    <2>3. /\ u.op = "a" => u.obj_id \notin DOMAIN file[s]
          /\ u.op = "d" => \A i \in DOMAIN inbox[s] : inbox[s][i].type = "Update" =>
                             inbox[s][i].obj_id # u.obj_id
      BY <1>1, NewsAre
    <2>4. /\ file[s] \in [DOMAIN file[s] -> Record] /\ file'[s] = Applied(file[s], u)
          /\ \A t \in Server : t # s => file'[t] = file[t]
      BY <1>1, <2>1 DEF FileType
    <2>5. inbox[s] \in Seq(ServerMessage) /\ InFlightIn(inbox[s], file[s])
      BY <1>1, BoxAt, InFlightIs
    <2>6. InFlightIn(inbox[s], file'[s])
      BY <2>1, <2>3, <2>4, <2>5, FlightNews
    <2>7. InFlight(s)'
      BY <2>2, <2>6, InFlightIs
    <2>8. ASSUME NEW t \in Server, t # s PROVE InFlight(t)'
      BY <2>2, <2>4, <2>8, InFlightIs
    <2> QED
      BY <2>7, <2>8
  <1> QED
    BY <1>2, <1>3

LEMMA LeaveFlight ==
  ASSUME TypeInv, \A t \in Server : InFlight(t), NEW s \in Server, RecvLeave(s), up'[s]
  PROVE  \A t \in Server : InFlight(t)'
PROOF
  <1>1. VariableType /\ ListType /\ IsBox(inbox)
    BY DEF TypeInv
  <1>2. inbox[s] # <<>>
    BY <1>1, HeadOfServer DEF RecvLeave
  <1>3. PICK d \in Client : inbox' = ServerLeaves(Received(s), s, d)
    BY <1>1, LeaveAt
  <1>4. IsBox(Received(s))
    BY <1>1, <1>2, ReceivedAt, Processes
  <1>5. \A t \in Server : inbox'[t] = Received(s)[t]
    BY <1>3, <1>4, ServerLeavesAt, Processes
  <1>6. UNCHANGED file
    BY DEF RecvLeave
  <1> QED
    BY <1>2, <1>5, <1>6, ReadFlight

\* A step of a server, while no server exits.
LEMMA ServerShown ==
  ASSUME TypeInv, ListType', far = {}, NotInSync, \A t \in Server : up[t] /\ up'[t],
         \A t \in Server : InFlight(t), NEW s \in Server,
         \/ RecvRequest(s) \/ RecvLeave(s) \/ RecvOwnUpdate(s)
         \/ \E u \in NewsFor(s) : News(s, u)
  PROVE  /\ \A t \in Server : InFlight(t)'
         /\ \A c \in Client : Placed(c) /\ up[c] /\ OnScreen(c) => OnScreen(c)'
PROOF
  <1>1. \A t \in Server : InFlight(t)'
    BY RequestFlight, UpdateFlight, LeaveFlight
  <1>2. ASSUME NEW c \in Client, Placed(c), up[c], OnScreen(c) PROVE OnScreen(c)'
    <2>1. CASE RecvRequest(s)
      BY <1>2, <2>1, RequestOnScreen
    <2>2. CASE RecvLeave(s)
      BY <1>2, <2>2, LeaveOnScreen
    <2>3. CASE RecvOwnUpdate(s)
      BY <1>2, <2>3, OwnUpdateOnScreen DEF NotInSync
    <2>4. ASSUME NEW u \in NewsFor(s), News(s, u) PROVE OnScreen(c)'
      BY <1>2, <2>4, NewsOnScreen
    <2> QED
      BY <2>1, <2>2, <2>3, <2>4
  <1> QED
    BY <1>1, <1>2

\* Who has moved to another server has moved for good.
LEMMA MovedOnce ==
  ASSUME VariableType, [Next]_vars, NEW c \in Client, "server" \notin switched'[c]
  PROVE  "server" \notin switched[c]
PROOF
  <1>1. ASSUME NEW d \in Client, UserCommand(d) \/ ClientStep(d) \/ Reconnect(d)
        PROVE  \E S : switched[d] \subseteq S /\ switched' = [switched EXCEPT ![d] = S]
    <2>1. \A S : S = switched[d] => switched = [switched EXCEPT ![d] = S]
      BY DEF VariableType
    <2>2. CASE switched' = switched
      BY <2>1, <2>2
    <2>3. ASSUME NEW s \in Server, Connect(d, s)
          PROVE  \E S : switched[d] \subseteq S /\ switched' = [switched EXCEPT ![d] = S]
      <3>1. switched' = [switched EXCEPT ![d] = IF client_connected[d] THEN switched[d] \cup {"server"}
                                                ELSE switched[d]]
        BY <2>3 DEF Connect
      <3> QED
        BY <3>1
    <2>4. ASSUME NEW b \in Board, Join(d, b)
          PROVE  \E S : switched[d] \subseteq S /\ switched' = [switched EXCEPT ![d] = S]
      <3>1. switched' = [switched EXCEPT ![d] = IF curr_db[d] # NoBoard THEN switched[d] \cup {"board"}
                                                ELSE switched[d]]
        BY <2>4 DEF Join
      <3> QED
        BY <3>1
    <2>5. (\A s \in Server : ~ Connect(d, s)) /\ (\A b \in Board : ~ Join(d, b)) => switched' = switched
      BY <1>1 DEF UserCommand, JoinRefused, Post, Change, Quit, AskView, ClientStep, RecvResponse,
                  RecvMembership, Reconnect, clientVars, historyVars
    <2> QED
      BY <2>2, <2>3, <2>4, <2>5
  <1>2. \/ \E d \in Client : UserCommand(d) \/ ClientStep(d) \/ Reconnect(d)
        \/ switched' = switched
    BY DEF Next, ServerStep, RecvRequest, Drain, RecvOwnUpdate, RecvLeave, StartSync, EndSync, Crash,
           Disconnect, News, Partition, vars, clientVars, historyVars
  <1> QED
    BY <1>1, <1>2 DEF VariableType

\* Every step keeps what a client shows right.
LEMMA ShownStep ==
  TypeInv /\ ConnectionInv /\ LeaveInv /\ PlaceInv /\ ShownInv /\ [Next]_vars => ShownInv'
PROOF
  <1> SUFFICES ASSUME TypeInv, ConnectionInv, LeaveInv, PlaceInv, ShownInv, [Next]_vars,
                      Steady', NobodyMoved'
               PROVE  /\ \A s \in Server : InFlight(s)'
                      /\ \A c \in Client : up'[c] => OnScreen(c)'
    BY DEF ShownInv
  <1>1. /\ disturbed = {} /\ disturbed' = {} /\ \A s \in Server : up[s] /\ up'[s]
        /\ \A p \in Proc : up'[p] => up[p]
    BY OneWay, Disturbances, Processes DEF Steady, TypeInv
  <1>2. \A c \in Client : ~ hasty[c] /\ ~ hasty'[c] /\ "server" \notin switched[c]
                            /\ "server" \notin switched'[c]
    BY OneWay, MovedOnce DEF NobodyMoved, TypeInv
  <1>3. /\ \A s \in Server : InFlight(s)
        /\ \A c \in Client : up[c] => OnScreen(c)
    BY <1>1, <1>2 DEF ShownInv, Steady, NobodyMoved
  <1>4. far = {} /\ NotInSync /\ \A c \in Client : Placed(c)
    BY <1>1, <1>2, PlaceInvIs DEF LeaveInv, AllPlaced, ExitsOnly
  <1>5. ListType'
    BY TypeStep DEF TypeInv
  <1>6. \A s \in Server : /\ ~ Drain(s) /\ ~ EndSync(s) /\ ~ StartSync(s) /\ ~ Crash(s)
                          /\ ~ Disconnect(s)
    BY <1>1, <1>4, NotInSyncStep, Disturbances DEF TypeInv, Disconnect
  <1>7. /\ \A d \in Client : ~ Reconnect(d)
        /\ \A A \in SUBSET Proc : ~ Partition(A)
    BY <1>1, Disturbances
  <1>8. ASSUME NEW d \in Client, UserCommand(d) \/ ClientStep(d)
        PROVE  /\ \A s \in Server : InFlight(s)'
               /\ \A c \in Client : up'[c] => OnScreen(c)'
    <2>1. \A s \in Server : InFlight(s)'
      BY <1>1, <1>3, <1>4, <1>8, ClientFlight
    <2>2. ASSUME NEW c \in Client, up'[c] PROVE OnScreen(c)'
      <3>1. up[c] /\ OnScreen(c)
        BY <1>1, <1>3, <2>2, Processes
      <3> QED
        BY <1>1, <1>2, <1>4, <1>5, <1>8, <2>2, <3>1, ClientOnScreen
    <2> QED
      BY <2>1, <2>2
  <1>9. ASSUME NEW s \in Server, \/ RecvRequest(s) \/ RecvLeave(s) \/ RecvOwnUpdate(s)
                                 \/ \E u \in NewsFor(s) : News(s, u)
        PROVE  /\ \A t \in Server : InFlight(t)'
               /\ \A c \in Client : up'[c] => OnScreen(c)'
    <2>1. \A c \in Client : up'[c] => up[c] /\ OnScreen(c)
      BY <1>1, <1>3, Processes
    <2> QED
      BY <1>1, <1>3, <1>4, <1>5, <1>9, <2>1, ServerShown
  <1>10. CASE UNCHANGED vars
    <2>1. UNCHANGED <<up, inbox, objects, file, db_list, client_server_group, curr_db, wiped, switched>>
      BY <1>10 DEF vars, clientVars, sessionVars, screenVars, historyVars, serverVars
    <2>2. \A s \in Server : InFlight(s)'
      BY <1>3, <2>1, InFlightIs
    <2>3. ASSUME NEW c \in Client, up'[c] PROVE OnScreen(c)'
      <3>1. OnScreen(c)
        BY <1>3, <2>1, <2>3
      <3> QED
        BY <2>1, <3>1 DEF OnScreen, Attached, OnFirstBoard, Shown, Offered, Listed, Mentions, NothingDue,
                          Moves, OnBoard, JoinedTo, Nodes
    <2> QED
      BY <2>2, <2>3
  <1> QED
    BY <1>6, <1>7, <1>8, <1>9, <1>10 DEF Next, ServerStep

\* At the start nothing is listed and nothing is on the way.
LEMMA ShownInit == Init => ShownInv
PROOF
  <1> SUFFICES ASSUME Init
               PROVE  /\ \A s \in Server : InFlight(s)
                      /\ \A c \in Client : OnScreen(c)
    BY DEF ShownInv
  <1>1. \A p \in Proc : DOMAIN inbox[p] = {}
    BY EmptySeq DEF Init
  <1>2. \A s \in Server : DOMAIN inbox[s] = {}
    BY <1>1, Processes
  <1>3. \A s \in Server : InFlight(s)
    BY <1>2 DEF InFlight
  <1>4. ASSUME NEW c \in Client PROVE OnScreen(c)
    <2>1. objects[c] = {} /\ DOMAIN inbox[c] = {}
      BY <1>1, Processes DEF Init
    <2>2. Offered(c) = {}
      BY <2>1 DEF Offered
    <2>3. \A s \in Server : OnBoard(s, curr_db[c]) = {}
      BY DEF Init, OnBoard, NoRecords
    <2>4. Attached(c)
      BY <1>2, <2>2 DEF Attached
    <2>5. OnFirstBoard(c)
      BY <1>2, <2>2 DEF OnFirstBoard, Moves
    <2> QED
      BY <2>2, <2>3, <2>4, <2>5 DEF OnScreen
  <1> QED
    BY <1>3, <1>4

--------------------------------------------------------------------------------
(* The session invariant *)

\* The session invariant: what a client believes (client_connected, curr_db), what
\* put_on_client_list, join_db and remove_client have on the lists, and what is on the
\* way between them fit together.
THEOREM SessionInvariance == Spec => [](TypeInv /\ BeliefInv)
PROOF
  <1>1. Init => TypeInv /\ BeliefInv
    BY TypeInit, ConnectionInit, LeaveInit, PlaceInit, InformedInit, ShownInit DEF BeliefInv
  <1>2. TypeInv /\ BeliefInv /\ [Next]_vars => (TypeInv /\ BeliefInv)'
    BY TypeStep, ConnectionStep, LeaveStep, PlaceStep, InformedStep, ShownStep DEF BeliefInv
  <1> QED
    BY <1>1, <1>2, PTL DEF Spec

\* With all messages read and no faults, join_db and remove_client have left a client
\* on the list of the board it believes to be on, and on no other.
THEOREM ListsAgree == Spec => []ListsMatch
PROOF
  <1>1. TypeInv /\ BeliefInv => ListsMatch
    <2> SUFFICES ASSUME TypeInv, BeliefInv, Steady, NEW c \in Client, NEW s \in Server, Quiet(c), ~ hasty[c],
                        NEW b \in Board
                 PROVE  c \in JoinedTo(s, b) <=>
                          client_connected[c] /\ client_server_group[c] = s /\ curr_db[c] = b
      BY DEF ListsMatch
    <2>1. TypeInv /\ ListType /\ VariableType
      BY DEF TypeInv
    <2>2. Placed(c) /\ up[c] /\ up[s] /\ inbox[c] = <<>> /\ inbox[s] = <<>>
      BY PlaceInvIs DEF BeliefInv, AllPlaced, ExitsOnly, Steady, Quiet
    <2>3. Informed(c)
      BY <2>2 DEF BeliefInv, InformedInv
    <2>4. OneGroup(c) /\ InPlace(s, c) /\ ToldOnce(c, s)
      BY <2>2, PlacedIs
    <2>5. DOMAIN inbox[s] = {} /\ DOMAIN inbox[c] = {}
      BY <2>2, EmptySeq
    <2>6. At(s, c) = Expected(c, s)
      <3>1. Moves(inbox[s], c) = {}
        BY <2>5 DEF Moves
      <3>2. EndPlace(inbox[s], c, At(s, c)) = At(s, c)
        BY <3>1 DEF EndPlace, PlaceBefore
      <3> QED
        BY <2>2, <2>4, <3>2, InPlaceIs
    <2>7. c \in JoinedTo(s, b) <=> b \in At(s, c)
      <3>1. b # NoBoard
        BY BoardAssumption
      <3>2. b \in At(s, c) <=> \E i \in DOMAIN db_list[s] :
              c \in ToSet(db_list[s][i].clients) /\ db_list[s][i].db_name = b
        BY <3>1 DEF At, NodesWith
      <3> QED
        BY <3>2 DEF JoinedTo, Nodes
    <2>8. s \in member[c] <=> s = client_server_group[c]
      BY <2>2, <2>4, Processes DEF OneGroup
    <2>9. ASSUME s = client_server_group[c], b \in At(s, c) PROVE client_connected[c]
      <3>1. c \in joined[s]
        BY <2>4, <2>9, InPlaceIs
      <3>2. Twos(inbox[c], s) = {}
        BY <2>5 DEF Twos, About
      <3> QED
        BY <2>3, <2>9, <3>1, <3>2, Processes, InformedIs
    <2> QED
      BY <2>6, <2>7, <2>8, <2>9 DEF Expected
  <1> QED
    BY <1>1, SessionInvariance, PTL

\* With all messages read, the list of a client is that of its board.
LEMMA BoardIsShown == TypeInv /\ BeliefInv => ShowsItsBoard
PROOF
  <1> SUFFICES ASSUME TypeInv, BeliefInv, Steady, NobodyMoved, NEW c \in Client, Quiet(c),
                      client_connected[c], curr_db[c] # NoBoard, ~ wiped[c],
                      NEW s, s = client_server_group[c]
               PROVE  /\ OnBoard(s, curr_db[c]) \subseteq objects[c]
                      /\ switched[c] = {} => objects[c] = OnBoard(s, curr_db[c])
    BY DEF ShowsItsBoard
  <1>1. ConnectionInv /\ PlaceInv /\ InformedInv /\ ShownInv
    BY DEF BeliefInv
  <1>2. s \in Server
    BY <1>1, ConnectedTo
  <1>3. up[c] /\ inbox[c] = <<>> /\ inbox[s] = <<>> /\ ~ hasty[c]
    BY <1>2 DEF Quiet, NobodyMoved
  <1>4. Placed(c) /\ up[s]
    BY <1>1, <1>2, <1>3, PlaceInvIs DEF AllPlaced, ExitsOnly, Steady
  <1>5. OnScreen(c)
    BY <1>1, <1>3 DEF ShownInv
  <1>6. DOMAIN inbox[s] = {} /\ DOMAIN inbox[c] = {}
    BY <1>3, EmptySeq
  <1>7. Moves(inbox[s], c) = {} /\ \A b, k : NothingDue(inbox[s], b, k)
    BY <1>6 DEF Moves, NothingDue
  <1>8. c \in JoinedTo(s, curr_db[c])
    <2>1. InPlace(s, c) /\ s \in member[c]
      <3>1. OneGroup(c) /\ InPlace(s, c)
        BY <1>2, <1>4, PlacedIs
      <3> QED
        BY <1>2, <1>3, <3>1, Processes DEF OneGroup
    <2>2. EndPlace(inbox[s], c, At(s, c)) = {curr_db[c]}
      BY <1>2, <1>3, <2>1, InPlaceIs DEF Expected
    <2>3. EndPlace(inbox[s], c, At(s, c)) = At(s, c)
      BY <1>7 DEF EndPlace, PlaceBefore
    <2>4. curr_db[c] \in At(s, c)
      BY <2>2, <2>3
    <2>5. curr_db[c] \in Board
      BY DEF TypeInv, VariableType, Place
    <2> QED
      BY <1>2, <2>4, <2>5, JoinedAt DEF TypeInv
  <1>9. \A k : Listed(inbox[c], objects[c], k) <=> k \in objects[c]
    BY <1>6 DEF Listed, Mentions
  <1>10. \A k : Shown(s, c, k)
    BY <1>2, <1>5, OnScreenIs
  <1>11. \A k : /\ k \in OnBoard(s, curr_db[c]) => k \in objects[c]
                /\ switched[c] = {} /\ k \in objects[c] => k \in OnBoard(s, curr_db[c])
    BY <1>7, <1>8, <1>9, <1>10 DEF Shown
  <1> QED
    BY <1>11

\* With all messages read, no faults and no client that moved to another server,
\* serve_clients, send_dboard and Read_message have left a client with the live objects
\* of its board on its list, and on its first board with no others, whatever was posted
\* and deleted meanwhile.
THEOREM BoardsAreShown == Spec => []ShowsItsBoard
PROOF
  BY BoardIsShown, SessionInvariance, PTL

--------------------------------------------------------------------------------
(* The lines on the screen *)

\* Every list has its number of lines, whether or not its client still runs.
ScreenInv ==
  /\ objects = [c \in Client |-> objects[c]]
  /\ obj_num = [c \in Client |-> obj_num[c]]
  /\ \A c \in Client : objects[c] # {} => obj_num[c] = Cardinality(objects[c])

LEMMA ScreenKept ==
  ASSUME ScreenInv, UNCHANGED <<objects, obj_num>>
  PROVE  ScreenInv'
PROOF
  BY DEF ScreenInv

\* Where a list is cleared, the number of lines may be anything.
LEMMA ScreenCleared ==
  ASSUME ScreenInv, NEW c \in Client, NEW n,
         objects' = [objects EXCEPT ![c] = {}], obj_num' = [obj_num EXCEPT ![c] = n]
  PROVE  ScreenInv'
PROOF
  BY DEF ScreenInv

LEMMA ScreenDisplayed ==
  ASSUME ScreenInv, NEW c \in Client, NEW keys,
         objects' = [objects EXCEPT ![c] = keys], obj_num' = Displayed(c, keys)
  PROVE  ScreenInv'
PROOF
  BY DEF ScreenInv, Displayed

LEMMA ReInitScreen ==
  ASSUME ScreenInv, NEW c \in Client, ReInit(c)
  PROVE  ScreenInv'
PROOF
  BY ScreenCleared DEF ReInit

LEMMA CommandScreen ==
  ASSUME ScreenInv, NEW c \in Client, UserCommand(c)
  PROVE  ScreenInv'
PROOF
  <1>1. ASSUME NEW s \in Server, Connect(c, s) PROVE ScreenInv'
    <2>1. CASE client_connected[c]
      BY <1>1, <2>1, ReInitScreen DEF Connect
    <2>2. CASE ~ client_connected[c]
      BY <1>1, <2>2, ScreenKept DEF Connect, screenVars
    <2> QED
      BY <2>1, <2>2
  <1>2. ASSUME NEW b \in Board, Join(c, b) PROVE ScreenInv'
    BY <1>2, ScreenCleared DEF Join
  <1>3. CASE JoinRefused(c)
    BY <1>3 DEF JoinRefused, ScreenInv
  <1>4. CASE \/ Post(c) \/ AskView(c) \/ Quit(c)
             \/ \E op \in {"e", "d"}, line \in 1 .. obj_num[c] : Change(c, op, line)
    BY <1>4, ScreenKept DEF Post, AskView, Quit, Change, clientVars, screenVars
  <1> QED
    BY <1>1, <1>2, <1>3, <1>4 DEF UserCommand

LEMMA MessageScreen ==
  ASSUME ScreenInv, NEW c \in Client, ClientStep(c) \/ Reconnect(c)
  PROVE  ScreenInv'
PROOF
  <1>0. objects = [objects EXCEPT ![c] = objects[c]]
    BY DEF ScreenInv
  <1>1. CASE RecvResponse(c)
    BY <1>1, ScreenDisplayed DEF RecvResponse
  <1>2. CASE RecvMembership(c)
    <2>1. \/ ReInit(c)
          \/ UNCHANGED objects /\ obj_num' = Displayed(c, objects[c])
      BY <1>2 DEF RecvMembership
    <2> QED
      BY <1>0, <2>1, ReInitScreen, ScreenDisplayed
  <1>3. CASE Reconnect(c)
    BY <1>0, <1>3, ScreenDisplayed DEF Reconnect
  <1> QED
    BY <1>1, <1>2, <1>3 DEF ClientStep

\* The servers and the network do not touch the screen.
LEMMA OtherScreen ==
  ASSUME ScreenInv,
         \/ \E s \in Server : \/ ServerStep(s) \/ StartSync(s) \/ EndSync(s)
                              \/ Crash(s) \/ Disconnect(s)
         \/ \E s \in Server : \E u \in NewsFor(s) : News(s, u)
         \/ \E A \in SUBSET Proc : Partition(A)
         \/ UNCHANGED vars
  PROVE  ScreenInv'
PROOF
  <1>1. UNCHANGED clientVars
    BY DEF ServerStep, RecvRequest, RecvOwnUpdate, RecvLeave, Drain, StartSync, EndSync, Crash,
           Disconnect, News, Partition, vars
  <1> QED
    BY <1>1, ScreenKept DEF clientVars, screenVars

LEMMA ScreenHolds == Spec => []ScreenInv
PROOF
  <1>1. Init => ScreenInv
    BY DEF Init, ScreenInv
  <1>2. ScreenInv /\ [Next]_vars => ScreenInv'
    BY CommandScreen, MessageScreen, OtherScreen DEF Next
  <1> QED
    BY <1>1, <1>2, PTL DEF Spec

\* The number a line is tested against is that of the objects on the list: an edit
\* or delete of a line that passes the test never goes round the ring.
THEOREM LinesNameObjects == Spec => []LineNamesObject
PROOF
  <1>1. ScreenInv => LineNamesObject
    BY DEF ScreenInv, LineNamesObject
  <1> QED
    BY <1>1, ScreenHolds, PTL
================================================================================
