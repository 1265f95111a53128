--------------------------- MODULE SessionInvariant ---------------------------
(***************************************************************************)
(* The inductive invariant of ClientSession.                               *)
(*                                                                         *)
(* What a client believes and what its servers have on their lists differ  *)
(* by the messages on their way.  The invariant walks through the inbox of *)
(* a server: a client has a place at the server (on the list of the        *)
(* connected clients, on a board, or none), each request or leave that     *)
(* waits moves it, and after the last one it is where the client believes  *)
(* it is.  In the other direction the last membership of a group that      *)
(* waits for a client says whether both are in the group.                  *)
(***************************************************************************)
EXTENDS ClientSession

(* Types *)

Place == Board \cup {NoBoard}

ClientMessage ==
  [type : {"Membership"}, group : Server, members : {1, 2}, cause : {"join", "gone", "network"}]
    \cup [type : {"Response"}, op : {"a", "e", "d", "v"}, obj_id : Nat]

RequestMessage ==
  {r \in [type : {"Client"}, op : {"c", "j", "a", "e", "d", "v"}, client : Client,
          db_name : Place, obj_id : Nat, obj : Place] :
     r.op \in {"j", "a", "e", "d"} => r.db_name \in Board}

UpdateMessage ==
  [type : {"Update"}, op : {"a", "e", "d"}, db_name : Board, obj_id : Nat]

ServerMessage == [type : {"Left"}, client : Client] \cup RequestMessage \cup UpdateMessage

BoardNode == [db_name : Board, clients : Seq(Client)]
Record == [db_name : Board, status : BOOLEAN]

ScreenType ==
  /\ objects \in [Client -> SUBSET Nat] /\ \A c \in Client : IsFiniteSet(objects[c])
  /\ obj_num \in [Client -> Nat] /\ wiped \in [Client -> BOOLEAN]

IsBox(box) ==
  /\ box = [p \in Proc |-> box[p]]
  /\ \A c \in Client : box[c] \in Seq(ClientMessage)
  /\ \A s \in Server : box[s] \in Seq(ServerMessage)

ListType ==
  /\ client_list \in [Server -> Seq(Client)]
  /\ db_list \in [Server -> Seq(BoardNode)]
  /\ \A s \in Server : \A i, j \in DOMAIN db_list[s] :
       db_list[s][i].db_name = db_list[s][j].db_name => i = j

FileType ==
  /\ DOMAIN file = Server
  /\ \A s \in Server : DOMAIN file[s] \subseteq Nat /\ file[s] \in [DOMAIN file[s] -> Record]
  /\ \E n \in Nat : \A k \in Used : k <= n

QueueType ==
  /\ queue \in [Server -> Seq(RequestMessage)]
  /\ \A s \in Server : pc[s] = "draining" => queue[s] # <<>> /\ ~ syncOn[s]

VariableType ==
  /\ up \in [Proc -> BOOLEAN]
  /\ cs_index \in [Client -> Server \cup {NoServer}]
  /\ client_server_group \in [Client -> Server \cup {NoServer}]
  /\ client_connected \in [Client -> BOOLEAN]
  /\ curr_db \in [Client -> Place]
  /\ syncOn \in [Server -> BOOLEAN] /\ pc \in [Server -> {"idle", "draining"}]
  /\ member \in [Client -> SUBSET Server] /\ joined \in [Server -> SUBSET Client]
  /\ far \subseteq Proc
  /\ hasty \in [Client -> BOOLEAN] /\ lost \in [Client -> BOOLEAN]
  /\ switched \in [Client -> SUBSET {"board", "server"}]

TypeInv == VariableType /\ ScreenType /\ IsBox(inbox) /\ ListType /\ FileType /\ QueueType

--------------------------------------------------------------------------------
(* The connection *)

\* The memberships of the group of server s among the messages q, those of two
\* members, and what the last one says.
About(q, s) == {i \in DOMAIN q : q[i].type = "Membership" /\ q[i].group = s}
Twos(q, s) == {i \in About(q, s) : q[i].members = 2}
LastIsTwo(q, s) == \E i \in Twos(q, s) : \A j \in About(q, s) : j <= i

\* The last membership that waits does not say more than is true, and neither does
\* the client if none waits.
Truthful(c) ==
  /\ client_server_group[c] \in {cs_index[c], NoServer}
  /\ client_connected[c] => client_server_group[c] # NoServer
  /\ up[c] => \A s \in member[c] : LastIsTwo(inbox[c], s) => Both(c, s)
  /\ up[c] /\ ~ lost[c] /\ client_server_group[c] # NoServer =>
       LET s == client_server_group[c] IN
         s \in member[c] /\ (client_connected[c] /\ About(inbox[c], s) = {} => Both(c, s))
ConnectionInv == \A c \in Client : Truthful(c)

--------------------------------------------------------------------------------
(* The place of a client at a server *)

\* Where client c is on the lists of server s.
At(s, c) ==
  {db_list[s][i].db_name : i \in NodesWith(s, c)}
    \cup (IF c \in ToSet(client_list[s]) THEN {NoBoard} ELSE {})

\* The messages in q that move client c, where they put it, and where it must be.
IsMove(m, c) ==
  \/ m.type = "Left" /\ m.client = c
  \/ m.type = "Client" /\ m.client = c /\ m.op \in {"c", "j"}
Moves(q, c) == {i \in DOMAIN q : IsMove(q[i], c)}
After(m) == IF m.type = "Left" THEN {} ELSE IF m.op = "c" THEN {NoBoard} ELSE {m.db_name}
Fits(m, P) ==
  IF m.type = "Left" THEN P # {} ELSE IF m.op = "c" THEN P = {} ELSE P = {m.obj}

\* Where a client that is at P is before message i of q is handled.
PlaceBefore(q, c, P, i) ==
  LET earlier == {j \in Moves(q, c) : j < i}
  IN IF earlier = {} THEN P ELSE After(q[Max(earlier)])
EndPlace(q, c, P) == PlaceBefore(q, c, P, Len(q) + 1)

\* Without faults a leave finds the client on a list.
LeavesFind(q, c, P) ==
  \A i \in Moves(q, c) : q[i].type = "Left" => PlaceBefore(q, c, P, i) # {}
Findable(s, c) ==
  /\ LeavesFind(inbox[s], c, At(s, c))
  /\ s \in member[c] => EndPlace(inbox[s], c, At(s, c)) # {}
LeaveInv ==
  "fault" \notin disturbed =>
    far = {} /\ \A s \in Server, c \in Client : up[s] => Findable(s, c)

--------------------------------------------------------------------------------
(* A client whose user waits *)

Once(list, c) == \A i, j \in DOMAIN list : list[i] = c /\ list[j] = c => i = j
OnOneList(s, c) ==
  /\ \A P, Q \in At(s, c) : P = Q
  /\ Once(client_list[s], c) /\ \A i \in DOMAIN db_list[s] : Once(db_list[s][i].clients, c)

\* Where the client believes it is.
Expected(c, s) == IF s \in member[c] THEN {curr_db[c]} ELSE {}

AllFit(q, c, P) == \A i \in Moves(q, c) : Fits(q[i], PlaceBefore(q, c, P, i))
InPlace(s, c) ==
  /\ c \in joined[s] <=> At(s, c) # {}
  /\ AllFit(inbox[s], c, At(s, c))
  /\ up[c] => EndPlace(inbox[s], c, At(s, c)) = Expected(c, s)
  /\ s \in member[c] => \A i \in DOMAIN inbox[s] : inbox[s][i] # Left(c)

\* It leaves a group before it joins the next, and is told once that the server has
\* joined: until then it is not connected.
OneGroup(c) ==
  /\ member[c] \subseteq {client_server_group[c]}
  /\ client_server_group[c] = NoServer => curr_db[c] = NoBoard
  /\ up[c] /\ client_server_group[c] # NoServer => client_server_group[c] \in member[c]
OneTwo(q, s) ==
  /\ \A i, j \in Twos(q, s) : i = j
  /\ \A i \in About(q, s) : q[i].cause # "gone"
ToldOnce(c, s) ==
  /\ OneTwo(inbox[c], s)
  /\ Twos(inbox[c], s) # {} =>
       s = client_server_group[c] /\ ~ client_connected[c] /\ c \in joined[s]
  /\ client_connected[c] /\ client_server_group[c] = s => c \in joined[s]

Placed(c) ==
  /\ OneGroup(c)
  /\ \A s \in Server : /\ OnOneList(s, c)
                       /\ up[s] => InPlace(s, c) /\ (up[c] => ToldOnce(c, s))
NotInSync == \A s \in Server : ~ syncOn[s] /\ queue[s] = <<>> /\ pc[s] = "idle"
PlaceInv == ExitsOnly => NotInSync /\ \A c \in Client : ~ hasty[c] => Placed(c)

\* When no server has exited, what it is told is about the group it waits for, and
\* last that the server has joined.
AllAbout(q, s) ==
  \A i \in DOMAIN q : q[i].type = "Membership" => q[i].group = s /\ \A j \in Twos(q, s) : i <= j
Informed(c) ==
  LET s == client_server_group[c] IN
    /\ AllAbout(inbox[c], s)
    /\ client_connected[c] \/ s = NoServer =>
         \A i \in DOMAIN inbox[c] : inbox[c][i].type # "Membership"
    /\ s # NoServer /\ ~ client_connected[c] /\ c \in joined[s] => Twos(inbox[c], s) # {}
InformedInv == Steady => \A c \in Client : up[c] /\ ~ hasty[c] => Informed(c)

--------------------------------------------------------------------------------
(* What a client shows *)

\* The messages in q that put object k on the list of a client or take it off, and
\* whether it will be on it when q is read.
Mentions(q, k) ==
  {i \in DOMAIN q : q[i].type = "Response" /\ q[i].op \in {"a", "d"} /\ q[i].obj_id = k}
Listed(q, keys, k) ==
  \/ Mentions(q, k) = {} /\ k \in keys
  \/ \E i \in Mentions(q, k) : q[i].op = "a" /\ \A j \in Mentions(q, k) : j <= i

\* The objects that are on the list of client c, or will be for a while.
Offered(c) ==
  objects[c] \cup {inbox[c][i].obj_id :
                     i \in {j \in DOMAIN inbox[c] : inbox[c][j].type = "Response"
                                                      /\ inbox[c][j].op = "a"}}

\* No update of the server itself on object k of board b is still to be served.
NothingDue(q, b, k) == \A i \in DOMAIN q : q[i] \notin {Update("a", b, k), Update("d", b, k)}

\* A server has applied its own updates before it serves them, and who deletes an
\* object had it from the server.
InFlight(s) ==
  \A i \in DOMAIN inbox[s] :
    LET m == inbox[s][i] IN
      /\ m.type \in {"Client", "Update"} /\ m.op = "d" => m.obj_id \in DOMAIN file[s]
      /\ m.type = "Update" /\ m.op = "d" => m.obj_id \notin OnBoard(s, m.db_name)
      /\ m.type = "Update" /\ m.op = "a" =>
           \/ m.obj_id \in OnBoard(s, m.db_name)
           \/ \E j \in DOMAIN inbox[s] : i < j /\ inbox[s][j] = Update("d", m.db_name, m.obj_id)

\* A client has left no server, and has its objects from the one it is with.
Attached(c) ==
  /\ \A s \in Server : \A i \in DOMAIN inbox[s] : inbox[s][i] # Left(c)
  /\ Offered(c) # {} => client_server_group[c] # NoServer
  /\ \A s \in Server : s = client_server_group[c] => Offered(c) \subseteq DOMAIN file[s]

\* A client that never left a board comes to its board from none, with no objects.
OnFirstBoard(c) ==
  /\ \A s \in Server : \A i \in Moves(inbox[s], c) :
       inbox[s][i].type = "Client" => inbox[s][i].obj = NoBoard
  /\ (\A s \in Server, b \in Board : c \notin JoinedTo(s, b)) =>
       \A k \in Offered(c) : ~ Listed(inbox[c], objects[c], k)

\* Client c is on the list of its board and nothing about the object is on its way
\* to the server: then what is on its way to the client makes its list right.
Shown(s, c, k) ==
  LET b == curr_db[c] IN
    c \in JoinedTo(s, b) /\ Moves(inbox[s], c) = {} /\ NothingDue(inbox[s], b, k) =>
      /\ ~ wiped[c] /\ k \in OnBoard(s, b) => Listed(inbox[c], objects[c], k)
      /\ switched[c] = {} /\ Listed(inbox[c], objects[c], k) => k \in OnBoard(s, b)
OnScreen(c) ==
  /\ Attached(c)
  /\ switched[c] = {} => OnFirstBoard(c)
  /\ \A s \in Server : \A k \in OnBoard(s, curr_db[c]) \cup Offered(c) : Shown(s, c, k)
ShownInv ==
  Steady /\ NobodyMoved =>
    /\ \A s \in Server : InFlight(s)
    /\ \A c \in Client : up[c] => OnScreen(c)

--------------------------------------------------------------------------------
\* Beliefs of clients, lists of servers and messages on their way fit together: what
\* a client is told last about a group is true, a walk through what waits for a
\* server takes each client from where the server has it to where it believes it is,
\* and what waits for a client makes its list that of its board.
BeliefInv == ConnectionInv /\ LeaveInv /\ PlaceInv /\ InformedInv /\ ShownInv
================================================================================
