----------------------------- MODULE ClientSession -----------------------------
(***************************************************************************)
(* Clients and the servers they connect to: the connection state and the   *)
(* list of objects of each client, the lists of connected and joined       *)
(* clients of each server, and the groups between them.                    *)
(*                                                                         *)
(* For every client and server there is a bi-member Spread group.  The     *)
(* client joins it, asks the server to join it too ("c"), and takes its    *)
(* memberships for the state of the connection.  Requests go to the group  *)
(* of the server, responses to the private group of the client.            *)
(*                                                                         *)
(* What the servers do among themselves is in Replication.  Here an update *)
(* of another server is a step that may happen to a server (News), and so  *)
(* is a synchronisation (StartSync, EndSync).                              *)
(*                                                                         *)
(* Spread is external.  Each process reads what was delivered to it in     *)
(* order (inbox), and may act on a state of the group that is out of date. *)
(***************************************************************************)
EXTENDS Naturals, FiniteSets, SequencesExt

CONSTANTS
  Client, Server,  \* processes; servers are numbered from 1
  Board, NoBoard,  \* names of boards, and "-1"
  MaxCommands,     \* bound: commands of the users
  MaxEvents        \* bound: updates of other servers, synchronisations and faults

ASSUME ServerAssumption ==
  Server \subseteq Nat \ {0} /\ IsFiniteSet(Server) /\ Client \cap Nat = {}
ASSUME BoardAssumption == NoBoard \notin Board
ASSUME BoundAssumption == MaxCommands \in Nat /\ MaxEvents \in Nat

NoServer == 0
Proc == Client \cup Server

VARIABLES
  up,                   \* the process is running
  (* client *)
  cs_index,             \* server of the last connect command
  client_server_group,  \* the server whose group it takes for its own, or NoServer
  client_connected, curr_db,
  objects,              \* the keys of the objects on the list
  obj_num,              \* number of lines last displayed
  (* server *)
  syncOn, queue,
  pc,                   \* "idle" or "draining" (replay of the queue)
  client_list,          \* clients connected and on no board
  db_list,              \* the boards in memory with the clients joined to them
  file,                 \* the records of the boards, by obj_id
  (* Spread *)
  member,               \* the servers whose group a client is in
  joined,               \* the clients whose group a server is in
  far,                  \* the processes on the far side of a partition
  inbox,
  (* bounds and history *)
  commands, events,
  hasty,                \* the user did not wait for an earlier command to take effect
  switched,             \* what the client left for another one: "board", "server"
  disturbed,            \* which of "sync", "crash" and "fault" there were
  lost,                 \* the client lost its connection to the daemon
  wiped                 \* the list was cleared and not asked for again

sessionVars == <<cs_index, client_server_group, client_connected, curr_db>>
screenVars == <<objects, obj_num, wiped>>
historyVars == <<hasty, lost, switched>>
clientVars == <<sessionVars, screenVars, historyVars>>
syncVars == <<syncOn, queue, pc>>
serverVars == <<syncVars, client_list, db_list, file>>
netVars == <<member, joined, far>>
boundVars == <<commands, events, disturbed>>
vars == <<up, clientVars, serverVars, netVars, inbox, boundVars>>

NoRecords == [k \in {} |-> [db_name |-> NoBoard, status |-> FALSE]]

Init ==
  /\ up = [p \in Proc |-> TRUE]
  /\ cs_index = [c \in Client |-> NoServer]
  /\ client_server_group = [c \in Client |-> NoServer]
  /\ client_connected = [c \in Client |-> FALSE]
  /\ curr_db = [c \in Client |-> NoBoard]
  /\ objects = [c \in Client |-> {}]
  /\ obj_num = [c \in Client |-> 0]
  /\ syncOn = [s \in Server |-> FALSE]
  /\ queue = [s \in Server |-> <<>>]
  /\ pc = [s \in Server |-> "idle"]
  /\ client_list = [s \in Server |-> <<>>]
  /\ db_list = [s \in Server |-> <<>>]
  /\ file = [s \in Server |-> NoRecords]
  /\ member = [c \in Client |-> {}]
  /\ joined = [s \in Server |-> {}]
  /\ far = {}
  /\ inbox = [p \in Proc |-> <<>>]
  /\ commands = 0 /\ events = 0 /\ disturbed = {}
  /\ hasty = [c \in Client |-> FALSE]
  /\ lost = [c \in Client |-> FALSE]
  /\ switched = [c \in Client |-> {}]
  /\ wiped = [c \in Client |-> FALSE]

--------------------------------------------------------------------------------
(* Messages and groups *)

Membership(s, n, cause) == [type |-> "Membership", group |-> s, members |-> n, cause |-> cause]
Left(c) == [type |-> "Left", client |-> c]
\* obj is the old board in a join request.  The text of an object is left out.
Request(op, c, b, i, obj) ==
  [type |-> "Client", op |-> op, client |-> c, db_name |-> b, obj_id |-> i, obj |-> obj]
Update(op, b, i) == [type |-> "Update", op |-> op, db_name |-> b, obj_id |-> i]
Response(op, i) == [type |-> "Response", op |-> op, obj_id |-> i]

Together(p, q) == (p \in far) = (q \in far)

\* A finite set of numbers as a sequence in their order.
Ascending(S) ==
  CHOOSE q \in [1 .. Cardinality(S) -> S] : \A i, j \in DOMAIN q : i < j => q[i] < q[j]

\* A message of p for q: it arrives if q runs and is on the same side.
To(box, p, q, m) ==
  IF up[q] /\ Together(p, q) THEN [box EXCEPT ![q] = Append(@, m)] ELSE box

\* The inboxes after p has received its next message.
Received(p) == [inbox EXCEPT ![p] = Tail(@)]
Receives(p, type) == up[p] /\ inbox[p] # <<>> /\ Head(inbox[p]).type = type

\* Both are in the group of c and s, and see each other in it.
Both(c, s) == s \in member[c] /\ c \in joined[s] /\ Together(c, s)

\* Mutant of Leaving: the client does not leave the group of its old server.
NotLeaving(box, c, s) == box

\* Client c leaves the group of s: the server is told if it is in it.
Leaving(box, c, s) == IF Both(c, s) THEN To(box, c, s, Left(c)) ELSE box

\* Client c joins the group of s, unless it never left it.
Joining(box, c, s) ==
  IF s \in member[c] THEN box
  ELSE To(box, c, c, Membership(s, IF c \in joined[s] /\ Together(c, s) THEN 2 ELSE 1, "join"))

\* Mutant of ServerJoins: the server puts the client on its list and no more.
ListsOnly(box, s, c) == box

\* Mutant of ServerLeaves: the client is not told that the server has left.
LeavesSilently(box, s, c) == box

\* Server s joins or leaves the group of c.
ServerJoins(box, s, c) ==
  IF s \in member[c] /\ c \notin joined[s] THEN To(box, s, c, Membership(s, 2, "join")) ELSE box
ServerLeaves(box, s, c) ==
  IF Both(c, s) THEN To(box, s, c, Membership(s, 1, "gone")) ELSE box

--------------------------------------------------------------------------------
(* The commands of a user: handle_user_input *)

Command ==
  /\ commands < MaxCommands /\ commands' = commands + 1
  /\ UNCHANGED <<serverVars, joined, far, events, disturbed>>

Waits(c) == client_server_group[c] # NoServer /\ ~ client_connected[c]

\* The user asks for a connection before the last one is made, or comes back to
\* a server that has not handled the leave yet.
Hasty(c, s) == Waits(c) \/ Left(c) \in ToSet(inbox[s])

\* Mutant of ReInit: the board of the last connection is kept.
ReInitConnection(c) ==
  /\ objects' = [objects EXCEPT ![c] = {}]
  /\ obj_num' = [obj_num EXCEPT ![c] = 0]
  /\ client_connected' = [client_connected EXCEPT ![c] = FALSE]
  /\ wiped' = [wiped EXCEPT ![c] = FALSE]
  /\ UNCHANGED curr_db

\* re_init: the connection, the board and the list are forgotten.
ReInit(c) ==
  /\ curr_db' = [curr_db EXCEPT ![c] = NoBoard]
  /\ objects' = [objects EXCEPT ![c] = {}]
  /\ obj_num' = [obj_num EXCEPT ![c] = 0]
  /\ client_connected' = [client_connected EXCEPT ![c] = FALSE]
  /\ wiped' = [wiped EXCEPT ![c] = FALSE]

\* c: only a client that is connected leaves its old group and starts afresh.
Connect(c, s) ==
  /\ up[c] /\ Command
  /\ ~ (client_connected[c] /\ cs_index[c] = s)
  /\ LET old == client_server_group[c]
         box == IF client_connected[c] THEN Leaving(inbox, c, old) ELSE inbox
     IN /\ IF client_connected[c]
             THEN ReInit(c) /\ member' = [member EXCEPT ![c] = (@ \ {old}) \cup {s}]
             ELSE /\ UNCHANGED <<client_connected, curr_db, screenVars>>
                  /\ member' = [member EXCEPT ![c] = @ \cup {s}]
        /\ inbox' = To(Joining(box, c, s), c, s, Request("c", c, NoBoard, 0, NoBoard))
  /\ cs_index' = [cs_index EXCEPT ![c] = s]
  /\ client_server_group' = [client_server_group EXCEPT ![c] = s]
  /\ hasty' = [hasty EXCEPT ![c] = @ \/ Hasty(c, s)]
  /\ switched' = [switched EXCEPT ![c] = IF client_connected[c] THEN @ \cup {"server"} ELSE @]
  /\ UNCHANGED <<up, lost>>

\* j: the name of the old board goes with the request.
Join(c, b) ==
  /\ up[c] /\ Command
  /\ client_connected[c] /\ curr_db[c] # b
  /\ objects' = [objects EXCEPT ![c] = {}]
  /\ obj_num' = [obj_num EXCEPT ![c] = 0]
  /\ wiped' = [wiped EXCEPT ![c] = FALSE]
  /\ inbox' = To(inbox, c, cs_index[c], Request("j", c, b, 0, curr_db[c]))
  /\ curr_db' = [curr_db EXCEPT ![c] = b]
  /\ switched' = [switched EXCEPT ![c] = IF curr_db[c] # NoBoard THEN @ \cup {"board"} ELSE @]
  /\ UNCHANGED <<up, cs_index, client_server_group, client_connected, hasty, lost, member>>

\* j with the name of the present board, or without a name: the list is cleared
\* before this is noticed, and the number of lines stays.
JoinRefused(c) ==
  /\ up[c] /\ Command
  /\ client_connected[c]
  /\ objects' = [objects EXCEPT ![c] = {}]
  /\ wiped' = [wiped EXCEPT ![c] = TRUE]
  /\ UNCHANGED <<up, sessionVars, obj_num, historyVars, member, inbox>>

\* a: append_obj.
Post(c) ==
  /\ up[c] /\ Command
  /\ client_connected[c] /\ curr_db[c] # NoBoard
  /\ inbox' = To(inbox, c, cs_index[c], Request("a", c, curr_db[c], 0, NoBoard))
  /\ UNCHANGED <<up, clientVars, member>>

\* search_obj: the n-th object, counting on from the first after the last.
NthObject(keys, n) == Ascending(keys)[1 + ((n - 1) % Cardinality(keys))]

\* e and d: edit_obj and delete_obj on a line that was displayed.
Change(c, op, line) ==
  /\ up[c] /\ Command
  /\ client_connected[c] /\ curr_db[c] # NoBoard
  /\ line \in 1 .. obj_num[c] /\ objects[c] # {}
  /\ inbox' = To(inbox, c, cs_index[c],
                 Request(op, c, curr_db[c], NthObject(objects[c], line), NoBoard))
  /\ UNCHANGED <<up, clientVars, member>>

\* q: the client leaves its group and exits, which takes it out of the others.
LeavingAll(box, c) ==
  [p \in Proc |-> IF p \in Server /\ Both(c, p) /\ up[p] THEN Append(box[p], Left(c)) ELSE box[p]]
Quit(c) ==
  /\ up[c] /\ Command
  /\ up' = [up EXCEPT ![c] = FALSE]
  /\ inbox' = [LeavingAll(inbox, c) EXCEPT ![c] = <<>>]
  /\ member' = [member EXCEPT ![c] = {}]
  /\ UNCHANGED clientVars

\* v: get_view.
AskView(c) ==
  /\ up[c] /\ Command
  /\ client_connected[c]
  /\ inbox' = To(inbox, c, cs_index[c], Request("v", c, NoBoard, 0, NoBoard))
  /\ UNCHANGED <<up, clientVars, member>>

UserCommand(c) ==
  \/ \E s \in Server : Connect(c, s)
  \/ \E b \in Board : Join(c, b)
  \/ JoinRefused(c) \/ Post(c) \/ AskView(c) \/ Quit(c)
  \/ \E op \in {"e", "d"}, line \in 1 .. obj_num[c] : Change(c, op, line)

--------------------------------------------------------------------------------
(* Messages to a client: Read_message *)

\* insert, edit and del: an object is looked up by its key, its board is not.
AfterResponse(keys, m) ==
  CASE m.op = "a" -> keys \cup {m.obj_id}
    [] m.op = "d" -> keys \ {m.obj_id}
    [] m.op \in {"e", "v"} -> keys

\* Mutant of Displayed: the number of the next line is kept.
NextLine(c, keys) == [obj_num EXCEPT ![c] = Cardinality(keys) + 1]

\* Mutant of Displayed: lines are numbered from 0.
FromZero(c, keys) == [obj_num EXCEPT ![c] = Cardinality(keys) - 1]

\* display_board: what is displayed is numbered.
Displayed(c, keys) == [obj_num EXCEPT ![c] = Cardinality(keys)]

RecvResponse(c) ==
  /\ Receives(c, "Response")
  /\ inbox' = Received(c)
  /\ objects' = [objects EXCEPT ![c] = AfterResponse(@, Head(inbox[c]))]
  /\ obj_num' = Displayed(c, AfterResponse(objects[c], Head(inbox[c])))
  /\ UNCHANGED <<up, sessionVars, wiped, historyVars, serverVars, netVars, boundVars>>

\* Mutant of IsConnection: two members of any group are a connection.
TwoMembers(c, m) == m.members = 2

\* Mutant of IsConnection: the client alone in its group is a connection.
OwnGroup(c, m) == m.group = client_server_group[c]

\* A membership of any group but its own counts as "server is not available".
IsConnection(c, m) == m.group = client_server_group[c] /\ m.members = 2

RecvMembership(c) ==
  /\ Receives(c, "Membership")
  /\ LET m == Head(inbox[c]) IN
       IF m.cause = "gone" /\ m.group = client_server_group[c]
         THEN /\ inbox' = Leaving(Received(c), c, m.group)
              /\ member' = [member EXCEPT ![c] = @ \ {m.group}]
              /\ ReInit(c)
              /\ client_server_group' = [client_server_group EXCEPT ![c] = NoServer]
         ELSE /\ inbox' = Received(c)
              /\ client_connected' = [client_connected EXCEPT ![c] = IsConnection(c, m)]
              /\ obj_num' = Displayed(c, objects[c])
              /\ UNCHANGED <<member, client_server_group, curr_db, objects, wiped>>
  /\ UNCHANGED <<up, cs_index, historyVars, serverVars, joined, far, boundVars>>

ClientStep(c) == RecvResponse(c) \/ RecvMembership(c)

--------------------------------------------------------------------------------
(* The lists of a server *)

\* search_db.
Nodes(s, b) == {i \in DOMAIN db_list[s] : db_list[s][i].db_name = b}
JoinedTo(s, b) == UNION {ToSet(db_list[s][i].clients) : i \in Nodes(s, b)}

\* find_db_client: the boards on whose list the client is.
NodesWith(s, c) == {i \in DOMAIN db_list[s] : c \in ToSet(db_list[s][i].clients)}

\* Mutant of WithNode: the node of a new board is not put on the list.
KnownNodes(list, b) == list

\* The list of boards with the board, then with a client on it or off it.
WithNode(list, b) ==
  IF \E i \in DOMAIN list : list[i].db_name = b THEN list
  ELSE Append(list, [db_name |-> b, clients |-> <<>>])
WithClient(list, b, c) ==
  [i \in DOMAIN list |-> IF list[i].db_name = b
                           THEN [list[i] EXCEPT !.clients = Append(@, c)] ELSE list[i]]

\* Mutant of WithoutClient: a switch leaves the client on its old board too.
StillOn(list, b, c) == list

WithoutClient(list, b, c) ==
  [i \in DOMAIN list |-> IF list[i].db_name = b
                           THEN [list[i] EXCEPT !.clients = RemoveFirst(@, c)] ELSE list[i]]

\* serve_clients: a response to the clients of a board.
Serve(box, s, u) ==
  [p \in Proc |-> IF p \in JoinedTo(s, u.db_name) /\ up[p] /\ Together(s, p)
                    THEN Append(box[p], Response(u.op, u.obj_id)) ELSE box[p]]

\* send_dboard: the live objects of a board to the client that joined it.
OnBoard(s, b) == {k \in DOMAIN file[s] : file[s][k].db_name = b /\ file[s][k].status}

\* Mutant of Dboard: the first record of the file is skipped.
DboardTail(s, b) ==
  LET keys == Ascending(OnBoard(s, b)) IN
    [i \in 1 .. Len(keys) - 1 |-> Response("a", keys[i + 1])]

Dboard(s, b) ==
  LET keys == Ascending(OnBoard(s, b)) IN [i \in DOMAIN keys |-> Response("a", keys[i])]
SendDboard(box, s, c, b) ==
  IF up[c] /\ Together(s, c) THEN [box EXCEPT ![c] = @ \o Dboard(s, b)] ELSE box

--------------------------------------------------------------------------------
(* Requests at a server: handle_client_req *)

Exit(s) == up' = [up EXCEPT ![s] = FALSE]

\* c: join_group and put_on_client_list.
PutOnClientList(s, c, box) ==
  /\ inbox' = ServerJoins(box, s, c)
  /\ joined' = [joined EXCEPT ![s] = @ \cup {c}]
  /\ client_list' = [client_list EXCEPT ![s] = Append(@, c)]
  /\ UNCHANGED <<up, db_list, file>>

\* join_db ends the process when the client is not where its request says.
JoinFails(s, r) ==
  IF r.obj # NoBoard THEN r.client \notin JoinedTo(s, r.obj)
  ELSE r.client \notin ToSet(client_list[s])

JoinDb(s, r, box) ==
  IF JoinFails(s, r)
    THEN Exit(s) /\ inbox' = box /\ UNCHANGED <<client_list, db_list, joined, file>>
    ELSE /\ IF r.obj = NoBoard
              THEN client_list' = [client_list EXCEPT ![s] = RemoveFirst(@, r.client)]
              ELSE UNCHANGED client_list
         /\ db_list' = [db_list EXCEPT ![s] =
                          WithClient(WithNode(WithoutClient(@, r.obj, r.client), r.db_name),
                                     r.db_name, r.client)]
         /\ inbox' = SendDboard(box, s, r.client, r.db_name)
         /\ UNCHANGED <<up, joined, file>>

\* update_replicas: the stamp of an update is new everywhere.
Used == UNION {DOMAIN file[s] : s \in Server}
NewKey == 1 + Max(Used \cup {0})
\* search_obj, in the file of the board; a deleted object is not deleted again.
Found(records, u) ==
  u.obj_id \in DOMAIN records /\ records[u.obj_id].db_name = u.db_name

\* apply_update.
Applied(records, u) ==
  CASE u.op = "a" -> [k \in DOMAIN records \cup {u.obj_id} |->
                        IF k = u.obj_id THEN [db_name |-> u.db_name, status |-> TRUE]
                                        ELSE records[k]]
    [] u.op = "d" /\ Found(records, u) -> [records EXCEPT ![u.obj_id].status = FALSE]
    [] OTHER -> records

\* The own update comes back to the server, which then serves its clients.
UpdateReplicas(s, r, box) ==
  LET u == Update(r.op, r.db_name, IF r.op = "a" THEN NewKey ELSE r.obj_id)
  IN /\ file' = [file EXCEPT ![s] = Applied(@, u)]
     /\ inbox' = [box EXCEPT ![s] = Append(@, u)]
     /\ UNCHANGED <<up, joined, client_list, db_list>>

\* v: send_view, to the client that asked.
SendView(s, c, box) ==
  /\ inbox' = To(box, s, c, Response("v", 0))
  /\ UNCHANGED <<up, joined, client_list, db_list, file>>

HandleClientReq(s, r, box) ==
  CASE r.op = "c" -> PutOnClientList(s, r.client, box)
    [] r.op = "j" -> JoinDb(s, r, box)
    [] r.op = "v" -> SendView(s, r.client, box)
    [] OTHER -> UpdateReplicas(s, r, box)

\* A request that comes during a synchronisation is buffered, and handled too.
RecvRequest(s) ==
  /\ Receives(s, "Client") /\ pc[s] = "idle"
  /\ queue' = IF syncOn[s] THEN [queue EXCEPT ![s] = Append(@, Head(inbox[s]))] ELSE queue
  /\ HandleClientReq(s, Head(inbox[s]), Received(s))
  /\ UNCHANGED <<clientVars, syncOn, pc, member, far, boundVars>>

\* The own update: dropped during a synchronisation.
RecvOwnUpdate(s) ==
  /\ Receives(s, "Update") /\ pc[s] = "idle"
  /\ inbox' = IF syncOn[s] THEN Received(s) ELSE Serve(Received(s), s, Head(inbox[s]))
  /\ UNCHANGED <<up, clientVars, serverVars, netVars, boundVars>>

\* remove_client: off the list of a board, else off the list of the others.  For
\* a client on no list a null pointer is followed.
RecvLeave(s) ==
  /\ Receives(s, "Left") /\ pc[s] = "idle"
  /\ LET c == Head(inbox[s]).client IN
       IF NodesWith(s, c) = {} /\ c \notin ToSet(client_list[s])
         THEN Exit(s) /\ inbox' = Received(s) /\ UNCHANGED <<client_list, db_list, joined>>
         ELSE /\ IF NodesWith(s, c) # {}
                   THEN /\ db_list' = [db_list EXCEPT ![s] =
                                         WithoutClient(@, @[Min(NodesWith(s, c))].db_name, c)]
                        /\ UNCHANGED client_list
                   ELSE /\ client_list' = [client_list EXCEPT ![s] = RemoveFirst(@, c)]
                        /\ UNCHANGED db_list
              /\ inbox' = ServerLeaves(Received(s), s, c)
              /\ joined' = [joined EXCEPT ![s] = @ \ {c}]
              /\ UNCHANGED up
  /\ UNCHANGED <<clientVars, syncVars, file, member, far, boundVars>>

\* One turn of the replay of the buffered requests.
Drain(s) ==
  /\ up[s] /\ pc[s] = "draining"
  /\ queue' = [queue EXCEPT ![s] = Tail(@)]
  /\ pc' = [pc EXCEPT ![s] = IF Len(queue[s]) = 1 THEN "idle" ELSE "draining"]
  /\ HandleClientReq(s, Head(queue[s]), inbox)
  /\ UNCHANGED <<clientVars, syncOn, member, far, boundVars>>

ServerStep(s) == RecvRequest(s) \/ RecvOwnUpdate(s) \/ RecvLeave(s) \/ Drain(s)

--------------------------------------------------------------------------------
(* What happens to a server from outside *)

\* An update of another server is applied and served in one handler.
Elsewhere(s) ==
  UNION {{Update("a", file[t][k].db_name, k) : k \in DOMAIN file[t] \ DOMAIN file[s]} :
           t \in Server}
\* Others have seen an object of this server once its creation was delivered.
Delivered(s) ==
  {k \in DOMAIN file[s] :
     \A i \in DOMAIN inbox[s] : inbox[s][i].type = "Update" => inbox[s][i].obj_id # k}
NewsFor(s) ==
  {Update("a", b, NewKey) : b \in Board} \cup Elsewhere(s)
    \cup {Update(op, file[s][k].db_name, k) : op \in {"e", "d"}, k \in Delivered(s)}

Happens(kinds) ==
  /\ events < MaxEvents /\ events' = events + 1
  /\ disturbed' = disturbed \cup kinds
  /\ UNCHANGED commands

News(s, u) ==
  /\ up[s] /\ pc[s] = "idle"
  /\ Happens({})
  /\ file' = [file EXCEPT ![s] = Applied(@, u)]
  /\ inbox' = Serve(inbox, s, u)
  /\ UNCHANGED <<up, clientVars, syncVars, client_list, db_list, netVars>>

StartSync(s) ==
  /\ up[s] /\ pc[s] = "idle" /\ ~ syncOn[s]
  /\ Happens({"sync"})
  /\ syncOn' = [syncOn EXCEPT ![s] = TRUE]
  /\ UNCHANGED <<up, clientVars, queue, pc, client_list, db_list, file, netVars, inbox>>

EndSync(s) ==
  /\ up[s] /\ pc[s] = "idle" /\ syncOn[s]
  /\ syncOn' = [syncOn EXCEPT ![s] = FALSE]
  /\ pc' = [pc EXCEPT ![s] = IF queue[s] = <<>> THEN "idle" ELSE "draining"]
  /\ UNCHANGED <<up, clientVars, queue, client_list, db_list, file, netVars, inbox, boundVars>>

Crash(s) ==
  /\ up[s] /\ Exit(s) /\ Happens({"crash"})
  /\ UNCHANGED <<clientVars, serverVars, netVars, inbox>>

\* The daemon notices that a server has exited: it is out of all groups.
Disconnect(s) ==
  /\ ~ up[s] /\ joined[s] # {}
  /\ inbox' = [p \in Proc |->
                 IF p = s THEN <<>>
                 ELSE IF p \in joined[s] /\ Both(p, s) /\ up[p]
                   THEN Append(inbox[p], Membership(s, 1, "gone")) ELSE inbox[p]]
  /\ joined' = [joined EXCEPT ![s] = {}]
  /\ UNCHANGED <<up, clientVars, serverVars, member, far, boundVars>>

\* The daemon of a client restarts: the client connects to it again and is in no
\* group any more, but it believes what it did before.
Reconnect(c) ==
  /\ up[c] /\ member[c] # {} /\ Happens({"fault"})
  /\ member' = [member EXCEPT ![c] = {}]
  /\ inbox' = [LeavingAll(inbox, c) EXCEPT ![c] = <<>>]
  /\ obj_num' = Displayed(c, objects[c])
  /\ lost' = [lost EXCEPT ![c] = TRUE]
  /\ UNCHANGED <<up, sessionVars, objects, wiped, hasty, switched, serverVars, joined, far>>

\* The network parts or comes together: the groups change, nobody leaves.  One
\* side is called far, the one without the first server.
Partition(A) ==
  /\ A # far /\ Min(Server) \notin A /\ Happens({"fault"}) /\ far' = A
  /\ \A s \in Server : up[s] \/ joined[s] = {}
  /\ inbox' = [p \in Proc |->
       IF p \in Client /\ up[p]
         THEN LET groups == {s \in member[p] : p \in joined[s]
                                                /\ Together(p, s) # ((p \in A) = (s \in A))}
                  order == Ascending(groups)
              IN inbox[p] \o [i \in DOMAIN order |->
                   Membership(order[i], IF Together(p, order[i]) THEN 1 ELSE 2, "network")]
         ELSE inbox[p]]
  /\ UNCHANGED <<up, clientVars, serverVars, member, joined>>

--------------------------------------------------------------------------------
Next ==
  \/ \E c \in Client : UserCommand(c) \/ ClientStep(c) \/ Reconnect(c)
  \/ \E s \in Server : ServerStep(s) \/ StartSync(s) \/ EndSync(s) \/ Crash(s) \/ Disconnect(s)
  \/ \E s \in Server : \E u \in NewsFor(s) : News(s, u)
  \/ \E A \in SUBSET Proc : Partition(A)

Fairness ==
  /\ \A c \in Client : WF_vars(ClientStep(c))
  /\ \A s \in Server : WF_vars(ServerStep(s)) /\ WF_vars(Disconnect(s))

Spec == Init /\ [][Next]_vars /\ Fairness

--------------------------------------------------------------------------------
(* Properties *)

TypeOK ==
  /\ up \in [Proc -> BOOLEAN]
  /\ cs_index \in [Client -> Server \cup {NoServer}]
  /\ client_server_group \in [Client -> Server \cup {NoServer}]
  /\ client_connected \in [Client -> BOOLEAN]
  /\ curr_db \in [Client -> Board \cup {NoBoard}]
  /\ objects \in [Client -> SUBSET Nat] /\ obj_num \in [Client -> Nat]
  /\ syncOn \in [Server -> BOOLEAN] /\ pc \in [Server -> {"idle", "draining"}]
  /\ \A s \in Server :
       /\ ToSet(client_list[s]) \subseteq Client
       /\ \A i \in DOMAIN db_list[s] : db_list[s][i].db_name \in Board
       /\ IsInjective([i \in DOMAIN db_list[s] |-> db_list[s][i].db_name])
       /\ \A k \in DOMAIN file[s] : file[s][k].db_name \in Board
       /\ pc[s] = "draining" => queue[s] # <<>> /\ ~ syncOn[s]
  /\ member \in [Client -> SUBSET Server] /\ joined \in [Server -> SUBSET Client]
  /\ far \subseteq Proc

\* handleclients.c, remove_client, takes the entry of the client that left for
\* granted.  It is there: however connects, joins, leaves and replayed requests
\* follow one another, each leave finds an entry that a connect made.  Only a
\* connect that is lost in a partition leaves none.
RemoveFindsClient ==
  "fault" \notin disturbed =>
    \A s \in Server :
      Receives(s, "Left") /\ pc[s] = "idle" =>
        LET c == Head(inbox[s]).client IN NodesWith(s, c) # {} \/ c \in ToSet(client_list[s])

\* e and d take a line number, and search_obj counts on round the ring when it
\* runs out of objects.  The number that is tested, obj_num, is the number of
\* objects on the list, whatever was inserted, deleted or cleared since.
LineNamesObject ==
  \A c \in Client :
    up[c] /\ objects[c] # {} => obj_num[c] = Cardinality(objects[c])

\* There were no faults but exits of servers, and no synchronisation.
ExitsOnly == disturbed \subseteq {"crash"}
Steady == disturbed = {} /\ \A s \in Server : up[s]

\* join_db ends the server when the client is not on the list its request says.
\* A user who waits for a connection before the next command never does this to a
\* server, however often the client changes boards and servers, and whatever the
\* other clients do.
JoinFindsClient ==
  ExitsOnly =>
    \A s \in Server :
      Receives(s, "Client") /\ Head(inbox[s]).op = "j" /\ ~ hasty[Head(inbox[s]).client]
        => ~ JoinFails(s, Head(inbox[s]))

\* Read_message takes the last membership for the state of the connection: a
\* client that has read all its messages and believes itself connected is in a
\* group with its server, through crashes and partitions.  A client that lost
\* its daemon is not: connecting again does not touch client_connected.
ConnectedIsReal ==
  \A c \in Client :
    up[c] /\ inbox[c] = <<>> /\ client_connected[c] /\ ~ lost[c]
      => Both(c, client_server_group[c])

Quiet(c) ==
  /\ up[c] /\ inbox[c] = <<>>
  /\ \A s \in Server : inbox[s] = <<>> /\ pc[s] = "idle"

\* When all is read, the client lists every live object of its board, whether
\* send_dboard, its own server or another one told it, and whatever the clients of
\* the board add and delete.  On its first board it lists nothing else.  After a
\* switch it may: a late response is inserted without a look at its board.  With a
\* client that came from another server this fails: it may have an object on its
\* list that its server does not know yet, and delete it too early.
NobodyMoved == \A c \in Client : ~ hasty[c] /\ "server" \notin switched[c]
ShowsItsBoard ==
  Steady /\ NobodyMoved =>
    \A c \in Client :
      Quiet(c) /\ client_connected[c] /\ curr_db[c] # NoBoard /\ ~ wiped[c] =>
        LET s == client_server_group[c] IN
          /\ OnBoard(s, curr_db[c]) \subseteq objects[c]
          /\ switched[c] = {} => objects[c] = OnBoard(s, curr_db[c])

\* When all is read, the servers and the client agree on where it is: on the list
\* of the board it joined at the server it is connected to, and on no other.
ListsMatch ==
  Steady =>
    \A c \in Client, s \in Server :
      Quiet(c) /\ ~ hasty[c] =>
        \A b \in Board :
          c \in JoinedTo(s, b) <=>
            client_connected[c] /\ client_server_group[c] = s /\ curr_db[c] = b

\* serve_clients copies the clients of a board into an array of ten: a client is
\* on the lists of boards at most once, so it takes more than ten clients to
\* overflow it.  Exits of servers do not change this.  A partition does: the server
\* does not hear of a leave on the far side, and keeps the client on its list.
Times(seq, c) == Cardinality({i \in DOMAIN seq : seq[i] = c})
OnBoardOnce ==
  ExitsOnly =>
    \A s \in Server, c \in Client :
      ~ hasty[c] =>
        /\ Cardinality(NodesWith(s, c)) <= 1
        /\ \A i \in DOMAIN db_list[s] : Times(db_list[s][i].clients, c) <= 1

\* A connect is answered: the client gets to be connected, or is told that it is
\* not.  A second connect before that may leave it waiting for ever: the late
\* membership of the first group clears client_connected.
ConnectResolves ==
  \A c \in Client :
    up[c] /\ Waits(c) ~> ~ (up[c] /\ Waits(c)) \/ hasty[c] \/ ~ Steady

\* A client comes to know that its server has exited.
CrashNoticed ==
  \A c \in Client, s \in Server :
    ~ up[s] ~> ~ (up[c] /\ client_connected[c] /\ client_server_group[c] = s) \/ lost[c]
================================================================================
