# A formal model of the fault-tolerant discussion board

The repository is a replicated discussion board: five servers each keep every
board in files, clients connect to one server each, and servers and clients talk
through the Spread group-communication toolkit. A post, edit or delete at one
server becomes an update record that all servers of its network component apply
at once and that the servers of other components get when the partition heals.

This directory holds the TLA+ modules that model the replication, the crash and
restart of a server, the sessions of the clients and the linked lists of both
programs, the TLC configurations that check them on small instances, and proofs
of the central invariants for all instances.

## 1. Inventory

### Components

| Component | Code | State | Operations |
|---|---|---|---|
| Server loop and dispatch | `server/server.c`, `server/group_comm.c` | mailbox, server index | connect, join groups, `read_message` |
| Replication | `server/replication.c` | `s_mdata` (Lamport clock `lts`, `update_seq`, vector `server_lts`/`server_updates`), the log file, one file per board | `init_server`, `get_db`, `update_replicas`, `apply_update` with `apply_create`/`apply_edit`/`apply_delete`, `send_response` |
| Files | `server/file.c` | log and board files | `append`, `update`, `search_log`, `search_obj` |
| Synchronisation | `server/sync.c` | `syncOn`, `vector_rcvd`, `syncEnd_rcvd`, `num_memb`, the matrix `summary`, `server_view`, the buffered requests | `sync`, `process_vector`, `find_max_min`, `find_my_job`, `send_updates`, `send_server_updates`, `process_syncEnd` |
| Client requests | `server/handleclients.c` | lists of connected clients and of the clients of each board | `handle_client_req`, `join_db`, `put_on_client_list`, `serve_clients`, `send_dboard`, `send_view`, `remove_client` |
| Request queue, linked list | `server/queue.c`, `server/list.c` | rings of nodes linked both ways, with a pointer to the first | `enqueueReq`, `dequeueReq`, `add`, `rem`, `search_client`, `search_db`, `find_db_client` |
| Allocation | `server/mem_alloc.c` | none | `malloc` of the records, or exit |
| Client session | `client/client.c`, `client/server_comm.c`, `client/spread_comm.c` | connected server, current board, `client_connected`, number of lines displayed | user commands u, c, j, a, e, d, v, q; responses, memberships, loss of the daemon |
| Client object list | `client/object_list.c` | sorted list of the objects shown | insert, edit, delete, display |
| Spread | external (`include/sp.h`, `libspread-core.a`) | groups and their order of messages | `SP_multicast`, `SP_receive`, memberships |

### How the parts interact

A server is one thread: `read_message` takes one message from `SP_receive`,
dispatches on its type and handles it to the end. There are no locks and no
threads. What makes the system hard is that five such loops run at once and that
two handlers *multicast in a loop* (`send_updates`, and the replay of buffered
requests in `process_syncEnd`), so that the messages of other servers come between
theirs.

* **A client request** (`a`, `e`, `d`) goes to `handle_client_req`, becomes an
  update in `update_replicas` (clock and number advanced), is applied locally by
  `apply_update` and then multicast to the replication group, own server
  included. When the own update comes back it is not applied again but makes the
  server tell its clients. A `j` request creates the board with `get_db` if
  it is new.
* **A membership message** of the replication group with more than one member
  starts `sync`: `syncOn` is set, the counters are cleared, a matrix is allocated
  and the server multicasts its vector.
* **Vectors** are collected by `process_vector`. With as many as there are members,
  the server elects, for each originator's column, who resends what is missing
  (each server works this out for itself and nothing is exchanged to agree),
  sends its share as `SyncUpdate` messages and then one `SyncEnd`.
* **SyncEnds** are counted by `process_syncEnd`. The last one clears `syncOn` and
  replays the requests buffered meanwhile.
* **A client** has, for each server, a Spread group of two. To connect (`c`) it joins
  the group and asks the server to join it too; a membership of two is the connection.
  Its requests go to the group of the server, the responses to its private group.
  When it leaves or the server exits, the other of the two is told by a membership.
* **The lists of a server.** A client is on the list of connected clients, or on the
  list of the board it joined. `join_db` moves its node from one to the other by what
  the *request* says of the old place, and `serve_clients` sends each object update
  to the clients on the list of the board.
* **At start** a server reads the head record of its log (`init_server`) and trusts it.
* While `syncOn` is set, ordinary `Update` messages are dropped (the vectors are
  relied on to get them back).

### What makes each part correct

* *Election of senders.* A sender has what it is elected to send, and everything
  a member lacks is sent by someone.
* *Clock and numbers.* An update is identified by originator and timestamp,
  and numbers and timestamps agree on the order. The log lookup and the duplicate
  test both rest on this.
* *Log and vector.* A vector claims only what the log can give back. The clock
  covers all that was logged. The originator always has its own updates.
* *Synchronisation.* It ends; afterwards the members have the same updates and the
  same objects, deleted on all or on none; no update is taken up out of its originator's order.
* *Requests.* One request becomes one update, and no buffered request is lost.
* *Clients.* The clients of a server are told of each object update it has. What a
  client believes of its connection is so; what it shows is what is on its board, and a
  line number names an object it shows.
* *Lists.* A node is on one list, and the list of a client that has connected once is the
  one its requests name; the rings stay rings.
* *Crashes.* What the head record claims is in the log; what is lost is what the server
  was doing when it died.

### Hard behaviours

Partitions and merges at any moment, also in the middle of a synchronisation;
requests during a synchronisation; servers that exit in a handler; messages of
an older view read in a newer one; equal clocks in two components; a matrix that
is only partly initialised; a crash between two of the writes of one update;
memberships, responses and leaves that arrive after the client has gone on to
another board or server; a request that is replayed after it was handled. The full
list is under `hazards` in `PROJECT.json`, each entry with its line in the code.

## 2. Modules

| Module | What it is |
|---|---|
| `SyncJob` | the election of senders as operators on the matrix of vectors (`find_max_min`, `find_my_job`, `send_updates`) |
| `MCSyncJob` | enumerates all matrices with small entries, for TLC |
| `SyncJobProofs` | proofs about the election for every matrix |
| `ElectionProofs` | the election whatever the order in which the vectors arrive |
| `Replication` | the servers, their files, the requests, the synchronisation and Spread as they use it |
| `ReplicationProofs` | types, the keys of updates, clock and vector against the log, and the buffer of requests, for every instance |
| `OriginOrder` | abstract specification: each originator's updates arrive in order, without gap and without repetition |
| `CalmReplication` | `Replication` under the conditions the design relies on; convergence, liveness, the refinement of `OriginOrder` |
| `CalmInvariant` | the inductive invariant of `CalmReplication` |
| `CalmProofs` | the phases of a synchronisation and what may wait in an inbox in each; the rows of the matrix under arbitrary network changes; logs, vectors, boards and clients of the calm replication, and that it implements `OriginOrder`, for every instance |
| `Claims` | what comments and the design document say and the code does not do, each with one condition lifted |
| `Recovery` | `CalmReplication` with the head record as a file of its own, a crash between any two writes or messages, and the restart |
| `RecoveryProofs` | what a crash at any point leaves in the files, and that one between two messages loses nothing, for every instance |
| `ClientSession` | the clients, and of the servers the lists, the boards and the buffer of requests, with the groups between them |
| `SessionInvariant` | the inductive invariant of `ClientSession` |
| `ConnectionProofs` | the types of the sessions and the connections of the clients, for every instance |
| `SessionProofs` | the places of the clients on the lists of the servers, what a client shows, and its line numbers, for every instance |
| `Rings` | the linked lists, pointer by pointer |
| `Lists` | abstract specification of the lists; `Rings` implements it |
| `RingProofs` | that the pointers close every ring, share no node and implement `Lists`, for every set of nodes |
| `MCReplication`, `MCCalm`, `MCClaims`, `MCRecovery`, `MCSession`, `MCRings` | the root modules for TLC |

Every module extends the one it builds on: `SyncJob` <- `Replication` <-
`CalmReplication` <- `Claims`, and `CalmReplication` <- `CalmInvariant` <- `Recovery`.
`ReplicationProofs` extends `Replication` and `SyncJobProofs`, and `CalmInvariant` with
`ReplicationProofs` <- `CalmProofs`, and `CalmProofs` with `Recovery` <-
`RecoveryProofs`. `ElectionProofs` extends `MCSyncJob`
and `SyncJobProofs`. `ClientSession` <- `SessionInvariant` <- `ConnectionProofs` <-
`SessionProofs` stand by themselves:
what the servers do among themselves comes into it as steps that may happen
(`News`, `StartSync`, `EndSync`), and what the clients do comes into `Replication` as
requests. `Rings` <- `RingProofs`, with `Lists`, justifies the sequences and sets the others use
for lists.

### Replication and the code

State: `lts`, `update_seq`, `server_lts`, `server_updates` are the fields of
`s_mdata`, `log` is the log file without its head record, `db` maps each board
that has a file to its object records. `syncOn`, `vector_rcvd`, `syncEnd_rcvd`,
`num_memb`, `summary`, `server_view` and `queue` are the globals of `sync.c`.
`pc` and `job` say where a server is in one of its two multicasting loops.
`up` is FALSE once the process has exited. `inbox[s]` is what Spread delivered
to server s and s has not read; `comp` is the network.

| Action | Code |
|---|---|
| `ClientRequest` | `handle_client_req` for `j`, `a`, `e`, `d`: buffered when `syncOn`, and handled |
| `RecvUpdate`, `RecvSyncUpdate` | the two update branches of `read_message` with `apply_update` and `send_response` |
| `RecvMembership` | the replication-group branch of `read_message`: `sync()`, or the server alone |
| `RecvVector` | `process_vector`, up to and with the computation of the server's job |
| `SendUpdate`, `SendSyncEnd` | one turn of `send_server_updates`; the `SyncEnd` after it |
| `RecvSyncEnd` | `process_syncEnd` |
| `Drain` | one turn of the replay of the buffered requests |
| `JoinExit` | the `exit` of `join_db` when a client is not where its request says |
| `Split`, `Merge`, `Disconnect` | external: what the Spread daemons report |

`ApplyUpdate` keeps the order of the code: clock, duplicate test (only while
synchronising), log, vector, then the board file. `Fatal` is the end of the
process when the board has no file: the log and the vector already have the update.
A server that dies so in `update_replicas` multicasts nothing.

### Recovery and the code

`head[s]` is the head record in the file, while `lts`, `update_seq` and the vectors are
`s_mdata` in memory. `torn` are the updates in the middle of which a server died,
`rough` says that one died, left or came back while its component synchronised.

| Action | Code |
|---|---|
| `Receive`, `Ask` | the handlers of `Replication`; an update that is logged takes the head record with it (`write_server_info`). `get_db` writes none |
| `Synchronise` | the handlers that touch no file |
| `CrashReceiving`, `CrashRequested` | the server dies in `apply_update` after the append, after the head record, or after the board file; `Reached` says what the files then hold |
| `CrashCreating` | the server dies in `get_db`, after it made the board file and before or after the append |
| `CrashBetween` | the server dies between two messages, or in a loop of `send_updates` |
| `Missed` | external: the daemon tells the others that the server has gone |
| `Restart` | `main` and `init_server`: memory is what the head record says, and the server joins a component |

### ClientSession and the code

State of a client: `cs_index`, `client_server_group`, `client_connected`, `curr_db`, the
keys of its objects and `obj_num`, the number of lines it displayed last. Of a server:
`client_list`, `db_list` (boards with their clients), the records of its boards
(`file`), `syncOn` and the buffer. `member` and `joined` are the two halves of the Spread groups,
`far` one side of a partition, and `inbox` what a process has not read. `hasty`,
`switched`, `lost`, `wiped` and `disturbed` are history that the properties refer to.

| Action | Code |
|---|---|
| `Connect`, `Join`, `JoinRefused`, `Post`, `Change`, `AskView`, `Quit` | the commands of `handle_user_input`; `ReInit` is `re_init` |
| `RecvResponse`, `RecvMembership`, `Reconnect` | `Read_message` of the client: `insert`/`edit`/`del` and `display_board`; memberships; the loss of the daemon |
| `RecvRequest`, `Drain` | `handle_client_req` and its replay: `PutOnClientList`, `JoinDb`, `UpdateReplicas`, `SendView` |
| `RecvOwnUpdate`, `News` | `serve_clients` for an own update and for one of another server |
| `RecvLeave` | the `CAUSED_BY_LEAVE` and disconnect branches with `remove_client` |
| `StartSync`, `EndSync` | `sync` and `process_syncEnd` as far as the buffer is concerned |
| `Crash`, `Disconnect`, `Partition` | external |

### Rings and the code

`head`, `next` and `prev` are the pointers. `Add` is `add`, `enqueueReq` and
`append` of the client; `Unlink` is `rem` and `del`; `Dequeue` is `dequeueReq` with its
case for two nodes; `Insert` is `insert` of the client with its order by
`obj_id` and `server_index`; `Clear` is `re_init_list`; `Switch` is `join_db`,
which takes a node off one ring and puts it on another. A node that is off every ring
keeps its old pointers, as in the code. `Steps` and `Visited` are the `do ... while` loops that
go from the head by `next` until they are at the head again.

### Abstractions

* The text of an object is the number of the request that brought it (`obj`).
  Files are sequences of records. One handler writes its files in one step.
* Spread gives a total order per component (AGREED service) with membership
  messages in the same order. Daemon errors, transitional memberships and the
  rejected messages are not modelled. A component that splits or merges holds
  no process that has exited and not yet been reported by the daemon.
* In `Replication`, `c` and `v` requests do not touch the replicas and are left out. The
  lists that decide whether a join finds its client are in `ClientSession`, so `JoinExit`
  lets any join end the process.
* In `ClientSession`, an object is its key; `NewKey` stands for the clock that makes keys
  distinct (`UpdateKeyUnique` says that it does). An update reaches a server from
  another once (`News`). A request or response between two sides of a partition is lost; the group
  of a client and a server then has one member on each side.
* In `ClientSession` the exit of `update_replicas` on a board without a file is not an action of its own: only
  after a fault does a request name such a board, and `Crash` ends a server at any moment.
* In `Recovery`, one write (append, head record, board record) is there as a whole or not at all.
* A client edits or deletes an object that some server has in a file of its board,
  whichever server the client is now connected to.
* The rows of the matrix that were not received are uninitialised memory. The model
  does not give them values: `RowsInitialised` says that no row the code reads is
  such a row. It is about the rows of the view: `find_max_min` looks at the others too, but does not
  use what it finds there.
* `malloc` failures are left out.

## 3. Runs

All runs but `rings` set `CHECK_DEADLOCK FALSE`: once requests,
commands and network changes are used up and the messages are read, nothing is
left to do.

| Run | Instance | What it shows |
|---|---|---|
| `sync_job` | 3 servers, entries 0..2, all matrices in all orders of arrival; `MinSeed = 1` so that entries lie on both sides of the start value | `ArrivedSenderHolds`, `ArrivedMissingSent` |
| `replication` | 2 servers, a board they have and one that a client creates, 2 requests (joins, posts) at one server, 3 network changes at any moment, exits | `TypeOK`, `UpdateKeyUnique`, `NumbersFollowClock`, `OriginatorHasIt`, `ClockCoversLog`, `VectorIsLogged`, `RowsInitialised`, `BufferOnlyInSync` in every behaviour |
| `calm` | 3 servers, 2 with clients, posts, edits and deletes, 3 network changes | `AgreeAtRest`, `ObjectsAgreeAtRest`, `ClientsTold`, `VectorAdvances`, `OriginOrderKept`, and `CalmInv`, from which the proofs get them |
| `liveness` | 3 servers, posts, 3 network changes | `SyncEnds`, `Converges` |
| `recovery` | 2 servers, 3 requests (joins, posts, deletions) at one, 2 network changes, 1 crash anywhere, and the restart | `HeadIsLogged`, `BoardIsLogged`, `MissingIsTorn`, `SameKeyIsTorn`, `RecoversAtRest`, `VectorSurvives`, `OrderSurvives`, and `UnbrokenInv`, from which the proofs get the first and the last |
| `session` | a client, 2 servers, 2 boards, 4 commands, 1 of: an update from elsewhere, a synchronisation, a crash, a partition, a loss of the daemon | `RemoveFindsClient`, `LineNamesObject`, `JoinFindsClient`, `ConnectedIsReal`, `ShowsItsBoard`, `ListsMatch`, `OnBoardOnce`, `ConnectResolves`, `CrashNoticed`, and `BeliefInv`, from which the proofs get the safety ones |
| `rings` | 4 nodes (two objects of each of two servers), two rings of clients, the queue and the object list, all orders of operations | `RingsClose`, `ImplementsLists`, and `RingInv`, which includes `OneRing` and from which the proofs get all of them |
| `tied_columns`, `buffered_twice`, `new_board`, `stuck_sync`, `deleted_first` | 2 or 3 servers | one counterexample each, see section 5 |

Why these bounds are enough for what is asked. Two servers suffice for every
interleaving of *one* synchronisation with another: three network changes give a
merge, a split in the middle of its synchronisation and a second merge whose
synchronisation reads the messages of the first (`replication`). Two requests are enough for two
updates of one originator, for one in each of two synchronisations, for a board that is created and
posted on, and for a request that is buffered in a synchronisation. Three servers are
needed for what one server learns from another about a third, so the convergence properties use
three: with three changes the components {1,2},{3} form, one of them splits and
the remains merge with server 3, and the missing updates of an originator that is
away are resent by someone else. In `recovery` the third request is there so that
there is an update before the one in the middle of which the server dies and one after
the restart, which may take the same key. In `session`, four commands are a
connection, a board, a second board or a post, and a change of server or a line
number; the fault falls between any two of their messages. One client is enough for
what relates it to the lists: clients meet only in the boards, and the posts
of another one are `News`. Four nodes are enough for the beginning, the
middle and the end of a ring with others beside it. `MaxRequests`, `MaxViews`, `MaxCrashes`,
`MaxCommands` and `MaxEvents` are the only bounds on the behaviours; they stand in the guards of
`ClientRequest`, `Asked`, `NetworkChange`, `Dies`, `Command` and `Happens`, and everything else is
bounded by them. `Rings` has none but its nodes.

### The calm conditions

`Replication` restricts nothing; its invariants hold whatever happens. The
stronger promises (convergence, order, liveness) hold only under conditions the
code does not enforce. `CalmReplication` names them: clients are quiet during a
synchronisation, the network does not change in one, the senders are not elected
for tied columns, no server exits. That each is needed is shown by a
violation run that lifts it: `buffered_twice`, `stuck_sync`, `tied_columns`,
`new_board`.

Even under these conditions boards may differ. `send_updates` resends column by column, so
what one server did to an object of another may arrive before the object (`deleted_first`),
and edits of several servers meet in different orders (end of section 5). So
`ObjectsAgreeAtRest` says what is left: all members have the same boards with the same objects, each
once; an object is deleted on both of two members or on neither if both logs have it before
its deletions (`MadeFirst`); and if only the server it was posted at has changed it
(`ChangedAtHome`), its record is the same on both, text and status. `RecoversAtRest` says the same over crashes.

### Where the properties of clients and crashes end

Each property says in its own premise how far it holds. Without it, TLC finds each of the
following: at the bounds of the run, or at six commands for a hasty join and at four with
two events for a lost connect. With the premises the invariants of `session` also hold there (683,228
and 5,389,675 states). The repository says nothing of these
cases, so they are no findings of section 5, but a user of the modules should know them.

* A user who does not wait for a connection (`hasty`), or returns to a server that still has
  his leave to read, can be on two lists, end a server with a join, or wait for
  ever, since the late membership of the first group clears `client_connected`.
* A connect whose request is lost in a partition leaves a client in the group and on no
  list; if the server joined the group earlier, `remove_client` follows a null pointer
  when the client leaves after the partition (`RemoveFindsClient`).
* A client that leaves while a partition is between it and the server stays on the list of its
  board and may come back to it a second time (`OnBoardOnce`).
* A client that lost its daemon connects to it again but keeps the connection it
  believed in (`ConnectedIsReal`, `CrashNoticed`).
* A synchronisation makes `handle_client_req` handle what it buffers and replay it, so a
  replayed join ends the server and a replayed connect lists the client twice
  (`JoinFindsClient`, `OnBoardOnce`).
* A response of the old board that arrives after a switch stays on the list; a refused `j`
  empties it (`ShowsItsBoard`).
* A late response of the old server leaves a client that went to another one with an object that
  this server may not know yet. If its user deletes it there, the deletion finds no record, and the
  object comes later and stays (`ShowsItsBoard`, premise `NobodyMoved`).
* A server that died while it applied an update may lack its object for good (`MissingIsTorn`)
  or give its key to another update (`SameKeyIsTorn`). After the creation of a board
  the key may be used again even if it died much later.
* A crash in the middle of a synchronisation, or a restart into one (`rough`), has the effects
  of a network that is not calm.

### Fairness

`FairCalmSpec` has weak fairness of `ServerStep(s)` for each server: `server.c`
runs `read_message` in an endless loop and Spread delivers what it accepted, so a
server that has a message, or is in a sending loop, goes on. Nothing is assumed of
clients or the network. A behaviour in which a server would have to elect
senders for tied columns is not a behaviour of `FairCalmSpec`, since
the server would have to stand still there; that case is the run `tied_columns`.

In `ClientSession`, weak fairness of `ClientStep(c)` and `ServerStep(s)` for the same
reason: both programs loop on their events. Weak fairness of `Disconnect(s)` is the Spread
daemon, which tells the members of a group of a process that exited. Nothing is
assumed of the user or of faults. `Recovery` and `Rings` state no liveness.

## 4. Proofs

`tlapm` checks all proofs: 40 theorems and 659 lemmas in 8 modules, about 23,900 obligations, none
left open.
The number of servers, clients, boards, requests, commands, network changes, crashes and faults is
arbitrary in all of them. The assumptions on the constants are
`NAssumption` (at least one server), `MinSeedAssumption`, `MaxTimestampAssumption`,
`BoardAssumption` and `WritersAssumption` (which names are boards and which servers have
clients), `ServerAssumption` (finitely many servers, and no client is one), `RingAssumption` (queue, object
list and lists of clients are different rings), `NodeAssumption` (finitely many nodes, named by
numbers other than `NULL`) and, for the bounds of
TLC, `BoundAssumption` and `CrashAssumption` (they are numbers). The theorems about `CalmSpec` have one
hypothesis more, `InitialBoards = Board`: a board that `get_db` makes is not resent (finding
`new_board`), and the first post on it ends every server that lacks it, so nothing of what the
synchronisation promises would be left. `InitialBoards` may be any set, so this says only
that no request makes a board.

### The election (`SyncJobProofs`, `ElectionProofs`)

`SenderHasWhatItSends` and `MissingUpdatesAreSent`: for every
matrix, the elected sender's own row covers what it looks up, and each update
some member lacks is in the job of a member of the view, unless an earlier
column has the same maximum. They rest on lemmas that a column has a
maximum (by well-founded induction on bounded sets of naturals) and on what `MaxLts`,
`MinLts` and `Sender` choose. `ArrivedSendersHold` and `ArrivedMissingAreSent` say the same of
the vectors as they come in, in every order.

### The replication in every behaviour (`ReplicationProofs`, `CalmProofs`)

* `TypeCorrect`: `Spec => []TypeOK`. The inductive invariant `TypeInv` adds `LoopOK`:
  a server in the replay has a request left, and a server in the sending loop has
  the records of its job in its log. Without it, `Head(queue[s])` and `LogRecord`
  could be anything.
* `KeysAreUnique`, `NumbersAgree`, `OriginatorKeepsIt`: none is inductive alone. `KeyInv` joins
  them with `WithinCounters` (the timestamp and number of each update known anywhere are within
  the counters of its originator) and `OwnEntryWithin` (a server's own entry of the vector is
  within its counters). The argument: an update is new only in `update_replicas` and
  `get_db`; there both counters move past all that the originator ever used, and the
  record goes to its log in the same step. Every other step only copies
  an update from a log to a message or from a message to a log (`NothingNew`,
  `OneNew`), and counters never fall.
* `ClockIsPast`, `VectorsAreLogged`, `BufferedOnlyInSync`: the first two
  from the fact (`LogSteps`) that clock, vector and log of a server change in three ways only:
  not at all, by `apply_update`, or by `get_db`. A vector entry moves only to an update logged in
  the same step, and logs never shrink. The third is inductive next to `TypeInv`: a request is
  buffered only while `syncOn` is set, and the step that clears it starts the replay.
* `RowsAreInitialised`: `find_max_min` reads no row that has not come in, under partitions at any
  moment. `MatrixInv`: each server in `server_view` has its row, and a vector of
  another server is read only after a membership of several, so the row goes into a matrix that
  `sync` has allocated. A server alone is in its own view
  and has no row (`RowsFilled`); the vectors of its former members all come before the membership
  that says so (`Consistent`).

### The calm replication (`CalmInvariant`, `CalmProofs`)

`CalmInv` is the reason why the synchronisation works. It has six parts, each of which needs the ones
before it; the first five are `CoreInv`, which knows nothing of clients. `CoreStateInv` and `CalmStateInv`
join them with the invariants of all behaviours. `CoreStep` says that every step of the calm replication which
makes no board keeps `CoreStateInv`, whether or not some server has exited.

* `ControlInv`, the phases. A server has a membership before it, collects vectors, sends, or waits for
  SyncEnds; the invariant says for each phase what may wait in its inbox and where the other
  members of its component then are. The vectors it has and those on their way are of
  members that have read the membership, each of them once; the SyncEnds read and on their way are as many as the members
  that have sent theirs. That is why counting to `num_memb` is enough, and why a request
  after the synchronisation cannot overtake the last resent update.
* `OrderInv`. Of each originator, a log has the updates up to the entry of the vector and no
  others (`LogIsPrefix`), and in an inbox each update comes after all that its originator
  made before it, unless the server has those (`NoGap`).
* `PromiseInv`. A vector says what its sender had when it sent it and still has; what
  some vector of a component claims, each member has, will read, or is still in the job
  of the elected sender (`Promised`). The step that needs the election theorems is the one in which
  the last vector arrives. When all have finished, no job is left, so each member has or will read
  what any of them has (`Shared`).
* `BoardInv`. A board has the objects of the creations in the log, each of them once (`BoardsMatch`), and
  shows the log (`BoardsShowLog`): an object is live until the log has a deletion behind its creation, and has the
  text of the last update before that. `LogsAscend` says that all logs have the updates of one server in
  the same order.
* `SequenceInv`. The records of an originator in a log are a beginning of those in the
  originator's own log, in ascending order.
* `Told`. Updates that clients were not told of wait as ordinary updates.

From these: `ServersAgree`, `BoardsAgree`, `ClientsAreTold`, `VectorsAdvance`, and `OriginOrderIsKept`, the
refinement of `OriginOrder` under the mapping of a log to its records of each originator
(`OfOriginator`). For the last, a log that takes up an update changes one of its lists, by appending
(`OriginatorAppends`); when the update is new it is the step `Originate` (`PostsInSequence`), otherwise
it is the next one of the originator's list and the step is `Learn` (`TakenInSequence`), because
`LogIsPrefix` and `NoGap` leave no other; every other step changes no log.

For `BoardsAgree`, that each update keeps `BoardsShowLog` is shown by the places an object has in a log
(`PlacesAppended`): a new object, a changed one and one left alone (`MadeShown`, `ChangedShown`,
`UntouchedShown`) each show the longer log. At rest two logs have the same updates in different orders. Whether an
object made first is deleted does not depend on the order; and if one server made all its updates, timestamps tell
their order in both logs (`HomeOrder`), so what a record shows follows from the set of the
updates alone (`HomeShows`, `SameRecord`).

### Crashes (`RecoveryProofs`)

`HeadsAreLogged`, `VectorsStayLogged`, `BoardsAreLogged`, `OnlyTornMissing`: for every number of
crashes, at any of their points. The invariant
is `RecoveryInv`: the types, `HeadType`, and the four properties. `HeadIsLogged` is needed
for `VectorIsLogged`, since a restart makes the vector what the head record was, and
`VectorIsLogged` for `HeadIsLogged`, since the head record is written from the vector.
`RecoverySteps` sorts all steps into five ways to change files, head record and vector
(`FileSteps`): none, an update applied or discarded, a board opened, an update in the
middle of which the server dies, a return. For the boards, `AppliedKeys` says
which keys a file has after an update (an edit or a delete changes none), and
`FilesExtended` that a log and a board that grow by the same update stay in step.
`OnlyTornRestamped` needs `StampInv`: the clock of a running server is not behind its head
record (`HeadBehind`), and the head record is not behind any update of the server but those it
died in and the creations of boards (`HeadPast`). So a clock that starts again from the head record
can only meet a stamp of these.

`UnbrokenInvariance`, `CrashesRecover`, `CrashesKeepOrder`, `CrashesKeepVectors`: as long as no server died in
`apply_update`, in `get_db` or while its component synchronised (`Unbroken`), `CoreInv` holds over every
crash, departure and restart. The argument: a server that dies between two messages is to the others a
server that reads nothing more; one that leaves, or comes back, is a
partition of a settled component or a merge into one. Each of the three steps is `Repartitioned(A)`: the
servers of a set `A` of whole components have only updates before them and a
membership behind those, or are gone; the inbox of the one that died is empty, and the others notice nothing. So
are `Split` and `Merge`, and one proof that `Repartitioned(A)` keeps the five parts of `CoreInv`
serves all five steps (`PartitionControl`, `PartitionOrder`, `PartitionPromise`, `PartitionBoard`).
What remains is that a restart changes no vector: `HeadIsMemory`, which needs that a discarded update moves
no clock, since it is in the log already (`DiscardedIsLogged`), and so needs `LogIsPrefix`. From the
invariant, `CrashesRecover` is `RecoversAtRest`; `CrashesKeepOrder` is `OrderSurvives`, that a crash is a
stutter of `OriginOrder`; and `CrashesKeepVectors` is `VectorSurvives` as far as `Unbroken` goes.
These theorems need no `InitialBoards = Board`; `Unbroken` has `NoBoardCreated` in its place.

### The sessions (`SessionInvariant`, `ConnectionProofs`, `SessionProofs`)

What a client believes and what its servers have on their lists differ by the messages on
their way, so the invariant `BeliefInv` is about the inboxes. It has a part for each condition under which the
properties hold.

* `ConnectionInv` (always): the last membership of a group that waits for a client says no more than is
  true, and if none waits the client's belief is true. From it `ConnectionsAreReal`.
* `LeaveInv` (no partition and no lost daemon): a walk through the inbox of a server, from
  where it has the client on its lists through each connect, join and leave that waits, finds the client on some list at
  each leave. From it `LeavesFindClients`, for hasty users, crashes and replayed requests as well.
* `PlaceInv` (exits at most, and a user who waits): on that walk each message fits where the one
  before it leaves the client, the client ends up where it believes it is, and it is on one list at any time.
  From it `JoinsFindClients` and `OncePerServer`. A step of the client adds to the end of the walk; a step of the server
  takes its first message and changes the lists as that message says.
* `InformedInv` (nothing has failed): a client that waits for its server is told once, and last, that the
  server has joined. With `PlaceInv` it gives `ListsAgree`.
* `ShownInv` (nothing has failed, and no client went to another server): a walk through the inbox of the
  *client*. The last message about an object decides whether it will be on the list (`Listed`). For a client that is on the
  list of its board, that is right for every object about which no update waits for the server
  (`NothingDue`): `update_replicas` changes the file first and serves the clients only when the update is back, so until
  then the object is open, and serving it settles it. A client that joins meanwhile gets the file (`Dboard`).
  Three things are needed for this to be inductive: an own update that waits is in
  the file or a later deletion of its object waits too (`InFlight`); a client knows only objects that its server has,
  or it could have one deleted that is still to come (`Attached`); and on its first board it comes with an empty list
  (`OnFirstBoard`). With `PlaceInv` it gives `BoardsAreShown`.

`TypeIsOK` is inductive as `TypeInv`, which also says that a server has one node for each board.
`LinesNameObjects` rests on `ScreenInv`, which drops the condition that the client
runs; a list is either cleared or numbered anew whenever it changes.

### The rings (`RingProofs`)

What is on a ring is found by following its pointers (`Visited`), so the proof first says what the
pointers of a ring with the nodes of a sequence are (`Closes`), and that going round such a ring gives
that sequence (`VisitedIs`: by the least step at which the loop would be elsewhere, and because there
are no more steps to go than nodes). Then each operation is one on sequences: `add` appends
(`AddedCloses`), `rem` and `del` take out an element (`RemovedCloses`), `dequeueReq` does what `del` of
the head would, its case for two nodes included (`DequeuedIs`), `insert` puts the node at its place
(`PutCloses`, `InsertedCloses`, with the order of object and server as that of numbers,
`PassesIsOrder`), and `re_init_list` leaves nothing (`ClearedCloses`). An operation touches the
pointers of its ring and of a free node only (`OnlyAt`), so the other rings stay as they are
(`OneRingChanges`).

`RingInv` is inductive: every ring closes, no two share a node, and the object list is in
order; `insert` stops at the first larger key and would put a node at a wrong place on a list that
is not. From it `RingsAlwaysClose`, `NodesAreOnOneRing`, and `RingsAreLists`, the refinement of `Lists`,
for any number of nodes and of rings of clients.

### Only model-checked

* `SyncEnds`, `Converges`, `ConnectResolves`, `CrashNoticed`: liveness under fairness is outside
  what the prover does.
* `VectorSurvives` after a crash in the middle of an update or after a new board (without these it is proved): the
  log then has an update that the vector does not claim, so `LogIsPrefix` is lost, and with it the argument
  of `CoreInv` why no older update comes after a later one.

## 5. Findings

Each has a run whose counterexample shows it.

1. `tied_columns`: `send_updates` skips a column whose maximum equals that of an
   earlier column (`sync.c:157`), whoever sends that one. Two components that
   each made one post do not get each other's posts.
2. `buffered_twice`: a request that comes while `syncOn` is set is buffered and handled
   at once (`handleclients.c:27`), then handled again by the replay.
3. `new_board`: `get_db` logs the creation of a board but does not advance the
   vector (`replication.c:110`), so it is not resent. The first post on the board
   ends the process of a server without the file.
4. `stuck_sync`: a server left alone in the middle of a synchronisation keeps
   `syncOn` set (`group_comm.c:235`) and buffers its requests for good.
5. `deleted_first`: `send_updates` resends the missing updates originator by originator (`sync.c:152`).
   Server 2 posts, server 1 deletes the object, both merge with server 3: it
   gets the deletion first, finds nothing to delete, and shows the object for good.
Three more cases follow from the code and are behaviours of the modules, but no run is
kept for them:

* `update_replicas` applies the own update before Spread orders it (`replication.c:193`), while
  `replication.h:9` says updates are applied only when received from Spread. Two servers that edit
  one object at the same time apply the two edits in different orders, and their texts differ for good.
* SyncEnds are counted whatever view they are of. One of an older view ends a newer
  synchronisation, and a SyncUpdate read after that is applied without the test for
  duplicates (`group_comm.c:143`, `replication.c:251`), even by its originator: under
  `RestlessSpec` a log has an update twice.
* An update that arrives in a synchronisation is dropped (`group_comm.c:125`). A server that
  handles a request at once in a synchronisation (finding 2) multicasts one; its next update
  moves the vectors past it, and it is lost to the others: under `EagerSpec`, `AgreeAtRest` fails.

## 6. Plan

Done: the election, the replication, the calm conditions with the refinement of
`OriginOrder`, crash and restart, the sessions of the clients, the linked lists, and the
proofs of section 4. What is left, in order:

1. Proofs: the order of updates in the inboxes after a crash in the middle of an update, for the rest
   of `VectorSurvives`.
2. Composition of `Replication` and `ClientSession`: what a client sees against what
   its server has, with the synchronisation itself in place of `StartSync` and `EndSync`.
3. Two clients in `session`, where one's posts are the other's news.

## 7. Not modelled

* `mem_alloc.c` and the other failures of `malloc`: the process exits, as it may anyway.
* Error returns of Spread and of the file functions, transitional memberships, rejected
  messages, start-up arguments: the code prints or exits.
* Terminal input and output, the texts of posts and of views, the layout of the files
  (positions and lengths of records).
* The commands that are refused with a message and change nothing.
* A crash in the middle of one write.
* The client pseudocode, the helper scripts and the design document.
