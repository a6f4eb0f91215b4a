# Verification of code.study.example

TLA+ models of the parts of this repository that keep state, talk over a
network or run in several threads, with TLC configurations that check them on
small instances and TLAPS proofs that hold for every value of the constants.

The repository is a collection of study projects. Its largest program is the
SMB2/3 client library OpenSmbC (`src/cpp/samba/client/OpenSmbC`); the other
parts with control logic of their own are a signal and slot library for
several threads (`cpp/sigslot/palacaze`), a JSON-RPC library with a socket
connector that both ends call through (`cpp/jsonrpc/json-rpc-cxx`) and a task
thread (`cpp/ex/task_thread`). These four are modelled. Paths below
are relative to `src/`; `OpenSmbC/...` stands for
`cpp/samba/client/OpenSmbC/...`.

## 1. Inventory

### OpenSmbC

An application creates an `Smb2Context`, mounts a share
(`smb2_connect_share`), calls synchronous functions on files and directories,
and disconnects. Everything runs in the caller's thread.

| Component | State | Operations | What is hard |
|---|---|---|---|
| Request engine: `Smb2Context.cpp`, `Smb2Socket.cpp`, `Smb2Pdu.cpp` | the socket, `credits`, `message_id`, session and tree, negotiated capabilities, `outqueue` (to be sent, ordered by id), `waitqueue` (awaiting a response), `isComplete` | queue a PDU (takes message ids), send (takes credits), receive (grants credits, finds the PDU, runs its handler), the poll loop `sendAndReceive`, `close` | ids and credits are taken at different times; a PDU may outlive the call that made it; the loop has no time limit; a context can be closed and connected again |
| Receive path: `Smb2Socket::readIovec`, `receivePdus` | position in the stream, phase, buffer | read a part, compute the size of the next | nonblocking socket, partial reads, compound responses with padding, unsigned arithmetic |
| Request builders: `Smb2RequestBuilder.cpp` | none of their own | build a message (or a chain CREATE, X, CLOSE) with its credit charge and queue it | clamping a read or write to the credits |
| Reply handlers: `Smb2Negotiate.cpp` ... `Smb2Write.cpp` | the `AppData` of the call | store the answer, queue the next request, close the context, end the call | connect is a chain of handlers; each path must end the call exactly once |
| Application interface: `Smb2Api.cpp` | heap objects handed to the application (`smb2fh`, `smb2dir`, info buffers), files open at the server | about fifty functions | functions made of several exchanges, each of which can be refused or fail; who deletes what |
| Signing: `Smb2Signing.cpp` | session key | sign a request, or fail | a request that cannot be signed has already taken its message id |
| DCE/RPC: `DceRpc.cpp`, `smb2_list_shares`, `smb2_lookUpSid` | growing buffers | bind, call, collect fragments, parse | loops with buffers of changing size |
| Security descriptors, file information: `Smb2Data*.cpp`, `Smb2QueryInfo.cpp`, `Smb2SetInfo.cpp`, `Smb2QueryDir.cpp` | none | encode and decode descriptors, lists of attributes, streams and entries | offsets relative to different places, sizes the peer gives against sizes the code computes, parts that reach to the end of what holds them |
| Authentication: `NtlmAuthProvider.cpp`, `Krb5AuthProvider.cpp` | tokens | next token | cryptography |

What makes it correct: a call returns, because of an answer to one of its own
requests; nothing is left in the queues for the next call; no answer is stored
in a dead stack frame; message ids are unique and never ahead of the credits;
responses are read from where they start; every object is released once and
not used afterwards; every file opened is closed.

### Task thread (`cpp/ex/task_thread`)

A worker thread, a mutex, a condition variable and a priority queue of tasks
by execution time. Clients post immediate, delayed and synchronous tasks; the
destructor stops the worker. Hard: wakeups between a test and a wait, the
order of construction and destruction. Correct: tasks run once, in the order
of their times and not early; no task is left asleep in the queue; a
synchronous post returns; the destructor returns.

### Signals and slots (`cpp/sigslot/palacaze/include/sigslot/signal.hpp`)

A signal holds its slots in groups of ascending id, in a reference-counted
payload (`copy_on_write`). Threads connect, disconnect (through a connection,
a scoped connection, an observer's destructor, by callable, object or group),
block, move and emit. An emission takes a reference to the payload and walks
through it without a lock. Hard: a writer that thinks it is alone, a slot that
is found by an index which other removals change, slots that outlive their
objects, lists that change hands while slots remember the signal that made
them. Correct: every slot is where its index says, counts are right, no
emission is disturbed, each slot found is offered once, a disconnected slot is
gone once its disconnection has returned.

### JSON-RPC (`cpp/jsonrpc/json-rpc-cxx`)

`JsonRpc2Server` validates requests and batches and dispatches them;
`JsonRpcClient` builds requests and reads responses; the asio connectors join
one of each per side over one socket, with a listener thread that decides by
the flag `waiting_response` whether a message is the awaited response or a
request. Hard: several callers, the listener and the peer share the socket and
the flag; a message is two writes; waiting has no time limit. Correct: a call
gets its own response, messages stay whole, arguments arrive as they were
sent, calls return.

### Other parts

| Component | Why it is not modelled |
|---|---|
| `go/2.publisher-subscribe.go`, `6.myEvent.go`, `7.recvEventIgnoreRepeat.go` | planned |
| `cpp/cppcoro` (ucontext and assembly coroutines) | planned: the resume/yield protocol |
| `cpp/qt`, `grpc`, `go/dbus`, `python`, `ex-tool`, `cpp/ftxui` | demonstrations of a framework, whose behaviour is the framework's |
| `cpp/jsonrpc/json-rpc-cxx/vendor` | third-party code |

## 2. Modules

| Module | Models | Checked by |
|---|---|---|
| `Smb2Client` | request engine, builders and handlers, against a server and a network that may misbehave within the constants | `MCSmb2Client`, proofs in `Smb2ClientProofs` |
| `Smb2Receive` | the bytes of one call of `receivePdus` | `MCSmb2Receive`, proofs in `Smb2ReceiveProofs` |
| `Smb2Api` | the objects and open files behind the functions of `Smb2Api.cpp` | `MCSmb2Api`, proofs in `Smb2ApiProofs` |
| `Smb2Rpc` | `smb2_list_shares` and `smb2_lookUpSid` with the parts of `DceRpc.cpp` they use | `MCSmb2Rpc`, proofs in `Smb2RpcProofs` |
| `SecurityDescriptor` | the decoder and encoder of `Smb2DataSecurity.cpp`, as functions | through `Smb2Info`, proofs in `Smb2InfoProofs` |
| `Smb2Info` | getting and setting what the server knows of a file: requests, blocks, replies | `MCSmb2Info`, proofs in `Smb2InfoProofs` |
| `TaskThread` | `task_thread.hpp` | `MCTaskThread`, proofs in `TaskThreadProofs` |
| `SignalAbs` | what `signal_base` promises: sets of slots, no lists, indices or counts | as the property `Promise` of `Signal` |
| `Signal` | `signal.hpp` | `MCSignal`, proofs in `SignalProofs` |
| `JsonRpc` | the JSON-RPC clients, servers, dispatcher and socket connectors of two sides | `MCJsonRpc`, proofs in `JsonRpcProofs` |

The OpenSmbC modules are layers: one step of `Smb2Api` and of `Smb2Rpc`
is one exchange, which is a run of `Smb2Client` from the start of a call to its return, whose
`Recv...` actions are runs of `Smb2Receive`. In each upper layer the outcomes
the lower one can have appear as choices (answer, refusal, failure in
`Smb2Api`; a synced or lost stream in `Smb2Client`). Refinement between
these layers is argued here and not checked; `Signal` is checked, and proved, to
implement `SignalAbs`.

### Smb2Client

State: the fields of `Smb2Context` that steer it, the two queues (sets of
records with the message id as key; `Put` is the assignment to a `std::map`),
the place `pc` in the API call, the current call's `AppData` (its `ntStatus`)
and the messages between client and server. `session_id`, `tree_id` and
`session_key` are reduced to whether they are set, `dialect` to whether it is
2.02. History variables record what the properties speak of: the window of
message ids the server's grants allow, which call's PDU completed
`sendAndReceive`, whether a reply went to the AppData of a finished call.

Actions: `ConnectShare`, `Operate`, `ReadNothing`, `OperateUnconnected` are
the API functions up to `sendAndReceive`; `PollIn`, `PollOut`, `PollFails`,
`Return` its loop; `SendPdu`, `SendFails`, `SendDone` the sending;
`RecvGarbage`, `RecvUnmatched`, `RecvShort`, `RecvMalformed`, `RecvPending`
the ways a response is not handled, and `On...` one action per handler.
The file commands differ for the engine only in their charge, so that they
share the command `IO`; a read or write of zero bytes is `EMPTY_IO`; a
path-based query or set is the chain `Compound`. The server, interim
responses, and broken connections are external and set by constants.

### Smb2Receive

Bytes are named by their position in the message, so that a buffer is right
exactly when it holds consecutive positions. `readIovec` is `ReadSome`,
`ReadBlocks` and `ReadClosed`; each phase of the `switch` is one `Recv...`
action. When a buffer is filled with the wrong bytes the model stops
(`Misread`): what follows depends on their values.

### Smb2Api

State: which addresses hold what, which are freed, which handles are open at
the server, which pointers the application holds. Functions that only take a
path and fill a struct of the caller are stuttering steps and left out. The
application uses what it was given, in any order, and closes and frees each
pointer once. `smb2_querydir`, `smb2_unlink`, `smb2_rmdir` and `smb2_mkdir`
are sequences of exchanges (`call` is the rest of the function). The security
functions convert descriptors: `Encode` allocates the buffer and frees the
descriptor of the reply, or fails and leaves both; `SetDescriptor` decodes what
the caller passes into a descriptor of its own, prints and frees it, or fails
and leaves it. `unconverted` records that one of the two has failed.

### Smb2Rpc

The two functions share their shape: connect to `IPC$`, open a pipe, bind,
call, close, disconnect (`pc` is the next exchange). Sizes are in words of
four bytes, and the words of a response are named by their position in it, so
that the buffer `sharesBuff` is right exactly when it holds consecutive
positions after the header (`Readable`); what the words say (how many shares,
from which handle, whether there is a resume handle, the status) is in the
record `reply`. The server chooses the limits, the number of shares in a
response, the sizes of the fragments and the outcome of each exchange.
`FirstFragment` is `malloc` and `memcpy` of the ioctl's output, `Extended`
`realloc` and `memcpy` of a further fragment. When other words than the
response's would be parsed the model stops (`Misread`). Since a refused CREATE
returns the address of a deleted handle (see below), the pipe can be "deleted" while the function goes on; every exchange on it is then refused.

### SecurityDescriptor and Smb2Info

A descriptor is a sequence of 16-bit units, the greatest common divisor of the
fields that steer the decoder; offsets and lengths are the code's. An iovec is
a block, a start and a length, and each function of the decoder and the
encoder is an operator of the same name. `Smb2Info` has one action per API
function that asks (`GetInfo`, `SetinfoExtended`, `Rename`, `SetinfoBasic`,
`Truncate`, `SetSecurity`, `QueryDir`), one per way the server serves it
(external: it lays its blocks out as the protocol says, and may refuse) and
one per way the handler and the rest of the function take the reply
(`Take...`). Lists are functions from offsets to entries, so that a walk along
wrong offsets finds nothing. The fixed structures are reduced to a time and a
size. `ValuesAssumption` says what a server may hold, without bounds: lists of
any length over the names in `Labels`, a stream's name of at least as many
bytes in UTF-8 as it has UTF-16 units, SIDs with at least one sub-authority,
ACEs that have a SID if the library knows their type, and may have one
otherwise, and are filled up by whole words, ACLs with slack behind the last
ACE. Three things are narrower than the protocol or the code. Object ACEs have
both object types (the decoder skips both whatever the flags say). A size the
server gives an ACL includes its header, so that the length `decode_acl`
computes does not wrap. The 32-bit sums of an offset and a header size
(`Present`) do not wrap, since offsets are positions in the block.

A directory is listed in several replies, and each may be cut short at its last
entry (`ServeCutDirents`); the handler then ends the call without a listing
(`TakeMalformedDirents`). `Rename` sends the name as it was given, and the
server refuses one with a `/`.

### TaskThread

One action is one stretch of code between two points where another thread can
interfere: a critical section under `mutex_` is one action; the tests of
`running_`, the notifications, reading the clock and running the task are
actions of their own. `EarlyStart` says whether the thread may run before the
constructor has finished with the members declared after it.

### Signal and SignalAbs

State: for each signal the payload it refers to (`m_slots`), for each payload
its `count` and `value` (the groups), the fields of `slot_state`, the objects
slots are bound to, and for each thread where it is in an emission, a
disconnection, a sweep of `disconnect_if` or an observer's destructor. A
critical section is one action; only `disconnect_if` calls the library's own
code for each slot under the mutex, and is therefore several (`Sweep`). The
accesses to `m_connected`, `m_blocked` and the weak pointer of a tracked slot
are actions of their own; those of `Move` to the flags `m_block` of the two
signals are one step (a `block` that falls between them, and may be lost in the
code, comes before or after the move here), and a signal is not moved to itself
(`std::lock` would take its mutex twice). A payload whose count is zero is reused, the
smallest first. `moved` is a history variable (the slots whose list changed
hands), `called` and `barred` record what an emission did and may not do.

`SignalAbs` has sets in place of lists and one step per visible effect. The
refinement mapping (`Abs`): a signal has the elements of its list, without
those a sweep in progress is going to remove; an emission has still to offer
the slots from its position on; a thread in `clean` is disconnecting its slot.

### JsonRpc

Each side has a listener and caller threads. `Call`, `LockSend`, `Arm`,
`WriteRequest` (twice: length, body) and `Return` are a call;
`Read`, `TakeResponse`, `Handle` and `WriteReply` the listener. The server's
`HandleRequest` with `HandleBatchRequest`, `HandleSingleRequest`, the
dispatcher, the mapping of named parameters and `check_param_type` are
operators. A message is an object or an array of items; a call has one
argument, an integer, for a parameter of a signed, unsigned or floating type.
`check_param_type` has the branch of each; what passes is cast (`Converted`):
integers keep the low bits, a floating type takes the nearest number, which
the constants `Double` and `Float` give. A stream out of step reads as
`Garbage` or as a `Scalar`. Names in `Reserved` start with `rpc.` and are not
registered. `TurnTaking` says whether one side may call while a call of the
other is under way. `AcceptLoop` would go on accepting; the demo has one
client, and its Readme says that a single connection is supported, so
`Accept` happens once.

## 3. Runs

| Run | Bounds | Shows |
|---|---|---|
| `smb2_reliable` | 4 calls (connect, two operations, and one more or a reconnect), 2 rounds of session setup or directory listing, charges 1 and 3, grants of 3 | with a server that answers everything: `OwnReply`, `NoDanglingReply`, `QueuesDrained`, `MountedAfterConnect`, `AwaitedRequests`, `EveryIdPaidFor`, and that every call returns |
| `smb2_faulty` | 3 calls on one connection, one round of session setup and listing, grants of 1 (so that credits run out), charge 2, every disturbance | `WithinWindow` and `UniqueIds` survive failed calls, requests put back, lost streams, interim and individual responses |
| `smb2_receive` | compounds of up to two responses, with parts of 0 to 2 bytes and padding from -1 to 1, bytes arriving one by one | `InsideBuffer`, `Framed`, and that the call returns |
| `smb2_api` | 4 objects, refusals, failed exchanges, descriptors that cannot be converted | `NothingLeaked`, `OnlyRefusedMisused` |
| `smb2_rpc` | 2 calls, 2 shares, a header of 2 words, limits of 3 words (too little for a request), 9 (several fragments) and 30 (one fragment), partial answers, refusals and failed exchanges | `AllListed`, `ReadableInFirstRound`, `CleanedUp`, `SidUsable`, and that every call returns |
| `smb2_info` | every security descriptor with up to two ACEs of seven shapes, every place of the DACL, and slack or none, and 10 pairs of attribute and stream lists, 3 directory entries in replies of at most 2, whole or cut short, first buffer of 32 bytes, 2 calls | `QueryTellsAll`, `SetIsApplied`, `DescriptorRead`, `DescriptorKept`, `BufferRespected` |
| `task_thread` | 2 clients, 3 tasks (one synchronous), delays 0 and 2, clock to 3 | `NoLostWakeup`, `RunsInTimeOrder`, `PostedTasksRun` |
| `signal` | 3 slots (extended and tracked in one group, an observer's in another), 2 signals, 2 threads, 3 operations started | `IndexInv`, `CountInv`, `DisconnectedRemoved`, `SnapshotStable`, `WalksEnd`, and `Promise`: `Signal` implements `SignalAbs` |
| `jsonrpc` | 2 callers on the client and 1 on the server, methods, a notification and batches, named and positional parameters, 2 calls, the sides taking turns, arguments around the ranges of an `int` and an `unsigned` of 3 bits, of a `double` exact up to 8 and a `float` exact up to 4, a connection that may break | `OwnResponse`, `FramesWhole`, `ArgumentsKept`, and that calls return |

`DescriptorRead`, `DescriptorKept`, `QueryTellsAll`, `SetIsApplied` and
`ArgumentsKept` are equivalences: they say for exactly which descriptors, lists
and arguments the code is right. It is wrong for an empty DACL in the last
place (read as absent), SIDs in ACEs of an unknown type (overlooked; the
protocol gives 0x0A and 0x0B one), ACEs with data after the SID or longer than
their contents, ACEs of an unknown type before the last, values of extended
attributes (read from one byte too early), streams with names outside ASCII,
more than two extended attributes to be set, a negative argument below the
range of a signed parameter, one above the range of an unsigned parameter, and
one that a `double` but not a `float` holds (`Damaged`).

What the properties leave out, each for a reason the code gives:

- `WithinWindow`, `UniqueIds` and `EveryIdPaidFor` speak of the first
  connection of a context (`close` does not reset the credits, see below).
- `NothingLeaked` speaks of exchanges that were answered (without an answer
  nobody knows whether the file is open) and exempts what the security
  functions drop when a descriptor cannot be converted: there the code leaks
  (see below). `OnlyRefusedMisused` exempts objects whose CREATE or
  QUERY_DIRECTORY was refused: there the code does touch freed objects.
- `AllListed` says nothing of a list that takes two rounds, since no such call
  returns 0; `SidUsable` is checked for callers that pass `NULL`.
- `DisconnectedRemoved` exempts slots whose list was moved to another signal.
- `FramesWhole` is checked, as the rest of `jsonrpc`, with the sides taking
  turns. It also holds of the instance of `jsonrpc_both`, where callers and
  listeners of one side, who hold different mutexes, are active at once.
- The rename clause of `SetIsApplied` records that no name with a `/` gets
  through; a library that converted names would have to change it.
- `CallsReturn` of `JsonRpc` exempts callers that wait behind a notification or
  a broken connection.
- `BufferRespected` speaks of reproducible descriptors; what the copies of an
  ACE that is not reproducible take is in `DescriptorKept`.

Why the bounds are enough: three calls are what it takes for a request to be
left over by one call, sent by the next and answered in the third, and four
for that after a reconnect; two chained responses are the first with a
`next_command`; four objects are a file, a listing, a buffer and one more to
confuse them with; two shares are the fewest that need two rounds, and two
calls let the second start from what the first left; three tasks are one running, one the worker sleeps for and
one posted meanwhile; two slots in a group are the fewest of which one is moved
when the other is removed, and three operations are an emission, a
disconnection that meets it and a connection or a move in between; two calls
are enough for a response to reach the wrong one; two ACEs are one that is
misjudged and one that is displaced by it. `Word` stands for 2^32 in the engine (large enough not
to wrap, which `TypeOK` together with `WithinWindow` would reveal) and for
2^64 in the receive path.

Deadlock is not checked: the application may stop calling, a call of
`receivePdus` ends, a task thread may be destroyed, a program may start no
further operation on its signals, and a JSON-RPC caller whose connection
breaks waits for ever.

`smb2_faulty` uses a `CONSTRAINT` (the first connection) and a `VIEW` (the
variables that guards and its properties read); `smb2_api` the symmetry of
addresses.

### Runs that find a disagreement

| Run | What the repository says | What the code does |
|---|---|---|
| `smb2_pending` | "We will eventually receive a proper reply for this request sometime later." (`Smb2Socket.cpp`) | the PDU was taken from the waitqueue by the interim response; the proper reply is "No matching PDU found", the failure `examples/smb2-ex.cpp` reports as occasional |
| `signal_observer` | "To avoid invocation of slots on a semi-destructed instance ... derived classes should call this method in their destructor" (`signal.hpp`) | an emission that has already found the slot connected calls it after the destructor has disconnected everything |
| `jsonrpc_both` | both ends may start calls, told apart by `waiting_response` (`json-rpc-cxx/Readme.md`) | when both do at once, each takes the other's request for its response |

More disagreements can be seen by changing constants or asking for a stronger
property; they are described here and have no run of their own:

- `Smb2Client` with `MaxCalls = 3`, `MaxId = 1`, `Needs = {1}`, `Grants = {1}`,
  `Chained = TRUE`, `Async = FALSE` and `Faulty = TRUE` violates
  `\A m \in inbox : m.cmds # <<"EMPTY_IO">>`. "don't send a 0 byte read, the
  server doesn't reply" (`Smb2Api.cpp:442`), and the API returns early for a
  count of 0; but without credits, as after a call that failed before the grant
  in its answer was read, the builder cuts a read or write to 0 bytes
  (`Smb2RequestBuilder.cpp:377`), whose charge is 0, and it is sent. With
  grants that cover every need (`smb2_reliable`) the case cannot occur.
- `Smb2Client` with `Chained = FALSE` violates `OwnReply`: the second
  individual response to a compound request ends the call, and CLOSE's
  completes the next one.
- `Smb2Context::close` leaves `credits` as they are, so that a reused context
  negotiates with the credits of its last connection (which is why
  `WithinWindow` and `UniqueIds` speak of the first connection, `fresh`).
- `Smb2Receive`: `ret # "misread"` fails after a failed read. A `size_t` holds
  the result of `readv`, and a read that finds nothing takes one byte of the
  count back ("At this point we have all the data we need for the current
  phase", `Smb2Socket.cpp`).
- `Smb2Api`: `misused = {}` fails: a refused CREATE deletes the handle and
  `smb2_open` returns its address, while callers test `fh == NULL`
  (`examples/smb2-ex.cpp`). `\A o \in Live : heap[o] # "sd"` fails between
  calls: the handler leaves the descriptor to `smb2_get_security` ("DONOT free
  here, it will be used and freed by caller.", `Smb2QueryInfo.cpp:385`), which
  returns without freeing it or its own buffer when it cannot be encoded
  (`Smb2Api.cpp:1250`); `smb2_set_security` and `smb2_fset_security` likewise
  when they cannot decode what they were passed (1359-1364, 1411-1416).
- `Smb2Info`: "Convert '/' to '\\'" (`Smb2SetInfo.cpp:84`), but the loop works
  on the fixed part of the request and the name is sent as it is:
  `call.op = "rename" => NoSlash(call.sent)` fails.
- An object ACE without one of its object types (which `ValuesAssumption`
  leaves out) has its SID read from the wrong place: the decoder skips both
  types whatever the flags say (`Smb2DataSecurity.cpp:249-271`).
- `Smb2Rpc`: `pc # "misread"` fails in the second round of listing shares
  ("we need to do this in loop till we get all shares", `Smb2Api.cpp`):
  `sharesBuff` is new in each round and `sharesBuffLen` is not. With
  `ReuseSid = TRUE` `SidUsable` fails (`smb2_lookUpSid` frees the SID of an
  earlier lookup and leaves the pointer).
- `TaskThread` with `EarlyStart = TRUE` violates `PostedTasksRun`: the worker
  may wait on `cv_` before it is constructed, and is never woken. The
  destructor need not return: `running_` is set and notified without the
  mutex, possibly between the worker's test and its wait.
- `smb2fh::offset`, which `smb2_read` and `smb2_write` start from, is never
  initialised (it is not part of `Smb2Api`'s state).

### Fairness

`Smb2Client`: weak fairness of the thread inside a call (`Step`) and of the
server answering what it has received (`Server`); no fairness for the
application or for disturbances. The code polls in a loop and handles what
poll reports, and without an answering server no call can return.
`Smb2Receive`: weak fairness of the running call only; the bytes need not
come. `Smb2Rpc`: weak fairness of the function that has been called (`Step`);
its exchanges end, which is `CallsReturn` of `Smb2Client`. `TaskThread`: weak fairness of every thread and of the clock, which is
what an operating system gives; spurious wakeups and the clients' posting are
not fair. `Signal`: weak fairness of each thread that has started an operation
(`Step`); what the program starts is not fair, and neither is a mutex: the
properties say where a thread may have to wait for one. `JsonRpc`: weak
fairness of accepting the connection, of callers inside a call and of the
listeners, all of them loops or straight code of a thread; calling and losing
the connection are not fair.

## 4. Proofs

All proofs are checked by TLAPS for arbitrary constants that satisfy the named
assumptions (sizes and counters are naturals, `Word` can hold the sizes,
`Needs` are positive, the sets of signals and threads are finite, "no task" is
not a task, the signals start with payloads of their own, the `None` of
`JsonRpc` is no id, name, outcome or message, files and lists are as
`ValuesAssumption` of `Smb2Info` says). Types are proved and
not repeated in the runs of these modules, except for `TaskThread`.

**Smb2ClientProofs**, first half (`TypeCorrect`, `InvCorrect`, `IdsAreUnique`,
`SentWithinWindow`). Neither `UniqueIds` nor `WithinWindow` is inductive: that
a new id is fresh needs that all ids in both queues lie below `message_id`,
that chained PDUs do not run into the next message, and that the waitqueue
lies below the outqueue (`IdsOrdered`); that sent ids are paid for needs an
account of all ids: the window equals the credits at hand plus the ids taken
by what has been sent, and messages in the outqueue are charged what they span
(`ChargesPaid`, `CreditsCoverIds`), with nothing at all before the first call
(`NothingYet`). The step lemma has one case per action.

The second half of the module takes the properties of `smb2_reliable`
(`RepliesAreOwn`, `NoReplyDangles`, `CallsDrainQueues`, `ConnectMounts`,
`RequestsAwaited`, `IdsPaidFor`, `NeverStuck`), for any number
of calls and reconnects, any sizes of requests and either dialect. They are
false of a connection that fails or a server that is short of credits, so two
hypotheses are stated: `Reliable`, on the constants (a compound is answered by
a compound, there are no interim responses or failures, and one answer grants
at least 3 credits and what any request needs), and `[]NoOverflow`, that the
32-bit `credits` never wraps. The invariant `RInv` says that at most one message
is under way and that it belongs to the current call (`Exchange`): it is queued
and can be paid for (`Queued`), at the server with its PDUs in the waitqueue
(`Sent`), or answered, with the replies from the k-th on and exactly their PDUs
left (`Answered`). Otherwise nothing is under way, and either no call is in
progress or the call was completed by a reply of its own (`Nothing`).
`Fits` ties the command to the connection's state: a TREE_CONNECT is outstanding
only with a session and its key, a request after it only if it could be signed,
and while a context first connects, unless in dialect 2.02, every id is paid
for. `NoFailure` shows from this
that no send, poll or read fails and every reply finds its PDU. `NeverStuck`
is the safety half of `CallsReturn`: a call in the poll loop is over or has a
message to send, to be answered or to be read.

**Smb2ReceiveProofs** (`TypeCorrect`, `InvCorrect`, `BufferRespected`,
`FramingCorrect`, `HeadersFound`). The invariant says for each phase where in
the message it begins and how much it reads (`Position`), and what the buffer
holds as long as no read has failed (`Consecutive`). A response's layout is
given by its start positions, so that no sum over a sequence is needed.

**Smb2ApiProofs** (`TypeCorrect`, `InvCorrect`, `MisuseNeedsRefusal`,
`NoLeak`). The invariant (`Safe`): what is held or in use by a function in
progress is allocated; it is freed only if it was refused; a function in
progress has the shape its code gives it. The accounting half (`Accounted`)
says that, as long as every exchange was answered, live and opened objects are
held, belong to the function in progress, or are a descriptor or its buffer
left behind after one could not be converted. `NoLeak` has no hypothesis.

**Smb2RpcProofs** (`TypeCorrect`, `InvCorrect`, `FragmentsAssembled`,
`ListComplete`, `CleanupComplete`, `SidSafe`). The invariant describes the
buffer after each fragment: in the first round it is the header followed by
the words received so far (`Assembled`); in a later round its length is beyond
its end, or words in the middle are uninitialised (`Gapped`). Hence
`FirstRoundOnly`: a response can be parsed exactly in the first round, and
`ListComplete` follows because a call that gets as far as returning 0 took one
round. `CleanupComplete` and `SidSafe` rest on what each step on the way to
the return has released (`BuffersAccounted`, `ClosedAtEnd`, `SidAtEnd`);
`SidSafe` has the hypothesis that callers pass `NULL`.

**TaskThreadProofs** (`InvCorrect`, `TypeCorrect`, `NoWakeupLost`,
`TasksInOrder`). `NoLostWakeup` is preserved by every step given the types:
what the worker read under the mutex is only changed by an insert, whose
client has then still to notify. That no task runs twice needs `OnePlace`: a
task is with the one client about to insert it, in the queue once, in the
worker's hands or done, and nowhere twice.

**SignalProofs** (`CountsRight`, `EmissionsUndisturbed`, `IndicesRight`,
`Refinement`, `DisconnectedGone`). That a count is the
number of references to its payload is not inductive alone: a writer that
takes the last reference of a payload for its own must know that no second
signal has it (`Distinct(m_slots)`), an emission that gives a reference back must
have one (`RefHeld`: a thread holds a reference exactly while it emits), and a
sweep that writes over several steps must stay alone (`SweepAlone`: it holds
the mutex, and its payload is counted once). With the types and with the
cleaner of every disconnection known (`CleanerKnown`) this is `Sharing`. The
counts are handled as the sizes of the fibers of `m_slots` and `ref`, so that a
step changes one fiber by one element. `SnapshotStable` follows: a payload
that is written has count one and belongs to the writing signal.

`IndicesRight`: one index per slot serves all lists, and the swap with the last slot changes the index of a slot the caller did not
name. `Placed` therefore adds to `IndexInv` that no slot is in the lists of two
signals (`Apart`). The first half is about lists alone: `PoppedGood` for the
removal, `WithGroupGood` and `AppendGood` for the search of the group and the
insertion, `EmptiedGood`. The second takes the steps one by one and uses
`Sharing` to know that a write changes the list of one signal only.

The third part (`Refinement`, `DisconnectedGone`): `SignalAbs` says
which slots an emission has still to offer, and which a disconnection or a
sweep has still to remove; `Signal` has positions in lists. The invariant
`Walks` says for each thread where its walk stands: an emission has called
nothing of the rest of its list but the slot in hand, and that slot was
connected when the emission began or later (`Emission`); a sweep has left no
matching slot behind its position, although the swap with the last slot brings
one forward (`Swept`). With `Sharing` and `Placed` each step of one thread is then a step of
`SignalAbs`, and the walks of the others are undisturbed (`OthersUndisturbed`).
The fairness of `Signal` plays no part: `SignalAbs` is a safety specification.
`DisconnectedRemoved` needs that a list that has not changed hands holds only
slots whose cleaner is its signal (`Made`).

**JsonRpcProofs** (`TypeCorrect`; and, if the sides take turns,
`MessagesWhole`, `ResponseToCall`, `ArgumentsReach`). The three have
`TurnTaking` as a hypothesis: without it `OwnResponse` is false
(`jsonrpc_both`), and the proofs of the other two rest on the same invariant;
`FramesWhole` without it is only model-checked. The invariant `Conversation` says that the two sides hold one
conversation: one thread at most is past `send_mutex` (`Turns`, `Locks`), and
the sockets are in one of a few phases (`Phase`): nothing is under way
(`Quiet`), half of a request is (`Half`), or a caller waits while its request,
or the response the peer made of it, is on its way (`Asked`). A message under
way is described by what is left of it on the wire together with what the
listener has read (`HalfOf`, `AllOf`), so that a read changes its description
and not the phase. A broken connection leaves half messages and listeners that
stop anywhere; the phases allow for that. What is received is an answer to
the call by `HandleAnswers`, which follows a request through the dispatcher
and the batch. `ArgumentsReach` adds the arithmetic of each parameter type: a
conversion keeps an argument that passed `check_param_type` exactly if it is
not `Damaged`.

**Smb2InfoProofs** (`ListsHold`, `QueryTellsAllHolds`, `SetIsAppliedHolds`,
`SecurityHolds`, `DescriptorReadHolds`, `DescriptorKeptHolds`,
`BufferRespectedHolds`). The protocol part is short: `ListInv` says that the
request carries what was asked, that the reply is the block of what the server
holds now or says that it was just stored, and that a listing has collected the
first names of the directory; `SecurityInv` that a query for the descriptor
ends with the encoding of the decoding of the server's block, and that the
application keeps such a block. The weight lies in the lemmas on the operators,
for lists and ACLs of any length. They are proved by induction over a *set* of
natural numbers: `LeastElement` (from the well-foundedness of `<`) gives
`SetInduction`, which needs no operator as a parameter. Each recursive function
(`ReadFrom`, `Starts`, `AcesUpto`, `DecodeAces`, `AclSize`, `EncodeAces`,
`Buffer`) is first shown to exist (`...Exists`: the function up to n extends to
n + 1) and then used through its equation.

- Lists: the starts of the entries increase (`StartsIncrease`), so the block
  holds each entry at its own offset (`LaidOutFacts`), and the walk from the
  k-th entry reads the rest of the list (`ChainedIsRead`). For the library's
  own encoding of attributes, whose offsets count from the start of the block,
  `EncodedIsRead` shows that the walk jumps over at least one entry as soon as
  there are three.
- Decoding: `Holds(buf, p, units)` says that a block has certain units at a
  position. From the layout of a part and from the units it holds follows what
  is decoded of it (`SidIsDecoded`, `AceIsDecoded`, `AclIsDecoded`,
  `DescriptorIsDecoded`); `NothingBehind` characterises the DACL that is taken
  for absent.
- Encoding: `EncodedAce` is what the encoder makes of an ACE that was decoded at
  a place, including the copy of all that follows it up to the end of the ACL.
  If the ACL is reproducible, what is written grows with the server's ACL
  (`CleanPrefix`, `ReproducibleIsWritten`). Otherwise there is a first ACE that
  makes a difference, and a unit or the length tells: a blob that reaches to
  the end makes the ACL too long, filling that is left out makes it too short,
  or puts the size of the next ACE, which is not zero, where the server has a
  zero (`FillingIsLost`, `OtherIsChanged`). That the equivalence of
  `DescriptorKept` is exact rests on the last case: shorter and longer ACEs
  cannot make up for each other unnoticed.
- `RoomIs` and `BufferFits`: the doubled buffer has the size computed from the
  parts, and what is written of a reproducible descriptor is as long as that.

The theorems quantify over sizes beyond the 16 bits of the wire; those a block
can carry are among them.

Only model-checked: all liveness (`CallsReturn`, `ReceiveReturns`,
`CallReturns`, `PostedTasksRun`, `WalksEnd`), which needs fairness and
ENABLED. Every invariant and every action property of a passing run is
proved, `FramesWhole` for sides that take turns.

## 5. Not modelled

Contents of requests and responses other than those of `Smb2Info` and
`Smb2Rpc`; cryptography (NTLM, Kerberos, signatures); printing of descriptors;
two contexts in two threads (`receivePdus` keeps the length prefix in a static
variable); the destructor of a signal and signals used without a mutex
(`signal_st`); JSON arguments other than integers, integers beyond 64 bits, and
the HTTP and in-memory connectors; a second connection to the JSON-RPC server;
object ACEs without one of their object types; memory exhaustion; wrap-around of 64-bit message ids.

## 6. Plan

1. Done: the modules and the proofs above.
2. `Smb2Replies`: the fixed and variable parts of the other commands'
   responses (offsets and lengths the server sends against the bytes received).
3. Two contexts in two threads, with the length prefix they share.
4. `PubSub`: the Go publisher with its timeout and closed channels; the
   resume and yield protocol of the coroutines.
5. The refinement from `Smb2Client`'s receive actions to `Smb2Receive`, and
   from a call of `Smb2Client` to one exchange of `Smb2Api`.
