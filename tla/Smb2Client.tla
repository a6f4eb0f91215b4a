------------------------------ MODULE Smb2Client ------------------------------
(***************************************************************************)
(* The request engine of OpenSmbC (cpp/samba/client/OpenSmbC): the         *)
(* connection state, credits and message ids of Smb2Context, its outqueue  *)
(* and waitqueue, the poll loop sendAndReceive, Smb2Socket's send and      *)
(* receive, and the reply handler of every command, driven by one thread   *)
(* that calls the synchronous API.                                         *)
(*                                                                         *)
(* A file operation is abstracted to the messages it sends: "IO" stands    *)
(* for every command whose handler stores the answer and ends the call     *)
(* (CREATE, CLOSE, FLUSH, READ, WRITE, ECHO, IOCTL, QUERY_INFO, SET_INFO). *)
(* A path-based query or set is the chain CREATE, IO, CLOSE.  The server   *)
(* and the network are external: which answers, interim answers, credit    *)
(* grants and failures they can produce is set by the constants.           *)
(***************************************************************************)
EXTENDS Integers, Sequences

CONSTANTS
    MaxCalls,   \* bound: API calls made by the application
    MaxId,      \* bound: message id from which the server ends a multi-step exchange
    Word,       \* number of values of the uint32_t counter credits
    Needs,      \* credits a multi-credit request can need
    Grants,     \* credits a response can grant
    Chained,    \* TRUE: the server answers a compound request with a compound response
    Async,      \* TRUE: the server may send an interim STATUS_PENDING response
    Faulty      \* TRUE: poll may fail, a read may come up short, the TCP connection may break

ASSUME BoundAssumption == MaxCalls \in Nat /\ MaxId \in Nat /\ Word \in Nat \ {0}
ASSUME CreditAssumption == Needs \subseteq Nat \ {0} /\ Grants \subseteq Nat
ASSUME ServerAssumption == {Chained, Async, Faulty} \subseteq BOOLEAN

VARIABLES
    connected,          \* Smb2Socket: fd # -1, which is also bConnected
    credits,
    message_id,
    session_id,         \* is it nonzero
    tree_id,            \* is it nonzero
    dialect,            \* "0202" or "later"; not initialised by the constructor
    multi,              \* supports_multi_credit
    signing_required,
    session_key,        \* is there a session key
    outqueue,           \* messages (chains of PDUs) to send
    waitqueue,          \* PDUs that wait for their reply
    isComplete,
    pc,                 \* where the API call is
    pollout,            \* poll also returned POLLOUT
    call,               \* number of the current (or last) API call
    op,                 \* what it does
    ntStatus,           \* AppData.ntStatus of the current call
    result,             \* what the last call returned
    stream,             \* is the next byte of the socket the start of a message
    link,               \* is the TCP connection alive
    inbox,              \* requests the server has to answer
    interim,            \* ids of those it has answered with STATUS_PENDING
    replies,            \* responses on their way to the client
    fresh,              \* history: the context has never been closed
    window,             \* history: ids the responses received while fresh allow
    unpaid,             \* history: while fresh an id was taken that no credit pays for
    answered,           \* history: a reply of its own has set ntStatus
    completer,          \* history: the call whose PDU set isComplete
    dangling            \* history: a reply was stored in a finished call's AppData

ctx == <<connected, message_id, session_id, tree_id, session_key, fresh, link, inbox, interim>>
neg == <<dialect, multi, signing_required>>
acct == <<credits, window>>
app == <<call, op, result>>
data == <<ntStatus, answered, dangling>>
done == <<isComplete, completer>>
vars == <<ctx, neg, acct, outqueue, waitqueue, done, pc, pollout, app, data,
          stream, replies, unpaid>>

Ops == {"connect", "io", "rw", "ioctl", "compound", "querydir", "disconnect"}
Commands == {"NEGOTIATE", "SESSION_SETUP", "TREE_CONNECT", "TREE_DISCONNECT",
             "LOGOFF", "IO", "EMPTY_IO", "QUERY_DIRECTORY", "C_CREATE", "C_CLOSE"}
Compound == <<"C_CREATE", "IO", "C_CLOSE">>
Statuses == {"SUCCESS", "MORE_PROCESSING_REQUIRED", "NO_MORE_FILES", "PENDING", "ERROR"}
Results == Statuses \cup {"NONE", "DISCONNECTED", "PAYLOAD_FAILED", "SOCKET_ERROR"}

Chains == {<<c>> : c \in Commands} \cup {Compound}
PDUs == [id : Nat, cmd : Commands, charge : Nat, call : Nat]
Messages == [id : Nat, cmds : Chains, charge : Nat, call : Nat]
Replies == [id : Nat, status : Statuses, grant : Grants, last : BOOLEAN]

TypeOK ==
    /\ connected \in BOOLEAN /\ link \in BOOLEAN
    /\ credits \in 0..(Word - 1) /\ message_id \in Nat
    /\ session_id \in BOOLEAN /\ tree_id \in BOOLEAN /\ session_key \in BOOLEAN
    /\ dialect \in {"0202", "later"} /\ multi \in BOOLEAN /\ signing_required \in BOOLEAN
    /\ outqueue \subseteq Messages /\ waitqueue \subseteq PDUs
    /\ isComplete \in BOOLEAN /\ completer \in Nat
    /\ pc \in {"idle", "loop", "recv", "send"} /\ pollout \in BOOLEAN
    /\ call \in Nat /\ op \in Ops /\ result \in Results
    /\ ntStatus \in Statuses /\ answered \in BOOLEAN /\ dangling \in BOOLEAN
    /\ stream \in {"synced", "lost"}
    /\ inbox \subseteq Messages /\ interim \subseteq Nat /\ replies \in Seq(Replies)
    /\ fresh \in BOOLEAN /\ window \in Nat /\ unpaid \in BOOLEAN

Init ==
    /\ connected = FALSE /\ credits = 0 /\ message_id = 0
    /\ session_id = FALSE /\ tree_id = FALSE
    /\ dialect \in {"0202", "later"}
    /\ multi = FALSE /\ signing_required = FALSE /\ session_key = FALSE
    /\ outqueue = {} /\ waitqueue = {}
    /\ isComplete = FALSE /\ pc = "idle" /\ pollout = FALSE
    /\ call = 0 /\ op = "connect" /\ ntStatus = "SUCCESS" /\ result = "NONE"
    /\ stream = "synced" /\ link = TRUE /\ inbox = {} /\ interim = {} /\ replies = <<>>
    /\ window = 1 /\ fresh = TRUE /\ unpaid = FALSE
    /\ answered = FALSE /\ completer = 0 /\ dangling = FALSE

(***************************************************************************)
(* Building and queueing a message.                                        *)
(***************************************************************************)

(* Mutant: the constructor charges nothing.                                 *)
M_DefaultCharge == 0

(* Smb2Pdu's constructor: the charge of a request that is not NEGOTIATE.    *)
DefaultCharge == IF dialect = "0202" THEN 0 ELSE 1

(* encodeHeader takes one message id, or as many as the charge.             *)
Span(charge) == IF charge > 1 THEN charge ELSE 1

(* smb2_pdu_add_signature, called by smb2_queue_pdu when signing is          *)
(* required: SESSION_SETUP, and requests made before there is a session,    *)
(* are not signed; the others need the session key.                         *)
CanSign(cmd, signing, session, key) ==
    signing => cmd = "SESSION_SETUP" \/ ~session \/ key

(* std::map assignment: an entry with the same key is overwritten.          *)
Put(queue, entry) == {e \in queue : e.id # entry.id} \cup {entry}

(* smb2_queue_pdu for a chain whose PDUs all carry the same charge.  When   *)
(* the first PDU cannot be signed its message id is spent all the same.     *)
QueuePdu(cmds, charge, signed, caller) ==
    /\ message_id' = message_id + (IF signed THEN Len(cmds) ELSE 1) * Span(charge)
    /\ outqueue' = IF signed
                   THEN Put(outqueue, [id |-> message_id, cmds |-> cmds,
                                       charge |-> charge, call |-> caller])
                   ELSE outqueue
    /\ unpaid' = (unpaid \/ (fresh /\ (~signed \/ (charge = 0 /\ cmds # <<"NEGOTIATE">>))))

(***************************************************************************)
(* API calls: from the entry of the function to its call of sendAndReceive *)
(***************************************************************************)

(* A call that comes back before it sends anything.                         *)
Refuse(o, r) ==
    /\ call' = call + 1
    /\ op' = o
    /\ result' = r
    /\ UNCHANGED <<ctx, neg, acct, outqueue, waitqueue, done, pc, pollout, data,
                   stream, replies, unpaid>>

(* Mutant: sendAndReceive does not clear isComplete.                        *)
M_Begin(o, cmds, charge, signed) ==
    /\ call' = call + 1
    /\ op' = o
    /\ QueuePdu(cmds, charge, signed, call + 1)
    /\ pc' = IF signed THEN "loop" ELSE "idle"
    /\ result' = IF signed THEN result ELSE "PAYLOAD_FAILED"
    /\ ntStatus' = "SUCCESS"
    /\ answered' = FALSE
    /\ UNCHANGED <<neg, acct, waitqueue, pollout, done, dangling, stream, replies>>

(* The AppData is fresh and sendAndReceive clears isComplete; when the      *)
(* request could not be queued the function returns at once.                *)
Begin(o, cmds, charge, signed) ==
    /\ call' = call + 1
    /\ op' = o
    /\ QueuePdu(cmds, charge, signed, call + 1)
    /\ pc' = IF signed THEN "loop" ELSE "idle"
    /\ result' = IF signed THEN result ELSE "PAYLOAD_FAILED"
    /\ isComplete' = IF signed THEN FALSE ELSE isComplete
    /\ ntStatus' = "SUCCESS"
    /\ answered' = FALSE
    /\ UNCHANGED <<neg, acct, waitqueue, pollout, completer, dangling, stream, replies>>

CanCall == pc = "idle" /\ call < MaxCalls

ConnectShare ==
    /\ CanCall
    /\ \/ /\ connected
          /\ Refuse("connect", "SOCKET_ERROR")  \* "already connected"
       \/ /\ Faulty /\ ~connected
          /\ Refuse("connect", "SOCKET_ERROR")  \* no such host, connection refused
       \/ /\ ~connected
          /\ connected' = TRUE
          /\ link' = TRUE
          /\ Begin("connect", <<"NEGOTIATE">>, 0, TRUE)
          /\ UNCHANGED <<session_id, tree_id, session_key, fresh, inbox, interim>>

(* What the remaining functions send, and with which charge.                *)
(* CREATE, CLOSE, FLUSH, ECHO, and QUERY_INFO and SET_INFO by file handle.  *)
IORequests == [op : {"io"}, cmds : {<<"IO">>}, charge : {DefaultCharge}]

(* An ioctl, like a read or a write, needs a file opened on the share.      *)
IoctlRequests ==
    [op : {"ioctl"}, cmds : {<<"IO">>},
     charge : IF ~tree_id THEN {} ELSE IF multi THEN Needs ELSE {DefaultCharge}]

(* QUERY_INFO and SET_INFO by path.                                         *)
CompoundRequests == [op : {"compound"}, cmds : {Compound}, charge : {DefaultCharge}]

QueryDirectoryRequests ==
    [op : {"querydir"}, cmds : {<<"QUERY_DIRECTORY">>},
     charge : {IF multi THEN 1 ELSE DefaultCharge}]

DisconnectRequests ==
    [op : {"disconnect"}, cmds : {<<"TREE_DISCONNECT">>}, charge : {DefaultCharge}]

Requests ==
    IORequests \cup IoctlRequests \cup CompoundRequests
        \cup QueryDirectoryRequests \cup DisconnectRequests

(* Smb2BuildReadRequest and Smb2BuildWriteRequest clamp the length to what  *)
(* the credits allow, down to zero bytes when there are none; the charge    *)
(* of zero bytes is (0 - 1) / 65536 + 1 in 32 bits, which is 0 in 16 bits.  *)
RWRequests ==
    LET Least(n) == IF n > credits THEN credits ELSE n
    IN  IF ~tree_id
        THEN {}
        ELSE IF dialect = "0202"
        THEN [op : {"rw"}, cmds : {<<"IO">>}, charge : {IF multi THEN 1 ELSE 0}]
        ELSE IF credits = 0
        THEN [op : {"rw"}, cmds : {<<"EMPTY_IO">>}, charge : {IF multi THEN 0 ELSE 1}]
        ELSE [op : {"rw"}, cmds : {<<"IO">>},
              charge : IF multi THEN {Least(n) : n \in Needs} ELSE {1}]

Operate ==
    /\ CanCall
    /\ connected
    /\ \E q \in Requests \cup RWRequests :
        Begin(q.op, q.cmds, q.charge,
              CanSign(q.cmds[1], signing_required, session_id, session_key))
    /\ UNCHANGED <<connected, session_id, tree_id, session_key, fresh, link, inbox, interim>>

(* A read or write of zero bytes succeeds without a request.                *)
ReadNothing ==
    /\ CanCall
    /\ connected /\ tree_id
    /\ Refuse("rw", "SUCCESS")

(* Not connected: every function refuses, and disconnect_share succeeds.    *)
OperateUnconnected ==
    /\ CanCall
    /\ ~connected
    /\ \E o \in Ops \ {"connect"} :
        Refuse(o, IF o = "disconnect" THEN "SUCCESS" ELSE "DISCONNECTED")
(***************************************************************************)
(* sendAndReceive: one turn of the poll loop is PollIn or PollOut, the     *)
(* receives and the sends it leads to, and the test of isComplete.         *)
(***************************************************************************)

(* The API function reports SMB2_STATUS_SOCKET_ERROR.  Neither the socket   *)
(* nor the queues are touched.                                              *)
Fail ==
    /\ pc' = "idle"
    /\ result' = "SOCKET_ERROR"
    /\ UNCHANGED <<call, op>>

Return ==
    /\ pc = "loop"
    /\ isComplete
    /\ pc' = "idle"
    /\ result' = ntStatus
    /\ UNCHANGED <<ctx, neg, acct, outqueue, waitqueue, done, pollout, call, op, data,
                   stream, replies, unpaid>>

(* The socket was closed under the loop, poll was interrupted, or it        *)
(* reported POLLERR or POLLHUP.                                             *)
PollFails ==
    /\ pc = "loop"
    /\ ~isComplete
    /\ ~connected \/ Faulty
    /\ Fail
    /\ UNCHANGED <<ctx, neg, acct, outqueue, waitqueue, done, pollout, data,
                   stream, replies, unpaid>>

PollIn ==
    /\ pc = "loop"
    /\ ~isComplete
    /\ connected /\ link
    /\ replies # <<>> \/ stream = "lost"
    /\ pc' = "recv"
    /\ pollout' \in {FALSE, outqueue # {}}
    /\ UNCHANGED <<ctx, neg, acct, outqueue, waitqueue, done, app, data, stream,
                   replies, unpaid>>

PollOut ==
    /\ pc = "loop"
    /\ ~isComplete
    /\ connected /\ link
    /\ outqueue # {}
    /\ pc' = "send"
    /\ UNCHANGED <<ctx, neg, acct, outqueue, waitqueue, done, pollout, app, data,
                   stream, replies, unpaid>>

(***************************************************************************)
(* sendPdus: the messages in the order of their ids.                       *)
(***************************************************************************)

IsNext(m) == m \in outqueue /\ \A n \in outqueue : m.id <= n.id

(* Mutant: only the first PDU of the chain is charged.                      *)
M_TotalCharge(m) == m.charge

(* getReqCreditCharge of a chain.                                           *)
TotalCharge(m) == Len(m.cmds) * m.charge

(* Mutant: the chained PDUs take the id of the first.                       *)
M_Unchained(m) ==
    {[id |-> m.id, cmd |-> m.cmds[i], charge |-> m.charge, call |-> m.call] :
        i \in 1..Len(m.cmds)}

(* The PDUs of a message once it is sent and the chaining is removed.       *)
Unchained(m) ==
    {[id |-> m.id + (i - 1) * Span(m.charge), cmd |-> m.cmds[i],
      charge |-> m.charge, call |-> m.call] : i \in 1..Len(m.cmds)}

(* sendPdu checks the credits, except in dialect 2.02 ...                   *)
CanSend(m) ==
    /\ connected /\ link
    /\ dialect = "later" => TotalCharge(m) <= credits

(* Mutant: only the first PDU of the chain goes to the waitqueue.           *)
M_SendPdu(m) ==
    /\ pc = "send"
    /\ IsNext(m)
    /\ CanSend(m)
    /\ outqueue' = outqueue \ {m}
    /\ waitqueue' = waitqueue \cup {u \in Unchained(m) : u.id = m.id}
    /\ credits' = (credits - TotalCharge(m)) % Word
    /\ inbox' = inbox \cup {m}
    /\ UNCHANGED <<connected, message_id, session_id, tree_id, session_key, fresh, link, interim,
                   neg, window, done, pc, pollout, app, data, stream, replies, unpaid>>

(* ... and smb2_pdu_add_to_waitqueue takes them.                            *)
SendPdu(m) ==
    /\ pc = "send"
    /\ IsNext(m)
    /\ CanSend(m)
    /\ outqueue' = outqueue \ {m}
    /\ waitqueue' = {p \in waitqueue : \A u \in Unchained(m) : p.id # u.id}
                    \cup Unchained(m)
    /\ credits' = (credits - TotalCharge(m)) % Word
    /\ inbox' = inbox \cup {m}
    /\ UNCHANGED <<connected, message_id, session_id, tree_id, session_key, fresh, link, interim,
                   neg, window, done, pc, pollout, app, data, stream, replies, unpaid>>

(* "Insufficient credits to send request", or the write fails: the message  *)
(* goes back to the outqueue.                                               *)
SendFails(m) ==
    /\ pc = "send"
    /\ IsNext(m)
    /\ ~CanSend(m)
    /\ Fail
    /\ UNCHANGED <<ctx, neg, acct, outqueue, waitqueue, done, pollout, data, stream,
                   replies, unpaid>>

SendDone ==
    /\ pc = "send"
    /\ outqueue = {}
    /\ pc' = "loop"
    /\ UNCHANGED <<ctx, neg, acct, outqueue, waitqueue, done, pollout, app, data,
                   stream, replies, unpaid>>

(***************************************************************************)
(* receivePdus: one action per response of the message being read.         *)
(***************************************************************************)

Matches(r, p) == p \in waitqueue /\ p.id = r.id

(* After the last response of a compound smb2_service goes on to POLLOUT.   *)
AfterReply(last) ==
    pc' = IF ~last THEN "recv" ELSE IF pollout THEN "send" ELSE "loop"

(* Mutant: smb2_find_pdu leaves the PDU in the waitqueue.                   *)
M_TakePdu(r, p) ==
    /\ UNCHANGED waitqueue
    /\ credits' = (credits + r.grant) % Word
    /\ window' = IF fresh THEN window + r.grant ELSE window

(* smb2_find_pdu removes the PDU; the granted credits are added.            *)
TakePdu(r, p) ==
    /\ waitqueue' = waitqueue \ {p}
    /\ credits' = (credits + r.grant) % Word
    /\ window' = IF fresh THEN window + r.grant ELSE window

(* What is read is not at the start of a message: it is refused as a        *)
(* non-SMB2 blob, and may leave the stream at a boundary again by having    *)
(* swallowed all there was.                                                 *)
RecvGarbage ==
    /\ pc = "recv"
    /\ stream = "lost"
    /\ \/ stream' = "synced" /\ replies' = <<>>
       \/ UNCHANGED <<stream, replies>>
    /\ Fail
    /\ UNCHANGED <<ctx, neg, acct, outqueue, waitqueue, done, pollout, data, unpaid>>

(* "No matching PDU found": the header is consumed, the body stays unread.  *)
RecvUnmatched ==
    /\ pc = "recv"
    /\ stream = "synced"
    /\ replies # <<>>
    /\ ~\E p \in waitqueue : Matches(Head(replies), p)
    /\ stream' = "lost"
    /\ replies' = Tail(replies)
    /\ Fail
    /\ UNCHANGED <<ctx, neg, acct, outqueue, waitqueue, done, pollout, data, unpaid>>

(* readIovec finds fewer bytes on the nonblocking socket than the header    *)
(* has: what was read is lost, and the rest arrives later.                  *)
RecvShort ==
    /\ Faulty
    /\ pc = "recv"
    /\ stream = "synced"
    /\ replies # <<>>
    /\ stream' = "lost"
    /\ replies' = Tail(replies)
    /\ Fail
    /\ UNCHANGED <<ctx, neg, acct, outqueue, waitqueue, done, pollout, data, unpaid>>

(* The response at the head of the stream belongs to p.                     *)
Receiving(r, p) ==
    /\ pc = "recv"
    /\ stream = "synced"
    /\ replies # <<>>
    /\ r = Head(replies)
    /\ Matches(r, p)

(* The fixed or variable part or the padding comes up short, or does not    *)
(* parse: p is lost, the rest unread.  The session or tree id is taken over *)
(* when the fixed part is parsed, so it may be there or not.                *)
RecvMalformed(r, p) ==
    /\ Faulty
    /\ Receiving(r, p)
    /\ TakePdu(r, p)
    /\ stream' = "lost"
    /\ replies' = Tail(replies)
    /\ LET parsed(cmd) == p.cmd = cmd /\ r.status # "ERROR"
       IN  /\ session_id' \in {session_id, session_id \/ parsed("SESSION_SETUP")}
           /\ tree_id' \in {tree_id, tree_id \/ parsed("TREE_CONNECT")}
    /\ Fail
    /\ UNCHANGED <<connected, message_id, session_key, fresh, link, inbox, interim,
                   neg, outqueue, done, pollout, data, unpaid>>

(* STATUS_PENDING: the rest is skipped and the loop goes on; p is gone.     *)
RecvPending(r, p) ==
    /\ Receiving(r, p)
    /\ r.status = "PENDING"
    /\ TakePdu(r, p)
    /\ replies' = Tail(replies)
    /\ AfterReply(TRUE)
    /\ UNCHANGED <<ctx, neg, outqueue, done, pollout, app, data, stream, unpaid>>

(***************************************************************************)
(* smb2ProcessReplyAndAppData of every command.                            *)
(***************************************************************************)

(* A reply that is handled: p is deleted after its handler has run.         *)
Handle(r, p, cmd) ==
    /\ Receiving(r, p)
    /\ p.cmd = cmd
    /\ r.status # "PENDING"
    /\ TakePdu(r, p)
    /\ AfterReply(r.last)
    /\ UNCHANGED <<pollout, app>>

(* appData->setNtStatus.  The AppData of CREATE and CLOSE in a chain is on  *)
(* the heap and dies with the PDU; every other one is a local variable of   *)
(* the API function that made the request.                                  *)
SetNtStatus(p, status) ==
    IF p.cmd \in {"C_CREATE", "C_CLOSE"}
    THEN UNCHANGED data
    ELSE IF p.call = call
    THEN /\ ntStatus' = status
         /\ answered' = TRUE
         /\ UNCHANGED dangling
    ELSE /\ dangling' = TRUE
         /\ UNCHANGED <<ntStatus, answered>>

(* Mutant: isComplete is not set.                                           *)
M_EndSendReceive(p) ==
    /\ UNCHANGED isComplete
    /\ completer' = p.call

EndSendReceive(p) ==
    /\ isComplete' = TRUE
    /\ completer' = p.call

(* Smb2Context::close.  The TCP connection and what is on it are gone;      *)
(* credits, the negotiated capabilities and the queues stay.                *)
Close ==
    /\ connected' = FALSE
    /\ message_id' = 0
    /\ session_id' = FALSE
    /\ tree_id' = FALSE
    /\ session_key' = FALSE
    /\ fresh' = FALSE
    /\ inbox' = {}
    /\ interim' = {}
    /\ replies' = <<>>
    /\ stream' = "synced"
    /\ UNCHANGED <<link, outqueue, unpaid>>

(* Mutant: the status of the reply is not passed on.                        *)
M_CloseAndEnd(p, status) ==
    /\ Close
    /\ SetNtStatus(p, "SUCCESS")
    /\ EndSendReceive(p)

CloseAndEnd(p, status) ==
    /\ Close
    /\ SetNtStatus(p, status)
    /\ EndSendReceive(p)

(* A handler that leaves the connection alone and ends the call.            *)
EndOnly(p, status) ==
    /\ SetNtStatus(p, status)
    /\ EndSendReceive(p)
    /\ replies' = Tail(replies)
    /\ UNCHANGED <<ctx, outqueue, stream, unpaid>>

(* A handler that queues the next request of the same call.  The result of  *)
(* smb2_queue_pdu is ignored.                                               *)
GoOn(p, status, cmd, charge, signed) ==
    /\ SetNtStatus(p, status)
    /\ QueuePdu(<<cmd>>, charge, signed, p.call)
    /\ replies' = Tail(replies)
    /\ UNCHANGED <<connected, fresh, link, inbox, interim, done, stream>>

OnNegotiate(r, p) ==
    /\ Handle(r, p, "NEGOTIATE")
    /\ \/ /\ r.status # "SUCCESS"
          /\ CloseAndEnd(p, r.status)
          /\ UNCHANGED neg
       \/ /\ r.status = "SUCCESS"   \* SMB 3.11 without negotiate contexts
          /\ EndOnly(p, "ERROR")
          /\ UNCHANGED neg
       \/ /\ r.status = "SUCCESS"
          /\ dialect' \in {"0202", "later"}
          /\ multi' \in {multi, multi \/ dialect' = "later"}
          /\ signing_required' \in {signing_required, TRUE}
          /\ \/ CloseAndEnd(p, "ERROR")  \* the authenticator fails
             \/ /\ GoOn(p, "SUCCESS", "SESSION_SETUP",
                         IF dialect' = "0202" THEN 0 ELSE 1, TRUE)
                /\ UNCHANGED <<session_id, tree_id, session_key>>

OnSessionSetup(r, p) ==
    /\ Handle(r, p, "SESSION_SETUP")
    /\ UNCHANGED neg
    /\ \/ /\ r.status \notin {"SUCCESS", "MORE_PROCESSING_REQUIRED"}
          /\ CloseAndEnd(p, r.status)
       \/ /\ r.status = "MORE_PROCESSING_REQUIRED"
          /\ \/ CloseAndEnd(p, "ERROR")  \* the authenticator fails
             \/ /\ session_id' = TRUE
                /\ GoOn(p, r.status, "SESSION_SETUP", DefaultCharge, TRUE)
                /\ UNCHANGED <<tree_id, session_key>>
       \/ /\ r.status = "SUCCESS"  \* krb5: the second call of the authenticator fails
          /\ SetNtStatus(p, "ERROR")
          /\ EndSendReceive(p)
          /\ session_id' = TRUE
          /\ replies' = Tail(replies)
          /\ UNCHANGED <<connected, message_id, tree_id, session_key, fresh, link, inbox, interim,
                         outqueue, stream, unpaid>>
       \/ /\ r.status = "SUCCESS"
          /\ signing_required
          /\ CloseAndEnd(p, "ERROR")  \* no usable session key
       \/ /\ r.status = "SUCCESS"
          /\ session_id' = TRUE
          /\ session_key' = (session_key \/ signing_required)
          /\ GoOn(p, "SUCCESS", "TREE_CONNECT", DefaultCharge,
                  CanSign("TREE_CONNECT", signing_required, TRUE, session_key'))
          /\ UNCHANGED tree_id

OnTreeConnect(r, p) ==
    /\ Handle(r, p, "TREE_CONNECT")
    /\ UNCHANGED neg
    /\ \/ /\ r.status # "SUCCESS"
          /\ CloseAndEnd(p, r.status)
       \/ /\ r.status = "SUCCESS"
          /\ SetNtStatus(p, "SUCCESS")
          /\ EndSendReceive(p)
          /\ tree_id' = TRUE
          /\ replies' = Tail(replies)
          /\ UNCHANGED <<connected, message_id, session_id, session_key, fresh, link, inbox, interim,
                         outqueue, stream, unpaid>>

(* Mutant: the call ends before LOGOFF, which is queued, is answered.       *)
M_OnTreeDisconnect(r, p) ==
    /\ Handle(r, p, "TREE_DISCONNECT")
    /\ SetNtStatus(p, r.status)
    /\ EndSendReceive(p)
    /\ QueuePdu(<<"LOGOFF">>, DefaultCharge, TRUE, p.call)
    /\ replies' = Tail(replies)
    /\ UNCHANGED <<connected, fresh, link, inbox, interim, stream, neg, session_id, tree_id, session_key>>

OnTreeDisconnect(r, p) ==
    /\ Handle(r, p, "TREE_DISCONNECT")
    /\ GoOn(p, r.status, "LOGOFF", DefaultCharge,
            CanSign("LOGOFF", signing_required, session_id, session_key))
    /\ UNCHANGED <<neg, session_id, tree_id, session_key>>

OnLogoff(r, p) ==
    /\ Handle(r, p, "LOGOFF")
    /\ CloseAndEnd(p, r.status)
    /\ UNCHANGED neg

(* In a chain CREATE ends the call only when it fails.                      *)
OnCompoundCreate(r, p) ==
    /\ Handle(r, p, "C_CREATE")
    /\ IF r.status = "SUCCESS" THEN UNCHANGED done ELSE EndSendReceive(p)
    /\ replies' = Tail(replies)
    /\ UNCHANGED <<ctx, neg, outqueue, data, stream, unpaid>>

OnCompoundClose(r, p) ==
    /\ Handle(r, p, "C_CLOSE")
    /\ EndOnly(p, r.status)
    /\ UNCHANGED neg

OnIO(r, p) ==
    /\ Handle(r, p, "IO")
    /\ EndOnly(p, r.status)
    /\ UNCHANGED neg

OnQueryDirectory(r, p) ==
    /\ Handle(r, p, "QUERY_DIRECTORY")
    /\ UNCHANGED neg
    /\ \/ /\ r.status = "SUCCESS"
          /\ GoOn(p, "SUCCESS", "QUERY_DIRECTORY",
                  IF multi THEN 1 ELSE DefaultCharge,
                  CanSign("QUERY_DIRECTORY", signing_required, session_id, session_key))
          /\ UNCHANGED <<session_id, tree_id, session_key>>
       \/ /\ r.status = "SUCCESS"  \* no entry, or one that does not parse
          /\ EndOnly(p, "SUCCESS")
       \/ /\ r.status # "SUCCESS"
          /\ EndOnly(p, IF r.status = "NO_MORE_FILES" THEN "SUCCESS" ELSE r.status)

(***************************************************************************)
(* The server and the network (external).                                  *)
(***************************************************************************)

client == <<connected, message_id, session_id, tree_id, session_key, fresh, neg, acct,
            outqueue, waitqueue, done, pc, pollout, app, data, stream, unpaid>>

(* The statuses a command can be answered with; the exchanges that take     *)
(* several rounds end when the message ids reach the bound.                 *)
Answers(m) ==
    LET cmd == m.cmds[1]
    IN  CASE cmd = "SESSION_SETUP" ->
               {"SUCCESS", "ERROR"} \cup
               (IF m.id < MaxId THEN {"MORE_PROCESSING_REQUIRED"} ELSE {})
          [] cmd = "QUERY_DIRECTORY" ->
               {"NO_MORE_FILES", "ERROR"} \cup (IF m.id < MaxId THEN {"SUCCESS"} ELSE {})
          [] OTHER -> {"SUCCESS", "ERROR"}

(* The response to one request; a request for no bytes is never answered    *)
(* (the comments in smb2_pread and smb2_pwrite).                            *)
ServerAnswers(m, g) ==
    /\ Len(m.cmds) = 1
    /\ m.cmds # <<"EMPTY_IO">>
    /\ \E s \in Answers(m) :
        replies' = Append(replies, [id |-> m.id, status |-> s, grant |-> g, last |-> TRUE])
    /\ inbox' = inbox \ {m}
    /\ UNCHANGED <<client, link, interim>>

(* The three responses to a chain, in one message or in three.  When CREATE *)
(* fails the related requests fail with it.                                 *)
ServerAnswersChain(m, g) ==
    /\ m.cmds = Compound
    /\ \E s \in {<<"SUCCESS", "SUCCESS", "SUCCESS">>, <<"SUCCESS", "ERROR", "SUCCESS">>,
                  <<"ERROR", "ERROR", "ERROR">>} :
        replies' = replies \o
            [i \in 1..3 |-> [id |-> m.id + i - 1, status |-> s[i], grant |-> g,
                             last |-> i = 3 \/ ~Chained]]
    /\ inbox' = inbox \ {m}
    /\ UNCHANGED <<client, link, interim>>

(* An interim response: the request has gone asynchronous.                  *)
ServerPends(m, g) ==
    /\ Async
    /\ m.cmds = <<"IO">>
    /\ m.id \notin interim
    /\ interim' = interim \cup {m.id}
    /\ replies' = Append(replies, [id |-> m.id, status |-> "PENDING", grant |-> g,
                                   last |-> TRUE])
    /\ UNCHANGED <<client, link, inbox>>

LinkBreaks ==
    /\ Faulty
    /\ connected /\ link
    /\ pc # "recv"
    /\ link' = FALSE
    /\ inbox' = {}
    /\ replies' = <<>>
    /\ UNCHANGED <<client, interim>>

(***************************************************************************)
(* The specification.                                                      *)
(***************************************************************************)

Call == ConnectShare \/ Operate \/ ReadNothing \/ OperateUnconnected

Process(r, p) ==
    \/ OnNegotiate(r, p) \/ OnSessionSetup(r, p) \/ OnTreeConnect(r, p)
    \/ OnTreeDisconnect(r, p) \/ OnLogoff(r, p)
    \/ OnCompoundCreate(r, p) \/ OnCompoundClose(r, p) \/ OnIO(r, p)
    \/ OnQueryDirectory(r, p)

Step ==
    \/ Return \/ PollIn \/ PollOut \/ SendDone
    \/ \E m \in outqueue : SendPdu(m) \/ SendFails(m)
    \/ RecvGarbage \/ RecvUnmatched
    \/ \E p \in waitqueue : RecvPending(Head(replies), p) \/ Process(Head(replies), p)

Server == \E m \in inbox, g \in Grants : ServerAnswers(m, g) \/ ServerAnswersChain(m, g)

Disturbance ==
    \/ PollFails \/ RecvShort
    \/ \E p \in waitqueue : RecvMalformed(Head(replies), p)
    \/ \E m \in inbox, g \in Grants : ServerPends(m, g)
    \/ LinkBreaks

Next == Call \/ Step \/ Server \/ Disturbance

(* The thread inside a call keeps running, and the server answers what it   *)
(* has received; nothing obliges the application to call, or the network to *)
(* fail.                                                                    *)
Spec == Init /\ [][Next]_vars /\ WF_vars(Step) /\ WF_vars(Server)
(***************************************************************************)
(* Properties.                                                             *)
(***************************************************************************)

(* On the first connection of a context, unless an id was taken for nothing *)
(* (a request charged 0, as all are in dialect 2.02, or one that could not  *)
(* be signed), no request is sent with a message id beyond those the        *)
(* credits received so far allow: the ids encodeHeader takes when a request *)
(* is queued and the credits smb2_pdu_add_to_waitqueue takes when it is     *)
(* sent never drift apart, whatever is pipelined, chained, put back for     *)
(* lack of credits, or lost.                                                *)
WithinWindow ==
    (fresh /\ ~unpaid) =>
        \A p \in waitqueue : p.id + Span(p.charge) <= window

(* While a share is mounted for the first time every id was paid for: no    *)
(* request was charged nothing and none failed to be signed.                *)
EveryIdPaidFor ==
    (fresh /\ dialect = "later" /\ tree_id) => ~unpaid

(* On the first connection no two requests share a message id, so no        *)
(* assignment to outqueue or waitqueue overwrites (and leaks) a PDU and a   *)
(* reply can only match the request it answers.                             *)
UniqueIds ==
    fresh =>
        /\ \A m \in outqueue : m.id < message_id /\ \A p \in waitqueue : p.id < m.id
        /\ \A m, n \in outqueue : m.id = n.id => m = n
        /\ \A p, q \in waitqueue : p.id = q.id => p = q

(* A call comes back from sendAndReceive because of a reply to one of its   *)
(* own requests, and the status it returns was set by one.                  *)
OwnReply ==
    (pc = "loop" /\ isComplete) => completer = call /\ answered

(* No reply is stored in the AppData of a call that has returned (a dead    *)
(* stack frame).                                                            *)
NoDanglingReply == ~dangling

(* A call leaves nothing in the queues for the next call to trip over.      *)
QueuesDrained ==
    pc = "idle" => outqueue = {} /\ waitqueue = {}

(* A connect_share that reports success has a session, a tree and, if the   *)
(* server wants signatures, a key to sign with.                             *)
MountedAfterConnect ==
    (op = "connect" /\ pc = "idle" /\ result = "SUCCESS") =>
        connected /\ session_id /\ tree_id /\ (signing_required => session_key)

(* Every request the server is still going to answer is awaited:            *)
(* receivePdus will find its PDU.                                           *)
AwaitedRequests ==
    \A m \in inbox : \A u \in Unchained(m) : \E p \in waitqueue : p.id = u.id

(* Every API call returns, although sendAndReceive has no time limit.       *)
CallsReturn == pc # "idle" ~> pc = "idle"
=============================================================================
