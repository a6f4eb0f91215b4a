--------------------------- MODULE Smb2ClientProofs ---------------------------
(***************************************************************************)
(* Proofs about Smb2Client for every value of its constants.               *)
(***************************************************************************)
EXTENDS Smb2Client, TLAPS

(***************************************************************************)
(* The inductive invariant.                                                *)
(***************************************************************************)

(* The message ids a queued chain occupies.                                 *)
Width(m) == Len(m.cmds) * Span(m.charge)

(* The ids handed out lie below message_id, those of two messages of the    *)
(* outqueue do not overlap, and what was sent lies below what is queued.    *)
IdsOrdered ==
    /\ \A m \in outqueue : m.id + Width(m) <= message_id
    /\ \A m, n \in outqueue :
        m = n \/ m.id + Width(m) <= n.id \/ n.id + Width(n) <= m.id
    /\ \A p \in waitqueue :
        /\ p.id + Span(p.charge) <= message_id
        /\ \A m \in outqueue : p.id + Span(p.charge) <= m.id
    /\ \A p, q \in waitqueue : p.id = q.id => p = q

(* Before the first connection nothing has happened.                        *)
NothingYet ==
    ~connected => message_id = 0 /\ credits = 0 /\ window = 1
                  /\ outqueue = {} /\ waitqueue = {}

(* Only NEGOTIATE is free; it is the first message, and is sent before any  *)
(* credits arrive.  In dialect 2.02, where credits are not checked, nothing *)
(* else is queued.                                                          *)
ChargesPaid ==
    /\ \A m \in outqueue : m.charge = 0 =>
        m.cmds = <<"NEGOTIATE">> /\ m.id = 0 /\ credits = 0
    /\ dialect = "0202" => ~multi /\ \A m \in outqueue : m.charge = 0

(* The outqueue leaves no gap in the ids, and its first message (or, when   *)
(* it is empty, the next one) starts no further than the window minus the   *)
(* credits at hand.                                                         *)
CreditsCoverIds ==
    /\ window >= 1
    /\ \A m \in outqueue :
        m.id + Width(m) = message_id \/ \E n \in outqueue : n.id = m.id + Width(m)
    /\ \A m \in outqueue :
        (\A n \in outqueue : m.id <= n.id) => m.id + credits <= window
    /\ outqueue = {} => message_id + credits <= window
    /\ \A p \in waitqueue : p.id + Span(p.charge) <= window

IInv ==
    /\ TypeOK
    /\ fresh => IdsOrdered /\ NothingYet
    /\ (fresh /\ ~unpaid) => ChargesPaid /\ CreditsCoverIds

(***************************************************************************)
(* The building blocks.                                                    *)
(***************************************************************************)

(* A chain has one PDU or three, each of them a command.                    *)
LEMMA ChainLength ==
    ASSUME NEW c \in Chains
    PROVE  Len(c) \in {1, 3} /\ \A i \in 1..Len(c) : c[i] \in Commands
BY DEF Chains, Compound, Commands

(* encodeHeader takes at least one id, and at least as many as the charge.  *)
LEMMA SpanNat ==
    ASSUME NEW charge \in Nat
    PROVE  Span(charge) \in Nat /\ Span(charge) >= 1 /\ Span(charge) >= charge
BY DEF Span

(* The PDUs of a sent message are PDUs.                                     *)
LEMMA UnchainedType ==
    ASSUME NEW m \in Messages
    PROVE  Unchained(m) \subseteq PDUs
<1> SUFFICES ASSUME NEW i \in 1..Len(m.cmds)
             PROVE  [id |-> m.id + (i - 1) * Span(m.charge), cmd |-> m.cmds[i],
                     charge |-> m.charge, call |-> m.call] \in PDUs
    BY DEF Unchained
<1>1. m.id \in Nat /\ m.cmds \in Chains /\ m.charge \in Nat /\ m.call \in Nat
    BY DEF Messages
<1>2. Len(m.cmds) \in {1, 3} /\ m.cmds[i] \in Commands
    BY <1>1, ChainLength
<1>3. i = 1 \/ i = 2 \/ i = 3
    BY <1>2
<1>4. (i - 1) * Span(m.charge) \in Nat
    <2>1. Span(m.charge) \in Nat
        BY <1>1, SpanNat
    <2>2. CASE i = 1
        BY <2>1, <2>2
    <2>3. CASE i = 2
        BY <2>1, <2>3
    <2>4. CASE i = 3
        BY <2>1, <2>4
    <2> QED
        BY <1>3, <2>2, <2>3, <2>4
<1> QED
    BY <1>1, <1>2, <1>4 DEF PDUs

(* Queueing a message keeps the types of what it changes.                   *)
LEMMA QueuePduType ==
    ASSUME TypeOK, NEW cmds \in Chains, NEW charge \in Nat, NEW signed \in BOOLEAN,
           NEW caller \in Nat, QueuePdu(cmds, charge, signed, caller)
    PROVE  message_id' \in Nat /\ outqueue' \subseteq Messages /\ unpaid' \in BOOLEAN
<1>1. Len(cmds) \in {1, 3} /\ Span(charge) \in Nat
    BY ChainLength, SpanNat
<1>2. message_id' \in Nat
    BY <1>1 DEF QueuePdu, TypeOK
<1>3. [id |-> message_id, cmds |-> cmds, charge |-> charge, call |-> caller] \in Messages
    BY DEF Messages, TypeOK
<1>4. outqueue' \subseteq Messages
    BY <1>3 DEF QueuePdu, Put, TypeOK
<1>5. unpaid' \in BOOLEAN
    BY DEF QueuePdu, TypeOK
<1> QED
    BY <1>2, <1>4, <1>5

(* CanSign is a Boolean.                                                    *)
LEMMA CanSignType ==
    ASSUME NEW cmd, NEW signing \in BOOLEAN, NEW session \in BOOLEAN, NEW key \in BOOLEAN
    PROVE  CanSign(cmd, signing, session, key) \in BOOLEAN
BY DEF CanSign

(* Taking a reply keeps the types of what it changes.                       *)
LEMMA TakePduType ==
    ASSUME TypeOK, NEW r, NEW p, Receiving(r, p), TakePdu(r, p)
    PROVE  /\ r \in Replies /\ p \in PDUs /\ p \in waitqueue
           /\ Tail(replies) \in Seq(Replies)
           /\ waitqueue' \subseteq PDUs
           /\ credits' \in 0..(Word - 1)
           /\ window' \in Nat
<1>1. r \in Replies /\ Tail(replies) \in Seq(Replies)
    BY DEF Receiving, TypeOK
<1>2. p \in PDUs /\ p \in waitqueue
    BY DEF Receiving, Matches, TypeOK
<1>3. r.grant \in Nat
    BY <1>1, CreditAssumption DEF Replies
<1>4. credits' \in 0..(Word - 1)
    BY <1>3, BoundAssumption DEF TakePdu, TypeOK
<1>5. window' \in Nat /\ waitqueue' \subseteq PDUs
    BY <1>3 DEF TakePdu, TypeOK
<1> QED
    BY <1>1, <1>2, <1>4, <1>5

(***************************************************************************)
(* Type correctness.                                                       *)
(***************************************************************************)

(* Every request the API functions build is well formed.                    *)
LEMMA RequestType ==
    ASSUME TypeOK, NEW q \in Requests \cup RWRequests
    PROVE  q.op \in Ops /\ q.cmds \in Chains /\ q.charge \in Nat
<1>1. /\ <<"IO">> \in Chains /\ <<"EMPTY_IO">> \in Chains /\ Compound \in Chains
      /\ <<"QUERY_DIRECTORY">> \in Chains /\ <<"TREE_DISCONNECT">> \in Chains
    BY DEF Chains, Commands
<1>2. credits \in Nat
    BY BoundAssumption DEF TypeOK
<1>3. \A n \in Needs : n \in Nat
    BY CreditAssumption
<1>4. CASE q \in Requests
    <2>1. /\ q.op \in {"io", "ioctl", "compound", "querydir", "disconnect"}
          /\ q.cmds \in {<<"IO">>, Compound, <<"QUERY_DIRECTORY">>, <<"TREE_DISCONNECT">>}
          /\ q.charge \in {0, 1} \cup Needs
        BY <1>4 DEF Requests, IORequests, IoctlRequests, CompoundRequests,
               QueryDirectoryRequests, DisconnectRequests, DefaultCharge
    <2>2. q.op \in Ops
        BY <2>1 DEF Ops
    <2>3. q.charge \in Nat
        BY <1>3, <2>1
    <2> QED
        BY <1>1, <2>1, <2>2, <2>3
<1>5. CASE q \in RWRequests
    <2>1. /\ q.op = "rw" /\ q.cmds \in {<<"IO">>, <<"EMPTY_IO">>}
          /\ q.charge \in {0, 1, credits} \cup Needs
        BY <1>5 DEF RWRequests
    <2> QED
        BY <1>1, <1>2, <1>3, <2>1 DEF Ops
<1> QED
    BY <1>4, <1>5

(* The API calls keep the types.                                            *)
LEMMA CallType ==
    ASSUME TypeOK, Call
    PROVE  TypeOK'
<1> USE DEF TypeOK
<1>1. ASSUME NEW o \in Ops, NEW r \in Results, Refuse(o, r)
      PROVE  TypeOK'
    BY <1>1 DEF Refuse, ctx, neg, acct, done, data
<1>2. ASSUME NEW o \in Ops, NEW cmds \in Chains, NEW charge \in Nat,
             NEW signed \in BOOLEAN, Begin(o, cmds, charge, signed),
             connected' \in BOOLEAN, link' \in BOOLEAN,
             UNCHANGED <<session_id, tree_id, session_key, fresh, inbox, interim>>
      PROVE  TypeOK'
    <2>1. message_id' \in Nat /\ outqueue' \subseteq Messages /\ unpaid' \in BOOLEAN
        <3>1. call + 1 \in Nat
            OBVIOUS
        <3>2. QueuePdu(cmds, charge, signed, call + 1)
            BY <1>2 DEF Begin
        <3> QED
            BY <3>1, <3>2, QueuePduType
    <2>2. /\ result' \in Results /\ ntStatus' \in Statuses /\ answered' \in BOOLEAN
          /\ pc' \in {"idle", "loop", "recv", "send"} /\ isComplete' \in BOOLEAN
        BY <1>2 DEF Begin, Results, Statuses
    <2>3. call' \in Nat /\ op' \in Ops
        BY <1>2 DEF Begin
    <2>4. UNCHANGED <<neg, acct, waitqueue, pollout, completer, dangling, stream, replies>>
        BY <1>2 DEF Begin
    <2> QED
        BY <1>2, <2>1, <2>2, <2>3, <2>4 DEF neg, acct
<1>3. CASE ConnectShare
    <2>1. "connect" \in Ops /\ "SOCKET_ERROR" \in Results /\ <<"NEGOTIATE">> \in Chains
        BY DEF Ops, Results, Chains, Commands
    <2> QED
        BY <1>1, <1>2, <1>3, <2>1 DEF ConnectShare
<1>4. CASE Operate
    <2>1. PICK q \in Requests \cup RWRequests :
            Begin(q.op, q.cmds, q.charge,
                  CanSign(q.cmds[1], signing_required, session_id, session_key))
        BY <1>4 DEF Operate
    <2>2. q.op \in Ops /\ q.cmds \in Chains /\ q.charge \in Nat
        BY RequestType
    <2>3. CanSign(q.cmds[1], signing_required, session_id, session_key) \in BOOLEAN
        BY CanSignType
    <2> QED
        BY <1>2, <1>4, <2>1, <2>2, <2>3 DEF Operate
<1>5. CASE ReadNothing
    BY <1>1, <1>5 DEF ReadNothing, Ops, Results, Statuses
<1>6. CASE OperateUnconnected
    BY <1>1, <1>6 DEF OperateUnconnected, Ops, Results, Statuses
<1> QED
    BY <1>3, <1>4, <1>5, <1>6 DEF Call

(* The poll loop and the sends keep the types.                              *)
LEMMA LoopType ==
    ASSUME TypeOK,
           \/ Return \/ PollFails \/ PollIn \/ PollOut \/ SendDone
           \/ \E m \in outqueue : SendPdu(m) \/ SendFails(m)
    PROVE  TypeOK'
<1> USE DEF TypeOK, ctx, neg, acct, done, app, data
<1>1. CASE Return
    BY <1>1 DEF Return, Results
<1>2. CASE PollFails
    BY <1>2 DEF PollFails, Fail, Results
<1>3. CASE PollIn
    <2>1. pollout' = FALSE \/ pollout' = (outqueue # {})
        BY <1>3 DEF PollIn
    <2>2. pollout' \in BOOLEAN
        BY <2>1
    <2> QED
        BY <1>3, <2>2 DEF PollIn
<1>4. CASE PollOut
    BY <1>4 DEF PollOut
<1>5. CASE SendDone
    BY <1>5 DEF SendDone
<1>6. ASSUME NEW m \in outqueue, SendPdu(m)
      PROVE  TypeOK'
    <2>1. m \in Messages
        OBVIOUS
    <2>2. Unchained(m) \subseteq PDUs
        BY <2>1, UnchainedType
    <2>3. credits' \in 0..(Word - 1)
        <3>1. Len(m.cmds) \in {1, 3} /\ m.charge \in Nat
            BY <2>1, ChainLength DEF Messages
        <3>2. TotalCharge(m) \in Nat
            BY <3>1 DEF TotalCharge
        <3> QED
            BY <1>6, <3>2, BoundAssumption DEF SendPdu
    <2>4. outqueue' \subseteq Messages /\ inbox' \subseteq Messages /\ waitqueue' \subseteq PDUs
        BY <1>6, <2>1, <2>2 DEF SendPdu
    <2> QED
        BY <1>6, <2>3, <2>4 DEF SendPdu
<1>7. ASSUME NEW m \in outqueue, SendFails(m)
      PROVE  TypeOK'
    BY <1>7 DEF SendFails, Fail, Results
<1> QED
    BY <1>1, <1>2, <1>3, <1>4, <1>5, <1>6, <1>7

(* The receives that do not reach a handler keep the types.                 *)
LEMMA RecvType ==
    ASSUME TypeOK,
           \/ RecvGarbage \/ RecvUnmatched \/ RecvShort
           \/ \E p \in waitqueue : \/ RecvMalformed(Head(replies), p)
                                   \/ RecvPending(Head(replies), p)
    PROVE  TypeOK'
<1> DEFINE r == Head(replies)
<1>1. CASE RecvGarbage
    <2>1. replies' \in Seq(Replies) /\ stream' \in {"synced", "lost"}
        <3>1. <<>> \in Seq(Replies)
            OBVIOUS
        <3> QED
            BY <1>1, <3>1 DEF RecvGarbage, TypeOK
    <2> QED
        BY <1>1, <2>1 DEF RecvGarbage, Fail, Results, TypeOK, ctx, neg, acct, done, data
<1>2. CASE RecvUnmatched
    <2>1. replies' \in Seq(Replies)
        BY <1>2 DEF RecvUnmatched, TypeOK
    <2> QED
        BY <1>2, <2>1 DEF RecvUnmatched, Fail, Results, TypeOK, ctx, neg, acct, done, data
<1>3. ASSUME NEW p \in waitqueue, RecvMalformed(r, p)
      PROVE  TypeOK'
    <2>1. Receiving(r, p) /\ TakePdu(r, p)
        BY <1>3 DEF RecvMalformed
    <2>2. /\ Tail(replies) \in Seq(Replies) /\ waitqueue' \subseteq PDUs
          /\ credits' \in 0..(Word - 1) /\ window' \in Nat
        BY <2>1, TakePduType
    <2>3. session_id' \in BOOLEAN /\ tree_id' \in BOOLEAN
        BY <1>3 DEF RecvMalformed, TypeOK
    <2> QED
        BY <1>3, <2>2, <2>3 DEF RecvMalformed, Fail, Results, TypeOK, neg, done, data
<1>4. ASSUME NEW p \in waitqueue, RecvPending(r, p)
      PROVE  TypeOK'
    <2>1. Receiving(r, p) /\ TakePdu(r, p)
        BY <1>4 DEF RecvPending
    <2>2. /\ Tail(replies) \in Seq(Replies) /\ waitqueue' \subseteq PDUs
          /\ credits' \in 0..(Word - 1) /\ window' \in Nat
        BY <2>1, TakePduType
    <2>3. pc' \in {"recv", "send", "loop"}
        BY <1>4 DEF RecvPending, AfterReply
    <2> QED
        BY <1>4, <2>2, <2>3 DEF RecvPending, TypeOK, ctx, neg, done, app, data
<1>5. CASE RecvShort
    <2>1. replies' \in Seq(Replies)
        BY <1>5 DEF RecvShort, TypeOK
    <2> QED
        BY <1>5, <2>1 DEF RecvShort, Fail, Results, TypeOK, ctx, neg, acct, done, data
<1> QED
    BY <1>1, <1>2, <1>3, <1>4, <1>5

(* The types of what Handle sets, of the negotiated values, and of what is  *)
(* left to the handlers.                                                    *)
ReceivedType ==
    /\ waitqueue \subseteq PDUs /\ credits \in 0..(Word - 1) /\ window \in Nat
    /\ pc \in {"idle", "loop", "recv", "send"} /\ pollout \in BOOLEAN
    /\ call \in Nat /\ op \in Ops /\ result \in Results

NegotiatedType ==
    dialect \in {"0202", "later"} /\ multi \in BOOLEAN /\ signing_required \in BOOLEAN

SessionType == session_id \in BOOLEAN /\ tree_id \in BOOLEAN /\ session_key \in BOOLEAN

HandledType ==
    /\ connected \in BOOLEAN /\ link \in BOOLEAN /\ fresh \in BOOLEAN /\ message_id \in Nat
    /\ outqueue \subseteq Messages /\ unpaid \in BOOLEAN
    /\ isComplete \in BOOLEAN /\ completer \in Nat
    /\ ntStatus \in Statuses /\ answered \in BOOLEAN /\ dangling \in BOOLEAN
    /\ stream \in {"synced", "lost"}
    /\ inbox \subseteq Messages /\ interim \subseteq Nat /\ replies \in Seq(Replies)

(* The three parts, with SessionType, make up TypeOK.                       *)
LEMMA TypeParts ==
    /\ TypeOK <=> ReceivedType /\ NegotiatedType /\ SessionType /\ HandledType
    /\ TypeOK' <=> ReceivedType' /\ NegotiatedType' /\ SessionType' /\ HandledType'
BY DEF TypeOK, ReceivedType, NegotiatedType, SessionType, HandledType

(* What every handled reply does, whatever its command.                     *)
LEMMA HandleType ==
    ASSUME TypeOK, NEW r, NEW p, NEW cmd, Handle(r, p, cmd)
    PROVE  /\ ReceivedType'
           /\ r.status \in Statuses /\ p.call \in Nat /\ p \in waitqueue
           /\ Tail(replies) \in Seq(Replies)
<1>1. Receiving(r, p) /\ TakePdu(r, p)
    BY DEF Handle
<1>2. /\ r \in Replies /\ p \in PDUs /\ p \in waitqueue
      /\ Tail(replies) \in Seq(Replies) /\ waitqueue' \subseteq PDUs
      /\ credits' \in 0..(Word - 1) /\ window' \in Nat
    BY <1>1, TakePduType
<1>3. pc' \in {"idle", "loop", "recv", "send"}
    BY DEF Handle, AfterReply
<1>4. UNCHANGED <<pollout, call, op, result>>
    BY DEF Handle, app
<1> QED
    BY <1>2, <1>3, <1>4 DEF ReceivedType, TypeOK, Replies, PDUs

(* setNtStatus keeps the types of the call's data.                          *)
LEMMA SetNtStatusType ==
    ASSUME TypeOK, NEW p, NEW status \in Statuses, SetNtStatus(p, status)
    PROVE  ntStatus' \in Statuses /\ answered' \in BOOLEAN /\ dangling' \in BOOLEAN
BY DEF SetNtStatus, data, TypeOK

(* The three ways a handler can end keep the types.                         *)
LEMMA CloseAndEndType ==
    ASSUME TypeOK, NEW p, p.call \in Nat, NEW status \in Statuses, CloseAndEnd(p, status)
    PROVE  HandledType' /\ SessionType'
<1>1. ntStatus' \in Statuses /\ answered' \in BOOLEAN /\ dangling' \in BOOLEAN
    BY SetNtStatusType DEF CloseAndEnd
<1>2. isComplete' \in BOOLEAN /\ completer' \in Nat
    BY DEF CloseAndEnd, EndSendReceive
<1>3. replies' \in Seq(Replies)
    BY DEF CloseAndEnd, Close
<1> QED
    BY <1>1, <1>2, <1>3 DEF CloseAndEnd, Close, HandledType, SessionType, TypeOK

(* A handler that ends the call.                                            *)
LEMMA EndOnlyType ==
    ASSUME TypeOK, NEW p, p.call \in Nat, NEW status \in Statuses, EndOnly(p, status),
           Tail(replies) \in Seq(Replies)
    PROVE  HandledType' /\ SessionType'
<1>1. ntStatus' \in Statuses /\ answered' \in BOOLEAN /\ dangling' \in BOOLEAN
    BY SetNtStatusType DEF EndOnly
<1>2. isComplete' \in BOOLEAN /\ completer' \in Nat
    BY DEF EndOnly, EndSendReceive
<1> QED
    BY <1>1, <1>2 DEF EndOnly, HandledType, SessionType, TypeOK, ctx

(* A handler that queues the next request of its call.                      *)
LEMMA GoOnType ==
    ASSUME TypeOK, NEW p, p.call \in Nat, NEW status \in Statuses, NEW cmd \in Commands,
           NEW charge \in Nat, NEW signed \in BOOLEAN, GoOn(p, status, cmd, charge, signed),
           Tail(replies) \in Seq(Replies)
    PROVE  HandledType'
<1>1. ntStatus' \in Statuses /\ answered' \in BOOLEAN /\ dangling' \in BOOLEAN
    BY SetNtStatusType DEF GoOn
<1>2. message_id' \in Nat /\ outqueue' \subseteq Messages /\ unpaid' \in BOOLEAN
    <2>1. <<cmd>> \in Chains
        BY DEF Chains
    <2> QED
        BY <2>1, QueuePduType DEF GoOn
<1> QED
    BY <1>1, <1>2 DEF GoOn, HandledType, TypeOK, done

(* A handler keeps the negotiated values.                                   *)
LEMMA NegotiatedKept ==
    ASSUME TypeOK, UNCHANGED neg
    PROVE  NegotiatedType'
BY DEF TypeOK, NegotiatedType, neg

(* The reply handlers keep the types.                                       *)
LEMMA ProcessType ==
    ASSUME TypeOK, NEW r, NEW p, Process(r, p)
    PROVE  TypeOK'
<1>1. {"SUCCESS", "ERROR"} \subseteq Statuses
    BY DEF Statuses
<1>2. /\ {"SESSION_SETUP", "TREE_CONNECT", "LOGOFF", "QUERY_DIRECTORY"} \subseteq Commands
      /\ DefaultCharge \in Nat /\ (IF dialect' = "0202" THEN 0 ELSE 1) \in Nat
      /\ (IF multi THEN 1 ELSE DefaultCharge) \in Nat
    BY DEF Commands, DefaultCharge
<1>3. CASE OnNegotiate(r, p)
    <2>1. /\ ReceivedType' /\ r.status \in Statuses /\ p.call \in Nat
          /\ Tail(replies) \in Seq(Replies)
        BY <1>3, HandleType DEF OnNegotiate
    <2>2. NegotiatedType'
        <3>1. CASE UNCHANGED neg
            BY <3>1, NegotiatedKept
        <3>2. CASE /\ dialect' \in {"0202", "later"}
                   /\ multi' \in {multi, multi \/ dialect' = "later"}
                   /\ signing_required' \in {signing_required, TRUE}
            <4>1. multi' \in BOOLEAN
                <5>1. multi' = multi \/ multi' = (multi \/ dialect' = "later")
                    BY <3>2
                <5> QED
                    BY <5>1 DEF TypeOK
            <4>2. signing_required' \in BOOLEAN
                BY <3>2 DEF TypeOK
            <4> QED
                BY <3>2, <4>1, <4>2 DEF NegotiatedType
        <3> QED
            BY <1>3, <3>1, <3>2 DEF OnNegotiate
    <2>3. HandledType' /\ SessionType'
        <3>1. ASSUME NEW st \in Statuses, CloseAndEnd(p, st) \/ EndOnly(p, st)
              PROVE  HandledType' /\ SessionType'
            BY <2>1, <3>1, CloseAndEndType, EndOnlyType
        <3>2. CASE /\ GoOn(p, "SUCCESS", "SESSION_SETUP",
                           IF dialect' = "0202" THEN 0 ELSE 1, TRUE)
                   /\ UNCHANGED <<session_id, tree_id, session_key>>
            BY <1>1, <1>2, <2>1, <3>2, GoOnType DEF SessionType, TypeOK
        <3> QED
            BY <1>1, <1>3, <2>1, <3>1, <3>2 DEF OnNegotiate
    <2> QED
        BY <2>1, <2>2, <2>3, TypeParts
<1>4. CASE OnSessionSetup(r, p)
    <2>1. /\ ReceivedType' /\ r.status \in Statuses /\ p.call \in Nat
          /\ Tail(replies) \in Seq(Replies)
        BY <1>4, HandleType DEF OnSessionSetup
    <2>2. NegotiatedType'
        BY <1>4, NegotiatedKept DEF OnSessionSetup
    <2>3. HandledType' /\ SessionType'
        <3>1. ASSUME NEW st \in Statuses, CloseAndEnd(p, st)
              PROVE  HandledType' /\ SessionType'
            BY <2>1, <3>1, CloseAndEndType
        <3>2. CASE /\ session_id' = TRUE
                   /\ GoOn(p, r.status, "SESSION_SETUP", DefaultCharge, TRUE)
                   /\ UNCHANGED <<tree_id, session_key>>
            BY <1>1, <1>2, <2>1, <3>2, GoOnType DEF SessionType, TypeOK
        <3>3. CASE /\ SetNtStatus(p, "ERROR")
                   /\ EndSendReceive(p)
                   /\ session_id' = TRUE
                   /\ replies' = Tail(replies)
                   /\ UNCHANGED <<connected, message_id, tree_id, session_key, fresh, link,
                                  inbox, interim, outqueue, stream, unpaid>>
            <4>1. ntStatus' \in Statuses /\ answered' \in BOOLEAN /\ dangling' \in BOOLEAN
                BY <1>1, <3>3, SetNtStatusType
            <4> QED
                BY <2>1, <3>3, <4>1 DEF EndSendReceive, HandledType, SessionType, TypeOK
        <3>4. CASE /\ session_id' = TRUE
                   /\ session_key' = (session_key \/ signing_required)
                   /\ GoOn(p, "SUCCESS", "TREE_CONNECT", DefaultCharge,
                           CanSign("TREE_CONNECT", signing_required, TRUE, session_key'))
                   /\ UNCHANGED tree_id
            <4>1. session_key' \in BOOLEAN
                BY <3>4
            <4>2. CanSign("TREE_CONNECT", signing_required, TRUE, session_key') \in BOOLEAN
                BY <4>1, CanSignType DEF TypeOK
            <4>3. HandledType'
                BY <1>1, <1>2, <2>1, <3>4, <4>2, GoOnType
            <4> QED
                BY <3>4, <4>1, <4>3 DEF SessionType, TypeOK
        <3> QED
            BY <1>1, <1>4, <2>1, <3>1, <3>2, <3>3, <3>4 DEF OnSessionSetup
    <2> QED
        BY <2>1, <2>2, <2>3, TypeParts
<1>5. CASE OnTreeConnect(r, p)
    <2>1. /\ ReceivedType' /\ r.status \in Statuses /\ p.call \in Nat
          /\ Tail(replies) \in Seq(Replies)
        BY <1>5, HandleType DEF OnTreeConnect
    <2>2. NegotiatedType'
        BY <1>5, NegotiatedKept DEF OnTreeConnect
    <2>3. HandledType' /\ SessionType'
        <3>1. CASE CloseAndEnd(p, r.status)
            BY <2>1, <3>1, CloseAndEndType
        <3>2. CASE /\ SetNtStatus(p, "SUCCESS")
                   /\ EndSendReceive(p)
                   /\ tree_id' = TRUE
                   /\ replies' = Tail(replies)
                   /\ UNCHANGED <<connected, message_id, session_id, session_key, fresh, link,
                                  inbox, interim, outqueue, stream, unpaid>>
            <4>1. ntStatus' \in Statuses /\ answered' \in BOOLEAN /\ dangling' \in BOOLEAN
                BY <1>1, <3>2, SetNtStatusType
            <4> QED
                BY <2>1, <3>2, <4>1 DEF EndSendReceive, HandledType, SessionType, TypeOK
        <3> QED
            BY <1>5, <3>1, <3>2 DEF OnTreeConnect
    <2> QED
        BY <2>1, <2>2, <2>3, TypeParts
<1>6. CASE OnTreeDisconnect(r, p)
    <2>1. /\ ReceivedType' /\ r.status \in Statuses /\ p.call \in Nat
          /\ Tail(replies) \in Seq(Replies)
        BY <1>6, HandleType DEF OnTreeDisconnect
    <2>2. CanSign("LOGOFF", signing_required, session_id, session_key) \in BOOLEAN
        BY CanSignType DEF TypeOK
    <2>3. HandledType'
        BY <1>2, <1>6, <2>1, <2>2, GoOnType DEF OnTreeDisconnect
    <2>4. NegotiatedType' /\ SessionType'
        BY <1>6, NegotiatedKept DEF OnTreeDisconnect, SessionType, TypeOK
    <2> QED
        BY <2>1, <2>3, <2>4, TypeParts
<1>7. CASE OnLogoff(r, p)
    <2>1. ReceivedType' /\ r.status \in Statuses /\ p.call \in Nat
        BY <1>7, HandleType DEF OnLogoff
    <2>2. HandledType' /\ SessionType' /\ NegotiatedType'
        BY <1>7, <2>1, CloseAndEndType, NegotiatedKept DEF OnLogoff
    <2> QED
        BY <2>1, <2>2, TypeParts
<1>8. CASE OnCompoundCreate(r, p)
    <2>1. /\ ReceivedType' /\ p.call \in Nat /\ Tail(replies) \in Seq(Replies)
        BY <1>8, HandleType DEF OnCompoundCreate
    <2>2. isComplete' \in BOOLEAN /\ completer' \in Nat
        BY <1>8, <2>1 DEF OnCompoundCreate, EndSendReceive, done, TypeOK
    <2>3. HandledType' /\ SessionType'
        BY <1>8, <2>1, <2>2 DEF OnCompoundCreate, HandledType, SessionType, TypeOK, ctx, data
    <2>4. NegotiatedType'
        BY <1>8, NegotiatedKept DEF OnCompoundCreate
    <2> QED
        BY <2>1, <2>3, <2>4, TypeParts
<1>9. CASE OnCompoundClose(r, p) \/ OnIO(r, p)
    <2>1. /\ ReceivedType' /\ r.status \in Statuses /\ p.call \in Nat
          /\ Tail(replies) \in Seq(Replies)
        BY <1>9, HandleType DEF OnCompoundClose, OnIO
    <2>2. EndOnly(p, r.status) /\ UNCHANGED neg
        BY <1>9 DEF OnCompoundClose, OnIO
    <2>3. HandledType' /\ SessionType' /\ NegotiatedType'
        BY <2>1, <2>2, EndOnlyType, NegotiatedKept
    <2> QED
        BY <2>1, <2>3, TypeParts
<1>10. CASE OnQueryDirectory(r, p)
    <2>1. /\ ReceivedType' /\ r.status \in Statuses /\ p.call \in Nat
          /\ Tail(replies) \in Seq(Replies)
        BY <1>10, HandleType DEF OnQueryDirectory
    <2>2. NegotiatedType'
        BY <1>10, NegotiatedKept DEF OnQueryDirectory
    <2>3. CASE /\ GoOn(p, "SUCCESS", "QUERY_DIRECTORY",
                       IF multi THEN 1 ELSE DefaultCharge,
                       CanSign("QUERY_DIRECTORY", signing_required, session_id, session_key))
               /\ UNCHANGED <<session_id, tree_id, session_key>>
        <3>1. CanSign("QUERY_DIRECTORY", signing_required, session_id, session_key) \in BOOLEAN
            BY CanSignType DEF TypeOK
        <3>2. HandledType'
            BY <1>1, <1>2, <2>1, <2>3, <3>1, GoOnType
        <3>3. SessionType'
            BY <2>3 DEF SessionType, TypeOK
        <3> QED
            BY <2>1, <2>2, <3>2, <3>3, TypeParts
    <2>4. CASE EndOnly(p, IF r.status = "NO_MORE_FILES" THEN "SUCCESS" ELSE r.status)
        BY <1>1, <2>1, <2>2, <2>4, EndOnlyType, TypeParts
    <2>5. CASE EndOnly(p, "SUCCESS")
        BY <1>1, <2>1, <2>2, <2>5, EndOnlyType, TypeParts DEF Statuses
    <2> QED
        BY <1>10, <2>3, <2>4, <2>5 DEF OnQueryDirectory
<1> QED
    BY <1>3, <1>4, <1>5, <1>6, <1>7, <1>8, <1>9, <1>10 DEF Process

(* The server and the network keep the types.                               *)
LEMMA ServerType ==
    ASSUME TypeOK,
           \/ LinkBreaks
           \/ \E m \in inbox, g \in Grants :
                ServerAnswers(m, g) \/ ServerAnswersChain(m, g) \/ ServerPends(m, g)
    PROVE  TypeOK'
<1>1. ASSUME inbox' \subseteq Messages, interim' \subseteq Nat, replies' \in Seq(Replies),
             link' \in BOOLEAN, UNCHANGED client
      PROVE  TypeOK'
    BY <1>1 DEF TypeOK, client, neg, acct, done, app, data
<1>2. CASE LinkBreaks
    <2>1. <<>> \in Seq(Replies)
        OBVIOUS
    <2>2. replies' \in Seq(Replies) /\ inbox' \subseteq Messages /\ interim' \subseteq Nat
        BY <1>2, <2>1 DEF LinkBreaks, TypeOK
    <2> QED
        BY <1>1, <1>2, <2>2 DEF LinkBreaks
<1>3. ASSUME NEW m \in inbox, NEW g \in Grants, ServerAnswers(m, g)
      PROVE  TypeOK'
    <2>1. PICK s \in Answers(m) :
            replies' = Append(replies, [id |-> m.id, status |-> s, grant |-> g, last |-> TRUE])
        BY <1>3 DEF ServerAnswers
    <2>2. s \in Statuses /\ m.id \in Nat
        BY DEF Answers, Statuses, TypeOK, Messages
    <2>3. replies' \in Seq(Replies)
        <3>1. [id |-> m.id, status |-> s, grant |-> g, last |-> TRUE] \in Replies
            BY <2>2 DEF Replies
        <3> QED
            BY <2>1, <3>1 DEF TypeOK
    <2> QED
        BY <1>1, <1>3, <2>3 DEF ServerAnswers, TypeOK
<1>4. ASSUME NEW m \in inbox, NEW g \in Grants, ServerAnswersChain(m, g)
      PROVE  TypeOK'
    <2>1. PICK s \in {<<"SUCCESS", "SUCCESS", "SUCCESS">>, <<"SUCCESS", "ERROR", "SUCCESS">>,
                        <<"ERROR", "ERROR", "ERROR">>} :
            replies' = replies \o
                [i \in 1..3 |-> [id |-> m.id + i - 1, status |-> s[i], grant |-> g,
                                 last |-> i = 3 \/ ~Chained]]
        BY <1>4 DEF ServerAnswersChain
    <2> DEFINE three == [i \in 1..3 |-> [id |-> m.id + i - 1, status |-> s[i], grant |-> g,
                                         last |-> i = 3 \/ ~Chained]]
    <2>2. \A i \in 1..3 : s[i] \in Statuses
        BY DEF Statuses
    <2>3. \A i \in 1..3 : m.id + i - 1 \in Nat
        BY DEF TypeOK, Messages
    <2>4. \A i \in 1..3 : [id |-> m.id + i - 1, status |-> s[i], grant |-> g,
                             last |-> i = 3 \/ ~Chained] \in Replies
        BY <2>2, <2>3 DEF Replies
    <2>5. three \in Seq(Replies)
        <3> HIDE DEF three
        <3>1. three = [i \in 1..3 |-> three[i]] /\ \A i \in 1..3 : three[i] \in Replies
            BY <2>4 DEF three
        <3> QED
            BY <3>1
    <2>6. replies' \in Seq(Replies)
        <3> HIDE DEF three
        <3> QED
            BY <2>1, <2>5 DEF TypeOK, three
    <2> QED
        BY <1>1, <1>4, <2>6 DEF ServerAnswersChain, TypeOK
<1>5. ASSUME NEW m \in inbox, NEW g \in Grants, ServerPends(m, g)
      PROVE  TypeOK'
    <2>1. m.id \in Nat
        BY DEF TypeOK, Messages
    <2>2. [id |-> m.id, status |-> "PENDING", grant |-> g, last |-> TRUE] \in Replies
        BY <2>1 DEF Replies, Statuses
    <2>3. replies' \in Seq(Replies)
        BY <1>5, <2>2 DEF ServerPends, TypeOK
    <2>4. interim' \subseteq Nat
        BY <1>5, <2>1 DEF ServerPends, TypeOK
    <2> QED
        BY <1>1, <1>5, <2>3, <2>4 DEF ServerPends, TypeOK
<1> QED
    BY <1>2, <1>3, <1>4, <1>5

(* Every step keeps the types.                                              *)
LEMMA NextType ==
    ASSUME TypeOK, [Next]_vars
    PROVE  TypeOK'
<1>1. CASE Call
    BY <1>1, CallType
<1>2. CASE Step
    BY <1>2, LoopType, RecvType, ProcessType DEF Step
<1>3. CASE Server
    BY <1>3, ServerType DEF Server
<1>4. CASE Disturbance
    BY <1>4, LoopType, RecvType, ServerType DEF Disturbance
<1>5. CASE UNCHANGED vars
    BY <1>5 DEF TypeOK, vars, ctx, neg, acct, done, app, data
<1> QED
    BY <1>1, <1>2, <1>3, <1>4, <1>5 DEF Next

(* The types hold initially: Smb2Context's constructor.                     *)
LEMMA InitType == Init => TypeOK
<1> SUFFICES ASSUME Init PROVE TypeOK
    OBVIOUS
<1>1. ReceivedType
    <2>1. 0 \in 0..(Word - 1)
        BY BoundAssumption
    <2>2. "connect" \in Ops /\ "NONE" \in Results
        BY DEF Ops, Results
    <2> QED
        BY <2>1, <2>2 DEF Init, ReceivedType
<1>2. NegotiatedType /\ SessionType
    BY DEF Init, NegotiatedType, SessionType
<1>3. HandledType
    <2>1. <<>> \in Seq(Replies)
        OBVIOUS
    <2> QED
        BY <2>1 DEF Init, HandledType, Statuses
<1> QED
    BY <1>1, <1>2, <1>3, TypeParts

(* Every variable of the engine keeps its type, the credits (a uint32_t     *)
(* that wraps) included, for any bounds, charges and grants.                *)
THEOREM TypeCorrect == Spec => []TypeOK
<1>1. Init => TypeOK
    BY InitType
<1>2. TypeOK /\ [Next]_vars => TypeOK'
    BY NextType
<1> QED
    BY <1>1, <1>2, PTL DEF Spec

(***************************************************************************)
(* What a step can do to ids, credits and queues.                          *)
(***************************************************************************)

(* Nothing the invariant speaks of changes.                                 *)
Quiet ==
    UNCHANGED <<connected, fresh, unpaid, message_id, outqueue, waitqueue, acct, dialect, multi>>

(* An API call queues a request.                                            *)
Queues(cmds, charge, signed) ==
    /\ cmds \in Chains /\ charge \in Nat /\ signed \in BOOLEAN
    /\ QueuePdu(cmds, charge, signed, call + 1)
    /\ connected'
    /\ \/ ~connected /\ cmds = <<"NEGOTIATE">> /\ charge = 0
       \/ /\ connected /\ cmds # <<"NEGOTIATE">>
          /\ dialect = "0202" /\ ~multi => charge = 0
    /\ UNCHANGED <<fresh, waitqueue, acct, dialect, multi>>

(* A reply is taken and nothing is queued.                                  *)
Takes(r, p) ==
    /\ r \in Replies /\ p \in waitqueue /\ TakePdu(r, p)
    /\ UNCHANGED <<connected, fresh, unpaid, message_id, outqueue, dialect, multi>>

(* A reply is taken and the next request of the call is queued; in dialect  *)
(* 2.02 that request is free.                                               *)
TakesAndQueues(r, p, cmd, charge, signed) ==
    /\ r \in Replies /\ p \in waitqueue /\ p.call \in Nat /\ TakePdu(r, p)
    /\ cmd \in Commands \ {"NEGOTIATE"} /\ charge \in Nat /\ signed \in BOOLEAN
    /\ QueuePdu(<<cmd>>, charge, signed, p.call)
    /\ UNCHANGED <<connected, fresh>>
    /\ dialect' = "0202" => charge = 0 \/ (multi /\ UNCHANGED <<dialect, multi>>)

(* Every step is one of these, a send, or closes the context.               *)
StepKind ==
    \/ Quiet
    \/ \E cmds \in Chains, charge \in Nat, signed \in BOOLEAN : Queues(cmds, charge, signed)
    \/ \E m \in outqueue : SendPdu(m)
    \/ \E r \in Replies, p \in waitqueue : Takes(r, p)
    \/ \E r \in Replies, p \in waitqueue, cmd \in Commands, charge \in Nat, signed \in BOOLEAN :
        TakesAndQueues(r, p, cmd, charge, signed)
    \/ fresh' = FALSE

(* An API call is refused or queues one request.                            *)
LEMMA CallKind ==
    ASSUME TypeOK, Call
    PROVE  StepKind
<1>1. ASSUME NEW o, NEW r, Refuse(o, r)
      PROVE  Quiet
    BY <1>1 DEF Refuse, Quiet, ctx, neg
<1>2. CASE ConnectShare
    <2>1. CASE connected' = TRUE /\ ~connected /\ Begin("connect", <<"NEGOTIATE">>, 0, TRUE)
               /\ UNCHANGED fresh
        <3>1. <<"NEGOTIATE">> \in Chains
            BY DEF Chains, Commands
        <3>2. Queues(<<"NEGOTIATE">>, 0, TRUE)
            BY <2>1, <3>1 DEF Queues, Begin, neg
        <3> QED
            BY <3>1, <3>2 DEF StepKind
    <2> QED
        BY <1>1, <1>2, <2>1 DEF ConnectShare, StepKind
<1>3. CASE Operate
    <2>1. PICK q \in Requests \cup RWRequests :
            Begin(q.op, q.cmds, q.charge,
                  CanSign(q.cmds[1], signing_required, session_id, session_key))
        BY <1>3 DEF Operate
    <2>2. q.cmds \in Chains /\ q.charge \in Nat
        BY RequestType
    <2>3. CanSign(q.cmds[1], signing_required, session_id, session_key) \in BOOLEAN
        BY CanSignType DEF TypeOK
    <2>4. q.cmds # <<"NEGOTIATE">>
        <3>1. q.cmds \in {<<"IO">>, <<"EMPTY_IO">>, Compound, <<"QUERY_DIRECTORY">>,
                          <<"TREE_DISCONNECT">>}
            BY DEF Requests, IORequests, IoctlRequests, CompoundRequests,
               QueryDirectoryRequests, DisconnectRequests, RWRequests
        <3> QED
            BY <3>1 DEF Compound
    <2>5. dialect = "0202" /\ ~multi => q.charge = 0
        BY DEF Requests, IORequests, IoctlRequests, CompoundRequests,
               QueryDirectoryRequests, DisconnectRequests, RWRequests, DefaultCharge
    <2>6. Queues(q.cmds, q.charge, CanSign(q.cmds[1], signing_required, session_id, session_key))
        BY <1>3, <2>1, <2>2, <2>3, <2>4, <2>5 DEF Queues, Operate, Begin, neg
    <2> QED
        BY <2>2, <2>3, <2>6 DEF StepKind
<1>4. CASE ReadNothing \/ OperateUnconnected
    BY <1>1, <1>4 DEF ReadNothing, OperateUnconnected, StepKind
<1> QED
    BY <1>2, <1>3, <1>4 DEF Call

(* A handler ends the call, goes on with a request, or closes.              *)
LEMMA ProcessKind ==
    ASSUME TypeOK, NEW r, NEW p, Process(r, p)
    PROVE  StepKind
<1>1. PICK cmd : Handle(r, p, cmd)
    BY DEF Process, OnNegotiate, OnSessionSetup, OnTreeConnect, OnTreeDisconnect, OnLogoff,
           OnCompoundCreate, OnCompoundClose, OnIO, OnQueryDirectory
<1>2. TakePdu(r, p) /\ r \in Replies /\ p \in waitqueue /\ p.call \in Nat
    BY <1>1, TakePduType DEF Handle, PDUs
<1>3. ASSUME NEW st, CloseAndEnd(p, st)
      PROVE  StepKind
    BY <1>3 DEF CloseAndEnd, Close, StepKind
<1>4. ASSUME UNCHANGED <<connected, fresh, unpaid, message_id, outqueue, dialect, multi>>
      PROVE  StepKind
    BY <1>2, <1>4 DEF Takes, StepKind
<1>5. ASSUME NEW st, NEW c \in Commands \ {"NEGOTIATE"}, NEW charge \in Nat,
             NEW signed \in BOOLEAN, GoOn(p, st, c, charge, signed),
             dialect' = "0202" => charge = 0 \/ (multi /\ UNCHANGED <<dialect, multi>>)
      PROVE  StepKind
    <2>1. TakesAndQueues(r, p, c, charge, signed)
        BY <1>2, <1>5 DEF TakesAndQueues, GoOn
    <2> QED
        BY <1>2, <2>1 DEF StepKind
<1>6. /\ {"SESSION_SETUP", "TREE_CONNECT", "LOGOFF", "QUERY_DIRECTORY"}
            \subseteq Commands \ {"NEGOTIATE"}
      /\ DefaultCharge \in Nat /\ (dialect = "0202" => DefaultCharge = 0)
    BY DEF Commands, DefaultCharge
<1>7. CASE OnNegotiate(r, p)
    <2>1. (IF dialect' = "0202" THEN 0 ELSE 1) \in Nat
        OBVIOUS
    <2>2. ASSUME NEW st, EndOnly(p, st), UNCHANGED neg
          PROVE  StepKind
        BY <1>4, <2>2 DEF EndOnly, ctx, neg
    <2> QED
        BY <1>3, <1>5, <1>6, <1>7, <2>1, <2>2 DEF OnNegotiate
<1>8. CASE OnSessionSetup(r, p)
    <2>1. UNCHANGED <<dialect, multi>>
        BY <1>8 DEF OnSessionSetup, neg
    <2>2. CASE GoOn(p, r.status, "SESSION_SETUP", DefaultCharge, TRUE)
        BY <1>5, <1>6, <2>1, <2>2
    <2>3. CASE /\ session_key' = (session_key \/ signing_required)
               /\ GoOn(p, "SUCCESS", "TREE_CONNECT", DefaultCharge,
                       CanSign("TREE_CONNECT", signing_required, TRUE, session_key'))
        <3>1. CanSign("TREE_CONNECT", signing_required, TRUE, session_key') \in BOOLEAN
            BY <2>3, CanSignType DEF TypeOK
        <3> QED
            BY <1>5, <1>6, <2>1, <2>3, <3>1
    <2> QED
        BY <1>3, <1>4, <1>8, <2>1, <2>2, <2>3 DEF OnSessionSetup
<1>9. CASE OnTreeConnect(r, p)
    BY <1>3, <1>4, <1>9 DEF OnTreeConnect, neg
<1>10. CASE OnTreeDisconnect(r, p)
    <2>1. CanSign("LOGOFF", signing_required, session_id, session_key) \in BOOLEAN
        BY CanSignType DEF TypeOK
    <2> QED
        BY <1>5, <1>6, <1>10, <2>1 DEF OnTreeDisconnect, neg
<1>11. CASE OnLogoff(r, p)
    BY <1>3, <1>11 DEF OnLogoff
<1>12. CASE OnCompoundCreate(r, p)
    BY <1>4, <1>12 DEF OnCompoundCreate, ctx, neg
<1>13. CASE OnCompoundClose(r, p) \/ OnIO(r, p)
    BY <1>4, <1>13 DEF OnCompoundClose, OnIO, EndOnly, ctx, neg
<1>14. CASE OnQueryDirectory(r, p)
    <2>1. CanSign("QUERY_DIRECTORY", signing_required, session_id, session_key) \in BOOLEAN
        BY CanSignType DEF TypeOK
    <2>2. (IF multi THEN 1 ELSE DefaultCharge) \in Nat
        BY <1>6
    <2>3. UNCHANGED <<dialect, multi>>
        BY <1>14 DEF OnQueryDirectory, neg
    <2>4. CASE GoOn(p, "SUCCESS", "QUERY_DIRECTORY", IF multi THEN 1 ELSE DefaultCharge,
                    CanSign("QUERY_DIRECTORY", signing_required, session_id, session_key))
        BY <1>5, <1>6, <2>1, <2>2, <2>3, <2>4
    <2>5. ASSUME NEW st, EndOnly(p, st)
          PROVE  StepKind
        BY <1>4, <2>3, <2>5 DEF EndOnly, ctx
    <2> QED
        BY <1>14, <2>4, <2>5 DEF OnQueryDirectory
<1> QED
    BY <1>7, <1>8, <1>9, <1>10, <1>11, <1>12, <1>13, <1>14 DEF Process

(* Every step is of one of the kinds.                                       *)
LEMMA NextKind ==
    ASSUME TypeOK, [Next]_vars
    PROVE  StepKind
<1>1. CASE Call
    BY <1>1, CallKind
<1>2. CASE \E p \in waitqueue : Process(Head(replies), p)
    BY <1>2, ProcessKind
<1>3. CASE Return \/ PollIn \/ PollOut \/ SendDone \/ PollFails
    BY <1>3 DEF Return, PollIn, PollOut, SendDone, PollFails, Quiet, StepKind, ctx, neg
<1>4. ASSUME NEW m \in outqueue, SendPdu(m) \/ SendFails(m)
      PROVE  StepKind
    BY <1>4 DEF SendFails, Quiet, StepKind, ctx, neg
<1>5. CASE RecvGarbage \/ RecvUnmatched \/ RecvShort
    BY <1>5 DEF RecvGarbage, RecvUnmatched, RecvShort, Quiet, StepKind, ctx, neg
<1>6. ASSUME NEW p \in waitqueue, NEW r, RecvPending(r, p) \/ RecvMalformed(r, p)
      PROVE  StepKind
    <2>1. TakePdu(r, p) /\ r \in Replies
        BY <1>6, TakePduType DEF RecvPending, RecvMalformed
    <2>2. Takes(r, p)
        BY <1>6, <2>1 DEF RecvPending, RecvMalformed, Takes, ctx, neg
    <2> QED
        BY <2>1, <2>2 DEF StepKind
<1>7. ASSUME UNCHANGED client
      PROVE  StepKind
    BY <1>7 DEF client, Quiet, StepKind, neg
<1>8. CASE Server
    BY <1>7, <1>8 DEF Server, ServerAnswers, ServerAnswersChain
<1>9. CASE LinkBreaks \/ \E m \in inbox, g \in Grants : ServerPends(m, g)
    BY <1>7, <1>9 DEF LinkBreaks, ServerPends
<1>10. CASE UNCHANGED vars
    BY <1>10 DEF vars, Quiet, StepKind, ctx, neg
<1> QED
    BY <1>1, <1>2, <1>3, <1>4, <1>5, <1>6, <1>8, <1>9, <1>10 DEF Next, Step, Disturbance

(***************************************************************************)
(* Ids stay in order.                                                      *)
(***************************************************************************)

(* A message occupies at least one id; it occupies as many ids as it is     *)
(* charged credits unless it is free.                                       *)
LEMMA WidthNat ==
    ASSUME NEW m \in Messages
    PROVE  /\ m.id \in Nat /\ m.charge \in Nat /\ Span(m.charge) \in Nat
           /\ Width(m) \in Nat /\ Width(m) >= 1 /\ TotalCharge(m) \in Nat
           /\ m.charge >= 1 => Width(m) = TotalCharge(m)
           /\ m.charge = 0 => TotalCharge(m) = 0
           /\ Len(m.cmds) = 1 => Width(m) = Span(m.charge)
<1>1. m.id \in Nat /\ m.charge \in Nat /\ m.cmds \in Chains
    BY DEF Messages
<1>2. Len(m.cmds) = 1 \/ Len(m.cmds) = 3
    BY <1>1, ChainLength
<1>3. Span(m.charge) \in Nat /\ Span(m.charge) >= 1
    BY <1>1, SpanNat
<1>4. m.charge >= 1 => Span(m.charge) = m.charge
    BY <1>1 DEF Span
<1>5. CASE Len(m.cmds) = 1
    BY <1>1, <1>3, <1>4, <1>5 DEF Width, TotalCharge
<1>6. CASE Len(m.cmds) = 3
    BY <1>1, <1>3, <1>4, <1>6 DEF Width, TotalCharge
<1> QED
    BY <1>2, <1>5, <1>6

(* The PDUs of a message have different ids, within those it occupies.      *)
LEMMA UnchainedIds ==
    ASSUME NEW m \in Messages
    PROVE  /\ \A u \in Unchained(m) :
                /\ u.id \in Nat /\ Span(u.charge) \in Nat /\ m.id <= u.id
                /\ u.id + Span(u.charge) <= m.id + Width(m)
           /\ \A u, v \in Unchained(m) : u.id = v.id => u = v
<1> DEFINE sp == Span(m.charge)
           U(i) == [id |-> m.id + (i - 1) * sp, cmd |-> m.cmds[i],
                    charge |-> m.charge, call |-> m.call]
<1>1. m.id \in Nat /\ m.charge \in Nat /\ m.cmds \in Chains
    BY DEF Messages
<1>2. Len(m.cmds) = 1 \/ Len(m.cmds) = 3
    BY <1>1, ChainLength
<1>3. sp \in Nat /\ sp >= 1
    BY <1>1, SpanNat
<1>4. Unchained(m) = {U(i) : i \in 1..Len(m.cmds)}
    BY DEF Unchained
<1>5. /\ U(1).id = m.id /\ U(2).id = m.id + sp /\ U(3).id = m.id + 2 * sp
      /\ U(1).charge = m.charge /\ U(2).charge = m.charge /\ U(3).charge = m.charge
    <2> HIDE DEF sp
    <2> QED
        BY <1>1, <1>3
<1>6. Width(m) = Len(m.cmds) * sp
    BY DEF Width
<1> HIDE DEF U
<1>7. CASE Len(m.cmds) = 1
    <2>1. Unchained(m) = {U(1)}
        BY <1>4, <1>7
    <2>2. Width(m) = sp
        BY <1>3, <1>6, <1>7
    <2> QED
        BY <1>1, <1>3, <1>5, <2>1, <2>2
<1>8. CASE Len(m.cmds) = 3
    <2>1. Unchained(m) = {U(1), U(2), U(3)}
        <3>1. 1..3 = {1, 2, 3}
            OBVIOUS
        <3> QED
            BY <1>4, <1>8, <3>1
    <2>2. Width(m) = 3 * sp
        BY <1>6, <1>8
    <2>3. \A u \in Unchained(m) : u = U(1) \/ u = U(2) \/ u = U(3)
        BY <2>1
    <2>4. \A u \in Unchained(m) : u.charge = m.charge
        BY <1>5, <2>3
    <2> HIDE DEF sp
    <2>5. \A u \in Unchained(m) :
            u.id \in Nat /\ m.id <= u.id /\ u.id + sp <= m.id + Width(m)
        BY <1>1, <1>3, <1>5, <2>2, <2>3
    <2>6. \A u, v \in Unchained(m) : u.id = v.id => u = v
        BY <1>1, <1>3, <1>5, <2>3
    <2> QED
        BY <1>3, <2>4, <2>5, <2>6 DEF sp
<1> QED
    BY <1>2, <1>7, <1>8

(* Taking replies away keeps the order.                                     *)
LEMMA IdsAfterTake ==
    ASSUME TypeOK, IdsOrdered, UNCHANGED <<message_id, outqueue>>, waitqueue' \subseteq waitqueue
    PROVE  IdsOrdered'
BY DEF IdsOrdered, Width, Span

(* Queueing a message: it is new, and comes last.                           *)
LEMMA IdsAfterQueue ==
    ASSUME TypeOK, IdsOrdered, NEW cmds \in Chains, NEW charge \in Nat, NEW signed \in BOOLEAN,
           NEW caller \in Nat, QueuePdu(cmds, charge, signed, caller),
           waitqueue' \subseteq waitqueue
    PROVE  /\ IdsOrdered'
           /\ signed => \E new \in Messages :
                /\ new.id = message_id /\ new.cmds = cmds /\ new.charge = charge
                /\ outqueue' = outqueue \cup {new}
                /\ message_id' = message_id + Width(new)
<1> DEFINE new == [id |-> message_id, cmds |-> cmds, charge |-> charge, call |-> caller]
<1>1. new \in Messages /\ new.id = message_id /\ new.cmds = cmds /\ new.charge = charge
    BY DEF Messages, TypeOK
<1>2. outqueue \subseteq Messages /\ waitqueue \subseteq PDUs /\ message_id \in Nat
    BY DEF TypeOK
<1>3. \A m \in outqueue : m.id \in Nat /\ Width(m) \in Nat /\ Width(m) >= 1
    BY <1>2, WidthNat
<1>4. \A p \in waitqueue : p.id \in Nat /\ Span(p.charge) \in Nat
    BY <1>2, SpanNat DEF PDUs
<1>5. Width(new) \in Nat /\ Width(new) >= 1
    BY <1>1, WidthNat
<1>6. CASE signed
    <2>1. outqueue' = outqueue \cup {new}
        <3>1. \A m \in outqueue : m.id # new.id
            BY <1>1, <1>2, <1>3 DEF IdsOrdered
        <3> QED
            BY <1>6, <3>1 DEF QueuePdu, Put
    <2>2. message_id' = message_id + Width(new)
        BY <1>1, <1>6 DEF QueuePdu, Width
    <2> HIDE DEF new
    <2>3. \A m \in outqueue' : m.id + Width(m) <= message_id'
        BY <1>1, <1>2, <1>3, <1>5, <2>1, <2>2 DEF IdsOrdered
    <2>4. \A m, n \in outqueue' :
            m = n \/ m.id + Width(m) <= n.id \/ n.id + Width(n) <= m.id
        BY <1>1, <1>2, <1>3, <2>1 DEF IdsOrdered
    <2>5. \A p \in waitqueue' :
            /\ p.id + Span(p.charge) <= message_id'
            /\ \A m \in outqueue' : p.id + Span(p.charge) <= m.id
        BY <1>1, <1>2, <1>4, <1>5, <2>1, <2>2 DEF IdsOrdered
    <2>6. \A p, q \in waitqueue' : p.id = q.id => p = q
        BY DEF IdsOrdered
    <2>7. IdsOrdered'
        BY <2>3, <2>4, <2>5, <2>6 DEF IdsOrdered, Width, Span
    <2> QED
        BY <1>1, <2>1, <2>2, <2>7
<1>7. CASE ~signed
    <2>1. outqueue' = outqueue /\ message_id' = message_id + Span(charge)
          /\ Span(charge) \in Nat
        BY <1>2, <1>7, SpanNat DEF QueuePdu
    <2>2. \A m \in outqueue' : m.id + Width(m) <= message_id'
        BY <1>2, <1>3, <2>1 DEF IdsOrdered
    <2>3. \A p \in waitqueue' : p.id + Span(p.charge) <= message_id'
        BY <1>2, <1>4, <2>1 DEF IdsOrdered
    <2> QED
        BY <1>7, <2>1, <2>2, <2>3 DEF IdsOrdered, Width, Span
<1> QED
    BY <1>6, <1>7

(* Sending the first message: its PDUs go between what was sent before and  *)
(* what is still queued.                                                    *)
LEMMA IdsAfterSend ==
    ASSUME TypeOK, IdsOrdered, NEW m \in outqueue, SendPdu(m)
    PROVE  /\ IdsOrdered'
           /\ \A n \in outqueue' : m.id + Width(m) <= n.id
           /\ waitqueue' \subseteq waitqueue \cup Unchained(m)
<1>1. outqueue \subseteq Messages /\ waitqueue \subseteq PDUs /\ message_id \in Nat
    BY DEF TypeOK
<1>2. \A n \in outqueue : n.id \in Nat /\ Width(n) \in Nat /\ Width(n) >= 1
    BY <1>1, WidthNat
<1>3. \A p \in waitqueue : p.id \in Nat /\ Span(p.charge) \in Nat /\ Span(p.charge) >= 1
    BY <1>1, SpanNat DEF PDUs
<1>4. /\ outqueue' = outqueue \ {m} /\ UNCHANGED message_id
      /\ waitqueue' \subseteq waitqueue \cup Unchained(m)
    BY DEF SendPdu
<1>5. \A n \in outqueue' : m.id + Width(m) <= n.id
    BY <1>2, <1>4 DEF SendPdu, IsNext, IdsOrdered
<1>6. /\ \A u \in Unchained(m) :
            /\ u.id \in Nat /\ Span(u.charge) \in Nat /\ m.id <= u.id
            /\ u.id + Span(u.charge) <= m.id + Width(m)
      /\ \A u, v \in Unchained(m) : u.id = v.id => u = v
    BY <1>1, UnchainedIds
<1>7. \A n \in outqueue' : n.id + Width(n) <= message_id'
    BY <1>4 DEF IdsOrdered
<1>8. \A k, n \in outqueue' : k = n \/ k.id + Width(k) <= n.id \/ n.id + Width(n) <= k.id
    BY <1>4 DEF IdsOrdered
<1>9. m.id + Width(m) <= message_id'
    BY <1>4 DEF IdsOrdered
<1>10. \A p \in waitqueue' :
            /\ p.id + Span(p.charge) <= message_id'
            /\ \A n \in outqueue' : p.id + Span(p.charge) <= n.id
    <2>1. \A p \in waitqueue :
            /\ p.id + Span(p.charge) <= message_id'
            /\ \A n \in outqueue' : p.id + Span(p.charge) <= n.id
        BY <1>4 DEF IdsOrdered
    <2>2. \A u \in Unchained(m) :
            /\ u.id + Span(u.charge) <= message_id'
            /\ \A n \in outqueue' : u.id + Span(u.charge) <= n.id
        BY <1>1, <1>2, <1>4, <1>5, <1>6, <1>9
    <2> QED
        BY <1>4, <2>1, <2>2
<1>11. \A p, q \in waitqueue' : p.id = q.id => p = q
    <2>1. \A p \in waitqueue, u \in Unchained(m) : p.id < u.id
        BY <1>2, <1>3, <1>6 DEF IdsOrdered
    <2>2. \A p \in waitqueue, u \in Unchained(m) : p.id # u.id
        BY <1>3, <1>6, <2>1
    <2> QED
        BY <1>4, <1>6, <2>2 DEF IdsOrdered
<1> QED
    BY <1>4, <1>5, <1>7, <1>8, <1>10, <1>11 DEF IdsOrdered, Width, Span

(***************************************************************************)
(* Credits cover the ids.                                                  *)
(***************************************************************************)

(* A response grants as many credits as it widens the window, or fewer when *)
(* the counter wraps.                                                       *)
LEMMA TakeBalance ==
    ASSUME TypeOK, fresh, NEW r \in Replies, NEW p, TakePdu(r, p)
    PROVE  /\ credits \in Nat /\ window \in Nat /\ credits' \in Nat /\ window' \in Nat
           /\ window' >= window /\ credits' + window <= window' + credits
<1>1. r.grant \in Nat
    BY CreditAssumption DEF Replies
<1>2. credits \in Nat /\ window \in Nat /\ Word \in Nat /\ Word > 0
    BY BoundAssumption DEF TypeOK
<1>3. window' = window + r.grant /\ credits' = (credits + r.grant) % Word
    BY DEF TakePdu
<1>4. credits' \in Nat /\ credits' <= credits + r.grant
    <2>1. \A x \in Nat : x % Word \in Nat /\ x % Word <= x
        BY <1>2
    <2>2. credits + r.grant \in Nat
        BY <1>1, <1>2
    <2> QED
        BY <1>3, <2>1, <2>2
<1> QED
    BY <1>1, <1>2, <1>3, <1>4

(* While a free message waits to be sent no reply can arrive.               *)
LEMMA NoReplyBeforeNegotiate ==
    ASSUME TypeOK, IdsOrdered, ChargesPaid, NEW p \in waitqueue, NEW m \in outqueue
    PROVE  m.charge # 0
<1>1. m.id \in Nat /\ p.id \in Nat /\ Span(p.charge) \in Nat /\ Span(p.charge) >= 1
    BY SpanNat, WidthNat DEF TypeOK, PDUs
<1>2. p.id + Span(p.charge) <= m.id
    BY DEF IdsOrdered
<1>3. m.id # 0
    BY <1>1, <1>2
<1> QED
    BY <1>3 DEF ChargesPaid

(* Widening the window by at least the credits that arrive.                 *)
LEMMA Shift ==
    ASSUME NEW c \in Nat, NEW w \in Nat, NEW c1 \in Nat, NEW w1 \in Nat, c1 + w <= w1 + c,
           NEW x \in Nat, x + c <= w
    PROVE  x + c1 <= w1
OBVIOUS

(* Credits that arrive widen the window.                                    *)
LEMMA WindowAfterTake ==
    ASSUME TypeOK, CreditsCoverIds, UNCHANGED <<message_id, outqueue>>,
           waitqueue' \subseteq waitqueue,
           credits \in Nat, window \in Nat, credits' \in Nat, window' \in Nat,
           window' >= window, credits' + window <= window' + credits
    PROVE  CreditsCoverIds'
<1>1. \A m \in outqueue : m.id \in Nat
    BY DEF TypeOK, Messages
<1>2. \A p \in waitqueue : p.id \in Nat /\ Span(p.charge) \in Nat
    BY SpanNat DEF TypeOK, PDUs
<1>3. message_id \in Nat
    BY DEF TypeOK
<1>4. \A x \in Nat : x + credits <= window => x + credits' <= window'
    BY Shift
<1>5. \A m \in outqueue' :
        (\A n \in outqueue' : m.id <= n.id) => m.id + credits' <= window'
    BY <1>1, <1>4 DEF CreditsCoverIds
<1>6. outqueue' = {} => message_id' + credits' <= window'
    BY <1>3, <1>4 DEF CreditsCoverIds
<1>7. \A p \in waitqueue' : p.id + Span(p.charge) <= window'
    BY <1>2 DEF CreditsCoverIds
<1>8. window' >= 1
    BY DEF CreditsCoverIds
<1>9. \A m \in outqueue' :
        m.id + Width(m) = message_id' \/ \E n \in outqueue' : n.id = m.id + Width(m)
    BY DEF CreditsCoverIds
<1> QED
    BY <1>5, <1>6, <1>7, <1>8, <1>9 DEF CreditsCoverIds, Width, Span

(* A queued message takes the ids from message_id on: there is no gap, and  *)
(* the first message stays the first.                                       *)
LEMMA WindowAfterQueue ==
    ASSUME TypeOK, IdsOrdered, CreditsCoverIds, NEW cmds \in Chains, NEW charge \in Nat,
           NEW caller \in Nat, QueuePdu(cmds, charge, TRUE, caller),
           waitqueue' \subseteq waitqueue,
           credits \in Nat, window \in Nat, credits' \in Nat, window' \in Nat,
           window' >= window, credits' + window <= window' + credits
    PROVE  CreditsCoverIds'
<1>1. PICK new \in Messages :
        /\ new.id = message_id /\ new.cmds = cmds /\ new.charge = charge
        /\ outqueue' = outqueue \cup {new}
        /\ message_id' = message_id + Width(new)
    BY IdsAfterQueue
<1>2. \A m \in outqueue : m.id \in Nat /\ Width(m) \in Nat /\ Width(m) >= 1
    BY WidthNat DEF TypeOK
<1>3. \A p \in waitqueue : p.id \in Nat /\ Span(p.charge) \in Nat
    BY SpanNat DEF TypeOK, PDUs
<1>4. message_id \in Nat /\ Width(new) \in Nat /\ Width(new) >= 1
    BY WidthNat DEF TypeOK
<1>5. window' >= 1 /\ outqueue' # {}
    BY <1>1 DEF CreditsCoverIds
<1>6. \A m \in outqueue' :
        m.id + Width(m) = message_id' \/ \E n \in outqueue' : n.id = m.id + Width(m)
    <2>1. new.id + Width(new) = message_id'
        BY <1>1
    <2>2. \A m \in outqueue :
            m.id + Width(m) = message_id \/ \E n \in outqueue : n.id = m.id + Width(m)
        BY DEF CreditsCoverIds
    <2> QED
        BY <1>1, <2>1, <2>2
<1>7. \A x \in Nat : x + credits <= window => x + credits' <= window'
    BY Shift
<1>8. ASSUME NEW m \in outqueue', \A n \in outqueue' : m.id <= n.id
      PROVE  m.id + credits' <= window'
    <2>1. CASE outqueue = {}
        <3>1. m.id = message_id
            BY <1>1, <2>1
        <3>2. message_id + credits <= window
            BY <2>1 DEF CreditsCoverIds
        <3> QED
            BY <1>4, <1>7, <3>1, <3>2
    <2>2. CASE outqueue # {}
        <3>1. PICK n \in outqueue : TRUE
            BY <2>2
        <3>2. n.id < message_id /\ m.id <= n.id
            BY <1>1, <1>2, <1>4, <1>8 DEF IdsOrdered
        <3>3. m \in outqueue
            BY <1>1, <1>2, <1>4, <3>2
        <3>4. m.id + credits <= window
            BY <1>1, <1>8, <3>3 DEF CreditsCoverIds
        <3> QED
            BY <1>2, <1>7, <3>3, <3>4
    <2> QED
        BY <2>1, <2>2
<1>9. \A p \in waitqueue' : p.id + Span(p.charge) <= window'
    BY <1>3 DEF CreditsCoverIds
<1> QED
    BY <1>5, <1>6, <1>8, <1>9 DEF CreditsCoverIds, Width, Span

(* A sent message lies within the window, and the credits it takes are the  *)
(* ids it occupies; NEGOTIATE takes the one id of the initial window.       *)
LEMMA WindowAfterSend ==
    ASSUME TypeOK, IdsOrdered, ChargesPaid, CreditsCoverIds, NEW m \in outqueue, SendPdu(m)
    PROVE  ChargesPaid' /\ CreditsCoverIds'
<1>1. /\ \A n \in outqueue : n.id \in Nat /\ Width(n) \in Nat /\ Width(n) >= 1
                              /\ n.charge \in Nat
      /\ \A p \in waitqueue : p.id \in Nat /\ Span(p.charge) \in Nat
      /\ message_id \in Nat /\ window \in Nat
      /\ credits \in Nat /\ credits < Word /\ Word \in Nat /\ Word > 0
    <2>1. \A n \in outqueue : n.id \in Nat /\ Width(n) \in Nat /\ Width(n) >= 1
                             /\ n.charge \in Nat
        BY WidthNat DEF TypeOK
    <2>2. \A p \in waitqueue : p.id \in Nat /\ Span(p.charge) \in Nat
        BY SpanNat DEF TypeOK, PDUs
    <2>3. Word \in Nat /\ Word > 0
        BY BoundAssumption
    <2> QED
        BY <2>1, <2>2, <2>3 DEF TypeOK
<1>2. /\ m.charge \in Nat /\ TotalCharge(m) \in Nat
      /\ m.charge >= 1 => Width(m) = TotalCharge(m)
      /\ m.charge = 0 => TotalCharge(m) = 0
      /\ Len(m.cmds) = 1 => Width(m) = Span(m.charge)
    BY WidthNat DEF TypeOK
<1>3. /\ outqueue' = outqueue \ {m} /\ UNCHANGED <<message_id, window, dialect, multi>>
      /\ credits' = (credits - TotalCharge(m)) % Word
      /\ \A n \in outqueue : m.id <= n.id
      /\ dialect = "later" => TotalCharge(m) <= credits
    BY DEF SendPdu, IsNext, CanSend, neg
<1>4. /\ \A n \in outqueue' : m.id + Width(m) <= n.id
      /\ waitqueue' \subseteq waitqueue \cup Unchained(m)
    BY IdsAfterSend
<1>5. m.id + credits <= window
    BY <1>3 DEF CreditsCoverIds
<1>6. TotalCharge(m) <= credits
    <2>1. CASE m.charge = 0
        BY <1>1, <1>2, <2>1
    <2>2. CASE m.charge # 0
        BY <1>3, <2>2 DEF ChargesPaid, TypeOK
    <2> QED
        BY <2>1, <2>2
<1>7. credits' = credits - TotalCharge(m) /\ credits' \in Nat
    <2>1. \A x \in Nat : x < Word => x % Word = x
        BY <1>1
    <2>2. credits - TotalCharge(m) \in Nat /\ credits - TotalCharge(m) < Word
        BY <1>1, <1>2, <1>6
    <2> QED
        BY <1>3, <2>1, <2>2
<1>8. m.id + Width(m) + credits' <= window
    <2>1. CASE m.charge = 0
        <3>1. m.cmds = <<"NEGOTIATE">> /\ m.id = 0 /\ credits = 0
            BY <2>1 DEF ChargesPaid
        <3>2. Width(m) = 1
            BY <1>2, <2>1, <3>1 DEF Span
        <3>3. window >= 1
            BY DEF CreditsCoverIds
        <3> QED
            BY <1>1, <1>2, <1>7, <2>1, <3>1, <3>2, <3>3
    <2>2. CASE m.charge # 0
        BY <1>1, <1>2, <1>5, <1>7, <2>2
    <2> QED
        BY <2>1, <2>2
<1>9. \A n \in outqueue' : n.charge # 0
    <2>1. \A n \in outqueue' : n.id # 0
        BY <1>1, <1>3, <1>4
    <2> QED
        BY <1>3, <2>1 DEF ChargesPaid
<1>10. ChargesPaid'
    BY <1>3, <1>9 DEF ChargesPaid
<1>11. \A n \in outqueue' :
        n.id + Width(n) = message_id' \/ \E k \in outqueue' : k.id = n.id + Width(n)
    <2> SUFFICES ASSUME NEW n \in outqueue', NEW k \in outqueue, k.id = n.id + Width(n)
                 PROVE  k \in outqueue'
        BY <1>3 DEF CreditsCoverIds
    <2>1. k.id > m.id
        BY <1>1, <1>3, <1>4
    <2> QED
        BY <1>1, <1>3, <2>1
<1>12. ASSUME NEW n \in outqueue', \A k \in outqueue' : n.id <= k.id
       PROVE  n.id + credits' <= window'
    <2>1. CASE m.id + Width(m) = message_id
        <3>1. n.id + Width(n) <= message_id /\ m.id + Width(m) <= n.id
            BY <1>3, <1>4 DEF IdsOrdered
        <3> QED
            BY <1>1, <1>3, <2>1, <3>1
    <2>2. CASE \E k \in outqueue : k.id = m.id + Width(m)
        <3>1. PICK k \in outqueue : k.id = m.id + Width(m)
            BY <2>2
        <3>2. k \in outqueue'
            BY <1>1, <1>3, <3>1
        <3>3. n.id <= m.id + Width(m)
            BY <1>12, <3>1, <3>2
        <3> QED
            BY <1>1, <1>3, <1>7, <1>8, <3>3
    <2> QED
        BY <2>1, <2>2 DEF CreditsCoverIds
<1>13. outqueue' = {} => message_id' + credits' <= window'
    <2>1. ASSUME outqueue' = {}
          PROVE  m.id + Width(m) = message_id
        <3>1. ASSUME NEW k \in outqueue, k.id = m.id + Width(m)
              PROVE  FALSE
            <4>1. k = m
                BY <1>3, <2>1
            <4> QED
                BY <1>1, <3>1, <4>1
        <3> QED
            BY <3>1 DEF CreditsCoverIds
    <2> QED
        BY <1>3, <1>8, <2>1
<1>14. \A p \in waitqueue' : p.id + Span(p.charge) <= window'
    <2>1. \A u \in Unchained(m) :
            /\ u.id \in Nat /\ Span(u.charge) \in Nat
            /\ u.id + Span(u.charge) <= m.id + Width(m)
        BY UnchainedIds DEF TypeOK
    <2>2. m.id + Width(m) <= window
        BY <1>1, <1>7, <1>8
    <2> QED
        BY <1>1, <1>3, <1>4, <2>1, <2>2 DEF CreditsCoverIds
<1> QED
    BY <1>3, <1>10, <1>11, <1>12, <1>13, <1>14 DEF CreditsCoverIds, Width, Span

(***************************************************************************)
(* The invariant is inductive.                                             *)
(***************************************************************************)

(* A context that was just constructed satisfies the invariant.             *)
LEMMA InitInv == Init => IInv
<1> SUFFICES ASSUME Init PROVE IInv
    OBVIOUS
<1>1. TypeOK
    BY InitType
<1>2. IdsOrdered /\ NothingYet
    BY DEF Init, IdsOrdered, NothingYet
<1>3. ChargesPaid /\ CreditsCoverIds
    BY DEF Init, ChargesPaid, CreditsCoverIds
<1> QED
    BY <1>1, <1>2, <1>3 DEF IInv

(* Every step keeps the invariant: one case per kind of step.               *)
LEMMA NextInv ==
    ASSUME IInv, [Next]_vars
    PROVE  IInv'
<1>1. TypeOK /\ TypeOK'
    BY NextType DEF IInv
<1>2. CASE fresh' = FALSE
    BY <1>1, <1>2 DEF IInv
<1>3. CASE Quiet
    BY <1>1, <1>3 DEF IInv, Quiet, acct, IdsOrdered, NothingYet, ChargesPaid, CreditsCoverIds,
                      Width, Span
<1>4. ASSUME NEW cmds \in Chains, NEW charge \in Nat, NEW signed \in BOOLEAN,
             Queues(cmds, charge, signed), fresh
      PROVE  IInv'
    <2>1. /\ QueuePdu(cmds, charge, signed, call + 1) /\ call + 1 \in Nat
          /\ waitqueue' \subseteq waitqueue /\ UNCHANGED <<fresh, credits, window, dialect, multi>>
          /\ connected' /\ IdsOrdered /\ NothingYet
        BY <1>1, <1>4 DEF IInv, Queues, acct, TypeOK
    <2>2. IdsOrdered' /\ NothingYet'
        BY <1>1, <2>1, IdsAfterQueue DEF NothingYet
    <2>3. ASSUME ~unpaid'
          PROVE  ChargesPaid' /\ CreditsCoverIds'
        <3>1. /\ ~unpaid /\ signed = TRUE /\ (charge = 0 => cmds = <<"NEGOTIATE">>)
              /\ ChargesPaid /\ CreditsCoverIds
            BY <1>1, <1>4, <2>1, <2>3 DEF IInv, QueuePdu, TypeOK
        <3>2. credits \in Nat /\ window \in Nat
            BY <1>1, BoundAssumption DEF TypeOK
        <3>3. CreditsCoverIds'
            <4>1. /\ credits' \in Nat /\ window' \in Nat /\ window' >= window
                  /\ credits' + window <= window' + credits
                BY <2>1, <3>2
            <4>2. QueuePdu(cmds, charge, TRUE, call + 1)
                BY <2>1, <3>1
            <4> QED
                BY <1>1, <2>1, <3>1, <3>2, <4>1, <4>2, WindowAfterQueue
        <3>4. PICK new \in Messages :
                /\ new.id = message_id /\ new.cmds = cmds /\ new.charge = charge
                /\ outqueue' = outqueue \cup {new}
            BY <1>1, <2>1, <3>1, IdsAfterQueue, ZenonT(40)
        <3>5. charge = 0 => message_id = 0 /\ credits = 0 /\ cmds = <<"NEGOTIATE">>
            BY <1>4, <2>1, <3>1 DEF Queues, NothingYet
        <3>6. dialect = "0202" => charge = 0
            <4>1. CASE connected
                BY <1>4, <3>1, <4>1 DEF Queues, ChargesPaid
            <4>2. CASE ~connected
                BY <1>4, <2>1, <3>1, <4>2 DEF Queues, QueuePdu, ChargesPaid
            <4> QED
                BY <4>1, <4>2
        <3>7. ChargesPaid'
            BY <2>1, <3>1, <3>4, <3>5, <3>6 DEF ChargesPaid
        <3> QED
            BY <3>3, <3>7
    <2> QED
        BY <1>1, <2>1, <2>2, <2>3 DEF IInv
<1>5. ASSUME NEW m \in outqueue, SendPdu(m), fresh
      PROVE  IInv'
    <2>1. IdsOrdered /\ NothingYet /\ UNCHANGED <<connected, fresh, unpaid>>
        BY <1>5 DEF IInv, SendPdu
    <2>2. IdsOrdered'
        BY <1>1, <1>5, <2>1, IdsAfterSend
    <2>3. NothingYet'
        BY <1>5, <2>1 DEF NothingYet
    <2>4. ~unpaid => ChargesPaid' /\ CreditsCoverIds'
        BY <1>1, <1>5, <2>1, WindowAfterSend DEF IInv
    <2> QED
        BY <1>1, <2>1, <2>2, <2>3, <2>4 DEF IInv
<1>6. ASSUME NEW r \in Replies, NEW p \in waitqueue, Takes(r, p), fresh
      PROVE  IInv'
    <2>1. /\ IdsOrdered /\ NothingYet /\ waitqueue' \subseteq waitqueue /\ TakePdu(r, p)
          /\ UNCHANGED <<connected, fresh, unpaid, message_id, outqueue, dialect, multi>>
        BY <1>6 DEF IInv, Takes, TakePdu
    <2>2. IdsOrdered'
        BY <1>1, <2>1, IdsAfterTake
    <2>3. NothingYet'
        BY <1>6, <2>1 DEF NothingYet
    <2>4. ASSUME ~unpaid
          PROVE  ChargesPaid' /\ CreditsCoverIds'
        <3>1. ChargesPaid /\ CreditsCoverIds
            BY <1>6, <2>4 DEF IInv
        <3>2. CreditsCoverIds'
            BY <1>1, <1>6, <2>1, <3>1, TakeBalance, WindowAfterTake
        <3>3. \A m \in outqueue : m.charge # 0
            BY <1>1, <1>6, <2>1, <3>1, NoReplyBeforeNegotiate
        <3>4. ChargesPaid'
            BY <2>1, <3>1, <3>3 DEF ChargesPaid
        <3> QED
            BY <3>2, <3>4
    <2> QED
        BY <1>1, <2>1, <2>2, <2>3, <2>4 DEF IInv
<1>7. ASSUME NEW r \in Replies, NEW p \in waitqueue, NEW cmd \in Commands, NEW charge \in Nat,
             NEW signed \in BOOLEAN, TakesAndQueues(r, p, cmd, charge, signed), fresh
      PROVE  IInv'
    <2>1. /\ IdsOrdered /\ NothingYet /\ waitqueue' \subseteq waitqueue /\ TakePdu(r, p)
          /\ QueuePdu(<<cmd>>, charge, signed, p.call) /\ p.call \in Nat
          /\ UNCHANGED <<connected, fresh>>
        BY <1>7 DEF IInv, TakesAndQueues, TakePdu
    <2>2. <<cmd>> \in Chains /\ <<cmd>> # <<"NEGOTIATE">>
        BY <1>7 DEF Chains, TakesAndQueues
    <2>3. IdsOrdered'
        BY <1>1, <2>1, <2>2, IdsAfterQueue
    <2>4. NothingYet'
        BY <1>7, <2>1 DEF NothingYet
    <2>5. ASSUME ~unpaid'
          PROVE  ChargesPaid' /\ CreditsCoverIds'
        <3>1. /\ ~unpaid /\ signed = TRUE /\ charge # 0 /\ ChargesPaid /\ CreditsCoverIds
            BY <1>1, <1>7, <2>1, <2>2, <2>5 DEF IInv, QueuePdu, TypeOK
        <3>2. CreditsCoverIds'
            <4>1. QueuePdu(<<cmd>>, charge, TRUE, p.call)
                BY <2>1, <3>1
            <4> QED
                BY <1>1, <1>7, <2>1, <2>2, <3>1, <4>1, TakeBalance, WindowAfterQueue
        <3>3. \A m \in outqueue : m.charge # 0
            BY <1>1, <1>7, <2>1, <3>1, NoReplyBeforeNegotiate
        <3>4. PICK new \in Messages : new.charge = charge /\ outqueue' = outqueue \cup {new}
            BY <1>1, <2>1, <2>2, <3>1, IdsAfterQueue
        <3>5. dialect' # "0202"
            BY <1>7, <3>1 DEF TakesAndQueues, ChargesPaid
        <3>6. ChargesPaid'
            BY <3>1, <3>3, <3>4, <3>5 DEF ChargesPaid
        <3> QED
            BY <3>2, <3>6
    <2> QED
        BY <1>1, <2>1, <2>3, <2>4, <2>5 DEF IInv
<1>8. CASE fresh /\ fresh'
    BY <1>1, <1>3, <1>4, <1>5, <1>6, <1>7, <1>8, NextKind DEF StepKind
<1>9. CASE ~fresh
    <2>1. fresh' = FALSE
        BY <1>1, <1>9, NextKind DEF StepKind, Quiet, Queues, SendPdu, Takes, TakesAndQueues, TypeOK
    <2> QED
        BY <1>2, <2>1
<1> QED
    BY <1>1, <1>2, <1>8, <1>9 DEF TypeOK

(* The inductive invariant holds: on the first connection the ids of queued *)
(* and sent requests are ordered and disjoint, and the credits at hand      *)
(* cover the ids not yet sent.                                              *)
THEOREM InvCorrect == Spec => []IInv
<1>1. Init => IInv
    BY InitInv
<1>2. IInv /\ [Next]_vars => IInv'
    BY NextInv
<1> QED
    BY <1>1, <1>2, PTL DEF Spec

(* On the first connection of a context no two requests ever share a        *)
(* message id, whatever is chained, pipelined or left over from a failed    *)
(* call: no assignment to outqueue or waitqueue overwrites a PDU.           *)
THEOREM IdsAreUnique == Spec => []UniqueIds
<1>1. IInv => UniqueIds
    <2> SUFFICES ASSUME IInv, fresh
                 PROVE  /\ \A m \in outqueue : m.id < message_id /\ \A p \in waitqueue : p.id < m.id
                        /\ \A m, n \in outqueue : m.id = n.id => m = n
                        /\ \A p, q \in waitqueue : p.id = q.id => p = q
        BY DEF UniqueIds
    <2>1. TypeOK /\ IdsOrdered
        BY DEF IInv
    <2>2. \A m \in outqueue : m.id \in Nat /\ Width(m) \in Nat /\ Width(m) >= 1
        BY <2>1, WidthNat DEF TypeOK
    <2>3. \A p \in waitqueue : p.id \in Nat /\ Span(p.charge) \in Nat /\ Span(p.charge) >= 1
        BY <2>1, SpanNat DEF TypeOK, PDUs
    <2>4. message_id \in Nat
        BY <2>1 DEF TypeOK
    <2> QED
        BY <2>1, <2>2, <2>3, <2>4 DEF IdsOrdered
<1> QED
    BY <1>1, InvCorrect, PTL

(* On the first connection, unless a request was charged nothing or could   *)
(* not be signed, no request is sent with an id the credits received do not *)
(* allow, for any sizes of requests and any grants of the server.           *)
THEOREM SentWithinWindow == Spec => []WithinWindow
<1>1. IInv => WithinWindow
    BY DEF IInv, CreditsCoverIds, WithinWindow
<1> QED
    BY <1>1, InvCorrect, PTL

(***************************************************************************)
(* A connection that works: one exchange at a time.                        *)
(***************************************************************************)

(* The server answers every request, a compound by a compound and nothing   *)
(* with an interim response, each answer grants at least the credits any    *)
(* one request needs, and neither poll, the reads nor the link fail.        *)
Reliable ==
    /\ Chained = TRUE /\ Async = FALSE /\ Faulty = FALSE
    /\ \A g \in Grants : g >= 3 /\ \A n \in Needs : n <= g

(* The uint32_t credits does not wrap.                                      *)
NoOverflow == \A g \in Grants : credits + g < Word

(* There are credits for whatever is asked next.                            *)
Plenty == credits >= 3 /\ \A n \in Needs : n <= credits

ConnectCmds == {"NEGOTIATE", "SESSION_SETUP", "TREE_CONNECT"}

(* The commands a message consists of when it is not a chain.               *)
Alones == Commands \ {"EMPTY_IO", "C_CREATE", "C_CLOSE"}

(* The i-th PDU of m, and those from the k-th on.                           *)
Part(m, i) == [id |-> m.id + i - 1, cmd |-> m.cmds[i], charge |-> m.charge, call |-> m.call]
Parts(m, k) == {Part(m, i) : i \in k..Len(m.cmds)}

(* m is a message of the current call.                                      *)
Own(m) ==
    /\ m.call = call
    /\ \/ m.cmds \in {<<c>> : c \in Alones}
       \/ m.cmds = Compound /\ m.charge <= 1

(* The connection is where a request of command c can be outstanding.       *)
Fits(c) ==
    /\ pc # "idle" /\ connected = TRUE
    /\ op = "connect" => c \in ConnectCmds
    /\ c = "NEGOTIATE" => session_id = FALSE /\ tree_id = FALSE
    /\ c = "TREE_CONNECT" => session_id = TRUE /\ (signing_required = TRUE => session_key = TRUE)
    /\ c \notin ConnectCmds =>
        (signing_required = TRUE => session_id = FALSE \/ session_key = TRUE)
    /\ (fresh = TRUE /\ (c = "NEGOTIATE" \/ (dialect = "later" /\ c \in ConnectCmds)))
        => unpaid = FALSE

(* Nothing is under way: between two calls, or the call is about to return. *)
Nothing ==
    /\ outqueue = {} /\ waitqueue = {} /\ inbox = {} /\ replies = <<>>
    /\ pc = "idle" \/ (pc = "loop" /\ isComplete = TRUE /\ answered = TRUE)
    /\ connected = TRUE => Plenty
    /\ (pc = "loop" /\ op = "connect" /\ ntStatus = "SUCCESS") => connected = TRUE /\ tree_id = TRUE

(* m waits to be sent, is at the server, or has been answered and the       *)
(* answers from the k-th on are still to be read.                           *)
Queued(m) ==
    /\ outqueue = {m} /\ waitqueue = {} /\ inbox = {} /\ replies = <<>>
    /\ pc \in {"loop", "send"} /\ isComplete = FALSE
    /\ TotalCharge(m) <= credits

Sent(m) ==
    /\ outqueue = {} /\ waitqueue = Parts(m, 1) /\ inbox = {m} /\ replies = <<>>
    /\ pc \in {"loop", "send"} /\ isComplete = FALSE

Answered(m, k) ==
    /\ outqueue = {} /\ waitqueue = Parts(m, k) /\ inbox = {}
    /\ Len(replies) = Len(m.cmds) - k + 1
    /\ \A j \in 1..Len(replies) :
        /\ replies[j].id = m.id + k + j - 2
        /\ replies[j].last = (k + j - 1 = Len(m.cmds))
        /\ replies[j].status # "PENDING"
    /\ k = 1 => isComplete = FALSE
    /\ k > 1 => pc = "recv"
    /\ k = 3 => isComplete = TRUE /\ answered = TRUE

UnderWay(m) ==
    /\ Own(m) /\ Fits(m.cmds[1])
    /\ Queued(m) \/ Sent(m) \/ \E k \in 1..Len(m.cmds) : Answered(m, k)

(* At most one message is under way.                                        *)
Exchange == Nothing \/ \E m \in Messages : UnderWay(m)

(* What else stays true of the connection and of the current call.          *)
Mounted == tree_id = TRUE => session_id = TRUE /\ (signing_required = TRUE => session_key = TRUE)
PaidFor == (fresh = TRUE /\ dialect = "later" /\ tree_id = TRUE) => unpaid = FALSE

Settled ==
    /\ link = TRUE /\ stream = "synced" /\ pollout = FALSE /\ dangling = FALSE
    /\ (pc # "idle" /\ isComplete = TRUE) => completer = call
    /\ connected = FALSE => session_id = FALSE /\ tree_id = FALSE
    /\ Mounted
    /\ (fresh = TRUE /\ connected = FALSE) => unpaid = FALSE
    /\ PaidFor
    /\ (op = "connect" /\ pc = "idle" /\ result = "SUCCESS") => connected = TRUE /\ tree_id = TRUE

RInv == TypeOK /\ Exchange /\ Settled

(* Inside sendAndReceive either the call is over or its message is still to *)
(* be sent, to be answered, or to be read.                                  *)
AnswerUnderWay ==
    pc = "loop" => isComplete \/ outqueue # {} \/ inbox # {} \/ replies # <<>>

(* The message ids of a message of ours are consecutive, one for each PDU.  *)
LEMMA PartsOf ==
    ASSUME NEW m \in Messages, Own(m)
    PROVE  Unchained(m) = Parts(m, 1) /\ Len(m.cmds) \in {1, 3} /\ m.id \in Nat /\ m.charge \in Nat
<1>1. m.id \in Nat /\ m.charge \in Nat /\ m.cmds \in Chains
    BY DEF Messages
<1>2. Len(m.cmds) \in {1, 3}
    BY <1>1, ChainLength
<1>3. Len(m.cmds) = 1 \/ Span(m.charge) = 1
    BY <1>1 DEF Own, Span
<1>4. ASSUME NEW i \in 1..Len(m.cmds)
      PROVE  m.id + (i - 1) * Span(m.charge) = m.id + i - 1
    <2>1. Span(m.charge) \in Nat
        BY <1>1, SpanNat
    <2>2. CASE Len(m.cmds) = 1
        <3>1. i = 1
            BY <2>2
        <3> QED
            BY <1>1, <2>1, <3>1
    <2>3. CASE Span(m.charge) = 1
        BY <1>1, <1>2, <2>3
    <2> QED
        BY <1>3, <2>2, <2>3
<1>5. ASSUME NEW u
      PROVE  u \in Unchained(m) <=> u \in Parts(m, 1)
    BY <1>4 DEF Unchained, Parts, Part
<1> QED
    BY <1>1, <1>2, <1>5

(* The reply to the k-th PDU finds that PDU, and leaves the later ones.     *)
LEMMA PartTaken ==
    ASSUME NEW m \in Messages, NEW k \in 1..Len(m.cmds), Len(m.cmds) \in {1, 3},
           NEW p \in Parts(m, k), p.id = m.id + k - 1
    PROVE  /\ p = Part(m, k)
           /\ Parts(m, k) \ {p} = Parts(m, k + 1)
           /\ k = Len(m.cmds) => Parts(m, k + 1) = {}
<1>1. m.id \in Nat
    BY DEF Messages
<1>2. \A i \in k..Len(m.cmds) : Part(m, i).id = m.id + i - 1
    BY DEF Part
<1>3. PICK i \in k..Len(m.cmds) : p = Part(m, i)
    BY DEF Parts
<1>4. m.id + i - 1 = m.id + k - 1
    BY <1>2, <1>3
<1>5. i = k
    BY <1>1, <1>4
<1>6. ASSUME NEW u \in Parts(m, k), u # p
      PROVE  u \in Parts(m, k + 1)
    <2>1. PICK j \in k..Len(m.cmds) : u = Part(m, j)
        BY DEF Parts
    <2>2. j \in (k + 1)..Len(m.cmds)
        BY <1>3, <1>5, <1>6, <2>1
    <2> QED
        BY <2>1, <2>2 DEF Parts
<1>7. ASSUME NEW u \in Parts(m, k + 1)
      PROVE  u \in Parts(m, k) /\ u # p
    <2>1. PICK j \in (k + 1)..Len(m.cmds) : u = Part(m, j)
        BY DEF Parts
    <2>2. j \in k..Len(m.cmds) /\ j # k
        BY <2>1
    <2>3. m.id + j - 1 # m.id + k - 1
        BY <1>1, <2>2
    <2> QED
        BY <1>2, <2>1, <2>2, <2>3 DEF Parts
<1>8. k = Len(m.cmds) => Parts(m, k + 1) = {}
    BY DEF Parts
<1> QED
    BY <1>3, <1>5, <1>6, <1>7, <1>8

(* What is read answers the next PDU of the message under way, and leaves   *)
(* credits for whatever comes next.                                         *)
LEMMA Taken ==
    ASSUME TypeOK, Exchange, Settled, Reliable, NoOverflow,
           NEW r, NEW p, Receiving(r, p), TakePdu(r, p)
    PROVE  /\ \E m \in Messages : \E k \in 1..Len(m.cmds) :
                /\ Own(m) /\ Fits(m.cmds[1]) /\ Answered(m, k)
                /\ p = Part(m, k) /\ waitqueue' = Parts(m, k + 1)
                /\ r.status # "PENDING" /\ r.last = (k = Len(m.cmds))
                /\ k = Len(m.cmds) => waitqueue' = {} /\ Tail(replies) = <<>>
           /\ Plenty'
<1>1. p \in waitqueue /\ replies # <<>> /\ r = Head(replies) /\ p.id = r.id
    BY DEF Receiving, Matches
<1>2. PICK m \in Messages : Own(m) /\ Fits(m.cmds[1]) /\ \E k \in 1..Len(m.cmds) : Answered(m, k)
    BY <1>1 DEF Exchange, Nothing, UnderWay, Queued, Sent
<1>3. PICK k \in 1..Len(m.cmds) : Answered(m, k)
    BY <1>2
<1>4. Len(m.cmds) \in {1, 3} /\ m.id \in Nat
    BY <1>2, PartsOf
<1>5. replies \in Seq(Replies) /\ Len(replies) = Len(m.cmds) - k + 1 /\ r = replies[1]
    BY <1>1, <1>3 DEF Answered, TypeOK
<1>6. r.id = m.id + k - 1 /\ r.last = (k = Len(m.cmds)) /\ r.status # "PENDING"
    <2>1. 1 \in 1..Len(replies)
        BY <1>4, <1>5
    <2>2. /\ r.id = m.id + k + 1 - 2 /\ r.last = (k + 1 - 1 = Len(m.cmds))
          /\ r.status # "PENDING"
        BY <1>3, <1>5, <2>1 DEF Answered
    <2>3. k + 1 - 1 = k
        BY <1>4
    <2> QED
        BY <1>4, <2>2, <2>3
<1>7. p \in Parts(m, k) /\ p.id = m.id + k - 1
    BY <1>1, <1>3, <1>6 DEF Answered
<1>8. /\ p = Part(m, k) /\ Parts(m, k) \ {p} = Parts(m, k + 1)
      /\ k = Len(m.cmds) => Parts(m, k + 1) = {}
    BY <1>4, <1>7, PartTaken
<1>9. waitqueue' = Parts(m, k + 1)
    BY <1>3, <1>8 DEF Answered, TakePdu
<1>10. k = Len(m.cmds) => Tail(replies) = <<>>
    <2>1. k = Len(m.cmds) => Len(replies) = 1
        BY <1>4, <1>5
    <2>2. Len(replies) = 1 => Len(Tail(replies)) = 0 /\ Tail(replies) \in Seq(Replies)
        BY <1>1, <1>5
    <2>3. \A s \in Seq(Replies) : Len(s) = 0 => s = <<>>
        OBVIOUS
    <2> QED
        BY <2>1, <2>2, <2>3
<1>11. Plenty'
    <2>1. r.grant \in Grants /\ r.grant \in Nat /\ credits \in Nat
        <3>1. r \in Replies
            BY <1>1, <1>5
        <3>2. r.grant \in Grants
            BY <3>1 DEF Replies
        <3>3. r.grant \in Nat
            BY <3>2, CreditAssumption
        <3>4. credits \in Nat
            BY BoundAssumption DEF TypeOK
        <3> QED
            BY <3>2, <3>3, <3>4
    <2>2. credits + r.grant < Word
        BY <2>1 DEF NoOverflow
    <2>3. credits' = credits + r.grant
        <3>1. credits + r.grant \in 0..(Word - 1)
            BY <2>1, <2>2, BoundAssumption
        <3>2. \A x \in 0..(Word - 1) : x % Word = x
            BY BoundAssumption
        <3> QED
            BY <3>1, <3>2 DEF TakePdu
    <2>4. r.grant >= 3 /\ \A n \in Needs : n <= r.grant /\ n \in Nat
        BY <2>1, CreditAssumption DEF Reliable
    <2> QED
        BY <2>1, <2>3, <2>4 DEF Plenty
<1> QED
    BY <1>2, <1>3, <1>6, <1>8, <1>9, <1>10, <1>11

(* The reply to a message of one PDU, up to what its handler does.          *)
Alone(p, c) ==
    /\ Fits(c) /\ p.call = call /\ p.cmd = c
    /\ isComplete = FALSE /\ outqueue = {} /\ inbox = {}
    /\ Tail(replies) = <<>>
    /\ waitqueue' = {} /\ pc' = "loop" /\ Plenty'
    /\ UNCHANGED <<pollout, call, op, result>>

(* The reply to the k-th PDU of the chain m.                                *)
InChain(p, m, k) ==
    /\ Own(m) /\ Fits("C_CREATE") /\ m.cmds = Compound /\ Answered(m, k) /\ p = Part(m, k)
    /\ waitqueue' = Parts(m, k + 1) /\ Plenty'
    /\ pc' = IF k = 3 THEN "loop" ELSE "recv"
    /\ k = 3 => waitqueue' = {} /\ Tail(replies) = <<>>
    /\ UNCHANGED <<pollout, call, op, result>>

(* A reply that reaches a handler is of one of the two kinds.               *)
LEMMA TakenPart ==
    ASSUME TypeOK, Exchange, Settled, Reliable, NoOverflow,
           NEW r, NEW p, NEW c, Handle(r, p, c)
    PROVE  \/ c \in Alones /\ Alone(p, c)
           \/ \E m \in Messages, k \in {1, 2, 3} : InChain(p, m, k) /\ c = Compound[k]
<1>1. Receiving(r, p) /\ TakePdu(r, p) /\ p.cmd = c /\ AfterReply(r.last) /\ UNCHANGED <<pollout, app>>
    BY DEF Handle
<1> DEFINE Reads(m, k) ==
            /\ Own(m) /\ Fits(m.cmds[1]) /\ Answered(m, k)
            /\ p = Part(m, k) /\ r.last = (k = Len(m.cmds)) /\ waitqueue' = Parts(m, k + 1)
            /\ k = Len(m.cmds) => waitqueue' = {} /\ Tail(replies) = <<>>
<1>2. PICK m \in Messages : \E k \in 1..Len(m.cmds) : Reads(m, k)
    BY <1>1, Taken
<1>3. PICK k \in 1..Len(m.cmds) : Reads(m, k)
    BY <1>2
<1>4. p.cmd = m.cmds[k] /\ p.call = m.call /\ m.call = call
    BY <1>3 DEF Part, Own
<1>5. pc' = IF k = Len(m.cmds) THEN "loop" ELSE "recv"
    BY <1>1, <1>3 DEF AfterReply, Settled
<1>6. Plenty' /\ UNCHANGED <<pollout, call, op, result>>
    BY <1>1, Taken DEF app
<1>7. CASE m.cmds = Compound
    <2>1. Len(m.cmds) = 3 /\ m.cmds[1] = "C_CREATE"
        BY <1>7 DEF Compound
    <2>2. k \in {1, 2, 3}
        BY <2>1
    <2>3. InChain(p, m, k)
        BY <1>3, <1>5, <1>6, <1>7, <2>1 DEF InChain
    <2> QED
        BY <1>1, <1>4, <1>7, <2>2, <2>3
<1>8. CASE m.cmds \in {<<d>> : d \in Alones}
    <2>1. Len(m.cmds) = 1 /\ m.cmds[1] \in Alones
        BY <1>8
    <2>2. k = 1
        BY <2>1
    <2>3. isComplete = FALSE /\ outqueue = {} /\ inbox = {}
        BY <1>3, <2>2 DEF Answered
    <2>4. c \in Alones /\ Alone(p, c)
        BY <1>1, <1>3, <1>4, <1>5, <1>6, <2>1, <2>2, <2>3 DEF Alone
    <2> QED
        BY <2>4
<1> QED
    BY <1>3, <1>7, <1>8 DEF Own

(* A command that is not part of a chain is answered alone.                  *)
LEMMA TakenAlone ==
    ASSUME TypeOK, Exchange, Settled, Reliable, NoOverflow,
           NEW r, NEW p, NEW c \in Alones, c # "IO", Handle(r, p, c)
    PROVE  Alone(p, c)
<1>1. \A k \in {1, 2, 3} : c # Compound[k]
    BY DEF Compound, Alones
<1> QED
    BY <1>1, TakenPart

(* A handler that closes the context ends the exchange.                     *)
LEMMA CloseStep ==
    ASSUME TypeOK, Settled, NEW p, NEW c \in Alones, Alone(p, c),
           NEW st, CloseAndEnd(p, st), op = "connect" => st # "SUCCESS"
    PROVE  Exchange' /\ Settled'
<1>1. p.cmd \notin {"C_CREATE", "C_CLOSE"} /\ p.call = call
    BY DEF Alone, Alones
<1>2. ntStatus' = st /\ answered' = TRUE /\ dangling' = dangling
    BY <1>1 DEF CloseAndEnd, SetNtStatus
<1>3. isComplete' = TRUE /\ completer' = call /\ call' = call /\ op' = op /\ pc' = "loop"
    BY <1>1 DEF CloseAndEnd, EndSendReceive, Alone
<1>4. /\ connected' = FALSE /\ session_id' = FALSE /\ tree_id' = FALSE /\ fresh' = FALSE
      /\ inbox' = {} /\ replies' = <<>> /\ stream' = "synced" /\ link' = link
      /\ outqueue' = {} /\ waitqueue' = {} /\ pollout' = pollout
    BY DEF CloseAndEnd, Close, Alone
<1>5. Nothing'
    BY <1>2, <1>3, <1>4 DEF Nothing
<1>6. Settled'
    BY <1>2, <1>3, <1>4 DEF Settled, Mounted, PaidFor
<1> QED
    BY <1>5, <1>6 DEF Exchange

(* A handler that only ends the call ends the exchange.                     *)
LEMMA EndStep ==
    ASSUME TypeOK, Settled, NEW p, NEW c \in Alones, Alone(p, c),
           NEW st, SetNtStatus(p, st), EndSendReceive(p), replies' = Tail(replies),
           UNCHANGED <<connected, fresh, link, inbox, outqueue, stream, unpaid>>,
           op = "connect" => st # "SUCCESS" \/ tree_id' = TRUE, Mounted', PaidFor'
    PROVE  Exchange' /\ Settled'
<1>1. p.cmd \notin {"C_CREATE", "C_CLOSE"} /\ p.call = call
    BY DEF Alone, Alones
<1>2. ntStatus' = st /\ answered' = TRUE /\ dangling' = dangling
    BY <1>1 DEF SetNtStatus
<1>3. isComplete' = TRUE /\ completer' = call /\ call' = call /\ op' = op /\ pc' = "loop"
    BY <1>1 DEF EndSendReceive, Alone
<1>4. /\ connected' = TRUE /\ inbox' = {} /\ replies' = <<>> /\ stream' = stream /\ link' = link
      /\ outqueue' = {} /\ waitqueue' = {} /\ pollout' = pollout /\ Plenty'
    BY DEF Alone, Fits
<1>5. Nothing'
    BY <1>2, <1>3, <1>4 DEF Nothing
<1>6. Settled'
    BY <1>2, <1>3, <1>4 DEF Settled
<1> QED
    BY <1>5, <1>6 DEF Exchange

(* A handler that goes on begins the next exchange of the call.             *)
LEMMA GoOnStep ==
    ASSUME TypeOK, TypeOK', Settled, NEW p, NEW c \in Alones, Alone(p, c),
           NEW st, NEW d \in Alones, NEW charge \in {0, 1}, NEW signed \in BOOLEAN, signed,
           GoOn(p, st, d, charge, signed), Fits(d)', Mounted', PaidFor'
    PROVE  Exchange' /\ Settled'
<1>1. p.cmd \notin {"C_CREATE", "C_CLOSE"} /\ p.call = call
    BY DEF Alone, Alones
<1>2. dangling' = dangling
    BY <1>1 DEF GoOn, SetNtStatus
<1>3. /\ isComplete' = FALSE /\ call' = call /\ op' = op /\ pc' = "loop"
      /\ inbox' = {} /\ replies' = <<>> /\ stream' = stream /\ link' = link
      /\ connected' = TRUE /\ waitqueue' = {} /\ pollout' = pollout /\ Plenty'
    BY DEF GoOn, Alone, Fits, done
<1>4. PICK m \in Messages : /\ outqueue' = {m} /\ m.call = call
                            /\ m.cmds = <<d>> /\ m.charge = charge
    <2> DEFINE new == [id |-> message_id, cmds |-> <<d>>, charge |-> charge, call |-> call]
    <2>1. outqueue' = {new}
        BY <1>1 DEF GoOn, QueuePdu, Put, Alone
    <2>2. <<d>> \in Chains
        BY DEF Chains, Alones
    <2>3. new \in Messages
        BY <2>2 DEF Messages, TypeOK
    <2> QED
        BY <2>1, <2>3
<1>7. TotalCharge(m) <= credits'
    <2>1. credits' \in Nat /\ credits' >= 3
        BY <1>3, BoundAssumption DEF TypeOK, Plenty
    <2>2. TotalCharge(m) \in {0, 1}
        BY <1>4 DEF TotalCharge
    <2> QED
        BY <2>1, <2>2
<1>8. Own(m)'
    BY <1>3, <1>4 DEF Own
<1>9. Queued(m)'
    BY <1>3, <1>4, <1>7 DEF Queued, TotalCharge
<1>10. Fits(m.cmds[1])'
    <2>1. m.cmds[1] = d
        BY <1>4
    <2> QED
        BY <2>1
<1>11. UnderWay(m)'
    BY <1>8, <1>9, <1>10 DEF UnderWay
<1>12. Settled'
    BY <1>2, <1>3 DEF Settled
<1> QED
    BY <1>11, <1>12 DEF Exchange

(* A request that is signed, or need not be, and costs something is paid.   *)
LEMMA PaidQueue ==
    ASSUME TypeOK, NEW cmds, NEW charge, NEW signed \in BOOLEAN, NEW caller,
           QueuePdu(cmds, charge, signed, caller), signed,
           charge # 0 \/ cmds = <<"NEGOTIATE">>
    PROVE  unpaid' = unpaid
BY DEF QueuePdu, TypeOK

(* The handlers of the three commands that connect.                         *)
LEMMA NegotiateStep ==
    ASSUME RInv, TypeOK', Reliable, NoOverflow, NEW r, NEW p, OnNegotiate(r, p)
    PROVE  Exchange' /\ Settled'
<1>1. Alone(p, "NEGOTIATE") /\ "NEGOTIATE" \in Alones
    <2>1. Handle(r, p, "NEGOTIATE") /\ "NEGOTIATE" \in Alones
        BY DEF OnNegotiate, Alones, Commands
    <2> QED
        BY <2>1, TakenAlone DEF RInv
<1>2. TypeOK /\ Settled /\ Fits("NEGOTIATE")
    BY <1>1 DEF RInv, Alone
<1>3. CASE r.status # "SUCCESS" /\ CloseAndEnd(p, r.status)
    BY <1>1, <1>2, <1>3, CloseStep
<1>4. CASE EndOnly(p, "ERROR") /\ UNCHANGED neg
    <2>1. /\ SetNtStatus(p, "ERROR") /\ EndSendReceive(p) /\ replies' = Tail(replies)
          /\ UNCHANGED <<connected, fresh, link, inbox, outqueue, stream, unpaid>>
          /\ UNCHANGED <<session_id, tree_id, session_key, dialect, signing_required>>
        BY <1>4 DEF EndOnly, ctx, neg
    <2>2. Mounted' /\ PaidFor'
        BY <1>2, <2>1 DEF Settled, Mounted, PaidFor
    <2> QED
        BY <1>1, <1>2, <2>1, <2>2, EndStep
<1>5. CASE CloseAndEnd(p, "ERROR")
    BY <1>1, <1>2, <1>5, CloseStep
<1>6. CASE /\ GoOn(p, "SUCCESS", "SESSION_SETUP", IF dialect' = "0202" THEN 0 ELSE 1, TRUE)
           /\ UNCHANGED <<session_id, tree_id, session_key>>
    <2> DEFINE charge == IF dialect' = "0202" THEN 0 ELSE 1
    <2>1. charge \in {0, 1} /\ (dialect' = "later" => charge # 0)
        OBVIOUS
    <2>2. GoOn(p, "SUCCESS", "SESSION_SETUP", charge, TRUE)
        BY <1>6
    <2> HIDE DEF charge
    <2>3. session_id' = FALSE /\ tree_id' = FALSE
        BY <1>2, <1>6 DEF Fits
    <2>4. (fresh' = TRUE /\ dialect' = "later") => unpaid' = FALSE
        <3>1. QueuePdu(<<"SESSION_SETUP">>, charge, TRUE, p.call) /\ fresh' = fresh
            BY <2>2 DEF GoOn
        <3>2. charge # 0 => unpaid' = unpaid
            BY <1>2, <3>1, PaidQueue
        <3> QED
            BY <1>2, <2>1, <3>1, <3>2 DEF Fits
    <2>5. Fits("SESSION_SETUP")'
        <3>1. pc' = "loop" /\ connected' = TRUE
            BY <1>1, <2>2 DEF Alone, Fits, GoOn
        <3> QED
            BY <2>4, <3>1 DEF Fits, ConnectCmds
    <2>6. Mounted' /\ PaidFor'
        BY <2>3 DEF Mounted, PaidFor
    <2>7. "SESSION_SETUP" \in Alones
        BY DEF Alones, Commands
    <2> QED
        BY <1>1, <1>2, <2>1, <2>2, <2>5, <2>6, <2>7, GoOnStep
<1> QED
    BY <1>3, <1>4, <1>5, <1>6 DEF OnNegotiate

(* Only in dialect 2.02 is a request free.                                  *)
LEMMA DefaultCharged ==
    DefaultCharge \in {0, 1} /\ (dialect = "later" => DefaultCharge # 0)
BY DEF DefaultCharge

(* A session that is set up has the key that signing asks for, so the next   *)
(* request of the connect can be signed.                                    *)
LEMMA SessionSetupStep ==
    ASSUME RInv, TypeOK', Reliable, NoOverflow, NEW r, NEW p, OnSessionSetup(r, p)
    PROVE  Exchange' /\ Settled'
<1>1. Alone(p, "SESSION_SETUP") /\ "SESSION_SETUP" \in Alones /\ "TREE_CONNECT" \in Alones
    <2>1. Handle(r, p, "SESSION_SETUP") /\ "SESSION_SETUP" \in Alones /\ "TREE_CONNECT" \in Alones
        BY DEF OnSessionSetup, Alones, Commands
    <2> QED
        BY <2>1, TakenAlone DEF RInv
<1>2. TypeOK /\ Settled /\ Fits("SESSION_SETUP")
    BY <1>1 DEF RInv, Alone
<1>3. dialect' = dialect /\ signing_required' = signing_required
    BY DEF OnSessionSetup, neg
<1>4. ASSUME NEW st, CloseAndEnd(p, st), st # "SUCCESS"
      PROVE  Exchange' /\ Settled'
    BY <1>1, <1>2, <1>4, CloseStep
<1>5. ASSUME NEW st, NEW d \in {"SESSION_SETUP", "TREE_CONNECT"}, NEW signed \in BOOLEAN, signed,
             GoOn(p, st, d, DefaultCharge, signed), tree_id' = tree_id,
             session_id' = TRUE, session_key = TRUE => session_key' = TRUE,
             d = "TREE_CONNECT" => (signing_required = TRUE => session_key' = TRUE)
      PROVE  Exchange' /\ Settled'
    <2>1. QueuePdu(<<d>>, DefaultCharge, signed, p.call) /\ fresh' = fresh
        BY <1>5 DEF GoOn
    <2>2. DefaultCharge # 0 => unpaid' = unpaid
        BY <1>2, <1>5, <2>1, PaidQueue
    <2>3. (fresh' = TRUE /\ dialect' = "later") => unpaid' = FALSE
        BY <1>2, <1>3, <2>1, <2>2, DefaultCharged DEF Fits, ConnectCmds
    <2>4. Fits(d)'
        <3>1. pc' = "loop" /\ connected' = TRUE
            BY <1>1, <1>5 DEF Alone, Fits, GoOn
        <3> QED
            BY <1>3, <1>5, <2>3, <3>1 DEF Fits, ConnectCmds
    <2>5. Mounted' /\ PaidFor'
        BY <1>2, <1>3, <1>5, <2>3 DEF Mounted, PaidFor, Settled
    <2>6. d \in Alones
        BY <1>1
    <2> QED
        BY <1>1, <1>2, <1>5, <2>4, <2>5, <2>6, DefaultCharged, GoOnStep
<1>6. CASE GoOn(p, r.status, "SESSION_SETUP", DefaultCharge, TRUE) /\ session_id' = TRUE
           /\ UNCHANGED <<tree_id, session_key>>
    BY <1>5, <1>6
<1>7. CASE /\ SetNtStatus(p, "ERROR") /\ EndSendReceive(p) /\ session_id' = TRUE
           /\ replies' = Tail(replies)
           /\ UNCHANGED <<connected, message_id, tree_id, session_key, fresh, link, inbox, interim,
                          outqueue, stream, unpaid>>
    <2>1. Mounted' /\ PaidFor'
        BY <1>2, <1>3, <1>7 DEF Settled, Mounted, PaidFor
    <2> QED
        BY <1>1, <1>2, <1>7, <2>1, EndStep
<1>8. CASE /\ session_id' = TRUE /\ session_key' = (session_key \/ signing_required)
           /\ GoOn(p, "SUCCESS", "TREE_CONNECT", DefaultCharge,
                   CanSign("TREE_CONNECT", signing_required, TRUE, session_key'))
           /\ UNCHANGED tree_id
    <2>1. session_key = TRUE => session_key' = TRUE
        BY <1>2, <1>8 DEF TypeOK
    <2>2. signing_required = TRUE => session_key' = TRUE
        BY <1>2, <1>8 DEF TypeOK
    <2>3. CanSign("TREE_CONNECT", signing_required, TRUE, session_key') \in BOOLEAN
        BY <1>2, <1>8, CanSignType DEF TypeOK
    <2>4. CanSign("TREE_CONNECT", signing_required, TRUE, session_key')
        BY <1>2, <2>2 DEF CanSign, TypeOK
    <2> QED
        BY <1>5, <1>8, <2>1, <2>2, <2>3, <2>4
<1> QED
    BY <1>4, <1>6, <1>7, <1>8 DEF OnSessionSetup

(* The tree is mounted on a session with its key, every id paid for.        *)
LEMMA TreeConnectStep ==
    ASSUME RInv, TypeOK', Reliable, NoOverflow, NEW r, NEW p, OnTreeConnect(r, p)
    PROVE  Exchange' /\ Settled'
<1>1. Alone(p, "TREE_CONNECT") /\ "TREE_CONNECT" \in Alones
    <2>1. Handle(r, p, "TREE_CONNECT") /\ "TREE_CONNECT" \in Alones
        BY DEF OnTreeConnect, Alones, Commands
    <2> QED
        BY <2>1, TakenAlone DEF RInv
<1>2. TypeOK /\ Settled /\ Fits("TREE_CONNECT")
    BY <1>1 DEF RInv, Alone
<1>3. CASE r.status # "SUCCESS" /\ CloseAndEnd(p, r.status)
    BY <1>1, <1>2, <1>3, CloseStep
<1>4. CASE r.status = "SUCCESS"
    <2>1. /\ SetNtStatus(p, "SUCCESS") /\ EndSendReceive(p) /\ replies' = Tail(replies)
          /\ UNCHANGED <<connected, fresh, link, inbox, outqueue, stream, unpaid>>
          /\ tree_id' = TRUE
          /\ UNCHANGED <<session_id, session_key, dialect, signing_required>>
        BY <1>4 DEF OnTreeConnect, neg
    <2>2. Mounted' /\ PaidFor'
        BY <1>2, <2>1 DEF Fits, Mounted, PaidFor, ConnectCmds
    <2> QED
        BY <1>1, <1>2, <2>1, <2>2, EndStep
<1> QED
    BY <1>3, <1>4 DEF OnTreeConnect

(* A request that follows another of the same call, once connected.         *)
LEMMA FollowUp ==
    ASSUME TypeOK, TypeOK', Settled, NEW p, NEW c \in Alones \ ConnectCmds, Alone(p, c),
           NEW st, NEW d \in Alones \ ConnectCmds,
           NEW charge \in {0, 1}, dialect = "later" => charge # 0,
           GoOn(p, st, d, charge, CanSign(d, signing_required, session_id, session_key)),
           UNCHANGED <<neg, session_id, tree_id, session_key>>
    PROVE  Exchange' /\ Settled'
<1> DEFINE signed == CanSign(d, signing_required, session_id, session_key)
<1>1. signed \in BOOLEAN
    BY CanSignType DEF TypeOK
<1>2. Fits(c) /\ op # "connect"
    BY DEF Alone, Fits
<1>3. signed
    BY <1>2 DEF CanSign, Fits, TypeOK
<1>4. GoOn(p, st, d, charge, signed)
    OBVIOUS
<1> HIDE DEF signed
<1>5. QueuePdu(<<d>>, charge, signed, p.call) /\ fresh' = fresh
    BY <1>4 DEF GoOn
<1>6. charge # 0 => unpaid' = unpaid
    BY <1>1, <1>3, <1>5, PaidQueue
<1>7. Mounted' /\ PaidFor'
    BY <1>5, <1>6 DEF Settled, Mounted, PaidFor, neg
<1>8. Fits(d)'
    <2>1. pc' = "loop" /\ connected' = TRUE /\ op' = op
        BY <1>2, <1>4 DEF Alone, Fits, GoOn
    <2>2. d \notin ConnectCmds /\ d # "NEGOTIATE" /\ d # "TREE_CONNECT"
        BY DEF ConnectCmds
    <2>3. UNCHANGED <<session_id, session_key, signing_required>>
        BY DEF neg
    <2> QED
        BY <1>2, <2>1, <2>2, <2>3 DEF Fits
<1> QED
    BY <1>1, <1>3, <1>4, <1>7, <1>8, GoOnStep

(* A handler that ends a call that is not connect_share.                    *)
LEMMA EndOnlyStep ==
    ASSUME TypeOK, Settled, NEW p, NEW c \in Alones \ ConnectCmds, Alone(p, c),
           NEW st, EndOnly(p, st), UNCHANGED neg
    PROVE  Exchange' /\ Settled'
<1>1. /\ SetNtStatus(p, st) /\ EndSendReceive(p) /\ replies' = Tail(replies)
      /\ UNCHANGED <<connected, fresh, link, inbox, outqueue, stream, unpaid>>
      /\ UNCHANGED <<session_id, tree_id, session_key, dialect, signing_required>>
    BY DEF EndOnly, ctx, neg
<1>2. op # "connect"
    BY DEF Alone, Fits
<1>3. Mounted' /\ PaidFor'
    BY <1>1 DEF Settled, Mounted, PaidFor
<1> QED
    BY <1>1, <1>2, <1>3, EndStep

(* The handlers that end a session or list a directory.                     *)
LEMMA CommandStep ==
    ASSUME RInv, TypeOK', Reliable, NoOverflow, NEW r, NEW p,
           OnTreeDisconnect(r, p) \/ OnLogoff(r, p) \/ OnQueryDirectory(r, p)
    PROVE  Exchange' /\ Settled'
<1>1. {"TREE_DISCONNECT", "LOGOFF", "QUERY_DIRECTORY"} \subseteq Alones \ ConnectCmds
    BY DEF Alones, ConnectCmds, Commands
<1>2. ASSUME NEW c \in {"TREE_DISCONNECT", "LOGOFF", "QUERY_DIRECTORY"}, Handle(r, p, c)
      PROVE  Alone(p, c)
    BY <1>1, <1>2, TakenAlone DEF RInv
<1>3. TypeOK /\ Settled
    BY DEF RInv
<1>4. CASE OnTreeDisconnect(r, p)
    <2>1. Alone(p, "TREE_DISCONNECT")
        BY <1>2, <1>4 DEF OnTreeDisconnect
    <2> QED
        BY <1>1, <1>3, <1>4, <2>1, DefaultCharged, FollowUp DEF OnTreeDisconnect
<1>5. CASE OnLogoff(r, p)
    <2>1. Alone(p, "LOGOFF")
        BY <1>2, <1>5 DEF OnLogoff
    <2>2. op # "connect"
        BY <2>1 DEF Alone, Fits, ConnectCmds
    <2> QED
        BY <1>1, <1>3, <1>5, <2>1, <2>2, CloseStep DEF OnLogoff
<1>6. CASE OnQueryDirectory(r, p)
    <2>1. Alone(p, "QUERY_DIRECTORY") /\ UNCHANGED neg
        BY <1>2, <1>6 DEF OnQueryDirectory
    <2> DEFINE charge == IF multi THEN 1 ELSE DefaultCharge
    <2>2. charge \in {0, 1} /\ (dialect = "later" => charge # 0)
        BY DefaultCharged
    <2>3. CASE /\ GoOn(p, "SUCCESS", "QUERY_DIRECTORY", charge,
                       CanSign("QUERY_DIRECTORY", signing_required, session_id, session_key))
               /\ UNCHANGED <<session_id, tree_id, session_key>>
        <3> HIDE DEF charge
        <3> QED
            BY <1>1, <1>3, <2>1, <2>2, <2>3, FollowUp
    <2>4. ASSUME NEW st, EndOnly(p, st)
          PROVE  Exchange' /\ Settled'
        BY <1>1, <1>3, <2>1, <2>4, EndOnlyStep
    <2> QED
        BY <1>6, <2>3, <2>4 DEF OnQueryDirectory
<1> QED
    BY <1>4, <1>5, <1>6

(* What the handlers of a chain leave alone.                                *)
Untouched ==
    UNCHANGED <<connected, session_id, tree_id, session_key, fresh, link, inbox, dialect,
                signing_required, outqueue, stream, unpaid, dangling>>

(* After the k-th reply of a chain, not the last, the rest is still due.    *)
LEMMA ChainGoesOn ==
    ASSUME TypeOK, Settled, NEW p, NEW m \in Messages, NEW k \in {1, 2}, InChain(p, m, k),
           replies' = Tail(replies), Untouched,
           isComplete' = TRUE => completer' = call,
           k = 2 => isComplete' = TRUE /\ answered' = TRUE
    PROVE  Exchange' /\ Settled'
<1>1. /\ Own(m) /\ Fits("C_CREATE") /\ m.cmds = Compound /\ Answered(m, k)
      /\ waitqueue' = Parts(m, k + 1) /\ pc' = "recv"
      /\ UNCHANGED <<pollout, call, op, result>>
    BY DEF InChain
<1>2. Len(m.cmds) = 3 /\ m.cmds[1] = "C_CREATE" /\ m.id \in Nat
    BY <1>1 DEF Compound, Messages
<1>3. replies \in Seq(Replies) /\ Len(replies) = 4 - k
    BY <1>1, <1>2 DEF Answered, TypeOK
<1>4. /\ Len(replies') = 3 - k
      /\ \A j \in 1..(3 - k) : replies'[j] = replies[j + 1]
    BY <1>3
<1>5. ASSUME NEW j \in 1..(3 - k)
      PROVE  /\ replies'[j].id = m.id + (k + 1) + j - 2
             /\ replies'[j].last = ((k + 1) + j - 1 = 3)
             /\ replies'[j].status # "PENDING"
    <2>1. j + 1 \in 1..Len(replies)
        BY <1>3
    <2>2. /\ replies[j + 1].id = m.id + k + (j + 1) - 2
          /\ replies[j + 1].last = (k + (j + 1) - 1 = 3)
          /\ replies[j + 1].status # "PENDING"
        BY <1>1, <1>2, <2>1 DEF Answered
    <2>3. m.id + k + (j + 1) - 2 = m.id + (k + 1) + j - 2 /\ k + (j + 1) - 1 = (k + 1) + j - 1
        BY <1>2
    <2> QED
        BY <1>4, <2>2, <2>3
<1>6. Answered(m, k + 1)'
    <2>1. outqueue' = {} /\ inbox' = {}
        BY <1>1 DEF Answered, Untouched
    <2>2. k + 1 # 1 /\ (k + 1 = 3 => k = 2)
        OBVIOUS
    <2>3. Len(replies') = Len(m.cmds) - (k + 1) + 1
        BY <1>2, <1>4
    <2>4. \A j \in 1..Len(replies') :
            /\ replies'[j].id = m.id + (k + 1) + j - 2
            /\ replies'[j].last = ((k + 1) + j - 1 = Len(m.cmds))
            /\ replies'[j].status # "PENDING"
        BY <1>2, <1>4, <1>5
    <2> QED
        BY <1>1, <2>1, <2>2, <2>3, <2>4 DEF Answered
<1>7. Own(m)'
    BY <1>1 DEF Own
<1>8. Fits(m.cmds[1])'
    <2>1. Fits("C_CREATE")'
        BY <1>1 DEF Fits, ConnectCmds, Untouched
    <2> QED
        BY <1>2, <2>1
<1>9. UnderWay(m)'
    <2>1. k + 1 \in 1..Len(m.cmds)
        BY <1>2
    <2> QED
        BY <1>6, <1>7, <1>8, <2>1 DEF UnderWay
<1>10. Settled'
    BY <1>1 DEF Settled, Mounted, PaidFor, Untouched
<1> QED
    BY <1>9, <1>10 DEF Exchange

(* The handlers of a chain, and of the commands that end a call.            *)
LEMMA IOStep ==
    ASSUME RInv, TypeOK', Reliable, NoOverflow, NEW r, NEW p,
           OnCompoundCreate(r, p) \/ OnCompoundClose(r, p) \/ OnIO(r, p)
    PROVE  Exchange' /\ Settled'
<1>1. TypeOK /\ Settled /\ Exchange
    BY DEF RInv
<1>2. Compound[1] = "C_CREATE" /\ Compound[2] = "IO" /\ Compound[3] = "C_CLOSE"
    BY DEF Compound
<1>3. "C_CREATE" \notin Alones /\ "C_CLOSE" \notin Alones /\ "IO" \in Alones \ ConnectCmds
    BY DEF Alones, ConnectCmds, Commands
<1>4. CASE OnCompoundCreate(r, p)
    <2>1. PICK m \in Messages, k \in {1, 2, 3} : InChain(p, m, k) /\ "C_CREATE" = Compound[k]
        BY <1>1, <1>3, <1>4, TakenPart DEF OnCompoundCreate
    <2>2. k = 1
        BY <1>2, <2>1
    <2>3. p.call = call /\ isComplete = FALSE
        BY <2>1, <2>2 DEF InChain, Own, Part, Answered
    <2>4. isComplete' = TRUE => completer' = call
        BY <1>4, <2>3 DEF OnCompoundCreate, EndSendReceive, done
    <2>5. Untouched /\ replies' = Tail(replies)
        BY <1>4 DEF OnCompoundCreate, Untouched, ctx, neg, data
    <2>6. k \in {1, 2}
        BY <2>2
    <2>7. k = 2 => isComplete' = TRUE /\ answered' = TRUE
        BY <2>2
    <2>8. InChain(p, m, k)
        BY <2>1
    <2> QED
        BY <1>1, <2>4, <2>5, <2>6, <2>7, <2>8, ChainGoesOn
<1>5. CASE OnIO(r, p)
    <2>1. EndOnly(p, r.status) /\ UNCHANGED neg
        BY <1>5 DEF OnIO
    <2>2. CASE Alone(p, "IO")
        BY <1>1, <1>3, <2>1, <2>2, EndOnlyStep
    <2>3. ASSUME NEW m \in Messages, NEW k \in {1, 2, 3}, InChain(p, m, k), "IO" = Compound[k]
          PROVE  Exchange' /\ Settled'
        <3>1. k = 2
            BY <1>2, <2>3
        <3>2. p.call = call /\ p.cmd = "IO"
            BY <1>2, <2>3, <3>1 DEF InChain, Own, Part
        <3>3. answered' = TRUE /\ dangling' = dangling
            BY <2>1, <3>2 DEF EndOnly, SetNtStatus
        <3>4. isComplete' = TRUE /\ completer' = call
            BY <2>1, <3>2 DEF EndOnly, EndSendReceive
        <3>5. Untouched /\ replies' = Tail(replies)
            BY <2>1, <3>3 DEF EndOnly, Untouched, ctx, neg
        <3>6. k \in {1, 2}
            BY <3>1
        <3> QED
            BY <1>1, <2>3, <3>1, <3>3, <3>4, <3>5, <3>6, ChainGoesOn
    <2>4. Handle(r, p, "IO")
        BY <1>5 DEF OnIO
    <2>5. \/ Alone(p, "IO")
          \/ \E m \in Messages, k \in {1, 2, 3} : InChain(p, m, k) /\ "IO" = Compound[k]
        BY <1>1, <2>4, TakenPart
    <2> QED
        BY <2>2, <2>3, <2>5
<1>6. CASE OnCompoundClose(r, p)
    <2>1. PICK m \in Messages, k \in {1, 2, 3} : InChain(p, m, k) /\ "C_CLOSE" = Compound[k]
        BY <1>1, <1>3, <1>6, TakenPart DEF OnCompoundClose
    <2>2. k = 3
        BY <1>2, <2>1
    <2>3. p.call = call /\ p.cmd = "C_CLOSE" /\ answered = TRUE /\ outqueue = {} /\ inbox = {}
        BY <1>2, <2>1, <2>2 DEF InChain, Own, Part, Answered
    <2>4. /\ isComplete' = TRUE /\ completer' = call
          /\ UNCHANGED <<answered, dangling>> /\ replies' = Tail(replies)
          /\ UNCHANGED <<connected, session_id, tree_id, session_key, fresh, link, inbox, dialect,
                         signing_required, outqueue, stream, unpaid>>
        BY <1>6, <2>3 DEF OnCompoundClose, EndOnly, EndSendReceive, SetNtStatus, data, ctx, neg
    <2>5. /\ waitqueue' = {} /\ replies' = <<>> /\ pc' = "loop" /\ op # "connect" /\ Plenty'
          /\ UNCHANGED <<pollout, call, op, result>>
        BY <2>1, <2>2, <2>4 DEF InChain, Fits, ConnectCmds
    <2>6. Nothing'
        BY <2>3, <2>4, <2>5 DEF Nothing
    <2>7. Settled'
        BY <1>1, <2>4, <2>5 DEF Settled, Mounted, PaidFor
    <2> QED
        BY <2>6, <2>7 DEF Exchange
<1> QED
    BY <1>4, <1>5, <1>6

(* Every handler keeps the invariant.                                       *)
LEMMA ProcessStep ==
    ASSUME RInv, TypeOK', Reliable, NoOverflow, NEW r, NEW p, Process(r, p)
    PROVE  Exchange' /\ Settled'
BY NegotiateStep, SessionSetupStep, TreeConnectStep, CommandStep, IOStep DEF Process

(* An API call that queues a request begins an exchange; one that is        *)
(* refused, or cannot be signed, leaves nothing behind.                     *)
LEMMA BeginStep ==
    ASSUME TypeOK, TypeOK', Nothing, Settled, pc = "idle",
           NEW o, NEW cmds \in Chains, NEW charge \in Nat, NEW signed \in BOOLEAN,
           Begin(o, cmds, charge, signed),
           cmds \in {<<c>> : c \in Alones} \/ (cmds = Compound /\ charge <= 1),
           Len(cmds) * charge <= credits,
           connected' = TRUE, link' = TRUE, inbox' = inbox,
           o # "connect" \/ signed, signed => Fits(cmds[1])',
           ~signed => connected = TRUE,
           Mounted', PaidFor'
    PROVE  Exchange' /\ Settled'
<1>1. /\ call' = call + 1 /\ op' = o /\ isComplete' = (IF signed THEN FALSE ELSE isComplete)
      /\ pc' = IF signed THEN "loop" ELSE "idle"
      /\ UNCHANGED <<neg, acct, waitqueue, pollout, dangling, stream, replies>>
      /\ QueuePdu(cmds, charge, signed, call + 1)
    BY DEF Begin
<1>2. outqueue = {} /\ waitqueue' = {} /\ inbox' = {} /\ replies' = <<>> /\ credits' = credits
    BY <1>1 DEF Nothing, acct
<1>3. Settled'
    <2>1. signed => isComplete' = FALSE
        BY <1>1
    <2>2. pc' = "idle" => o # "connect"
        BY <1>1
    <2> QED
        BY <1>1, <2>1, <2>2 DEF Settled
<1>4. CASE signed
    <2>1. PICK m \in Messages : /\ outqueue' = {m} /\ m.call = call + 1
                                /\ m.cmds = cmds /\ m.charge = charge
        <3> DEFINE new == [id |-> message_id, cmds |-> cmds, charge |-> charge, call |-> call + 1]
        <3>1. outqueue' = {new}
            BY <1>1, <1>2, <1>4 DEF QueuePdu, Put
        <3>2. new \in Messages
            BY DEF Messages, TypeOK
        <3> QED
            BY <3>1, <3>2
    <2>2. Own(m)'
        BY <1>1, <2>1 DEF Own
    <2>3. Queued(m)'
        BY <1>1, <1>2, <1>4, <2>1 DEF Queued, TotalCharge
    <2>4. Fits(m.cmds[1])'
        BY <1>4, <2>1
    <2> QED
        BY <1>3, <2>2, <2>3, <2>4 DEF UnderWay, Exchange
<1>5. CASE ~signed
    <2>1. outqueue' = {} /\ pc' = "idle"
        BY <1>1, <1>2, <1>5 DEF QueuePdu
    <2>2. Plenty'
        BY <1>2, <1>5 DEF Nothing, Plenty
    <2>3. Nothing'
        BY <1>2, <2>1, <2>2 DEF Nothing
    <2> QED
        BY <1>3, <2>3 DEF Exchange
<1> QED
    BY <1>4, <1>5

(* A call that comes back at once changes nothing.                          *)
LEMMA RefuseStep ==
    ASSUME TypeOK, Nothing, Settled, pc = "idle", NEW o, NEW s, Refuse(o, s),
           o # "connect" \/ s # "SUCCESS"
    PROVE  Exchange' /\ Settled'
<1>1. /\ op' = o /\ result' = s
      /\ UNCHANGED <<ctx, neg, acct, outqueue, waitqueue, pc, pollout, dangling, stream, replies, unpaid>>
    BY DEF Refuse, data
<1>2. Nothing'
    BY <1>1 DEF Nothing, Plenty, ctx, acct
<1>3. Settled'
    BY <1>1 DEF Settled, Mounted, PaidFor, ctx, neg
<1> QED
    BY <1>2, <1>3 DEF Exchange

(* The requests built while there are credits for them are paid, can be     *)
(* sent, and ask for something.                                             *)
LEMMA RequestPaid ==
    ASSUME TypeOK, Plenty, NEW q \in Requests \cup RWRequests
    PROVE  /\ q.op # "connect"
           /\ q.cmds \in {<<"IO">>, Compound, <<"QUERY_DIRECTORY">>, <<"TREE_DISCONNECT">>}
           /\ q.cmds = Compound => q.charge <= 1
           /\ Len(q.cmds) * q.charge <= credits
           /\ dialect = "later" => q.charge # 0
<1>1. credits \in Nat /\ credits >= 3 /\ \A n \in Needs : n \in Nat /\ n # 0 /\ n <= credits
    BY CreditAssumption, BoundAssumption DEF TypeOK, Plenty
<1>2. CASE q \in RWRequests
    <2>1. /\ q.op = "rw" /\ q.cmds = <<"IO">>
          /\ q.charge \in {0, 1, credits} \cup Needs
          /\ dialect = "later" => q.charge # 0
        BY <1>1, <1>2 DEF RWRequests, TypeOK
    <2>2. Len(q.cmds) = 1 /\ q.charge \in Nat /\ q.charge <= credits
        BY <1>1, <2>1
    <2>3. q.cmds # Compound
        BY <2>1 DEF Compound
    <2> QED
        BY <2>1, <2>2, <2>3
<1>3. CASE q \in CompoundRequests
    <2>1. q.op = "compound" /\ q.cmds = Compound /\ q.charge = DefaultCharge
        BY <1>3 DEF CompoundRequests
    <2>2. Len(q.cmds) = 3
        BY <2>1 DEF Compound
    <2> QED
        BY <1>1, <2>1, <2>2, DefaultCharged
<1>4. CASE q \in IORequests \cup IoctlRequests \cup QueryDirectoryRequests \cup DisconnectRequests
    <2>1. /\ q.op \in {"io", "ioctl", "querydir", "disconnect"}
          /\ q.cmds \in {<<"IO">>, <<"QUERY_DIRECTORY">>, <<"TREE_DISCONNECT">>}
          /\ q.charge \in {1, DefaultCharge} \cup Needs
        BY <1>4 DEF IORequests, IoctlRequests, QueryDirectoryRequests, DisconnectRequests
    <2>2. Len(q.cmds) = 1 /\ q.charge \in Nat /\ q.charge <= credits
        BY <1>1, <2>1, DefaultCharged
    <2>3. q.cmds # Compound
        BY <2>1 DEF Compound
    <2>4. dialect = "later" => q.charge # 0
        BY <1>1, <2>1, DefaultCharged
    <2> QED
        BY <2>1, <2>2, <2>3, <2>4
<1> QED
    BY <1>2, <1>3, <1>4 DEF Requests

(* A function of the API other than connect_share, on a connection.         *)
LEMMA OperateStep ==
    ASSUME RInv, TypeOK', Operate
    PROVE  Exchange' /\ Settled'
<1>1. TypeOK /\ Settled /\ Nothing /\ pc = "idle" /\ connected = TRUE /\ Plenty
    BY DEF RInv, Operate, CanCall, Exchange, UnderWay, Fits, Nothing, TypeOK
<1>2. PICK q \in Requests \cup RWRequests :
        Begin(q.op, q.cmds, q.charge,
              CanSign(q.cmds[1], signing_required, session_id, session_key))
    BY DEF Operate
<1>3. /\ q.op # "connect"
      /\ q.cmds \in {<<"IO">>, Compound, <<"QUERY_DIRECTORY">>, <<"TREE_DISCONNECT">>}
      /\ q.cmds = Compound => q.charge <= 1
      /\ Len(q.cmds) * q.charge <= credits
      /\ dialect = "later" => q.charge # 0
    BY <1>1, RequestPaid
<1>4. q.cmds \in Chains /\ q.charge \in Nat
    BY <1>1, RequestType
<1>5. /\ q.cmds \in {<<c>> : c \in Alones} \/ (q.cmds = Compound /\ q.charge <= 1)
      /\ q.cmds[1] \notin ConnectCmds
      /\ q.cmds # <<"NEGOTIATE">>
    <2>1. {"IO", "QUERY_DIRECTORY", "TREE_DISCONNECT"} \subseteq Alones
        BY DEF Alones, Commands
    <2> QED
        BY <1>3, <2>1 DEF Compound, ConnectCmds
<1> DEFINE signed == CanSign(q.cmds[1], signing_required, session_id, session_key)
<1>6. signed \in BOOLEAN
    BY <1>1, CanSignType DEF TypeOK
<1>7. signed <=> (signing_required = TRUE => session_id = FALSE \/ session_key = TRUE)
    <2>1. q.cmds[1] # "SESSION_SETUP"
        BY <1>5 DEF ConnectCmds
    <2> QED
        BY <1>1, <2>1 DEF CanSign, TypeOK
<1>8. Begin(q.op, q.cmds, q.charge, signed)
    BY <1>2
<1> HIDE DEF signed
<1>9. /\ connected' = TRUE /\ link' = TRUE /\ inbox' = inbox
      /\ UNCHANGED <<session_id, tree_id, session_key, fresh, dialect, signing_required>>
      /\ QueuePdu(q.cmds, q.charge, signed, call + 1)
      /\ op' = q.op /\ pc' = IF signed THEN "loop" ELSE "idle"
    BY <1>1, <1>8 DEF Operate, Begin, neg, Settled
<1>10. Mounted'
    BY <1>1, <1>9 DEF Settled, Mounted
<1>11. PaidFor'
    <2>1. tree_id = TRUE => signed
        BY <1>1, <1>7 DEF Settled, Mounted
    <2>2. signed /\ q.charge # 0 => unpaid' = unpaid
        BY <1>1, <1>6, <1>9, PaidQueue
    <2> QED
        BY <1>1, <1>3, <1>9, <2>1, <2>2 DEF Settled, PaidFor
<1>12. signed => Fits(q.cmds[1])'
    <2>1. q.cmds[1] # "NEGOTIATE" /\ q.cmds[1] # "TREE_CONNECT"
        BY <1>5 DEF ConnectCmds
    <2> QED
        BY <1>3, <1>5, <1>7, <1>9, <2>1 DEF Fits
<1> QED
    BY <1>1, <1>3, <1>4, <1>5, <1>6, <1>8, <1>9, <1>10, <1>11, <1>12, BeginStep

(* Every API call keeps the invariant.                                      *)
LEMMA CallStep ==
    ASSUME RInv, TypeOK', Reliable, Call
    PROVE  Exchange' /\ Settled'
<1>1. TypeOK /\ Settled /\ Nothing /\ pc = "idle"
    BY DEF RInv, Call, ConnectShare, Operate, ReadNothing, OperateUnconnected, CanCall,
           Exchange, UnderWay, Fits
<1>2. CASE ReadNothing \/ OperateUnconnected
    BY <1>1, <1>2, RefuseStep DEF ReadNothing, OperateUnconnected
<1>3. CASE Refuse("connect", "SOCKET_ERROR")
    BY <1>1, <1>3, RefuseStep
<1>4. CASE /\ ~connected /\ connected' = TRUE /\ link' = TRUE
           /\ Begin("connect", <<"NEGOTIATE">>, 0, TRUE)
           /\ UNCHANGED <<session_id, tree_id, session_key, fresh, inbox, interim>>
    <2>1. connected = FALSE
        BY <1>1, <1>4 DEF TypeOK
    <2>2. session_id' = FALSE /\ tree_id' = FALSE /\ pc' = "loop"
        BY <1>1, <1>4, <2>1 DEF Settled, Begin
    <2>3. unpaid' = unpaid
        BY <1>1, <1>4, PaidQueue DEF Begin
    <2>4. Fits("NEGOTIATE")'
        BY <1>1, <1>4, <2>1, <2>2, <2>3 DEF Fits, ConnectCmds, Settled
    <2>5. Mounted' /\ PaidFor'
        BY <2>2 DEF Mounted, PaidFor
    <2>6. "NEGOTIATE" \in Alones /\ <<"NEGOTIATE">> \in Chains
        BY DEF Alones, Commands, Chains
    <2>7. Len(<<"NEGOTIATE">>) * 0 <= credits
        BY <1>1, BoundAssumption DEF TypeOK
    <2>8. Fits(<<"NEGOTIATE">>[1])'
        BY <2>4
    <2>9. <<"NEGOTIATE">> \in {<<c>> : c \in Alones}
        BY <2>6
    <2> QED
        BY <1>1, <1>4, <2>5, <2>6, <2>7, <2>8, <2>9, BeginStep
<1> QED
    BY <1>2, <1>3, <1>4, OperateStep DEF Call, ConnectShare

(* A step of the poll loop, a send, or a stutter leaves the connection as   *)
(* it is.                                                                   *)
LEMMA SettledKept ==
    ASSUME Settled, UNCHANGED <<connected, session_id, tree_id, session_key, fresh, link, neg, done,
                                stream, unpaid, dangling, call, op>>,
           pollout' = FALSE, pc = "idle" => pc' = "idle",
           pc' = "idle" => \/ pc = "idle" /\ UNCHANGED result
                           \/ op # "connect" \/ result' # "SUCCESS"
                           \/ connected = TRUE /\ tree_id = TRUE
    PROVE  Settled'
BY DEF Settled, Mounted, PaidFor, neg, done

(* The sends and the turns of the loop.                                     *)
LEMMA LoopStep ==
    ASSUME RInv, TypeOK', Reliable,
           \/ Return \/ PollIn \/ PollOut \/ SendDone \/ UNCHANGED vars
           \/ \E m \in outqueue : SendPdu(m)
    PROVE  Exchange' /\ Settled'
<1>1. TypeOK /\ Exchange /\ Settled
    BY DEF RInv
<1>2. CASE Return
    <2>1. Nothing
        BY <1>1, <1>2 DEF Return, Exchange, UnderWay, Queued, Sent, Answered, TypeOK
    <2>2. Nothing'
        BY <1>2, <2>1 DEF Return, Nothing, Plenty, ctx, acct
    <2>3. Settled'
        BY <1>1, <1>2, <2>1, SettledKept
           DEF Return, Nothing, ctx, neg, done, data, Settled
    <2> QED
        BY <2>2, <2>3 DEF Exchange
<1>3. CASE UNCHANGED vars
    <2>1. Settled'
        BY <1>1, <1>3, SettledKept DEF vars, ctx, neg, done, data, app, Settled
    <2>2. Nothing => Nothing'
        BY <1>3 DEF vars, ctx, acct, done, data, app, Nothing, Plenty
    <2>3. ASSUME NEW m \in Messages, UnderWay(m)
          PROVE  UnderWay(m)'
        <3>1. Own(m)' /\ Fits(m.cmds[1])'
            BY <1>3, <2>3 DEF UnderWay, Own, Fits, vars, ctx, app, neg
        <3>2. Queued(m) => Queued(m)'
            BY <1>3 DEF Queued, TotalCharge, vars, ctx, acct, done
        <3>3. Sent(m) => Sent(m)'
            BY <1>3 DEF Sent, Parts, vars, ctx, done
        <3>4. \A k \in 1..Len(m.cmds) : Answered(m, k) => Answered(m, k)'
            BY <1>3 DEF Answered, Parts, vars, ctx, done, data
        <3> QED
            BY <2>3, <3>1, <3>2, <3>3, <3>4 DEF UnderWay
    <2> QED
        BY <1>1, <2>1, <2>2, <2>3 DEF Exchange
<1>4. CASE PollIn
    <2>1. PICK m \in Messages : UnderWay(m) /\ \E k \in 1..Len(m.cmds) : Answered(m, k)
        BY <1>1, <1>4 DEF PollIn, Settled, Exchange, Nothing, UnderWay, Queued, Sent
    <2>2. PICK k \in 1..Len(m.cmds) : Answered(m, k)
        BY <2>1
    <2>3. pc' = "recv" /\ pollout' = FALSE
          /\ UNCHANGED <<ctx, neg, acct, outqueue, waitqueue, done, app, data, stream, replies, unpaid>>
        BY <1>4, <2>2 DEF PollIn, Answered
    <2>4. Settled'
        BY <1>1, <1>4, <2>3, SettledKept DEF PollIn, ctx, data, app
    <2>5. Own(m)' /\ Fits(m.cmds[1])'
        BY <2>1, <2>3 DEF UnderWay, Own, Fits, ctx, app, neg
    <2>6. Answered(m, k)'
        BY <2>2, <2>3 DEF Answered, Parts, ctx, done, data
    <2> QED
        BY <2>4, <2>5, <2>6 DEF Exchange, UnderWay
<1>5. CASE PollOut
    <2>1. PICK m \in Messages : UnderWay(m) /\ Queued(m)
        BY <1>1, <1>5 DEF PollOut, Exchange, Nothing, UnderWay, Sent, Answered
    <2>2. /\ pc' = "send" /\ pc = "loop"
          /\ UNCHANGED <<ctx, neg, acct, outqueue, waitqueue, done, pollout, app, data, stream,
                         replies, unpaid>>
        BY <1>5 DEF PollOut
    <2>3. Settled'
        <3>1. pollout' = FALSE
            BY <1>1, <2>2 DEF Settled
        <3> QED
            BY <1>1, <2>2, <3>1, SettledKept DEF ctx, data, app
    <2>4. Own(m)' /\ Fits(m.cmds[1])'
        BY <2>1, <2>2 DEF UnderWay, Own, Fits, ctx, app, neg
    <2>5. Queued(m)'
        BY <2>1, <2>2 DEF Queued, TotalCharge, ctx, acct, done
    <2> QED
        BY <2>3, <2>4, <2>5 DEF Exchange, UnderWay
<1>6. CASE SendDone
    <2>1. /\ pc' = "loop" /\ pc = "send" /\ outqueue = {}
          /\ UNCHANGED <<ctx, neg, acct, outqueue, waitqueue, done, pollout, app, data, stream,
                         replies, unpaid>>
        BY <1>6 DEF SendDone
    <2>2. PICK m \in Messages : UnderWay(m)
        BY <1>1, <2>1 DEF Exchange, Nothing
    <2>3. Settled'
        <3>1. pollout' = FALSE
            BY <1>1, <2>1 DEF Settled
        <3> QED
            BY <1>1, <2>1, <3>1, SettledKept DEF ctx, data, app
    <2>4. Own(m)' /\ Fits(m.cmds[1])'
        BY <2>1, <2>2 DEF UnderWay, Own, Fits, ctx, app, neg
    <2>5. ~Queued(m)
        BY <2>1 DEF Queued
    <2>6. Sent(m) => Sent(m)'
        BY <2>1 DEF Sent, Parts, ctx, done
    <2>7. \A k \in 1..Len(m.cmds) : Answered(m, k) => Answered(m, k)'
        BY <2>1 DEF Answered, Parts, ctx, done, data
    <2>8. UnderWay(m)'
        BY <2>2, <2>4, <2>5, <2>6, <2>7 DEF UnderWay
    <2> QED
        BY <2>3, <2>8 DEF Exchange
<1>7. ASSUME NEW n \in outqueue, SendPdu(n)
      PROVE  Exchange' /\ Settled'
    <2>1. PICK m \in Messages : UnderWay(m) /\ Queued(m)
        BY <1>1, <1>7 DEF Exchange, Nothing, UnderWay, Sent, Answered
    <2>2. n = m
        BY <1>7, <2>1 DEF Queued
    <2>3. Own(m) /\ Unchained(m) = Parts(m, 1)
        BY <2>1, PartsOf DEF UnderWay
    <2>4. /\ outqueue' = {} /\ waitqueue' = Parts(m, 1) /\ inbox' = {m}
        BY <1>7, <2>1, <2>2, <2>3 DEF SendPdu, Queued
    <2>5. UNCHANGED <<connected, message_id, session_id, tree_id, session_key, fresh, link, interim,
                      neg, window, done, pc, pollout, app, data, stream, replies, unpaid>>
        BY <1>7 DEF SendPdu
    <2>6. Own(m)' /\ Fits(m.cmds[1])'
        BY <2>1, <2>5 DEF UnderWay, Own, Fits, app, neg
    <2>7. Sent(m)'
        BY <2>1, <2>4, <2>5 DEF Queued, Sent, Parts, done
    <2>8. Settled'
        <3>1. pollout' = FALSE
            BY <1>1, <2>5 DEF Settled
        <3> QED
            BY <1>1, <2>5, <3>1, SettledKept DEF data, app
    <2> QED
        BY <2>6, <2>7, <2>8 DEF Exchange, UnderWay
<1> QED
    BY <1>2, <1>3, <1>4, <1>5, <1>6, <1>7

(* The server's answers: as many as the message has PDUs, in their order.   *)
LEMMA ServerStep ==
    ASSUME RInv, TypeOK', Reliable, Server
    PROVE  Exchange' /\ Settled'
<1>1. TypeOK /\ Exchange /\ Settled
    BY DEF RInv
<1>2. PICK n \in inbox, g \in Grants : ServerAnswers(n, g) \/ ServerAnswersChain(n, g)
    BY DEF Server
<1>3. PICK m \in Messages : UnderWay(m) /\ Sent(m)
    BY <1>1, <1>2 DEF Exchange, Nothing, UnderWay, Queued, Answered
<1>4. n = m /\ replies = <<>>
    BY <1>2, <1>3 DEF Sent
<1>5. Own(m) /\ Len(m.cmds) \in {1, 3} /\ m.id \in Nat
    BY <1>3, PartsOf DEF UnderWay
<1>6. UNCHANGED <<client, link, interim>> /\ inbox' = {}
    BY <1>2, <1>3, <1>4 DEF ServerAnswers, ServerAnswersChain, Sent
<1>7. Settled'
    <2>1. pollout' = FALSE
        BY <1>1, <1>6 DEF Settled, client
    <2> QED
        BY <1>1, <1>6, <2>1, SettledKept DEF client, app, data
<1>8. Own(m)' /\ Fits(m.cmds[1])'
    BY <1>3, <1>6 DEF UnderWay, Own, Fits, client, app, neg
<1>9. /\ Len(replies') = Len(m.cmds)
      /\ \A j \in 1..Len(replies') :
            /\ replies'[j].id = m.id + 1 + j - 2
            /\ replies'[j].last = (1 + j - 1 = Len(m.cmds))
            /\ replies'[j].status # "PENDING"
    <2>1. CASE ServerAnswers(m, g)
        <3>1. PICK s \in Answers(m) :
                replies' = Append(replies, [id |-> m.id, status |-> s, grant |-> g, last |-> TRUE])
            BY <2>1 DEF ServerAnswers
        <3>2. s # "PENDING"
            BY DEF Answers
        <3>3. Len(m.cmds) = 1
            BY <2>1 DEF ServerAnswers
        <3> DEFINE a == [id |-> m.id, status |-> s, grant |-> g, last |-> TRUE]
        <3>4. a.id = m.id /\ a.last = TRUE /\ a.status # "PENDING"
            BY <3>2
        <3>5. replies' = <<a>>
            BY <1>4, <3>1
        <3> HIDE DEF a
        <3>6. Len(replies') = 1 /\ replies'[1] = a
            BY <3>5
        <3>7. \A j \in 1..1 : j = 1 /\ m.id + 1 + j - 2 = m.id /\ (1 + j - 1 = 1)
            BY <1>5
        <3> QED
            BY <3>3, <3>4, <3>6, <3>7
    <2>2. CASE ServerAnswersChain(m, g)
        <3>1. Len(m.cmds) = 3
            BY <2>2 DEF ServerAnswersChain, Compound
        <3> DEFINE S == {<<"SUCCESS", "SUCCESS", "SUCCESS">>, <<"SUCCESS", "ERROR", "SUCCESS">>,
                         <<"ERROR", "ERROR", "ERROR">>}
        <3>2. PICK s \in S :
                replies' = replies \o
                    [i \in 1..3 |-> [id |-> m.id + i - 1, status |-> s[i], grant |-> g,
                                     last |-> i = 3 \/ ~Chained]]
            BY <2>2 DEF ServerAnswersChain
        <3> DEFINE a == [i \in 1..3 |-> [id |-> m.id + i - 1, status |-> s[i], grant |-> g,
                                         last |-> i = 3 \/ ~Chained]]
        <3>3. \A i \in 1..3 : s[i] # "PENDING"
            OBVIOUS
        <3>4. ASSUME NEW i \in 1..3
              PROVE  /\ a[i].id = m.id + 1 + i - 2
                     /\ a[i].last = (1 + i - 1 = 3)
                     /\ a[i].status # "PENDING"
            <4>1. a[i].id = m.id + i - 1 /\ a[i].last = (i = 3 \/ ~Chained) /\ a[i].status = s[i]
                OBVIOUS
            <4>2. (i = 3 \/ ~Chained) = (i = 3)
                BY DEF Reliable
            <4>3. m.id + i - 1 = m.id + 1 + i - 2 /\ 1 + i - 1 = i
                BY <1>5
            <4> QED
                BY <3>3, <4>1, <4>2, <4>3
        <3>5. DOMAIN a = 1..3
            OBVIOUS
        <3>6. a \in Seq({a[1], a[2], a[3]}) /\ Len(a) = 3
            <4>1. a = [i \in 1..3 |-> a[i]]
                OBVIOUS
            <4> HIDE DEF a
            <4>2. \A i \in 1..3 : a[i] \in {a[1], a[2], a[3]}
                OBVIOUS
            <4> QED
                BY <4>1, <4>2
        <3>7. replies' = <<>> \o a
            BY <1>4, <3>2
        <3> HIDE DEF a
        <3>8. Len(replies') = 3 /\ \A j \in 1..3 : replies'[j] = a[j]
            BY <3>6, <3>7
        <3> QED
            BY <3>1, <3>4, <3>8
    <2> QED
        BY <1>2, <1>4, <2>1, <2>2
<1>10. Answered(m, 1)'
    <2>1. Len(replies') = Len(m.cmds) - 1 + 1
        BY <1>5, <1>9
    <2>2. outqueue' = {} /\ waitqueue' = Parts(m, 1) /\ isComplete' = FALSE
        BY <1>3, <1>6 DEF Sent, client, done
    <2> QED
        BY <1>6, <1>9, <2>1, <2>2 DEF Answered, Parts
<1>11. 1 \in 1..Len(m.cmds)
    <2>1. \A x \in {1, 3} : 1 \in 1..x
        OBVIOUS
    <2> QED
        BY <1>5, <2>1
<1> QED
    BY <1>7, <1>8, <1>10, <1>11 DEF Exchange, UnderWay

(* No send, poll or read fails, and every reply finds its PDU.              *)
LEMMA NoFailure ==
    ASSUME RInv, Reliable
    PROVE  /\ ~PollFails /\ ~RecvGarbage /\ ~RecvUnmatched /\ ~RecvShort /\ ~LinkBreaks
           /\ ~\E m \in outqueue : SendFails(m)
           /\ ~\E p \in waitqueue : RecvMalformed(Head(replies), p)
           /\ ~\E p \in waitqueue : RecvPending(Head(replies), p)
           /\ ~\E m \in inbox, g \in Grants : ServerPends(m, g)
<1>1. TypeOK /\ Exchange /\ Settled
    BY DEF RInv
<1>2. ~PollFails
    BY <1>1 DEF PollFails, Reliable, Exchange, Nothing, UnderWay, Fits, TypeOK
<1>3. ~RecvGarbage /\ ~RecvShort /\ ~LinkBreaks
    BY <1>1 DEF RecvGarbage, RecvShort, LinkBreaks, Reliable, Settled
<1>4. ASSUME NEW n \in outqueue
      PROVE  ~SendFails(n)
    <2>1. PICK m \in Messages : UnderWay(m) /\ Queued(m)
        BY <1>1 DEF Exchange, Nothing, UnderWay, Sent, Answered
    <2>2. n = m /\ connected = TRUE /\ link = TRUE /\ TotalCharge(m) <= credits
        BY <1>1, <2>1 DEF UnderWay, Fits, Queued, Settled
    <2> QED
        BY <2>2 DEF SendFails, CanSend
<1>5. ASSUME pc = "recv", replies # <<>>
      PROVE  /\ Head(replies).status # "PENDING"
             /\ \E p \in waitqueue : Matches(Head(replies), p)
    <2>1. PICK m \in Messages : Own(m) /\ \E k \in 1..Len(m.cmds) : Answered(m, k)
        BY <1>1, <1>5 DEF Exchange, Nothing, UnderWay, Queued, Sent
    <2>2. PICK k \in 1..Len(m.cmds) : Answered(m, k)
        BY <2>1
    <2>3. Len(m.cmds) \in {1, 3} /\ m.id \in Nat
        BY <2>1, PartsOf
    <2>4. Len(replies) = Len(m.cmds) - k + 1 /\ replies \in Seq(Replies)
        BY <1>1, <2>2 DEF Answered, TypeOK
    <2>5. 1 \in 1..Len(replies) /\ Head(replies) = replies[1]
        BY <1>5, <2>3, <2>4
    <2>6. replies[1].id = m.id + k + 1 - 2 /\ replies[1].status # "PENDING"
        BY <2>2, <2>5 DEF Answered
    <2>7. Part(m, k) \in waitqueue /\ Part(m, k).id = m.id + k - 1
        <3>1. k \in k..Len(m.cmds)
            BY <2>3
        <3> QED
            BY <2>2, <3>1 DEF Answered, Parts, Part
    <2>8. m.id + k + 1 - 2 = m.id + k - 1
        BY <2>3
    <2> QED
        BY <2>5, <2>6, <2>7, <2>8 DEF Matches
<1>6. ~RecvUnmatched
    BY <1>5 DEF RecvUnmatched
<1>7. ASSUME NEW p \in waitqueue
      PROVE  ~RecvMalformed(Head(replies), p) /\ ~RecvPending(Head(replies), p)
    BY <1>5 DEF RecvMalformed, RecvPending, Receiving, Reliable
<1>8. ASSUME NEW m \in inbox, NEW g \in Grants
      PROVE  ~ServerPends(m, g)
    BY DEF ServerPends, Reliable
<1> QED
    BY <1>2, <1>3, <1>4, <1>6, <1>7, <1>8

(* A new context has nothing under way.                                     *)
LEMMA RInit == Init => RInv
<1> SUFFICES ASSUME Init
             PROVE  RInv
    OBVIOUS
<1>1. TypeOK
    BY InitType
<1>2. Nothing
    BY DEF Init, Nothing
<1>3. Settled
    BY DEF Init, Settled, Mounted, PaidFor
<1> QED
    BY <1>1, <1>2, <1>3 DEF RInv, Exchange

(* Every step keeps the invariant.                                          *)
LEMMA RNext ==
    ASSUME Reliable, NoOverflow, RInv, [Next]_vars
    PROVE  RInv'
<1>1. TypeOK'
    BY NextType DEF RInv
<1>2. Exchange' /\ Settled'
    <2>1. CASE Call
        BY <1>1, <2>1, CallStep
    <2>2. CASE \E p \in waitqueue : Process(Head(replies), p)
        BY <1>1, <2>2, ProcessStep
    <2>3. CASE Return \/ PollIn \/ PollOut \/ SendDone \/ UNCHANGED vars
               \/ \E m \in outqueue : SendPdu(m)
        BY <1>1, <2>3, LoopStep
    <2>4. CASE Server
        BY <1>1, <2>4, ServerStep
    <2> QED
        BY <2>1, <2>2, <2>3, <2>4, NoFailure DEF Next, Step, Disturbance
<1> QED
    BY <1>1, <1>2 DEF RInv

(* What the invariant says of the runs' properties.                         *)
LEMMA RInvImplies ==
    ASSUME RInv
    PROVE  /\ OwnReply /\ NoDanglingReply /\ QueuesDrained /\ MountedAfterConnect
           /\ AwaitedRequests /\ EveryIdPaidFor /\ AnswerUnderWay
<1>1. TypeOK /\ Exchange /\ Settled
    BY DEF RInv
<1>2. OwnReply
    BY <1>1 DEF OwnReply, Exchange, Nothing, UnderWay, Queued, Sent, Answered, Settled, TypeOK
<1>3. NoDanglingReply /\ MountedAfterConnect /\ EveryIdPaidFor
    BY <1>1 DEF NoDanglingReply, MountedAfterConnect, EveryIdPaidFor, Settled, Mounted, PaidFor,
                TypeOK
<1>4. QueuesDrained
    BY <1>1 DEF QueuesDrained, Exchange, Nothing, UnderWay, Fits
<1>5. AwaitedRequests
    <2> SUFFICES ASSUME NEW n \in inbox, NEW u \in Unchained(n)
                 PROVE  u \in waitqueue
        BY DEF AwaitedRequests
    <2>1. PICK m \in Messages : UnderWay(m) /\ Sent(m)
        BY <1>1 DEF Exchange, Nothing, UnderWay, Queued, Answered
    <2>2. n = m /\ Own(m)
        BY <2>1 DEF Sent, UnderWay
    <2> QED
        BY <2>1, <2>2, PartsOf DEF Sent
<1>6. AnswerUnderWay
    <2> SUFFICES ASSUME pc = "loop", ~isComplete, outqueue = {}, inbox = {}, replies = <<>>
                 PROVE  FALSE
        BY DEF AnswerUnderWay
    <2>1. PICK m \in Messages : Own(m) /\ \E k \in 1..Len(m.cmds) : Answered(m, k)
        BY <1>1 DEF Exchange, Nothing, UnderWay, Queued, Sent, TypeOK
    <2>2. PICK k \in 1..Len(m.cmds) : Answered(m, k)
        BY <2>1
    <2>3. Len(m.cmds) \in {1, 3}
        BY <2>1, PartsOf
    <2> QED
        BY <2>2, <2>3 DEF Answered
<1> QED
    BY <1>2, <1>3, <1>4, <1>5, <1>6

(* On a reliable connection whose credits do not wrap, at most one message  *)
(* is under way, and it belongs to the current call.                        *)
THEOREM OneExchange ==
    ASSUME Reliable
    PROVE  Spec /\ []NoOverflow => []RInv
<1>1. RInv /\ NoOverflow /\ [Next]_vars => RInv'
    BY RNext
<1> QED
    BY <1>1, RInit, PTL DEF Spec

(* There a call comes back because of a reply to one of its own requests.   *)
THEOREM RepliesAreOwn ==
    ASSUME Reliable
    PROVE  Spec /\ []NoOverflow => []OwnReply
BY OneExchange, RInvImplies, PTL

(* There no reply reaches the AppData of a call that has returned.          *)
THEOREM NoReplyDangles ==
    ASSUME Reliable
    PROVE  Spec /\ []NoOverflow => []NoDanglingReply
BY OneExchange, RInvImplies, PTL

(* There a call that has returned has left neither queue occupied.          *)
THEOREM CallsDrainQueues ==
    ASSUME Reliable
    PROVE  Spec /\ []NoOverflow => []QueuesDrained
BY OneExchange, RInvImplies, PTL

(* There a connect_share that succeeds has mounted the share.               *)
THEOREM ConnectMounts ==
    ASSUME Reliable
    PROVE  Spec /\ []NoOverflow => []MountedAfterConnect
BY OneExchange, RInvImplies, PTL

(* There every request at the server has its PDUs in the waitqueue.         *)
THEOREM RequestsAwaited ==
    ASSUME Reliable
    PROVE  Spec /\ []NoOverflow => []AwaitedRequests
BY OneExchange, RInvImplies, PTL

(* There every id was paid for while the first share is mounted.            *)
THEOREM IdsPaidFor ==
    ASSUME Reliable
    PROVE  Spec /\ []NoOverflow => []EveryIdPaidFor
BY OneExchange, RInvImplies, PTL

(* There a call that waits always waits for something: the safety half of   *)
(* CallsReturn.                                                             *)
THEOREM NeverStuck ==
    ASSUME Reliable
    PROVE  Spec /\ []NoOverflow => []AnswerUnderWay
BY OneExchange, RInvImplies, PTL
=============================================================================
