---------------------------- MODULE JsonRpcProofs ----------------------------
(***************************************************************************)
(* Proofs about JsonRpc: its types in every behaviour and, when the two     *)
(* sides take turns, that messages stay whole on the socket, that a call    *)
(* returns with the response to it, and that arguments are kept.            *)
(***************************************************************************)
EXTENDS JsonRpc, TLAPS, FiniteSetTheorems, SequenceTheorems

-----------------------------------------------------------------------------
(* Types *)

(* The writes on a wire are a sequence. *)
WireType == \A d \in Sides : \E S : wire[d] \in Seq(S)

(* TypeOK, and the domains of the functions it says nothing about. *)
Types ==
    /\ TypeOK
    /\ DOMAIN wire = Sides /\ WireType
    /\ send_mutex \in [Sides -> Threads \cup {None}]
    /\ DOMAIN last_response = Sides
    /\ DOMAIN request = Threads
    /\ DOMAIN heard = Sides /\ DOMAIN reply = Sides

(* The two sides. *)
LEMMA PeerFacts ==
    ASSUME NEW d \in Sides
    PROVE  /\ Peer(d) \in Sides
           /\ Peer(d) # d
           /\ Peer(Peer(d)) = d
           /\ \A x \in Sides : x = d \/ x = Peer(d)
  BY DEF Sides, Peer

(* A write, and a read, keep a wire a sequence of lengths and bodies. *)
Parts(w) == \A k \in DOMAIN w : w[k].part \in {"len", "body"}

LEMMA AppendParts ==
    ASSUME NEW S, NEW w \in Seq(S), Parts(w), NEW p \in {"len", "body"}, NEW m
    PROVE  LET v == Append(w, [part |-> p, msg |-> m])
           IN  (\E T : v \in Seq(T)) /\ Parts(v)
  <1> DEFINE x == [part |-> p, msg |-> m]
             T == S \cup {x}
             v == Append(w, x)
  <1>1. x.part = p
    OBVIOUS
  <1> HIDE DEF x
  <1>2. w \in Seq(T) /\ x \in T
    OBVIOUS
  <1>3. v \in Seq(T) /\ Len(v) = Len(w) + 1
    BY <1>2
  <1>4. ASSUME NEW k \in DOMAIN v
        PROVE  v[k].part \in {"len", "body"}
    <2>1. k \in 1..(Len(w) + 1) /\ Len(w) \in Nat
      BY <1>2, <1>3
    <2>2. CASE k = Len(w) + 1
      BY <1>1, <1>2, <2>1, <2>2
    <2>3. CASE k # Len(w) + 1
      <3>1. k \in DOMAIN w /\ v[k] = w[k]
        BY <1>2, <2>1, <2>3
      <3> QED
        BY <3>1 DEF Parts
    <2> QED
      BY <2>2, <2>3
  <1> QED
    BY <1>3, <1>4 DEF Parts, x

LEMMA TailParts ==
    ASSUME NEW S, NEW w \in Seq(S), w # <<>>, Parts(w)
    PROVE  (\E T : Tail(w) \in Seq(T)) /\ Parts(Tail(w))
  <1>1. Tail(w) \in Seq(S) /\ Len(Tail(w)) = Len(w) - 1 /\ Len(w) \in Nat
    OBVIOUS
  <1>2. ASSUME NEW k \in DOMAIN Tail(w)
        PROVE  Tail(w)[k].part \in {"len", "body"}
    <2>1. k \in 1..(Len(w) - 1)
      BY <1>1
    <2>2. k + 1 \in DOMAIN w /\ Tail(w)[k] = w[k + 1]
      BY <1>1, <2>1
    <2> QED
      BY <2>2 DEF Parts
  <1> QED
    BY <1>1, <1>2 DEF Parts

LEMMA InitTypes == Init => Types
  <1> SUFFICES ASSUME Init
               PROVE  Types
    OBVIOUS
  <1>1. \A d \in Sides : wire[d] = <<>>
    BY DEF Init
  <1>2. WireType /\ \A d \in Sides : \A k \in DOMAIN wire[d] : wire[d][k].part \in {"len", "body"}
    <2>1. <<>> \in Seq({}) /\ DOMAIN <<>> = {}
      OBVIOUS
    <2> QED
      BY <1>1, <2>1 DEF WireType
  <1>3. calls \in Seq(Requests) /\ Len(calls) <= MaxCalls
    BY ConstantsAssumption DEF Init
  <1> QED
    BY <1>2, <1>3, ConstantsAssumption DEF Init, Types, TypeOK, Sides

(* What a step does to a wire: nothing, or one write, or one read. *)
LEMMA WiresTyped ==
    ASSUME Types, NEW d \in Sides,
           \/ UNCHANGED wire
           \/ \E p \in {"len", "body"} : \E m : Write(d, p, m)
           \/ wire[d] # <<>> /\ wire' = [wire EXCEPT ![d] = Tail(@)]
    PROVE  /\ DOMAIN wire' = Sides
           /\ WireType'
           /\ \A x \in Sides : Parts(wire'[x])
  <1>1. /\ DOMAIN wire = Sides
        /\ \A x \in Sides : \E S : wire[x] \in Seq(S)
        /\ \A x \in Sides : Parts(wire[x])
    BY DEF Types, WireType, TypeOK, Parts
  <1>2. DOMAIN wire' = Sides /\ \A x \in Sides \ {d} : wire'[x] = wire[x]
    BY <1>1 DEF Write
  <1>3. (\E T : wire'[d] \in Seq(T)) /\ Parts(wire'[d])
    <2>0. PICK S : wire[d] \in Seq(S)
      BY <1>1
    <2>1. CASE UNCHANGED wire
      BY <2>1, <1>1
    <2>2. ASSUME NEW p \in {"len", "body"}, NEW m, Write(d, p, m)
          PROVE  (\E T : wire'[d] \in Seq(T)) /\ Parts(wire'[d])
      <3>1. wire'[d] = Append(wire[d], [part |-> p, msg |-> m])
        BY <2>2, <1>1 DEF Write
      <3> QED
        BY <3>1, <2>0, <1>1, AppendParts
    <2>3. CASE wire[d] # <<>> /\ wire' = [wire EXCEPT ![d] = Tail(@)]
      <3>1. wire'[d] = Tail(wire[d])
        BY <2>3, <1>1
      <3> QED
        BY <3>1, <2>0, <2>3, <1>1, TailParts
    <2> QED
      BY <2>1, <2>2, <2>3
  <1>4. \A x \in Sides : (\E T : wire'[x] \in Seq(T)) /\ Parts(wire'[x])
    <2> TAKE x \in Sides
    <2>1. CASE x = d
      BY <2>1, <1>3
    <2>2. CASE x # d
      BY <2>2, <1>1, <1>2
    <2> QED
      BY <2>1, <2>2
  <1> QED
    BY <1>2, <1>4 DEF WireType

(* The parts of Types that are not about wires. *)
FlagTypes ==
    /\ methods \in [Sides -> SUBSET Methods]
    /\ notifications \in [Sides -> SUBSET Notifications]
    /\ accepted \in BOOLEAN /\ lost \in BOOLEAN
    /\ \A d \in Sides : send_mutex[d] = None \/ Side[send_mutex[d]] = d
    /\ response_mutex \in [Sides -> {None, "listener"}]
    /\ waiting_response \in [Sides -> BOOLEAN] /\ has_response \in [Sides -> BOOLEAN]
    /\ pc \in [Threads -> {"idle", "send", "arm", "len", "body", "wait"}]
    /\ listener \in [Sides -> {"off", "read", "body", "heard", "len", "body2"}]
    /\ calls \in Seq(Requests) /\ Len(calls) <= MaxCalls
    /\ DOMAIN answer = 1..MaxCalls
    /\ send_mutex \in [Sides -> Threads \cup {None}]
    /\ DOMAIN last_response = Sides
    /\ DOMAIN request = Threads
    /\ DOMAIN heard = Sides /\ DOMAIN reply = Sides

LEMMA TypesParts ==
    Types <=> /\ FlagTypes
              /\ DOMAIN wire = Sides /\ WireType
              /\ \A d \in Sides : Parts(wire[d])
  BY DEF Types, TypeOK, FlagTypes, Parts

LEMMA NextFlagTypes ==
    ASSUME FlagTypes, [Next]_vars
    PROVE  FlagTypes'
  <1>0. Side \in [Threads -> Sides] /\ MaxCalls \in Nat /\ None \notin Threads
    BY ConstantsAssumption
  <1> USE <1>0
  <1>1. CASE UNCHANGED vars
    BY <1>1 DEF FlagTypes, vars, netVars, flagVars, callerVars, listenerVars
  <1>2. ASSUME NEW n \in Listeners, Add("client", n)
        PROVE  FlagTypes'
    BY <1>2 DEF Add, FlagTypes, Sides, netVars, flagVars, callerVars, listenerVars
  <1>3. CASE Accept
    BY <1>3 DEF Accept, FlagTypes, flagVars, callerVars
  <1>4. CASE Lose
    BY <1>4 DEF Lose, FlagTypes, flagVars, callerVars, listenerVars
  <1>5. ASSUME NEW t \in Threads, NEW k \in Requests, Call(t, k)
        PROVE  FlagTypes'
    <2>1. calls' \in Seq(Requests) /\ Len(calls') <= MaxCalls
      BY <1>5 DEF Call, FlagTypes
    <2> QED
      BY <2>1, <1>5 DEF Call, FlagTypes, netVars, flagVars, listenerVars
  <1>6. ASSUME NEW t \in Threads, Caller(t)
        PROVE  FlagTypes'
    <2>0. Side[t] \in Sides
      OBVIOUS
    <2>1. CASE LockSend(t)
      BY <2>0, <2>1 DEF LockSend, FlagTypes, netVars, flagVars, listenerVars
    <2>2. CASE Arm(t)
      BY <2>0, <2>2 DEF Arm, FlagTypes, netVars, listenerVars
    <2>3. CASE WriteRequest(t)
      BY <2>0, <2>3 DEF WriteRequest, FlagTypes, flagVars, listenerVars
    <2>4. CASE Return(t)
      BY <2>0, <2>4 DEF Return, FlagTypes, netVars, flagVars, listenerVars
    <2> QED
      BY <1>6, <2>1, <2>2, <2>3, <2>4 DEF Caller
  <1>7. ASSUME NEW d \in Sides, Listener(d)
        PROVE  FlagTypes'
    <2>1. CASE Read(d)
      <3>1. /\ UNCHANGED <<methods, notifications, accepted, lost, send_mutex, response_mutex,
                           flagVars, callerVars, reply, calls, answer>>
            /\ \E l \in {"off", "body", "heard"} : listener' = [listener EXCEPT ![d] = l]
            /\ heard' = heard \/ \E h : heard' = [heard EXCEPT ![d] = h]
        BY <2>1 DEF Read
      <3>2. /\ listener' \in [Sides -> {"off", "read", "body", "heard", "len", "body2"}]
            /\ DOMAIN heard' = Sides
        BY <3>1 DEF FlagTypes
      <3> QED
        BY <3>1, <3>2 DEF FlagTypes, flagVars, callerVars
    <2>2. CASE TakeResponse(d)
      BY <2>2 DEF TakeResponse, FlagTypes, netVars, callerVars
    <2>3. CASE Handle(d)
      BY <2>3 DEF Handle, FlagTypes, netVars, flagVars, callerVars
    <2>4. CASE WriteReply(d)
      BY <2>4 DEF WriteReply, FlagTypes, flagVars, callerVars
    <2> QED
      BY <1>7, <2>1, <2>2, <2>3, <2>4 DEF Listener
  <1> QED
    BY <1>1, <1>2, <1>3, <1>4, <1>5, <1>6, <1>7 DEF Next

LEMMA NextTypes ==
    ASSUME Types, [Next]_vars
    PROVE  Types'
  <1>1. FlagTypes'
    BY TypesParts, NextFlagTypes
  <1>2. \E d \in Sides : \/ UNCHANGED wire
                         \/ \E p \in {"len", "body"} : \E m : Write(d, p, m)
                         \/ wire[d] # <<>> /\ wire' = [wire EXCEPT ![d] = Tail(@)]
    <2>0. "client" \in Sides
      BY DEF Sides
    <2>1. ASSUME NEW t \in Threads, WriteRequest(t)
          PROVE  \/ UNCHANGED wire
                 \/ \E p \in {"len", "body"} : \E m : Write(Side[t], p, m)
      BY <2>1 DEF WriteRequest
    <2>2. ASSUME NEW d \in Sides, Read(d)
          PROVE  \/ UNCHANGED wire
                 \/ wire[Peer(d)] # <<>> /\ wire' = [wire EXCEPT ![Peer(d)] = Tail(@)]
      BY <2>2 DEF Read
    <2>3. ASSUME NEW d \in Sides, WriteReply(d)
          PROVE  \/ UNCHANGED wire
                 \/ \E p \in {"len", "body"} : \E m : Write(d, p, m)
      BY <2>3 DEF WriteReply
    <2>4. ASSUME \A t \in Threads : ~WriteRequest(t),
                 \A d \in Sides : ~Read(d) /\ ~WriteReply(d)
          PROVE  UNCHANGED wire
      BY <2>4 DEF Next, vars, netVars, Add, Accept, Lose, Call, Caller, LockSend, Arm, Return,
                  Listener, TakeResponse, Handle
    <2> QED
      BY <2>0, <2>1, <2>2, <2>3, <2>4, PeerFacts, ConstantsAssumption
  <1>3. /\ DOMAIN wire' = Sides
        /\ WireType'
        /\ \A x \in Sides : Parts(wire'[x])
    BY <1>2, WiresTyped
  <1> QED
    BY <1>1, <1>3 DEF Types, TypeOK, FlagTypes, Parts

(* Every behaviour of the demo, with the two sides taking turns or not,     *)
(* keeps its types, and a mutex is held by a thread of its side or by the   *)
(* listener (asiotcpconnector.hpp:100-111, 239-245).                        *)
THEOREM TypeCorrect == Spec => []TypeOK
  <1>1. Types => TypeOK
    BY DEF Types
  <1> QED
    BY <1>1, InitTypes, NextTypes, PTL DEF Spec

-----------------------------------------------------------------------------
(* The server's answer *)

(* The responses to a call: an outcome with its id, as an array if the call *)
(* was in a batch; a result is the converted argument, which was accepted,  *)
(* and what is refused was not.  There is none to a notification.           *)
Matches(k, out) ==
    /\ out.error = "none" => /\ Accepts(k.name, k.params, k.arg)
                             /\ out.result = Converted(ParamType[k.name], k.arg)
    /\ out.error = "invalid_params" => ~Accepts(k.name, k.params, k.arg)

ReplyTo(c, k, r) ==
    /\ k.kind # "notification"
    /\ \E out \in Outcomes :
          /\ r = Message(k.kind = "batch", <<Response(c, out)>>)
          /\ Matches(k, out)

(* get<T> yields a number its type holds.                                   *)
LEMMA ConvertedInt ==
    ASSUME NEW v \in Int
    PROVE  Converted("int", v) \in IntMin..IntMax
  <1> DEFINE n == IntMax - IntMin + 1
             x == v - IntMin
  <1>1. n \in Nat /\ n > 0 /\ x \in Int
    BY ConstantsAssumption
  <1>2. x % n \in 0..(n - 1)
    <2> HIDE DEF n, x
    <2> QED
      BY <1>1
  <1>3. Converted("int", v) = (x % n) + IntMin
    BY DEF Converted
  <1> HIDE DEF x
  <1> QED
    BY <1>2, <1>3, ConstantsAssumption

LEMMA ConvertedUnsigned ==
    ASSUME NEW v \in Int
    PROVE  Converted("unsigned", v) \in 0..UIntMax
  <1>1. Converted("unsigned", v) = v % (UIntMax + 1)
    BY DEF Converted
  <1>2. UIntMax + 1 \in Nat /\ UIntMax + 1 > 0
    BY ConstantsAssumption
  <1> QED
    BY <1>1, <1>2, ConstantsAssumption

(* It keeps a number the parameter accepts unless it is one of the Damaged. *)
LEMMA ConvertedKept ==
    ASSUME NEW T \in ParamTypes, NEW v \in Int, check_param_type(T, v)
    PROVE  Converted(T, v) = v <=> ~Damaged(T, v)
  <1>1. CASE T = "int"
    <2>1. Converted("int", v) \in IntMin..IntMax
      BY ConvertedInt
    <2>2. Damaged(T, v) <=> v < IntMin
      BY <1>1 DEF Damaged
    <2>3. v <= IntMax
      BY <1>1, ConstantsAssumption DEF check_param_type
    <2>4. ASSUME v >= IntMin
          PROVE  Converted("int", v) = v
      <3> DEFINE x == v - IntMin
                 n == IntMax - IntMin + 1
      <3>1. x \in Nat /\ n \in Nat /\ x < n /\ x + IntMin = v
        BY <2>3, <2>4, ConstantsAssumption
      <3>2. Converted("int", v) = (x % n) + IntMin
        BY DEF Converted
      <3>3. x % n = x
        <4> HIDE DEF x, n
        <4> QED
          BY <3>1
      <3> QED
        BY <3>1, <3>2, <3>3
    <2> QED
      BY <1>1, <2>1, <2>2, <2>4, ConstantsAssumption
  <1>2. CASE T = "unsigned"
    <2>1. Converted("unsigned", v) \in 0..UIntMax
      BY ConvertedUnsigned
    <2>2. Damaged(T, v) <=> v > UIntMax
      BY <1>2 DEF Damaged
    <2>3. v >= 0
      BY <1>2 DEF check_param_type
    <2>4. v <= UIntMax => Converted("unsigned", v) = v
      BY <2>3, ConstantsAssumption DEF Converted
    <2> QED
      BY <1>2, <2>1, <2>2, <2>4, ConstantsAssumption
  <1>3. CASE T = "double"
    BY <1>3 DEF check_param_type, Converted, Damaged
  <1>4. CASE T = "float"
    BY <1>4 DEF check_param_type, Converted, Damaged
  <1> QED
    BY <1>1, <1>2, <1>3, <1>4 DEF ParamTypes

(* check_param_type refuses nothing that fits. *)
LEMMA FittingAccepted ==
    ASSUME NEW T \in ParamTypes, NEW v \in Int, Fits(T, v)
    PROVE  check_param_type(T, v)
  <1>1. CASE T = "int"
    BY <1>1, ConstantsAssumption DEF Fits, check_param_type
  <1>2. CASE T = "unsigned"
    BY <1>2, ConstantsAssumption DEF Fits, check_param_type
  <1>3. CASE T = "double"
    BY <1>3 DEF Fits, check_param_type
  <1>4. CASE T = "float"
    BY <1>4 DEF Fits, check_param_type
  <1> QED
    BY <1>1, <1>2, <1>3, <1>4 DEF ParamTypes

LEMMA Outcomes5 ==
    /\ \A e \in ErrorCodes : Error(e) \in Outcomes /\ Error(e).error = e
    /\ \A v \in Results : Result(v) \in Outcomes
  BY DEF Error, Result, Outcomes, ErrorCodes

LEMMA InvokeOutcome ==
    ASSUME NEW d, NEW k \in Requests, NEW i,
           i.method = k.name, i.params = k.params, i.arg = k.arg
    PROVE  InvokeMethod(d, i) \in Outcomes /\ Matches(k, InvokeMethod(d, i))
  <1> DEFINE v == Converted(ParamType[k.name], k.arg)
  <1>1. /\ Error("invalid_params") \in Outcomes /\ Error("invalid_params").error = "invalid_params"
        /\ Error("internal_error") \in Outcomes /\ Error("internal_error").error = "internal_error"
        /\ Error("method_not_found") \in Outcomes /\ Error("method_not_found").error = "method_not_found"
    BY Outcomes5 DEF ErrorCodes
  <1>2. v \in Results
    BY DEF Results
  <1>3. Result(v) \in Outcomes /\ Result(v).result = v /\ Result(v).error = "none"
    BY <1>2, Outcomes5 DEF Result
  <1>4. \/ /\ ~Accepts(k.name, k.params, k.arg)
           /\ InvokeMethod(d, i) = Error("invalid_params")
        \/ InvokeMethod(d, i) = Error("internal_error")
        \/ InvokeMethod(d, i) = Error("method_not_found")
        \/ /\ Accepts(k.name, k.params, k.arg)
           /\ InvokeMethod(d, i) = Result(v)
    BY DEF InvokeMethod, Invoke
  <1> HIDE DEF v
  <1>5. CASE /\ ~Accepts(k.name, k.params, k.arg)
             /\ InvokeMethod(d, i) = Error("invalid_params")
    BY <1>1, <1>5 DEF Matches
  <1>6. CASE \/ InvokeMethod(d, i) = Error("internal_error")
             \/ InvokeMethod(d, i) = Error("method_not_found")
    BY <1>1, <1>6 DEF Matches
  <1>7. CASE /\ Accepts(k.name, k.params, k.arg)
             /\ InvokeMethod(d, i) = Result(v)
    BY <1>3, <1>7 DEF Matches, v
  <1> QED
    BY <1>4, <1>5, <1>6, <1>7

(* The responses when all items but one, at n, are notifications. *)
LEMMA OneReply ==
    ASSUME NEW d, NEW items, NEW n \in Nat,
           {k \in DOMAIN items : ~IsNotification(items[k])} = {n}
    PROVE  Replies(d, items) = <<HandleSingleRequest(d, items[n])>>
  <1> DEFINE asked == {k \in DOMAIN items : ~IsNotification(items[k])}
             nth(m) == CHOOSE k \in asked : Cardinality({j \in asked : j <= k}) = m
  <1>0. Cardinality({n}) = 1
    BY FS_Singleton
  <1>1. asked = {n} /\ {j \in {n} : j <= n} = {n} /\ Cardinality({n}) = 1
    BY <1>0
  <1>2. nth(1) = n
    BY <1>1
  <1>3. Replies(d, items) = [m \in 1..1 |-> HandleSingleRequest(d, items[nth(m)])]
    BY <1>1 DEF Replies
  <1> HIDE DEF nth
  <1>4. [m \in 1..1 |-> HandleSingleRequest(d, items[nth(m)])] = <<HandleSingleRequest(d, items[n])>>
    BY <1>2
  <1> QED
    BY <1>3, <1>4

LEMMA NoReply ==
    ASSUME NEW d, NEW items, {k \in DOMAIN items : ~IsNotification(items[k])} = {}
    PROVE  Replies(d, items) = <<>>
  <1>1. Cardinality({}) = 0
    BY FS_EmptySet
  <1>2. 1..0 = {}
    OBVIOUS
  <1>3. Replies(d, items) = [m \in {} |-> HandleSingleRequest(d, items[CHOOSE k \in {} : Cardinality({j \in {} : j <= k}) = m])]
    BY <1>1, <1>2 DEF Replies
  <1> QED
    BY <1>3

(* What the server makes of a request. *)
LEMMA HandleAnswers ==
    ASSUME NEW d, NEW c \in 1..MaxCalls, NEW k \in Requests
    PROVE  LET r == HandleRequest(d, Request(c, k))
           IN  IF k.kind = "notification" THEN r = None
               ELSE r # None /\ ReplyTo(c, k, r)
  <1> DEFINE call == Item(c, k.name, k.params, k.arg, None)
             note == Item(None, k.name, k.params, k.arg, None)
             out == InvokeMethod(d, call)
  <1>1. k.kind \in {"method", "notification", "batch"} /\ k.arg \in Int
    BY ConstantsAssumption
  <1>2. ~IsNotification(call) /\ IsNotification(note)
    BY NoneAssumption DEF IsNotification, Item
  <1>3. HandleSingleRequest(d, call) = Response(c, out)
    BY NoneAssumption DEF HandleSingleRequest, Item
  <1>4. out \in Outcomes /\ Matches(k, out)
    <2>1. call.arg = k.arg /\ call.method = k.name /\ call.params = k.params
      BY DEF Item
    <2> HIDE DEF call
    <2> QED
      BY <2>1, <1>1, InvokeOutcome
  <1>9. <<call>> # <<None>> /\ <<note>> # <<None>>
    <2>1. call # None /\ note # None
      BY NoneAssumption
    <2> HIDE DEF call, note
    <2> QED
      BY <2>1
  <1> HIDE DEF out
  <1>5. \A b \in BOOLEAN : None # Message(b, <<Response(c, out)>>)
    BY <1>4, NoneAssumption
  <1> HIDE DEF call, note
  <1>6. CASE k.kind = "method"
    <2>1. Request(c, k) = Message(FALSE, <<call>>)
      BY <1>6 DEF Request, call
    <2>2. {n \in DOMAIN <<call>> : ~IsNotification(<<call>>[n])} = {1}
      BY <1>2
    <2>3. Replies(d, <<call>>) = <<Response(c, out)>> /\ Replies(d, <<call>>) # <<>>
      BY <2>2, <1>3, OneReply
    <2>4. LET m == Request(c, k)
          IN  m # Garbage /\ m # Scalar /\ m.batch = FALSE /\ m.items = <<call>>
      BY <1>9, <2>1 DEF Message, Garbage, Scalar
    <2>5. HandleRequest(d, Request(c, k)) = Message(FALSE, <<Response(c, out)>>)
      BY <2>3, <2>4 DEF HandleRequest
    <2> QED
      BY <2>5, <1>4, <1>5, <1>6 DEF ReplyTo
  <1>8. CASE k.kind = "notification"
    <2>1. Request(c, k) = Message(FALSE, <<note>>)
      BY <1>8 DEF Request, note
    <2>2. {n \in DOMAIN <<note>> : ~IsNotification(<<note>>[n])} = {}
      BY <1>2
    <2>3. Replies(d, <<note>>) = <<>>
      BY <2>2, NoReply
    <2>4. LET m == Request(c, k)
          IN  m # Garbage /\ m # Scalar /\ m.batch = FALSE /\ m.items = <<note>>
      BY <1>9, <2>1 DEF Message, Garbage, Scalar
    <2> QED
      BY <2>3, <2>4, <1>8 DEF HandleRequest
  <1>7. CASE k.kind = "batch"
    <2>1. Request(c, k) = Message(TRUE, <<note, call>>)
      BY <1>7 DEF Request, call, note
    <2>2. {n \in DOMAIN <<note, call>> : ~IsNotification(<<note, call>>[n])} = {2}
      BY <1>2
    <2>3. Replies(d, <<note, call>>) = <<Response(c, out)>>
      BY <2>2, <1>3, OneReply
    <2>4. LET m == Request(c, k)
          IN  m # Garbage /\ m # Scalar /\ m.batch = TRUE /\ m.items = <<note, call>>
      BY <1>9, <2>1 DEF Message, Garbage, Scalar
    <2>5. HandleRequest(d, Request(c, k)) = Message(TRUE, <<Response(c, out)>>)
      BY <2>3, <2>4 DEF HandleRequest
    <2> QED
      BY <2>5, <1>4, <1>5, <1>7 DEF ReplyTo
  <1> QED
    BY <1>1, <1>6, <1>7, <1>8

-----------------------------------------------------------------------------
(* What is under way on one channel: w the writes not yet read, l where the *)
(* reading listener is, h what it has heard.                                *)

LenOf(m) == [part |-> "len", msg |-> m]
BodyOf(m) == [part |-> "body", msg |-> m]

Nothing(w, l) == w = <<>> /\ l \notin {"body", "heard"}

(* The length of m has been written, its body has not. *)
HalfOf(w, l, h, m) ==
    \/ w = <<LenOf(m)>> /\ l \notin {"body", "heard"}
    \/ w = <<>> /\ l = "body" /\ h = m

(* All of m has been written and nothing has been made of it. *)
AllOf(w, l, h, m) ==
    \/ w = <<LenOf(m), BodyOf(m)>> /\ l \notin {"body", "heard"}
    \/ w = <<BodyOf(m)>> /\ l = "body" /\ h = m
    \/ w = <<>> /\ l = "heard" /\ h = m

LEMMA Writes ==
    ASSUME NEW w, NEW l, NEW h, NEW m
    PROVE  /\ Nothing(w, l) => HalfOf(Append(w, LenOf(m)), l, h, m)
           /\ HalfOf(w, l, h, m) => AllOf(Append(w, BodyOf(m)), l, h, m)
  <1>1. \A x : Append(<<>>, x) = <<x>>
    OBVIOUS
  <1>2. ASSUME NEW x, NEW y
        PROVE  Append(<<x>>, y) = <<x, y>>
    <2> DEFINE s == Append(<<x>>, y)
               p == <<x, y>>
    <2>1. <<x>> \in Seq({x, y})
      OBVIOUS
    <2>2. s \in Seq({x, y}) /\ Len(s) = 2 /\ s[1] = x /\ s[2] = y
      BY <2>1
    <2>3. p \in Seq({x, y}) /\ Len(p) = 2 /\ p[1] = x /\ p[2] = y
      OBVIOUS
    <2> HIDE DEF s, p
    <2>4. \A i \in 1..Len(s) : s[i] = p[i]
      BY <2>2, <2>3
    <2>5. s = p
      BY <2>2, <2>3, <2>4, SeqEqual
    <2> QED
      BY <2>5 DEF s, p
  <1> QED
    BY <1>1, <1>2 DEF Nothing, HalfOf, AllOf

(* What a listener hears, g if it is out of step, and where it is after a   *)
(* read.                                                                    *)
Hears(w, l, h, g) ==
    IF l = "read" THEN IF Head(w).part = "len" THEN Head(w).msg ELSE g
    ELSE IF Head(w) = [part |-> "body", msg |-> h] THEN h ELSE g

Moves(l) == IF l = "read" THEN "body" ELSE "heard"

LEMMA Reads ==
    ASSUME NEW w, NEW l \in {"read", "body"}, NEW h, NEW m, NEW g
    PROVE  /\ Nothing(w, l) => w = <<>>
           /\ HalfOf(w, l, h, m) /\ w # <<>> => HalfOf(Tail(w), Moves(l), Hears(w, l, h, g), m)
           /\ HalfOf(w, l, h, m) /\ w = <<>> => Nothing(w, "off")
           /\ AllOf(w, l, h, m) => w # <<>> /\ AllOf(Tail(w), Moves(l), Hears(w, l, h, g), m)
  <1>1. \A x : <<x>> # <<>> /\ Head(<<x>>) = x /\ Tail(<<x>>) = <<>>
    OBVIOUS
  <1>2. \A x, y : <<x, y>> # <<>> /\ Head(<<x, y>>) = x /\ Tail(<<x, y>>) = <<y>>
    OBVIOUS
  <1>3. LenOf(m).part = "len" /\ LenOf(m).msg = m /\ BodyOf(m) = [part |-> "body", msg |-> m]
    BY DEF LenOf, BodyOf
  <1>4. HalfOf(w, l, h, m) /\ w # <<>> => HalfOf(Tail(w), Moves(l), Hears(w, l, h, g), m)
    BY <1>1, <1>2, <1>3 DEF HalfOf, Moves, Hears
  <1>5. AllOf(w, l, h, m) => w # <<>> /\ AllOf(Tail(w), Moves(l), Hears(w, l, h, g), m)
    BY <1>1, <1>2, <1>3 DEF AllOf, Moves, Hears
  <1>6. HalfOf(w, l, h, m) /\ w = <<>> => Nothing(w, "off")
    BY DEF Nothing
  <1> QED
    BY <1>4, <1>5, <1>6 DEF Nothing

-----------------------------------------------------------------------------
(* The invariant when the two sides take turns *)

Empty(d) == Nothing(wire[d], listener[Peer(d)])
HalfSent(d, m) == HalfOf(wire[d], listener[Peer(d)], heard[Peer(d)], m)
Sent(d, m) == AllOf(wire[d], listener[Peer(d)], heard[Peer(d)], m)

(* r answers the call of thread t. *)
Answers(t, r) == ReplyTo(request[t].id, calls[request[t].id], r)

(* At most one side has threads with a call under way, and one of these     *)
(* holds send_mutex.                                                        *)
Turns == \A t, u \in Threads : Side[t] # Side[u] => pc[t] = "idle" \/ pc[u] = "idle"

Locks == \A t \in Threads : pc[t] \in {"arm", "len", "body", "wait"} => send_mutex[Side[t]] = t

Asking ==
    \A t \in Threads : pc[t] # "idle" =>
        \E c \in DOMAIN calls : request[t] = [id |-> c, msg |-> Request(c, calls[c])]

(* Before the connection is accepted the server does not listen. *)
Deaf == ~accepted => listener["server"] = "off"

Armed ==
    \A t \in Threads : pc[t] \in {"len", "body"} /\ ~lost
        => waiting_response[Side[t]] /\ ~has_response[Side[t]]

(* A response that was taken is the one to the call that waits for it. *)
Delivered ==
    \A t \in Threads : pc[t] = "wait" /\ has_response[Side[t]]
        => ~waiting_response[Side[t]] /\ Answers(t, last_response[Side[t]])

Returned ==
    \A c \in 1..MaxCalls : answer[c] # None
        => c \in DOMAIN calls /\ ReplyTo(c, calls[c], answer[c])

(* Nothing is under way. *)
Quiet ==
    /\ \A d \in Sides : /\ Empty(d)
                        /\ listener[d] \in {"read", "off"} \/ (lost /\ listener[d] = "body2")
    /\ ~lost => /\ \A t \in Threads : pc[t] # "body"
                /\ \A d \in Sides : waiting_response[d] =>
                      \E t \in Threads : Side[t] = d /\ pc[t] \in {"len", "wait"}

(* Half of a request of side d is under way; the caller writes the rest     *)
(* unless the connection is lost.                                           *)
Half(d) ==
    /\ \E m : /\ HalfSent(d, m)
              /\ ~lost => /\ ~waiting_response[Peer(d)]
                          /\ \E t \in Threads : Side[t] = d /\ pc[t] = "body" /\ m = request[t].msg
    /\ Empty(Peer(d))
    /\ listener[d] \in {"read", "off"}
    /\ listener[Peer(d)] \in {"read", "off", "body"}
    /\ \A t \in Threads : pc[t] # "wait"

(* The request of thread t, or the response to it, is under way: the peer   *)
(* e has not looked at the request, is about to write the response r, has   *)
(* written half of it, or all.                                              *)
Requested(t, d, e) == Sent(d, request[t].msg) /\ Empty(e) /\ listener[e] \notin {"len", "body2"}

Handled(t, d, e) == Empty(d) /\ Empty(e) /\ listener[e] = "len" /\ Answers(t, reply[e])

Replying(t, d, e) ==
    /\ Empty(d)
    /\ \E r : /\ HalfSent(e, r) /\ Answers(t, r)
              /\ \/ listener[e] = "body2" /\ reply[e] = r
                 \/ lost /\ listener[e] \in {"read", "off"}

Replied(t, d, e) ==
    /\ Empty(d) /\ listener[e] \in {"read", "off"}
    /\ \E r : Sent(e, r) /\ Answers(t, r)

Waits(t, d, e) ==
    /\ pc[t] = "wait"
    /\ waiting_response[d] /\ ~has_response[d] /\ ~waiting_response[e]
    /\ listener[d] \notin {"len", "body2"}

Asked(t, d, e) ==
    /\ Waits(t, d, e)
    /\ Requested(t, d, e) \/ Handled(t, d, e) \/ Replying(t, d, e) \/ Replied(t, d, e)

Phase ==
    \/ Quiet
    \/ \E d \in Sides : Half(d)
    \/ \E t \in Threads : Asked(t, Side[t], Peer(Side[t]))

(* The thread with send_mutex is the only one past "send". *)
Busy(t) == pc[t] \in {"arm", "len", "body", "wait"}

Conversation ==
    /\ Types /\ Turns /\ Locks /\ Asking /\ Deaf /\ Armed /\ Delivered /\ Returned /\ Phase

LEMMA Alone ==
    ASSUME Turns, Locks, NEW t \in Threads, NEW u \in Threads, Busy(t), Busy(u)
    PROVE  t = u
  BY DEF Turns, Locks, Busy

(* A thread that is about to write finds nothing under way but its own      *)
(* message.                                                                 *)
LEMMA PhaseOf ==
    ASSUME Types, Turns, Locks, Phase, NEW t \in Threads, Busy(t)
    PROVE  LET d == Side[t] IN
           /\ pc[t] \in {"arm", "len"} => Quiet \/ (lost /\ \E x \in Sides : Half(x))
           /\ pc[t] = "body" => \/ lost /\ (Quiet \/ \E x \in Sides : Half(x))
                                \/ ~lost /\ Half(d)
           /\ pc[t] = "wait" => Quiet \/ Asked(t, d, Peer(d))
  <1> DEFINE d == Side[t]
  <1>1. ASSUME Quiet
        PROVE  pc[t] = "body" => lost
    BY <1>1 DEF Quiet
  <1>2. ASSUME NEW x \in Sides, Half(x)
        PROVE  /\ pc[t] # "wait"
               /\ ~lost => pc[t] = "body" /\ x = d
    <2>1. ASSUME ~lost
          PROVE  pc[t] = "body" /\ x = d
      <3>1. PICK u \in Threads : Side[u] = x /\ pc[u] = "body"
        BY <1>2, <2>1 DEF Half
      <3>2. u = t
        BY <3>1, Alone DEF Busy
      <3> QED
        BY <3>1, <3>2
    <2> QED
      BY <1>2, <2>1 DEF Half
  <1>3. ASSUME NEW u \in Threads, Asked(u, Side[u], Peer(Side[u]))
        PROVE  pc[t] = "wait" /\ u = t
    <2>1. pc[u] = "wait"
      BY <1>3 DEF Asked, Waits
    <2>2. u = t
      BY <2>1, Alone DEF Busy
    <2> QED
      BY <2>1, <2>2
  <1> QED
    BY <1>1, <1>2, <1>3 DEF Phase

-----------------------------------------------------------------------------
(* The steps that leave the sockets alone *)

(* What the phase depends on besides threads and flags. *)
Sockets == <<wire, listener, heard, reply>>

LEMMA SameChannels ==
    ASSUME UNCHANGED Sockets
    PROVE  /\ \A d : Empty(d)' <=> Empty(d)
           /\ \A d, m : HalfSent(d, m)' <=> HalfSent(d, m)
           /\ \A d, m : Sent(d, m)' <=> Sent(d, m)
  BY DEF Sockets, Empty, HalfSent, Sent

(* A step that moves no thread to "body" or "wait" and leaves the flags and *)
(* the requests of the busy threads alone keeps the phase.                  *)
LEMMA SamePhase ==
    ASSUME Types, Phase, UNCHANGED <<Sockets, waiting_response, has_response>>,
           lost => lost',
           \A t \in Threads : Busy(t) => /\ pc'[t] = pc[t]
                                         /\ request'[t] = request[t]
                                         /\ calls'[request[t].id] = calls[request[t].id],
           \A t \in Threads : ~Busy(t) => pc'[t] \in {"idle", "send", "arm"}
    PROVE  Phase'
  <1>1. /\ \A d : Empty(d)' <=> Empty(d)
        /\ \A d, m : HalfSent(d, m)' <=> HalfSent(d, m)
        /\ \A d, m : Sent(d, m)' <=> Sent(d, m)
    BY SameChannels
  <1>2. /\ listener' = listener /\ reply' = reply /\ wire' = wire
        /\ waiting_response' = waiting_response /\ has_response' = has_response
    BY DEF Sockets
  <1>3. CASE Quiet
    <2>1. \A d \in Sides : /\ Empty(d)'
                           /\ listener'[d] \in {"read", "off"} \/ (lost' /\ listener'[d] = "body2")
      BY <1>1, <1>2, <1>3 DEF Quiet
    <2>2. ASSUME ~lost'
          PROVE  /\ \A t \in Threads : pc'[t] # "body"
                 /\ \A d \in Sides : waiting_response'[d] =>
                       \E t \in Threads : Side[t] = d /\ pc'[t] \in {"len", "wait"}
      BY <1>2, <1>3, <2>2 DEF Quiet, Busy
    <2> QED
      BY <2>1, <2>2 DEF Phase, Quiet
  <1>4. ASSUME NEW d \in Sides, Half(d)
        PROVE  Half(d)'
    <2>1. PICK m : /\ HalfSent(d, m)
                   /\ ~lost => /\ ~waiting_response[Peer(d)]
                               /\ \E t \in Threads : Side[t] = d /\ pc[t] = "body" /\ m = request[t].msg
      BY <1>4 DEF Half
    <2>2. /\ HalfSent(d, m)'
          /\ ~lost' => /\ ~waiting_response'[Peer(d)]
                       /\ \E t \in Threads : Side[t] = d /\ pc'[t] = "body" /\ m = request'[t].msg
      BY <1>1, <1>2, <2>1 DEF Busy
    <2>3. \A t \in Threads : pc'[t] # "wait"
      BY <1>4 DEF Half, Busy
    <2> QED
      BY <1>1, <1>2, <1>4, <2>2, <2>3 DEF Half
  <1>5. ASSUME NEW t \in Threads, NEW d, NEW e, Asked(t, d, e)
        PROVE  Asked(t, d, e)'
    <2>1. /\ pc'[t] = "wait" /\ request'[t] = request[t]
          /\ calls'[request[t].id] = calls[request[t].id]
      BY <1>5 DEF Asked, Waits, Busy
    <2>2. Waits(t, d, e)'
      BY <1>2, <1>5, <2>1 DEF Asked, Waits
    <2>3. \A r : Answers(t, r)' <=> Answers(t, r)
      BY <2>1 DEF Answers
    <2>4. Requested(t, d, e) => Requested(t, d, e)'
      BY <1>1, <1>2, <2>1 DEF Requested
    <2>5. Handled(t, d, e) => Handled(t, d, e)'
      BY <1>1, <1>2, <2>3 DEF Handled
    <2>6. Replying(t, d, e) => Replying(t, d, e)'
      BY <1>1, <1>2, <2>3 DEF Replying
    <2>7. Replied(t, d, e) => Replied(t, d, e)'
      BY <1>1, <1>2, <2>3 DEF Replied
    <2> QED
      BY <1>5, <2>2, <2>4, <2>5, <2>6, <2>7 DEF Asked
  <1> QED
    BY <1>3, <1>4, <1>5 DEF Phase

LEMMA CallPhase ==
    ASSUME Conversation, NEW t \in Threads, NEW k \in Requests, Call(t, k)
    PROVE  Phase'
  <1>1. Types /\ Phase /\ Asking
    BY DEF Conversation
  <1>2. calls \in Seq(Requests) /\ pc \in [Threads -> {"idle", "send", "arm", "len", "body", "wait"}]
        /\ DOMAIN request = Threads
    BY <1>1 DEF Types, TypeOK
  <1>3. ASSUME NEW u \in Threads, Busy(u)
        PROVE  /\ pc'[u] = pc[u]
               /\ request'[u] = request[u]
               /\ calls'[request[u].id] = calls[request[u].id]
    <2>1. u # t /\ pc[u] # "idle"
      BY <1>3 DEF Busy, Call
    <2>2. PICK c \in DOMAIN calls : request[u] = [id |-> c, msg |-> Request(c, calls[c])]
      BY <1>1, <2>1 DEF Asking
    <2>3. request[u].id = c
      BY <2>2
    <2>4. calls' = Append(calls, k) /\ pc' = [pc EXCEPT ![t] = "send"]
          /\ request'[u] = request[u]
      BY <1>2, <2>1 DEF Call
    <2>5. calls'[c] = calls[c]
      BY <1>2, <2>4
    <2> QED
      BY <1>2, <2>1, <2>3, <2>4, <2>5
  <1>4. \A u \in Threads : ~Busy(u) => pc'[u] \in {"idle", "send", "arm"}
    BY <1>2 DEF Call, Busy
  <1>5. UNCHANGED <<Sockets, waiting_response, has_response>> /\ lost' = lost
    BY DEF Call, Sockets, netVars, flagVars, listenerVars
  <1> QED
    BY <1>1, <1>3, <1>4, <1>5, SamePhase

LEMMA LockSendPhase ==
    ASSUME Conversation, NEW t \in Threads, LockSend(t)
    PROVE  Phase'
  <1>1. Types /\ Phase
    BY DEF Conversation
  <1>2. pc \in [Threads -> {"idle", "send", "arm", "len", "body", "wait"}]
    BY <1>1 DEF Types, TypeOK
  <1>3. UNCHANGED <<Sockets, waiting_response, has_response>> /\ lost' = lost
        /\ calls' = calls /\ request' = request
    BY DEF LockSend, Sockets, netVars, flagVars, listenerVars
  <1>4. \A u \in Threads : Busy(u) => pc'[u] = pc[u]
    BY <1>2 DEF LockSend, Busy
  <1>5. \A u \in Threads : ~Busy(u) => pc'[u] \in {"idle", "send", "arm"}
    BY <1>2 DEF LockSend, Busy
  <1> QED
    BY <1>1, <1>3, <1>4, <1>5, SamePhase

LEMMA AddPhase ==
    ASSUME Conversation, NEW n, Add("client", n)
    PROVE  Phase'
  <1>1. Types /\ Phase
    BY DEF Conversation
  <1>2. UNCHANGED <<Sockets, waiting_response, has_response, lost, calls, request, pc>>
    BY DEF Add, Sockets, netVars, flagVars, callerVars, listenerVars
  <1>3. \A u \in Threads : ~Busy(u) => pc[u] \in {"idle", "send", "arm"}
    BY <1>1 DEF Types, TypeOK, Busy
  <1> QED
    BY <1>1, <1>2, <1>3, SamePhase

LEMMA LosePhase ==
    ASSUME Conversation, Lose
    PROVE  Phase'
  <1>1. Types /\ Phase
    BY DEF Conversation
  <1>2. UNCHANGED <<Sockets, waiting_response, has_response, calls, request, pc>> /\ lost'
    BY DEF Lose, Sockets, flagVars, callerVars, listenerVars
  <1>3. \A u \in Threads : ~Busy(u) => pc[u] \in {"idle", "send", "arm"}
    BY <1>1 DEF Types, TypeOK, Busy
  <1> QED
    BY <1>1, <1>2, <1>3, SamePhase

(* Arming the flags: the phase is Quiet, or the connection is lost. *)
LEMMA ArmPhase ==
    ASSUME Conversation, NEW t \in Threads, Arm(t)
    PROVE  Phase'
  <1> DEFINE d == Side[t]
  <1>0. Types /\ Turns /\ Locks /\ Phase /\ d \in Sides
    BY ConstantsAssumption DEF Conversation
  <1>1. pc[t] = "arm" /\ Busy(t)
    BY DEF Arm, Busy
  <1>2. Quiet \/ (lost /\ \E x \in Sides : Half(x))
    BY <1>0, <1>1, PhaseOf
  <1>3. UNCHANGED <<Sockets, lost, request>>
    BY DEF Arm, Sockets, netVars, listenerVars
  <1>4. /\ \A x : Empty(x)' <=> Empty(x)
        /\ \A x, m : HalfSent(x, m)' <=> HalfSent(x, m)
    BY <1>3, SameChannels
  <1>5. /\ pc'[t] = "len" /\ \A u \in Threads \ {t} : pc'[u] = pc[u]
        /\ \A x \in Sides \ {d} : waiting_response'[x] = waiting_response[x]
    BY <1>0 DEF Arm, Types, TypeOK
  <1>6. CASE Quiet
    <2>1. \A x \in Sides : /\ Empty(x)'
                           /\ listener'[x] \in {"read", "off"} \/ (lost' /\ listener'[x] = "body2")
      BY <1>3, <1>4, <1>6 DEF Quiet, Sockets
    <2>2. ASSUME ~lost'
          PROVE  /\ \A u \in Threads : pc'[u] # "body"
                 /\ \A x \in Sides : waiting_response'[x] =>
                       \E u \in Threads : Side[u] = x /\ pc'[u] \in {"len", "wait"}
      <3>1. \A u \in Threads : pc'[u] # "body"
        BY <1>3, <1>5, <1>6, <2>2 DEF Quiet
      <3>2. ASSUME NEW x \in Sides, waiting_response'[x]
            PROVE  \E u \in Threads : Side[u] = x /\ pc'[u] \in {"len", "wait"}
        <4>1. CASE x = d
          BY <4>1, <1>5
        <4>2. CASE x # d
          <5>1. PICK u \in Threads : Side[u] = x /\ pc[u] \in {"len", "wait"}
            BY <4>2, <3>2, <1>3, <1>5, <1>6, <2>2 DEF Quiet
          <5> QED
            BY <5>1, <4>2, <1>5
        <4> QED
          BY <4>1, <4>2
      <3> QED
        BY <3>1, <3>2
    <2> QED
      BY <2>1, <2>2 DEF Phase, Quiet
  <1>7. ASSUME NEW x \in Sides, Half(x), lost
        PROVE  Half(x)'
    <2>1. PICK m : HalfSent(x, m)
      BY <1>7 DEF Half
    <2>2. HalfSent(x, m)' /\ lost'
      BY <2>1, <1>3, <1>4, <1>7
    <2>3. \A u \in Threads : pc'[u] # "wait"
      BY <1>5, <1>7 DEF Half
    <2> QED
      BY <2>2, <2>3, <1>3, <1>4, <1>7 DEF Half, Sockets
  <1> QED
    BY <1>2, <1>6, <1>7 DEF Phase

-----------------------------------------------------------------------------
(* The callers' writes *)

(* A write of side d reaches the wire of d and no other. *)
LEMMA WriteEffect ==
    ASSUME Types, NEW d \in Sides, NEW p, NEW m, Write(d, p, m)
    PROVE  /\ wire'[d] = Append(wire[d], [part |-> p, msg |-> m])
           /\ \A x \in Sides \ {d} : wire'[x] = wire[x]
  BY DEF Types, Write

LEMMA WriteRequestPhase ==
    ASSUME Conversation, NEW t \in Threads, WriteRequest(t)
    PROVE  Phase'
  <1> DEFINE d == Side[t]
             e == Peer(d)
             m == request[t].msg
  <1>0. Types /\ Turns /\ Locks /\ Armed /\ Phase /\ d \in Sides
    BY ConstantsAssumption DEF Conversation
  <1>1. e \in Sides /\ e # d /\ Peer(e) = d /\ \A x \in Sides : x = d \/ x = e
    BY <1>0, PeerFacts
  <1>2. pc[t] \in {"len", "body"} /\ Busy(t)
    BY DEF WriteRequest, Busy
  <1>3. UNCHANGED <<lost, listener, heard, reply, waiting_response, has_response, calls>>
    BY DEF WriteRequest, listenerVars, flagVars
  <1>4. \A u \in Threads \ {t} : ~Busy(u)
    BY <1>0, <1>2, Alone
  <1>5. \A u \in Threads \ {t} : pc'[u] = pc[u]
    BY <1>0 DEF WriteRequest, Types, TypeOK
  <1>6. CASE ~lost /\ pc[t] = "len"
    <2>1. Quiet
      BY <1>0, <1>2, <1>6, PhaseOf
    <2>2. Write(d, "len", m) /\ pc'[t] = "body" /\ request' = request
      BY <1>0, <1>6 DEF WriteRequest, Types, TypeOK
    <2>3. wire'[d] = Append(wire[d], LenOf(m)) /\ wire'[e] = wire[e]
      BY <1>0, <1>1, <2>2, WriteEffect DEF LenOf
    <2>4. HalfSent(d, m)'
      BY <1>0, <1>1, <1>3, <2>1, <2>2, <2>3, Writes DEF Quiet, Empty, HalfSent
    <2>5. Empty(e)'
      BY <1>1, <1>3, <2>1, <2>3 DEF Quiet, Empty
    <2>6. ~waiting_response[e]
      <3> SUFFICES ASSUME waiting_response[e]
                   PROVE  FALSE
        OBVIOUS
      <3>1. PICK u \in Threads : Side[u] = e /\ pc[u] \in {"len", "wait"}
        BY <1>1, <1>6, <2>1 DEF Quiet
      <3> QED
        BY <3>1, <1>1, <1>4 DEF Busy
    <2>7. \A u \in Threads : pc'[u] # "wait"
      BY <1>4, <1>5, <2>2 DEF Busy
    <2>8. listener'[d] \in {"read", "off"} /\ listener'[e] \in {"read", "off"}
      BY <1>0, <1>1, <1>3, <1>6, <2>1 DEF Quiet
    <2>9. ~waiting_response'[e] /\ Side[t] = d /\ pc'[t] = "body" /\ m = request'[t].msg
      BY <1>3, <2>2, <2>6
    <2>10. Half(d)'
      BY <2>4, <2>5, <2>7, <2>8, <2>9 DEF Half
    <2> QED
      BY <2>10, <1>0 DEF Phase
  <1>7. CASE ~lost /\ pc[t] = "body"
    <2>1. Half(d)
      BY <1>0, <1>2, <1>7, PhaseOf
    <2>2. Write(d, "body", m) /\ pc'[t] = "wait" /\ request' = request
      BY <1>0, <1>7 DEF WriteRequest, Types, TypeOK
    <2>3. wire'[d] = Append(wire[d], BodyOf(m)) /\ wire'[e] = wire[e]
      BY <1>0, <1>1, <2>2, WriteEffect DEF BodyOf
    <2>4. HalfSent(d, m) /\ ~waiting_response[e]
      <3>1. PICK n : /\ HalfSent(d, n) /\ ~waiting_response[e]
                     /\ \E u \in Threads : Side[u] = d /\ pc[u] = "body" /\ n = request[u].msg
        BY <1>7, <2>1 DEF Half
      <3>2. n = m
        BY <3>1, <1>4 DEF Busy
      <3> QED
        BY <3>1, <3>2
    <2>5. Sent(d, m)'
      BY <1>1, <1>3, <2>2, <2>3, <2>4, Writes DEF HalfSent, Sent
    <2>6. Empty(e)'
      BY <1>1, <1>3, <2>1, <2>3 DEF Half, Empty
    <2>7. waiting_response[d] /\ ~has_response[d]
      BY <1>0, <1>7 DEF Armed
    <2>8. Waits(t, d, e)'
      BY <1>3, <2>1, <2>2, <2>4, <2>7 DEF Waits, Half
    <2>9. Requested(t, d, e)'
      BY <1>3, <2>1, <2>2, <2>5, <2>6 DEF Requested, Half
    <2> QED
      BY <2>8, <2>9 DEF Phase, Asked
  <1>8. CASE lost
    <2>1. wire' = wire /\ pc'[t] = "idle"
      BY <1>0, <1>8 DEF WriteRequest, Types, TypeOK
    <2>2. UNCHANGED Sockets
      BY <1>3, <2>1 DEF Sockets
    <2>3. /\ \A x : Empty(x)' <=> Empty(x)
          /\ \A x, n : HalfSent(x, n)' <=> HalfSent(x, n)
      BY <2>2, SameChannels
    <2>4. Quiet \/ \E x \in Sides : Half(x)
      BY <1>0, <1>2, PhaseOf
    <2>5. Quiet => Quiet'
      BY <1>3, <1>8, <2>3 DEF Quiet
    <2>6. ASSUME NEW x \in Sides, Half(x)
          PROVE  Half(x)'
      <3>1. PICK n : HalfSent(x, n)
        BY <2>6 DEF Half
      <3>2. HalfSent(x, n)' /\ lost'
        BY <3>1, <2>3, <1>3, <1>8
      <3>3. \A u \in Threads : pc'[u] # "wait"
        BY <1>5, <2>1, <2>6 DEF Half
      <3> QED
        BY <3>2, <3>3, <1>3, <2>3, <2>6 DEF Half
    <2> QED
      BY <2>4, <2>5, <2>6 DEF Phase
  <1> QED
    BY <1>2, <1>6, <1>7, <1>8

(* A response that was taken has left nothing under way. *)
LEMMA ReturnPhase ==
    ASSUME Conversation, NEW t \in Threads, Return(t)
    PROVE  Phase'
  <1> DEFINE d == Side[t]
  <1>0. Types /\ Turns /\ Locks /\ Delivered /\ Phase /\ d \in Sides
    BY ConstantsAssumption DEF Conversation
  <1>1. pc[t] = "wait" /\ has_response[d] /\ Busy(t)
    BY DEF Return, Busy
  <1>2. Quiet
    BY <1>0, <1>1, PhaseOf DEF Asked, Waits
  <1>3. ~waiting_response[d]
    BY <1>0, <1>1 DEF Delivered
  <1>4. UNCHANGED <<Sockets, lost, waiting_response>>
    BY DEF Return, Sockets, netVars, flagVars, listenerVars
  <1>5. pc'[t] = "idle" /\ \A u \in Threads \ {t} : pc'[u] = pc[u]
    BY <1>0 DEF Return, Types, TypeOK
  <1>6. \A x : Empty(x)' <=> Empty(x)
    BY <1>4, SameChannels
  <1>7. \A x \in Sides : /\ Empty(x)'
                         /\ listener'[x] \in {"read", "off"} \/ (lost' /\ listener'[x] = "body2")
    BY <1>2, <1>4, <1>6 DEF Quiet, Sockets
  <1>8. ASSUME ~lost'
        PROVE  /\ \A u \in Threads : pc'[u] # "body"
               /\ \A x \in Sides : waiting_response'[x] =>
                     \E u \in Threads : Side[u] = x /\ pc'[u] \in {"len", "wait"}
    <2>1. \A u \in Threads : pc'[u] # "body"
      BY <1>2, <1>4, <1>5, <1>8 DEF Quiet
    <2>2. ASSUME NEW x \in Sides, waiting_response'[x]
          PROVE  \E u \in Threads : Side[u] = x /\ pc'[u] \in {"len", "wait"}
      <3>1. x # d
        BY <2>2, <1>3, <1>4
      <3>2. PICK u \in Threads : Side[u] = x /\ pc[u] \in {"len", "wait"}
        BY <1>2, <1>4, <1>8, <2>2 DEF Quiet
      <3> QED
        BY <3>1, <3>2, <1>5
    <2> QED
      BY <2>1, <2>2
  <1> QED
    BY <1>7, <1>8 DEF Phase, Quiet

(* Accepting the connection: the server's listener starts, and whatever the *)
(* client wrote is still all on its wire.                                   *)
LEMMA AcceptPhase ==
    ASSUME Conversation, Accept
    PROVE  Phase'
  <1>0. Types /\ Deaf /\ Phase
    BY DEF Conversation
  <1>1. UNCHANGED <<lost, wire, heard, reply, waiting_response, has_response, pc, request, calls>>
    BY DEF Accept, flagVars, callerVars
  <1>2. /\ listener["server"] = "off" /\ listener'["server"] = "read"
        /\ \A x \in Sides : x # "server" => listener'[x] = listener[x]
    BY <1>0 DEF Accept, Deaf, Types, TypeOK, Sides
  <1>3. \A x \in Sides : \/ listener'[x] = listener[x]
                         \/ listener[x] = "off" /\ listener'[x] = "read"
    BY <1>2
  <1>4. \A x \in Sides : Empty(x) => Empty(x)'
    BY <1>1, <1>3, PeerFacts DEF Empty, Nothing
  <1>5. \A x \in Sides : \A m : HalfSent(x, m) => HalfSent(x, m)'
    BY <1>1, <1>3, PeerFacts DEF HalfSent, HalfOf
  <1>6. \A x \in Sides : \A m : Sent(x, m) => Sent(x, m)'
    BY <1>1, <1>3, PeerFacts DEF Sent, AllOf
  <1>7. Quiet => Quiet'
    BY <1>1, <1>3, <1>4 DEF Quiet
  <1>8. ASSUME NEW d \in Sides, Half(d)
        PROVE  Half(d)'
    BY <1>1, <1>3, <1>4, <1>5, <1>8, PeerFacts DEF Half
  <1>9. ASSUME NEW t \in Threads, Asked(t, Side[t], Peer(Side[t]))
        PROVE  Asked(t, Side[t], Peer(Side[t]))'
    <2> DEFINE d == Side[t]
               e == Peer(d)
    <2>1. d \in Sides /\ e \in Sides
      BY PeerFacts, ConstantsAssumption
    <2>2. \A r : Answers(t, r)' <=> Answers(t, r)
      BY <1>1 DEF Answers
    <2> HIDE DEF d, e
    <2>3. Waits(t, d, e) => Waits(t, d, e)'
      BY <1>1, <1>3, <2>1 DEF Waits
    <2>4. Requested(t, d, e) => Requested(t, d, e)'
      BY <1>1, <1>3, <1>4, <1>6, <2>1 DEF Requested
    <2>5. Handled(t, d, e) => Handled(t, d, e)'
      BY <1>1, <1>3, <1>4, <2>1, <2>2 DEF Handled
    <2>6. Replying(t, d, e) => Replying(t, d, e)'
      BY <1>1, <1>3, <1>4, <1>5, <2>1, <2>2 DEF Replying
    <2>7. Replied(t, d, e) => Replied(t, d, e)'
      BY <1>1, <1>3, <1>4, <1>6, <2>1, <2>2 DEF Replied
    <2> QED
      BY <1>9, <2>3, <2>4, <2>5, <2>6, <2>7 DEF Asked, d, e
  <1> QED
    BY <1>0, <1>7, <1>8, <1>9 DEF Phase

-----------------------------------------------------------------------------
(* The listeners *)

(* A read moves one write from the wire of the peer into the listener, or,  *)
(* on a lost connection, ends the listener.                                 *)
LEMMA ReadEffect ==
    ASSUME Types, NEW d \in Sides, Read(d)
    PROVE  LET e == Peer(d) IN
           /\ listener[d] \in {"read", "body"}
           /\ listener'[e] = listener[e] /\ heard'[e] = heard[e] /\ wire'[d] = wire[d]
           /\ UNCHANGED <<lost, waiting_response, has_response, pc, request, calls, reply>>
           /\ \/ /\ wire[e] # <<>>
                 /\ wire'[e] = Tail(wire[e])
                 /\ \E g : heard'[d] = Hears(wire[e], listener[d], heard[d], g)
                 /\ listener'[d] = Moves(listener[d])
              \/ /\ wire[e] = <<>> /\ lost
                 /\ wire'[e] = wire[e] /\ listener'[d] = "off"
  <1> DEFINE e == Peer(d)
  <1>1. e \in Sides /\ e # d
    BY PeerFacts
  <1>2. DOMAIN wire = Sides /\ DOMAIN listener = Sides /\ DOMAIN heard = Sides
    BY DEF Types, TypeOK
  <1>3. listener[d] \in {"read", "body"}
    BY DEF Read
  <1>4. UNCHANGED <<lost, waiting_response, has_response, pc, request, calls, reply>>
    BY DEF Read, flagVars, callerVars
  <1>5. CASE wire[e] # <<>>
    <2>1. wire' = [wire EXCEPT ![e] = Tail(@)]
      BY <1>5 DEF Read
    <2>2. CASE listener[d] = "read"
      BY <1>1, <1>2, <1>3, <1>4, <1>5, <2>1, <2>2 DEF Read, Hears, Moves
    <2>3. CASE listener[d] # "read"
      BY <1>1, <1>2, <1>3, <1>4, <1>5, <2>1, <2>3 DEF Read, Hears, Moves
    <2> QED
      BY <2>2, <2>3
  <1>6. CASE wire[e] = <<>>
    BY <1>1, <1>2, <1>3, <1>4, <1>6 DEF Read
  <1> QED
    BY <1>5, <1>6

(* A read does not touch the channel from the listener's own side; on the   *)
(* other one it continues with the message that is under way.               *)
LEMMA ReadChannels ==
    ASSUME Types, NEW d \in Sides, Read(d)
    PROVE  LET e == Peer(d) IN
           /\ Empty(d)' <=> Empty(d)
           /\ \A m : HalfSent(d, m)' <=> HalfSent(d, m)
           /\ \A m : Sent(d, m)' <=> Sent(d, m)
           /\ Empty(e) => Empty(e)' /\ lost /\ listener'[d] = "off"
           /\ \A m : HalfSent(e, m) => \/ HalfSent(e, m)' /\ listener'[d] = "body"
                                       \/ Empty(e)' /\ lost /\ listener'[d] = "off"
           /\ \A m : Sent(e, m) => Sent(e, m)' /\ listener'[d] \in {"body", "heard"}
  <1> DEFINE e == Peer(d)
             w == wire[e]
             l == listener[d]
             h == heard[d]
  <1>1. e \in Sides /\ Peer(e) = d
    BY PeerFacts
  <1>2. PICK g :
           /\ l \in {"read", "body"}
           /\ listener'[e] = listener[e] /\ heard'[e] = heard[e] /\ wire'[d] = wire[d]
           /\ \/ /\ w # <<>>
                 /\ wire'[e] = Tail(w)
                 /\ heard'[d] = Hears(w, l, h, g)
                 /\ listener'[d] = Moves(l)
              \/ /\ w = <<>> /\ lost
                 /\ wire'[e] = w /\ listener'[d] = "off"
    BY ReadEffect
  <1>3. /\ Empty(d)' <=> Empty(d)
        /\ \A m : HalfSent(d, m)' <=> HalfSent(d, m)
        /\ \A m : Sent(d, m)' <=> Sent(d, m)
    BY <1>2 DEF Empty, HalfSent, Sent
  <1>4. /\ Empty(e) <=> Nothing(w, l)
        /\ \A m : HalfSent(e, m) <=> HalfOf(w, l, h, m)
        /\ \A m : Sent(e, m) <=> AllOf(w, l, h, m)
        /\ Empty(e)' <=> Nothing(wire'[e], listener'[d])
        /\ \A m : HalfSent(e, m)' <=> HalfOf(wire'[e], listener'[d], heard'[d], m)
        /\ \A m : Sent(e, m)' <=> AllOf(wire'[e], listener'[d], heard'[d], m)
    BY <1>1 DEF Empty, HalfSent, Sent
  <1>5. Moves(l) \in {"body", "heard"}
    BY DEF Moves
  <1>6. Nothing(<<>>, "off")
    BY DEF Nothing
  <1> HIDE DEF e, w, l, h
  <1>7. Empty(e) => Empty(e)' /\ lost /\ listener'[d] = "off"
    BY <1>2, <1>4, <1>6, Reads
  <1>8. ASSUME NEW m, HalfSent(e, m)
        PROVE  \/ HalfSent(e, m)' /\ listener'[d] = "body"
               \/ Empty(e)' /\ lost /\ listener'[d] = "off"
    <2>1. CASE w # <<>>
      <3>1. HalfSent(e, m)' /\ listener'[d] = Moves(l)
        BY <1>2, <1>4, <1>8, <2>1, Reads
      <3>2. Moves(l) = "body"
        BY <1>4, <1>8, <2>1, <1>2 DEF HalfOf, Moves
      <3> QED
        BY <3>1, <3>2
    <2>2. CASE w = <<>>
      BY <1>2, <1>4, <1>6, <2>2
    <2> QED
      BY <2>1, <2>2
  <1>9. ASSUME NEW m, Sent(e, m)
        PROVE  Sent(e, m)' /\ listener'[d] \in {"body", "heard"}
    BY <1>2, <1>4, <1>5, <1>9, Reads
  <1> QED
    BY <1>3, <1>7, <1>8, <1>9 DEF e

LEMMA ReadPhase ==
    ASSUME Conversation, NEW d \in Sides, Read(d)
    PROVE  Phase'
  <1> DEFINE e == Peer(d)
  <1>0. Types /\ Phase
    BY DEF Conversation
  <1>1. e \in Sides /\ e # d /\ Peer(e) = d /\ \A x \in Sides : x = d \/ x = e
    BY PeerFacts
  <1>2. /\ listener[d] \in {"read", "body"}
        /\ listener'[e] = listener[e]
        /\ UNCHANGED <<lost, waiting_response, has_response, pc, request, calls, reply>>
    BY <1>0, ReadEffect
  <1>3. /\ Empty(d)' <=> Empty(d)
        /\ \A m : HalfSent(d, m)' <=> HalfSent(d, m)
        /\ \A m : Sent(d, m)' <=> Sent(d, m)
        /\ Empty(e) => Empty(e)' /\ lost /\ listener'[d] = "off"
        /\ \A m : HalfSent(e, m) => \/ HalfSent(e, m)' /\ listener'[d] = "body"
                                    \/ Empty(e)' /\ lost /\ listener'[d] = "off"
        /\ \A m : Sent(e, m) => Sent(e, m)' /\ listener'[d] \in {"body", "heard"}
    BY <1>0, ReadChannels
  <1> HIDE DEF e
  <1>4. ASSUME lost, Empty(d), Empty(e)', listener'[d] = "off",
               listener[e] \in {"read", "off", "body2"}
        PROVE  Quiet'
    BY <1>1, <1>2, <1>3, <1>4 DEF Quiet
  <1>5. CASE Quiet
    BY <1>1, <1>2, <1>3, <1>4, <1>5 DEF Phase, Quiet
  <1>6. CASE Half(d)
    <2>1. Empty(e)' /\ lost /\ listener'[d] = "off"
      BY <1>1, <1>3, <1>6 DEF Half, e
    <2>2. Half(d)'
      BY <1>2, <1>3, <1>6, <2>1 DEF Half, e
    <2> QED
      BY <2>2 DEF Phase
  <1>7. CASE Half(e)
    <2>1. Empty(d) /\ listener[e] \in {"read", "off"}
      BY <1>1, <1>7 DEF Half
    <2>2. PICK m : /\ HalfSent(e, m)
                   /\ ~lost => /\ ~waiting_response[d]
                               /\ \E t \in Threads : Side[t] = e /\ pc[t] = "body" /\ m = request[t].msg
      BY <1>1, <1>7 DEF Half
    <2>3. CASE HalfSent(e, m)' /\ listener'[d] = "body"
      <3>1. Half(e)'
        BY <1>1, <1>2, <1>3, <1>7, <2>1, <2>2, <2>3 DEF Half
      <3> QED
        BY <3>1, <1>1 DEF Phase
    <2>4. CASE Empty(e)' /\ lost /\ listener'[d] = "off"
      BY <2>1, <2>4, <1>4 DEF Phase
    <2> QED
      BY <1>3, <2>2, <2>3, <2>4
  <1>8. ASSUME NEW t \in Threads, Asked(t, Side[t], Peer(Side[t]))
        PROVE  Phase'
    <2>0. Side[t] \in Sides
      BY ConstantsAssumption
    <2>1. \A r : Answers(t, r)' <=> Answers(t, r)
      BY <1>2 DEF Answers
    <2>2. CASE Side[t] = e
      (* The listener of the peer reads requests. *)
      <3>1. Asked(t, e, d)
        BY <1>1, <1>8, <2>2
      <3>2. ~Handled(t, e, d)
        BY <1>2 DEF Handled
      <3>3. Waits(t, e, d)'
        BY <1>2, <3>1 DEF Asked, Waits
      <3>4. CASE Requested(t, e, d)
        <4>1. Sent(e, request[t].msg)' /\ listener'[d] \in {"body", "heard"} /\ Empty(d)'
          BY <1>2, <1>3, <3>4 DEF Requested
        <4>2. Requested(t, e, d)'
          BY <4>1, <1>2 DEF Requested
        <4> QED
          BY <4>2, <3>3, <1>1, <2>2 DEF Phase, Asked
      <3>5. CASE Replying(t, e, d)
        <4>1. Empty(e)' /\ lost /\ listener'[d] = "off"
          BY <1>3, <3>5 DEF Replying
        <4>2. Replying(t, e, d)'
          BY <4>1, <1>2, <1>3, <2>1, <3>5 DEF Replying
        <4> QED
          BY <4>2, <3>3, <1>1, <2>2 DEF Phase, Asked
      <3>6. CASE Replied(t, e, d)
        <4>1. Empty(e)' /\ lost /\ listener'[d] = "off"
          BY <1>3, <3>6 DEF Replied
        <4>2. Replied(t, e, d)'
          BY <4>1, <1>2, <1>3, <2>1, <3>6 DEF Replied
        <4> QED
          BY <4>2, <3>3, <1>1, <2>2 DEF Phase, Asked
      <3> QED
        BY <3>1, <3>2, <3>4, <3>5, <3>6 DEF Asked
    <2>3. CASE Side[t] = d
      (* The listener of the caller reads responses. *)
      <3>1. Asked(t, d, e)
        BY <1>8, <2>3 DEF e
      <3>2. listener'[d] \in {"off", "body", "heard"} => Waits(t, d, e)'
        BY <1>2, <3>1 DEF Asked, Waits
      <3>3. CASE Requested(t, d, e)
        <4>1. Empty(e)' /\ lost /\ listener'[d] = "off" /\ Sent(d, request[t].msg)'
          BY <1>2, <1>3, <3>3 DEF Requested
        <4>2. Requested(t, d, e)'
          BY <4>1, <1>2, <3>3 DEF Requested
        <4> QED
          BY <4>1, <4>2, <3>2, <2>3 DEF Phase, Asked, e
      <3>4. CASE Handled(t, d, e)
        <4>1. Empty(e)' /\ lost /\ listener'[d] = "off" /\ Empty(d)'
          BY <1>3, <3>4 DEF Handled
        <4>2. Handled(t, d, e)'
          BY <4>1, <1>2, <2>1, <3>4 DEF Handled
        <4> QED
          BY <4>1, <4>2, <3>2, <2>3 DEF Phase, Asked, e
      <3>5. CASE Replying(t, d, e)
        <4>1. PICK r : /\ HalfSent(e, r) /\ Answers(t, r)
                       /\ \/ listener[e] = "body2" /\ reply[e] = r
                          \/ lost /\ listener[e] \in {"read", "off"}
          BY <3>5 DEF Replying
        <4>2. CASE HalfSent(e, r)' /\ listener'[d] = "body"
          <5>1. Replying(t, d, e)'
            BY <4>1, <4>2, <1>2, <1>3, <2>1, <3>5 DEF Replying
          <5> QED
            BY <5>1, <4>2, <3>2, <2>3 DEF Phase, Asked, e
        <4>3. CASE Empty(e)' /\ lost /\ listener'[d] = "off"
          BY <4>1, <4>3, <1>4, <3>5 DEF Replying, Phase
        <4> QED
          BY <4>1, <4>2, <4>3, <1>3
      <3>6. CASE Replied(t, d, e)
        <4>1. PICK r : Sent(e, r) /\ Answers(t, r)
          BY <3>6 DEF Replied
        <4>2. Sent(e, r)' /\ listener'[d] \in {"body", "heard"}
          BY <4>1, <1>3
        <4>3. Replied(t, d, e)'
          BY <4>1, <4>2, <1>2, <1>3, <2>1, <3>6 DEF Replied
        <4> QED
          BY <4>2, <4>3, <3>2, <2>3 DEF Phase, Asked, e
      <3> QED
        BY <3>1, <3>3, <3>4, <3>5, <3>6 DEF Asked
    <2> QED
      BY <2>0, <2>2, <2>3, <1>1
  <1> QED
    BY <1>0, <1>1, <1>5, <1>6, <1>7, <1>8 DEF Phase

(* A message that a listener has heard whole is the request of a thread of  *)
(* the other side, which it does not take for a response, or the response   *)
(* to the call of a thread of its own side, which it does.                  *)
LEMMA HeardWhat ==
    ASSUME Conversation, NEW d \in Sides, listener[d] = "heard"
    PROVE  LET e == Peer(d) IN
           \E t \in Threads :
              \/ /\ Side[t] = e /\ Waits(t, e, d)
                 /\ wire[e] = <<>> /\ heard[d] = request[t].msg /\ Empty(d)
                 /\ listener[e] \notin {"len", "body2"}
              \/ /\ Side[t] = d /\ Waits(t, d, e)
                 /\ wire[e] = <<>> /\ Answers(t, heard[d]) /\ Empty(d)
                 /\ listener[e] \in {"read", "off"}
  <1> DEFINE e == Peer(d)
  <1>0. Phase
    BY DEF Conversation
  <1>1. e \in Sides /\ e # d /\ Peer(e) = d /\ \A x \in Sides : x = d \/ x = e
    BY PeerFacts
  <1>2. ~Empty(e) /\ (\A m : ~HalfSent(e, m)) /\ \A m : Sent(e, m) => wire[e] = <<>> /\ heard[d] = m
    BY <1>1 DEF Empty, Nothing, HalfSent, HalfOf, Sent, AllOf
  <1> HIDE DEF e
  <1>3. ~Quiet
    BY <1>1, <1>2 DEF Quiet
  <1>4. ASSUME NEW x \in Sides
        PROVE  ~Half(x)
    <2>1. x = d \/ x = e
      BY <1>1
    <2> QED
      BY <2>1, <1>1, <1>2 DEF Half, e
  <1>5. PICK t \in Threads : Asked(t, Side[t], Peer(Side[t]))
    BY <1>0, <1>3, <1>4 DEF Phase
  <1>6. CASE Side[t] = e
    <2>1. Asked(t, e, d)
      BY <1>1, <1>5, <1>6
    <2>2. Requested(t, e, d)
      BY <1>2, <2>1 DEF Asked, Handled, Replying, Replied
    <2>3. Waits(t, e, d)
      BY <2>1 DEF Asked
    <2> QED
      BY <1>2, <1>6, <2>2, <2>3 DEF Requested, Waits, e
  <1>7. CASE Side[t] = d
    <2>1. Asked(t, d, e)
      BY <1>5, <1>7 DEF e
    <2>2. Replied(t, d, e)
      BY <1>2, <2>1 DEF Asked, Requested, Handled, Replying
    <2>3. PICK r : Sent(e, r) /\ Answers(t, r)
      BY <2>2 DEF Replied
    <2> QED
      BY <1>2, <1>7, <2>1, <2>2, <2>3 DEF Asked, Replied, e
  <1>8. Side[t] \in Sides
    BY ConstantsAssumption
  <1> QED
    BY <1>1, <1>6, <1>7, <1>8

(* What is taken for a response is the one to the waiting call. *)
LEMMA TakenWhat ==
    ASSUME Conversation, NEW d \in Sides, TakeResponse(d)
    PROVE  LET e == Peer(d) IN
           /\ \E t \in Threads :
                 /\ Side[t] = d /\ Waits(t, d, e)
                 /\ Answers(t, heard[d])
           /\ wire[e] = <<>> /\ Empty(d)
           /\ listener[e] \in {"read", "off"}
  <1>1. listener[d] = "heard" /\ waiting_response[d]
    BY DEF TakeResponse
  <1> QED
    BY <1>1, HeardWhat DEF Waits

LEMMA TakeResponsePhase ==
    ASSUME Conversation, NEW d \in Sides, TakeResponse(d)
    PROVE  Phase'
  <1> DEFINE e == Peer(d)
  <1>0. Types /\ Turns /\ Locks
    BY DEF Conversation
  <1>1. e \in Sides /\ e # d /\ Peer(e) = d /\ \A x \in Sides : x = d \/ x = e
    BY PeerFacts
  <1>2. PICK t \in Threads : Side[t] = d /\ Waits(t, d, e)
    BY TakenWhat
  <1>3. wire[e] = <<>> /\ Empty(d) /\ listener[e] \in {"read", "off"}
    BY TakenWhat
  <1>4. /\ UNCHANGED <<wire, pc, lost>>
        /\ listener'[d] = "read" /\ listener'[e] = listener[e]
        /\ waiting_response'[d] = FALSE /\ waiting_response'[e] = waiting_response[e]
    BY <1>0, <1>1 DEF TakeResponse, netVars, callerVars, Types, TypeOK
  <1>5. Empty(d)' /\ Empty(e)'
    BY <1>1, <1>3, <1>4 DEF Empty, Nothing
  <1>6. \A u \in Threads : pc[u] # "body"
    BY <1>0, <1>2, Alone DEF Busy, Waits
  <1>7. ~waiting_response[e]
    BY <1>2 DEF Waits
  <1> HIDE DEF e
  <1>8. Quiet'
    BY <1>1, <1>3, <1>4, <1>5, <1>6, <1>7 DEF Quiet
  <1> QED
    BY <1>8 DEF Phase

(* A request is handled by the peer of its caller. *)
LEMMA HandlePhase ==
    ASSUME Conversation, NEW d \in Sides, Handle(d)
    PROVE  Phase'
  <1> DEFINE e == Peer(d)
             r == HandleRequest(d, heard[d])
  <1>0. Types /\ Turns /\ Locks /\ Asking
    BY DEF Conversation
  <1>1. e \in Sides /\ e # d /\ Peer(e) = d /\ \A x \in Sides : x = d \/ x = e
    BY PeerFacts
  <1>2. listener[d] = "heard" /\ ~waiting_response[d]
    BY DEF Handle
  <1>3. PICK t \in Threads : /\ Side[t] = e /\ Waits(t, e, d)
                             /\ wire[e] = <<>> /\ heard[d] = request[t].msg /\ Empty(d)
                             /\ listener[e] \notin {"len", "body2"}
    BY <1>2, HeardWhat DEF Waits
  <1>4. PICK c \in DOMAIN calls : request[t] = [id |-> c, msg |-> Request(c, calls[c])]
    BY <1>0, <1>3 DEF Asking, Waits
  <1>5. c \in 1..MaxCalls /\ calls[c] \in Requests
    BY <1>0, ConstantsAssumption DEF Types, TypeOK
  <1>6. r = None \/ (r # None /\ Answers(t, r))
    <2>1. heard[d] = Request(c, calls[c]) /\ request[t].id = c
      BY <1>3, <1>4
    <2>2. r = None \/ (r # None /\ ReplyTo(c, calls[c], r))
      BY <1>5, <2>1, HandleAnswers
    <2> QED
      BY <2>1, <2>2 DEF Answers
  <1>7. /\ UNCHANGED <<wire, lost, waiting_response, has_response, pc, request, calls>>
        /\ reply'[d] = r
        /\ listener'[d] = (IF r = None THEN "read" ELSE "len") /\ listener'[e] = listener[e]
        /\ heard'[e] = heard[e]
    BY <1>0, <1>1 DEF Handle, netVars, flagVars, callerVars, Types, TypeOK
  <1> HIDE DEF r
  <1>8. Empty(d)' /\ Empty(e)'
    BY <1>1, <1>3, <1>7 DEF Empty, Nothing
  <1>9. \A u \in Threads : pc[u] # "body"
    BY <1>0, <1>3, Alone DEF Busy, Waits
  <1> HIDE DEF e
  <1>10. CASE r = None
    <2>1. listener'[d] = "read" /\ listener'[e] \in {"read", "off"}
      <3>1. listener[e] \notin {"body", "heard"}
        BY <1>1, <1>3 DEF Empty, Nothing, e
      <3> QED
        BY <3>1, <1>0, <1>1, <1>3, <1>7, <1>10 DEF Types, TypeOK
    <2>2. \A x \in Sides : waiting_response'[x] =>
              \E u \in Threads : Side[u] = x /\ pc'[u] \in {"len", "wait"}
      BY <1>1, <1>2, <1>3, <1>7 DEF Waits
    <2>3. \A u \in Threads : pc'[u] # "body"
      BY <1>7, <1>9
    <2>4. Quiet'
      BY <1>1, <1>8, <2>1, <2>2, <2>3 DEF Quiet
    <2> QED
      BY <2>4 DEF Phase
  <1>11. CASE r # None
    <2>1. Answers(t, reply[d])'
      BY <1>6, <1>7, <1>11 DEF Answers
    <2>2. Handled(t, e, d)'
      BY <1>7, <1>8, <1>11, <2>1 DEF Handled
    <2>3. Waits(t, e, d)'
      BY <1>3, <1>7 DEF Waits
    <2> QED
      BY <2>2, <2>3, <1>1, <1>3 DEF Phase, Asked
  <1> QED
    BY <1>10, <1>11

LEMMA WriteReplyPhase ==
    ASSUME Conversation, NEW d \in Sides, WriteReply(d)
    PROVE  Phase'
  <1> DEFINE e == Peer(d)
  <1>0. Types /\ Phase
    BY DEF Conversation
  <1>1. e \in Sides /\ e # d /\ Peer(e) = d /\ \A x \in Sides : x = d \/ x = e
    BY PeerFacts
  <1>2. /\ listener[d] \in {"len", "body2"}
        /\ UNCHANGED <<lost, heard, waiting_response, has_response, pc, request, calls>>
        /\ listener'[e] = listener[e]
    BY <1>0, <1>1 DEF WriteReply, flagVars, callerVars, Types, TypeOK
  <1>3. /\ lost => wire' = wire /\ listener'[d] = "off"
        /\ ~lost /\ listener[d] = "len" =>
              Write(d, "len", reply[d]) /\ listener'[d] = "body2" /\ reply' = reply
        /\ ~lost /\ listener[d] = "body2" =>
              Write(d, "body", reply[d]) /\ listener'[d] = "read"
    BY <1>0 DEF WriteReply, Types, TypeOK
  <1>4. wire'[e] = wire[e]
    BY <1>0, <1>1, <1>2, <1>3, WriteEffect
  <1>5. listener'[d] \notin {"body", "heard"} /\ listener[d] \notin {"body", "heard"}
    BY <1>2, <1>3
  <1>6. Empty(e) => Empty(e)'
    BY <1>1, <1>4, <1>5 DEF Empty, Nothing
  <1>7. lost => /\ Empty(d)' <=> Empty(d)
                /\ \A m : HalfSent(d, m)' <=> HalfSent(d, m)
    BY <1>2, <1>3 DEF Empty, HalfSent
  <1> HIDE DEF e
  <1>8. CASE Quiet
    <2>1. lost /\ listener[d] = "body2"
      BY <1>2, <1>8 DEF Quiet
    <2>2. Quiet'
      BY <1>1, <1>2, <1>3, <1>6, <1>7, <1>8, <2>1 DEF Quiet
    <2> QED
      BY <2>2 DEF Phase
  <1>9. ASSUME NEW x \in Sides
        PROVE  ~Half(x)
    <2>1. x = d \/ x = e
      BY <1>1
    <2> QED
      BY <2>1, <1>1, <1>2 DEF Half
  <1>10. ASSUME NEW t \in Threads, Asked(t, Side[t], Peer(Side[t]))
         PROVE  Phase'
    <2>0. Side[t] \in Sides
      BY ConstantsAssumption
    <2>1. Side[t] = e
      <3>1. Side[t] # d
        BY <1>2, <1>10 DEF Asked, Waits
      <3> QED
        BY <3>1, <2>0, <1>1
    <2>2. Asked(t, e, d)
      BY <1>1, <1>10, <2>1
    <2>3. Waits(t, e, d)'
      BY <1>2, <2>2 DEF Asked, Waits
    <2>4. \A r : Answers(t, r)' <=> Answers(t, r)
      BY <1>2 DEF Answers
    <2>5. ~Requested(t, e, d) /\ ~Replied(t, e, d)
      BY <1>2 DEF Requested, Replied
    <2>6. CASE Handled(t, e, d) /\ ~lost
      <3>1. Write(d, "len", reply[d]) /\ listener'[d] = "body2" /\ reply' = reply
        BY <1>3, <2>6 DEF Handled
      <3>2. wire'[d] = Append(wire[d], LenOf(reply[d]))
        BY <1>0, <3>1, WriteEffect DEF LenOf
      <3>3. HalfSent(d, reply[d])'
        BY <1>2, <2>6, <3>1, <3>2, Writes DEF Handled, Empty, HalfSent, e
      <3>4. Replying(t, e, d)'
        BY <1>6, <2>4, <2>6, <3>1, <3>3 DEF Handled, Replying
      <3> QED
        BY <3>4, <2>1, <2>3, <1>1 DEF Phase, Asked
    <2>7. CASE Handled(t, e, d) /\ lost
      <3>1. listener'[e] \in {"read", "off"}
        <4>1. listener[e] \notin {"body", "heard", "len", "body2"}
          BY <2>2, <2>7, <1>1 DEF Handled, Empty, Nothing, Asked, Waits, e
        <4> QED
          BY <4>1, <1>0, <1>1, <1>2 DEF Types, TypeOK
      <3>2. Quiet'
        BY <1>1, <1>2, <1>3, <1>6, <1>7, <2>7, <3>1 DEF Quiet, Handled
      <3> QED
        BY <3>2 DEF Phase
    <2>8. CASE Replying(t, e, d)
      <3>1. PICK r : HalfSent(d, r) /\ Answers(t, r) /\ listener[d] = "body2" /\ reply[d] = r
        BY <1>2, <2>8 DEF Replying
      <3>2. CASE lost
        <4>1. Replying(t, e, d)'
          BY <1>2, <1>3, <1>6, <1>7, <2>4, <2>8, <3>1, <3>2 DEF Replying
        <4> QED
          BY <4>1, <2>1, <2>3, <1>1 DEF Phase, Asked
      <3>3. CASE ~lost
        <4>1. wire'[d] = Append(wire[d], BodyOf(r)) /\ listener'[d] = "read"
          BY <1>0, <1>3, <3>1, <3>3, WriteEffect DEF BodyOf
        <4>2. Sent(d, r)'
          BY <1>2, <3>1, <4>1, Writes DEF HalfSent, Sent, e
        <4>3. Replied(t, e, d)'
          BY <1>6, <2>4, <2>8, <3>1, <4>1, <4>2 DEF Replying, Replied
        <4> QED
          BY <4>3, <2>1, <2>3, <1>1 DEF Phase, Asked
      <3> QED
        BY <3>2, <3>3
    <2> QED
      BY <2>2, <2>5, <2>6, <2>7, <2>8 DEF Asked
  <1> QED
    BY <1>0, <1>8, <1>9, <1>10 DEF Phase

-----------------------------------------------------------------------------
(* The rest of the invariant *)

Callers == Turns /\ Locks /\ Asking /\ Armed

Answered == Delivered /\ Returned

(* The callers: their turns, the mutex, their requests and their flags.     *)
LEMMA NextCallers ==
    ASSUME TurnTaking, Conversation, Next
    PROVE  Callers'
  <1>0. Types /\ Callers
    BY DEF Conversation, Callers
  <1>1. /\ pc \in [Threads -> {"idle", "send", "arm", "len", "body", "wait"}]
        /\ calls \in Seq(Requests)
        /\ send_mutex \in [Sides -> Threads \cup {None}]
        /\ DOMAIN request = Threads
        /\ waiting_response \in [Sides -> BOOLEAN] /\ has_response \in [Sides -> BOOLEAN]
    BY <1>0 DEF Types, TypeOK
  <1>2. Side \in [Threads -> Sides] /\ None \notin Threads
    BY ConstantsAssumption
  <1>3. ASSUME UNCHANGED <<pc, send_mutex, request, calls, waiting_response, has_response>>,
               lost => lost'
        PROVE  Callers'
    BY <1>0, <1>3 DEF Callers, Turns, Locks, Asking, Armed
  <1>4. ASSUME NEW n \in Listeners, Add("client", n)
        PROVE  Callers'
    BY <1>3, <1>4 DEF Add, netVars, flagVars, callerVars
  <1>5. CASE Accept
    BY <1>3, <1>5 DEF Accept, flagVars, callerVars
  <1>6. CASE Lose
    BY <1>3, <1>6 DEF Lose, flagVars, callerVars
  <1>7. ASSUME NEW t \in Threads, NEW k \in Requests, Call(t, k)
        PROVE  Callers'
    <2>1. Turns'
      BY <1>0, <1>1, <1>7, TurnTaking DEF Callers, Turns, Call
    <2>2. Locks'
      BY <1>0, <1>1, <1>7 DEF Callers, Locks, Call
    <2>3. Armed'
      BY <1>0, <1>1, <1>7 DEF Callers, Armed, Call, netVars, flagVars
    <2>4. ASSUME NEW u \in Threads, pc'[u] # "idle"
          PROVE  \E c \in DOMAIN calls' : request'[u] = [id |-> c, msg |-> Request(c, calls'[c])]
      <3> DEFINE n == Len(calls) + 1
      <3>1. /\ calls' = Append(calls, k) /\ n \in DOMAIN calls' /\ calls'[n] = k
            /\ \A c \in DOMAIN calls : c \in DOMAIN calls' /\ calls'[c] = calls[c]
        BY <1>1, <1>7 DEF Call
      <3>2. CASE u = t
        <4>1. request'[t] = [id |-> n, msg |-> Request(n, k)]
          BY <1>1, <1>7 DEF Call
        <4> HIDE DEF n
        <4> QED
          BY <3>1, <3>2, <4>1
      <3>3. CASE u # t
        <4>1. pc[u] # "idle" /\ request'[u] = request[u]
          BY <1>1, <1>7, <2>4, <3>3 DEF Call
        <4>2. PICK c \in DOMAIN calls : request[u] = [id |-> c, msg |-> Request(c, calls[c])]
          BY <4>1, <1>0 DEF Callers, Asking
        <4> QED
          BY <3>1, <4>1, <4>2
      <3> QED
        BY <3>2, <3>3
    <2> QED
      BY <2>1, <2>2, <2>3, <2>4 DEF Callers, Asking
  <1>8. ASSUME NEW t \in Threads, LockSend(t)
        PROVE  Callers'
    BY <1>0, <1>1, <1>2, <1>8
       DEF Callers, Turns, Locks, Asking, Armed, LockSend, netVars, flagVars
  <1>9. ASSUME NEW t \in Threads, Arm(t)
        PROVE  Callers'
    <2>1. Turns' /\ Locks' /\ Asking'
      BY <1>0, <1>1, <1>2, <1>9 DEF Callers, Turns, Locks, Asking, Arm
    <2>2. ASSUME NEW u \in Threads, pc'[u] \in {"len", "body"}, ~lost'
          PROVE  waiting_response'[Side[u]] /\ ~has_response'[Side[u]]
      <3>1. CASE u = t
        BY <3>1, <1>1, <1>2, <1>9 DEF Arm
      <3>2. CASE u # t
        <4>1. Busy(u) /\ Busy(t)
          BY <3>2, <2>2, <1>1, <1>9 DEF Arm, Busy
        <4> QED
          BY <4>1, <3>2, <1>0, Alone DEF Callers
      <3> QED
        BY <3>1, <3>2
    <2> QED
      BY <2>1, <2>2 DEF Callers, Armed
  <1>10. ASSUME NEW t \in Threads, WriteRequest(t)
         PROVE  Callers'
    <2>0. Busy(t)
      BY <1>10 DEF WriteRequest, Busy
    <2>1. CASE ~lost
      <3>1. /\ pc' = [pc EXCEPT ![t] = IF pc[t] = "len" THEN "body" ELSE "wait"]
            /\ UNCHANGED <<send_mutex, request, calls, waiting_response, has_response, lost>>
            /\ pc[t] \in {"len", "body"}
        BY <1>10, <2>1 DEF WriteRequest, flagVars
      <3> QED
        BY <3>1, <1>0, <1>1, <1>2 DEF Callers, Turns, Locks, Asking, Armed
    <2>2. CASE lost
      <3>1. /\ pc' = [pc EXCEPT ![t] = "idle"]
            /\ send_mutex' = [send_mutex EXCEPT ![Side[t]] = None]
            /\ request' = [request EXCEPT ![t] = None]
            /\ calls' = calls /\ lost'
        BY <1>10, <2>2 DEF WriteRequest
      <3>2. \A u \in Threads \ {t} : ~Busy(u)
        BY <1>0, <2>0, Alone DEF Callers
      <3> QED
        BY <3>1, <3>2, <1>0, <1>1, <1>2 DEF Callers, Turns, Locks, Asking, Armed, Busy
    <2> QED
      BY <2>1, <2>2
  <1>11. ASSUME NEW t \in Threads, Return(t)
         PROVE  Callers'
    <2>1. Busy(t)
      BY <1>11 DEF Return, Busy
    <2>2. \A u \in Threads \ {t} : ~Busy(u)
      BY <1>0, <2>1, Alone DEF Callers
    <2> QED
      BY <2>2, <1>0, <1>1, <1>2, <1>11
         DEF Callers, Turns, Locks, Asking, Armed, Busy, Return, netVars, flagVars
  <1>12. ASSUME NEW d \in Sides, Read(d) \/ Handle(d) \/ WriteReply(d)
         PROVE  Callers'
    BY <1>3, <1>12 DEF Read, Handle, WriteReply, netVars, flagVars, callerVars
  <1>13. ASSUME NEW d \in Sides, TakeResponse(d)
         PROVE  Callers'
    <2>1. PICK t \in Threads : Side[t] = d /\ Waits(t, d, Peer(d))
      BY <1>13, TakenWhat
    <2>2. \A u \in Threads : pc[u] \notin {"len", "body"}
      BY <2>1, <1>0, Alone DEF Callers, Busy, Waits
    <2> QED
      BY <2>2, <1>0, <1>13
         DEF Callers, Turns, Locks, Asking, Armed, TakeResponse, netVars, callerVars
  <1> QED
    BY <1>4, <1>5, <1>6, <1>7, <1>8, <1>9, <1>10, <1>11, <1>12, <1>13
       DEF Next, Caller, Listener

LEMMA NextDeaf ==
    ASSUME Conversation, Next
    PROVE  Deaf'
  <1>1. Deaf /\ Types
    BY DEF Conversation
  <1>2. "server" \in Sides /\ DOMAIN listener = Sides
    BY <1>1 DEF Sides, Types, TypeOK
  <1>3. CASE Accept
    BY <1>3 DEF Accept, Deaf
  <1>4. ASSUME NEW d \in Sides, Listener(d)
        PROVE  Deaf'
    <2>1. listener[d] # "off" /\ accepted' = accepted
      BY <1>4 DEF Listener, Read, TakeResponse, Handle, WriteReply, netVars
    <2>2. \A x \in Sides \ {d} : listener'[x] = listener[x]
      BY <1>2, <1>4 DEF Listener, Read, TakeResponse, Handle, WriteReply
    <2> QED
      BY <2>1, <2>2, <1>1, <1>2 DEF Deaf
  <1>5. ASSUME ~Accept, \A d \in Sides : ~Listener(d)
        PROVE  UNCHANGED <<accepted, listener>>
    BY <1>5 DEF Next, Add, Lose, Call, Caller, LockSend, Arm, WriteRequest, Return,
                netVars, listenerVars
  <1> QED
    BY <1>1, <1>3, <1>4, <1>5 DEF Deaf

(* The answers: what was taken, and what was returned with. *)
LEMMA NextAnswered ==
    ASSUME Conversation, Next
    PROVE  Answered'
  <1>0. Types /\ Turns /\ Locks /\ Asking /\ Armed /\ Answered
    BY DEF Conversation, Answered
  <1>1. /\ pc \in [Threads -> {"idle", "send", "arm", "len", "body", "wait"}]
        /\ calls \in Seq(Requests) /\ Len(calls) <= MaxCalls /\ MaxCalls \in Nat
        /\ DOMAIN request = Threads /\ DOMAIN last_response = Sides
        /\ waiting_response \in [Sides -> BOOLEAN] /\ has_response \in [Sides -> BOOLEAN]
        /\ DOMAIN answer = 1..MaxCalls
    BY <1>0, ConstantsAssumption DEF Types, TypeOK
  <1>2. Side \in [Threads -> Sides] /\ None \notin Threads
    BY ConstantsAssumption
  <1>3. ASSUME UNCHANGED <<waiting_response, has_response, last_response, calls, answer>>,
               \A u \in Threads : pc'[u] = "wait" /\ has_response[Side[u]]
                   => pc[u] = "wait" /\ request'[u] = request[u]
        PROVE  Answered'
    <2>1. Delivered'
      BY <1>0, <1>2, <1>3 DEF Answered, Delivered, Answers
    <2>2. Returned'
      BY <1>0, <1>3 DEF Answered, Returned
    <2> QED
      BY <2>1, <2>2 DEF Answered
  <1>4. ASSUME NEW n \in Listeners, Add("client", n)
        PROVE  Answered'
    BY <1>3, <1>4 DEF Add, netVars, flagVars, callerVars
  <1>5. CASE Accept
    BY <1>3, <1>5 DEF Accept, flagVars, callerVars
  <1>6. CASE Lose
    BY <1>3, <1>6 DEF Lose, flagVars, callerVars
  <1>7. ASSUME NEW t \in Threads, NEW k \in Requests, Call(t, k)
        PROVE  Answered'
    <2>1. /\ UNCHANGED <<waiting_response, has_response, last_response, answer>>
          /\ pc[t] = "idle" /\ pc'[t] = "send"
          /\ \A u \in Threads \ {t} : pc'[u] = pc[u] /\ request'[u] = request[u]
          /\ \A c \in DOMAIN calls : c \in DOMAIN calls' /\ calls'[c] = calls[c]
      BY <1>1, <1>7 DEF Call, flagVars
    <2>2. ASSUME NEW u \in Threads, pc'[u] = "wait", has_response'[Side[u]]
          PROVE  ~waiting_response'[Side[u]] /\ Answers(u, last_response[Side[u]])'
      <3>1. u # t /\ pc[u] = "wait"
        BY <2>1, <2>2
      <3>2. ~waiting_response[Side[u]] /\ Answers(u, last_response[Side[u]])
        BY <1>0, <2>1, <2>2, <3>1 DEF Answered, Delivered
      <3>3. PICK c \in DOMAIN calls : request[u] = [id |-> c, msg |-> Request(c, calls[c])]
        BY <3>1, <1>0 DEF Asking
      <3>4. request'[u] = request[u] /\ calls'[request[u].id] = calls[request[u].id]
        BY <2>1, <3>1, <3>3
      <3> QED
        BY <2>1, <3>2, <3>4 DEF Answers
    <2>3. Returned'
      BY <1>0, <2>1 DEF Answered, Returned
    <2> QED
      BY <2>2, <2>3 DEF Answered, Delivered
  <1>8. ASSUME NEW t \in Threads, LockSend(t)
        PROVE  Answered'
    BY <1>1, <1>3, <1>8 DEF LockSend, flagVars
  <1>9. ASSUME NEW t \in Threads, Arm(t)
        PROVE  Answered'
    <2>1. Busy(t)
      BY <1>9 DEF Arm, Busy
    <2>2. \A u \in Threads : pc'[u] # "wait"
      BY <1>0, <1>1, <1>9, <2>1, Alone DEF Arm, Busy
    <2>3. UNCHANGED <<calls, answer>>
      BY <1>9 DEF Arm
    <2> QED
      BY <1>0, <2>2, <2>3 DEF Answered, Delivered, Returned
  <1>10. ASSUME NEW t \in Threads, WriteRequest(t)
         PROVE  Answered'
    <2>1. UNCHANGED <<waiting_response, has_response, last_response, calls, answer>>
      BY <1>10 DEF WriteRequest, flagVars
    <2>2. \A u \in Threads \ {t} : pc'[u] = pc[u] /\ request'[u] = request[u]
      BY <1>1, <1>10 DEF WriteRequest
    <2>3. pc'[t] = "wait" => ~has_response[Side[t]]
      BY <1>0, <1>1, <1>10 DEF WriteRequest, Armed
    <2> QED
      BY <1>3, <2>1, <2>2, <2>3
  <1>11. ASSUME NEW t \in Threads, Return(t)
         PROVE  Answered'
    <2>1. /\ UNCHANGED <<waiting_response, has_response, last_response, calls>>
          /\ pc'[t] = "idle" /\ pc[t] = "wait" /\ has_response[Side[t]]
          /\ \A u \in Threads \ {t} : pc'[u] = pc[u] /\ request'[u] = request[u]
      BY <1>1, <1>11 DEF Return, flagVars
    <2>2. Delivered'
      BY <1>0, <2>1 DEF Answered, Delivered, Answers
    <2>3. PICK c \in DOMAIN calls : request[t] = [id |-> c, msg |-> Request(c, calls[c])]
      BY <2>1, <1>0 DEF Asking
    <2>4. request[t].id = c /\ c \in 1..MaxCalls
      BY <1>1, <2>3
    <2>5. ReplyTo(c, calls[c], last_response[Side[t]])
      BY <1>0, <2>1, <2>4 DEF Answered, Delivered, Answers
    <2>6. answer'[c] = last_response[Side[t]] /\ \A x \in 1..MaxCalls : x # c => answer'[x] = answer[x]
      BY <1>1, <1>11, <2>4 DEF Return
    <2>7. Returned'
      BY <1>0, <2>1, <2>5, <2>6 DEF Answered, Returned
    <2> QED
      BY <2>2, <2>7 DEF Answered
  <1>12. ASSUME NEW d \in Sides, Read(d) \/ Handle(d) \/ WriteReply(d)
         PROVE  Answered'
    BY <1>3, <1>12 DEF Read, Handle, WriteReply, flagVars, callerVars
  <1>13. ASSUME NEW d \in Sides, TakeResponse(d)
         PROVE  Answered'
    <2>1. PICK t \in Threads : /\ Side[t] = d /\ Waits(t, d, Peer(d))
                               /\ Answers(t, heard[d])
      BY <1>13, TakenWhat
    <2>2. \A u \in Threads : pc[u] = "wait" => u = t
      BY <2>1, <1>0, Alone DEF Busy, Waits
    <2>3. /\ UNCHANGED <<pc, request, calls, answer>>
          /\ last_response'[d] = heard[d] /\ ~waiting_response'[d]
      BY <1>1, <1>13 DEF TakeResponse, callerVars
    <2>4. Delivered'
      BY <2>1, <2>2, <2>3 DEF Delivered, Answers
    <2>5. Returned'
      BY <1>0, <2>3 DEF Answered, Returned
    <2> QED
      BY <2>4, <2>5 DEF Answered
  <1> QED
    BY <1>4, <1>5, <1>6, <1>7, <1>8, <1>9, <1>10, <1>11, <1>12, <1>13
       DEF Next, Caller, Listener

-----------------------------------------------------------------------------
(* The theorems about a demo whose sides take turns *)

LEMMA InitConversation == Init => Conversation
  <1> SUFFICES ASSUME Init
               PROVE  Conversation
    OBVIOUS
  <1>1. Types
    BY InitTypes
  <1>2. Turns /\ Locks /\ Asking /\ Armed /\ Delivered
    BY DEF Init, Turns, Locks, Asking, Armed, Delivered
  <1>3. Deaf /\ Returned
    BY DEF Init, Deaf, Returned, Sides
  <1>4. \A d \in Sides : Empty(d) /\ listener[d] \in {"read", "off"}
    BY PeerFacts DEF Init, Empty, Nothing
  <1>5. Quiet
    BY <1>4 DEF Init, Quiet
  <1> QED
    BY <1>1, <1>2, <1>3, <1>5 DEF Conversation, Phase

LEMMA NextConversation ==
    ASSUME TurnTaking, Conversation, [Next]_vars
    PROVE  Conversation'
  <1>1. CASE UNCHANGED vars
    <2>1. UNCHANGED <<Sockets, waiting_response, has_response, lost, calls, request, pc>>
      BY <1>1 DEF vars, Sockets, netVars, flagVars, callerVars, listenerVars
    <2>2. \A u \in Threads : ~Busy(u) => pc[u] \in {"idle", "send", "arm"}
      BY DEF Conversation, Types, TypeOK, Busy
    <2>3. Phase'
      BY <2>1, <2>2, SamePhase DEF Conversation
    <2>4. Types'
      BY <1>1, NextTypes DEF Conversation
    <2>5. Turns' /\ Locks' /\ Asking' /\ Deaf' /\ Armed'
      BY <1>1 DEF Conversation, Turns, Locks, Asking, Deaf, Armed,
                  vars, netVars, flagVars, callerVars, listenerVars
    <2>6. Delivered' /\ Returned'
      BY <1>1 DEF Conversation, Delivered, Returned, Answers, vars, flagVars, callerVars
    <2> QED
      BY <2>3, <2>4, <2>5, <2>6 DEF Conversation
  <1>2. CASE Next
    <2>1. Phase'
      BY <1>2, AddPhase, AcceptPhase, LosePhase, CallPhase, LockSendPhase, ArmPhase,
         WriteRequestPhase, ReturnPhase, ReadPhase, TakeResponsePhase, HandlePhase, WriteReplyPhase
         DEF Next, Caller, Listener
    <2>2. Types'
      BY <1>2, NextTypes DEF Conversation
    <2>3. Callers' /\ Deaf' /\ Answered'
      BY <1>2, NextCallers, NextDeaf, NextAnswered
    <2> QED
      BY <2>1, <2>2, <2>3 DEF Conversation, Callers, Answered
  <1> QED
    BY <1>1, <1>2

(* Whatever the phase, each wire holds at most one message.                 *)
LEMMA PhaseWires ==
    ASSUME Phase, NEW d \in Sides
    PROVE  Empty(d) \/ \E m : HalfSent(d, m) \/ Sent(d, m)
  <1>1. Peer(d) \in Sides /\ Peer(Peer(d)) = d /\ \A x \in Sides : x = d \/ x = Peer(d)
    BY PeerFacts
  <1>2. CASE Quiet
    BY <1>2 DEF Quiet
  <1>3. ASSUME NEW x \in Sides, Half(x)
        PROVE  Empty(d) \/ \E m : HalfSent(d, m)
    <2>1. (\E m : HalfSent(x, m)) /\ Empty(Peer(x))
      BY <1>3 DEF Half
    <2> QED
      BY <1>1, <2>1
  <1>4. ASSUME NEW t \in Threads, Asked(t, Side[t], Peer(Side[t]))
        PROVE  Empty(d) \/ \E m : HalfSent(d, m) \/ Sent(d, m)
    <2>1. Side[t] \in Sides
      BY ConstantsAssumption
    <2>2. ASSUME NEW x
          PROVE  (x = Side[t] \/ x = Peer(Side[t]))
                   => Empty(x) \/ \E m : HalfSent(x, m) \/ Sent(x, m)
      BY <1>4 DEF Asked, Requested, Handled, Replying, Replied
    <2> QED
      BY <1>1, <2>1, <2>2
  <1> QED
    BY <1>2, <1>3, <1>4 DEF Phase

(* A length and the body after it, or a prefix of this, are whole frames. *)
Framed(w) ==
    \A k \in DOMAIN w : /\ w[k].part = (IF k % 2 = 1 THEN "len" ELSE "body")
                        /\ k % 2 = 0 => w[k].msg = w[k - 1].msg

LEMMA OneMessageFramed ==
    ASSUME NEW m
    PROVE  Framed(<<>>) /\ Framed(<<LenOf(m)>>) /\ Framed(<<LenOf(m), BodyOf(m)>>)
  <1>1. /\ LenOf(m).part = "len" /\ LenOf(m).msg = m
        /\ BodyOf(m).part = "body" /\ BodyOf(m).msg = m
    BY DEF LenOf, BodyOf
  <1> HIDE DEF LenOf, BodyOf
  <1>2. Framed(<<>>)
    BY DEF Framed
  <1>3. Framed(<<LenOf(m)>>)
    BY <1>1 DEF Framed
  <1>4. Framed(<<LenOf(m), BodyOf(m)>>)
    BY <1>1 DEF Framed
  <1> QED
    BY <1>2, <1>3, <1>4

LEMMA Joined ==
    ASSUME NEW x, NEW y
    PROVE  <<x>> \o <<>> = <<x>> /\ <<x>> \o <<y>> = <<x, y>>
  <1> DEFINE s == <<x>> \o <<y>>
             p == <<x, y>>
  <1>1. <<x>> \in Seq({x, y}) /\ <<y>> \in Seq({x, y})
    OBVIOUS
  <1>2. s \in Seq({x, y}) /\ Len(s) = 2 /\ s[1] = x /\ s[2] = y
    BY <1>1
  <1>3. p \in Seq({x, y}) /\ Len(p) = 2 /\ p[1] = x /\ p[2] = y
    OBVIOUS
  <1>4. <<x>> \o <<>> = <<x>>
    BY <1>1
  <1> HIDE DEF s, p
  <1>5. \A i \in 1..Len(s) : s[i] = p[i]
    BY <1>2, <1>3
  <1>6. s = p
    BY <1>2, <1>3, <1>5, SeqEqual
  <1> QED
    BY <1>4, <1>6 DEF s, p

LEMMA PhaseFrames == Phase => FramesWhole
  <1> SUFFICES ASSUME Phase, NEW d \in Sides
               PROVE  LET w == IF listener[Peer(d)] = "body"
                               THEN <<[part |-> "len", msg |-> heard[Peer(d)]]>> \o wire[d] ELSE wire[d]
                      IN  Framed(w)
    BY DEF FramesWhole, Framed
  <1> DEFINE l == listener[Peer(d)]
             h == heard[Peer(d)]
  <1>1. Empty(d) \/ \E m : HalfSent(d, m) \/ Sent(d, m)
    BY PhaseWires
  <1>2. CASE l # "body"
    BY <1>1, <1>2, OneMessageFramed DEF Empty, Nothing, HalfSent, HalfOf, Sent, AllOf
  <1>3. CASE l = "body"
    <2>1. wire[d] = <<>> \/ wire[d] = <<BodyOf(h)>>
      BY <1>1, <1>3 DEF Empty, Nothing, HalfSent, HalfOf, Sent, AllOf
    <2>2. /\ <<LenOf(h)>> \o <<>> = <<LenOf(h)>>
          /\ <<LenOf(h)>> \o <<BodyOf(h)>> = <<LenOf(h), BodyOf(h)>>
      BY Joined
    <2>3. Framed(<<LenOf(h)>> \o wire[d])
      BY <2>1, <2>2, OneMessageFramed
    <2> QED
      BY <2>3, <1>3 DEF LenOf
  <1> QED
    BY <1>2, <1>3

(* When the two sides take turns, the two writes of a message stay together *)
(* on the socket, although the caller writes without response_mutex and the *)
(* listener with it (asiotcpconnector.hpp:53, 89).                          *)
THEOREM MessagesWhole ==
    ASSUME TurnTaking
    PROVE  Spec => []FramesWhole
  <1>1. Conversation /\ [Next]_vars => Conversation'
    BY NextConversation
  <1>2. Conversation => FramesWhole
    BY PhaseFrames DEF Conversation
  <1> QED
    BY <1>1, <1>2, InitConversation, PTL DEF Spec

(* What is returned with has one item, the response to the call. *)
LEMMA ReturnedItems ==
    ASSUME Returned, NEW c \in DOMAIN calls, c \in 1..MaxCalls, answer[c] # None
    PROVE  \E out \in Outcomes :
              /\ answer[c].batch = (calls[c].kind = "batch")
              /\ answer[c].items = <<Response(c, out)>>
              /\ Matches(calls[c], out)
  <1>1. ReplyTo(c, calls[c], answer[c])
    BY DEF Returned
  <1>2. PICK out \in Outcomes :
           /\ answer[c] = Message(calls[c].kind = "batch", <<Response(c, out)>>)
           /\ Matches(calls[c], out)
    BY <1>1 DEF ReplyTo
  <1>3. answer[c].batch = (calls[c].kind = "batch") /\ answer[c].items = <<Response(c, out)>>
    BY <1>2 DEF Message
  <1> QED
    BY <1>2, <1>3

LEMMA ConversationResponses == Conversation => OwnResponse
  <1> SUFFICES ASSUME Conversation, NEW c \in DOMAIN calls, answer[c] # None
               PROVE  /\ answer[c].items # <<>>
                      /\ \A k \in DOMAIN answer[c].items :
                            answer[c].items[k].id = c /\ answer[c].items[k].out # None
    BY DEF OwnResponse
  <1>1. c \in 1..MaxCalls
    BY ConstantsAssumption DEF Conversation, Types, TypeOK
  <1>2. PICK out \in Outcomes : answer[c].items = <<Response(c, out)>>
    BY <1>1, ReturnedItems DEF Conversation
  <1>3. Response(c, out).id = c /\ Response(c, out).out = out /\ out # None
    BY NoneAssumption DEF Response, Item
  <1> QED
    BY <1>2, <1>3

(* When the two sides take turns, a call returns with the response to it:   *)
(* the flag waiting_response then does tell what arrives apart              *)
(* (json-rpc-cxx/Readme.md:9).                                              *)
THEOREM ResponseToCall ==
    ASSUME TurnTaking
    PROVE  Spec => []OwnResponse
  <1>1. Conversation /\ [Next]_vars => Conversation'
    BY NextConversation
  <1> QED
    BY <1>1, InitConversation, ConversationResponses, PTL DEF Spec

(* The outcome that a call makes of the one response. *)
LEMMA OutcomeOf ==
    ASSUME NEW c \in DOMAIN calls, NEW out \in Outcomes, c \in 1..MaxCalls,
           answer[c].batch = (calls[c].kind = "batch"),
           answer[c].items = <<Response(c, out)>>
    PROVE  Outcome(c) = out
  <1> DEFINE m == answer[c]
             i == Response(c, out)
  <1>0. out # None /\ i # None
    BY NoneAssumption
  <1>1. i.id = c /\ i.out = out
    BY DEF Response, Item
  <1> HIDE DEF i
  <1>2. DOMAIN m.items = {1} /\ m.items[1] = i
    BY DEF i
  <1>3. m # Garbage /\ m # Scalar
    BY <1>0, <1>2 DEF Garbage, Scalar
  <1>4. CASE calls[c].kind = "batch"
    <2> DEFINE found == {k \in DOMAIN m.items : m.items[k].id = c /\ m.items[k].out # None}
               results == {k \in found : m.items[k].out.error = "none"}
    <2>1. found = {1}
      BY <1>0, <1>1, <1>2
    <2>2. Last(found) = 1 /\ (results # {} => results = found)
      BY <2>1 DEF Last
    <2>3. m.batch
      BY <1>4
    <2>4. Get(m, c) = m.items[Last(IF results # {} THEN results ELSE found)].out
      BY <2>1, <2>3, Zenon DEF Get
    <2>5. Get(m, c) = out
      BY <1>1, <1>2, <2>2, <2>4, ZenonT(30)
    <2> QED
      BY <2>5, <1>4 DEF Outcome
  <1>5. CASE calls[c].kind # "batch"
    <2>1. ~m.batch
      BY <1>5
    <2>2. call_method(m) = out
      BY <1>0, <1>1, <1>2, <1>3, <2>1 DEF call_method
    <2> QED
      BY <2>2, <1>5 DEF Outcome
  <1> QED
    BY <1>4, <1>5

LEMMA ConversationArguments == Conversation => ArgumentsKept
  <1> SUFFICES ASSUME Conversation, NEW c \in DOMAIN calls, answer[c] # None
               PROVE  LET k == calls[c]
                          T == ParamType[k.name]
                          o == Outcome(c)
                      IN  /\ o.error = "none" => (o.result = k.arg <=> ~Damaged(T, k.arg))
                          /\ k.params = "array" /\ Fits(T, k.arg) => o.error # "invalid_params"
    BY DEF ArgumentsKept
  <1> DEFINE k == calls[c]
             T == ParamType[k.name]
  <1>1. c \in 1..MaxCalls /\ k \in Requests
    BY ConstantsAssumption DEF Conversation, Types, TypeOK
  <1>2. PICK out \in Outcomes :
           /\ answer[c].batch = (calls[c].kind = "batch")
           /\ answer[c].items = <<Response(c, out)>>
           /\ Matches(calls[c], out)
    BY <1>1, ReturnedItems DEF Conversation
  <1>3. Outcome(c) = out
    BY <1>1, <1>2, OutcomeOf
  <1>4. k.arg \in Int /\ T \in ParamTypes
    BY <1>1, ConstantsAssumption
  <1> HIDE DEF k, T
  <1>5. /\ out.error = "none" => /\ Accepts(k.name, k.params, k.arg)
                                 /\ out.result = Converted(T, k.arg)
        /\ out.error = "invalid_params" => ~Accepts(k.name, k.params, k.arg)
    BY <1>2 DEF Matches, k, T
  <1>6. /\ Accepts(k.name, k.params, k.arg) => check_param_type(T, k.arg)
        /\ k.params = "array" /\ check_param_type(T, k.arg) => Accepts(k.name, k.params, k.arg)
    BY DEF Accepts, T
  <1>7. out.error = "none" => (out.result = k.arg <=> ~Damaged(T, k.arg))
    BY <1>4, <1>5, <1>6, ConvertedKept
  <1>8. k.params = "array" /\ Fits(T, k.arg) => out.error # "invalid_params"
    BY <1>4, <1>5, <1>6, FittingAccepted
  <1> QED
    BY <1>3, <1>7, <1>8 DEF k, T

(* When the two sides take turns, an argument reaches the method unchanged, *)
(* or is refused, or is one of the Damaged ones, through check_param_type   *)
(* (typemapper.hpp:65), the dispatcher, the batch and the response, for     *)
(* every parameter type and every integer; and none that its parameter can  *)
(* hold is refused.                                                         *)
THEOREM ArgumentsReach ==
    ASSUME TurnTaking
    PROVE  Spec => []ArgumentsKept
  <1>1. Conversation /\ [Next]_vars => Conversation'
    BY NextConversation
  <1> QED
    BY <1>1, InitConversation, ConversationArguments, PTL DEF Spec
=============================================================================
