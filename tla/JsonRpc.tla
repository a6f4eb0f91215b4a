------------------------------- MODULE JsonRpc -------------------------------
(***************************************************************************)
(* The JSON-RPC demo (src/cpp/jsonrpc/json-rpc-cxx): a client and a server  *)
(* that call each other over one socket.  On each side caller threads use a *)
(* JsonRpcClient, whose connector sends the request and waits; a listener   *)
(* thread reads the socket and takes a message for the awaited response if  *)
(* the flag waiting_response is set, else gives it to the JsonRpc2Server of *)
(* its side and writes the response.                                        *)
(*                                                                          *)
(* A message is an object or an array (batch) of items; a request and a     *)
(* response are both items: a request has a method, a response an outcome.  *)
(* Writing a message is two writes, its length and its body.                *)
(***************************************************************************)
EXTENDS Integers, Sequences, FiniteSets

CONSTANTS
    Threads, Side,      \* the caller threads and the side each is on
    None,
    Methods, Notifications,  \* names the program may register as either
    Reserved,           \* the names that start with "rpc."
    Named,              \* the names registered with a parameter mapping
    ParamType,          \* ParamType[n]: the type of the parameter of n
    Raising,            \* the methods that throw
    Requests,           \* the calls the program makes
    Listeners,          \* the names the client registers while connected
    IntMin, IntMax, UIntMax,  \* the ranges of the integer types
    Double, Float,      \* the double, and the float, nearest to an integer
    MaxCalls,           \* the number of calls
    TurnTaking          \* no side calls while a call of the other is under way

Sides == {"client", "server"}

Peer(d) == IF d = "client" THEN "server" ELSE "client"

ParamTypes == {"int", "unsigned", "double", "float"}

Args == {k.arg : k \in Requests}

ASSUME ConstantsAssumption ==
    /\ Side \in [Threads -> Sides]
    /\ \A k \in Requests : /\ k.kind \in {"method", "notification", "batch"}
                           /\ k.params \in {"none", "array", "object", "partial", "text"}
                           /\ ParamType[k.name] \in ParamTypes
                           /\ k.arg \in Int
    /\ MaxCalls \in Nat
    /\ TurnTaking \in BOOLEAN
    /\ IntMin \in Int /\ IntMax \in Nat /\ UIntMax \in Nat /\ IntMin < 0
    /\ Double \in [Args -> Int] /\ Float \in [Args -> Int]
    /\ Methods \cap Notifications = {}
    /\ None \notin Threads

VARIABLES
    methods, notifications,   \* Dispatcher: the names registered on each side
    accepted,                 \* the server has accepted the connection
    lost,                     \* the connection is broken
    wire,                     \* wire[d]: the writes of side d not yet read
    send_mutex,               \* the thread that holds it, or None
    response_mutex,           \* likewise, or "listener"
    waiting_response, has_response, last_response,
    pc, request,              \* of each caller thread
    listener, heard, reply,   \* of each listener: where, message, response
    calls,                    \* the calls made so far: see Send
    answer                    \* answer[c]: the message call c returned with

netVars == <<accepted, lost, wire>>
flagVars == <<waiting_response, has_response, last_response>>
callerVars == <<pc, request>>
listenerVars == <<listener, heard, reply>>
vars == <<methods, notifications, netVars, send_mutex, response_mutex, flagVars,
          callerVars, listenerVars, calls, answer>>

Init ==
    /\ methods = [d \in Sides |-> IF d = "server" THEN Methods \ Reserved ELSE {}]
    /\ notifications = [d \in Sides |-> IF d = "server" THEN Notifications \ Reserved ELSE {}]
    /\ accepted = FALSE
    /\ lost = FALSE
    /\ wire = [d \in Sides |-> <<>>]
    /\ send_mutex = [d \in Sides |-> None]
    /\ response_mutex = [d \in Sides |-> None]
    /\ waiting_response = [d \in Sides |-> FALSE]
    /\ has_response = [d \in Sides |-> FALSE]
    /\ last_response = [d \in Sides |-> None]
    /\ pc = [t \in Threads |-> "idle"]
    /\ request = [t \in Threads |-> None]
    /\ listener = [d \in Sides |-> IF d = "client" THEN "read" ELSE "off"]
    /\ heard = [d \in Sides |-> None]
    /\ reply = [d \in Sides |-> None]
    /\ calls = <<>>
    /\ answer = [c \in 1..MaxCalls |-> None]

-----------------------------------------------------------------------------
(* Items and the server: HandleSingleRequest *)

Item(id, name, params, arg, out) ==
    [id |-> id, method |-> name, params |-> params, arg |-> arg, out |-> out]

Error(code) == [result |-> None, error |-> code]

Result(v) == [result |-> v, error |-> "none"]

Response(id, out) == Item(id, None, "none", 0, out)

(* What a stream out of step reads as: no JSON, or a number, a string.      *)
Garbage == [batch |-> FALSE, items |-> <<>>]

Scalar == [batch |-> FALSE, items |-> <<None>>]

(* Mutant: the upper bound of an int is off by one. *)
M_check_param_type(T, v) ==
    CASE T = "unsigned" -> v >= 0
      [] T = "int" -> v >= 0 => v <= IntMax + 1
      [] OTHER -> Double[v] = v

(* check_param_type of an argument that is an integer.  A non-negative      *)
(* number is unsigned in JSON, a negative one an integer: an unsigned       *)
(* parameter refuses the negative ones, an int the ones above its range, a  *)
(* floating one those a double does not hold.  Nothing else is refused.     *)
check_param_type(T, v) ==
    CASE T = "unsigned" -> v >= 0
      [] T = "int" -> v >= 0 => v <= IntMax
      [] OTHER -> Double[v] = v

(* get<T> casts: the low bits, or the nearest floating number. *)
Converted(T, v) ==
    CASE T = "int" -> ((v - IntMin) % (IntMax - IntMin + 1)) + IntMin
      [] T = "unsigned" -> v % (UIntMax + 1)
      [] T = "double" -> Double[v]
      [] OTHER -> Float[v]

(* normalize_parameter, the number of arguments and their types; "text" is  *)
(* an argument of another JSON type.                                        *)
Accepts(name, params, arg) ==
    /\ params = "array" \/ (params = "object" /\ name \in Named)
    /\ check_param_type(ParamType[name], arg)

(* The handle: the outcome of calling a method of one parameter that        *)
(* returns it.                                                              *)
Invoke(name, params, arg) ==
    IF ~Accepts(name, params, arg) THEN Error("invalid_params")
    ELSE IF name \in Raising THEN Error("internal_error")
    ELSE Result(Converted(ParamType[name], arg))

InvokeMethod(d, i) ==
    IF i.method \notin methods[d] THEN Error("method_not_found")
    ELSE Invoke(i.method, i.params, i.arg)

(* ProcessSingleRequest, and HandleSingleRequest, which turns its errors    *)
(* into responses: an item that is no request is an invalid request, and    *)
(* there is no response to a notification, whatever becomes of it.          *)
IsNotification(i) == i.method # None /\ i.id = None

HandleSingleRequest(d, i) ==
    Response(i.id, IF i.method = None THEN Error("invalid_request") ELSE InvokeMethod(d, i))

(* The responses to the items that have one, in the order of the items. *)
Replies(d, items) ==
    LET asked == {k \in DOMAIN items : ~IsNotification(items[k])}
        nth(n) == CHOOSE k \in asked : Cardinality({j \in asked : j <= k}) = n
    IN  [n \in 1..Cardinality(asked) |-> HandleSingleRequest(d, items[nth(n)])]

Message(batch, items) == [batch |-> batch, items |-> items]

(* None is the empty string, which is not sent; the array of responses to a *)
(* batch is sent even if it is empty.                                       *)
HandleRequest(d, m) ==
    IF m = Garbage THEN Message(FALSE, <<Response(None, Error("parse_error"))>>)
    ELSE IF m = Scalar THEN Message(FALSE, <<Response(None, Error("invalid_request"))>>)
    ELSE IF ~m.batch /\ Replies(d, m.items) = <<>> THEN None
    ELSE Message(m.batch, Replies(d, m.items))

(* None is no name, no id, no item, no outcome and no message. *)
ErrorCodes == {"parse_error", "invalid_request", "method_not_found", "invalid_params",
               "internal_error"}

Results == {Converted(ParamType[k.name], k.arg) : k \in Requests}

Outcomes == [result : Results \cup {None}, error : ErrorCodes \cup {"none"}]

ASSUME NoneAssumption ==
    /\ \A k \in Requests : k.name # None
    /\ None \notin 1..MaxCalls
    /\ None \notin Outcomes
    /\ \A b \in BOOLEAN, c \in 1..MaxCalls, out \in Outcomes :
          None # Response(c, out) /\ None # Message(b, <<Response(c, out)>>)
    /\ \A c \in (1..MaxCalls) \cup {None}, k \in Requests :
          None # Item(c, k.name, k.params, k.arg, None)

-----------------------------------------------------------------------------
(* The client *)

(* call_method, call_notification, and a BatchRequest of a call and a       *)
(* notification; the id of call c is c.                                     *)
Request(c, k) ==
    LET call == Item(c, k.name, k.params, k.arg, None)
        note == Item(None, k.name, k.params, k.arg, None)
    IN  CASE k.kind = "method" -> Message(FALSE, <<call>>)
          [] k.kind = "notification" -> Message(FALSE, <<note>>)
          [] OTHER -> Message(TRUE, <<note, call>>)

(* What call_method makes of the message it gets: it does not compare the   *)
(* id.                                                                      *)
call_method(m) ==
    IF m = Garbage THEN Error("parse_error")
    ELSE IF m = Scalar \/ m.batch \/ m.items[1].out = None THEN Error("internal_error")
    ELSE m.items[1].out

(* BatchCall, then BatchResponse::Get of the id: the last result with that  *)
(* id, else the last error.                                                 *)
Last(S) == CHOOSE k \in S : \A n \in S : n <= k

Get(m, id) ==
    LET found == {k \in DOMAIN m.items : m.items[k].id = id /\ m.items[k].out # None}
        results == {k \in found : m.items[k].out.error = "none"}
    IN  IF ~m.batch \/ found = {} THEN Error("parse_error")
        ELSE m.items[Last(IF results # {} THEN results ELSE found)].out

Outcome(c) ==
    IF calls[c].kind = "batch" THEN Get(answer[c], c) ELSE call_method(answer[c])

-----------------------------------------------------------------------------
(* Registering methods *)

(* JsonRpcServer::Add, Dispatcher::Add: refused if the name is reserved or  *)
(* taken.  The server of the demo has registered its names before it        *)
(* listens.                                                                 *)
contains(d, n) == n \in methods[d] \cup notifications[d]

Add(d, n) ==
    /\ n \notin Reserved
    /\ ~contains(d, n)
    /\ \/ /\ n \in Methods
          /\ methods' = [methods EXCEPT ![d] = @ \cup {n}]
          /\ UNCHANGED notifications
       \/ /\ n \in Notifications
          /\ notifications' = [notifications EXCEPT ![d] = @ \cup {n}]
          /\ UNCHANGED methods
    /\ UNCHANGED <<netVars, send_mutex, response_mutex, flagVars, callerVars, listenerVars,
                   calls, answer>>

-----------------------------------------------------------------------------
(* Connectors *)

(* AcceptLoop: latest_socket and the listener thread of the server.  The    *)
(* demo has one client, so one connection is accepted.                      *)
Accept ==
    /\ ~accepted
    /\ accepted' = TRUE
    /\ listener' = [listener EXCEPT !["server"] = "read"]
    /\ UNCHANGED <<methods, notifications, lost, wire, send_mutex, response_mutex, flagVars,
                   callerVars, heard, reply, calls, answer>>

(* The socket breaks or is closed. *)
Lose ==
    /\ ~lost
    /\ lost' = TRUE
    /\ UNCHANGED <<methods, notifications, accepted, wire, send_mutex, response_mutex, flagVars,
                   callerVars, listenerVars, calls, answer>>

Write(d, part, m) == wire' = [wire EXCEPT ![d] = Append(@, [part |-> part, msg |-> m])]

(* A caller starts a call.  Without a connection the server's Send throws.  *)
Call(t, k) ==
    LET c == Len(calls) + 1 IN
    /\ pc[t] = "idle"
    /\ Len(calls) < MaxCalls
    /\ TurnTaking => \A u \in Threads : Side[u] # Side[t] => pc[u] = "idle"
    /\ Side[t] = "server" => accepted
    /\ calls' = Append(calls, k)
    /\ request' = [request EXCEPT ![t] = [id |-> c, msg |-> Request(c, k)]]
    /\ pc' = [pc EXCEPT ![t] = "send"]
    /\ UNCHANGED <<methods, notifications, netVars, send_mutex, response_mutex, flagVars,
                   listenerVars, answer>>

(* Mutant: send_mutex is not taken. *)
M_LockSend(t) ==
    /\ pc[t] = "send"
    /\ send_mutex' = [send_mutex EXCEPT ![Side[t]] = t]
    /\ pc' = [pc EXCEPT ![t] = "arm"]
    /\ UNCHANGED <<methods, notifications, netVars, response_mutex, flagVars, request,
                   listenerVars, calls, answer>>

(* Send: send_mutex, then the flags under response_mutex. *)
LockSend(t) ==
    /\ pc[t] = "send"
    /\ send_mutex[Side[t]] = None
    /\ send_mutex' = [send_mutex EXCEPT ![Side[t]] = t]
    /\ pc' = [pc EXCEPT ![t] = "arm"]
    /\ UNCHANGED <<methods, notifications, netVars, response_mutex, flagVars, request,
                   listenerVars, calls, answer>>

(* Mutant: has_response is not reset. *)
M_ArmStale(t) ==
    LET d == Side[t] IN
    /\ pc[t] = "arm"
    /\ response_mutex[d] = None
    /\ waiting_response' = [waiting_response EXCEPT ![d] = TRUE]
    /\ UNCHANGED has_response
    /\ pc' = [pc EXCEPT ![t] = "len"]
    /\ UNCHANGED <<methods, notifications, netVars, send_mutex, response_mutex, last_response,
                   request, listenerVars, calls, answer>>


(* Mutant: the lock outlives its block. *)
M_ArmLocked(t) ==
    LET d == Side[t] IN
    /\ pc[t] = "arm"
    /\ response_mutex[d] = None
    /\ waiting_response' = [waiting_response EXCEPT ![d] = TRUE]
    /\ has_response' = [has_response EXCEPT ![d] = FALSE]
    /\ response_mutex' = [response_mutex EXCEPT ![d] = t]
    /\ pc' = [pc EXCEPT ![t] = "len"]
    /\ UNCHANGED <<methods, notifications, netVars, send_mutex, last_response,
                   request, listenerVars, calls, answer>>


Arm(t) ==
    LET d == Side[t] IN
    /\ pc[t] = "arm"
    /\ response_mutex[d] = None
    /\ waiting_response' = [waiting_response EXCEPT ![d] = TRUE]
    /\ has_response' = [has_response EXCEPT ![d] = FALSE]
    /\ pc' = [pc EXCEPT ![t] = "len"]
    /\ UNCHANGED <<methods, notifications, netVars, send_mutex, response_mutex, last_response,
                   request, listenerVars, calls, answer>>

(* The two writes; on a broken connection asio::write throws and Send is    *)
(* left with waiting_response set.                                          *)
WriteRequest(t) ==
    LET d == Side[t] IN
    /\ pc[t] \in {"len", "body"}
    /\ \/ /\ ~lost
          /\ Write(d, pc[t], request[t].msg)
          /\ pc' = [pc EXCEPT ![t] = IF pc[t] = "len" THEN "body" ELSE "wait"]
          /\ UNCHANGED <<send_mutex, request>>
       \/ /\ lost
          /\ pc' = [pc EXCEPT ![t] = "idle"]
          /\ send_mutex' = [send_mutex EXCEPT ![d] = None]
          /\ request' = [request EXCEPT ![t] = None]
          /\ UNCHANGED wire
    /\ UNCHANGED <<methods, notifications, accepted, lost, response_mutex, flagVars, listenerVars,
                   calls, answer>>

(* response_cv.wait, and the result of Send. *)
Return(t) ==
    LET d == Side[t] IN
    /\ pc[t] = "wait"
    /\ has_response[d]
    /\ response_mutex[d] = None
    /\ answer' = [answer EXCEPT ![request[t].id] = last_response[d]]
    /\ send_mutex' = [send_mutex EXCEPT ![d] = None]
    /\ pc' = [pc EXCEPT ![t] = "idle"]
    /\ request' = [request EXCEPT ![t] = None]
    /\ UNCHANGED <<methods, notifications, netVars, response_mutex, flagVars, listenerVars, calls>>

(* The listener of side d reads the length and the body of a message. *)
Read(d) ==
    LET w == wire[Peer(d)] IN
    /\ listener[d] \in {"read", "body"}
    /\ \/ /\ w # <<>>
          /\ wire' = [wire EXCEPT ![Peer(d)] = Tail(@)]
          /\ \E g \in {Garbage, Scalar} :
                IF listener[d] = "read"
                THEN /\ heard' = [heard EXCEPT ![d] = IF Head(w).part = "len" THEN Head(w).msg ELSE g]
                     /\ listener' = [listener EXCEPT ![d] = "body"]
                ELSE /\ heard' = [heard EXCEPT ![d] = IF Head(w) = [part |-> "body", msg |-> @] THEN @
                                                      ELSE g]
                     /\ listener' = [listener EXCEPT ![d] = "heard"]
       \/ /\ w = <<>>
          /\ lost
          /\ listener' = [listener EXCEPT ![d] = "off"]
          /\ UNCHANGED <<wire, heard>>
    /\ UNCHANGED <<methods, notifications, accepted, lost, send_mutex, response_mutex, flagVars,
                   callerVars, reply, calls, answer>>

(* Mutant: the response is stored and not reported. *)
M_TakeResponse(d) ==
    /\ listener[d] = "heard"
    /\ response_mutex[d] = None
    /\ waiting_response[d]
    /\ last_response' = [last_response EXCEPT ![d] = heard[d]]
    /\ UNCHANGED has_response
    /\ waiting_response' = [waiting_response EXCEPT ![d] = FALSE]
    /\ heard' = [heard EXCEPT ![d] = None]
    /\ listener' = [listener EXCEPT ![d] = "read"]
    /\ UNCHANGED <<methods, notifications, netVars, send_mutex, response_mutex, callerVars, reply,
                   calls, answer>>

(* Under response_mutex: the awaited response, or a request of the peer.    *)
TakeResponse(d) ==
    /\ listener[d] = "heard"
    /\ response_mutex[d] = None
    /\ waiting_response[d]
    /\ last_response' = [last_response EXCEPT ![d] = heard[d]]
    /\ has_response' = [has_response EXCEPT ![d] = TRUE]
    /\ waiting_response' = [waiting_response EXCEPT ![d] = FALSE]
    /\ heard' = [heard EXCEPT ![d] = None]
    /\ listener' = [listener EXCEPT ![d] = "read"]
    /\ UNCHANGED <<methods, notifications, netVars, send_mutex, response_mutex, callerVars, reply,
                   calls, answer>>

Handle(d) ==
    LET r == HandleRequest(d, heard[d]) IN
    /\ listener[d] = "heard"
    /\ response_mutex[d] = None
    /\ ~waiting_response[d]
    /\ heard' = [heard EXCEPT ![d] = None]
    /\ reply' = [reply EXCEPT ![d] = r]
    /\ response_mutex' = IF r = None THEN response_mutex ELSE [response_mutex EXCEPT ![d] = "listener"]
    /\ listener' = [listener EXCEPT ![d] = IF r = None THEN "read" ELSE "len"]
    /\ UNCHANGED <<methods, notifications, netVars, send_mutex, flagVars, callerVars, calls, answer>>

WriteReply(d) ==
    /\ listener[d] \in {"len", "body2"}
    /\ \/ /\ ~lost
          /\ Write(d, IF listener[d] = "len" THEN "len" ELSE "body", reply[d])
          /\ listener' = [listener EXCEPT ![d] = IF @ = "len" THEN "body2" ELSE "read"]
       \/ /\ lost
          /\ listener' = [listener EXCEPT ![d] = "off"]
          /\ UNCHANGED wire
    /\ LET done == listener'[d] \in {"read", "off"} IN
       /\ reply' = IF done THEN [reply EXCEPT ![d] = None] ELSE reply
       /\ response_mutex' = IF done THEN [response_mutex EXCEPT ![d] = None] ELSE response_mutex
    /\ UNCHANGED <<methods, notifications, accepted, lost, send_mutex, flagVars, callerVars, heard,
                   calls, answer>>

-----------------------------------------------------------------------------
Caller(t) == LockSend(t) \/ Arm(t) \/ WriteRequest(t) \/ Return(t)

Listener(d) == Read(d) \/ TakeResponse(d) \/ Handle(d) \/ WriteReply(d)

Next ==
    \/ \E n \in Listeners : Add("client", n)
    \/ Accept
    \/ Lose
    \/ \E t \in Threads, k \in Requests : Call(t, k)
    \/ \E t \in Threads : Caller(t)
    \/ \E d \in Sides : Listener(d)

(* The threads run; the accept loop accepts. *)
Fairness ==
    /\ WF_vars(Accept)
    /\ \A t \in Threads : WF_vars(Caller(t))
    /\ \A d \in Sides : WF_vars(Listener(d))

Spec == Init /\ [][Next]_vars /\ Fairness

-----------------------------------------------------------------------------
(* Properties *)

(* Every variable has its type; a mutex is held by a thread of its side or  *)
(* by the listener (asiotcpconnector.hpp:100-111, 239-245).                  *)
TypeOK ==
    /\ methods \in [Sides -> SUBSET Methods]
    /\ notifications \in [Sides -> SUBSET Notifications]
    /\ accepted \in BOOLEAN /\ lost \in BOOLEAN
    /\ \A d \in Sides : \A k \in DOMAIN wire[d] : wire[d][k].part \in {"len", "body"}
    /\ \A d \in Sides : send_mutex[d] = None \/ Side[send_mutex[d]] = d
    /\ response_mutex \in [Sides -> {None, "listener"}]
    /\ waiting_response \in [Sides -> BOOLEAN] /\ has_response \in [Sides -> BOOLEAN]
    /\ pc \in [Threads -> {"idle", "send", "arm", "len", "body", "wait"}]
    /\ listener \in [Sides -> {"off", "read", "body", "heard", "len", "body2"}]
    /\ calls \in Seq(Requests) /\ Len(calls) <= MaxCalls
    /\ DOMAIN answer = 1..MaxCalls

(* "Both ends can initiate calls" over one socket, with waiting_response to *)
(* tell what arrives apart (json-rpc-cxx/Readme.md:9): a call returns with  *)
(* the response to it.                                                      *)
OwnResponse ==
    \A c \in DOMAIN calls :
        answer[c] # None /\ calls[c].kind # "notification"
            => /\ answer[c].items # <<>>
               /\ \A k \in DOMAIN answer[c].items :
                     answer[c].items[k].id = c /\ answer[c].items[k].out # None

(* The length and the body of a message are two writes, of a caller without *)
(* response_mutex and of the listener with it (asiotcpconnector.hpp:53, 89):*)
(* no other write comes between them.                                       *)
FramesWhole ==
    \A d \in Sides :
        LET w == IF listener[Peer(d)] = "body"
                 THEN <<[part |-> "len", msg |-> heard[Peer(d)]]>> \o wire[d] ELSE wire[d]
        IN  \A k \in DOMAIN w : /\ w[k].part = (IF k % 2 = 1 THEN "len" ELSE "body")
                                /\ k % 2 = 0 => w[k].msg = w[k - 1].msg

(* The arguments that check_param_type lets through and get<T> then         *)
(* changes: line 79 does not look at the size of a negative number for an   *)
(* int, nor of any for an unsigned, and line 76 tries a float as a double.  *)
Damaged(T, v) ==
    \/ T = "int" /\ v < IntMin
    \/ T = "unsigned" /\ v > UIntMax
    \/ T = "float" /\ Double[v] = v /\ Float[v] # v

(* What the type of a parameter holds. *)
Fits(T, v) ==
    CASE T = "int" -> v \in IntMin..IntMax
      [] T = "unsigned" -> v \in 0..UIntMax
      [] T = "double" -> Double[v] = v
      [] OTHER -> Double[v] = v /\ Float[v] = v

(* Through check_param_type (typemapper.hpp:65), the dispatcher, the batch  *)
(* and the response: a call that returns a result returns the value the     *)
(* caller gave exactly when the argument is not one of the Damaged ones,    *)
(* and an argument its parameter can hold is not refused.                   *)
ArgumentsKept ==
    \A c \in DOMAIN calls :
        answer[c] # None /\ calls[c].kind # "notification"
            => LET k == calls[c]
                   T == ParamType[k.name]
                   o == Outcome(c)
               IN  /\ o.error = "none" => (o.result = k.arg <=> ~Damaged(T, k.arg))
                   /\ k.params = "array" /\ Fits(T, k.arg) => o.error # "invalid_params"

(* Send waits without a time limit (asiotcpconnector.hpp:93): a call        *)
(* returns unless the connection breaks or some caller sends a notification,*)
(* which nobody answers.                                                    *)
CallsReturn ==
    \A t \in Threads :
        pc[t] # "idle" ~> \/ pc[t] = "idle"
                          \/ lost
                          \/ \E c \in DOMAIN calls : calls[c].kind = "notification"
=============================================================================
