----------------------------- MODULE SignalAbs -----------------------------
(***************************************************************************)
(* What sigslot's signal_base promises its users                            *)
(* (src/cpp/sigslot/palacaze/include/sigslot/signal.hpp), without slot      *)
(* lists, indices, copy-on-write or iteration: a signal is a set of slots;  *)
(* an emission offers each slot of the set it found once, the groups in     *)
(* ascending order, and passes one over only if it is disconnected or       *)
(* blocked; a connection that is disconnected takes its slot, and no other, *)
(* out of the signal that made the slot.                                    *)
(***************************************************************************)
EXTENDS Integers

CONSTANTS Slots, Signals, Threads, None,
          Group,      \* Group[s]: the group id of a slot
          Callable,   \* Callable[s]: the callable it holds
          Main, Early, \* the slots connected to Main from the start
          Object      \* Object[s]: the object it is bound to, or None

VARIABLES
    members,    \* members[g]: the slots of signal g
    maker,      \* maker[s]: the signal whose connect made the slot
    connected,  \* the slots whose connection is not disconnected
    blocked,    \* the blocked slots
    muted,      \* the signals whose emission is blocked
    pending,    \* pending[t]: the slot thread t is disconnecting, or None
    todo,       \* todo[t]: the slots the emission of t has still to offer
    barred,     \* barred[t]: those that were disconnected when it began
    called      \* called[t]: the slots it has called

vars == <<members, maker, connected, blocked, muted, pending, todo, barred, called>>

Init ==
    /\ members = [g \in Signals |-> IF g = Main THEN Early ELSE {}]
    /\ maker = [s \in Slots |-> IF s \in Early THEN Main ELSE None]
    /\ connected = Early
    /\ blocked = {}
    /\ muted = {}
    /\ pending = [t \in Threads |-> None]
    /\ todo = [t \in Threads |-> {}]
    /\ barred = [t \in Threads |-> {}]
    /\ called = [t \in Threads |-> {}]

(* A slot lives as long as a signal, an emission or a disconnection refers  *)
(* to it.                                                                   *)
Lives(s) ==
    \/ \E g \in Signals : s \in members[g]
    \/ \E t \in Threads : s \in todo[t] \/ pending[t] = s

Connect(g, s) ==
    /\ ~Lives(s)
    /\ members' = [members EXCEPT ![g] = @ \cup {s}]
    /\ maker' = [maker EXCEPT ![s] = g]
    /\ connected' = connected \cup {s}
    /\ blocked' = blocked \ {s}
    /\ UNCHANGED <<muted, pending, todo, barred, called>>

Disconnect(t, s) ==
    /\ pending[t] = None
    /\ s \in connected
    /\ connected' = connected \ {s}
    /\ pending' = [pending EXCEPT ![t] = s]
    /\ UNCHANGED <<members, maker, blocked, muted, todo, barred, called>>

(* The slot, and no other, leaves the signal that made it. *)
Remove(t) ==
    /\ pending[t] # None
    /\ members' = [members EXCEPT ![maker[pending[t]]] = @ \ {pending[t]}]
    /\ pending' = [pending EXCEPT ![t] = None]
    /\ UNCHANGED <<maker, connected, blocked, muted, todo, barred, called>>

(* signal.disconnect(...) and disconnect_all take the slots out and leave   *)
(* their connections alone.                                                 *)
RemoveAll(g, S) ==
    /\ members' = [members EXCEPT ![g] = @ \ S]
    /\ UNCHANGED <<maker, connected, blocked, muted, pending, todo, barred, called>>

Bound(c, o) ==
    {s \in Slots : (c # None => Callable[s] = c) /\ (o # None => Object[s] = o)}

InGroup(i) == {s \in Slots : Group[s] = i}

DisconnectMatching(g) ==
    \/ \E c \in {Callable[s] : s \in Slots} \cup {None}, o \in {Object[s] : s \in Slots} \cup {None} :
          RemoveAll(g, Bound(c, o))
    \/ \E i \in {Group[s] : s \in Slots} : RemoveAll(g, InGroup(i))
    \/ RemoveAll(g, Slots)

SetBlocked ==
    /\ \E s \in Slots : blocked' \in {blocked \cup {s}, blocked \ {s}}
    /\ UNCHANGED <<members, maker, connected, muted, pending, todo, barred, called>>

SetMuted ==
    /\ \E g \in Signals : muted' \in {muted \cup {g}, muted \ {g}}
    /\ UNCHANGED <<members, maker, connected, blocked, pending, todo, barred, called>>

(* Move assignment exchanges the slots of two signals. *)
Exchange(g, h) ==
    /\ members' = [members EXCEPT ![g] = members[h], ![h] = members[g]]
    /\ muted' \in SUBSET Signals
    /\ \A k \in Signals \ {g, h} : k \in muted' <=> k \in muted
    /\ UNCHANGED <<maker, connected, blocked, pending, todo, barred, called>>

Emit(t, g) ==
    /\ todo[t] = {}
    /\ todo' = [todo EXCEPT ![t] = members[g]]
    /\ barred' = [barred EXCEPT ![t] = members[g] \ connected]
    /\ called' = [called EXCEPT ![t] = {}]
    /\ UNCHANGED <<members, maker, connected, blocked, muted, pending>>

(* s is in the lowest group the emission has not finished. *)
IsNext(t, s) == s \in todo[t] /\ \A r \in todo[t] : Group[s] <= Group[r]

Call(t, s) ==
    /\ IsNext(t, s)
    /\ s \notin called[t] \cup barred[t]
    /\ called' = [called EXCEPT ![t] = @ \cup {s}]
    /\ UNCHANGED <<members, maker, connected, blocked, muted, pending, todo, barred>>

PassOver(t, s) ==
    /\ IsNext(t, s)
    /\ s \in called[t] \cup blocked \/ s \notin connected
    /\ todo' = [todo EXCEPT ![t] = @ \ {s}]
    /\ UNCHANGED <<members, maker, connected, blocked, muted, pending, barred, called>>

Done(t) ==
    /\ todo[t] = {}
    /\ barred' = [barred EXCEPT ![t] = {}]
    /\ called' = [called EXCEPT ![t] = {}]
    /\ UNCHANGED <<members, maker, connected, blocked, muted, pending, todo>>

Next ==
    \/ \E g \in Signals, s \in Slots : Connect(g, s)
    \/ \E t \in Threads, s \in Slots : Disconnect(t, s) \/ Call(t, s) \/ PassOver(t, s)
    \/ \E t \in Threads : Remove(t) \/ Done(t)
    \/ \E g \in Signals : DisconnectMatching(g)
    \/ \E g, h \in Signals : Exchange(g, h)
    \/ \E t \in Threads, g \in Signals : Emit(t, g)
    \/ SetBlocked
    \/ SetMuted

Spec == Init /\ [][Next]_vars
=============================================================================
