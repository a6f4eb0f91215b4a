------------------------------- MODULE Signal -------------------------------
(***************************************************************************)
(* The signal and slot library                                              *)
(* src/cpp/sigslot/palacaze/include/sigslot/signal.hpp: signals emitted,    *)
(* connected, disconnected, blocked and moved by several threads.           *)
(*                                                                          *)
(* A signal refers to a payload (copy_on_write) that holds its slots, in    *)
(* groups of ascending id.  An emission takes a reference to the payload    *)
(* under the mutex of the signal and walks through it without; a writer     *)
(* copies a payload that somebody else refers to.  Each slot remembers its  *)
(* position in its group, from which it is removed in constant time.        *)
(* Every step below is one access to an atomic variable or one critical     *)
(* section; only the loop of disconnect_if holds the mutex over several     *)
(* steps.                                                                   *)
(***************************************************************************)
EXTENDS Integers, Sequences, FiniteSets

CONSTANTS
    Slots,      \* the slot objects that can exist at a time
    Signals, Threads, None,
    Payloads,   \* the payloads that can exist at a time
    Group,      \* Group[s]: slot_state::m_group
    Kind,       \* Kind[s]: "plain", "extended", "observer" or "tracked"
    Callable, Object,
    Main, Opening, FirstIndex,  \* the signal that has slots from the start,
                                \* its list and the index of each slot
    MaxOperations   \* the number of operations the program starts

Kinds == {"plain", "extended", "observer", "tracked"}

Callables == {Callable[s] : s \in Slots}

Objects == {Object[s] : s \in Slots} \ {None}

Observers == {Object[s] : s \in {r \in Slots : Kind[r] = "observer"}}

ASSUME ConstantsAssumption ==
    /\ MaxOperations \in Nat
    /\ IsFiniteSet(Signals) /\ IsFiniteSet(Threads)
    /\ None \notin Slots \cup Signals \cup Threads \cup Payloads \cup Callables
    /\ Payloads \subseteq Nat
    /\ Group \in [Slots -> Int]
    /\ Kind \in [Slots -> Kinds]
    /\ \A s \in Slots : /\ Kind[s] \in {"observer", "tracked"} => Object[s] # None
                        /\ Kind[s] = "tracked" => Object[s] \notin Observers

Lists == Seq([gid : Int, slts : Seq(Slots)])

Elements(l) == UNION {{l[a].slts[b] : b \in DOMAIN l[a].slts} : a \in DOMAIN l}

Ascending(l) == \A a, c \in DOMAIN l : a < c => l[a].gid < l[c].gid

(* Each slot of l is in its group, at the index given (from 0). *)
Indexed(l, index) ==
    \A a \in DOMAIN l : \A b \in DOMAIN l[a].slts :
        Group[l[a].slts[b]] = l[a].gid /\ index[l[a].slts[b]] = b - 1

(* The payload each signal is constructed with. *)
Distinct(p) == \A g, h \in Signals : p[g] = p[h] => g = h

Initial == CHOOSE p \in [Signals -> Payloads] : Distinct(p)

(* When the threads start, the program has connected some slots to Main,    *)
(* none of them for an observer.                                            *)
ASSUME InitialAssumption ==
    /\ \E p \in [Signals -> Payloads] : Distinct(p)
    /\ Main \in Signals
    /\ Opening \in Lists
    /\ FirstIndex \in [Slots -> Nat]
    /\ Ascending(Opening)
    /\ Indexed(Opening, FirstIndex)
    /\ \A s \in Elements(Opening) : Kind[s] # "observer"

VARIABLES
    m_slots,      \* m_slots[g]: the payload signal g refers to
    count,        \* payload::count, 0 for memory that is not in use
    value,        \* payload::value, a sequence of groups [gid, slts]
    m_block,      \* the signals whose emission is blocked
    mutex,        \* mutex[g]: the thread that holds it over several steps
    m_index, m_connected, m_blocked,   \* the fields of slot_state
    cleaner,      \* cleaner[s]: the signal that made the slot
    owned,        \* the objects somebody outside the library keeps alive
    m_connections,\* m_connections[o]: the connections of an observer
    pc, back,     \* where each thread is, and where it returns to
    sig,          \* the signal a thread is emitting or sweeping
    ref, gi, si,  \* the payload an emission refers to and its position in it
    slot,         \* the slot a thread disconnects or registers
    fn, obj,      \* the arguments of disconnect_if; the object destroyed
    called, barred, moved,  \* history: see the properties
    left          \* the number of operations it may still start

sigVars == <<m_slots, count, value>>
slotVars == <<m_index, m_connected, m_blocked, cleaner>>
objVars == <<owned, m_connections>>
callVars == <<called, barred>>
vars == <<sigVars, m_block, mutex, slotVars, objVars, pc, back, sig, ref, gi, si,
          slot, fn, obj, callVars, moved, left>>

Labels == {"idle", "ref", "next", "blk", "call", "body", "invoke", "pass",
           "clean", "register", "dtor", "sweep"}

(* The labels at which a thread walks through a payload. *)
Walking == {"next", "blk", "call", "body", "invoke", "pass"}

Init ==
    /\ m_slots = Initial
    /\ count = [q \in Payloads |-> IF \E g \in Signals : Initial[g] = q THEN 1 ELSE 0]
    /\ value = [q \in Payloads |-> IF q = Initial[Main] THEN Opening ELSE <<>>]
    /\ m_block = {}
    /\ mutex = [g \in Signals |-> None]
    /\ m_index = FirstIndex
    /\ m_connected = Elements(Opening)
    /\ m_blocked = {}
    /\ cleaner = [s \in Slots |-> IF s \in Elements(Opening) THEN Main ELSE None]
    /\ owned = Objects
    /\ m_connections = [o \in Observers |-> {}]
    /\ pc = [t \in Threads |-> "idle"]
    /\ back = [t \in Threads |-> "idle"]
    /\ sig = [t \in Threads |-> None]
    /\ ref = [t \in Threads |-> None]
    /\ gi = [t \in Threads |-> 1]
    /\ si = [t \in Threads |-> 1]
    /\ slot = [t \in Threads |-> None]
    /\ fn = [t \in Threads |-> None]
    /\ obj = [t \in Threads |-> None]
    /\ called = [t \in Threads |-> {}]
    /\ barred = [t \in Threads |-> {}]
    /\ moved = {}
    /\ left = MaxOperations

(* The program starts one more operation. *)
Start == left > 0 /\ left' = left - 1

-----------------------------------------------------------------------------
(* Slot lists *)

list(g) == value[m_slots[g]]

(* A shared_ptr to the slot exists: in a payload or in a disconnection.     *)
Alive(s) ==
    \/ \E p \in Payloads : count[p] > 0 /\ s \in Elements(value[p])
    \/ \E t \in Threads : pc[t] = "clean" /\ slot[t] = s

Emitting(t) == ref[t] # None

(* Mutant: the reference of the one who asks is not counted. *)
M_Unique(p) == count[p] <= 2

(* copy_on_write::write followed by the assignment of l to the list: in     *)
(* place if nobody else refers to the payload, else in one of its own.      *)
Unique(p) == count[p] = 1

cow_write(g, l) ==
    LET p == m_slots[g] IN
    IF Unique(p)
    THEN /\ value' = [value EXCEPT ![p] = l]
         /\ UNCHANGED <<m_slots, count>>
    ELSE \E q \in Payloads :
         /\ count[q] = 0
         /\ \A r \in Payloads : count[r] = 0 => q <= r
         /\ m_slots' = [m_slots EXCEPT ![g] = q]
         /\ count' = [count EXCEPT ![p] = @ - 1, ![q] = 1]
         /\ value' = [value EXCEPT ![q] = l]

(* Mutant: the count is not taken back. *)
M_Release(p) ==
    /\ value' = [value EXCEPT ![p] = IF Unique(p) THEN <<>> ELSE @]
    /\ UNCHANGED count

(* ~copy_on_write of the reference an emission holds. *)
Release(p) ==
    /\ count' = [count EXCEPT ![p] = @ - 1]
    /\ value' = [value EXCEPT ![p] = IF Unique(p) THEN <<>> ELSE @]

(* add_slot: where the group gid is, or belongs. *)
Spot(l, gid) ==
    CHOOSE a \in 1..(Len(l) + 1) :
        /\ a <= Len(l) => l[a].gid >= gid
        /\ \A b \in 1..(a - 1) : l[b].gid < gid

HasGroup(l, gid) == Spot(l, gid) <= Len(l) /\ l[Spot(l, gid)].gid = gid

WithGroup(l, gid) ==
    IF HasGroup(l, gid) THEN l
    ELSE [a \in 1..(Len(l) + 1) |->
            CASE a < Spot(l, gid) -> l[a]
              [] a = Spot(l, gid) -> [gid |-> gid, slts |-> <<>>]
              [] OTHER -> l[a - 1]]

Added(l, s) ==
    [WithGroup(l, Group[s]) EXCEPT ![Spot(l, Group[s])].slts = Append(@, s)]

NewIndex(l, s) == Len(WithGroup(l, Group[s])[Spot(l, Group[s])].slts)

(* Mutant: the slot is exchanged with the last one, which is not dropped. *)
M_SwapPop(slts, b) ==
    [slts EXCEPT ![b] = slts[Len(slts)], ![Len(slts)] = slts[b]]

(* std::swap(slts[i], slts.back()); pop_back(). *)
SwapPop(slts, b) ==
    [j \in 1..(Len(slts) - 1) |-> IF j = b THEN slts[Len(slts)] ELSE slts[j]]

(* clean and disconnect_if: the slot at b in group a is replaced by the     *)
(* last one of the group, whose index becomes b (counted from 0).           *)
Popped(l, a, b) == [l EXCEPT ![a].slts = SwapPop(@, b)]

(* Mutant: the index of the slot that is moved stays. *)
M_Reindexed(l, a, b) == m_index

Reindexed(l, a, b) == [m_index EXCEPT ![l[a].slts[Len(l[a].slts)]] = b - 1]

(* The slot an emission is at. *)
Cur(t) == value[ref[t]][gi[t]].slts[si[t]]

-----------------------------------------------------------------------------
(* Connecting *)

(* make_slot, the connection and add_slot; the object of the slot is one    *)
(* the caller has a valid pointer to.                                       *)
MakeSlot(g, s) ==
    /\ Start
    /\ ~Alive(s)
    /\ mutex[g] = None
    /\ Object[s] # None => Object[s] \in owned
    /\ \A t \in Threads : pc[t] = "dtor" \/ back[t] = "dtor" => obj[t] # Object[s]
    /\ cow_write(g, Added(list(g), s))
    /\ m_index' = [m_index EXCEPT ![s] = NewIndex(list(g), s)]
    /\ m_connected' = m_connected \cup {s}
    /\ m_blocked' = m_blocked \ {s}
    /\ cleaner' = [cleaner EXCEPT ![s] = g]
    /\ moved' = moved \ {s}

(* connect, connect_extended, connect_scoped *)
Connect(g, s) ==
    /\ Kind[s] # "observer"
    /\ MakeSlot(g, s)
    /\ UNCHANGED <<m_block, mutex, objVars, pc, back, sig, ref, gi, si, slot, fn, obj, callVars>>

(* connect for an observer, which registers the connection afterwards. *)
ConnectObserver(t, g, s) ==
    /\ pc[t] = "idle"
    /\ Kind[s] = "observer"
    /\ MakeSlot(g, s)
    /\ pc' = [pc EXCEPT ![t] = "register"]
    /\ slot' = [slot EXCEPT ![t] = s]
    /\ UNCHANGED <<m_block, mutex, objVars, back, sig, ref, gi, si, fn, obj, callVars>>

add_connection(t) ==
    /\ pc[t] = "register"
    /\ m_connections' = [m_connections EXCEPT ![Object[slot[t]]] = @ \cup {slot[t]}]
    /\ pc' = [pc EXCEPT ![t] = "idle"]
    /\ slot' = [slot EXCEPT ![t] = None]
    /\ UNCHANGED <<sigVars, m_block, mutex, slotVars, owned, back, sig, ref, gi, si,
                   fn, obj, callVars, moved, left>>

-----------------------------------------------------------------------------
(* Disconnecting *)

(* slot_state::disconnect: m_connected.exchange(false), then do_disconnect. *)
disconnect(t, s, return) ==
    /\ s \in m_connected
    /\ m_connected' = m_connected \ {s}
    /\ slot' = [slot EXCEPT ![t] = s]
    /\ back' = [back EXCEPT ![t] = return]
    /\ pc' = [pc EXCEPT ![t] = "clean"]

(* connection::disconnect, ~scoped_connection *)
ConnectionDisconnect(t, s) ==
    /\ Start
    /\ pc[t] = "idle"
    /\ Alive(s)
    /\ disconnect(t, s, "idle")
    /\ UNCHANGED <<sigVars, m_block, mutex, m_index, m_blocked, cleaner, objVars, sig, ref, gi, si,
                   fn, obj, callVars, moved>>

(* Mutant: the last slot of a group is taken to be out of range. *)
M_AtIndex(l, a, s) ==
    /\ l[a].gid = Group[s]
    /\ m_index[s] + 1 < Len(l[a].slts)
    /\ l[a].slts[m_index[s] + 1] = s

(* clean: the slot is taken out if it is where its index says. *)
AtIndex(l, a, s) ==
    /\ l[a].gid = Group[s]
    /\ m_index[s] < Len(l[a].slts)
    /\ l[a].slts[m_index[s] + 1] = s

clean(t) ==
    LET s == slot[t]
        g == cleaner[s]
        l == list(g)
    IN
    /\ pc[t] = "clean"
    /\ mutex[g] = None
    /\ \/ \E a \in DOMAIN l :
             /\ AtIndex(l, a, s)
             /\ cow_write(g, Popped(l, a, m_index[s] + 1))
             /\ m_index' = Reindexed(l, a, m_index[s] + 1)
       \/ /\ \A a \in DOMAIN l : ~AtIndex(l, a, s)
          /\ cow_write(g, l)
          /\ UNCHANGED m_index
    /\ pc' = [pc EXCEPT ![t] = back[t]]
    /\ back' = [back EXCEPT ![t] = "idle"]
    /\ slot' = [slot EXCEPT ![t] = None]
    /\ UNCHANGED <<m_block, mutex, m_connected, m_blocked, cleaner, objVars, sig, ref, gi, si, fn,
                   obj, callVars, moved, left>>

(* disconnect(callable), disconnect(object) and disconnect(callable, object)*)
(* remove what Matches under the mutex, slot by slot.                       *)
Matches(t, s) ==
    /\ fn[t] # None => Callable[s] = fn[t]
    /\ obj[t] # None => Object[s] = obj[t]

disconnect_if(t, g, c, o) ==
    /\ Start
    /\ pc[t] = "idle"
    /\ mutex[g] = None
    /\ c # None \/ o # None
    /\ o # None => o \in owned
    /\ cow_write(g, list(g))
    /\ mutex' = [mutex EXCEPT ![g] = t]
    /\ sig' = [sig EXCEPT ![t] = g]
    /\ fn' = [fn EXCEPT ![t] = c]
    /\ obj' = [obj EXCEPT ![t] = o]
    /\ gi' = [gi EXCEPT ![t] = 1]
    /\ si' = [si EXCEPT ![t] = 1]
    /\ pc' = [pc EXCEPT ![t] = "sweep"]
    /\ UNCHANGED <<m_block, slotVars, objVars, back, ref, slot, callVars, moved>>

Sweep(t) ==
    LET g == sig[t]
        l == list(g)
    IN
    /\ pc[t] = "sweep"
    /\ \/ /\ gi[t] > Len(l)
          /\ mutex' = [mutex EXCEPT ![g] = None]
          /\ pc' = [pc EXCEPT ![t] = "idle"]
          /\ sig' = [sig EXCEPT ![t] = None]
          /\ fn' = [fn EXCEPT ![t] = None]
          /\ obj' = [obj EXCEPT ![t] = None]
          /\ gi' = [gi EXCEPT ![t] = 1]
          /\ UNCHANGED <<value, m_index, si>>
       \/ /\ gi[t] <= Len(l)
          /\ si[t] > Len(l[gi[t]].slts)
          /\ gi' = [gi EXCEPT ![t] = @ + 1]
          /\ si' = [si EXCEPT ![t] = 1]
          /\ UNCHANGED <<value, m_index, mutex, pc, sig, fn, obj>>
       \/ /\ gi[t] <= Len(l)
          /\ si[t] <= Len(l[gi[t]].slts)
          /\ IF Matches(t, l[gi[t]].slts[si[t]])
             THEN /\ value' = [value EXCEPT ![m_slots[g]] = Popped(l, gi[t], si[t])]
                  /\ m_index' = Reindexed(l, gi[t], si[t])
                  /\ UNCHANGED si
             ELSE /\ si' = [si EXCEPT ![t] = @ + 1]
                  /\ UNCHANGED <<value, m_index>>
          /\ UNCHANGED <<gi, mutex, pc, sig, fn, obj>>
    /\ UNCHANGED <<m_slots, count, m_block, m_connected, m_blocked, cleaner, objVars, back, ref, slot,
                   callVars, moved, left>>

(* disconnect(gid): the group stays, empty. *)
DisconnectGroup(g, gid) ==
    /\ Start
    /\ mutex[g] = None
    /\ cow_write(g, [a \in DOMAIN list(g) |->
                        IF list(g)[a].gid = gid THEN [list(g)[a] EXCEPT !.slts = <<>>]
                        ELSE list(g)[a]])
    /\ UNCHANGED <<m_block, mutex, slotVars, objVars, pc, back, sig, ref, gi, si, slot, fn, obj,
                   callVars, moved>>

disconnect_all(g) ==
    /\ Start
    /\ mutex[g] = None
    /\ cow_write(g, <<>>)
    /\ UNCHANGED <<m_block, mutex, slotVars, objVars, pc, back, sig, ref, gi, si, slot, fn, obj,
                   callVars, moved>>

-----------------------------------------------------------------------------
(* Blocking and moving *)

(* connection::block and unblock; the constructor and release of a          *)
(* connection_blocker.                                                      *)
SetBlocked(s) ==
    /\ Start
    /\ Alive(s)
    /\ m_blocked' = IF s \in m_blocked THEN m_blocked \ {s} ELSE m_blocked \cup {s}
    /\ UNCHANGED <<sigVars, m_block, mutex, m_index, m_connected, cleaner, objVars, pc, back, sig, ref, gi,
                   si, slot, fn, obj, callVars, moved>>

(* signal_base::block and unblock *)
SetMuted(g) ==
    /\ Start
    /\ m_block' = IF g \in m_block THEN m_block \ {g} ELSE m_block \cup {g}
    /\ UNCHANGED <<sigVars, mutex, slotVars, objVars, pc, back, sig, ref, gi, si, slot, fn, obj,
                   callVars, moved>>

(* Move assignment: the lists and the flags are exchanged, the cleaners of  *)
(* the slots stay.  The move constructor copies the flag and exchanges the  *)
(* list with the empty one of a new signal, to which no thread refers.      *)
(* The two flags are read and written one after the other, under the locks  *)
(* of both signals: an emission looks at its flag before it takes a lock,   *)
(* so it cannot tell.  A block or unblock that falls between them can be    *)
(* lost; here it comes before the move or after it.  A signal is not moved  *)
(* to itself: std::lock would take one mutex twice.                         *)
Swapped(g, h) == [m_slots EXCEPT ![g] = m_slots[h], ![h] = m_slots[g]]

Flag(g, h) == IF h \in m_block THEN {g} ELSE {}

Fresh(g) ==
    /\ list(g) = <<>>
    /\ \A s \in Slots : Alive(s) => cleaner[s] # g
    /\ \A t \in Threads : sig[t] # g

Move(g, h) ==
    /\ Start
    /\ g # h
    /\ mutex[g] = None /\ mutex[h] = None
    /\ m_slots' = Swapped(g, h)
    /\ moved' = moved \cup Elements(list(g)) \cup Elements(list(h))
    /\ \/ m_block' = (m_block \ {g, h}) \cup Flag(g, h) \cup Flag(h, g)
       \/ Fresh(g) /\ m_block' = (m_block \ {g}) \cup Flag(g, h)
    /\ UNCHANGED <<count, value, mutex, slotVars, objVars, pc, back, sig, ref, gi, si, slot, fn,
                   obj, callVars>>

-----------------------------------------------------------------------------
(* Emission *)

(* operator(): a blocked signal returns at once. *)
Emit(t, g) ==
    /\ Start
    /\ pc[t] = "idle"
    /\ g \notin m_block
    /\ sig' = [sig EXCEPT ![t] = g]
    /\ pc' = [pc EXCEPT ![t] = "ref"]
    /\ UNCHANGED <<sigVars, m_block, mutex, slotVars, objVars, back, ref, gi, si, slot, fn, obj,
                   callVars, moved>>

slots_reference(t) ==
    LET g == sig[t] IN
    /\ pc[t] = "ref"
    /\ mutex[g] = None
    /\ ref' = [ref EXCEPT ![t] = m_slots[g]]
    /\ count' = [count EXCEPT ![m_slots[g]] = @ + 1]
    /\ barred' = [barred EXCEPT ![t] = Elements(list(g)) \ m_connected]
    /\ pc' = [pc EXCEPT ![t] = "next"]
    /\ UNCHANGED <<m_slots, value, m_block, mutex, slotVars, objVars, back, sig, gi, si, slot, fn,
                   obj, called, moved, left>>

emitUnchanged == <<m_slots, m_block, mutex, objVars, fn, obj, moved, left, m_index, m_blocked, cleaner>>

(* The two loops over the groups and their slots. *)
Advance(t) ==
    LET l == value[ref[t]] IN
    /\ pc[t] = "next"
    /\ \/ /\ gi[t] > Len(l)
          /\ Release(ref[t])
          /\ ref' = [ref EXCEPT ![t] = None]
          /\ sig' = [sig EXCEPT ![t] = None]
          /\ pc' = [pc EXCEPT ![t] = "idle"]
          /\ gi' = [gi EXCEPT ![t] = 1]
          /\ called' = [called EXCEPT ![t] = {}]
          /\ barred' = [barred EXCEPT ![t] = {}]
          /\ UNCHANGED si
       \/ /\ gi[t] <= Len(l)
          /\ si[t] > Len(l[gi[t]].slts)
          /\ gi' = [gi EXCEPT ![t] = @ + 1]
          /\ si' = [si EXCEPT ![t] = 1]
          /\ UNCHANGED <<count, value, ref, sig, pc, called, barred>>
    /\ UNCHANGED <<emitUnchanged, m_connected, back, slot>>

(* Mutant: connected() is not asked. *)
M_TestConnected(t) ==
    LET l == value[ref[t]] IN
    /\ pc[t] = "next"
    /\ gi[t] <= Len(l)
    /\ si[t] <= Len(l[gi[t]].slts)
    /\ pc' = [pc EXCEPT ![t] = "blk"]
    /\ UNCHANGED <<emitUnchanged, m_connected, count, value, back, sig, ref, gi, si, slot, callVars>>

(* slot_base::operator(): connected() ... *)
TestConnected(t) ==
    LET l == value[ref[t]] IN
    /\ pc[t] = "next"
    /\ gi[t] <= Len(l)
    /\ si[t] <= Len(l[gi[t]].slts)
    /\ IF Cur(t) \in m_connected
       THEN pc' = [pc EXCEPT ![t] = "blk"] /\ UNCHANGED si
       ELSE si' = [si EXCEPT ![t] = @ + 1] /\ UNCHANGED pc
    /\ UNCHANGED <<emitUnchanged, m_connected, count, value, back, sig, ref, gi, slot, callVars>>

(* ... && !blocked() *)
TestBlocked(t) ==
    /\ pc[t] = "blk"
    /\ IF Cur(t) \in m_blocked
       THEN /\ pc' = [pc EXCEPT ![t] = "next"]
            /\ si' = [si EXCEPT ![t] = @ + 1]
       ELSE pc' = [pc EXCEPT ![t] = "call"] /\ UNCHANGED si
    /\ UNCHANGED <<emitUnchanged, m_connected, count, value, back, sig, ref, gi, slot, callVars>>

(* A tracked object whose owners are gone and that no call keeps alive. *)
Held(o) ==
    \E t \in Threads : \/ pc[t] = "invoke" /\ Object[Cur(t)] = o
                       \/ pc[t] = "sweep" /\ obj[t] = o

Expired(o) == o \notin owned /\ ~Held(o)

(* slot::call_slot, slot_pmf::call_slot, and the start of the _extended     *)
(* and _tracked ones; an expired slot disconnects itself.                   *)
call_slot(t) ==
    LET s == Cur(t) IN
    /\ pc[t] = "call"
    /\ \/ /\ Kind[s] \in {"plain", "observer", "extended"}
          /\ called' = [called EXCEPT ![t] = @ \cup {s}]
          /\ pc' = [pc EXCEPT ![t] = IF Kind[s] = "extended" THEN "body" ELSE "pass"]
          /\ UNCHANGED <<m_connected, slot, back>>
       \/ /\ Kind[s] = "tracked"
          /\ ~Expired(Object[s])
          /\ pc' = [pc EXCEPT ![t] = "invoke"]
          /\ UNCHANGED <<m_connected, slot, back, called>>
       \/ /\ Kind[s] = "tracked"
          /\ Expired(Object[s])
          /\ \/ disconnect(t, s, "pass")
             \/ /\ s \notin m_connected
                /\ pc' = [pc EXCEPT ![t] = "pass"]
                /\ UNCHANGED <<m_connected, slot, back>>
          /\ UNCHANGED called
    /\ UNCHANGED <<emitUnchanged, count, value, sig, ref, gi, si, barred>>

(* The function of an extended slot may disconnect its own connection. *)
Body(t) ==
    /\ pc[t] = "body"
    /\ \/ disconnect(t, Cur(t), "pass")
       \/ /\ pc' = [pc EXCEPT ![t] = "pass"]
          /\ UNCHANGED <<m_connected, slot, back>>
    /\ UNCHANGED <<emitUnchanged, count, value, sig, ref, gi, si, callVars>>

(* slot_tracked::call_slot with the object locked. *)
CallTracked(t) ==
    /\ pc[t] = "invoke"
    /\ called' = IF Cur(t) \in m_connected
                 THEN [called EXCEPT ![t] = @ \cup {Cur(t)}] ELSE called
    /\ pc' = [pc EXCEPT ![t] = "pass"]
    /\ UNCHANGED <<emitUnchanged, m_connected, count, value, back, sig, ref, gi, si, slot, barred>>

Pass(t) ==
    /\ pc[t] = "pass"
    /\ si' = [si EXCEPT ![t] = @ + 1]
    /\ pc' = [pc EXCEPT ![t] = "next"]
    /\ UNCHANGED <<emitUnchanged, m_connected, count, value, back, sig, ref, gi, slot, callVars>>

-----------------------------------------------------------------------------
(* Objects *)

(* The last owner of a tracked object lets it go. *)
DropObject(o) ==
    /\ Start
    /\ o \in owned \ Observers
    /\ owned' = owned \ {o}
    /\ UNCHANGED <<sigVars, m_block, mutex, slotVars, m_connections, pc, back, sig, ref, gi, si,
                   slot, fn, obj, callVars, moved>>

(* The destructor of a class derived from observer, which calls             *)
(* observer_base::disconnect_all; nobody may be connecting to the object.   *)
DestroyObserver(t, o) ==
    /\ Start
    /\ pc[t] = "idle"
    /\ o \in owned \cap Observers
    /\ \A u \in Threads : /\ pc[u] = "register" => Object[slot[u]] # o
                          /\ obj[u] # o
    /\ pc' = [pc EXCEPT ![t] = "dtor"]
    /\ obj' = [obj EXCEPT ![t] = o]
    /\ UNCHANGED <<sigVars, m_block, mutex, slotVars, objVars, back, sig, ref, gi, si, slot, fn,
                   callVars, moved>>

(* m_connections.clear() destroys scoped_connections, each of which         *)
(* disconnects; then the object is gone.                                    *)
DropConnection(t) ==
    LET o == obj[t] IN
    /\ pc[t] = "dtor"
    /\ \/ \E s \in m_connections[o] :
             /\ m_connections' = [m_connections EXCEPT ![o] = @ \ {s}]
             /\ \/ Alive(s) /\ disconnect(t, s, "dtor")
                \/ /\ ~(Alive(s) /\ s \in m_connected)
                   /\ UNCHANGED <<m_connected, slot, back, pc>>
             /\ UNCHANGED <<owned, obj>>
       \/ /\ m_connections[o] = {}
          /\ owned' = owned \ {o}
          /\ obj' = [obj EXCEPT ![t] = None]
          /\ pc' = [pc EXCEPT ![t] = "idle"]
          /\ UNCHANGED <<m_connected, slot, back, m_connections>>
    /\ UNCHANGED <<sigVars, m_block, mutex, m_index, m_blocked, cleaner, sig, ref, gi, si, fn, callVars,
                   moved, left>>

-----------------------------------------------------------------------------
(* What a thread does next once it has started something. *)
Step(t) ==
    \/ add_connection(t) \/ clean(t) \/ Sweep(t)
    \/ slots_reference(t) \/ Advance(t) \/ TestConnected(t) \/ TestBlocked(t)
    \/ call_slot(t) \/ Body(t) \/ CallTracked(t) \/ Pass(t)
    \/ DropConnection(t)

Begin(t) ==
    \/ \E g \in Signals, s \in Slots : ConnectObserver(t, g, s)
    \/ \E s \in Slots : ConnectionDisconnect(t, s)
    \/ \E g \in Signals, c \in Callables \cup {None}, o \in Objects \cup {None} :
          disconnect_if(t, g, c, o)
    \/ \E g \in Signals : Emit(t, g)
    \/ \E o \in Observers : DestroyObserver(t, o)

Next ==
    \/ \E t \in Threads : Step(t) \/ Begin(t)
    \/ \E g \in Signals, s \in Slots : Connect(g, s)
    \/ \E g \in Signals, s \in Slots : DisconnectGroup(g, Group[s])
    \/ \E g \in Signals : disconnect_all(g) \/ SetMuted(g)
    \/ \E g, h \in Signals : Move(g, h)
    \/ \E s \in Slots : SetBlocked(s)
    \/ \E o \in Objects : DropObject(o)

(* Each thread that has started an operation runs on. *)
Fairness == \A t \in Threads : WF_vars(Step(t))

Spec == Init /\ [][Next]_vars /\ Fairness

-----------------------------------------------------------------------------
(* Properties *)

(* clean and disconnect_if find a slot by its index and keep the index of   *)
(* the slot they move (signal.hpp:1540-1622): in the list of every signal a *)
(* slot is where its index says, in its own group, and the groups ascend.   *)
IndexInv == \A g \in Signals : Ascending(list(g)) /\ Indexed(list(g), m_index)

(* copy_on_write (signal.hpp:406-487): a payload counts the signals and     *)
(* emissions that refer to it, and no two signals share one, so a writer    *)
(* that finds the count at one is alone.                                    *)
References(p) ==
    Cardinality({g \in Signals : m_slots[g] = p}) + Cardinality({t \in Threads : ref[t] = p})

CountInv == \A p \in Payloads : count[p] = References(p)

(* A slot that was disconnected through its connection is in the list of    *)
(* the signal that made it only until the disconnecting thread has cleaned  *)
(* it (signal.hpp:560, 1540), unless the list was moved to another signal,  *)
(* whose clean is not called (signal.hpp:1191).                             *)
DisconnectedRemoved ==
    \A g \in Signals : \A s \in Elements(list(g)) \ (m_connected \cup moved) :
        \E t \in Threads : pc[t] = "clean" /\ slot[t] = s

(* The destructor of an observer disconnects its slots first, "to avoid     *)
(* invocation of slots on a semi-destructed instance" (signal.hpp:753): a   *)
(* slot of an observer is called only while the observer exists.            *)
ObserverAlive ==
    \A t \in Threads :
        pc[t] = "call" /\ Kind[Cur(t)] = "observer" => Object[Cur(t)] \in owned

(* The list an emission walks through is its own: no writer changes it      *)
(* (signal.hpp:1220, "a copy may occur if another thread writes to it").    *)
SnapshotStable ==
    [][\A t \in Threads : Emitting(t) /\ ref'[t] = ref[t] => value'[ref[t]] = value[ref[t]]]_vars

(* An emission and a sweep reach the end of their list, whatever the other  *)
(* threads connect and disconnect meanwhile, unless they wait for a mutex.  *)
WalksEnd ==
    \A t \in Threads : pc[t] \in Walking \cup {"sweep"} ~> pc[t] \in {"idle", "clean"}

(* The refinement mapping: a signal has the slots of its list, less those   *)
(* the sweep in progress is going to remove; an emission has still to offer *)
(* the slots from its position on.                                          *)
Members(g) ==
    IF mutex[g] = None THEN Elements(list(g))
    ELSE {s \in Elements(list(g)) : ~Matches(mutex[g], s)}

Rest(l, i, j) ==
    UNION {{l[a].slts[b] : b \in {b \in DOMAIN l[a].slts : a > i \/ b >= j}} :
              a \in {a \in DOMAIN l : a >= i}}

Pending(t) == IF pc[t] = "clean" THEN slot[t] ELSE None

Todo(t) == IF Emitting(t) THEN Rest(value[ref[t]], gi[t], si[t]) ELSE {}

Abs == INSTANCE SignalAbs WITH
          Early <- Elements(Opening),
          members <- [g \in Signals |-> Members(g)],
          maker <- cleaner,
          connected <- m_connected,
          blocked <- m_blocked,
          muted <- m_block,
          pending <- [t \in Threads |-> Pending(t)],
          todo <- [t \in Threads |-> Todo(t)]

(* signal_base does what SignalAbs promises (signal.hpp:1131-1148, 1203):   *)
(* an emission calls each slot it found at most once, in ascending groups,  *)
(* passes over only disconnected or blocked ones, and calls none that was   *)
(* disconnected before it began; a disconnection removes its own slot.      *)
Promise == Abs!Spec
=============================================================================
