---------------------------- MODULE SignalProofs ----------------------------
(***************************************************************************)
(* Proofs about Signal.  The first part: the reference counts of the        *)
(* payloads are right, so that a writer which finds itself alone is alone,  *)
(* and no emission is disturbed.  The second: every slot is in its group,   *)
(* where its index says; it begins with the lists alone (adding a slot,     *)
(* removing one) and goes on with the steps of the threads.  The third:     *)
(* Signal implements SignalAbs.                                             *)
(***************************************************************************)
EXTENDS Signal, TLAPS, FiniteSetTheorems, SequenceTheorems, WellFoundedInduction

-----------------------------------------------------------------------------
(* Counting who refers to a payload *)

Fiber(f, D, p) == {x \in D : f[x] = p}

LEMMA SeqElement ==
    ASSUME NEW S, NEW q \in Seq(S), NEW a \in DOMAIN q
    PROVE  q[a] \in S
  OBVIOUS

(* A change of one place of a function moves it from one fiber to another. *)
LEMMA FiberChange ==
    ASSUME NEW D, IsFiniteSet(D), NEW f, NEW h, NEW d \in D,
           \A x \in D : x # d => h[x] = f[x],
           h[d] # f[d], NEW p
    PROVE  /\ Cardinality(Fiber(f, D, p)) \in Nat
           /\ Cardinality(Fiber(h, D, p)) =
                 IF p = h[d] THEN Cardinality(Fiber(f, D, p)) + 1
                 ELSE IF p = f[d] THEN Cardinality(Fiber(f, D, p)) - 1
                 ELSE Cardinality(Fiber(f, D, p))
  <1> DEFINE F == Fiber(f, D, p)
             H == Fiber(h, D, p)
  <1>1. IsFiniteSet(F) /\ Cardinality(F) \in Nat
    <2>1. F \in SUBSET D
      BY DEF Fiber
    <2> QED BY <2>1, FS_Subset, FS_CardinalityType
  <1>2. CASE p = h[d]
    <2>1. H = F \cup {d} /\ d \notin F
      BY <1>2 DEF Fiber
    <2> QED BY <1>1, <1>2, <2>1, FS_AddElement
  <1>3. CASE p # h[d] /\ p = f[d]
    <2>1. H = F \ {d} /\ d \in F
      BY <1>3 DEF Fiber
    <2> QED BY <1>1, <1>3, <2>1, FS_RemoveElement
  <1>4. CASE p # h[d] /\ p # f[d]
    <2>1. H = F
      BY <1>4 DEF Fiber
    <2> QED BY <1>1, <1>4, <2>1
  <1> QED BY <1>1, <1>2, <1>3, <1>4

(* An exchange of two places leaves the fibers as large as they were. *)
LEMMA FiberSwap ==
    ASSUME NEW D, IsFiniteSet(D), NEW f, NEW h, NEW a \in D, NEW b \in D,
           h[a] = f[b], h[b] = f[a], f[a] # f[b],
           \A x \in D : x # a /\ x # b => h[x] = f[x], NEW p
    PROVE  Cardinality(Fiber(h, D, p)) = Cardinality(Fiber(f, D, p))
  <1> DEFINE m == [x \in D |-> IF x = a THEN f[b] ELSE f[x]]
             F == Cardinality(Fiber(f, D, p))
             M == Cardinality(Fiber(m, D, p))
             H == Cardinality(Fiber(h, D, p))
  <1>1. m[a] = f[b] /\ m[b] = f[b]
    OBVIOUS
  <1>2. F \in Nat /\ M = IF p = m[a] THEN F + 1 ELSE IF p = f[a] THEN F - 1 ELSE F
    <2>1. (\A x \in D : x # a => m[x] = f[x]) /\ m[a] # f[a]
      OBVIOUS
    <2> HIDE DEF m
    <2> QED BY ONLY <2>1, FiberChange, IsFiniteSet(D), a \in D
  <1>3. M \in Nat /\ H = IF p = h[b] THEN M + 1 ELSE IF p = m[b] THEN M - 1 ELSE M
    <2>1. (\A x \in D : x # b => h[x] = m[x]) /\ h[b] # m[b]
      OBVIOUS
    <2> HIDE DEF m
    <2> QED BY ONLY <2>1, FiberChange, IsFiniteSet(D), b \in D
  <1> HIDE DEF m
  <1> HIDE DEF F, M, H
  <1>4. H = F
    BY <1>1, <1>2, <1>3
  <1> QED BY <1>4 DEF F, H

(* An element of a fiber is counted, two elements are counted twice. *)
LEMMA FiberCount ==
    ASSUME NEW D, IsFiniteSet(D), NEW f, NEW p
    PROVE  /\ Cardinality(Fiber(f, D, p)) \in Nat
           /\ \A d \in D : f[d] = p => Cardinality(Fiber(f, D, p)) >= 1
           /\ \A d, e \in D : f[d] = p /\ f[e] = p /\ d # e => Cardinality(Fiber(f, D, p)) >= 2
           /\ Cardinality(Fiber(f, D, p)) = 0 <=> \A d \in D : f[d] # p
  <1> DEFINE F == Fiber(f, D, p)
  <1>1. IsFiniteSet(F) /\ Cardinality(F) \in Nat
    <2>1. F \in SUBSET D
      BY DEF Fiber
    <2> QED BY <2>1, FS_Subset, FS_CardinalityType
  <1>2. Cardinality(F) = 0 <=> F = {}
    BY <1>1, FS_EmptySet
  <1>3. ASSUME NEW d \in D, f[d] = p PROVE Cardinality(F) >= 1
    <2>1. F # {}
      BY <1>3 DEF Fiber
    <2> QED BY <1>1, <1>2, <2>1
  <1>4. ASSUME NEW d \in D, NEW e \in D, f[d] = p, f[e] = p, d # e PROVE Cardinality(F) >= 2
    <2>1. d \in F /\ e \in F \ {d}
      BY <1>4 DEF Fiber
    <2>2. IsFiniteSet(F \ {d}) /\ Cardinality(F \ {d}) = Cardinality(F) - 1
      BY <1>1, <2>1, FS_RemoveElement
    <2>3. Cardinality(F \ {d}) # 0
      BY <2>1, <2>2, FS_EmptySet
    <2>4. Cardinality(F \ {d}) \in Nat
      BY <2>2, FS_CardinalityType
    <2> QED BY <1>1, <2>2, <2>3, <2>4
  <1>5. F = {} <=> \A d \in D : f[d] # p
    BY DEF Fiber
  <1> QED BY <1>1, <1>2, <1>3, <1>4, <1>5

-----------------------------------------------------------------------------
(* The invariant behind the counts; it does not speak of the slots. *)

SharedTypes ==
    /\ m_slots \in [Signals -> Payloads]
    /\ count \in [Payloads -> Nat]
    /\ mutex \in [Signals -> Threads \cup {None}]
    /\ m_connected \subseteq Slots
    /\ cleaner \in [Slots -> Signals \cup {None}]
    /\ pc \in [Threads -> Labels]
    /\ back \in [Threads -> Labels]
    /\ sig \in [Threads -> Signals \cup {None}]
    /\ ref \in [Threads -> Payloads \cup {None}]
    /\ slot \in [Threads -> Slots \cup {None}]

(* A disconnection knows the signal that made its slot. *)
CleanerKnown ==
    /\ \A s \in m_connected : cleaner[s] \in Signals
    /\ \A t \in Threads : pc[t] = "clean" => /\ slot[t] \in Slots
                                             /\ cleaner[slot[t]] \in Signals
                                             /\ back[t] \in {"idle", "pass", "dtor"}

(* A thread holds a reference exactly while it emits. *)
Holds(p, b) == p \in Walking \/ (p = "clean" /\ b = "pass")

RefHeld == \A t \in Threads : ref[t] # None <=> Holds(pc[t], back[t])

(* The mutex is held over several steps only by a sweep, and then nobody    *)
(* refers to the payload of the signal but the signal.                      *)
SweepAlone ==
    /\ \A t \in Threads : /\ pc[t] \in {"ref", "sweep"} => sig[t] \in Signals
                          /\ pc[t] = "sweep" => mutex[sig[t]] = t
    /\ \A g \in Signals : mutex[g] # None =>
           /\ pc[mutex[g]] = "sweep" /\ sig[mutex[g]] = g
           /\ count[m_slots[g]] = 1

Sharing ==
    SharedTypes /\ CountInv /\ Distinct(m_slots) /\ CleanerKnown /\ RefHeld /\ SweepAlone

(* CountInv in terms of fibers. *)
LEMMA CountFibers ==
    CountInv <=> \A p \in Payloads :
        count[p] = Cardinality(Fiber(m_slots, Signals, p)) + Cardinality(Fiber(ref, Threads, p))
  BY DEF CountInv, References, Fiber

LEMMA CountFibersPrime ==
    CountInv' <=> \A p \in Payloads :
        count'[p] = Cardinality(Fiber(m_slots', Signals, p)) + Cardinality(Fiber(ref', Threads, p))
  BY DEF CountInv, References, Fiber

(* What a count tells. *)
LEMMA Alone ==
    ASSUME Sharing
    PROVE  /\ \A g \in Signals : count[m_slots[g]] >= 1
           /\ \A t \in Threads : ref[t] # None => count[ref[t]] >= 1
           /\ \A g \in Signals, t \in Threads : count[m_slots[g]] = 1 => ref[t] # m_slots[g]
           /\ \A t, u \in Threads : t # u /\ ref[t] # None /\ ref[u] = ref[t] => count[ref[t]] >= 2
           /\ \A g \in Signals, p \in Payloads : count[p] = 0 => m_slots[g] # p
           /\ \A t \in Threads, p \in Payloads : count[p] = 0 => ref[t] # p
  <1>1. /\ IsFiniteSet(Signals) /\ IsFiniteSet(Threads)
        /\ m_slots \in [Signals -> Payloads] /\ ref \in [Threads -> Payloads \cup {None}]
        /\ count \in [Payloads -> Nat]
    BY ConstantsAssumption DEF Sharing, SharedTypes
  <1> DEFINE M(p) == Cardinality(Fiber(m_slots, Signals, p))
             R(p) == Cardinality(Fiber(ref, Threads, p))
  <1>2. \A p \in Payloads : count[p] = M(p) + R(p)
    BY CountFibers DEF Sharing
  <1>3. \A p : /\ M(p) \in Nat
               /\ \A g \in Signals : m_slots[g] = p => M(p) >= 1
    BY <1>1, FiberCount
  <1>4. \A p : /\ R(p) \in Nat
               /\ \A t \in Threads : ref[t] = p => R(p) >= 1
               /\ \A t, u \in Threads : ref[t] = p /\ ref[u] = p /\ t # u => R(p) >= 2
    BY <1>1, FiberCount
  <1> HIDE DEF M, R
  <1>5. \A g \in Signals : m_slots[g] \in Payloads
    BY <1>1
  <1>6. \A t \in Threads : ref[t] # None => ref[t] \in Payloads
    BY <1>1
  <1> QED BY <1>2, <1>3, <1>4, <1>5, <1>6

-----------------------------------------------------------------------------
(* The building blocks of the actions *)

(* A writer: the payload of g is written in place if g is alone, else g     *)
(* gets one of its own.                                                     *)
LEMMA CowWrite ==
    ASSUME Sharing, NEW g \in Signals, NEW l, cow_write(g, l), ref' = ref
    PROVE  /\ m_slots' \in [Signals -> Payloads]
           /\ count' \in [Payloads -> Nat]
           /\ CountInv'
           /\ Distinct(m_slots')
           /\ count'[m_slots'[g]] = 1
           /\ \A h \in Signals : h # g => /\ m_slots'[h] = m_slots[h]
                                         /\ count'[m_slots[h]] = count[m_slots[h]]
           /\ \A t \in Threads : ref[t] # None => value'[ref[t]] = value[ref[t]]
  <1> DEFINE p == m_slots[g]
  <1>1. /\ m_slots \in [Signals -> Payloads] /\ count \in [Payloads -> Nat]
        /\ Distinct(m_slots) /\ p \in Payloads
        /\ \A t \in Threads : ref[t] # None => ref[t] \in Payloads
    BY DEF Sharing, SharedTypes
  <1>2. CASE count[p] = 1
    <2>1. /\ value' = [value EXCEPT ![p] = l]
          /\ m_slots' = m_slots /\ count' = count
      BY <1>2 DEF cow_write, Unique
    <2>2. CountInv'
      BY <2>1, CountFibers, CountFibersPrime DEF Sharing
    <2>3. \A t \in Threads : ref[t] # p
      BY <1>2, Alone
    <2>4. \A t \in Threads : ref[t] # None => value'[ref[t]] = value[ref[t]]
      BY <2>1, <2>3
    <2> QED BY <1>1, <1>2, <2>1, <2>2, <2>4
  <1>3. CASE count[p] # 1
    <2>1. PICK q \in Payloads :
             /\ count[q] = 0
             /\ m_slots' = [m_slots EXCEPT ![g] = q]
             /\ count' = [count EXCEPT ![p] = @ - 1, ![q] = 1]
             /\ value' = [value EXCEPT ![q] = l]
      BY <1>3 DEF cow_write, Unique
    <2>2. count[p] >= 2 /\ q # p
      BY <1>1, <1>3, <2>1, Alone
    <2>3. \A h \in Signals : m_slots[h] # q
      BY <2>1, Alone
    <2>4. \A t \in Threads : ref[t] # q
      BY <2>1, Alone
    <2>5. /\ m_slots' \in [Signals -> Payloads]
          /\ count' \in [Payloads -> Nat]
          /\ count'[q] = 1 /\ count'[p] = count[p] - 1
          /\ \A r \in Payloads : r # p /\ r # q => count'[r] = count[r]
          /\ m_slots'[g] = q
          /\ \A h \in Signals : h # g => m_slots'[h] = m_slots[h]
      BY <1>1, <2>1, <2>2
    <2>6. Distinct(m_slots')
      BY <1>1, <2>3, <2>5 DEF Distinct
    <2>7. \A h \in Signals : h # g => count'[m_slots[h]] = count[m_slots[h]]
      BY <1>1, <2>3, <2>5 DEF Distinct
    <2>8. ASSUME NEW r \in Payloads
          PROVE  count'[r] = Cardinality(Fiber(m_slots', Signals, r))
                             + Cardinality(Fiber(ref', Threads, r))
      <3> DEFINE M == Cardinality(Fiber(m_slots, Signals, r))
                 N == Cardinality(Fiber(m_slots', Signals, r))
                 R == Cardinality(Fiber(ref, Threads, r))
      <3>1. count[r] = M + R
        BY CountFibers DEF Sharing
      <3>2. M \in Nat /\ N = IF r = q THEN M + 1 ELSE IF r = p THEN M - 1 ELSE M
        <4>1. m_slots'[g] # m_slots[g]
          BY <2>2, <2>5
        <4> HIDE DEF M, N
        <4> QED BY <2>5, <4>1, FiberChange, ConstantsAssumption DEF M, N
      <3>3. R \in Nat
        BY FiberCount, ConstantsAssumption
      <3>4. N + R = count'[r]
        <4> HIDE DEF M, N, R
        <4> QED BY <1>1, <2>1, <2>2, <2>5, <3>1, <3>2, <3>3
      <3> QED BY <3>4
    <2>9. CountInv'
      BY <2>8, CountFibersPrime
    <2>10. \A t \in Threads : ref[t] # None => value'[ref[t]] = value[ref[t]]
      BY <2>1, <2>4
    <2> QED BY <2>5, <2>6, <2>7, <2>9, <2>10
  <1> QED BY <1>2, <1>3

(* FiberChange for the references of the threads and of the signals. *)
LEMMA ChangeOfRef ==
    ASSUME NEW t \in Threads, \A u \in Threads : u # t => ref'[u] = ref[u],
           ref'[t] # ref[t], NEW r
    PROVE  /\ Cardinality(Fiber(ref, Threads, r)) \in Nat
           /\ Cardinality(Fiber(ref', Threads, r)) =
                 IF r = ref'[t] THEN Cardinality(Fiber(ref, Threads, r)) + 1
                 ELSE IF r = ref[t] THEN Cardinality(Fiber(ref, Threads, r)) - 1
                 ELSE Cardinality(Fiber(ref, Threads, r))
  <1>1. IsFiniteSet(Threads)
    BY ConstantsAssumption
  <1> QED BY <1>1, FiberChange

(* An emission takes a reference ... *)
LEMMA TakeReference ==
    ASSUME Sharing, NEW t \in Threads, ref[t] = None, NEW g \in Signals,
           ref' = [ref EXCEPT ![t] = m_slots[g]],
           count' = [count EXCEPT ![m_slots[g]] = @ + 1],
           m_slots' = m_slots
    PROVE  CountInv' /\ count' \in [Payloads -> Nat]
  <1> DEFINE p == m_slots[g]
  <1>1. /\ m_slots \in [Signals -> Payloads] /\ count \in [Payloads -> Nat]
        /\ p \in Payloads /\ ref \in [Threads -> Payloads \cup {None}]
        /\ None \notin Payloads
    BY ConstantsAssumption DEF Sharing, SharedTypes
  <1>2. /\ count' \in [Payloads -> Nat] /\ count'[p] = count[p] + 1
        /\ \A r \in Payloads : r # p => count'[r] = count[r]
        /\ ref'[t] = p /\ \A u \in Threads : u # t => ref'[u] = ref[u]
    BY <1>1
  <1>3. ASSUME NEW r \in Payloads
        PROVE  count'[r] = Cardinality(Fiber(m_slots', Signals, r))
                           + Cardinality(Fiber(ref', Threads, r))
    <2> DEFINE M == Cardinality(Fiber(m_slots, Signals, r))
               R == Cardinality(Fiber(ref, Threads, r))
               Q == Cardinality(Fiber(ref', Threads, r))
    <2>1. count[r] = M + R
      BY CountFibers DEF Sharing
    <2>2. R \in Nat /\ Q = IF r = p THEN R + 1 ELSE R
      <3>1. ref'[t] # ref[t] /\ ref[t] # r
        BY <1>1, <1>2
      <3>2. R \in Nat /\ Q = IF r = ref'[t] THEN R + 1 ELSE IF r = ref[t] THEN R - 1 ELSE R
        BY <1>2, <3>1, ChangeOfRef
      <3> HIDE DEF R, Q
      <3> QED BY <1>2, <3>1, <3>2
    <2>3. M \in Nat
      BY FiberCount, ConstantsAssumption
    <2>4. M + Q = count'[r]
      <3> HIDE DEF M, R, Q
      <3> QED BY <1>1, <1>2, <2>1, <2>2, <2>3
    <2> QED BY <2>4
  <1> QED BY <1>2, <1>3, CountFibersPrime

(* ... and gives it back: the payload is cleared only if nobody else holds  *)
(* a reference to it.                                                       *)
LEMMA GiveReference ==
    ASSUME Sharing, NEW t \in Threads, ref[t] # None,
           ref' = [ref EXCEPT ![t] = None],
           Release(ref[t]),
           m_slots' = m_slots
    PROVE  /\ CountInv' /\ count' \in [Payloads -> Nat]
           /\ \A g \in Signals : count[m_slots[g]] = 1 => count'[m_slots[g]] = 1
           /\ \A u \in Threads : u # t /\ ref[u] # None => value'[ref[u]] = value[ref[u]]
  <1> DEFINE p == ref[t]
  <1>1. /\ m_slots \in [Signals -> Payloads] /\ count \in [Payloads -> Nat]
        /\ p \in Payloads /\ ref \in [Threads -> Payloads \cup {None}]
        /\ None \notin Payloads /\ count[p] >= 1
    BY Alone, ConstantsAssumption DEF Sharing, SharedTypes
  <1>2. /\ count' \in [Payloads -> Nat] /\ count'[p] = count[p] - 1
        /\ \A r \in Payloads : r # p => count'[r] = count[r]
        /\ ref'[t] = None /\ \A u \in Threads : u # t => ref'[u] = ref[u]
    BY <1>1 DEF Release
  <1>3. ASSUME NEW r \in Payloads
        PROVE  count'[r] = Cardinality(Fiber(m_slots', Signals, r))
                           + Cardinality(Fiber(ref', Threads, r))
    <2> DEFINE M == Cardinality(Fiber(m_slots, Signals, r))
               R == Cardinality(Fiber(ref, Threads, r))
               Q == Cardinality(Fiber(ref', Threads, r))
    <2>1. count[r] = M + R
      BY CountFibers DEF Sharing
    <2>2. R \in Nat /\ Q = IF r = p THEN R - 1 ELSE R
      <3>1. ref'[t] # ref[t] /\ ref'[t] # r
        BY <1>1, <1>2
      <3>2. R \in Nat /\ Q = IF r = ref'[t] THEN R + 1 ELSE IF r = ref[t] THEN R - 1 ELSE R
        BY <1>2, <3>1, ChangeOfRef
      <3> HIDE DEF R, Q
      <3> QED BY <3>1, <3>2
    <2>3. M \in Nat
      BY FiberCount, ConstantsAssumption
    <2>4. M + Q = count'[r]
      <3> HIDE DEF M, R, Q
      <3> QED BY <1>1, <1>2, <2>1, <2>2, <2>3
    <2> QED BY <2>4
  <1>4. \A g \in Signals : count[m_slots[g]] = 1 => count'[m_slots[g]] = 1
    BY <1>1, <1>2, Alone
  <1>5. ASSUME NEW u \in Threads, u # t, ref[u] # None
        PROVE  value'[ref[u]] = value[ref[u]]
    <2>1. CASE ref[u] # p
      BY <2>1 DEF Release
    <2>2. CASE ref[u] = p
      <3>1. count[p] >= 2
        BY <1>5, <2>2, Alone
      <3>2. ~Unique(p)
        BY <1>1, <3>1 DEF Unique
      <3> QED BY <2>2, <3>2 DEF Release
    <2> QED BY <2>1, <2>2
  <1> QED BY <1>2, <1>3, <1>4, <1>5, CountFibersPrime

(* Moving exchanges the payloads of two signals. *)
LEMMA SwapCounts ==
    ASSUME Sharing, NEW g \in Signals, NEW h \in Signals, g # h,
           m_slots' = Swapped(g, h), count' = count, ref' = ref
    PROVE  /\ m_slots' \in [Signals -> Payloads]
           /\ CountInv' /\ Distinct(m_slots')
           /\ \A k \in Signals : k # g /\ k # h => m_slots'[k] = m_slots[k]
  <1>1. /\ m_slots \in [Signals -> Payloads]
        /\ m_slots[g] # m_slots[h] /\ Distinct(m_slots)
    BY DEF Sharing, SharedTypes, Distinct
  <1>2. /\ m_slots'[h] = m_slots[g] /\ m_slots'[g] = m_slots[h]
        /\ \A k \in Signals : k # g /\ k # h => m_slots'[k] = m_slots[k]
        /\ m_slots' \in [Signals -> Payloads]
    BY <1>1 DEF Swapped
  <1>3. Distinct(m_slots')
    BY <1>1, <1>2 DEF Distinct
  <1>4. \A r \in Payloads :
           Cardinality(Fiber(m_slots', Signals, r)) = Cardinality(Fiber(m_slots, Signals, r))
    <2>1. /\ m_slots'[g] = m_slots[h] /\ m_slots'[h] = m_slots[g]
          /\ \A k \in Signals : k # g /\ k # h => m_slots'[k] = m_slots[k]
          /\ IsFiniteSet(Signals) /\ m_slots[g] # m_slots[h]
      BY <1>1, <1>2, ConstantsAssumption
    <2> QED BY <2>1, FiberSwap
  <1>5. CountInv'
    BY <1>4, CountFibers, CountFibersPrime DEF Sharing
  <1> QED BY <1>2, <1>3, <1>5

-----------------------------------------------------------------------------
(* Every step preserves Sharing *)

(* The part of Sharing about payloads. *)
Counted ==
    /\ m_slots \in [Signals -> Payloads]
    /\ count \in [Payloads -> Nat]
    /\ CountInv
    /\ Distinct(m_slots)
    /\ \A g \in Signals : mutex[g] # None => count[m_slots[g]] = 1

(* The part about a thread, and what a step of t leaves to the others. *)
ThreadTypes ==
    /\ pc \in [Threads -> Labels]
    /\ back \in [Threads -> Labels]
    /\ sig \in [Threads -> Signals \cup {None}]
    /\ ref \in [Threads -> Payloads \cup {None}]
    /\ slot \in [Threads -> Slots \cup {None}]

ThreadOK(t) ==
    /\ pc[t] = "clean" => /\ slot[t] \in Slots
                          /\ cleaner[slot[t]] \in Signals
                          /\ back[t] \in {"idle", "pass", "dtor"}
    /\ ref[t] # None <=> Holds(pc[t], back[t])
    /\ pc[t] \in {"ref", "sweep"} => sig[t] \in Signals

OthersStay(t) ==
    \A u \in Threads : u # t =>
        /\ pc'[u] = pc[u] /\ back'[u] = back[u] /\ sig'[u] = sig[u]
        /\ ref'[u] = ref[u] /\ slot'[u] = slot[u]

SweepStays(t) ==
    /\ mutex' = mutex
    /\ pc'[t] = "sweep" <=> pc[t] = "sweep"
    /\ pc[t] = "sweep" => sig'[t] = sig[t]

(* No slot loses its cleaner, and none is connected without one. *)
CleanersStay ==
    /\ m_connected' \subseteq Slots
    /\ cleaner' \in [Slots -> Signals \cup {None}]
    /\ \A s \in Slots : cleaner[s] \in Signals => cleaner'[s] \in Signals
    /\ \A s \in m_connected' : cleaner'[s] \in Signals

LEMMA ThreadFrame ==
    ASSUME Sharing, NEW t \in Threads, Counted', ThreadTypes', ThreadOK(t)',
           OthersStay(t), SweepStays(t), CleanersStay
    PROVE  Sharing'
  <1>1. SharedTypes'
    <2>1. mutex' \in [Signals -> Threads \cup {None}]
      BY DEF Sharing, SharedTypes, SweepStays
    <2> QED BY <2>1 DEF SharedTypes, Counted, ThreadTypes, CleanersStay
  <1>2. CleanerKnown'
    <2>1. ASSUME NEW u \in Threads, pc'[u] = "clean"
          PROVE  /\ slot'[u] \in Slots
                 /\ cleaner'[slot'[u]] \in Signals
                 /\ back'[u] \in {"idle", "pass", "dtor"}
      <3>1. CASE u = t
        BY <2>1, <3>1 DEF ThreadOK
      <3>2. CASE u # t
        BY <2>1, <3>2 DEF Sharing, CleanerKnown, OthersStay, CleanersStay
      <3> QED BY <3>1, <3>2
    <2> QED BY <2>1 DEF CleanerKnown, CleanersStay
  <1>3. RefHeld'
    <2>1. ASSUME NEW u \in Threads
          PROVE  ref'[u] # None <=> Holds(pc'[u], back'[u])
      <3>1. CASE u = t
        BY <3>1 DEF ThreadOK, Holds
      <3>2. CASE u # t
        BY <3>2 DEF Sharing, RefHeld, OthersStay
      <3> QED BY <3>1, <3>2
    <2> QED BY <2>1 DEF RefHeld, Holds
  <1>4. SweepAlone'
    <2>1. ASSUME NEW u \in Threads
          PROVE  /\ pc'[u] \in {"ref", "sweep"} => sig'[u] \in Signals
                 /\ pc'[u] = "sweep" => mutex'[sig'[u]] = u
      <3>1. CASE u = t
        BY <3>1 DEF ThreadOK, SweepStays, Sharing, SweepAlone
      <3>2. CASE u # t
        BY <3>2 DEF Sharing, SweepAlone, OthersStay, SweepStays
      <3> QED BY <3>1, <3>2
    <2>2. ASSUME NEW g \in Signals, mutex'[g] # None
          PROVE  pc'[mutex'[g]] = "sweep" /\ sig'[mutex'[g]] = g
      <3>1. /\ mutex'[g] = mutex[g] /\ mutex[g] \in Threads
            /\ pc[mutex[g]] = "sweep" /\ sig[mutex[g]] = g
        BY <2>2 DEF Sharing, SharedTypes, SweepAlone, SweepStays
      <3> QED BY <3>1 DEF OthersStay, SweepStays
    <2>3. \A g \in Signals : mutex'[g] # None => count'[m_slots'[g]] = 1
      BY DEF Counted
    <2> QED BY <2>1, <2>2, <2>3 DEF SweepAlone
  <1> QED BY <1>1, <1>2, <1>3, <1>4 DEF Sharing, Counted

(* SweepAlone' from what holds of each thread and of each signal. *)
LEMMA SweepAloneAfter ==
    ASSUME \A t \in Threads : /\ pc'[t] \in {"ref", "sweep"} => sig'[t] \in Signals
                              /\ pc'[t] = "sweep" => mutex'[sig'[t]] = t,
           \A g \in Signals : mutex'[g] # None =>
               /\ pc'[mutex'[g]] = "sweep" /\ sig'[mutex'[g]] = g
               /\ count'[m_slots'[g]] = 1
    PROVE  SweepAlone'
  BY DEF SweepAlone

(* Nothing that Sharing speaks of changes. *)
LEMMA SharingFrame ==
    ASSUME Sharing,
           UNCHANGED <<m_slots, count, mutex, m_connected, cleaner, pc, back, sig, ref, slot>>
    PROVE  Sharing'
  BY DEF Sharing, SharedTypes, CountInv, References, Distinct, CleanerKnown, RefHeld, SweepAlone

(* The payloads are the same, or one of them was written. *)
LEMMA CountedSame ==
    ASSUME Sharing, UNCHANGED <<m_slots, count, mutex, ref>>
    PROVE  Counted'
  BY DEF Sharing, SharedTypes, SweepAlone, Counted, CountInv, References, Distinct

LEMMA CountedWrite ==
    ASSUME Sharing, NEW g \in Signals, NEW l, cow_write(g, l), mutex[g] = None,
           mutex' = mutex, ref' = ref
    PROVE  Counted'
  <1>1. /\ m_slots' \in [Signals -> Payloads]
        /\ count' \in [Payloads -> Nat]
        /\ CountInv'
        /\ Distinct(m_slots')
        /\ \A h \in Signals : h # g => /\ m_slots'[h] = m_slots[h]
                                      /\ count'[m_slots[h]] = count[m_slots[h]]
    BY CowWrite
  <1>2. ASSUME NEW h \in Signals, mutex'[h] # None PROVE count'[m_slots'[h]] = 1
    BY <1>1, <1>2 DEF Sharing, SweepAlone
  <1>3. Distinct(m_slots)'
    BY <1>1 DEF Distinct
  <1> QED BY <1>1, <1>2, <1>3 DEF Counted

(* A thread goes on to another label, holding as many references as before. *)
LEMMA PcStep ==
    ASSUME Sharing, NEW t \in Threads, NEW l \in Labels \ {"clean", "ref", "sweep"},
           pc' = [pc EXCEPT ![t] = l], pc[t] # "sweep",
           Holds(l, back[t]) <=> Holds(pc[t], back[t]),
           slot' \in {slot, [slot EXCEPT ![t] = None]},
           UNCHANGED <<m_slots, count, mutex, m_connected, cleaner, back, sig, ref>>
    PROVE  Sharing'
  <1>1. Counted'
    BY CountedSame
  <1>2. ThreadTypes' /\ OthersStay(t) /\ pc'[t] = l
    BY DEF Sharing, SharedTypes, ThreadTypes, OthersStay
  <1>3. ThreadOK(t)'
    BY <1>2 DEF Sharing, RefHeld, ThreadOK, Holds
  <1>4. SweepStays(t) /\ CleanersStay
    BY <1>2 DEF Sharing, SharedTypes, CleanerKnown, SweepStays, CleanersStay
  <1> QED BY <1>1, <1>2, <1>3, <1>4, ThreadFrame

(* A thread begins to disconnect a slot. *)
LEMMA DisconnectStep ==
    ASSUME Sharing, NEW t \in Threads, NEW s, NEW r \in {"idle", "pass", "dtor"},
           disconnect(t, s, r), pc[t] # "sweep",
           r = "pass" <=> Holds(pc[t], back[t]),
           UNCHANGED <<m_slots, count, mutex, cleaner, sig, ref>>
    PROVE  Sharing'
  <1>1. Counted'
    BY CountedSame
  <1>2. s \in Slots /\ s \in m_connected /\ cleaner[s] \in Signals
    BY DEF disconnect, Sharing, SharedTypes, CleanerKnown
  <1>3. /\ ThreadTypes' /\ OthersStay(t)
        /\ pc'[t] = "clean" /\ back'[t] = r /\ slot'[t] = s
    BY <1>2 DEF disconnect, Sharing, SharedTypes, ThreadTypes, OthersStay, Labels
  <1>4. ThreadOK(t)'
    <2>1. ref[t] # None <=> Holds(pc'[t], back'[t])
      BY <1>3 DEF Sharing, RefHeld, Holds, Walking
    <2> QED BY <1>2, <1>3, <2>1 DEF ThreadOK, Holds
  <1>5. SweepStays(t)
    BY <1>3 DEF SweepStays
  <1>6. CleanersStay
    BY DEF disconnect, Sharing, SharedTypes, CleanerKnown, CleanersStay
  <1> QED BY <1>1, <1>3, <1>4, <1>5, <1>6, ThreadFrame

LEMMA StepConnect ==
    ASSUME Sharing, NEW g \in Signals, NEW s \in Slots, MakeSlot(g, s),
           mutex' = mutex, ref' = ref
    PROVE  Counted' /\ CleanersStay
  <1>1. Counted'
    BY CountedWrite DEF MakeSlot
  <1>2. /\ m_connected' = m_connected \cup {s}
        /\ cleaner' = [cleaner EXCEPT ![s] = g]
    BY DEF MakeSlot
  <1>3. CleanersStay
    BY <1>2 DEF Sharing, SharedTypes, CleanerKnown, CleanersStay
  <1> QED BY <1>1, <1>3

LEMMA SharingConnect ==
    ASSUME Sharing, NEW g \in Signals, NEW s \in Slots, Connect(g, s)
    PROVE  Sharing'
  <1>1. /\ MakeSlot(g, s)
        /\ UNCHANGED <<mutex, pc, back, sig, ref, slot>>
    BY DEF Connect
  <1>2. Counted' /\ CleanersStay
    BY <1>1, StepConnect
  <1>3. SharedTypes'
    BY <1>1, <1>2 DEF Sharing, SharedTypes, Counted, CleanersStay
  <1>4. CleanerKnown'
    BY <1>1, <1>2 DEF Sharing, CleanerKnown, CleanersStay
  <1>5. RefHeld'
    BY <1>1 DEF Sharing, RefHeld
  <1>6. SweepAlone'
    BY <1>1, <1>2 DEF Sharing, SweepAlone, Counted
  <1> QED BY <1>2, <1>3, <1>4, <1>5, <1>6 DEF Sharing, Counted

LEMMA SharingConnectObserver ==
    ASSUME Sharing, NEW t \in Threads, NEW g \in Signals, NEW s \in Slots,
           ConnectObserver(t, g, s)
    PROVE  Sharing'
  <1>1. /\ MakeSlot(g, s) /\ pc[t] = "idle"
        /\ pc' = [pc EXCEPT ![t] = "register"]
        /\ slot' = [slot EXCEPT ![t] = s]
        /\ UNCHANGED <<mutex, back, sig, ref>>
    BY DEF ConnectObserver
  <1>2. Counted' /\ CleanersStay
    BY <1>1, StepConnect
  <1>3. ThreadTypes' /\ OthersStay(t) /\ pc'[t] = "register"
    BY <1>1 DEF Sharing, SharedTypes, ThreadTypes, OthersStay, Labels
  <1>4. ThreadOK(t)'
    BY <1>1, <1>3 DEF Sharing, RefHeld, ThreadOK, Holds, Walking
  <1>5. SweepStays(t)
    BY <1>1, <1>3 DEF SweepStays
  <1> QED BY <1>2, <1>3, <1>4, <1>5, ThreadFrame

LEMMA SharingClean ==
    ASSUME Sharing, NEW t \in Threads, clean(t)
    PROVE  Sharing'
  <1> DEFINE g == cleaner[slot[t]]
  <1>1. /\ pc[t] = "clean" /\ mutex[g] = None
        /\ \E l : cow_write(g, l)
        /\ pc' = [pc EXCEPT ![t] = back[t]]
        /\ back' = [back EXCEPT ![t] = "idle"]
        /\ slot' = [slot EXCEPT ![t] = None]
        /\ UNCHANGED <<mutex, m_connected, cleaner, sig, ref>>
    BY DEF clean
  <1>2. g \in Signals /\ back[t] \in {"idle", "pass", "dtor"}
    BY <1>1 DEF Sharing, CleanerKnown
  <1>3. Counted'
    BY <1>1, <1>2, CountedWrite
  <1>4. ThreadTypes' /\ OthersStay(t) /\ pc'[t] = back[t] /\ back'[t] = "idle"
    BY <1>1 DEF Sharing, SharedTypes, ThreadTypes, OthersStay, Labels
  <1>5. ThreadOK(t)'
    BY <1>1, <1>2, <1>4 DEF Sharing, RefHeld, ThreadOK, Holds, Walking
  <1>6. SweepStays(t) /\ CleanersStay
    BY <1>1, <1>2, <1>4 DEF Sharing, SharedTypes, CleanerKnown, SweepStays, CleanersStay
  <1> QED BY <1>3, <1>4, <1>5, <1>6, ThreadFrame

(* The list of a signal is written and nothing else changes. *)
LEMMA SharingWrite ==
    ASSUME Sharing, NEW g \in Signals, NEW l, cow_write(g, l), mutex[g] = None,
           UNCHANGED <<mutex, m_connected, cleaner, pc, back, sig, ref, slot>>
    PROVE  Sharing'
  <1>1. Counted'
    BY CountedWrite
  <1>2. SharedTypes'
    BY <1>1 DEF Sharing, SharedTypes, Counted
  <1>3. CleanerKnown' /\ RefHeld'
    BY DEF Sharing, CleanerKnown, RefHeld
  <1>4. SweepAlone'
    BY <1>1 DEF Sharing, SweepAlone, Counted
  <1> QED BY <1>1, <1>2, <1>3, <1>4 DEF Sharing, Counted

LEMMA SharingMove ==
    ASSUME Sharing, NEW g \in Signals, NEW h \in Signals, Move(g, h)
    PROVE  Sharing'
  <1>1. /\ g # h /\ mutex[g] = None /\ mutex[h] = None
        /\ m_slots' = Swapped(g, h)
        /\ UNCHANGED <<count, mutex, m_connected, cleaner, pc, back, sig, ref, slot>>
    BY DEF Move, slotVars
  <1>2. /\ m_slots' \in [Signals -> Payloads]
        /\ CountInv' /\ Distinct(m_slots')
        /\ \A k \in Signals : k # g /\ k # h => m_slots'[k] = m_slots[k]
    BY <1>1, SwapCounts
  <1>3. SharedTypes'
    BY <1>1, <1>2 DEF Sharing, SharedTypes
  <1>4. CleanerKnown' /\ RefHeld'
    BY <1>1 DEF Sharing, CleanerKnown, RefHeld
  <1>5. SweepAlone'
    <2>1. ASSUME NEW k \in Signals, mutex'[k] # None
          PROVE  /\ pc'[mutex'[k]] = "sweep" /\ sig'[mutex'[k]] = k
                 /\ count'[m_slots'[k]] = 1
      <3>1. k # g /\ k # h /\ mutex[k] # None
        BY <1>1, <2>1
      <3>2. m_slots'[k] = m_slots[k]
        BY <1>2, <3>1
      <3>3. /\ pc[mutex[k]] = "sweep" /\ sig[mutex[k]] = k
            /\ count[m_slots[k]] = 1
        BY <3>1 DEF Sharing, SweepAlone
      <3> QED BY <1>1, <3>2, <3>3
    <2>2. \A t \in Threads : /\ pc[t] \in {"ref", "sweep"} => sig[t] \in Signals
                             /\ pc[t] = "sweep" => mutex[sig[t]] = t
      BY DEF Sharing, SweepAlone
    <2>3. \A t \in Threads : /\ pc'[t] \in {"ref", "sweep"} => sig'[t] \in Signals
                             /\ pc'[t] = "sweep" => mutex'[sig'[t]] = t
      BY <1>1, <2>2
    <2>4. \A k \in Signals : mutex'[k] # None =>
             /\ pc'[mutex'[k]] = "sweep" /\ sig'[mutex'[k]] = k
             /\ count'[m_slots'[k]] = 1
      BY <2>1
    <2> QED BY <2>3, <2>4, SweepAloneAfter
  <1>6. Distinct(m_slots)'
    BY <1>2 DEF Distinct
  <1> QED BY <1>2, <1>3, <1>4, <1>5, <1>6 DEF Sharing

(* disconnect_if takes the mutex of g, whose payload is then its own. *)
LEMMA SharingDisconnectIf ==
    ASSUME Sharing, NEW t \in Threads, NEW g \in Signals, NEW c, NEW o,
           disconnect_if(t, g, c, o)
    PROVE  Sharing'
  <1>1. /\ pc[t] = "idle" /\ mutex[g] = None
        /\ cow_write(g, list(g))
        /\ mutex' = [mutex EXCEPT ![g] = t]
        /\ sig' = [sig EXCEPT ![t] = g]
        /\ pc' = [pc EXCEPT ![t] = "sweep"]
        /\ UNCHANGED <<m_connected, cleaner, back, ref, slot>>
    BY DEF disconnect_if, slotVars
  <1>2. /\ m_slots' \in [Signals -> Payloads]
        /\ count' \in [Payloads -> Nat]
        /\ CountInv'
        /\ Distinct(m_slots')
        /\ count'[m_slots'[g]] = 1
        /\ \A h \in Signals : h # g => /\ m_slots'[h] = m_slots[h]
                                      /\ count'[m_slots[h]] = count[m_slots[h]]
    BY <1>1, CowWrite
  <1>3. SharedTypes'
    BY <1>1, <1>2 DEF Sharing, SharedTypes, Labels
  <1>4. /\ pc'[t] = "sweep" /\ sig'[t] = g /\ mutex'[g] = t
        /\ \A u \in Threads : u # t => pc'[u] = pc[u] /\ sig'[u] = sig[u]
        /\ \A h \in Signals : h # g => mutex'[h] = mutex[h]
    BY <1>1 DEF Sharing, SharedTypes
  <1>5. CleanerKnown'
    BY <1>1, <1>4 DEF Sharing, CleanerKnown
  <1>6. RefHeld'
    BY <1>1, <1>4 DEF Sharing, RefHeld, Holds, Walking
  <1>7. \A u \in Threads : /\ pc'[u] \in {"ref", "sweep"} => sig'[u] \in Signals
                           /\ pc'[u] = "sweep" => mutex'[sig'[u]] = u
    <2>1. \A u \in Threads : pc[u] = "sweep" => sig[u] # g
      BY <1>1, ConstantsAssumption DEF Sharing, SweepAlone
    <2> QED BY <1>4, <2>1 DEF Sharing, SweepAlone
  <1>8. ASSUME NEW h \in Signals, mutex'[h] # None
        PROVE  /\ pc'[mutex'[h]] = "sweep" /\ sig'[mutex'[h]] = h
               /\ count'[m_slots'[h]] = 1
    <2>1. CASE h = g
      BY <1>2, <1>4, <2>1
    <2>2. CASE h # g
      <3>1. /\ mutex[h] # None /\ mutex'[h] = mutex[h] /\ mutex[h] \in Threads
            /\ pc[mutex[h]] = "sweep" /\ sig[mutex[h]] = h /\ count[m_slots[h]] = 1
        BY <1>4, <1>8, <2>2 DEF Sharing, SharedTypes, SweepAlone
      <3> QED BY <1>1, <1>2, <1>4, <2>2, <3>1
    <2> QED BY <2>1, <2>2
  <1>9. SweepAlone'
    <2>1. \A h \in Signals : mutex'[h] # None =>
             /\ pc'[mutex'[h]] = "sweep" /\ sig'[mutex'[h]] = h
             /\ count'[m_slots'[h]] = 1
      BY <1>8
    <2> QED BY <1>7, <2>1, SweepAloneAfter
  <1>10. Distinct(m_slots)'
    BY <1>2 DEF Distinct
  <1> QED BY <1>2, <1>3, <1>5, <1>6, <1>9, <1>10 DEF Sharing

(* A step of a sweep; the last one gives the mutex back. *)
LEMMA SharingSweep ==
    ASSUME Sharing, NEW t \in Threads, Sweep(t)
    PROVE  Sharing'
  <1> DEFINE g == sig[t]
  <1>1. /\ pc[t] = "sweep"
        /\ UNCHANGED <<m_slots, count, m_connected, cleaner, back, ref, slot>>
    BY DEF Sweep
  <1>2. CASE UNCHANGED <<mutex, pc, sig>>
    BY <1>1, <1>2, SharingFrame
  <1>3. CASE /\ mutex' = [mutex EXCEPT ![g] = None]
             /\ pc' = [pc EXCEPT ![t] = "idle"]
             /\ sig' = [sig EXCEPT ![t] = None]
    <2>1. g \in Signals /\ mutex[g] = t
      BY <1>1 DEF Sharing, SweepAlone
    <2>2. SharedTypes'
      BY <1>1, <1>3 DEF Sharing, SharedTypes, Labels
    <2>3. /\ pc'[t] = "idle" /\ mutex'[g] = None
          /\ \A u \in Threads : u # t => pc'[u] = pc[u] /\ sig'[u] = sig[u]
          /\ \A h \in Signals : h # g => mutex'[h] = mutex[h]
      BY <1>3, <2>1 DEF Sharing, SharedTypes
    <2>4. CountInv' /\ Distinct(m_slots)'
      BY <1>1 DEF Sharing, CountInv, References, Distinct
    <2>5. CleanerKnown'
      BY <1>1, <2>3 DEF Sharing, CleanerKnown
    <2>6. RefHeld'
      BY <1>1, <2>3 DEF Sharing, RefHeld, Holds, Walking
    <2>7. \A u \in Threads : /\ pc'[u] \in {"ref", "sweep"} => sig'[u] \in Signals
                             /\ pc'[u] = "sweep" => mutex'[sig'[u]] = u
      BY <2>1, <2>3 DEF Sharing, SweepAlone
    <2>8. ASSUME NEW h \in Signals, mutex'[h] # None
          PROVE  /\ pc'[mutex'[h]] = "sweep" /\ sig'[mutex'[h]] = h
                 /\ count'[m_slots'[h]] = 1
      <3>1. h # g /\ mutex'[h] = mutex[h] /\ mutex[h] # None
        BY <2>3, <2>8
      <3>2. /\ mutex[h] \in Threads /\ pc[mutex[h]] = "sweep" /\ sig[mutex[h]] = h
            /\ count[m_slots[h]] = 1
        BY <3>1 DEF Sharing, SharedTypes, SweepAlone
      <3>3. mutex[h] # t
        BY <3>1, <3>2
      <3> QED BY <1>1, <2>3, <3>1, <3>2, <3>3
    <2>9. SweepAlone'
      <3>1. \A h \in Signals : mutex'[h] # None =>
               /\ pc'[mutex'[h]] = "sweep" /\ sig'[mutex'[h]] = h
               /\ count'[m_slots'[h]] = 1
        BY <2>8
      <3> QED BY <2>7, <3>1, SweepAloneAfter
    <2> QED BY <2>2, <2>4, <2>5, <2>6, <2>9 DEF Sharing
  <1> QED BY <1>2, <1>3 DEF Sweep

(* An emission begins and takes its reference ... *)
LEMMA SharingEmit ==
    ASSUME Sharing, NEW t \in Threads, NEW g \in Signals, Emit(t, g)
    PROVE  Sharing'
  <1>1. /\ pc[t] = "idle"
        /\ sig' = [sig EXCEPT ![t] = g]
        /\ pc' = [pc EXCEPT ![t] = "ref"]
        /\ UNCHANGED <<m_slots, count, mutex, m_connected, cleaner, back, ref, slot>>
    BY DEF Emit, sigVars, slotVars
  <1>2. Counted'
    BY <1>1, CountedSame
  <1>3. ThreadTypes' /\ OthersStay(t) /\ pc'[t] = "ref" /\ sig'[t] = g
    BY <1>1 DEF Sharing, SharedTypes, ThreadTypes, OthersStay, Labels
  <1>4. ThreadOK(t)'
    BY <1>1, <1>3 DEF Sharing, RefHeld, ThreadOK, Holds, Walking
  <1>5. SweepStays(t) /\ CleanersStay
    BY <1>1, <1>3 DEF Sharing, SharedTypes, CleanerKnown, SweepStays, CleanersStay
  <1> QED BY <1>2, <1>3, <1>4, <1>5, ThreadFrame

LEMMA SharingReference ==
    ASSUME Sharing, NEW t \in Threads, slots_reference(t)
    PROVE  Sharing'
  <1> DEFINE g == sig[t]
  <1>1. /\ pc[t] = "ref" /\ mutex[g] = None
        /\ ref' = [ref EXCEPT ![t] = m_slots[g]]
        /\ count' = [count EXCEPT ![m_slots[g]] = @ + 1]
        /\ pc' = [pc EXCEPT ![t] = "next"]
        /\ UNCHANGED <<m_slots, mutex, m_connected, cleaner, back, sig, slot>>
    BY DEF slots_reference, slotVars
  <1>2. g \in Signals /\ ref[t] = None /\ None \notin Payloads
    BY <1>1, ConstantsAssumption DEF Sharing, SweepAlone, RefHeld, Holds, Walking
  <1>3. CountInv' /\ count' \in [Payloads -> Nat]
    BY <1>1, <1>2, TakeReference
  <1>4. Counted'
    <2>1. /\ m_slots' \in [Signals -> Payloads] /\ Distinct(m_slots)'
      BY <1>1 DEF Sharing, SharedTypes, Distinct
    <2>2. ASSUME NEW h \in Signals, mutex'[h] # None PROVE count'[m_slots'[h]] = 1
      <3>1. count[m_slots[h]] = 1 /\ h # g
        BY <1>1, <2>2 DEF Sharing, SweepAlone
      <3>2. m_slots[h] # m_slots[g]
        BY <1>2, <3>1 DEF Sharing, Distinct
      <3> QED BY <1>1, <1>2, <3>1, <3>2 DEF Sharing, SharedTypes
    <2> QED BY <1>3, <2>1, <2>2 DEF Counted
  <1>5. /\ ThreadTypes' /\ OthersStay(t)
        /\ pc'[t] = "next" /\ ref'[t] = m_slots[g] /\ ref'[t] \in Payloads
    BY <1>1, <1>2 DEF Sharing, SharedTypes, ThreadTypes, OthersStay, Labels
  <1>6. ThreadOK(t)'
    BY <1>1, <1>2, <1>5 DEF ThreadOK, Holds, Walking
  <1>7. SweepStays(t) /\ CleanersStay
    BY <1>1, <1>5 DEF Sharing, SharedTypes, CleanerKnown, SweepStays, CleanersStay
  <1> QED BY <1>4, <1>5, <1>6, <1>7, ThreadFrame

(* ... and gives it back at the end. *)
LEMMA SharingAdvance ==
    ASSUME Sharing, NEW t \in Threads, Advance(t)
    PROVE  Sharing'
  <1>1. /\ pc[t] = "next"
        /\ UNCHANGED <<m_slots, mutex, m_connected, cleaner, back, slot>>
    BY DEF Advance, emitUnchanged
  <1>2. CASE UNCHANGED <<count, ref, sig, pc>>
    BY <1>1, <1>2, SharingFrame
  <1>3. CASE /\ Release(ref[t])
             /\ ref' = [ref EXCEPT ![t] = None]
             /\ sig' = [sig EXCEPT ![t] = None]
             /\ pc' = [pc EXCEPT ![t] = "idle"]
    <2>1. ref[t] # None
      BY <1>1 DEF Sharing, RefHeld, Holds, Walking
    <2>2. /\ CountInv' /\ count' \in [Payloads -> Nat]
          /\ \A g \in Signals : count[m_slots[g]] = 1 => count'[m_slots[g]] = 1
      BY <1>1, <1>3, <2>1, GiveReference
    <2>3. Counted'
      <3>1. /\ m_slots' \in [Signals -> Payloads] /\ Distinct(m_slots)'
        BY <1>1 DEF Sharing, SharedTypes, Distinct
      <3>2. \A g \in Signals : mutex'[g] # None => count'[m_slots'[g]] = 1
        BY <1>1, <2>2 DEF Sharing, SweepAlone
      <3> QED BY <2>2, <3>1, <3>2 DEF Counted
    <2>4. ThreadTypes' /\ OthersStay(t) /\ pc'[t] = "idle" /\ ref'[t] = None
      BY <1>1, <1>3 DEF Sharing, SharedTypes, ThreadTypes, OthersStay, Labels
    <2>5. ThreadOK(t)'
      BY <2>4 DEF ThreadOK, Holds, Walking
    <2>6. SweepStays(t) /\ CleanersStay
      BY <1>1, <2>4 DEF Sharing, SharedTypes, CleanerKnown, SweepStays, CleanersStay
    <2> QED BY <2>3, <2>4, <2>5, <2>6, ThreadFrame
  <1> QED BY <1>2, <1>3 DEF Advance

(* The steps of an emission between its reference and its end. *)
LEMMA SharingTests ==
    ASSUME Sharing, NEW t \in Threads, TestConnected(t) \/ TestBlocked(t) \/ CallTracked(t) \/ Pass(t)
    PROVE  Sharing'
  <1>1. UNCHANGED <<m_slots, count, mutex, m_connected, cleaner, back, sig, ref, slot>>
    BY DEF TestConnected, TestBlocked, CallTracked, Pass, emitUnchanged
  <1>2. CASE pc' = pc
    BY <1>1, <1>2, SharingFrame
  <1>3. CASE \E l \in Walking : pc' = [pc EXCEPT ![t] = l] /\ pc[t] \in Walking
    <2>1. PICK l \in Walking : pc' = [pc EXCEPT ![t] = l] /\ pc[t] \in Walking
      BY <1>3
    <2>2. l \in Labels \ {"clean", "ref", "sweep"} /\ pc[t] # "sweep"
      BY <2>1 DEF Walking, Labels
    <2>3. Holds(l, back[t]) <=> Holds(pc[t], back[t])
      BY <2>1 DEF Holds
    <2> QED BY <1>1, <2>1, <2>2, <2>3, PcStep
  <1>4. pc' = pc \/ \E l \in Walking : pc' = [pc EXCEPT ![t] = l] /\ pc[t] \in Walking
    BY DEF TestConnected, TestBlocked, CallTracked, Pass, Walking
  <1> QED BY <1>2, <1>3, <1>4

LEMMA SharingCall ==
    ASSUME Sharing, NEW t \in Threads, call_slot(t) \/ Body(t)
    PROVE  Sharing'
  <1>1. /\ UNCHANGED <<m_slots, count, mutex, cleaner, sig, ref>>
        /\ pc[t] \in {"call", "body"}
    BY DEF call_slot, Body, emitUnchanged
  <1>2. Holds(pc[t], back[t]) /\ pc[t] # "sweep"
    BY <1>1 DEF Holds, Walking
  <1>3. CASE \E s : disconnect(t, s, "pass")
    BY <1>1, <1>2, <1>3, DisconnectStep
  <1>4. CASE /\ \E l \in {"body", "pass", "invoke"} : pc' = [pc EXCEPT ![t] = l]
             /\ UNCHANGED <<m_connected, slot, back>>
    <2>1. PICK l \in {"body", "pass", "invoke"} : pc' = [pc EXCEPT ![t] = l]
      BY <1>4
    <2>2. l \in Labels \ {"clean", "ref", "sweep"} /\ Holds(l, back[t])
      BY <2>1 DEF Walking, Labels, Holds
    <2> QED BY <1>1, <1>2, <1>4, <2>1, <2>2, PcStep
  <1>5. \/ \E s : disconnect(t, s, "pass")
        \/ /\ \E l \in {"body", "pass", "invoke"} : pc' = [pc EXCEPT ![t] = l]
           /\ UNCHANGED <<m_connected, slot, back>>
    BY DEF call_slot, Body
  <1> QED BY <1>3, <1>4, <1>5

(* Observers and connections *)
LEMMA SharingObserver ==
    ASSUME Sharing, NEW t \in Threads,
           add_connection(t) \/ \E o \in Observers : DestroyObserver(t, o)
    PROVE  Sharing'
  <1>1. /\ UNCHANGED <<m_slots, count, mutex, m_connected, cleaner, back, sig, ref>>
        /\ slot' \in {slot, [slot EXCEPT ![t] = None]}
        /\ \E l \in {"idle", "dtor"} : pc' = [pc EXCEPT ![t] = l]
        /\ pc[t] \in {"register", "idle"}
    BY DEF add_connection, DestroyObserver, sigVars, slotVars
  <1>2. PICK l \in {"idle", "dtor"} : pc' = [pc EXCEPT ![t] = l]
    BY <1>1
  <1>3. /\ l \in Labels \ {"clean", "ref", "sweep"} /\ pc[t] # "sweep"
        /\ Holds(l, back[t]) <=> Holds(pc[t], back[t])
    BY <1>1, <1>2 DEF Labels, Holds, Walking
  <1> QED BY <1>1, <1>2, <1>3, PcStep

LEMMA SharingConnection ==
    ASSUME Sharing, NEW t \in Threads,
           DropConnection(t) \/ \E s \in Slots : ConnectionDisconnect(t, s)
    PROVE  Sharing'
  <1>1. /\ UNCHANGED <<m_slots, count, mutex, cleaner, sig, ref>>
        /\ pc[t] \in {"dtor", "idle"}
    BY DEF DropConnection, ConnectionDisconnect, sigVars
  <1>2. ~Holds(pc[t], back[t]) /\ pc[t] # "sweep"
    BY <1>1 DEF Holds, Walking
  <1>3. CASE \E s : \E r \in {"idle", "dtor"} : disconnect(t, s, r)
    <2>1. PICK s : \E r \in {"idle", "dtor"} : disconnect(t, s, r)
      BY <1>3
    <2> QED BY <1>1, <1>2, <2>1, DisconnectStep
  <1>4. CASE UNCHANGED <<m_connected, slot, back, pc>>
    BY <1>1, <1>4, SharingFrame
  <1>5. CASE pc' = [pc EXCEPT ![t] = "idle"] /\ UNCHANGED <<m_connected, slot, back>>
    <2>1. "idle" \in Labels \ {"clean", "ref", "sweep"} /\ ~Holds("idle", back[t])
      BY DEF Labels, Holds, Walking
    <2> QED BY <1>1, <1>2, <1>5, <2>1, PcStep
  <1>6. \/ \E s : \E r \in {"idle", "dtor"} : disconnect(t, s, r)
        \/ UNCHANGED <<m_connected, slot, back, pc>>
        \/ pc' = [pc EXCEPT ![t] = "idle"] /\ UNCHANGED <<m_connected, slot, back>>
    BY DEF DropConnection, ConnectionDisconnect
  <1> QED BY <1>3, <1>4, <1>5, <1>6

LEMMA SharingErase ==
    ASSUME Sharing, NEW g \in Signals, disconnect_all(g) \/ \E n : DisconnectGroup(g, n)
    PROVE  Sharing'
  <1>1. /\ \E l : cow_write(g, l)
        /\ mutex[g] = None
        /\ UNCHANGED <<mutex, m_connected, cleaner, pc, back, sig, ref, slot>>
    BY DEF disconnect_all, DisconnectGroup, slotVars
  <1> QED BY <1>1, SharingWrite

LEMMA SharingFlags ==
    ASSUME Sharing,
           \/ \E s \in Slots : SetBlocked(s)
           \/ \E g \in Signals : SetMuted(g)
           \/ \E o \in Objects : DropObject(o)
    PROVE  Sharing'
  <1>1. UNCHANGED <<m_slots, count, mutex, m_connected, cleaner, pc, back, sig, ref, slot>>
    BY DEF SetBlocked, SetMuted, DropObject, sigVars, slotVars
  <1> QED BY <1>1, SharingFrame

LEMMA SharingStep ==
    Sharing /\ [Next]_vars => Sharing'
  <1> SUFFICES ASSUME Sharing, [Next]_vars
               PROVE  Sharing'
    OBVIOUS
  <1>1. ASSUME NEW t \in Threads, Step(t) PROVE Sharing'
    BY <1>1, SharingObserver, SharingClean, SharingSweep, SharingReference, SharingAdvance,
       SharingTests, SharingCall, SharingConnection DEF Step
  <1>2. ASSUME NEW t \in Threads, Begin(t) PROVE Sharing'
    BY <1>2, SharingConnectObserver, SharingConnection, SharingDisconnectIf, SharingEmit,
       SharingObserver DEF Begin
  <1>3. CASE \E g \in Signals, s \in Slots : Connect(g, s)
    BY <1>3, SharingConnect
  <1>4. CASE \/ \E g \in Signals, s \in Slots : DisconnectGroup(g, Group[s])
             \/ \E g \in Signals : disconnect_all(g)
    BY <1>4, SharingErase
  <1>5. CASE \E g, h \in Signals : Move(g, h)
    BY <1>5, SharingMove
  <1>6. CASE \/ \E s \in Slots : SetBlocked(s)
             \/ \E g \in Signals : SetMuted(g)
             \/ \E o \in Objects : DropObject(o)
    BY <1>6, SharingFlags
  <1>7. CASE UNCHANGED vars
    BY <1>7, SharingFrame DEF vars, sigVars, slotVars
  <1> QED BY <1>1, <1>2, <1>3, <1>4, <1>5, <1>6, <1>7 DEF Next

LEMMA SharingInit ==
    Init => Sharing
  <1> SUFFICES ASSUME Init PROVE Sharing
    OBVIOUS
  <1>1. Initial \in [Signals -> Payloads] /\ Distinct(Initial)
    BY InitialAssumption DEF Initial
  <1>2. /\ m_slots = Initial
        /\ count = [q \in Payloads |-> IF \E g \in Signals : Initial[g] = q THEN 1 ELSE 0]
        /\ mutex = [g \in Signals |-> None]
        /\ m_connected = Elements(Opening)
        /\ cleaner = [s \in Slots |-> IF s \in Elements(Opening) THEN Main ELSE None]
        /\ pc = [t \in Threads |-> "idle"]
        /\ back = [t \in Threads |-> "idle"]
        /\ sig = [t \in Threads |-> None]
        /\ ref = [t \in Threads |-> None]
        /\ slot = [t \in Threads |-> None]
    BY DEF Init
  <1>3. Elements(Opening) \subseteq Slots
    <2>1. ASSUME NEW a \in DOMAIN Opening PROVE Opening[a].slts \in Seq(Slots)
      <3>1. Opening \in Seq([gid : Int, slts : Seq(Slots)])
        BY InitialAssumption DEF Lists
      <3>2. Opening[a] \in [gid : Int, slts : Seq(Slots)]
        BY <3>1, SeqElement
      <3> QED BY <3>2
    <2>2. \A a \in DOMAIN Opening : \A b \in DOMAIN Opening[a].slts : Opening[a].slts[b] \in Slots
      BY <2>1
    <2> QED BY <2>2 DEF Elements
  <1>4. SharedTypes
    BY <1>1, <1>2, <1>3, InitialAssumption DEF SharedTypes, Labels
  <1>5. CountInv
    <2>1. ASSUME NEW p \in Payloads
          PROVE  count[p] = Cardinality(Fiber(m_slots, Signals, p))
                            + Cardinality(Fiber(ref, Threads, p))
      <3>1. Fiber(ref, Threads, p) = {}
        BY <1>2, ConstantsAssumption DEF Fiber
      <3>2. CASE \E g \in Signals : Initial[g] = p
        <4>1. PICK g \in Signals : Initial[g] = p
          BY <3>2
        <4>2. Fiber(m_slots, Signals, p) = {g}
          BY <1>1, <1>2, <4>1 DEF Fiber, Distinct
        <4>3. count[p] = 1
          BY <1>2, <3>2
        <4> QED BY <3>1, <4>2, <4>3, FS_Singleton, FS_EmptySet
      <3>3. CASE ~ \E g \in Signals : Initial[g] = p
        <4>1. Fiber(m_slots, Signals, p) = {}
          BY <1>2, <3>3 DEF Fiber
        <4>2. count[p] = 0
          BY <1>2, <3>3
        <4> QED BY <3>1, <4>1, <4>2, FS_EmptySet
      <3> QED BY <3>2, <3>3
    <2> QED BY <2>1, CountFibers
  <1>6. CleanerKnown
    BY <1>2, <1>3, InitialAssumption DEF CleanerKnown
  <1>7. RefHeld
    BY <1>2 DEF RefHeld, Holds, Walking
  <1>8. SweepAlone
    BY <1>2 DEF SweepAlone
  <1> QED BY <1>1, <1>2, <1>4, <1>5, <1>6, <1>7, <1>8 DEF Sharing

LEMMA SharingAlways ==
    Spec => []Sharing
  BY SharingInit, SharingStep, PTL DEF Spec

-----------------------------------------------------------------------------
(* copy_on_write (signal.hpp:406-487): whatever signals, slots and threads  *)
(* there are, the count of a payload is the number of signals and emissions *)
(* that refer to it.                                                        *)
THEOREM CountsRight == Spec => []CountInv
  <1>1. Sharing => CountInv
    BY DEF Sharing
  <1> QED BY <1>1, SharingAlways, PTL

(* Every step that writes a payload leaves those of the emissions alone. *)
LEMMA ValuesStay ==
    ASSUME Sharing, [Next]_vars
    PROVE  \A t \in Threads : Emitting(t) /\ ref'[t] = ref[t] => value'[ref[t]] = value[ref[t]]
  <1> DEFINE Stay == \A t \in Threads :
                        ref[t] # None /\ ref'[t] = ref[t] => value'[ref[t]] = value[ref[t]]
  <1> SUFFICES Stay
    BY DEF Emitting
  <1>1. CASE value' = value
    BY <1>1
  <1>2. CASE ref' = ref /\ \E g \in Signals : \E l : cow_write(g, l)
    BY <1>2, CowWrite
  <1>3. ASSUME NEW t \in Threads, Sweep(t) PROVE Stay
    <2>1. /\ pc[t] = "sweep" /\ ref' = ref
          /\ value' = value \/ \E l : value' = [value EXCEPT ![m_slots[sig[t]]] = l]
      BY <1>3 DEF Sweep
    <2>2. sig[t] \in Signals /\ mutex[sig[t]] = t /\ t # None
      BY <2>1, ConstantsAssumption DEF Sharing, SweepAlone
    <2>3. count[m_slots[sig[t]]] = 1
      BY <2>2 DEF Sharing, SweepAlone
    <2>4. \A u \in Threads : ref[u] # m_slots[sig[t]]
      BY <2>2, <2>3, Alone
    <2>5. CASE value' = value
      BY <2>5
    <2>6. CASE \E l : value' = [value EXCEPT ![m_slots[sig[t]]] = l]
      <3>1. PICK l : value' = [value EXCEPT ![m_slots[sig[t]]] = l]
        BY <2>6
      <3> QED BY <2>4, <3>1
    <2> QED BY <2>1, <2>5, <2>6
  <1>4. ASSUME NEW t \in Threads, Advance(t) PROVE Stay
    <2>1. CASE value' = value
      BY <2>1
    <2>2. CASE /\ Release(ref[t])
               /\ ref' = [ref EXCEPT ![t] = None]
      <3>1. ref[t] # None
        BY <1>4 DEF Advance, Sharing, RefHeld, Holds, Walking
      <3>2. m_slots' = m_slots
        BY <1>4 DEF Advance, emitUnchanged
      <3>3. \A u \in Threads : u # t /\ ref[u] # None => value'[ref[u]] = value[ref[u]]
        BY <2>2, <3>1, <3>2, GiveReference
      <3>4. ref'[t] = None
        BY <2>2 DEF Sharing, SharedTypes
      <3> QED BY <3>1, <3>3, <3>4
    <2> QED BY <1>4, <2>1, <2>2 DEF Advance
  <1>5. ASSUME NEW t \in Threads, Step(t) PROVE Stay
    <2>1. CASE clean(t)
      <3>1. /\ ref' = ref /\ pc[t] = "clean"
            /\ \E l : cow_write(cleaner[slot[t]], l)
        BY <2>1 DEF clean
      <3>2. cleaner[slot[t]] \in Signals
        BY <3>1 DEF Sharing, CleanerKnown
      <3> QED BY <1>2, <3>1, <3>2
    <2>2. CASE add_connection(t) \/ slots_reference(t) \/ DropConnection(t)
      BY <1>1, <2>2 DEF add_connection, slots_reference, DropConnection, sigVars
    <2>3. CASE TestConnected(t) \/ TestBlocked(t) \/ call_slot(t) \/ Body(t) \/ CallTracked(t) \/ Pass(t)
      BY <1>1, <2>3 DEF TestConnected, TestBlocked, call_slot, Body, CallTracked, Pass
    <2> QED BY <1>3, <1>4, <1>5, <2>1, <2>2, <2>3 DEF Step
  <1>6. ASSUME NEW t \in Threads, Begin(t) PROVE Stay
    <2>1. CASE \E g \in Signals, s \in Slots : ConnectObserver(t, g, s)
      BY <1>2, <2>1 DEF ConnectObserver, MakeSlot
    <2>2. CASE \E g \in Signals, c \in Callables \cup {None}, o \in Objects \cup {None} :
                  disconnect_if(t, g, c, o)
      BY <1>2, <2>2 DEF disconnect_if
    <2>3. CASE \/ \E s \in Slots : ConnectionDisconnect(t, s)
               \/ \E g \in Signals : Emit(t, g)
               \/ \E o \in Observers : DestroyObserver(t, o)
      BY <1>1, <2>3 DEF ConnectionDisconnect, Emit, DestroyObserver, sigVars
    <2> QED BY <1>6, <2>1, <2>2, <2>3 DEF Begin
  <1>7. CASE \E g \in Signals, s \in Slots : Connect(g, s)
    BY <1>2, <1>7 DEF Connect, MakeSlot
  <1>8. CASE \/ \E g \in Signals, s \in Slots : DisconnectGroup(g, Group[s])
             \/ \E g \in Signals : disconnect_all(g)
    BY <1>2, <1>8 DEF DisconnectGroup, disconnect_all
  <1>9. CASE \/ \E g \in Signals : SetMuted(g)
             \/ \E g, h \in Signals : Move(g, h)
             \/ \E s \in Slots : SetBlocked(s)
             \/ \E o \in Objects : DropObject(o)
             \/ UNCHANGED vars
    BY <1>1, <1>9 DEF SetMuted, Move, SetBlocked, DropObject, vars, sigVars
  <1> QED BY <1>5, <1>6, <1>7, <1>8, <1>9 DEF Next

(* slots_reference (signal.hpp:1220): no writer, whichever thread it runs   *)
(* in, changes the list an emission walks through, for any number of        *)
(* signals, slots and threads.                                              *)
THEOREM EmissionsUndisturbed == Spec => SnapshotStable
  <1>1. Sharing /\ [Next]_vars =>
           [\A t \in Threads : Emitting(t) /\ ref'[t] = ref[t] => value'[ref[t]] = value[ref[t]]]_vars
    BY ValuesStay
  <1> QED BY <1>1, SharingAlways, PTL DEF Spec, SnapshotStable

-----------------------------------------------------------------------------
(* Slot lists and their indices *)

Groups == [gid : Int, slts : Seq(Slots)]

Good(l, index) == l \in Lists /\ Ascending(l) /\ Indexed(l, index)

IndexAt(ix, s, k) == [ix EXCEPT ![s] = k]

Appended(w, p, s) == [w EXCEPT ![p] = [w[p] EXCEPT !.slts = Append(w[p].slts, s)]]

(* What it means to be in Lists. *)
LEMMA ListFacts ==
    ASSUME NEW l \in Lists
    PROVE  /\ l \in Seq(Groups) /\ Len(l) \in Nat /\ DOMAIN l = 1..Len(l)
           /\ \A a \in 1..Len(l) : /\ l[a] \in Groups /\ l[a].gid \in Int
                                   /\ l[a].slts \in Seq(Slots)
                                   /\ Len(l[a].slts) \in Nat
                                   /\ DOMAIN l[a].slts = 1..Len(l[a].slts)
                                   /\ \A b \in 1..Len(l[a].slts) : l[a].slts[b] \in Slots
  <1>1. l \in Seq(Groups)
    BY DEF Lists, Groups
  <1>2. Len(l) \in Nat /\ DOMAIN l = 1..Len(l)
    BY <1>1
  <1>3. ASSUME NEW a \in 1..Len(l)
        PROVE  /\ l[a] \in Groups /\ l[a].gid \in Int
               /\ l[a].slts \in Seq(Slots)
               /\ Len(l[a].slts) \in Nat
               /\ DOMAIN l[a].slts = 1..Len(l[a].slts)
               /\ \A b \in 1..Len(l[a].slts) : l[a].slts[b] \in Slots
    <2>1. l[a] \in Groups
      BY <1>1, <1>2, SeqElement
    <2>2. l[a].gid \in Int /\ l[a].slts \in Seq(Slots)
      BY <2>1 DEF Groups
    <2>3. /\ Len(l[a].slts) \in Nat
          /\ DOMAIN l[a].slts = 1..Len(l[a].slts)
      BY <2>2
    <2>4. \A b \in 1..Len(l[a].slts) : l[a].slts[b] \in Slots
      BY <2>2, <2>3, SeqElement
    <2> QED BY <2>1, <2>2, <2>3, <2>4
  <1> QED BY <1>1, <1>2, <1>3

LEMMA ListIntro ==
    ASSUME NEW n \in Nat, NEW l \in [1..n -> Groups]
    PROVE  l \in Lists /\ Len(l) = n
  <1>1. l \in Seq(Groups)
    BY SeqDef
  <1> QED BY <1>1 DEF Lists, Groups

LEMMA GroupIntro ==
    ASSUME NEW n \in Nat, NEW f \in [1..n -> Slots]
    PROVE  f \in Seq(Slots) /\ Len(f) = n
  BY SeqDef

LEMMA ElementsOf ==
    ASSUME NEW l \in Lists, NEW s
    PROVE  s \in Elements(l) <=> \E a \in 1..Len(l) : \E b \in 1..Len(l[a].slts) : l[a].slts[b] = s
  <1>1. /\ DOMAIN l = 1..Len(l)
        /\ \A a \in 1..Len(l) : DOMAIN l[a].slts = 1..Len(l[a].slts)
    BY ListFacts
  <1> QED BY <1>1 DEF Elements

(* Good in terms of positions. *)
LEMMA AscendingElim ==
    ASSUME NEW l \in Lists, Ascending(l)
    PROVE  \A a, c \in 1..Len(l) : a < c => l[a].gid < l[c].gid
  <1>1. DOMAIN l = 1..Len(l)
    BY ListFacts
  <1> QED BY <1>1 DEF Ascending

LEMMA AscendingIntro ==
    ASSUME NEW l \in Lists, \A a, c \in 1..Len(l) : a < c => l[a].gid < l[c].gid
    PROVE  Ascending(l)
  <1>1. DOMAIN l = 1..Len(l)
    BY ListFacts
  <1> QED BY <1>1 DEF Ascending

LEMMA IndexedElim ==
    ASSUME NEW l \in Lists, NEW ix, Indexed(l, ix), NEW a \in 1..Len(l), NEW b \in 1..Len(l[a].slts)
    PROVE  Group[l[a].slts[b]] = l[a].gid /\ ix[l[a].slts[b]] = b - 1
  <1>1. a \in DOMAIN l /\ b \in DOMAIN l[a].slts
    BY ListFacts
  <1> QED BY <1>1 DEF Indexed

LEMMA IndexedIntro ==
    ASSUME NEW l \in Lists, NEW ix,
           \A a \in 1..Len(l) : \A b \in 1..Len(l[a].slts) :
               Group[l[a].slts[b]] = l[a].gid /\ ix[l[a].slts[b]] = b - 1
    PROVE  Indexed(l, ix)
  <1>1. /\ DOMAIN l = 1..Len(l)
        /\ \A a \in 1..Len(l) : DOMAIN l[a].slts = 1..Len(l[a].slts)
    BY ListFacts
  <1> QED BY <1>1 DEF Indexed

(* In a good list every slot is in one place. *)
LEMMA OnePosition ==
    ASSUME NEW l, NEW ix, Good(l, ix),
           NEW a \in 1..Len(l), NEW b \in 1..Len(l[a].slts),
           NEW c \in 1..Len(l), NEW d \in 1..Len(l[c].slts),
           l[a].slts[b] = l[c].slts[d]
    PROVE  a = c /\ b = d
  <1>1. /\ l \in Lists /\ Len(l) \in Nat
        /\ \A e \in 1..Len(l) : l[e].gid \in Int /\ Len(l[e].slts) \in Nat
    BY ListFacts DEF Good
  <1>2. l[a].gid = l[c].gid /\ b - 1 = d - 1
    <2>1. Group[l[a].slts[b]] = l[a].gid /\ ix[l[a].slts[b]] = b - 1
      BY <1>1, IndexedElim DEF Good
    <2>2. Group[l[c].slts[d]] = l[c].gid /\ ix[l[c].slts[d]] = d - 1
      BY <1>1, IndexedElim DEF Good
    <2> QED BY <2>1, <2>2
  <1>3. /\ a < c => l[a].gid < l[c].gid
        /\ c < a => l[c].gid < l[a].gid
    BY <1>1, AscendingElim DEF Good
  <1> QED BY <1>1, <1>2, <1>3

(* A slot that is not in the list does not matter for it. *)
LEMMA OtherIndex ==
    ASSUME NEW l \in Lists, NEW ix, NEW jx, Indexed(l, ix), 
           \A s \in Elements(l) : jx[s] = ix[s]
    PROVE  Indexed(l, jx)
  <1>1. ASSUME NEW a \in 1..Len(l), NEW b \in 1..Len(l[a].slts)
        PROVE  Group[l[a].slts[b]] = l[a].gid /\ jx[l[a].slts[b]] = b - 1
    <2>1. Group[l[a].slts[b]] = l[a].gid /\ ix[l[a].slts[b]] = b - 1
      BY IndexedElim
    <2>2. l[a].slts[b] \in Elements(l)
      BY ElementsOf
    <2> QED BY <2>1, <2>2
  <1> QED BY <1>1, IndexedIntro

-----------------------------------------------------------------------------
(* Removing a slot *)

Last(l, a) == l[a].slts[Len(l[a].slts)]

LEMMA PoppedGood ==
    ASSUME NEW l, NEW ix \in [Slots -> Nat], Good(l, ix),
           NEW a \in 1..Len(l), NEW b \in 1..Len(l[a].slts)
    PROVE  /\ Good(Popped(l, a, b), IndexAt(ix, Last(l, a), b - 1))
           /\ Elements(Popped(l, a, b)) \subseteq Elements(l)
           /\ IndexAt(ix, Last(l, a), b - 1) \in [Slots -> Nat]
           /\ Last(l, a) \in Elements(l)
  <1> DEFINE jx == IndexAt(ix, Last(l, a), b - 1)
             m == Popped(l, a, b)
             n == Len(l[a].slts)
             last == l[a].slts[n]
             rest == SwapPop(l[a].slts, b)
  <1>1. /\ l \in Lists /\ Len(l) \in Nat /\ DOMAIN l = 1..Len(l)
        /\ \A e \in 1..Len(l) : /\ l[e] \in Groups /\ l[e].gid \in Int
                                /\ Len(l[e].slts) \in Nat
                                /\ \A f \in 1..Len(l[e].slts) : l[e].slts[f] \in Slots
    BY ListFacts DEF Good
  <1>2. n \in Nat /\ n >= 1 /\ b <= n /\ last \in Slots /\ n - 1 \in Nat
    BY <1>1
  <1>3. /\ rest \in Seq(Slots) /\ Len(rest) = n - 1
        /\ \A j \in 1..(n - 1) : rest[j] = IF j = b THEN last ELSE l[a].slts[j]
    <2>1. rest \in [1..(n - 1) -> Slots]
      BY <1>1, <1>2 DEF SwapPop
    <2>2. \A j \in 1..(n - 1) : rest[j] = IF j = b THEN last ELSE l[a].slts[j]
      BY DEF SwapPop
    <2> QED BY <1>2, <2>1, <2>2, GroupIntro
  <1>4. /\ m \in [1..Len(l) -> Groups]
        /\ m[a].gid = l[a].gid /\ m[a].slts = rest
        /\ \A e \in 1..Len(l) : e # a => m[e] = l[e]
    <2>1. m = [l EXCEPT ![a] = [l[a] EXCEPT !.slts = rest]]
      BY <1>1 DEF Popped
    <2>2. [l[a] EXCEPT !.slts = rest] \in Groups
      BY <1>1, <1>3 DEF Groups
    <2>3. /\ [l[a] EXCEPT !.slts = rest].gid = l[a].gid
          /\ [l[a] EXCEPT !.slts = rest].slts = rest
      BY <1>1 DEF Groups
    <2>4. l \in [1..Len(l) -> Groups]
      BY <1>1, ListFacts
    <2> HIDE DEF m, rest
    <2> QED BY <2>1, <2>2, <2>3, <2>4
  <1>5. m \in Lists /\ Len(m) = Len(l)
    BY <1>1, <1>4, ListIntro
  <1>6. jx \in [Slots -> Nat] /\ jx[last] = b - 1 /\ \A s \in Slots : s # last => jx[s] = ix[s]
    BY <1>2 DEF IndexAt, Last
  <1> HIDE DEF m, rest, last, n, jx
  <1>7. Ascending(m)
    <2>1. \A e \in 1..Len(l) : m[e].gid = l[e].gid
      BY <1>4
    <2>2. \A e, c \in 1..Len(l) : e < c => l[e].gid < l[c].gid
      BY <1>1, AscendingElim DEF Good
    <2>3. \A e, c \in 1..Len(m) : e < c => m[e].gid < m[c].gid
      BY <1>5, <2>1, <2>2
    <2> QED BY <1>5, <2>3, AscendingIntro
  <1>8. Indexed(m, jx)
    <2>1. ASSUME NEW c \in 1..Len(l), NEW d \in 1..Len(m[c].slts)
          PROVE  Group[m[c].slts[d]] = m[c].gid /\ jx[m[c].slts[d]] = d - 1
      <3>1. \A e \in 1..Len(l) : \A f \in 1..Len(l[e].slts) :
               Group[l[e].slts[f]] = l[e].gid /\ ix[l[e].slts[f]] = f - 1
        BY <1>1, IndexedElim DEF Good
      <3>2. n = Len(l[a].slts) /\ last = l[a].slts[n] /\ n \in 1..Len(l[a].slts)
        BY <1>2 DEF n, last
      <3>3. CASE c # a
        <4>1. m[c] = l[c] /\ d \in 1..Len(l[c].slts)
          BY <1>4, <3>3
        <4>2. l[c].slts[d] # last
          BY <3>2, <3>3, <4>1, OnePosition
        <4>3. l[c].slts[d] \in Slots
          BY <1>1, <4>1
        <4> QED BY <1>6, <3>1, <4>1, <4>2, <4>3
      <3>4. CASE c = a
        <4>1. d \in 1..(n - 1) /\ m[c].gid = l[a].gid
              /\ m[c].slts[d] = IF d = b THEN last ELSE l[a].slts[d]
          BY <1>3, <1>4, <3>4
        <4>2. CASE d = b
          <5>1. m[c].slts[d] = last /\ jx[last] = d - 1
            BY <1>6, <4>1, <4>2
          <5>2. Group[last] = l[a].gid
            BY <3>1, <3>2
          <5> QED BY <4>1, <5>1, <5>2
        <4>3. CASE d # b
          <5>1. m[c].slts[d] = l[a].slts[d] /\ d \in 1..Len(l[a].slts) /\ d # n
            BY <1>2, <3>2, <4>1, <4>3
          <5>2. l[a].slts[d] # last
            BY <3>2, <5>1, OnePosition
          <5>3. l[a].slts[d] \in Slots
            BY <1>1, <5>1
          <5> QED BY <1>6, <3>1, <4>1, <5>1, <5>2, <5>3
        <4> QED BY <4>2, <4>3
      <3> QED BY <3>3, <3>4
    <2>2. \A c \in 1..Len(m) : \A d \in 1..Len(m[c].slts) :
             Group[m[c].slts[d]] = m[c].gid /\ jx[m[c].slts[d]] = d - 1
      BY <1>5, <2>1
    <2> HIDE DEF m
    <2>3. m \in Lists
      BY <1>5
    <2> QED BY ONLY <2>2, <2>3, IndexedIntro
  <1>9. Elements(m) \subseteq Elements(l) /\ last \in Elements(l)
    <2>1. ASSUME NEW s \in Elements(m) PROVE s \in Elements(l)
      <3>0. PICK c \in 1..Len(l) : \E d \in 1..Len(m[c].slts) : m[c].slts[d] = s
        BY <1>5, <2>1, ElementsOf
      <3>1. PICK d \in 1..Len(m[c].slts) : m[c].slts[d] = s
        BY <3>0
      <3>2. CASE c # a
        BY <1>1, <1>4, <3>1, <3>2, ElementsOf
      <3>3. CASE c = a
        <4>1. d \in 1..(n - 1) /\ m[c].slts[d] = IF d = b THEN last ELSE l[a].slts[d]
          BY <1>3, <1>4, <3>1, <3>3
        <4>2. \E f \in 1..Len(l[a].slts) : l[a].slts[f] = s
          <5>1. n = Len(l[a].slts) /\ last = l[a].slts[n] /\ n \in 1..n /\ d \in 1..n
            BY <1>2, <4>1 DEF n, last
          <5>2. CASE d = b
            BY <3>1, <4>1, <5>1, <5>2
          <5>3. CASE d # b
            BY <3>1, <4>1, <5>1, <5>3
          <5> QED BY <5>2, <5>3
        <4> QED BY <1>1, <4>2, ElementsOf
      <3> QED BY <3>2, <3>3
    <2>2. n \in 1..Len(l[a].slts) /\ last = l[a].slts[n]
      BY <1>2 DEF n, last
    <2>3. last \in Elements(l)
      BY <1>1, <2>2, ElementsOf
    <2> QED BY <2>1, <2>3
  <1> QED BY <1>5, <1>6, <1>7, <1>8, <1>9 DEF Good, m, last, n, jx, Last

-----------------------------------------------------------------------------
(* Adding a slot *)

(* The loop of add_slot finds the first group that is not before gid. *)
LEMMA SpotExists ==
    ASSUME NEW l \in Lists, NEW gid \in Int
    PROVE  /\ Spot(l, gid) \in 1..(Len(l) + 1)
           /\ Spot(l, gid) <= Len(l) => l[Spot(l, gid)].gid >= gid
           /\ \A b \in 1..(Spot(l, gid) - 1) : l[b].gid < gid
  <1> DEFINE Fits(a) == /\ a <= Len(l) => l[a].gid >= gid
                        /\ \A b \in 1..(a - 1) : l[b].gid < gid
             T == {a \in 1..(Len(l) + 1) : a <= Len(l) => l[a].gid >= gid}
  <1>1. Len(l) \in Nat /\ \A a \in 1..Len(l) : l[a].gid \in Int
    BY ListFacts
  <1>2. Len(l) + 1 \in T /\ T \subseteq Nat
    BY <1>1
  <1>3. PICK a \in T : \A b \in T : ~(<<b, a>> \in OpToRel(<, Nat))
    <2> HIDE DEF T
    <2>1. T # {}
      BY <1>2
    <2> QED BY <1>2, <2>1, NatLessThanWellFounded, WFMin
  <1>4. \A b \in T : ~(b < a)
    BY <1>2, <1>3 DEF OpToRel
  <1>5. ASSUME NEW b \in 1..(a - 1) PROVE l[b].gid < gid
    <2>1. b \in 1..(Len(l) + 1) /\ b < a
      BY <1>1
    <2>2. b \notin T
      BY <1>4, <2>1
    <2>3. b <= Len(l) /\ ~(l[b].gid >= gid)
      BY <2>1, <2>2
    <2> QED BY <1>1, <2>1, <2>3
  <1>6. a \in 1..(Len(l) + 1) /\ Fits(a)
    BY <1>5
  <1>7. Spot(l, gid) = CHOOSE c \in 1..(Len(l) + 1) : Fits(c)
    BY DEF Spot
  <1> HIDE DEF Fits
  <1>8. Spot(l, gid) \in 1..(Len(l) + 1) /\ Fits(Spot(l, gid))
    BY <1>6, <1>7
  <1> QED BY <1>8 DEF Fits

(* The group gid is there afterwards, and nothing else has changed. *)
LEMMA WithGroupGood ==
    ASSUME NEW l, NEW ix, Good(l, ix), NEW gid \in Int
    PROVE  /\ Good(WithGroup(l, gid), ix)
           /\ Spot(l, gid) \in 1..Len(WithGroup(l, gid))
           /\ WithGroup(l, gid)[Spot(l, gid)].gid = gid
           /\ Elements(WithGroup(l, gid)) \subseteq Elements(l)
  <1> DEFINE p == Spot(l, gid)
             w == WithGroup(l, gid)
  <1>1. /\ l \in Lists /\ Len(l) \in Nat
        /\ \A e \in 1..Len(l) : l[e] \in Groups /\ l[e].gid \in Int
    BY ListFacts DEF Good
  <1>2. /\ p \in 1..(Len(l) + 1)
        /\ p <= Len(l) => l[p].gid >= gid
        /\ \A b \in 1..(p - 1) : l[b].gid < gid
    BY <1>1, SpotExists
  <1>3. CASE HasGroup(l, gid)
    BY <1>2, <1>3 DEF WithGroup, HasGroup
  <1>4. CASE ~HasGroup(l, gid)
    <2> DEFINE empty == [gid |-> gid, slts |-> <<>>]
    <2>1. w = [a \in 1..(Len(l) + 1) |->
                 CASE a < p -> l[a] [] a = p -> empty [] OTHER -> l[a - 1]]
      BY <1>4 DEF WithGroup
    <2>2. empty \in Groups /\ empty.gid = gid /\ Len(empty.slts) = 0
      BY DEF Groups
    <2> HIDE DEF empty
    <2>3. /\ \A a \in 1..(Len(l) + 1) : /\ a < p => w[a] = l[a] /\ a \in 1..Len(l)
                                        /\ a = p => w[a] = empty
                                        /\ a > p => w[a] = l[a - 1] /\ a - 1 \in 1..Len(l)
      BY <1>1, <1>2, <2>1
    <2>4. w \in [1..(Len(l) + 1) -> Groups]
      <3>1. \A a \in 1..(Len(l) + 1) : w[a] \in Groups
        BY <1>1, <1>2, <2>2, <2>3
      <3> QED BY <2>1, <3>1
    <2>5. w \in Lists /\ Len(w) = Len(l) + 1
      BY <1>1, <2>4, ListIntro
    <2> HIDE DEF w, p
    <2>6. p <= Len(l) => l[p].gid > gid
      BY <1>1, <1>2, <1>4 DEF HasGroup, p
    <2>7. \A e, c \in 1..Len(l) : e < c => l[e].gid < l[c].gid
      BY <1>1, AscendingElim DEF Good
    <2>8. \A e \in 1..Len(l) : e >= p => l[e].gid > gid
      BY <1>1, <1>2, <2>6, <2>7
    <2>9. \A e \in 1..Len(l) : e < p => l[e].gid < gid
      BY <1>1, <1>2
    <2>10. Ascending(w)
      <3>1. ASSUME NEW e \in 1..(Len(l) + 1), NEW c \in 1..(Len(l) + 1), e < c
            PROVE  w[e].gid < w[c].gid
        <4>1. CASE c < p
          BY <1>1, <1>2, <2>3, <2>7, <3>1, <4>1
        <4>2. CASE c = p
          BY <1>1, <1>2, <2>2, <2>3, <2>9, <3>1, <4>2
        <4>3. CASE c > p /\ e < p
          <5>1. w[e] = l[e] /\ w[c] = l[c - 1] /\ e \in 1..Len(l) /\ c - 1 \in 1..Len(l)
            BY <2>3, <4>3
          <5>2. l[e].gid < gid /\ l[c - 1].gid > gid
            BY <1>2, <2>8, <2>9, <4>3, <5>1
          <5> QED BY <1>1, <5>1, <5>2
        <4>4. CASE c > p /\ e = p
          <5>1. w[e].gid = gid /\ w[c] = l[c - 1] /\ c - 1 \in 1..Len(l)
            BY <2>2, <2>3, <4>4
          <5>2. l[c - 1].gid > gid
            BY <1>2, <2>8, <4>4, <5>1
          <5> QED BY <1>1, <5>1, <5>2
        <4>5. CASE c > p /\ e > p
          <5>1. w[e] = l[e - 1] /\ w[c] = l[c - 1] /\ e - 1 \in 1..Len(l) /\ c - 1 \in 1..Len(l)
            BY <2>3, <4>5
          <5>2. e - 1 < c - 1
            BY <3>1
          <5> QED BY <2>7, <5>1, <5>2
        <4> QED BY <1>2, <4>1, <4>2, <4>3, <4>4, <4>5
      <3>2. \A e, c \in 1..Len(w) : e < c => w[e].gid < w[c].gid
        BY <2>5, <3>1
      <3> QED BY <2>5, <3>2, AscendingIntro
    <2>11. ASSUME NEW c \in 1..(Len(l) + 1), NEW d \in 1..Len(w[c].slts)
           PROVE  \E e \in 1..Len(l) : w[c] = l[e] /\ d \in 1..Len(l[e].slts)
      <3>1. c # p
        BY <2>2, <2>3, <2>11
      <3>2. c < p \/ c > p
        BY <1>1, <1>2, <3>1
      <3>3. \E e \in 1..Len(l) : w[c] = l[e]
        BY <2>3, <3>2
      <3> QED BY <3>3, <2>11
    <2>12. Indexed(w, ix)
      <3>1. \A c \in 1..Len(w) : \A d \in 1..Len(w[c].slts) :
               Group[w[c].slts[d]] = w[c].gid /\ ix[w[c].slts[d]] = d - 1
        <4>1. SUFFICES ASSUME NEW c \in 1..(Len(l) + 1), NEW d \in 1..Len(w[c].slts)
                       PROVE  Group[w[c].slts[d]] = w[c].gid /\ ix[w[c].slts[d]] = d - 1
          BY <2>5
        <4>2. PICK e \in 1..Len(l) : w[c] = l[e] /\ d \in 1..Len(l[e].slts)
          BY <2>11
        <4>3. Group[l[e].slts[d]] = l[e].gid /\ ix[l[e].slts[d]] = d - 1
          BY <1>1, <4>2, IndexedElim DEF Good
        <4> QED BY <4>2, <4>3
      <3> QED BY <2>5, <3>1, IndexedIntro, SMTT(60)
    <2>13. Elements(w) \subseteq Elements(l)
      <3>1. ASSUME NEW s \in Elements(w) PROVE s \in Elements(l)
        <4>1. PICK c \in 1..(Len(l) + 1) : \E d \in 1..Len(w[c].slts) : w[c].slts[d] = s
          BY <2>5, <3>1, ElementsOf
        <4>2. PICK d \in 1..Len(w[c].slts) : w[c].slts[d] = s
          BY <4>1
        <4>3. PICK e \in 1..Len(l) : w[c] = l[e] /\ d \in 1..Len(l[e].slts)
          BY <2>11
        <4> QED BY <1>1, <4>2, <4>3, ElementsOf
      <3> QED BY <3>1
    <2>14. p \in 1..Len(w) /\ w[p].gid = gid
      BY <1>2, <2>2, <2>3, <2>5
    <2> QED BY <2>5, <2>10, <2>12, <2>13, <2>14 DEF Good, w, p
  <1> QED BY <1>3, <1>4

(* A slot that is nowhere in the list is appended to its group. *)
LEMMA AppendGood ==
    ASSUME NEW w, NEW ix \in [Slots -> Nat], Good(w, ix), NEW p \in 1..Len(w), NEW s \in Slots,
           w[p].gid = Group[s], s \notin Elements(w)
    PROVE  /\ Good(Appended(w, p, s), IndexAt(ix, s, Len(w[p].slts)))
           /\ IndexAt(ix, s, Len(w[p].slts)) \in [Slots -> Nat]
           /\ Elements(Appended(w, p, s)) \subseteq Elements(w) \cup {s}
  <1> DEFINE m == Appended(w, p, s)
             jx == IndexAt(ix, s, Len(w[p].slts))
             n == Len(w[p].slts)
             ext == Append(w[p].slts, s)
  <1>1. /\ w \in Lists /\ Len(w) \in Nat /\ DOMAIN w = 1..Len(w) /\ w \in Seq(Groups)
        /\ \A e \in 1..Len(w) : /\ w[e] \in Groups /\ w[e].slts \in Seq(Slots)
                                /\ Len(w[e].slts) \in Nat
                                /\ \A f \in 1..Len(w[e].slts) : w[e].slts[f] \in Slots
    BY ListFacts DEF Good
  <1>2. /\ ext \in Seq(Slots) /\ Len(ext) = n + 1 /\ n \in Nat
        /\ ext[n + 1] = s /\ \A j \in 1..n : ext[j] = w[p].slts[j]
    BY <1>1, AppendProperties
  <1>3. /\ m \in [1..Len(w) -> Groups]
        /\ m[p].gid = w[p].gid /\ m[p].slts = ext
        /\ \A e \in 1..Len(w) : e # p => m[e] = w[e]
    <2>1. m = [w EXCEPT ![p] = [w[p] EXCEPT !.slts = ext]]
      BY <1>1 DEF Appended
    <2>2. [w[p] EXCEPT !.slts = ext] \in Groups
      BY <1>1, <1>2 DEF Groups
    <2>3. /\ [w[p] EXCEPT !.slts = ext].gid = w[p].gid
          /\ [w[p] EXCEPT !.slts = ext].slts = ext
      BY <1>1 DEF Groups
    <2>4. w \in [1..Len(w) -> Groups]
      BY <1>1
    <2> HIDE DEF ext, m
    <2> QED BY <2>1, <2>2, <2>3, <2>4
  <1>4. m \in Lists /\ Len(m) = Len(w)
    BY <1>1, <1>3, ListIntro
  <1>5. jx \in [Slots -> Nat] /\ jx[s] = n /\ \A r \in Slots : r # s => jx[r] = ix[r]
    BY <1>2 DEF IndexAt
  <1> HIDE DEF ext, n, m, jx
  <1>6. Ascending(m)
    <2>1. \A e \in 1..Len(w) : m[e].gid = w[e].gid
      BY <1>3
    <2>2. \A e, c \in 1..Len(w) : e < c => w[e].gid < w[c].gid
      BY <1>1, AscendingElim DEF Good
    <2>3. \A e, c \in 1..Len(m) : e < c => m[e].gid < m[c].gid
      BY <1>4, <2>1, <2>2
    <2> QED BY <1>4, <2>3, AscendingIntro
  <1>7. ASSUME NEW c \in 1..Len(w), NEW d \in 1..Len(m[c].slts)
        PROVE  \/ /\ d \in 1..Len(w[c].slts) /\ m[c].slts[d] = w[c].slts[d]
                  /\ m[c].gid = w[c].gid
               \/ c = p /\ d = n + 1 /\ m[c].slts[d] = s /\ m[c].gid = Group[s]
    <2>1. CASE c # p
      BY <1>3, <2>1
    <2>2. CASE c = p
      <3>1. d \in 1..(n + 1) /\ m[c].slts[d] = ext[d] /\ m[c].gid = w[p].gid
        BY <1>2, <1>3, <2>2
      <3>2. CASE d = n + 1
        BY <1>2, <2>2, <3>1, <3>2
      <3>3. CASE d # n + 1
        BY <1>2, <2>2, <3>1, <3>3, SMTT(60) DEF n
      <3> QED BY <3>2, <3>3
    <2> QED BY <2>1, <2>2
  <1>8. ASSUME NEW c \in 1..Len(w), NEW d \in 1..Len(w[c].slts)
        PROVE  /\ Group[w[c].slts[d]] = w[c].gid /\ jx[w[c].slts[d]] = d - 1
               /\ w[c].slts[d] \in Elements(w)
    <2>1. Group[w[c].slts[d]] = w[c].gid /\ ix[w[c].slts[d]] = d - 1
      BY <1>1, IndexedElim, SMTT(60) DEF Good
    <2>2. w[c].slts[d] \in Elements(w) /\ w[c].slts[d] \in Slots
      BY <1>1, ElementsOf
    <2> QED BY <1>5, <2>1, <2>2
  <1>9. Indexed(m, jx)
    <2>1. ASSUME NEW c \in 1..Len(w), NEW d \in 1..Len(m[c].slts)
          PROVE  Group[m[c].slts[d]] = m[c].gid /\ jx[m[c].slts[d]] = d - 1
      <3>1. CASE /\ d \in 1..Len(w[c].slts) /\ m[c].slts[d] = w[c].slts[d]
                 /\ m[c].gid = w[c].gid
        BY <1>8, <3>1
      <3>2. CASE d = n + 1 /\ m[c].slts[d] = s /\ m[c].gid = Group[s]
        <4>1. jx[s] = d - 1
          BY <1>2, <1>5, <3>2
        <4> QED BY ONLY <3>2, <4>1
      <3> QED BY <1>7, <3>1, <3>2
    <2>2. \A c \in 1..Len(m) : \A d \in 1..Len(m[c].slts) :
             Group[m[c].slts[d]] = m[c].gid /\ jx[m[c].slts[d]] = d - 1
      BY <1>4, <2>1
    <2> QED BY ONLY <1>4, <2>2, IndexedIntro
  <1>10. Elements(m) \subseteq Elements(w) \cup {s}
    <2>1. ASSUME NEW r \in Elements(m) PROVE r \in Elements(w) \cup {s}
      <3>1. PICK c \in 1..Len(w) : \E d \in 1..Len(m[c].slts) : m[c].slts[d] = r
        BY ONLY <1>4, <2>1, ElementsOf
      <3>2. PICK d \in 1..Len(m[c].slts) : m[c].slts[d] = r
        BY <3>1
      <3> QED BY <1>7, <1>8, <3>2
    <2> QED BY <2>1
  <1> QED BY <1>4, <1>5, <1>6, <1>9, <1>10 DEF Good, m, jx

LEMMA AddedGood ==
    ASSUME NEW l, NEW ix \in [Slots -> Nat], Good(l, ix), NEW s \in Slots, s \notin Elements(l)
    PROVE  /\ Good(Added(l, s), IndexAt(ix, s, NewIndex(l, s)))
           /\ IndexAt(ix, s, NewIndex(l, s)) \in [Slots -> Nat]
           /\ Elements(Added(l, s)) \subseteq Elements(l) \cup {s}
  <1> DEFINE w == WithGroup(l, Group[s])
             p == Spot(l, Group[s])
  <1>1. Group[s] \in Int
    BY ConstantsAssumption
  <1>2. /\ Good(w, ix) /\ p \in 1..Len(w) /\ w[p].gid = Group[s]
        /\ Elements(w) \subseteq Elements(l)
    BY <1>1, WithGroupGood
  <1>3. Added(l, s) = Appended(w, p, s) /\ NewIndex(l, s) = Len(w[p].slts)
    BY DEF Added, NewIndex, Appended
  <1>4. s \notin Elements(w)
    BY <1>2
  <1> HIDE DEF w, p
  <1>5. /\ Good(Appended(w, p, s), IndexAt(ix, s, Len(w[p].slts)))
        /\ IndexAt(ix, s, Len(w[p].slts)) \in [Slots -> Nat]
        /\ Elements(Appended(w, p, s)) \subseteq Elements(w) \cup {s}
    BY <1>2, <1>4, AppendGood
  <1> QED BY <1>2, <1>3, <1>5

(* disconnect(gid) empties a group, disconnect_all the whole list. *)
Emptied(l, gid) ==
    [a \in DOMAIN l |-> IF l[a].gid = gid THEN [l[a] EXCEPT !.slts = <<>>] ELSE l[a]]

LEMMA EmptiedGood ==
    ASSUME NEW l, NEW ix, Good(l, ix), NEW gid
    PROVE  /\ Good(Emptied(l, gid), ix) /\ Elements(Emptied(l, gid)) \subseteq Elements(l)
           /\ Good(<<>>, ix) /\ Elements(<<>>) \subseteq Elements(l)
  <1> DEFINE m == Emptied(l, gid)
  <1>1. /\ l \in Lists /\ Len(l) \in Nat /\ DOMAIN l = 1..Len(l)
        /\ \A e \in 1..Len(l) : l[e] \in Groups
    BY ListFacts DEF Good
  <1>2. \A e \in 1..Len(l) : /\ m[e] = l[e] \/ m[e] = [l[e] EXCEPT !.slts = <<>>]
    BY <1>1 DEF Emptied
  <1>3. \A r \in Groups : /\ [r EXCEPT !.slts = <<>>] \in Groups
                          /\ [r EXCEPT !.slts = <<>>].gid = r.gid
                          /\ Len([r EXCEPT !.slts = <<>>].slts) = 0
    <2>1. <<>> \in Seq(Slots) /\ Len(<<>>) = 0
      OBVIOUS
    <2>2. ASSUME NEW r \in Groups, NEW e \in Seq(Slots)
          PROVE  /\ [r EXCEPT !.slts = e] \in Groups
                 /\ [r EXCEPT !.slts = e].gid = r.gid
                 /\ [r EXCEPT !.slts = e].slts = e
      BY DEF Groups
    <2> QED BY <2>1, <2>2
  <1>4. \A e \in 1..Len(l) : /\ m[e] \in Groups /\ m[e].gid = l[e].gid
                             /\ m[e] = l[e] \/ Len(m[e].slts) = 0
    BY <1>1, <1>2, <1>3, ZenonT(60)
  <1>5. m \in [1..Len(l) -> Groups]
    BY <1>1, <1>4 DEF Emptied
  <1>6. m \in Lists /\ Len(m) = Len(l)
    BY <1>1, <1>5, ListIntro
  <1> HIDE DEF m
  <1>7. Ascending(m)
    <2>1. \A e, c \in 1..Len(l) : e < c => l[e].gid < l[c].gid
      BY <1>1, AscendingElim DEF Good
    <2>2. \A e, c \in 1..Len(m) : e < c => m[e].gid < m[c].gid
      BY <1>4, <1>6, <2>1
    <2> QED BY <1>6, <2>2, AscendingIntro
  <1>8. ASSUME NEW c \in 1..Len(l), NEW d \in 1..Len(m[c].slts)
        PROVE  m[c] = l[c] /\ d \in 1..Len(l[c].slts)
    <2>1. Len(m[c].slts) # 0
      BY <1>8
    <2>2. m[c] = l[c]
      BY <1>4, <2>1
    <2> QED BY <2>2
  <1>9. Indexed(m, ix)
    <2>1. ASSUME NEW c \in 1..Len(m), NEW d \in 1..Len(m[c].slts)
          PROVE  Group[m[c].slts[d]] = m[c].gid /\ ix[m[c].slts[d]] = d - 1
      <3>1. c \in 1..Len(l) /\ m[c] = l[c] /\ d \in 1..Len(l[c].slts)
        BY <1>6, <1>8
      <3>2. Group[l[c].slts[d]] = l[c].gid /\ ix[l[c].slts[d]] = d - 1
        BY <1>1, <3>1, IndexedElim DEF Good
      <3> QED BY <3>1, <3>2
    <2> QED BY <1>6, <2>1, IndexedIntro
  <1>10. Elements(m) \subseteq Elements(l)
    <2>1. ASSUME NEW s \in Elements(m) PROVE s \in Elements(l)
      <3>1. PICK c \in 1..Len(l) : \E d \in 1..Len(m[c].slts) : m[c].slts[d] = s
        BY <1>6, <2>1, ElementsOf
      <3>2. PICK d \in 1..Len(m[c].slts) : m[c].slts[d] = s
        BY <3>1
      <3>3. m[c] = l[c] /\ d \in 1..Len(l[c].slts)
        BY <1>8
      <3> QED BY <1>1, <3>2, <3>3, ElementsOf
    <2> QED BY <2>1
  <1>11. Good(<<>>, ix) /\ Elements(<<>>) \subseteq Elements(l)
    <2>1. <<>> \in Lists /\ DOMAIN <<>> = {}
      BY DEF Lists
    <2> QED BY <2>1 DEF Good, Ascending, Indexed, Elements
  <1> QED BY <1>6, <1>7, <1>9, <1>10, <1>11 DEF Good, m

-----------------------------------------------------------------------------
(* The invariant: every list is good, and no slot is in two of them. *)

Apart == \A g, h \in Signals : g # h => Elements(list(g)) \cap Elements(list(h)) = {}

AllGood == \A g \in Signals : Good(list(g), m_index)

Placed ==
    /\ value \in [Payloads -> Lists]
    /\ m_index \in [Slots -> Nat]
    /\ gi \in [Threads -> Nat \ {0}]
    /\ si \in [Threads -> Nat \ {0}]
    /\ AllGood
    /\ Apart

LEMMA PlacedIndexInv ==
    Placed => IndexInv
  BY DEF Placed, AllGood, Good, IndexInv

(* A writer changes the list of its signal and no other. *)
LEMMA CowLists ==
    ASSUME Sharing, NEW g \in Signals, NEW l, cow_write(g, l), l \in Lists,
           value \in [Payloads -> Lists]
    PROVE  /\ value' \in [Payloads -> Lists]
           /\ list(g)' = l
           /\ \A h \in Signals : h # g => list(h)' = list(h)
  <1> DEFINE p == m_slots[g]
  <1>1. /\ m_slots \in [Signals -> Payloads] /\ p \in Payloads
        /\ \A h \in Signals : h # g => m_slots[h] # p
    BY DEF Sharing, SharedTypes, Distinct
  <1>2. CASE count[p] = 1
    <2>1. value' = [value EXCEPT ![p] = l] /\ m_slots' = m_slots
      BY <1>2 DEF cow_write, Unique
    <2> QED BY <1>1, <2>1 DEF list
  <1>3. CASE count[p] # 1
    <2>1. PICK q \in Payloads :
             /\ count[q] = 0
             /\ m_slots' = [m_slots EXCEPT ![g] = q]
             /\ value' = [value EXCEPT ![q] = l]
      BY <1>3 DEF cow_write, Unique
    <2>2. \A h \in Signals : m_slots[h] # q
      BY <2>1, Alone
    <2> QED BY <1>1, <2>1, <2>2 DEF list
  <1> QED BY <1>2, <1>3

(* The list of g becomes l, which has at most one slot more: one that was   *)
(* in no list.  The index of at most one slot changes, a slot of l or that  *)
(* one.                                                                     *)
LEMMA PlacedWrite ==
    ASSUME Placed, NEW g \in Signals, NEW l, NEW X,
           list(g)' = l, \A h \in Signals : h # g => list(h)' = list(h),
           value' \in [Payloads -> Lists],
           gi' \in [Threads -> Nat \ {0}], si' \in [Threads -> Nat \ {0}],
           m_index' \in [Slots -> Nat],
           Good(l, m_index'),
           Elements(l) \subseteq Elements(list(g)) \cup X,
           \A h \in Signals : h # g => X \cap Elements(list(h)) = {},
           \A s \in Slots : s \notin Elements(list(g)) \cup X => m_index'[s] = m_index[s]
    PROVE  Placed'
  <1>1. ASSUME NEW h \in Signals, h # g
        PROVE  Good(list(h), m_index')
    <2>1. list(h) \in Lists /\ Ascending(list(h)) /\ Indexed(list(h), m_index)
      BY DEF Placed, AllGood, Good
    <2>2. ASSUME NEW s \in Elements(list(h)) PROVE m_index'[s] = m_index[s]
      <3>1. s \in Slots
        <4>1. PICK a \in 1..Len(list(h)) : \E b \in 1..Len(list(h)[a].slts) : list(h)[a].slts[b] = s
          BY <2>1, <2>2, ElementsOf
        <4> QED BY <2>1, <4>1, ListFacts
      <3>2. s \notin Elements(list(g)) \cup X
        BY <1>1, <2>2 DEF Placed, Apart
      <3> QED BY <3>1, <3>2
    <2>3. Indexed(list(h), m_index')
      BY <2>1, <2>2, OtherIndex
    <2> QED BY <2>1, <2>3 DEF Good
  <1>2. AllGood'
    <2>1. ASSUME NEW h \in Signals PROVE Good(list(h)', m_index')
      BY <1>1
    <2> QED BY <2>1 DEF AllGood, Good
  <1>3. Apart'
    <2>1. ASSUME NEW h \in Signals, NEW k \in Signals, h # k
          PROVE  Elements(list(h)') \cap Elements(list(k)') = {}
      <3>1. CASE h = g
        BY <2>1, <3>1 DEF Placed, Apart
      <3>2. CASE k = g
        BY <2>1, <3>2 DEF Placed, Apart
      <3>3. CASE h # g /\ k # g
        BY <2>1, <3>3 DEF Placed, Apart
      <3> QED BY <3>1, <3>2, <3>3
    <2> QED BY <2>1 DEF Apart, Elements
  <1> QED BY <1>2, <1>3 DEF Placed

(* No list and no index changes. *)
LEMMA PlacedFrame ==
    ASSUME Placed, m_index' = m_index,
           \A g \in Signals : list(g)' = list(g),
           value' \in [Payloads -> Lists],
           gi' \in [Threads -> Nat \ {0}], si' \in [Threads -> Nat \ {0}]
    PROVE  Placed'
  <1>1. AllGood'
    <2>1. \A g \in Signals : Good(list(g)', m_index')
      BY DEF Placed, AllGood
    <2> QED BY <2>1 DEF AllGood, Good
  <1>2. Apart'
    <2>1. \A g, h \in Signals : g # h => Elements(list(g)') \cap Elements(list(h)') = {}
      BY DEF Placed, Apart
    <2> QED BY <2>1 DEF Apart, Elements
  <1> QED BY <1>1, <1>2 DEF Placed

-----------------------------------------------------------------------------
(* The steps *)

(* A step that writes the list of g through cow_write. *)
LEMMA PlacedCow ==
    ASSUME Sharing, Placed, NEW g \in Signals, NEW l, NEW X, cow_write(g, l),
           gi' \in [Threads -> Nat \ {0}], si' \in [Threads -> Nat \ {0}],
           m_index' \in [Slots -> Nat],
           Good(l, m_index'),
           Elements(l) \subseteq Elements(list(g)) \cup X,
           \A h \in Signals : h # g => X \cap Elements(list(h)) = {},
           \A s \in Slots : s \notin Elements(list(g)) \cup X => m_index'[s] = m_index[s]
    PROVE  Placed'
  <1>1. /\ value' \in [Payloads -> Lists] /\ list(g)' = l
        /\ \A h \in Signals : h # g => list(h)' = list(h)
    <2>1. l \in Lists /\ value \in [Payloads -> Lists]
      BY DEF Good, Placed
    <2> QED BY <2>1, CowLists
  <1> QED BY <1>1, PlacedWrite

(* Connecting: a slot that does not exist is in no list. *)
LEMMA PlacedMakeSlot ==
    ASSUME Sharing, Placed, NEW g \in Signals, NEW s \in Slots, MakeSlot(g, s),
           UNCHANGED <<gi, si>>
    PROVE  Placed'
  <1>1. /\ ~Alive(s) /\ cow_write(g, Added(list(g), s))
        /\ m_index' = [m_index EXCEPT ![s] = NewIndex(list(g), s)]
    BY DEF MakeSlot
  <1>2. ASSUME NEW h \in Signals PROVE s \notin Elements(list(h))
    <2>1. m_slots[h] \in Payloads /\ count[m_slots[h]] \in Nat /\ count[m_slots[h]] >= 1
      BY Alone DEF Sharing, SharedTypes
    <2>2. count[m_slots[h]] > 0
      BY <2>1
    <2> QED BY <1>1, <2>1, <2>2 DEF Alive, list
  <1>3. /\ Good(list(g), m_index) /\ m_index \in [Slots -> Nat]
        /\ gi \in [Threads -> Nat \ {0}] /\ si \in [Threads -> Nat \ {0}]
    BY DEF Placed, AllGood
  <1>4. m_index' = IndexAt(m_index, s, NewIndex(list(g), s))
    BY <1>1 DEF IndexAt
  <1>5. /\ Good(Added(list(g), s), m_index') /\ m_index' \in [Slots -> Nat]
        /\ Elements(Added(list(g), s)) \subseteq Elements(list(g)) \cup {s}
    BY <1>2, <1>3, <1>4, AddedGood
  <1>6. \A r \in Slots : r \notin Elements(list(g)) \cup {s} => m_index'[r] = m_index[r]
    BY <1>1, <1>3
  <1>7. \A h \in Signals : h # g => {s} \cap Elements(list(h)) = {}
    BY <1>2
  <1>8. gi' \in [Threads -> Nat \ {0}] /\ si' \in [Threads -> Nat \ {0}]
    BY <1>3
  <1> QED BY <1>1, <1>5, <1>6, <1>7, <1>8, PlacedCow

(* Taking the slot at b of group a out of the list of g. *)
LEMMA PoppedPlaced ==
    ASSUME Placed, NEW g \in Signals, NEW a \in 1..Len(list(g)),
           NEW b \in 1..Len(list(g)[a].slts),
           m_index' = Reindexed(list(g), a, b)
    PROVE  /\ Good(Popped(list(g), a, b), m_index')
           /\ m_index' \in [Slots -> Nat]
           /\ Elements(Popped(list(g), a, b)) \subseteq Elements(list(g))
           /\ \A s \in Slots : s \notin Elements(list(g)) => m_index'[s] = m_index[s]
  <1>1. Good(list(g), m_index) /\ m_index \in [Slots -> Nat]
    BY DEF Placed, AllGood
  <1>2. m_index' = IndexAt(m_index, Last(list(g), a), b - 1)
    BY DEF Reindexed, IndexAt, Last
  <1>3. /\ Good(Popped(list(g), a, b), m_index')
        /\ m_index' \in [Slots -> Nat]
        /\ Elements(Popped(list(g), a, b)) \subseteq Elements(list(g))
        /\ Last(list(g), a) \in Elements(list(g))
    BY <1>1, <1>2, PoppedGood
  <1>4. \A s \in Slots : s # Last(list(g), a) => m_index'[s] = m_index[s]
    BY <1>1, <1>2 DEF IndexAt
  <1> QED BY <1>3, <1>4

LEMMA PlacedClean ==
    ASSUME Sharing, Placed, NEW t \in Threads, clean(t)
    PROVE  Placed'
  <1>1. pc[t] = "clean" /\ UNCHANGED <<gi, si>>
    BY DEF clean
  <1>2. PICK s \in Slots, g \in Signals : s = slot[t] /\ g = cleaner[s]
    BY <1>1 DEF Sharing, CleanerKnown
  <1>3. /\ Good(list(g), m_index) /\ m_index \in [Slots -> Nat] /\ m_index[s] \in Nat
        /\ gi' \in [Threads -> Nat \ {0}] /\ si' \in [Threads -> Nat \ {0}]
        /\ list(g) \in Lists
    BY <1>1, <1>2 DEF Placed, AllGood, Good
  <1>4. ASSUME NEW a \in DOMAIN list(g), AtIndex(list(g), a, s),
               cow_write(g, Popped(list(g), a, m_index[s] + 1)),
               m_index' = Reindexed(list(g), a, m_index[s] + 1)
        PROVE  Placed'
    <2> DEFINE b == m_index[s] + 1
    <2>1. a \in 1..Len(list(g)) /\ Len(list(g)[a].slts) \in Nat
      BY <1>3, ListFacts
    <2>2. b \in 1..Len(list(g)[a].slts)
      BY <1>3, <1>4, <2>1 DEF AtIndex
    <2> HIDE DEF b
    <2>3. m_index' = Reindexed(list(g), a, b) /\ cow_write(g, Popped(list(g), a, b))
      BY <1>4 DEF b
    <2>4. /\ Good(Popped(list(g), a, b), m_index')
          /\ m_index' \in [Slots -> Nat]
          /\ Elements(Popped(list(g), a, b)) \subseteq Elements(list(g)) \cup {}
          /\ \A r \in Slots : r \notin Elements(list(g)) \cup {} => m_index'[r] = m_index[r]
          /\ \A h \in Signals : h # g => {} \cap Elements(list(h)) = {}
      BY <2>1, <2>2, <2>3, PoppedPlaced
    <2> QED BY <1>3, <2>3, <2>4, PlacedCow
  <1>5. CASE cow_write(g, list(g)) /\ m_index' = m_index
    <2>1. /\ Elements(list(g)) \subseteq Elements(list(g)) \cup {}
          /\ \A r \in Slots : r \notin Elements(list(g)) \cup {} => m_index'[r] = m_index[r]
          /\ \A h \in Signals : h # g => {} \cap Elements(list(h)) = {}
      BY <1>5
    <2> QED BY <1>3, <1>5, <2>1, PlacedCow
  <1> QED BY <1>2, <1>4, <1>5 DEF clean

LEMMA PlacedSweep ==
    ASSUME Sharing, Placed, NEW t \in Threads, Sweep(t)
    PROVE  Placed'
  <1>1. pc[t] = "sweep" /\ m_slots' = m_slots
    BY DEF Sweep
  <1>2. PICK g \in Signals : g = sig[t]
    BY <1>1 DEF Sharing, SweepAlone
  <1>3. /\ value \in [Payloads -> Lists] /\ list(g) \in Lists
        /\ gi \in [Threads -> Nat \ {0}] /\ si \in [Threads -> Nat \ {0}]
    BY <1>2 DEF Placed, AllGood, Good
  <1>4. gi' \in [Threads -> Nat \ {0}] /\ si' \in [Threads -> Nat \ {0}]
    <2>1. gi' \in {gi, [gi EXCEPT ![t] = 1], [gi EXCEPT ![t] = gi[t] + 1]}
      BY DEF Sweep
    <2>2. si' \in {si, [si EXCEPT ![t] = 1], [si EXCEPT ![t] = si[t] + 1]}
      BY DEF Sweep
    <2> QED BY <1>3, <2>1, <2>2
  <1>5. CASE value' = value /\ m_index' = m_index
    <2>1. \A h \in Signals : list(h)' = list(h)
      BY <1>1, <1>5 DEF list
    <2> QED BY <1>3, <1>4, <1>5, <2>1, PlacedFrame
  <1>6. CASE /\ gi[t] <= Len(list(g))
             /\ si[t] <= Len(list(g)[gi[t]].slts)
             /\ value' = [value EXCEPT ![m_slots[g]] = Popped(list(g), gi[t], si[t])]
             /\ m_index' = Reindexed(list(g), gi[t], si[t])
    <2> DEFINE a == gi[t]
               b == si[t]
    <2>1. a \in 1..Len(list(g)) /\ b \in 1..Len(list(g)[a].slts)
      <3>1. a \in Nat \ {0} /\ b \in Nat \ {0}
        BY <1>3
      <3>2. Len(list(g)) \in Nat /\ a \in 1..Len(list(g))
        BY <1>3, <1>6, <3>1, ListFacts
      <3>3. Len(list(g)[a].slts) \in Nat
        BY <1>3, <3>2, ListFacts
      <3> QED BY <1>6, <3>1, <3>2, <3>3
    <2>2. value' = [value EXCEPT ![m_slots[g]] = Popped(list(g), a, b)]
          /\ m_index' = Reindexed(list(g), a, b)
      BY <1>6
    <2> HIDE DEF a, b
    <2>3. /\ Good(Popped(list(g), a, b), m_index')
          /\ m_index' \in [Slots -> Nat]
          /\ Elements(Popped(list(g), a, b)) \subseteq Elements(list(g))
          /\ \A s \in Slots : s \notin Elements(list(g)) => m_index'[s] = m_index[s]
      BY <1>2, <2>1, <2>2, PoppedPlaced
    <2>4. Popped(list(g), a, b) \in Lists
      BY <2>3 DEF Good
    <2>5. /\ m_slots \in [Signals -> Payloads]
          /\ \A h \in Signals : h # g => m_slots[h] # m_slots[g]
      BY <1>2 DEF Sharing, SharedTypes, Distinct
    <2>6. /\ value' \in [Payloads -> Lists]
          /\ list(g)' = Popped(list(g), a, b)
          /\ \A h \in Signals : h # g => list(h)' = list(h)
      BY <1>1, <1>3, <2>2, <2>4, <2>5 DEF list
    <2> DEFINE new == Popped(list(g), a, b)
    <2>7. /\ list(g)' = new /\ Good(new, m_index')
          /\ Elements(new) \subseteq Elements(list(g)) \cup {}
          /\ \A s \in Slots : s \notin Elements(list(g)) \cup {} => m_index'[s] = m_index[s]
          /\ \A h \in Signals : h # g => {} \cap Elements(list(h)) = {}
      BY <2>3, <2>6
    <2> HIDE DEF new
    <2> QED BY <1>2, <1>4, <2>3, <2>6, <2>7, PlacedWrite
  <1> QED BY <1>2, <1>5, <1>6 DEF Sweep


(* disconnect_if begins with a list of its own, the same as before. *)
LEMMA PlacedDisconnectIf ==
    ASSUME Sharing, Placed, NEW t \in Threads, NEW g \in Signals, NEW c, NEW o,
           disconnect_if(t, g, c, o)
    PROVE  Placed'
  <1>1. /\ cow_write(g, list(g)) /\ m_index' = m_index
        /\ gi' = [gi EXCEPT ![t] = 1] /\ si' = [si EXCEPT ![t] = 1]
    BY DEF disconnect_if, slotVars
  <1>2. /\ Good(list(g), m_index') /\ m_index' \in [Slots -> Nat]
        /\ gi' \in [Threads -> Nat \ {0}] /\ si' \in [Threads -> Nat \ {0}]
    BY <1>1 DEF Placed, AllGood
  <1>3. /\ Elements(list(g)) \subseteq Elements(list(g)) \cup {}
        /\ \A r \in Slots : r \notin Elements(list(g)) \cup {} => m_index'[r] = m_index[r]
        /\ \A h \in Signals : h # g => {} \cap Elements(list(h)) = {}
    BY <1>1
  <1> QED BY <1>1, <1>2, <1>3, PlacedCow

LEMMA PlacedErase ==
    ASSUME Sharing, Placed, NEW g \in Signals, disconnect_all(g) \/ \E n : DisconnectGroup(g, n)
    PROVE  Placed'
  <1>1. UNCHANGED <<gi, si, m_index>>
    BY DEF disconnect_all, DisconnectGroup, slotVars
  <1>2. /\ Good(list(g), m_index) /\ m_index' \in [Slots -> Nat]
        /\ gi' \in [Threads -> Nat \ {0}] /\ si' \in [Threads -> Nat \ {0}]
    BY <1>1 DEF Placed, AllGood
  <1>3. ASSUME NEW l, cow_write(g, l), Good(l, m_index), Elements(l) \subseteq Elements(list(g))
        PROVE  Placed'
    <2>1. /\ Good(l, m_index') /\ Elements(l) \subseteq Elements(list(g)) \cup {}
          /\ \A r \in Slots : r \notin Elements(list(g)) \cup {} => m_index'[r] = m_index[r]
          /\ \A h \in Signals : h # g => {} \cap Elements(list(h)) = {}
      BY <1>1, <1>3
    <2> QED BY <1>2, <1>3, <2>1, PlacedCow
  <1>4. CASE disconnect_all(g)
    <2>1. cow_write(g, <<>>)
      BY <1>4 DEF disconnect_all
    <2> QED BY <1>2, <1>3, <2>1, EmptiedGood
  <1>5. ASSUME NEW n, DisconnectGroup(g, n) PROVE Placed'
    <2>1. cow_write(g, Emptied(list(g), n))
      BY <1>5 DEF DisconnectGroup, Emptied
    <2> QED BY <1>2, <1>3, <2>1, EmptiedGood
  <1> QED BY <1>4, <1>5

(* A move exchanges two lists. *)
LEMMA PlacedMove ==
    ASSUME Sharing, Placed, NEW g \in Signals, NEW h \in Signals, Move(g, h)
    PROVE  Placed'
  <1>1. /\ g # h /\ UNCHANGED <<value, m_index, gi, si>>
        /\ m_slots' = [m_slots EXCEPT ![g] = m_slots[h], ![h] = m_slots[g]]
        /\ m_slots \in [Signals -> Payloads]
    BY DEF Move, Swapped, slotVars, Sharing, SharedTypes
  <1>2. /\ list(g)' = list(h) /\ list(h)' = list(g)
        /\ \A k \in Signals : k # g /\ k # h => list(k)' = list(k)
    BY <1>1 DEF list
  <1> DEFINE new(k) == IF k = g THEN h ELSE IF k = h THEN g ELSE k
  <1>3. \A k \in Signals : new(k) \in Signals /\ list(k)' = list(new(k))
    BY <1>2
  <1>4. \A k, m \in Signals : k # m => new(k) # new(m)
    BY <1>1
  <1> HIDE DEF new
  <1>5. AllGood'
    <2>1. \A k \in Signals : Good(list(k)', m_index')
      BY <1>1, <1>3 DEF Placed, AllGood
    <2> QED BY <2>1 DEF AllGood, Good
  <1>6. Apart'
    <2>1. \A k, m \in Signals : k # m => Elements(list(k)') \cap Elements(list(m)') = {}
      BY <1>3, <1>4 DEF Placed, Apart
    <2> QED BY <2>1 DEF Apart, Elements
  <1> QED BY <1>1, <1>5, <1>6 DEF Placed

(* The end of an emission clears a payload to which no signal refers. *)
LEMMA PlacedAdvance ==
    ASSUME Sharing, Placed, NEW t \in Threads, Advance(t)
    PROVE  Placed'
  <1>1. /\ pc[t] = "next" /\ m_slots' = m_slots /\ m_index' = m_index
    BY DEF Advance, emitUnchanged
  <1>2. gi' \in [Threads -> Nat \ {0}] /\ si' \in [Threads -> Nat \ {0}]
    <2>1. gi' \in {[gi EXCEPT ![t] = 1], [gi EXCEPT ![t] = gi[t] + 1]}
      BY DEF Advance
    <2>2. si' \in {si, [si EXCEPT ![t] = 1]}
      BY DEF Advance
    <2> QED BY <2>1, <2>2 DEF Placed
  <1>3. value' = value \/ Release(ref[t])
    BY DEF Advance
  <1>4. CASE value' = value
    <2>1. \A g \in Signals : list(g)' = list(g)
      BY <1>1, <1>4 DEF list
    <2>2. value' \in [Payloads -> Lists]
      BY <1>4 DEF Placed
    <2> QED BY <1>1, <1>2, <2>1, <2>2, PlacedFrame
  <1>5. CASE Release(ref[t])
    <2>1. ref[t] # None /\ ref[t] \in Payloads
      BY <1>1 DEF Sharing, SharedTypes, RefHeld, Holds, Walking
    <2>2. value' = value \/ (count[ref[t]] = 1 /\ value' = [value EXCEPT ![ref[t]] = <<>>])
      BY <1>5, <2>1 DEF Release, Unique, Placed
    <2>3. CASE count[ref[t]] = 1 /\ value' = [value EXCEPT ![ref[t]] = <<>>]
      <3>1. \A g \in Signals : m_slots[g] # ref[t]
        BY <2>3, Alone
      <3>2. \A g \in Signals : list(g)' = list(g)
        BY <1>1, <2>3, <3>1 DEF list
      <3>3. <<>> \in Lists
        BY DEF Lists
      <3>4. value' \in [Payloads -> Lists]
        BY <2>3, <3>3 DEF Placed
      <3> QED BY <1>1, <1>2, <3>2, <3>4, PlacedFrame
    <2> QED BY <1>4, <2>2, <2>3
  <1> QED BY <1>3, <1>4, <1>5

(* The steps that neither write a list nor move an index. *)
LEMMA PlacedStays ==
    ASSUME Placed, UNCHANGED <<value, m_slots, m_index, gi>>,
           si' = si \/ \E t \in Threads : si' = [si EXCEPT ![t] = si[t] + 1]
    PROVE  Placed'
  <1>1. \A g \in Signals : list(g)' = list(g)
    BY DEF list
  <1>2. /\ value' \in [Payloads -> Lists]
        /\ gi' \in [Threads -> Nat \ {0}] /\ si' \in [Threads -> Nat \ {0}]
    BY DEF Placed
  <1> QED BY <1>1, <1>2, PlacedFrame

LEMMA PlacedWalk ==
    ASSUME Placed, NEW t \in Threads,
           \/ TestConnected(t) \/ TestBlocked(t) \/ call_slot(t) \/ Body(t) \/ CallTracked(t)
           \/ Pass(t) \/ slots_reference(t)
    PROVE  Placed'
  <1>1. /\ UNCHANGED <<value, m_slots, m_index, gi>>
        /\ si' = si \/ si' = [si EXCEPT ![t] = si[t] + 1]
    BY DEF TestConnected, TestBlocked, call_slot, Body, CallTracked, Pass, slots_reference,
           emitUnchanged, slotVars
  <1> QED BY <1>1, PlacedStays

LEMMA PlacedOther ==
    ASSUME Placed, NEW t \in Threads,
           \/ add_connection(t) \/ DropConnection(t)
           \/ \E s \in Slots : ConnectionDisconnect(t, s)
           \/ \E g \in Signals : Emit(t, g)
           \/ \E o \in Observers : DestroyObserver(t, o)
    PROVE  Placed'
  <1>1. UNCHANGED <<value, m_slots, m_index, gi, si>>
    BY DEF add_connection, DropConnection, ConnectionDisconnect, Emit, DestroyObserver,
           sigVars, slotVars
  <1> QED BY <1>1, PlacedStays

LEMMA PlacedFlags ==
    ASSUME Placed,
           \/ \E s \in Slots : SetBlocked(s)
           \/ \E g \in Signals : SetMuted(g)
           \/ \E o \in Objects : DropObject(o)
           \/ UNCHANGED vars
    PROVE  Placed'
  <1>1. UNCHANGED <<value, m_slots, m_index, gi, si>>
    BY DEF SetBlocked, SetMuted, DropObject, vars, sigVars, slotVars
  <1> QED BY <1>1, PlacedStays

LEMMA PlacedStep ==
    Sharing /\ Placed /\ [Next]_vars => Placed'
  <1> SUFFICES ASSUME Sharing, Placed, [Next]_vars
               PROVE  Placed'
    OBVIOUS
  <1>1. ASSUME NEW t \in Threads, Step(t) PROVE Placed'
    BY <1>1, PlacedClean, PlacedSweep, PlacedAdvance, PlacedWalk, PlacedOther DEF Step
  <1>2. ASSUME NEW t \in Threads, Begin(t) PROVE Placed'
    <2>1. CASE \E g \in Signals, s \in Slots : ConnectObserver(t, g, s)
      BY <2>1, PlacedMakeSlot DEF ConnectObserver
    <2>2. CASE \E g \in Signals, c \in Callables \cup {None}, o \in Objects \cup {None} :
                  disconnect_if(t, g, c, o)
      BY <2>2, PlacedDisconnectIf
    <2> QED BY <1>2, <2>1, <2>2, PlacedOther DEF Begin
  <1>3. CASE \E g \in Signals, s \in Slots : Connect(g, s)
    BY <1>3, PlacedMakeSlot DEF Connect
  <1>4. CASE \/ \E g \in Signals, s \in Slots : DisconnectGroup(g, Group[s])
             \/ \E g \in Signals : disconnect_all(g)
    BY <1>4, PlacedErase
  <1>5. CASE \E g, h \in Signals : Move(g, h)
    BY <1>5, PlacedMove
  <1>6. CASE \/ \E s \in Slots : SetBlocked(s)
             \/ \E g \in Signals : SetMuted(g)
             \/ \E o \in Objects : DropObject(o)
             \/ UNCHANGED vars
    BY <1>6, PlacedFlags
  <1> QED BY <1>1, <1>2, <1>3, <1>4, <1>5, <1>6 DEF Next

LEMMA PlacedInit ==
    Init => Placed
  <1> SUFFICES ASSUME Init PROVE Placed
    OBVIOUS
  <1>1. Initial \in [Signals -> Payloads] /\ Distinct(Initial) /\ Main \in Signals
    BY InitialAssumption DEF Initial
  <1>2. /\ m_slots = Initial /\ m_index = FirstIndex
        /\ value = [q \in Payloads |-> IF q = Initial[Main] THEN Opening ELSE <<>>]
        /\ gi = [t \in Threads |-> 1] /\ si = [t \in Threads |-> 1]
    BY DEF Init
  <1>3. /\ Good(Opening, m_index) /\ Good(<<>>, m_index) /\ Elements(<<>>) = {}
        /\ <<>> \in Lists /\ Opening \in Lists
    <2>1. Good(Opening, m_index)
      BY <1>2, InitialAssumption DEF Good
    <2>2. Good(<<>>, m_index) 
      BY <2>1, EmptiedGood
    <2>3. DOMAIN <<>> = {}
      OBVIOUS
    <2> QED BY <2>1, <2>2, <2>3 DEF Elements, Good
  <1>4. \A g \in Signals : list(g) = IF g = Main THEN Opening ELSE <<>>
    BY <1>1, <1>2 DEF list, Distinct
  <1>5. AllGood
    BY <1>3, <1>4 DEF AllGood
  <1>6. Apart
    BY <1>3, <1>4 DEF Apart
  <1> QED BY <1>2, <1>3, <1>5, <1>6, InitialAssumption DEF Placed

(* clean and disconnect_if keep the index of the slot they move             *)
(* (signal.hpp:1540-1622): whatever signals, slots and threads there are, a *)
(* slot in the list of a signal is where its index says, in its own group,  *)
(* and the groups ascend.                                                   *)
THEOREM IndicesRight == Spec => []IndexInv
  <1>1. Init => Placed
    BY PlacedInit
  <1>2. Sharing /\ Placed /\ [Next]_vars => Placed'
    BY PlacedStep
  <1>3. Placed => IndexInv
    BY PlacedIndexInv
  <1> QED BY <1>1, <1>2, <1>3, SharingAlways, PTL DEF Spec

-----------------------------------------------------------------------------
(***************************************************************************)
(* Signal implements SignalAbs.  An emission offers each slot of the list   *)
(* it found once, in ascending groups, and a sweep leaves nothing behind    *)
(* that matches.                                                            *)
(***************************************************************************)

-----------------------------------------------------------------------------
(* What the operations on lists do to the slots of a list *)

LEMMA PoppedShape ==
    ASSUME NEW l \in Lists, NEW a \in 1..Len(l), NEW b \in 1..Len(l[a].slts)
    PROVE  /\ Popped(l, a, b) \in Lists /\ Len(Popped(l, a, b)) = Len(l)
           /\ \A e \in 1..Len(l) : e # a => Popped(l, a, b)[e] = l[e]
           /\ Len(Popped(l, a, b)[a].slts) = Len(l[a].slts) - 1
           /\ \A j \in 1..(Len(l[a].slts) - 1) :
                 Popped(l, a, b)[a].slts[j] = IF j = b THEN Last(l, a) ELSE l[a].slts[j]
  <1> DEFINE m == Popped(l, a, b)
             n == Len(l[a].slts)
             rest == SwapPop(l[a].slts, b)
  <1>1. /\ Len(l) \in Nat /\ DOMAIN l = 1..Len(l)
        /\ \A e \in 1..Len(l) : /\ l[e] \in Groups
                                /\ Len(l[e].slts) \in Nat
                                /\ \A f \in 1..Len(l[e].slts) : l[e].slts[f] \in Slots
    BY ListFacts
  <1>2. n \in Nat /\ n >= 1 /\ n - 1 \in Nat /\ Last(l, a) = l[a].slts[n] /\ Last(l, a) \in Slots
    BY <1>1 DEF Last
  <1>3. /\ rest \in Seq(Slots) /\ Len(rest) = n - 1
        /\ \A j \in 1..(n - 1) : rest[j] = IF j = b THEN Last(l, a) ELSE l[a].slts[j]
    <2>1. rest \in [1..(n - 1) -> Slots]
      BY <1>1, <1>2 DEF SwapPop
    <2>2. \A j \in 1..(n - 1) : rest[j] = IF j = b THEN Last(l, a) ELSE l[a].slts[j]
      BY <1>2 DEF SwapPop
    <2> QED BY <1>2, <2>1, <2>2, GroupIntro
  <1>4. /\ m \in [1..Len(l) -> Groups] /\ m[a].slts = rest
        /\ \A e \in 1..Len(l) : e # a => m[e] = l[e]
    <2>1. m = [l EXCEPT ![a] = [l[a] EXCEPT !.slts = rest]]
      BY <1>1 DEF Popped
    <2>2. [l[a] EXCEPT !.slts = rest] \in Groups /\ [l[a] EXCEPT !.slts = rest].slts = rest
      BY <1>1, <1>3 DEF Groups
    <2>3. l \in [1..Len(l) -> Groups]
      BY <1>1, ListFacts
    <2> HIDE DEF m, rest
    <2> QED BY <2>1, <2>2, <2>3
  <1>5. m \in Lists /\ Len(m) = Len(l)
    BY <1>1, <1>4, ListIntro
  <1> QED BY <1>3, <1>4, <1>5

(* clean and disconnect_if take out the one slot they mean. *)
LEMMA PoppedElements ==
    ASSUME NEW l, NEW ix, Good(l, ix), NEW a \in 1..Len(l), NEW b \in 1..Len(l[a].slts)
    PROVE  Elements(Popped(l, a, b)) = Elements(l) \ {l[a].slts[b]}
  <1> DEFINE m == Popped(l, a, b)
             n == Len(l[a].slts)
  <1>1. /\ l \in Lists /\ Len(l) \in Nat /\ n \in Nat /\ n \in 1..n
    BY ListFacts DEF Good
  <1>2. /\ m \in Lists /\ Len(m) = Len(l)
        /\ \A e \in 1..Len(l) : e # a => m[e] = l[e]
        /\ Len(m[a].slts) = n - 1
        /\ \A j \in 1..(n - 1) : m[a].slts[j] = IF j = b THEN l[a].slts[n] ELSE l[a].slts[j]
    BY <1>1, PoppedShape DEF Last
  <1> HIDE DEF m
  <1>3. ASSUME NEW s, NEW c \in 1..Len(l), NEW d \in 1..Len(m[c].slts), m[c].slts[d] = s
        PROVE  \E e \in 1..Len(l) : \E f \in 1..Len(l[e].slts) :
                  l[e].slts[f] = s /\ ~(e = a /\ f = b)
    <2>1. CASE c # a
      BY <1>2, <1>3, <2>1
    <2>2. CASE c = a /\ d = b
      <3>1. d \in 1..(n - 1)
        BY <1>2, <1>3, <2>2
      <3>2. l[a].slts[n] = s /\ n # b
        BY <1>1, <1>2, <1>3, <2>2, <3>1
      <3> QED BY <1>1, <3>2
    <2>3. CASE c = a /\ d # b
      <3>1. d \in 1..(n - 1) /\ d \in 1..n
        BY <1>1, <1>2, <1>3, <2>3
      <3>2. l[a].slts[d] = s
        BY <1>2, <1>3, <2>3, <3>1
      <3> QED BY <2>3, <3>1, <3>2
    <2> QED BY <2>1, <2>2, <2>3
  <1>4. ASSUME NEW e \in 1..Len(l), NEW f \in 1..Len(l[e].slts), ~(e = a /\ f = b)
        PROVE  \E c \in 1..Len(l) : \E d \in 1..Len(m[c].slts) : m[c].slts[d] = l[e].slts[f]
    <2>1. CASE e # a
      BY <1>2, <2>1
    <2>2. CASE e = a /\ f = n
      <3>1. b \in 1..(n - 1)
        BY <1>1, <1>4, <2>2
      <3> QED BY <1>2, <2>2, <3>1
    <2>3. CASE e = a /\ f # n
      <3>1. f \in 1..(n - 1) /\ f # b
        BY <1>1, <1>4, <2>3
      <3> QED BY <1>2, <2>3, <3>1
    <2> QED BY <2>1, <2>2, <2>3
  <1>5. ASSUME NEW s \in Elements(m) PROVE s \in Elements(l) /\ s # l[a].slts[b]
    <2>1. PICK c \in 1..Len(l) : \E d \in 1..Len(m[c].slts) : m[c].slts[d] = s
      BY <1>2, <1>5, ElementsOf
    <2>2. PICK e \in 1..Len(l) : \E f \in 1..Len(l[e].slts) : l[e].slts[f] = s /\ ~(e = a /\ f = b)
      BY <1>3, <2>1
    <2>3. PICK f \in 1..Len(l[e].slts) : l[e].slts[f] = s /\ ~(e = a /\ f = b)
      BY <2>2
    <2>4. s # l[a].slts[b]
      BY <2>3, OnePosition
    <2> QED BY <1>1, <2>3, <2>4, ElementsOf
  <1>6. ASSUME NEW s \in Elements(l), s # l[a].slts[b] PROVE s \in Elements(m)
    <2>1. PICK e \in 1..Len(l) : \E f \in 1..Len(l[e].slts) : l[e].slts[f] = s
      BY <1>1, <1>6, ElementsOf
    <2>2. PICK f \in 1..Len(l[e].slts) : l[e].slts[f] = s
      BY <2>1
    <2>3. ~(e = a /\ f = b)
      BY <1>6, <2>2
    <2>4. \E c \in 1..Len(l) : \E d \in 1..Len(m[c].slts) : m[c].slts[d] = s
      BY <1>4, <2>2, <2>3
    <2> QED BY <1>2, <2>4, ElementsOf
  <1> QED BY <1>5, <1>6 DEF m

(* add_slot adds the slot. *)
LEMMA WithGroupElements ==
    ASSUME NEW l \in Lists, NEW gid \in Int
    PROVE  Elements(l) \subseteq Elements(WithGroup(l, gid))
  <1> DEFINE p == Spot(l, gid)
             w == WithGroup(l, gid)
  <1>1. Len(l) \in Nat /\ \A e \in 1..Len(l) : l[e] \in Groups
    BY ListFacts
  <1>2. p \in 1..(Len(l) + 1)
    BY SpotExists
  <1>3. CASE HasGroup(l, gid)
    BY <1>3 DEF WithGroup
  <1>4. CASE ~HasGroup(l, gid)
    <2> DEFINE empty == [gid |-> gid, slts |-> <<>>]
    <2>1. w = [a \in 1..(Len(l) + 1) |->
                 CASE a < p -> l[a] [] a = p -> empty [] OTHER -> l[a - 1]]
      BY <1>4 DEF WithGroup
    <2>2. empty \in Groups
      BY DEF Groups
    <2> HIDE DEF empty
    <2>3. \A a \in 1..(Len(l) + 1) : /\ a < p => w[a] = l[a] /\ a \in 1..Len(l)
                                     /\ a = p => w[a] = empty
                                     /\ a > p => w[a] = l[a - 1] /\ a - 1 \in 1..Len(l)
      BY <1>1, <1>2, <2>1
    <2>4. w \in [1..(Len(l) + 1) -> Groups]
      <3>1. \A a \in 1..(Len(l) + 1) : w[a] \in Groups
        BY <1>1, <1>2, <2>2, <2>3
      <3> QED BY <2>1, <3>1
    <2>5. w \in Lists /\ Len(w) = Len(l) + 1
      BY <1>1, <2>4, ListIntro
    <2> HIDE DEF w, p
    <2>6. ASSUME NEW s \in Elements(l) PROVE s \in Elements(w)
      <3>1. PICK a \in 1..Len(l) : \E b \in 1..Len(l[a].slts) : l[a].slts[b] = s
        BY <2>6, ElementsOf
      <3>2. \E c \in 1..(Len(l) + 1) : w[c] = l[a]
        <4>1. CASE a < p
          BY <1>1, <2>3, <4>1
        <4>2. CASE a >= p
          <5>1. a + 1 \in 1..(Len(l) + 1) /\ a + 1 > p /\ (a + 1) - 1 = a
            BY <1>1, <1>2, <4>2
          <5> QED BY <2>3, <5>1
        <4> QED BY <1>1, <1>2, <4>1, <4>2
      <3>3. \E c \in 1..Len(w) : \E b \in 1..Len(w[c].slts) : w[c].slts[b] = s
        BY <2>5, <3>1, <3>2
      <3> QED BY <2>5, <3>3, ElementsOf
    <2> QED BY <2>6 DEF w
  <1> QED BY <1>3, <1>4

LEMMA AddedElements ==
    ASSUME NEW l, NEW ix \in [Slots -> Nat], Good(l, ix), NEW s \in Slots, s \notin Elements(l)
    PROVE  Elements(Added(l, s)) = Elements(l) \cup {s}
  <1> DEFINE w == WithGroup(l, Group[s])
             p == Spot(l, Group[s])
             n == Len(w[p].slts)
             ext == Append(w[p].slts, s)
             m == Added(l, s)
  <1>1. Group[s] \in Int /\ l \in Lists
    BY ConstantsAssumption DEF Good
  <1>2. /\ Good(w, ix) /\ p \in 1..Len(w) /\ Elements(l) \subseteq Elements(w)
    BY <1>1, WithGroupGood, WithGroupElements
  <1>3. /\ w \in Lists /\ Len(w) \in Nat /\ DOMAIN w = 1..Len(w) /\ w \in Seq(Groups)
        /\ \A e \in 1..Len(w) : /\ w[e] \in Groups /\ w[e].slts \in Seq(Slots)
                                /\ Len(w[e].slts) \in Nat
    BY <1>2, ListFacts DEF Good
  <1>4. m = [w EXCEPT ![p] = [w[p] EXCEPT !.slts = ext]]
    BY <1>2, <1>3 DEF Added
  <1> HIDE DEF w, p, m
  <1>5. /\ ext \in Seq(Slots) /\ Len(ext) = n + 1 /\ n \in Nat
        /\ ext[n + 1] = s /\ \A j \in 1..n : ext[j] = w[p].slts[j]
    BY <1>2, <1>3, AppendProperties
  <1>6. /\ [w[p] EXCEPT !.slts = ext] \in Groups
        /\ [w[p] EXCEPT !.slts = ext].slts = ext
    BY <1>2, <1>3, <1>5 DEF Groups
  <1> HIDE DEF ext
  <1>7. /\ m \in [1..Len(w) -> Groups] /\ m[p].slts = ext
        /\ \A e \in 1..Len(w) : e # p => m[e] = w[e]
    <2>1. w \in [1..Len(w) -> Groups]
      BY <1>3
    <2> QED BY <1>2, <1>4, <1>6, <2>1
  <1>8. m \in Lists /\ Len(m) = Len(w)
    BY <1>3, <1>7, ListIntro
  <1>9. s \in Elements(m)
    <2>1. n + 1 \in 1..Len(m[p].slts) /\ m[p].slts[n + 1] = s
      BY <1>5, <1>7, SMTT(60)
    <2> QED BY <1>2, <1>8, <2>1, ElementsOf
  <1>10. ASSUME NEW r \in Elements(l) PROVE r \in Elements(m)
    <2>1. r \in Elements(w)
      BY <1>2
    <2>2. PICK c \in 1..Len(w) : \E d \in 1..Len(w[c].slts) : w[c].slts[d] = r
      BY <1>3, <2>1, ElementsOf
    <2>3. PICK d \in 1..Len(w[c].slts) : w[c].slts[d] = r
      BY <2>2
    <2>4. d \in 1..Len(m[c].slts) /\ m[c].slts[d] = r
      <3>1. CASE c # p
        BY <1>7, <2>3, <3>1
      <3>2. CASE c = p
        BY <1>5, <1>7, <2>3, <3>2, SMTT(60)
      <3> QED BY <3>1, <3>2
    <2> QED BY <1>8, <2>4, ElementsOf
  <1>11. Elements(m) \subseteq Elements(l) \cup {s}
    BY AddedGood DEF m
  <1> QED BY <1>9, <1>10, <1>11 DEF m

(* disconnect(gid) takes out the slots of the group. *)
LEMMA EmptiedElements ==
    ASSUME NEW l, NEW ix, Good(l, ix), NEW gid
    PROVE  Elements(Emptied(l, gid)) = {s \in Elements(l) : Group[s] # gid}
  <1> DEFINE m == Emptied(l, gid)
  <1>1. /\ l \in Lists /\ Len(l) \in Nat /\ DOMAIN l = 1..Len(l)
        /\ \A e \in 1..Len(l) : l[e] \in Groups
    BY ListFacts DEF Good
  <1>2. m \in Lists /\ Len(m) = Len(l)
    <2>1. m \in Lists
      BY EmptiedGood DEF Good
    <2>2. DOMAIN m = 1..Len(l) /\ DOMAIN m = 1..Len(m) /\ Len(m) \in Nat
      BY <1>1, <2>1, ListFacts DEF Emptied
    <2> QED BY <1>1, <2>1, <2>2
  <1>3. \A e \in 1..Len(l) : m[e] = IF l[e].gid = gid THEN [l[e] EXCEPT !.slts = <<>>] ELSE l[e]
    BY <1>1 DEF Emptied
  <1>4. \A e \in 1..Len(l) : l[e].gid = gid => Len(m[e].slts) = 0
    <2>1. \A r \in Groups : [r EXCEPT !.slts = <<>>].slts = <<>>
      BY DEF Groups
    <2>2. Len(<<>>) = 0
      OBVIOUS
    <2> QED BY <1>1, <1>3, <2>1, <2>2
  <1> HIDE DEF m
  <1>5. \A e \in 1..Len(l) : \A f \in 1..Len(l[e].slts) : Group[l[e].slts[f]] = l[e].gid
    BY <1>1, IndexedElim DEF Good
  <1>6. ASSUME NEW s \in Elements(m) PROVE s \in Elements(l) /\ Group[s] # gid
    <2>1. PICK c \in 1..Len(l) : \E d \in 1..Len(m[c].slts) : m[c].slts[d] = s
      BY <1>2, <1>6, ElementsOf
    <2>2. PICK d \in 1..Len(m[c].slts) : m[c].slts[d] = s
      BY <2>1
    <2>3. l[c].gid # gid
      BY <1>4, <2>2
    <2>4. m[c] = l[c]
      BY <1>3, <2>3
    <2> QED BY <1>1, <1>5, <2>2, <2>3, <2>4, ElementsOf
  <1>7. ASSUME NEW s \in Elements(l), Group[s] # gid PROVE s \in Elements(m)
    <2>1. PICK c \in 1..Len(l) : \E d \in 1..Len(l[c].slts) : l[c].slts[d] = s
      BY <1>1, <1>7, ElementsOf
    <2>2. l[c].gid # gid
      BY <1>5, <1>7, <2>1
    <2>3. m[c] = l[c]
      BY <1>3, <2>2
    <2> QED BY <1>2, <2>1, <2>3, ElementsOf
  <1> QED BY <1>6, <1>7 DEF m

-----------------------------------------------------------------------------
(* What an emission has still to offer *)

LEMMA RestOf ==
    ASSUME NEW l \in Lists, NEW i \in Nat, NEW j \in Nat, NEW s
    PROVE  s \in Rest(l, i, j) <=>
              \E a \in 1..Len(l) : \E b \in 1..Len(l[a].slts) :
                  l[a].slts[b] = s /\ a >= i /\ (a > i \/ b >= j)
  <1>1. /\ DOMAIN l = 1..Len(l)
        /\ \A a \in 1..Len(l) : DOMAIN l[a].slts = 1..Len(l[a].slts)
    BY ListFacts
  <1>2. ASSUME s \in Rest(l, i, j)
        PROVE  \E a \in 1..Len(l) : \E b \in 1..Len(l[a].slts) :
                  l[a].slts[b] = s /\ a >= i /\ (a > i \/ b >= j)
    <2>1. PICK a \in DOMAIN l : a >= i /\ s \in {l[a].slts[b] :
                 b \in {b \in DOMAIN l[a].slts : a > i \/ b >= j}}
      BY <1>2 DEF Rest
    <2>2. PICK b \in DOMAIN l[a].slts : (a > i \/ b >= j) /\ s = l[a].slts[b]
      BY <2>1
    <2> QED BY <1>1, <2>1, <2>2
  <1>3. ASSUME NEW a \in 1..Len(l), NEW b \in 1..Len(l[a].slts),
               l[a].slts[b] = s, a >= i, a > i \/ b >= j
        PROVE  s \in Rest(l, i, j)
    <2>1. a \in {c \in DOMAIN l : c >= i}
      BY <1>1, <1>3
    <2>2. s \in {l[a].slts[c] : c \in {c \in DOMAIN l[a].slts : a > i \/ c >= j}}
      BY <1>1, <1>3
    <2> QED BY <2>1, <2>2 DEF Rest
  <1> QED BY <1>2, <1>3

LEMMA RestBounds ==
    ASSUME NEW l \in Lists, NEW i \in Nat, NEW j \in Nat
    PROVE  /\ Rest(l, i, j) \subseteq Elements(l)
           /\ Rest(l, 1, 1) = Elements(l)
           /\ i > Len(l) => Rest(l, i, j) = {}
  <1>1. Len(l) \in Nat
    BY ListFacts
  <1>2. Rest(l, i, j) \subseteq Elements(l)
    BY RestOf, ElementsOf
  <1>3. ASSUME NEW s \in Elements(l) PROVE s \in Rest(l, 1, 1)
    <2>1. PICK a \in 1..Len(l) : \E b \in 1..Len(l[a].slts) : l[a].slts[b] = s
      BY <1>3, ElementsOf
    <2>2. PICK b \in 1..Len(l[a].slts) : l[a].slts[b] = s
      BY <2>1
    <2>3. a >= 1 /\ b >= 1
      OBVIOUS
    <2> QED BY <2>2, <2>3, RestOf
  <1>4. Rest(l, 1, 1) \subseteq Elements(l)
    BY RestOf, ElementsOf
  <1>5. i > Len(l) => Rest(l, i, j) = {}
    BY <1>1, RestOf
  <1> QED BY <1>2, <1>3, <1>4, <1>5

(* The end of a group. *)
LEMMA RestGroup ==
    ASSUME NEW l \in Lists, NEW i \in 1..Len(l), NEW j \in Nat, j > Len(l[i].slts)
    PROVE  Rest(l, i + 1, 1) = Rest(l, i, j)
  <1>1. Len(l) \in Nat /\ i \in Nat /\ i + 1 \in Nat /\ \A a \in 1..Len(l) : Len(l[a].slts) \in Nat
    BY ListFacts
  <1>2. ASSUME NEW s \in Rest(l, i + 1, 1) PROVE s \in Rest(l, i, j)
    <2>1. PICK a \in 1..Len(l) : \E b \in 1..Len(l[a].slts) : l[a].slts[b] = s /\ a >= i + 1
      BY <1>1, <1>2, RestOf
    <2> QED BY <1>1, <2>1, RestOf
  <1>3. ASSUME NEW s \in Rest(l, i, j) PROVE s \in Rest(l, i + 1, 1)
    <2>1. PICK a \in 1..Len(l) : \E b \in 1..Len(l[a].slts) :
             l[a].slts[b] = s /\ a >= i /\ (a > i \/ b >= j)
      BY <1>1, <1>3, RestOf
    <2>2. PICK b \in 1..Len(l[a].slts) : l[a].slts[b] = s /\ a >= i /\ (a > i \/ b >= j)
      BY <2>1
    <2>3. a >= i + 1 /\ b >= 1
      BY <1>1, <2>2
    <2> QED BY <1>1, <2>2, <2>3, RestOf
  <1> QED BY <1>2, <1>3

(* A list has the slots of its groups, in ascending groups and each once. *)
Ordered(l) == \E ix \in [Slots -> Nat] : Good(l, ix)

(* The position of an emission or of a sweep is that of a slot. *)
InSpot(l, i, j) == i \in 1..Len(l) /\ j \in 1..Len(l[i].slts)

(* The slot in hand is one of the lowest group, and leaves with the next    *)
(* step.                                                                    *)
LEMMA RestSlot ==
    ASSUME NEW l, Ordered(l), NEW i, NEW j, InSpot(l, i, j)
    PROVE  /\ l[i].slts[j] \in Slots
           /\ l[i].slts[j] \in Rest(l, i, j)
           /\ \A r \in Rest(l, i, j) : Group[l[i].slts[j]] <= Group[r]
           /\ Rest(l, i, j + 1) = Rest(l, i, j) \ {l[i].slts[j]}
  <1>1. PICK ix \in [Slots -> Nat] : Good(l, ix)
    BY DEF Ordered
  <1>2. /\ l \in Lists /\ Len(l) \in Nat
        /\ \A a \in 1..Len(l) : /\ l[a].gid \in Int /\ Len(l[a].slts) \in Nat
                                /\ \A b \in 1..Len(l[a].slts) : l[a].slts[b] \in Slots
    BY <1>1, ListFacts DEF Good
  <1>3. i \in 1..Len(l) /\ j \in 1..Len(l[i].slts) /\ i \in Nat /\ j \in Nat /\ j + 1 \in Nat
    BY DEF InSpot
  <1>4. l[i].slts[j] \in Rest(l, i, j)
    BY <1>2, <1>3, RestOf
  <1>5. \A e \in 1..Len(l) : \A f \in 1..Len(l[e].slts) : Group[l[e].slts[f]] = l[e].gid
    BY <1>1, <1>2, IndexedElim DEF Good
  <1>6. \A e, c \in 1..Len(l) : e < c => l[e].gid < l[c].gid
    BY <1>1, <1>2, AscendingElim DEF Good
  <1>7. ASSUME NEW r \in Rest(l, i, j) PROVE Group[l[i].slts[j]] <= Group[r]
    <2>1. PICK a \in 1..Len(l) : \E b \in 1..Len(l[a].slts) : l[a].slts[b] = r /\ a >= i
      BY <1>2, <1>3, <1>7, RestOf
    <2>2. Group[r] = l[a].gid /\ Group[l[i].slts[j]] = l[i].gid
      BY <1>3, <1>5, <2>1
    <2>3. l[i].gid <= l[a].gid
      BY <1>2, <1>3, <1>6, <2>1, SMTT(60)
    <2> QED BY <2>2, <2>3
  <1>8. ASSUME NEW r \in Rest(l, i, j + 1) PROVE r \in Rest(l, i, j) /\ r # l[i].slts[j]
    <2> DEFINE k == j + 1
    <2>0. k \in Nat
      BY <1>3
    <2> HIDE DEF k
    <2>a. r \in Rest(l, i, k)
      BY <1>8 DEF k
    <2>b. \E a \in 1..Len(l) : \E b \in 1..Len(l[a].slts) :
             l[a].slts[b] = r /\ a >= i /\ (a > i \/ b >= k)
      BY ONLY <1>2, <1>3, <2>0, <2>a, RestOf
    <2>1. PICK a \in 1..Len(l) : \E b \in 1..Len(l[a].slts) :
             l[a].slts[b] = r /\ a >= i /\ (a > i \/ b >= j + 1)
      BY <2>b DEF k
    <2>2. PICK b \in 1..Len(l[a].slts) : l[a].slts[b] = r /\ a >= i /\ (a > i \/ b >= j + 1)
      BY <2>1
    <2>3. ~(a = i /\ b = j) /\ (a > i \/ b >= j)
      BY <1>3, <2>2
    <2>4. r # l[i].slts[j]
      BY <1>1, <1>3, <2>2, <2>3, OnePosition
    <2> QED BY <1>2, <1>3, <2>2, <2>3, <2>4, RestOf
  <1>9. ASSUME NEW r \in Rest(l, i, j), r # l[i].slts[j] PROVE r \in Rest(l, i, j + 1)
    <2>1. PICK a \in 1..Len(l) : \E b \in 1..Len(l[a].slts) :
             l[a].slts[b] = r /\ a >= i /\ (a > i \/ b >= j)
      BY <1>2, <1>3, <1>9, RestOf, SMTT(60)
    <2>2. PICK b \in 1..Len(l[a].slts) : l[a].slts[b] = r /\ a >= i /\ (a > i \/ b >= j)
      BY <2>1
    <2>3. a > i \/ b >= j + 1
      BY <1>3, <1>9, <2>2
    <2> QED BY <1>2, <1>3, <2>2, <2>3, RestOf
  <1> QED BY <1>2, <1>3, <1>4, <1>7, <1>8, <1>9

-----------------------------------------------------------------------------
(* The invariant: where each walk through a list stands *)

(* An emission at label p (returning to b from a disconnection) has a slot  *)
(* in hand; it has offered it.                                              *)
Offered(p, b) == p \in {"body", "pass"} \/ (p = "clean" /\ b = "pass")

InHand(p, b) == p \in {"blk", "call", "invoke"} \/ Offered(p, b)

(* An emission at position (i, j) of l that has called cl, while br were    *)
(* disconnected when it began and con are connected now.                    *)
Emission(l, i, j, p, b, cl, br, con) ==
    /\ i > Len(l) => j = 1
    /\ br \subseteq Elements(l) /\ br \cap con = {}
    /\ InHand(p, b) => InSpot(l, i, j)
    /\ \A s \in cl \cap Rest(l, i, j) : Offered(p, b) /\ s = l[i].slts[j]
    /\ p \in {"blk", "call", "invoke"} => l[i].slts[j] \notin br
    /\ Offered(p, b) => l[i].slts[j] \in cl \/ l[i].slts[j] \notin con

(* A sweep at position (i, j) of l has left nothing of S behind. *)
Swept(l, i, j, S) ==
    /\ i > Len(l) => j = 1
    /\ \A a \in 1..Len(l) : \A b \in 1..Len(l[a].slts) :
          a < i \/ (a = i /\ b < j) => l[a].slts[b] \notin S

Matching(t) == {s \in Slots : Matches(t, s)}

(* A thread that does neither is at the beginning of its next list. *)
WalkOK(t) ==
    /\ ref[t] # None =>
          Emission(value[ref[t]], gi[t], si[t], pc[t], back[t], called[t], barred[t], m_connected)
    /\ pc[t] = "sweep" => Swept(list(sig[t]), gi[t], si[t], Matching(t))
    /\ ref[t] = None => /\ called[t] = {} /\ barred[t] = {}
                        /\ pc[t] # "sweep" => gi[t] = 1 /\ si[t] = 1

WalkTypes ==
    /\ fn \in [Threads -> Callables \cup {None}]
    /\ obj \in [Threads -> Objects \cup {None}]
    /\ called \in [Threads -> SUBSET Slots]
    /\ barred \in [Threads -> SUBSET Slots]
    /\ m_block \subseteq Signals

AllOrdered == \A p \in Payloads : Ordered(value[p])

Walks == WalkTypes /\ AllOrdered /\ \A t \in Threads : WalkOK(t)

-----------------------------------------------------------------------------
(* The threads that do not move *)

ThreadSame(u) ==
    /\ pc'[u] = pc[u] /\ back'[u] = back[u] /\ sig'[u] = sig[u] /\ ref'[u] = ref[u]
    /\ gi'[u] = gi[u] /\ si'[u] = si[u] /\ slot'[u] = slot[u]
    /\ fn'[u] = fn[u] /\ obj'[u] = obj[u]
    /\ called'[u] = called[u] /\ barred'[u] = barred[u]

(* The types of what a thread owns. *)
Own ==
    /\ pc \in [Threads -> Labels] /\ back \in [Threads -> Labels]
    /\ sig \in [Threads -> Signals \cup {None}]
    /\ ref \in [Threads -> Payloads \cup {None}]
    /\ slot \in [Threads -> Slots \cup {None}]
    /\ gi \in [Threads -> Nat \ {0}] /\ si \in [Threads -> Nat \ {0}]
    /\ fn \in [Threads -> Callables \cup {None}]
    /\ obj \in [Threads -> Objects \cup {None}]
    /\ called \in [Threads -> SUBSET Slots]
    /\ barred \in [Threads -> SUBSET Slots]

LEMMA OwnTypes ==
    ASSUME Sharing, Placed, Walks
    PROVE  Own
  BY DEF Own, Sharing, SharedTypes, Placed, Walks, WalkTypes

LEMMA SameStep ==
    ASSUME Own, NEW t \in Threads, Step(t), NEW u \in Threads, u # t
    PROVE  ThreadSame(u)
  <1>1. CASE add_connection(t)
    BY <1>1 DEF Own, ThreadSame, add_connection, callVars
  <1>2. CASE clean(t)
    BY <1>2 DEF Own, ThreadSame, clean, callVars
  <1>3. CASE Sweep(t)
    BY <1>3 DEF Own, ThreadSame, Sweep, callVars
  <1>4. CASE slots_reference(t)
    BY <1>4 DEF Own, ThreadSame, slots_reference
  <1>5. CASE Advance(t)
    BY <1>5 DEF Own, ThreadSame, Advance, emitUnchanged
  <1>6. CASE TestConnected(t)
    BY <1>6 DEF Own, ThreadSame, TestConnected, emitUnchanged, callVars
  <1>7. CASE TestBlocked(t)
    BY <1>7 DEF Own, ThreadSame, TestBlocked, emitUnchanged, callVars
  <1>8. CASE call_slot(t)
    BY <1>8 DEF Own, ThreadSame, call_slot, disconnect, emitUnchanged
  <1>9. CASE Body(t)
    BY <1>9 DEF Own, ThreadSame, Body, disconnect, emitUnchanged, callVars
  <1>10. CASE CallTracked(t)
    BY <1>10 DEF Own, ThreadSame, CallTracked, emitUnchanged
  <1>11. CASE Pass(t)
    BY <1>11 DEF Own, ThreadSame, Pass, emitUnchanged, callVars
  <1>12. CASE DropConnection(t)
    BY <1>12 DEF Own, ThreadSame, DropConnection, disconnect, callVars
  <1> QED BY <1>1, <1>2, <1>3, <1>4, <1>5, <1>6, <1>7, <1>8, <1>9, <1>10, <1>11, <1>12 DEF Step

LEMMA SameBegin ==
    ASSUME Own, NEW t \in Threads, Begin(t), NEW u \in Threads, u # t
    PROVE  ThreadSame(u)
  <1>1. ASSUME NEW g, NEW s, ConnectObserver(t, g, s) PROVE ThreadSame(u)
    BY <1>1 DEF Own, ThreadSame, ConnectObserver, callVars
  <1>2. ASSUME NEW s, ConnectionDisconnect(t, s) PROVE ThreadSame(u)
    BY <1>2 DEF Own, ThreadSame, ConnectionDisconnect, disconnect, callVars
  <1>3. ASSUME NEW g, NEW c, NEW o, disconnect_if(t, g, c, o) PROVE ThreadSame(u)
    BY <1>3 DEF Own, ThreadSame, disconnect_if, callVars
  <1>4. ASSUME NEW g, Emit(t, g) PROVE ThreadSame(u)
    BY <1>4 DEF Own, ThreadSame, Emit, callVars
  <1>5. ASSUME NEW o, DestroyObserver(t, o) PROVE ThreadSame(u)
    BY <1>5 DEF Own, ThreadSame, DestroyObserver, callVars
  <1> QED BY <1>1, <1>2, <1>3, <1>4, <1>5 DEF Begin

(* The operations that take one step are those of no thread. *)
Elsewhere ==
    \/ \E g \in Signals, s \in Slots : Connect(g, s)
    \/ \E g \in Signals, s \in Slots : DisconnectGroup(g, Group[s])
    \/ \E g \in Signals : disconnect_all(g) \/ SetMuted(g)
    \/ \E g, h \in Signals : Move(g, h)
    \/ \E s \in Slots : SetBlocked(s)
    \/ \E o \in Objects : DropObject(o)
    \/ UNCHANGED vars

LEMMA SameElsewhere ==
    ASSUME Elsewhere, NEW u \in Threads
    PROVE  ThreadSame(u)
  BY DEF Elsewhere, ThreadSame, Connect, DisconnectGroup, disconnect_all, SetMuted, Move,
         SetBlocked, DropObject, vars, callVars

(* A writer leaves the lists of the other signals alone. *)
LEMMA CowOthers ==
    ASSUME Sharing, Placed, NEW g \in Signals, NEW l, cow_write(g, l), NEW h \in Signals, h # g
    PROVE  list(h)' = list(h)
  <1>1. /\ m_slots \in [Signals -> Payloads] /\ m_slots[h] # m_slots[g]
        /\ value \in [Payloads -> Lists]
    BY DEF Sharing, SharedTypes, Distinct, Placed
  <1>2. CASE count[m_slots[g]] = 1
    <2>1. value' = [value EXCEPT ![m_slots[g]] = l] /\ m_slots' = m_slots
      BY <1>2 DEF cow_write, Unique
    <2> QED BY <1>1, <2>1 DEF list
  <1>3. CASE count[m_slots[g]] # 1
    <2>1. PICK q \in Payloads : /\ count[q] = 0
                                /\ m_slots' = [m_slots EXCEPT ![g] = q]
                                /\ value' = [value EXCEPT ![q] = l]
      BY <1>3 DEF cow_write, Unique
    <2>2. m_slots[h] # q
      BY <2>1, Alone
    <2> QED BY <1>1, <2>1, <2>2 DEF list
  <1> QED BY <1>2, <1>3

(* The payload an emission lets go of is no signal's. *)
LEMMA AdvanceLists ==
    ASSUME Sharing, Placed, NEW t \in Threads, Advance(t)
    PROVE  \A g \in Signals : list(g)' = list(g)
  <1>1. pc[t] = "next" /\ m_slots' = m_slots
    BY DEF Advance, emitUnchanged
  <1>2. value' = value \/ Release(ref[t])
    BY DEF Advance
  <1>3. CASE value' = value
    BY <1>1, <1>3 DEF list
  <1>4. CASE Release(ref[t])
    <2>1. ref[t] # None /\ ref[t] \in Payloads
      BY <1>1 DEF Sharing, SharedTypes, RefHeld, Holds, Walking
    <2>2. value' = value \/ (count[ref[t]] = 1 /\ value' = [value EXCEPT ![ref[t]] = <<>>])
      BY <1>4, <2>1 DEF Release, Unique, Placed
    <2>3. CASE count[ref[t]] = 1 /\ value' = [value EXCEPT ![ref[t]] = <<>>]
      <3>1. \A g \in Signals : m_slots[g] # ref[t]
        BY <2>3, Alone
      <3> QED BY <1>1, <2>3, <3>1 DEF list
    <2> QED BY <1>3, <2>2, <2>3
  <1> QED BY <1>2, <1>3, <1>4

(* The steps of a thread that write no list. *)
LEMMA StepLists ==
    ASSUME Sharing, Placed, NEW t \in Threads, Step(t) \/ Begin(t)
    PROVE  \/ \A g \in Signals : list(g)' = list(g)
           \/ \E g \in Signals : \E l : cow_write(g, l) /\ mutex[g] = None
           \/ Sweep(t)
  <1> DEFINE Same == \A g \in Signals : list(g)' = list(g)
             Wrote == \E g \in Signals : \E l : cow_write(g, l) /\ mutex[g] = None
  <1>1. CASE clean(t)
    <2>1. pc[t] = "clean" /\ mutex[cleaner[slot[t]]] = None /\ \E l : cow_write(cleaner[slot[t]], l)
      BY <1>1 DEF clean
    <2>2. cleaner[slot[t]] \in Signals
      BY <2>1 DEF Sharing, CleanerKnown
    <2> QED BY <2>1, <2>2
  <1>2. CASE Advance(t)
    BY <1>2, AdvanceLists
  <1>3. CASE add_connection(t) \/ slots_reference(t) \/ DropConnection(t)
    <2>1. value' = value /\ m_slots' = m_slots
      BY <1>3 DEF add_connection, slots_reference, DropConnection, sigVars
    <2> QED BY <2>1 DEF list
  <1>4. CASE TestConnected(t) \/ TestBlocked(t) \/ call_slot(t) \/ Body(t) \/ CallTracked(t) \/ Pass(t)
    <2>1. value' = value /\ m_slots' = m_slots
      BY <1>4 DEF TestConnected, TestBlocked, call_slot, Body, CallTracked, Pass, emitUnchanged
    <2> QED BY <2>1 DEF list
  <1>5. ASSUME Begin(t) PROVE Same \/ Wrote
    <2>1. CASE \E g \in Signals, s \in Slots : ConnectObserver(t, g, s)
      BY <2>1 DEF ConnectObserver, MakeSlot
    <2>2. CASE \E g \in Signals, c \in Callables \cup {None}, o \in Objects \cup {None} :
                  disconnect_if(t, g, c, o)
      BY <2>2 DEF disconnect_if
    <2>3. CASE \/ \E s \in Slots : ConnectionDisconnect(t, s)
               \/ \E g \in Signals : Emit(t, g)
               \/ \E o \in Observers : DestroyObserver(t, o)
      <3>1. value' = value /\ m_slots' = m_slots
        BY <2>3 DEF ConnectionDisconnect, Emit, DestroyObserver, sigVars
      <3> QED BY <3>1 DEF list
    <2> QED BY <1>5, <2>1, <2>2, <2>3 DEF Begin
  <1> QED BY <1>1, <1>2, <1>3, <1>4, <1>5 DEF Step

(* A sweep writes the list of its own signal. *)
LEMMA SweepOthers ==
    ASSUME Sharing, Placed, NEW t \in Threads, Sweep(t), NEW h \in Signals, h # sig[t]
    PROVE  list(h)' = list(h)
  <1>1. pc[t] = "sweep" /\ m_slots' = m_slots
    BY DEF Sweep
  <1>2. PICK g \in Signals : g = sig[t]
    BY <1>1 DEF Sharing, SweepAlone
  <1>3. value' = value \/ \E l : value' = [value EXCEPT ![m_slots[g]] = l]
    BY <1>2 DEF Sweep
  <1>4. /\ m_slots \in [Signals -> Payloads] /\ m_slots[h] # m_slots[g]
        /\ value \in [Payloads -> Lists]
    BY <1>2 DEF Sharing, SharedTypes, Distinct, Placed
  <1>5. value'[m_slots[h]] = value[m_slots[h]]
    BY <1>3, <1>4
  <1> QED BY <1>1, <1>5 DEF list

(* Nobody else changes the list a sweep is in. *)
LEMMA SweepListStays ==
    ASSUME Sharing, Placed, NEW u \in Threads, pc[u] = "sweep",
           Elsewhere \/ \E t \in Threads : t # u /\ (Step(t) \/ Begin(t))
    PROVE  list(sig[u])' = value[m_slots[sig[u]]] \/ sig'[u] # sig[u]
  <1> SUFFICES ASSUME sig'[u] = sig[u] PROVE list(sig[u])' = list(sig[u])
    BY DEF list
  <1>1. PICK h \in Signals : h = sig[u] /\ mutex[h] = u /\ u # None
    BY ConstantsAssumption DEF Sharing, SweepAlone
  <1> SUFFICES list(h)' = list(h)
    BY <1>1 DEF list
  <1>2. ASSUME \E g \in Signals : \E l : cow_write(g, l) /\ mutex[g] = None
        PROVE  list(h)' = list(h)
    BY <1>1, <1>2, CowOthers
  <1>3. ASSUME NEW t \in Threads, t # u, Step(t) \/ Begin(t) PROVE list(h)' = list(h)
    <2>1. CASE Sweep(t)
      <3>1. pc[t] = "sweep"
        BY <2>1 DEF Sweep
      <3>2. sig[t] # h
        BY <1>1, <1>3, <3>1 DEF Sharing, SweepAlone
      <3> QED BY <2>1, <3>2, SweepOthers
    <2> QED BY <1>2, <1>3, <2>1, StepLists
  <1>4. CASE Elsewhere
    <2>1. CASE \/ \E g \in Signals, s \in Slots : Connect(g, s)
               \/ \E g \in Signals, s \in Slots : DisconnectGroup(g, Group[s])
               \/ \E g \in Signals : disconnect_all(g)
      BY <1>2, <2>1 DEF Connect, MakeSlot, DisconnectGroup, disconnect_all
    <2>2. ASSUME NEW g \in Signals, NEW k \in Signals, Move(g, k) PROVE list(h)' = list(h)
      <3>1. /\ mutex[g] = None /\ mutex[k] = None /\ value' = value
            /\ m_slots' = [m_slots EXCEPT ![g] = m_slots[k], ![k] = m_slots[g]]
        BY <2>2 DEF Move, Swapped
      <3>2. h # g /\ h # k /\ m_slots \in [Signals -> Payloads]
        BY <1>1, <3>1 DEF Sharing, SharedTypes
      <3> QED BY <3>1, <3>2 DEF list
    <2>3. CASE \/ \E g \in Signals : SetMuted(g)
               \/ \E s \in Slots : SetBlocked(s)
               \/ \E o \in Objects : DropObject(o)
               \/ UNCHANGED vars
      <3>1. value' = value /\ m_slots' = m_slots
        BY <2>3 DEF SetMuted, SetBlocked, DropObject, vars, sigVars
      <3> QED BY <3>1 DEF list
    <2> QED BY <1>4, <2>1, <2>2, <2>3 DEF Elsewhere
  <1> QED BY <1>3, <1>4

(* No slot in the list of an emission is connected again. *)
LEMMA ConnectedStays ==
    ASSUME Sharing, [Next]_vars, NEW u \in Threads, ref[u] # None
    PROVE  m_connected' \cap Elements(value[ref[u]]) \subseteq m_connected
  <1>1. ref[u] \in Payloads /\ count[ref[u]] \in Nat /\ count[ref[u]] >= 1
    BY Alone DEF Sharing, SharedTypes
  <1>2. ASSUME NEW g, NEW s, MakeSlot(g, s)
        PROVE  m_connected' \cap Elements(value[ref[u]]) \subseteq m_connected
    <2>1. ~Alive(s) /\ m_connected' = m_connected \cup {s}
      BY <1>2 DEF MakeSlot
    <2>2. count[ref[u]] > 0
      BY <1>1
    <2>3. s \notin Elements(value[ref[u]])
      BY <1>1, <2>1, <2>2 DEF Alive
    <2> QED BY <2>1, <2>3
  <1>3. ASSUME NEW t \in Threads, Step(t) PROVE m_connected' \subseteq m_connected
    <2>1. CASE add_connection(t) \/ clean(t) \/ Sweep(t) \/ slots_reference(t)
      BY <2>1 DEF add_connection, clean, Sweep, slots_reference, slotVars
    <2>2. CASE Advance(t) \/ TestConnected(t) \/ TestBlocked(t) \/ CallTracked(t) \/ Pass(t)
      BY <2>2 DEF Advance, TestConnected, TestBlocked, CallTracked, Pass
    <2>3. CASE call_slot(t) \/ Body(t) \/ DropConnection(t)
      BY <2>3 DEF call_slot, Body, DropConnection, disconnect
    <2> QED BY <1>3, <2>1, <2>2, <2>3 DEF Step
  <1>4. ASSUME NEW t \in Threads, Begin(t)
        PROVE  m_connected' \cap Elements(value[ref[u]]) \subseteq m_connected
    <2>1. CASE \E g \in Signals, s \in Slots : ConnectObserver(t, g, s)
      BY <1>2, <2>1 DEF ConnectObserver
    <2>2. CASE \/ \E s \in Slots : ConnectionDisconnect(t, s)
               \/ \E g \in Signals, c \in Callables \cup {None}, o \in Objects \cup {None} :
                     disconnect_if(t, g, c, o)
               \/ \E g \in Signals : Emit(t, g)
               \/ \E o \in Observers : DestroyObserver(t, o)
      <3>1. m_connected' \subseteq m_connected
        BY <2>2 DEF ConnectionDisconnect, disconnect, disconnect_if, Emit, DestroyObserver, slotVars
      <3> QED BY <3>1
    <2> QED BY <1>4, <2>1, <2>2 DEF Begin
  <1>5. CASE \E g \in Signals, s \in Slots : Connect(g, s)
    BY <1>2, <1>5 DEF Connect
  <1>6. CASE \/ \E g \in Signals, s \in Slots : DisconnectGroup(g, Group[s])
             \/ \E g \in Signals : disconnect_all(g) \/ SetMuted(g)
             \/ \E g, h \in Signals : Move(g, h)
             \/ \E s \in Slots : SetBlocked(s)
             \/ \E o \in Objects : DropObject(o)
             \/ UNCHANGED vars
    <2>1. m_connected' = m_connected
      BY <1>6 DEF DisconnectGroup, disconnect_all, SetMuted, Move, SetBlocked, DropObject, vars,
                  slotVars
    <2> QED BY <2>1
  <1> QED BY <1>3, <1>4, <1>5, <1>6 DEF Next

Undisturbed(u) ==
    /\ ThreadSame(u)
    /\ ref[u] # None => /\ value'[ref[u]] = value[ref[u]]
                        /\ m_connected' \cap Elements(value[ref[u]]) \subseteq m_connected
    /\ pc[u] = "sweep" => list(sig[u])' = list(sig[u])

LEMMA OthersUndisturbed ==
    ASSUME Sharing, Placed, Walks, NEW t \in Threads, Step(t) \/ Begin(t),
           NEW u \in Threads, u # t
    PROVE  Undisturbed(u)
  <1>1. ThreadSame(u)
    BY OwnTypes, SameStep, SameBegin
  <1>2. [Next]_vars
    BY DEF Next
  <1>3. ref[u] # None => value'[ref[u]] = value[ref[u]]
    BY <1>1, <1>2, ValuesStay DEF ThreadSame, Emitting
  <1>4. ref[u] # None => m_connected' \cap Elements(value[ref[u]]) \subseteq m_connected
    BY <1>2, ConnectedStays
  <1>5. pc[u] = "sweep" => list(sig[u])' = list(sig[u])
    BY <1>1, SweepListStays DEF ThreadSame, list
  <1> QED BY <1>1, <1>3, <1>4, <1>5 DEF Undisturbed

LEMMA AllUndisturbed ==
    ASSUME Sharing, Placed, Walks, Elsewhere, NEW u \in Threads
    PROVE  Undisturbed(u)
  <1>1. ThreadSame(u)
    BY SameElsewhere
  <1>2. [Next]_vars
    BY DEF Next, Elsewhere
  <1>3. ref[u] # None => value'[ref[u]] = value[ref[u]]
    BY <1>1, <1>2, ValuesStay DEF ThreadSame, Emitting
  <1>4. ref[u] # None => m_connected' \cap Elements(value[ref[u]]) \subseteq m_connected
    BY <1>2, ConnectedStays
  <1>5. pc[u] = "sweep" => list(sig[u])' = list(sig[u])
    BY <1>1, SweepListStays DEF ThreadSame, list
  <1> QED BY <1>1, <1>3, <1>4, <1>5 DEF Undisturbed

LEMMA EmissionFrame ==
    ASSUME NEW l \in Lists, NEW i, NEW j, NEW p, NEW b, NEW cl, NEW br, NEW con, NEW con2,
           Emission(l, i, j, p, b, cl, br, con), con2 \cap Elements(l) \subseteq con
    PROVE  Emission(l, i, j, p, b, cl, br, con2)
  <1>1. br \cap con2 = {}
    BY DEF Emission
  <1>2. ASSUME Offered(p, b) PROVE l[i].slts[j] \in cl \/ l[i].slts[j] \notin con2
    <2>1. i \in 1..Len(l) /\ j \in 1..Len(l[i].slts)
      BY <1>2 DEF Emission, InHand, InSpot
    <2>2. l[i].slts[j] \in Elements(l)
      BY <2>1, ElementsOf
    <2> QED BY <1>2, <2>2 DEF Emission
  <1> QED BY <1>1, <1>2 DEF Emission

LEMMA Keeps ==
    ASSUME Sharing, Placed, Walks, NEW u \in Threads, Undisturbed(u)
    PROVE  /\ WalkOK(u)'
           /\ Todo(u)' = Todo(u) /\ Pending(u)' = Pending(u)
           /\ Matching(u)' = Matching(u)
  <1>1. /\ pc'[u] = pc[u] /\ back'[u] = back[u] /\ sig'[u] = sig[u] /\ ref'[u] = ref[u]
        /\ gi'[u] = gi[u] /\ si'[u] = si[u] /\ slot'[u] = slot[u]
        /\ fn'[u] = fn[u] /\ obj'[u] = obj[u]
        /\ called'[u] = called[u] /\ barred'[u] = barred[u]
    BY DEF Undisturbed, ThreadSame
  <1>2. Matching(u)' = Matching(u)
    BY <1>1 DEF Matching, Matches
  <1>3. WalkOK(u)
    BY DEF Walks
  <1>4. ASSUME ref[u] # None
        PROVE  /\ value'[ref'[u]] = value[ref[u]]
               /\ Emission(value[ref[u]], gi[u], si[u], pc[u], back[u], called[u], barred[u], m_connected')
    <2>1. value[ref[u]] \in Lists
      BY <1>4 DEF Sharing, SharedTypes, Placed
    <2>2. /\ value'[ref[u]] = value[ref[u]]
          /\ m_connected' \cap Elements(value[ref[u]]) \subseteq m_connected
      BY <1>4 DEF Undisturbed
    <2>3. Emission(value[ref[u]], gi[u], si[u], pc[u], back[u], called[u], barred[u], m_connected)
      BY <1>3, <1>4 DEF WalkOK
    <2> QED BY <1>1, <2>1, <2>2, <2>3, EmissionFrame
  <1>5. pc[u] = "sweep" => list(sig[u])' = list(sig[u])
    BY DEF Undisturbed
  <1>6. WalkOK(u)'
    <2>1. ref'[u] # None =>
             Emission(value'[ref'[u]], gi'[u], si'[u], pc'[u], back'[u], called'[u], barred'[u],
                      m_connected')
      BY <1>1, <1>4
    <2>2. pc'[u] = "sweep" => Swept(list(sig[u])', gi'[u], si'[u], Matching(u)')
      BY <1>1, <1>2, <1>3, <1>5 DEF WalkOK
    <2>3. ref'[u] = None => /\ called'[u] = {} /\ barred'[u] = {}
                            /\ pc'[u] # "sweep" => gi'[u] = 1 /\ si'[u] = 1
      BY <1>1, <1>3 DEF WalkOK
    <2> QED BY <2>1, <2>2, <2>3 DEF WalkOK, Emission, Swept
  <1>7. Todo(u)' = Todo(u)
    <2>1. CASE ref[u] = None
      BY <1>1, <2>1 DEF Todo, Emitting
    <2>2. CASE ref[u] # None
      BY <1>1, <1>4, <2>2 DEF Todo, Emitting, Rest
    <2> QED BY <2>1, <2>2
  <1>8. Pending(u)' = Pending(u)
    BY <1>1 DEF Pending
  <1> QED BY <1>2, <1>6, <1>7, <1>8

-----------------------------------------------------------------------------
(* Every list is ordered, those the emissions hold too *)

LEMMA OrderedEmpty ==
    Ordered(<<>>)
  <1>1. Good(Opening, FirstIndex) /\ FirstIndex \in [Slots -> Nat]
    BY InitialAssumption DEF Good
  <1>2. Good(<<>>, FirstIndex)
    BY <1>1, EmptiedGood
  <1> QED BY <1>1, <1>2 DEF Ordered

(* A step writes the list of a signal or clears a payload. *)
LEMMA WrittenLists ==
    ASSUME Sharing, Placed, [Next]_vars, NEW p \in Payloads
    PROVE  \/ value'[p] = value[p] \/ value'[p] = <<>>
           \/ \E g \in Signals : value'[p] = list(g)'
  <1> DEFINE Known == \/ value'[p] = value[p] \/ value'[p] = <<>>
                      \/ \E g \in Signals : value'[p] = list(g)'
  <1>0. /\ m_slots \in [Signals -> Payloads] /\ value \in [Payloads -> Lists]
    BY DEF Sharing, SharedTypes, Placed
  <1>1. ASSUME NEW g \in Signals, NEW l, cow_write(g, l) PROVE Known
    <2>1. CASE count[m_slots[g]] = 1
      <3>1. value' = [value EXCEPT ![m_slots[g]] = l] /\ m_slots' = m_slots
        BY <1>1, <2>1 DEF cow_write, Unique
      <3> QED BY <1>0, <3>1 DEF list
    <2>2. CASE count[m_slots[g]] # 1
      <3>1. PICK q \in Payloads : /\ m_slots' = [m_slots EXCEPT ![g] = q]
                                  /\ value' = [value EXCEPT ![q] = l]
        BY <1>1, <2>2 DEF cow_write, Unique
      <3> QED BY <1>0, <3>1 DEF list
    <2> QED BY <2>1, <2>2
  <1>2. CASE value' = value
    BY <1>2
  <1>3. ASSUME NEW t \in Threads, Step(t) PROVE Known
    <2>1. CASE clean(t)
      <3>1. pc[t] = "clean" /\ \E l : cow_write(cleaner[slot[t]], l)
        BY <2>1 DEF clean
      <3>2. cleaner[slot[t]] \in Signals
        BY <3>1 DEF Sharing, CleanerKnown
      <3> QED BY <1>1, <3>1, <3>2
    <2>2. CASE Sweep(t)
      <3>1. pc[t] = "sweep" /\ m_slots' = m_slots
        BY <2>2 DEF Sweep
      <3>2. PICK g \in Signals : g = sig[t]
        BY <3>1 DEF Sharing, SweepAlone
      <3>3. value' = value \/ \E l : value' = [value EXCEPT ![m_slots[g]] = l]
        BY <2>2, <3>2 DEF Sweep
      <3> QED BY <1>0, <3>1, <3>3 DEF list
    <2>3. CASE Advance(t)
      <3>1. value' = value \/ Release(ref[t])
        BY <2>3 DEF Advance
      <3>2. Release(ref[t]) => \E l \in {<<>>, value[ref[t]]} : value' = [value EXCEPT ![ref[t]] = l]
        BY DEF Release
      <3> QED BY <1>0, <3>1, <3>2
    <2>4. CASE add_connection(t) \/ slots_reference(t) \/ DropConnection(t)
      BY <1>2, <2>4 DEF add_connection, slots_reference, DropConnection, sigVars
    <2>5. CASE TestConnected(t) \/ TestBlocked(t) \/ call_slot(t) \/ Body(t) \/ CallTracked(t) \/ Pass(t)
      BY <1>2, <2>5 DEF TestConnected, TestBlocked, call_slot, Body, CallTracked, Pass
    <2> QED BY <1>3, <2>1, <2>2, <2>3, <2>4, <2>5 DEF Step
  <1>4. ASSUME NEW t \in Threads, Begin(t) PROVE Known
    <2>1. CASE \E g \in Signals, s \in Slots : ConnectObserver(t, g, s)
      BY <1>1, <2>1 DEF ConnectObserver, MakeSlot
    <2>2. CASE \E g \in Signals, c \in Callables \cup {None}, o \in Objects \cup {None} :
                  disconnect_if(t, g, c, o)
      BY <1>1, <2>2 DEF disconnect_if
    <2>3. CASE \/ \E s \in Slots : ConnectionDisconnect(t, s)
               \/ \E g \in Signals : Emit(t, g)
               \/ \E o \in Observers : DestroyObserver(t, o)
      BY <1>2, <2>3 DEF ConnectionDisconnect, Emit, DestroyObserver, sigVars
    <2> QED BY <1>4, <2>1, <2>2, <2>3 DEF Begin
  <1>5. CASE \/ \E g \in Signals, s \in Slots : Connect(g, s)
             \/ \E g \in Signals, s \in Slots : DisconnectGroup(g, Group[s])
             \/ \E g \in Signals : disconnect_all(g)
    BY <1>1, <1>5 DEF Connect, MakeSlot, DisconnectGroup, disconnect_all
  <1>6. CASE \/ \E g \in Signals : SetMuted(g)
             \/ \E g, h \in Signals : Move(g, h)
             \/ \E s \in Slots : SetBlocked(s)
             \/ \E o \in Objects : DropObject(o)
             \/ UNCHANGED vars
    BY <1>2, <1>6 DEF SetMuted, Move, SetBlocked, DropObject, vars, sigVars
  <1> QED BY <1>3, <1>4, <1>5, <1>6 DEF Next

LEMMA OrderedStep ==
    ASSUME Sharing, Placed, Walks, [Next]_vars
    PROVE  AllOrdered'
  <1>1. Placed'
    BY PlacedStep
  <1>2. ASSUME NEW g \in Signals PROVE Ordered(list(g)')
    <2>1. Good(list(g)', m_index') /\ m_index' \in [Slots -> Nat]
      BY <1>1 DEF Placed, AllGood, Good
    <2> QED BY <2>1 DEF Ordered
  <1>3. ASSUME NEW p \in Payloads PROVE Ordered(value'[p])
    BY <1>2, OrderedEmpty, WrittenLists DEF Walks, AllOrdered
  <1> QED BY <1>3 DEF AllOrdered, Ordered, Good

-----------------------------------------------------------------------------
(* How an emission goes on *)

LEMMA EmissionEnters ==
    ASSUME NEW l, NEW i, NEW j, NEW b, NEW cl, NEW br, NEW con,
           Emission(l, i, j, "next", b, cl, br, con), InSpot(l, i, j), l[i].slts[j] \in con
    PROVE  Emission(l, i, j, "blk", b, cl, br, con)
  <1>1. ~Offered("next", b) /\ ~Offered("blk", b)
    BY DEF Offered
  <1>2. l[i].slts[j] \notin br
    BY DEF Emission
  <1> QED BY <1>1, <1>2 DEF Emission

(* It goes to the next slot and leaves the one in hand behind. *)
LEMMA EmissionPasses ==
    ASSUME NEW l, Ordered(l), NEW i, NEW j, NEW p, NEW b, NEW c, NEW cl, NEW br, NEW con,
           Emission(l, i, j, p, b, cl, br, con), InSpot(l, i, j)
    PROVE  Emission(l, i, j + 1, "next", c, cl, br, con)
  <1>1. ~Offered("next", c) /\ ~InHand("next", c)
    BY DEF Offered, InHand
  <1>2. Rest(l, i, j + 1) = Rest(l, i, j) \ {l[i].slts[j]}
    BY RestSlot
  <1>3. cl \cap Rest(l, i, j + 1) = {}
    BY <1>2 DEF Emission
  <1>4. l \in Lists
    BY DEF Ordered, Good
  <1>5. ~(i > Len(l))
    BY <1>4, ListFacts DEF InSpot
  <1> QED BY <1>1, <1>3, <1>5 DEF Emission

(* It goes to the next group. *)
LEMMA EmissionGroup ==
    ASSUME NEW l \in Lists, NEW i \in 1..Len(l), NEW j \in Nat, j > Len(l[i].slts),
           NEW b, NEW cl, NEW br, NEW con,
           Emission(l, i, j, "next", b, cl, br, con)
    PROVE  Emission(l, i + 1, 1, "next", b, cl, br, con)
  <1>1. ~Offered("next", b) /\ ~InHand("next", b)
    BY DEF Offered, InHand
  <1>2. Rest(l, i + 1, 1) = Rest(l, i, j)
    BY RestGroup
  <1> QED BY <1>1, <1>2 DEF Emission

(* It has the slot in hand, not yet offered. *)
LEMMA EmissionTests ==
    ASSUME NEW l, NEW i, NEW j, NEW p \in {"blk", "call", "invoke"},
           NEW q \in {"blk", "call", "invoke"}, NEW b, NEW cl, NEW br, NEW con,
           Emission(l, i, j, p, b, cl, br, con)
    PROVE  Emission(l, i, j, q, b, cl, br, con)
  <1>1. ~Offered(p, b) /\ ~Offered(q, b)
    BY DEF Offered
  <1> QED BY <1>1 DEF Emission, InHand

(* It offers the slot: it calls it, or the slot is not connected. *)
LEMMA EmissionOffers ==
    ASSUME NEW l, NEW i, NEW j, NEW p, NEW b, NEW q, NEW c, NEW cl, NEW dl, NEW br, NEW con, NEW don,
           Emission(l, i, j, p, b, cl, br, con), InHand(p, b), Offered(q, c),
           dl = cl \/ dl = cl \cup {l[i].slts[j]}, don \subseteq con,
           l[i].slts[j] \in dl \/ l[i].slts[j] \notin don
    PROVE  Emission(l, i, j, q, c, dl, br, don)
  <1>1. q \notin {"blk", "call", "invoke"}
    BY DEF Offered
  <1> QED BY <1>1 DEF Emission

(* It begins. *)
LEMMA EmissionBegins ==
    ASSUME NEW l, NEW b, NEW con
    PROVE  Emission(l, 1, 1, "next", b, {}, Elements(l) \ con, con)
  <1>1. ~Offered("next", b) /\ ~InHand("next", b)
    BY DEF Offered, InHand
  <1> QED BY <1>1 DEF Emission

-----------------------------------------------------------------------------
(* The thread that moves *)

LEMMA QuietThread ==
    ASSUME Walks, NEW t \in Threads, ref[t] = None, ref'[t] = None, pc[t] # "sweep", pc'[t] # "sweep",
           gi'[t] = gi[t], si'[t] = si[t], called'[t] = called[t], barred'[t] = barred[t]
    PROVE  WalkOK(t)' /\ Todo(t)' = Todo(t)
  <1>1. WalkOK(t)
    BY DEF Walks
  <1>2. Todo(t)' = Todo(t)
    BY DEF Todo, Emitting
  <1> QED BY <1>1, <1>2 DEF WalkOK

(* The facts about an emission. *)
LEMMA EmissionFacts ==
    ASSUME Sharing, Placed, Walks, NEW t \in Threads, ref[t] # None
    PROVE  /\ ref[t] \in Payloads
           /\ value[ref[t]] \in Lists /\ Ordered(value[ref[t]])
           /\ gi[t] \in Nat \ {0} /\ si[t] \in Nat \ {0}
           /\ Emission(value[ref[t]], gi[t], si[t], pc[t], back[t], called[t], barred[t], m_connected)
           /\ Todo(t) = Rest(value[ref[t]], gi[t], si[t])
  <1>1. ref[t] \in Payloads
    BY DEF Sharing, SharedTypes
  <1>2. WalkOK(t) /\ Ordered(value[ref[t]])
    BY <1>1 DEF Walks, AllOrdered
  <1> QED BY <1>1, <1>2 DEF WalkOK, Placed, Todo, Emitting

LEMMA AtSlot ==
    ASSUME Sharing, Placed, Walks, NEW t \in Threads, ref[t] # None,
           InSpot(value[ref[t]], gi[t], si[t])
    PROVE  /\ Cur(t) \in Slots /\ Cur(t) \in Todo(t)
           /\ \A r \in Todo(t) : Group[Cur(t)] <= Group[r]
           /\ Rest(value[ref[t]], gi[t], si[t] + 1) = Todo(t) \ {Cur(t)}
  BY EmissionFacts, RestSlot DEF Cur

(* The walk of an emission that goes on in the same payload. *)
LEMMA WalkGoesOn ==
    ASSUME Sharing, [Next]_vars, NEW t \in Threads, ref[t] # None, ref'[t] = ref[t], pc'[t] # "sweep",
           Emission(value[ref[t]], gi'[t], si'[t], pc'[t], back'[t], called'[t], barred'[t],
                    m_connected')
    PROVE  WalkOK(t)' /\ Todo(t)' = Rest(value[ref[t]], gi'[t], si'[t])
  <1>1. value'[ref'[t]] = value[ref[t]]
    BY ValuesStay DEF Emitting
  <1>2. Emission(value'[ref'[t]], gi'[t], si'[t], pc'[t], back'[t], called'[t], barred'[t],
                 m_connected')
    BY <1>1
  <1>3. Todo(t)' = Rest(value'[ref'[t]], gi'[t], si'[t])
    BY DEF Todo, Emitting, Rest
  <1>4. WalkOK(t)'
    BY <1>2 DEF WalkOK, Emission
  <1> QED BY <1>1, <1>3, <1>4

-----------------------------------------------------------------------------
(* The steps of an emission *)

IsFirst(t, s) == s \in Slots /\ s \in Todo(t) /\ \A r \in Todo(t) : Group[s] <= Group[r]

(* A slot that was called, is blocked or is disconnected is left behind. *)
LeftBehind(t) ==
    \E s : /\ IsFirst(t, s)
           /\ s \in called[t] \cup m_blocked \/ s \notin m_connected
           /\ Todo(t)' = Todo(t) \ {s}

LEMMA Holding ==
    ASSUME Sharing, NEW t \in Threads
    PROVE  /\ pc[t] \in Walking => ref[t] # None
           /\ pc[t] = "clean" /\ back[t] = "pass" => ref[t] # None
           /\ pc[t] \in {"idle", "ref", "register", "dtor", "sweep"} => ref[t] = None
           /\ pc[t] = "clean" /\ back[t] \in {"idle", "dtor"} => ref[t] = None
  BY DEF Sharing, RefHeld, Holds, Walking

LEMMA WalkTest ==
    ASSUME Sharing, Placed, Walks, NEW t \in Threads, TestConnected(t)
    PROVE  /\ WalkOK(t)' /\ Pending(t)' = Pending(t)
           /\ Todo(t)' = Todo(t) \/ LeftBehind(t)
  <1> DEFINE l == value[ref[t]]
  <1>1. [Next]_vars /\ Own
    BY OwnTypes DEF Next, Step
  <1>2. /\ pc[t] = "next" /\ gi[t] <= Len(l) /\ si[t] <= Len(l[gi[t]].slts)
        /\ UNCHANGED <<gi, back, called, barred, m_connected, ref, slot>>
    BY DEF TestConnected, emitUnchanged, callVars
  <1>3. ref[t] # None
    BY <1>2, Holding DEF Walking
  <1>4. /\ l \in Lists /\ Ordered(l) /\ gi[t] \in Nat \ {0} /\ si[t] \in Nat \ {0}
        /\ Emission(l, gi[t], si[t], "next", back[t], called[t], barred[t], m_connected)
        /\ Todo(t) = Rest(l, gi[t], si[t])
    BY <1>2, <1>3, EmissionFacts
  <1>5. InSpot(l, gi[t], si[t])
    <2>1. Len(l) \in Nat /\ gi[t] \in 1..Len(l)
      BY <1>2, <1>4, ListFacts
    <2>2. Len(l[gi[t]].slts) \in Nat
      BY <1>4, <2>1, ListFacts, SMTT(60)
    <2> QED BY <1>2, <1>4, <2>1, <2>2 DEF InSpot
  <1>6. /\ IsFirst(t, Cur(t)) /\ Cur(t) = l[gi[t]].slts[si[t]]
        /\ Rest(l, gi[t], si[t] + 1) = Todo(t) \ {Cur(t)}
    BY <1>3, <1>5, AtSlot DEF IsFirst, Cur
  <1> HIDE DEF l
  <1>7. CASE Cur(t) \in m_connected
    <2>1. pc'[t] = "blk" /\ si' = si
      BY <1>1, <1>7 DEF TestConnected, Own
    <2>2. Emission(l, gi'[t], si'[t], pc'[t], back'[t], called'[t], barred'[t], m_connected')
      BY <1>2, <1>4, <1>5, <1>6, <1>7, <2>1, EmissionEnters
    <2>3. WalkOK(t)' /\ Todo(t)' = Rest(l, gi'[t], si'[t])
      BY <1>1, <1>2, <1>3, <2>1, <2>2, WalkGoesOn DEF l
    <2> QED BY <1>2, <1>4, <2>1, <2>3 DEF Pending
  <1>8. CASE Cur(t) \notin m_connected
    <2>1. pc'[t] = "next" /\ si'[t] = si[t] + 1
      BY <1>1, <1>2, <1>8 DEF TestConnected, Own
    <2>2. Emission(l, gi'[t], si'[t], pc'[t], back'[t], called'[t], barred'[t], m_connected')
      BY <1>2, <1>4, <1>5, <2>1, EmissionPasses
    <2>3. WalkOK(t)' /\ Todo(t)' = Rest(l, gi'[t], si'[t])
      BY <1>1, <1>2, <1>3, <2>1, <2>2, WalkGoesOn DEF l
    <2>4. Todo(t)' = Todo(t) \ {Cur(t)}
      BY <1>2, <1>6, <2>1, <2>3, SMTT(60)
    <2> QED BY <1>2, <1>6, <1>8, <2>1, <2>3, <2>4 DEF Pending, LeftBehind
  <1> QED BY <1>7, <1>8

(* What the steps with a slot in hand start from. *)
LEMMA HandFacts ==
    ASSUME Sharing, Placed, Walks, NEW t \in Threads, pc[t] \in {"blk", "call", "invoke", "body", "pass"}
    PROVE  /\ ref[t] # None
           /\ Emission(value[ref[t]], gi[t], si[t], pc[t], back[t], called[t], barred[t], m_connected)
           /\ Ordered(value[ref[t]]) /\ InSpot(value[ref[t]], gi[t], si[t])
           /\ IsFirst(t, Cur(t)) /\ Cur(t) = value[ref[t]][gi[t]].slts[si[t]]
           /\ Todo(t) = Rest(value[ref[t]], gi[t], si[t])
           /\ Rest(value[ref[t]], gi[t], si[t] + 1) = Todo(t) \ {Cur(t)}
  <1>1. ref[t] # None
    BY Holding DEF Walking
  <1>2. InHand(pc[t], back[t])
    BY DEF InHand, Offered
  <1>3. InSpot(value[ref[t]], gi[t], si[t])
    BY <1>1, <1>2, EmissionFacts DEF Emission
  <1> QED BY <1>1, <1>3, EmissionFacts, AtSlot DEF IsFirst, Cur

LEMMA WalkBlocked ==
    ASSUME Sharing, Placed, Walks, NEW t \in Threads, TestBlocked(t)
    PROVE  /\ WalkOK(t)' /\ Pending(t)' = Pending(t)
           /\ Todo(t)' = Todo(t) \/ LeftBehind(t)
  <1> DEFINE l == value[ref[t]]
  <1>1. [Next]_vars /\ Own
    BY OwnTypes DEF Next, Step
  <1>2. pc[t] = "blk" /\ UNCHANGED <<gi, back, called, barred, m_connected, ref, slot>>
    BY DEF TestBlocked, emitUnchanged, callVars
  <1>3. /\ ref[t] # None
        /\ Emission(l, gi[t], si[t], "blk", back[t], called[t], barred[t], m_connected)
        /\ Ordered(l) /\ InSpot(l, gi[t], si[t])
        /\ IsFirst(t, Cur(t)) /\ Todo(t) = Rest(l, gi[t], si[t])
        /\ Rest(l, gi[t], si[t] + 1) = Todo(t) \ {Cur(t)}
    BY <1>2, HandFacts
  <1> HIDE DEF l
  <1>4. CASE Cur(t) \in m_blocked
    <2>1. pc'[t] = "next" /\ si'[t] = si[t] + 1
      BY <1>1, <1>4 DEF TestBlocked, Own
    <2>2. Emission(l, gi'[t], si'[t], pc'[t], back'[t], called'[t], barred'[t], m_connected')
      BY <1>2, <1>3, <2>1, EmissionPasses
    <2>3. WalkOK(t)' /\ Todo(t)' = Rest(l, gi'[t], si'[t])
      BY <1>1, <1>2, <1>3, <2>1, <2>2, WalkGoesOn DEF l
    <2>4. Todo(t)' = Todo(t) \ {Cur(t)}
      BY <1>2, <1>3, <2>1, <2>3
    <2> QED BY <1>2, <1>3, <1>4, <2>1, <2>3, <2>4 DEF Pending, LeftBehind
  <1>5. CASE Cur(t) \notin m_blocked
    <2>1. pc'[t] = "call" /\ si' = si
      BY <1>1, <1>5 DEF TestBlocked, Own
    <2>2. Emission(l, gi'[t], si'[t], pc'[t], back'[t], called'[t], barred'[t], m_connected')
      BY <1>2, <1>3, <2>1, EmissionTests
    <2>3. WalkOK(t)' /\ Todo(t)' = Rest(l, gi'[t], si'[t])
      BY <1>1, <1>2, <1>3, <2>1, <2>2, WalkGoesOn DEF l
    <2> QED BY <1>2, <1>3, <2>1, <2>3 DEF Pending
  <1> QED BY <1>4, <1>5

LEMMA WalkPass ==
    ASSUME Sharing, Placed, Walks, NEW t \in Threads, Pass(t)
    PROVE  /\ WalkOK(t)' /\ Pending(t)' = Pending(t)
           /\ LeftBehind(t)
  <1> DEFINE l == value[ref[t]]
  <1>1. [Next]_vars /\ Own
    BY OwnTypes DEF Next, Step
  <1>2. pc[t] = "pass" /\ UNCHANGED <<gi, back, called, barred, m_connected, ref, slot>>
    BY DEF Pass, emitUnchanged, callVars
  <1>3. /\ ref[t] # None
        /\ Emission(l, gi[t], si[t], "pass", back[t], called[t], barred[t], m_connected)
        /\ Ordered(l) /\ InSpot(l, gi[t], si[t])
        /\ IsFirst(t, Cur(t)) /\ Cur(t) = l[gi[t]].slts[si[t]]
        /\ Rest(l, gi[t], si[t] + 1) = Todo(t) \ {Cur(t)}
    BY <1>2, HandFacts
  <1> HIDE DEF l
  <1>4. pc'[t] = "next" /\ si'[t] = si[t] + 1
    BY <1>1 DEF Pass, Own
  <1>5. Emission(l, gi'[t], si'[t], pc'[t], back'[t], called'[t], barred'[t], m_connected')
    BY <1>2, <1>3, <1>4, EmissionPasses, SMTT(60)
  <1>6. WalkOK(t)' /\ Todo(t)' = Rest(l, gi'[t], si'[t])
    BY <1>1, <1>2, <1>3, <1>4, <1>5, WalkGoesOn DEF l
  <1>7. Todo(t)' = Todo(t) \ {Cur(t)}
    BY <1>2, <1>3, <1>4, <1>6
  <1>8. Cur(t) \in called[t] \/ Cur(t) \notin m_connected
    BY <1>3 DEF Emission, Offered
  <1> QED BY <1>2, <1>3, <1>4, <1>6, <1>7, <1>8 DEF Pending, LeftBehind

(* A slot is called; a connection is disconnected; neither. *)
Calls(t) ==
    /\ \E s : /\ IsFirst(t, s) /\ s \notin called[t] \cup barred[t]
              /\ called' = [called EXCEPT ![t] = @ \cup {s}]
    /\ m_connected' = m_connected /\ Pending(t)' = Pending(t)

Disconnects(t) ==
    /\ \E s \in m_connected : /\ m_connected' = m_connected \ {s}
                              /\ Pending(t) = None /\ Pending(t)' = s
    /\ called' = called

Neither(t) == called' = called /\ m_connected' = m_connected /\ Pending(t)' = Pending(t)

LEMMA WalkCall ==
    ASSUME Sharing, Placed, Walks, NEW t \in Threads, call_slot(t)
    PROVE  /\ WalkOK(t)' /\ Todo(t)' = Todo(t)
           /\ Calls(t) \/ Disconnects(t) \/ Neither(t)
  <1> DEFINE l == value[ref[t]]
             s == Cur(t)
  <1>1. [Next]_vars /\ Own
    BY OwnTypes DEF Next, Step
  <1>2. pc[t] = "call" /\ UNCHANGED <<gi, si, barred, ref>>
    BY DEF call_slot
  <1>3. /\ ref[t] # None
        /\ Emission(l, gi[t], si[t], "call", back[t], called[t], barred[t], m_connected)
        /\ IsFirst(t, s) /\ s = l[gi[t]].slts[si[t]] /\ Todo(t) = Rest(l, gi[t], si[t])
    BY <1>2, HandFacts, SMTT(60)
  <1>4. /\ s \notin called[t] /\ s \notin barred[t] /\ InHand("call", back[t])
        /\ Pending(t) = None
    BY <1>2, <1>3 DEF Emission, IsFirst, Offered, InHand, Pending
  <1> HIDE DEF l, s
  <1>5. CASE /\ called' = [called EXCEPT ![t] = @ \cup {s}]
             /\ pc' = [pc EXCEPT ![t] = IF Kind[s] = "extended" THEN "body" ELSE "pass"]
             /\ UNCHANGED <<m_connected, slot, back>>
    <2>1. pc'[t] \in {"body", "pass"} /\ called'[t] = called[t] \cup {s}
      BY <1>1, <1>5 DEF Own
    <2>2. Offered(pc'[t], back'[t]) /\ pc'[t] # "sweep" /\ pc'[t] # "clean"
      BY <2>1 DEF Offered
    <2>3. Emission(l, gi'[t], si'[t], pc'[t], back'[t], called'[t], barred'[t], m_connected')
      BY <1>2, <1>3, <1>4, <1>5, <2>1, <2>2, EmissionOffers
    <2>4. WalkOK(t)' /\ Todo(t)' = Rest(l, gi'[t], si'[t])
      BY <1>1, <1>2, <1>3, <2>2, <2>3, WalkGoesOn DEF l
    <2>5. Pending(t)' = Pending(t)
      BY <1>4, <2>2 DEF Pending
    <2> QED BY <1>2, <1>3, <1>4, <1>5, <2>4, <2>5 DEF Calls
  <1>6. CASE /\ pc' = [pc EXCEPT ![t] = "invoke"]
             /\ UNCHANGED <<m_connected, slot, back, called>>
    <2>1. pc'[t] = "invoke"
      BY <1>1, <1>6 DEF Own
    <2>2. Emission(l, gi'[t], si'[t], pc'[t], back'[t], called'[t], barred'[t], m_connected')
      BY <1>2, <1>3, <1>6, <2>1, EmissionTests
    <2>3. WalkOK(t)' /\ Todo(t)' = Rest(l, gi'[t], si'[t])
      BY <1>1, <1>2, <1>3, <2>1, <2>2, WalkGoesOn DEF l
    <2>4. Pending(t)' = Pending(t)
      BY <1>4, <2>1 DEF Pending
    <2> QED BY <1>2, <1>3, <1>6, <2>3, <2>4 DEF Neither
  <1>7. CASE disconnect(t, s, "pass") /\ UNCHANGED called
    <2>1. /\ pc'[t] = "clean" /\ back'[t] = "pass" /\ slot'[t] = s
          /\ s \in m_connected /\ m_connected' = m_connected \ {s}
      BY <1>1, <1>7 DEF Own, disconnect
    <2>2. Offered(pc'[t], back'[t])
      BY <2>1 DEF Offered
    <2>3. Emission(l, gi'[t], si'[t], pc'[t], back'[t], called'[t], barred'[t], m_connected')
      BY <1>2, <1>3, <1>4, <1>7, <2>1, <2>2, EmissionOffers, SMTT(60)
    <2>4. WalkOK(t)' /\ Todo(t)' = Rest(l, gi'[t], si'[t])
      BY <1>1, <1>2, <1>3, <2>1, <2>3, WalkGoesOn DEF l
    <2>5. Pending(t)' = s
      BY <2>1 DEF Pending
    <2> QED BY <1>2, <1>3, <1>4, <1>7, <2>1, <2>4, <2>5 DEF Disconnects
  <1>8. CASE /\ s \notin m_connected
             /\ pc' = [pc EXCEPT ![t] = "pass"]
             /\ UNCHANGED <<m_connected, slot, back, called>>
    <2>1. pc'[t] = "pass"
      BY <1>1, <1>8 DEF Own
    <2>2. Offered(pc'[t], back'[t])
      BY <2>1 DEF Offered
    <2>3. Emission(l, gi'[t], si'[t], pc'[t], back'[t], called'[t], barred'[t], m_connected')
      BY <1>2, <1>3, <1>4, <1>8, <2>1, <2>2, EmissionOffers
    <2>4. WalkOK(t)' /\ Todo(t)' = Rest(l, gi'[t], si'[t])
      BY <1>1, <1>2, <1>3, <2>1, <2>3, WalkGoesOn DEF l
    <2>5. Pending(t)' = Pending(t)
      BY <1>4, <2>1 DEF Pending
    <2> QED BY <1>2, <1>3, <1>8, <2>4, <2>5 DEF Neither
  <1> QED BY <1>5, <1>6, <1>7, <1>8 DEF call_slot, s

LEMMA WalkBody ==
    ASSUME Sharing, Placed, Walks, NEW t \in Threads, Body(t)
    PROVE  /\ WalkOK(t)' /\ Todo(t)' = Todo(t)
           /\ Disconnects(t) \/ Neither(t)
  <1> DEFINE l == value[ref[t]]
             s == Cur(t)
  <1>1. [Next]_vars /\ Own
    BY OwnTypes DEF Next, Step
  <1>2. pc[t] = "body" /\ UNCHANGED <<gi, si, called, barred, ref>>
    BY DEF Body, callVars
  <1>3. /\ ref[t] # None
        /\ Emission(l, gi[t], si[t], "body", back[t], called[t], barred[t], m_connected)
        /\ s = l[gi[t]].slts[si[t]] /\ Todo(t) = Rest(l, gi[t], si[t])
    BY <1>2, HandFacts
  <1>4. InHand("body", back[t]) /\ Pending(t) = None /\ (s \in called[t] \/ s \notin m_connected)
    BY <1>2, <1>3 DEF Emission, Offered, InHand, Pending
  <1>5. /\ \/ m_connected' = m_connected /\ pc' = [pc EXCEPT ![t] = "pass"] /\ back' = back
           \/ disconnect(t, s, "pass")
    BY DEF Body
  <1> HIDE DEF l, s
  <1>6. CASE m_connected' = m_connected /\ pc' = [pc EXCEPT ![t] = "pass"] /\ back' = back
    <2>1. pc'[t] = "pass"
      BY <1>1, <1>6 DEF Own
    <2>2. Offered(pc'[t], back'[t])
      BY <2>1 DEF Offered
    <2>3. Emission(l, gi'[t], si'[t], pc'[t], back'[t], called'[t], barred'[t], m_connected')
      BY <1>2, <1>3, <1>4, <1>6, <2>1, <2>2, EmissionOffers
    <2>4. WalkOK(t)' /\ Todo(t)' = Rest(l, gi'[t], si'[t])
      BY <1>1, <1>2, <1>3, <2>1, <2>3, WalkGoesOn DEF l
    <2>5. Pending(t)' = Pending(t)
      BY <1>4, <2>1 DEF Pending
    <2> QED BY <1>2, <1>3, <1>6, <2>4, <2>5 DEF Neither
  <1>7. CASE disconnect(t, s, "pass")
    <2>1. /\ pc'[t] = "clean" /\ back'[t] = "pass" /\ slot'[t] = s
          /\ s \in m_connected /\ m_connected' = m_connected \ {s}
      BY <1>1, <1>7 DEF Own, disconnect
    <2>2. Offered(pc'[t], back'[t])
      BY <2>1 DEF Offered
    <2>3. Emission(l, gi'[t], si'[t], pc'[t], back'[t], called'[t], barred'[t], m_connected')
      BY <1>2, <1>3, <1>4, <2>1, <2>2, EmissionOffers, SMTT(60)
    <2>4. WalkOK(t)' /\ Todo(t)' = Rest(l, gi'[t], si'[t])
      BY <1>1, <1>2, <1>3, <2>1, <2>3, WalkGoesOn DEF l
    <2>5. Pending(t)' = s
      BY <2>1 DEF Pending
    <2> QED BY <1>2, <1>3, <1>4, <2>1, <2>4, <2>5 DEF Disconnects
  <1> QED BY <1>5, <1>6, <1>7

LEMMA WalkTracked ==
    ASSUME Sharing, Placed, Walks, NEW t \in Threads, CallTracked(t)
    PROVE  /\ WalkOK(t)' /\ Todo(t)' = Todo(t)
           /\ Calls(t) \/ Neither(t)
  <1> DEFINE l == value[ref[t]]
             s == Cur(t)
  <1>1. [Next]_vars /\ Own
    BY OwnTypes DEF Next, Step
  <1>2. /\ pc[t] = "invoke" /\ UNCHANGED <<gi, si, barred, ref, back, m_connected>>
        /\ pc'[t] = "pass"
    BY <1>1 DEF CallTracked, Own
  <1>3. /\ ref[t] # None
        /\ Emission(l, gi[t], si[t], "invoke", back[t], called[t], barred[t], m_connected)
        /\ IsFirst(t, s) /\ s = l[gi[t]].slts[si[t]] /\ Todo(t) = Rest(l, gi[t], si[t])
    BY <1>2, HandFacts, SMTT(60)
  <1>4. /\ s \notin called[t] /\ s \notin barred[t] /\ InHand("invoke", back[t])
        /\ Pending(t)' = Pending(t)
    BY <1>2, <1>3 DEF Emission, IsFirst, Offered, InHand, Pending
  <1>5. Offered(pc'[t], back'[t])
    BY <1>2 DEF Offered
  <1>6. \/ s \in m_connected /\ called' = [called EXCEPT ![t] = @ \cup {s}]
        \/ s \notin m_connected /\ called' = called
    BY DEF CallTracked
  <1> HIDE DEF l, s
  <1>7. /\ called'[t] = called[t] \/ called'[t] = called[t] \cup {s}
        /\ s \in called'[t] \/ s \notin m_connected'
    BY <1>1, <1>2, <1>6 DEF Own
  <1>8. Emission(l, gi'[t], si'[t], pc'[t], back'[t], called'[t], barred'[t], m_connected')
    BY <1>2, <1>3, <1>4, <1>5, <1>7, EmissionOffers
  <1>9. WalkOK(t)' /\ Todo(t)' = Rest(l, gi'[t], si'[t])
    BY <1>1, <1>2, <1>3, <1>8, WalkGoesOn DEF l
  <1> QED BY <1>2, <1>3, <1>4, <1>6, <1>9 DEF Calls, Neither

(* The end of a group changes nothing; the end of the list is reached when  *)
(* every slot was offered.                                                  *)
LEMMA WalkAdvance ==
    ASSUME Sharing, Placed, Walks, NEW t \in Threads, Advance(t)
    PROVE  /\ WalkOK(t)' /\ Todo(t)' = Todo(t) /\ Pending(t)' = Pending(t)
           /\ \/ called' = called /\ barred' = barred
              \/ /\ Todo(t) = {}
                 /\ called' = [called EXCEPT ![t] = {}]
                 /\ barred' = [barred EXCEPT ![t] = {}]
  <1> DEFINE l == value[ref[t]]
  <1>1. [Next]_vars /\ Own
    BY OwnTypes DEF Next, Step
  <1>2. pc[t] = "next" /\ UNCHANGED <<m_connected, back, slot>>
    BY DEF Advance
  <1>3. ref[t] # None
    BY <1>2, Holding DEF Walking
  <1>4. /\ l \in Lists /\ Len(l) \in Nat /\ gi[t] \in Nat \ {0} /\ si[t] \in Nat \ {0}
        /\ Emission(l, gi[t], si[t], "next", back[t], called[t], barred[t], m_connected)
        /\ Todo(t) = Rest(l, gi[t], si[t])
    BY <1>2, <1>3, EmissionFacts, ListFacts
  <1>5. CASE /\ gi[t] > Len(l)
             /\ ref' = [ref EXCEPT ![t] = None]
             /\ pc' = [pc EXCEPT ![t] = "idle"]
             /\ gi' = [gi EXCEPT ![t] = 1]
             /\ called' = [called EXCEPT ![t] = {}]
             /\ barred' = [barred EXCEPT ![t] = {}]
             /\ UNCHANGED si
    <2>1. Todo(t) = {} /\ si[t] = 1
      BY <1>4, <1>5, RestBounds DEF Emission
    <2>2. /\ ref'[t] = None /\ pc'[t] = "idle" /\ gi'[t] = 1 /\ si'[t] = 1
          /\ called'[t] = {} /\ barred'[t] = {}
      BY <1>1, <1>5, <2>1 DEF Own
    <2>3. WalkOK(t)'
      BY <2>2 DEF WalkOK
    <2>4. Todo(t)' = {} /\ Pending(t)' = Pending(t)
      BY <1>2, <2>2 DEF Todo, Emitting, Pending
    <2> QED BY <1>5, <2>1, <2>3, <2>4
  <1>6. CASE /\ gi[t] <= Len(l)
             /\ si[t] > Len(l[gi[t]].slts)
             /\ gi' = [gi EXCEPT ![t] = @ + 1]
             /\ si' = [si EXCEPT ![t] = 1]
             /\ UNCHANGED <<ref, pc, called, barred>>
    <2>1. gi'[t] = gi[t] + 1 /\ si'[t] = 1 /\ gi[t] \in 1..Len(l)
      BY <1>1, <1>4, <1>6 DEF Own
    <2> HIDE DEF l
    <2>2. Emission(l, gi'[t], si'[t], pc'[t], back'[t], called'[t], barred'[t], m_connected')
      BY <1>2, <1>4, <1>6, <2>1, EmissionGroup
    <2>3. WalkOK(t)' /\ Todo(t)' = Rest(l, gi'[t], si'[t])
      BY <1>1, <1>2, <1>3, <1>6, <2>2, WalkGoesOn DEF l
    <2>4. Rest(l, gi'[t], si'[t]) = Rest(l, gi[t], si[t])
      BY <1>4, <1>6, <2>1, RestGroup
    <2> QED BY <1>2, <1>4, <1>6, <2>3, <2>4 DEF Pending
  <1> QED BY <1>5, <1>6 DEF Advance

LEMMA WalkReference ==
    ASSUME Sharing, Placed, Walks, NEW t \in Threads, slots_reference(t)
    PROVE  /\ WalkOK(t)' /\ Pending(t)' = Pending(t) /\ Todo(t) = {} /\ called[t] = {}
           /\ \E g \in Signals : /\ mutex[g] = None
                                 /\ Todo(t)' = Elements(list(g))
                                 /\ barred' = [barred EXCEPT ![t] = Elements(list(g)) \ m_connected]
  <1>1. Own
    BY OwnTypes
  <1>2. /\ pc[t] = "ref" /\ UNCHANGED <<m_connected, value, back, slot, gi, si, called>>
        /\ pc'[t] = "next"
    BY <1>1 DEF slots_reference, slotVars, Own
  <1>3. PICK g \in Signals : g = sig[t]
    BY <1>2 DEF Sharing, SweepAlone
  <1>4. /\ mutex[g] = None
        /\ ref' = [ref EXCEPT ![t] = m_slots[g]]
        /\ barred' = [barred EXCEPT ![t] = Elements(list(g)) \ m_connected]
    BY <1>3 DEF slots_reference
  <1>5. ref[t] = None
    BY <1>2, Holding
  <1>6. gi[t] = 1 /\ si[t] = 1 /\ called[t] = {}
    BY <1>2, <1>5 DEF Walks, WalkOK
  <1>7. /\ m_slots[g] \in Payloads /\ m_slots[g] # None
        /\ ref'[t] = m_slots[g] /\ barred'[t] = Elements(list(g)) \ m_connected
    BY <1>1, <1>4, ConstantsAssumption DEF Own, Sharing, SharedTypes
  <1>8. list(g) = value'[ref'[t]] /\ list(g) \in Lists
    BY <1>2, <1>7 DEF list, Placed
  <1>9. Emission(value'[ref'[t]], gi'[t], si'[t], pc'[t], back'[t], called'[t], barred'[t],
                 m_connected')
    BY <1>2, <1>6, <1>7, <1>8, EmissionBegins
  <1>10. WalkOK(t)'
    BY <1>2, <1>7, <1>9 DEF WalkOK, Emission
  <1>11. Todo(t)' = Rest(value'[ref'[t]], gi'[t], si'[t])
    BY <1>7 DEF Todo, Emitting, Rest
  <1>12. Rest(list(g), 1, 1) = Elements(list(g))
    BY <1>8, RestBounds
  <1>13. Todo(t)' = Elements(list(g))
    BY <1>2, <1>6, <1>8, <1>11, <1>12
  <1> QED BY <1>2, <1>4, <1>5, <1>6, <1>10, <1>13 DEF Todo, Emitting, Pending

-----------------------------------------------------------------------------
(* The steps of a disconnection *)

(* A thread that starts or ends something other than a walk. *)
LEMMA WalkQuiet ==
    ASSUME Sharing, Placed, Walks, NEW t \in Threads,
           \/ add_connection(t) \/ DropConnection(t)
           \/ \E g \in Signals, s \in Slots : ConnectObserver(t, g, s)
           \/ \E s \in Slots : ConnectionDisconnect(t, s)
           \/ \E g \in Signals : Emit(t, g)
           \/ \E o \in Observers : DestroyObserver(t, o)
    PROVE  WalkOK(t)' /\ Todo(t)' = Todo(t) /\ called' = called /\ barred' = barred
  <1>1. Own
    BY OwnTypes
  <1>2. UNCHANGED <<ref, gi, si, called, barred>>
    BY DEF add_connection, DropConnection, ConnectObserver, ConnectionDisconnect, Emit,
           DestroyObserver, callVars
  <1>3. pc[t] \in {"register", "dtor", "idle"}
    BY DEF add_connection, DropConnection, ConnectObserver, ConnectionDisconnect, Emit,
           DestroyObserver
  <1>4. pc'[t] # "sweep"
    BY <1>1, <1>3 DEF Own, add_connection, DropConnection, ConnectObserver, ConnectionDisconnect,
           Emit, DestroyObserver, disconnect
  <1>5. ref[t] = None
    BY <1>3, Holding
  <1> QED BY <1>2, <1>3, <1>4, <1>5, QuietThread

LEMMA WalkClean ==
    ASSUME Sharing, Placed, Walks, NEW t \in Threads, clean(t)
    PROVE  /\ WalkOK(t)' /\ Todo(t)' = Todo(t)
           /\ Pending(t) = slot[t] /\ Pending(t)' = None
  <1>1. Own /\ [Next]_vars
    BY OwnTypes DEF Next, Step
  <1>2. /\ pc[t] = "clean" /\ UNCHANGED <<ref, gi, si, called, barred, m_connected>>
        /\ pc'[t] = back[t] /\ back'[t] = "idle"
    BY <1>1 DEF clean, callVars, Own
  <1>3. back[t] \in {"idle", "pass", "dtor"}
    BY <1>2 DEF Sharing, CleanerKnown
  <1>4. Pending(t) = slot[t] /\ Pending(t)' = None
    BY <1>2, <1>3 DEF Pending
  <1>5. CASE back[t] \in {"idle", "dtor"}
    <2>1. ref[t] = None
      BY <1>2, <1>5, Holding
    <2> QED BY <1>2, <1>4, <1>5, <2>1, QuietThread
  <1>6. CASE back[t] = "pass"
    <2> DEFINE l == value[ref[t]]
    <2>1. ref[t] # None
      BY <1>2, <1>6, Holding
    <2>2. /\ Emission(l, gi[t], si[t], "clean", "pass", called[t], barred[t], m_connected)
          /\ Todo(t) = Rest(l, gi[t], si[t])
      BY <1>2, <1>6, <2>1, EmissionFacts
    <2>3. /\ Offered("clean", "pass") /\ Offered("pass", "idle") /\ InHand("clean", "pass")
      BY DEF Offered, InHand
    <2>4. l[gi[t]].slts[si[t]] \in called[t] \/ l[gi[t]].slts[si[t]] \notin m_connected
      BY <2>2, <2>3 DEF Emission
    <2> HIDE DEF l
    <2>5. Emission(l, gi'[t], si'[t], pc'[t], back'[t], called'[t], barred'[t], m_connected')
      BY <1>2, <1>6, <2>2, <2>3, <2>4, EmissionOffers
    <2>6. WalkOK(t)' /\ Todo(t)' = Rest(l, gi'[t], si'[t])
      BY <1>1, <1>2, <1>6, <2>1, <2>5, WalkGoesOn DEF l
    <2> QED BY <1>2, <1>4, <2>2, <2>6
  <1> QED BY <1>3, <1>5, <1>6

(* A slot that is not where its index says is not in the list. *)
LEMMA FoundByIndex ==
    ASSUME NEW l, Good(l, m_index), NEW s \in Elements(l)
    PROVE  \E a \in DOMAIN l : AtIndex(l, a, s)
  <1>1. l \in Lists /\ Indexed(l, m_index) /\ DOMAIN l = 1..Len(l)
    BY ListFacts DEF Good
  <1>2. PICK a \in 1..Len(l) : \E b \in 1..Len(l[a].slts) : l[a].slts[b] = s
    BY <1>1, ElementsOf
  <1>3. PICK b \in 1..Len(l[a].slts) : l[a].slts[b] = s
    BY <1>2
  <1>4. Group[s] = l[a].gid /\ m_index[s] = b - 1
    BY <1>1, <1>3, IndexedElim
  <1>5. Len(l[a].slts) \in Nat /\ m_index[s] < Len(l[a].slts) /\ m_index[s] + 1 = b
    BY <1>1, <1>4, ListFacts
  <1> QED BY <1>1, <1>3, <1>4, <1>5 DEF AtIndex

(* clean takes its slot, and no other, out of the signal that made it. *)
LEMMA CleanLists ==
    ASSUME Sharing, Placed, NEW t \in Threads, clean(t)
    PROVE  \E g \in Signals :
              /\ slot[t] \in Slots /\ g = cleaner[slot[t]] /\ mutex[g] = None
              /\ Elements(list(g)') = Elements(list(g)) \ {slot[t]}
              /\ \A h \in Signals : h # g => list(h)' = list(h)
  <1>1. pc[t] = "clean"
    BY DEF clean
  <1>2. PICK s \in Slots, g \in Signals : s = slot[t] /\ g = cleaner[s]
    BY <1>1 DEF Sharing, CleanerKnown
  <1>3. /\ Good(list(g), m_index) /\ m_index \in [Slots -> Nat] /\ m_index[s] \in Nat
        /\ list(g) \in Lists /\ value \in [Payloads -> Lists]
    BY <1>2 DEF Placed, AllGood, Good
  <1>4. mutex[g] = None
    BY <1>2 DEF clean
  <1>5. ASSUME NEW a \in DOMAIN list(g), AtIndex(list(g), a, s),
               cow_write(g, Popped(list(g), a, m_index[s] + 1))
        PROVE  Elements(list(g)') = Elements(list(g)) \ {s}
    <2> DEFINE b == m_index[s] + 1
    <2>1. a \in 1..Len(list(g)) /\ Len(list(g)[a].slts) \in Nat
      BY <1>3, ListFacts
    <2>2. b \in 1..Len(list(g)[a].slts) /\ list(g)[a].slts[b] = s
      BY <1>3, <1>5, <2>1 DEF AtIndex
    <2> HIDE DEF b
    <2>3. Popped(list(g), a, b) \in Lists
      BY <1>3, <2>1, <2>2, PoppedShape
    <2>4. list(g)' = Popped(list(g), a, b)
      BY <1>2, <1>3, <1>5, <2>3, CowLists DEF b
    <2> QED BY <1>3, <2>1, <2>2, <2>4, PoppedElements
  <1>6. ASSUME \A a \in DOMAIN list(g) : ~AtIndex(list(g), a, s), cow_write(g, list(g))
        PROVE  Elements(list(g)') = Elements(list(g)) \ {s}
    <2>1. list(g)' = list(g)
      BY <1>2, <1>3, <1>6, CowLists
    <2>2. s \notin Elements(list(g))
      BY <1>3, <1>6, FoundByIndex
    <2> QED BY <2>1, <2>2
  <1>7. Elements(list(g)') = Elements(list(g)) \ {s}
    BY <1>2, <1>5, <1>6 DEF clean
  <1>8. \E l : cow_write(g, l)
    BY <1>2 DEF clean
  <1>9. \A h \in Signals : h # g => list(h)' = list(h)
    BY <1>2, <1>8, CowOthers
  <1> QED BY <1>2, <1>4, <1>7, <1>9

-----------------------------------------------------------------------------
(* The steps of a sweep *)

LEMMA SweptGroup ==
    ASSUME NEW l \in Lists, NEW i \in 1..Len(l), NEW j \in Nat, NEW S, Swept(l, i, j, S),
           j > Len(l[i].slts)
    PROVE  Swept(l, i + 1, 1, S)
  <1>1. ASSUME NEW a \in 1..Len(l), NEW b \in 1..Len(l[a].slts), a < i + 1 \/ (a = i + 1 /\ b < 1)
        PROVE  a < i \/ (a = i /\ b < j)
    <2>1. Len(l[a].slts) \in Nat /\ a <= i
      BY <1>1, ListFacts
    <2> QED BY <1>1, <2>1
  <1> QED BY <1>1 DEF Swept

LEMMA SweptSlot ==
    ASSUME NEW l \in Lists, NEW i, NEW j, NEW S, InSpot(l, i, j), Swept(l, i, j, S),
           l[i].slts[j] \notin S
    PROVE  Swept(l, i, j + 1, S)
  <1>1. i \in 1..Len(l) /\ j \in 1..Len(l[i].slts) /\ Len(l) \in Nat
    BY ListFacts DEF InSpot
  <1>2. ~(i > Len(l))
    BY <1>1
  <1>3. ASSUME NEW a \in 1..Len(l), NEW b \in 1..Len(l[a].slts), a < i \/ (a = i /\ b < j + 1)
        PROVE  l[a].slts[b] \notin S
    <2>1. a < i \/ (a = i /\ b < j) \/ (a = i /\ b = j)
      BY <1>1, <1>3
    <2> QED BY <2>1 DEF Swept
  <1> QED BY <1>2, <1>3 DEF Swept

LEMMA SweptPop ==
    ASSUME NEW l \in Lists, NEW i, NEW j, NEW S, InSpot(l, i, j), Swept(l, i, j, S)
    PROVE  Swept(Popped(l, i, j), i, j, S)
  <1> DEFINE m == Popped(l, i, j)
             n == Len(l[i].slts)
  <1>1. i \in 1..Len(l) /\ j \in 1..n /\ Len(l) \in Nat /\ n \in Nat
    BY ListFacts DEF InSpot
  <1>2. /\ Len(m) = Len(l)
        /\ \A e \in 1..Len(l) : e # i => m[e] = l[e]
        /\ Len(m[i].slts) = n - 1
        /\ \A k \in 1..(n - 1) : m[i].slts[k] = IF k = j THEN Last(l, i) ELSE l[i].slts[k]
    BY <1>1, PoppedShape
  <1> HIDE DEF m
  <1>3. ~(i > Len(m))
    BY <1>1, <1>2
  <1>4. ASSUME NEW a \in 1..Len(m), NEW b \in 1..Len(m[a].slts), a < i \/ (a = i /\ b < j)
        PROVE  m[a].slts[b] \notin S
    <2>1. CASE a < i
      BY <1>1, <1>2, <2>1 DEF Swept
    <2>2. CASE a = i /\ b < j
      <3>1. b \in 1..(n - 1) /\ b \in 1..n /\ b # j
        BY <1>1, <1>2, <2>2
      <3>2. m[a].slts[b] = l[i].slts[b]
        BY <1>2, <2>2, <3>1
      <3> QED BY <1>1, <2>2, <3>1, <3>2 DEF Swept
    <2> QED BY <1>4, <2>1, <2>2
  <1> QED BY <1>3, <1>4 DEF Swept, m

LEMMA SweptEnd ==
    ASSUME NEW l \in Lists, NEW i \in Nat, NEW j, NEW S, Swept(l, i, j, S), i > Len(l)
    PROVE  j = 1 /\ Elements(l) \cap S = {}
  <1>1. ASSUME NEW s \in Elements(l) PROVE s \notin S
    <2>1. PICK a \in 1..Len(l) : \E b \in 1..Len(l[a].slts) : l[a].slts[b] = s
      BY <1>1, ElementsOf
    <2>2. a < i
      BY ListFacts
    <2> QED BY <2>1, <2>2 DEF Swept
  <1> QED BY <1>1 DEF Swept

LEMMA ElementsSlots ==
    ASSUME NEW l \in Lists
    PROVE  Elements(l) \subseteq Slots
  BY ElementsOf, ListFacts

LEMMA MembersMatching ==
    ASSUME Placed, NEW g \in Signals
    PROVE  Members(g) = IF mutex[g] = None THEN Elements(list(g))
                        ELSE Elements(list(g)) \ Matching(mutex[g])
  <1>1. list(g) \in Lists
    BY DEF Placed, AllGood, Good
  <1>2. Elements(list(g)) \subseteq Slots
    BY <1>1, ElementsSlots
  <1> QED BY <1>2 DEF Members, Matching

LEMMA WalkDisconnectIf ==
    ASSUME Sharing, Placed, Walks, NEW t \in Threads, NEW g \in Signals, NEW c, NEW o,
           disconnect_if(t, g, c, o)
    PROVE  /\ WalkOK(t)' /\ Todo(t)' = Todo(t) /\ Pending(t)' = Pending(t)
           /\ Members(g) = Elements(list(g))
           /\ Members(g)' = {s \in Elements(list(g)) :
                                ~((c # None => Callable[s] = c) /\ (o # None => Object[s] = o))}
           /\ \A h \in Signals : h # g => list(h)' = list(h) /\ mutex'[h] = mutex[h]
  <1>1. Own /\ mutex \in [Signals -> Threads \cup {None}]
    BY OwnTypes DEF Sharing, SharedTypes
  <1>2. /\ pc[t] = "idle" /\ mutex[g] = None /\ cow_write(g, list(g))
        /\ pc'[t] = "sweep" /\ sig'[t] = g /\ gi'[t] = 1 /\ si'[t] = 1
        /\ fn'[t] = c /\ obj'[t] = o
        /\ mutex' = [mutex EXCEPT ![g] = t]
        /\ UNCHANGED <<ref, called, barred>>
    BY <1>1 DEF disconnect_if, callVars, Own
  <1>3. ref[t] = None
    BY <1>2, Holding
  <1>4. called[t] = {} /\ barred[t] = {}
    BY <1>3 DEF Walks, WalkOK
  <1>5. list(g) \in Lists /\ value \in [Payloads -> Lists]
    BY DEF Placed, AllGood, Good
  <1>6. list(g)' = list(g) /\ \A h \in Signals : h # g => list(h)' = list(h)
    BY <1>2, <1>5, CowLists
  <1>7. Swept(list(sig[t])', gi'[t], si'[t], Matching(t)')
    <2>1. list(sig[t])' = list(g)
      BY <1>2, <1>6 DEF list
    <2>2. \A a \in 1..Len(list(g)) : \A b \in 1..Len(list(g)[a].slts) : ~(a < 1 \/ (a = 1 /\ b < 1))
      OBVIOUS
    <2>3. Swept(list(g), 1, 1, Matching(t)')
      BY <2>2 DEF Swept
    <2> QED BY <1>2, <2>1, <2>3
  <1>8. WalkOK(t)'
    <2>1. ref'[t] = None /\ called'[t] = {} /\ barred'[t] = {}
      BY <1>2, <1>3, <1>4
    <2> QED BY <1>2, <1>7, <2>1 DEF WalkOK, Swept
  <1>9. Todo(t)' = Todo(t) /\ Pending(t)' = Pending(t)
    BY <1>2, <1>3 DEF Todo, Emitting, Pending
  <1>10. Members(g) = Elements(list(g))
    BY <1>2 DEF Members
  <1>11. mutex'[g] = t /\ t # None /\ \A h \in Signals : h # g => mutex'[h] = mutex[h]
    BY <1>1, <1>2, ConstantsAssumption
  <1>12. Members(g)' = {s \in Elements(list(g)) :
                           ~((c # None => Callable[s] = c) /\ (o # None => Object[s] = o))}
    <2>1. Members(g)' = {s \in Elements(list(g)') : ~Matches(t, s)'}
      BY <1>11 DEF Members, Elements, Matches
    <2>2. \A s : Matches(t, s)' <=> (c # None => Callable[s] = c) /\ (o # None => Object[s] = o)
      BY <1>2 DEF Matches
    <2> QED BY <1>6, <2>1, <2>2
  <1> QED BY <1>6, <1>8, <1>9, <1>10, <1>11, <1>12

(* A sweep takes out what its signal no longer has. *)
LEMMA WalkSweep ==
    ASSUME Sharing, Placed, Walks, NEW t \in Threads, Sweep(t)
    PROVE  /\ WalkOK(t)' /\ Todo(t)' = Todo(t) /\ Pending(t)' = Pending(t)
           /\ \E g \in Signals : /\ g = sig[t] /\ Members(g)' = Members(g)
                                 /\ \A h \in Signals : h # g => mutex'[h] = mutex[h]
  <1>1. Own /\ mutex \in [Signals -> Threads \cup {None}]
    BY OwnTypes DEF Sharing, SharedTypes
  <1>2. pc[t] = "sweep" /\ UNCHANGED <<m_slots, ref, called, barred, slot, back>>
    BY DEF Sweep, callVars
  <1>3. PICK g \in Signals : g = sig[t]
    BY <1>2 DEF Sharing, SweepAlone
  <1> DEFINE l == list(g)
             i == gi[t]
             j == si[t]
  <1>4. mutex[g] = t /\ t # None /\ ref[t] = None
    BY <1>2, <1>3, Holding, ConstantsAssumption DEF Sharing, SweepAlone
  <1>5. /\ l \in Lists /\ Len(l) \in Nat /\ Good(l, m_index) /\ value \in [Payloads -> Lists]
        /\ m_slots[g] \in Payloads
        /\ i \in Nat \ {0} /\ j \in Nat \ {0}
    BY <1>1, ListFacts DEF Placed, AllGood, Good, Own, Sharing, SharedTypes
  <1>6. Swept(l, i, j, Matching(t)) /\ called[t] = {} /\ barred[t] = {}
    BY <1>2, <1>3, <1>4 DEF Walks, WalkOK
  <1>7. Members(g) = Elements(l) \ Matching(t) /\ Elements(l) \subseteq Slots
    BY <1>4, <1>5, MembersMatching, ElementsSlots
  <1>8. Todo(t)' = Todo(t)
    BY <1>2, <1>4 DEF Todo, Emitting
  <1>9. CASE /\ i > Len(l) /\ mutex' = [mutex EXCEPT ![g] = None]
             /\ pc' = [pc EXCEPT ![t] = "idle"] /\ gi' = [gi EXCEPT ![t] = 1]
             /\ UNCHANGED <<value, si>>
    <2>1. j = 1 /\ Elements(l) \cap Matching(t) = {}
      BY <1>5, <1>6, <1>9, SweptEnd
    <2>2. /\ pc'[t] = "idle" /\ gi'[t] = 1 /\ si'[t] = 1 /\ mutex'[g] = None
          /\ \A h \in Signals : h # g => mutex'[h] = mutex[h]
      BY <1>1, <1>9, <2>1 DEF Own
    <2>3. WalkOK(t)'
      BY <1>2, <1>4, <1>6, <2>2 DEF WalkOK
    <2>4. Members(g)' = Elements(l)
      BY <1>2, <1>9, <2>2 DEF Members, list, Elements
    <2>5. Pending(t)' = Pending(t)
      BY <1>2, <2>2 DEF Pending
    <2> QED BY <1>3, <1>7, <1>8, <2>1, <2>2, <2>3, <2>4, <2>5
  <1>10. ASSUME UNCHANGED <<mutex, pc, sig, fn, obj>>, list(g)' \in Lists,
                Swept(list(g)', gi'[t], si'[t], Matching(t)),
                Elements(list(g)') \ Matching(t) = Elements(l) \ Matching(t)
         PROVE  /\ WalkOK(t)' /\ Pending(t)' = Pending(t)
                /\ Members(g)' = Members(g)
                /\ \A h \in Signals : h # g => mutex'[h] = mutex[h]
    <2>1. Matching(t)' = Matching(t)
      BY <1>10 DEF Matching, Matches
    <2>2. list(sig[t])' = list(g)'
      BY <1>3, <1>10 DEF list
    <2>3. Swept(list(sig[t])', gi'[t], si'[t], Matching(t)')
      BY <1>10, <2>1, <2>2
    <2>4. ref'[t] = None /\ called'[t] = {} /\ barred'[t] = {} /\ pc'[t] = "sweep"
      BY <1>2, <1>4, <1>6, <1>10
    <2>5. WalkOK(t)'
      BY <2>3, <2>4 DEF WalkOK, Swept
    <2>6. Elements(list(g)') \subseteq Slots
      BY <1>10, ElementsSlots
    <2>7. Members(g)' = {s \in Elements(list(g)') : ~Matches(t, s)'}
      BY <1>4, <1>10 DEF Members, Elements, Matches
    <2>8. \A s : Matches(t, s)' <=> Matches(t, s)
      BY <1>10 DEF Matches
    <2>9. Members(g)' = Elements(list(g)') \ Matching(t)
      BY <2>6, <2>7, <2>8 DEF Matching
    <2> QED BY <1>2, <1>7, <1>10, <2>4, <2>5, <2>9 DEF Pending
  <1>11. CASE /\ i <= Len(l) /\ j > Len(l[i].slts)
              /\ gi' = [gi EXCEPT ![t] = @ + 1] /\ si' = [si EXCEPT ![t] = 1]
              /\ UNCHANGED <<value, mutex, pc, sig, fn, obj>>
    <2>1. gi'[t] = i + 1 /\ si'[t] = 1 /\ i \in 1..Len(l)
      BY <1>1, <1>5, <1>11 DEF Own
    <2>2. list(g)' = l
      BY <1>2, <1>11 DEF list
    <2> HIDE DEF l, i, j
    <2>3. Swept(l, i + 1, 1, Matching(t))
      BY <1>5, <1>6, <1>11, <2>1, SweptGroup
    <2> QED BY <1>3, <1>5, <1>8, <1>10, <1>11, <2>1, <2>2, <2>3
  <1>12. ASSUME i <= Len(l), j <= Len(l[i].slts)
         PROVE  InSpot(l, i, j) /\ l[i].slts[j] \in Elements(l) /\ l[i].slts[j] \in Slots
    <2>1. i \in 1..Len(l)
      BY <1>5, <1>12
    <2>2. Len(l[i].slts) \in Nat
      BY <1>5, <2>1, ListFacts
    <2>3. j \in 1..Len(l[i].slts)
      BY <1>5, <1>12, <2>2
    <2> QED BY <1>5, <1>7, <2>1, <2>3, ElementsOf DEF InSpot
  <1>13. CASE /\ i <= Len(l) /\ j <= Len(l[i].slts) /\ ~Matches(t, l[i].slts[j])
              /\ si' = [si EXCEPT ![t] = @ + 1]
              /\ UNCHANGED <<value, gi, mutex, pc, sig, fn, obj>>
    <2>1. gi'[t] = i /\ si'[t] = j + 1
      BY <1>1, <1>13 DEF Own
    <2>2. list(g)' = l
      BY <1>2, <1>13 DEF list
    <2>3. l[i].slts[j] \notin Matching(t)
      BY <1>13 DEF Matching
    <2> HIDE DEF l, i, j
    <2>4. Swept(l, i, j + 1, Matching(t))
      BY <1>5, <1>6, <1>12, <1>13, <2>3, SweptSlot
    <2> QED BY <1>3, <1>5, <1>8, <1>10, <1>13, <2>1, <2>2, <2>4
  <1>14. CASE /\ i <= Len(l) /\ j <= Len(l[i].slts) /\ Matches(t, l[i].slts[j])
              /\ value' = [value EXCEPT ![m_slots[g]] = Popped(l, i, j)]
              /\ UNCHANGED <<si, gi, mutex, pc, sig, fn, obj>>
    <2>1. list(g)' = Popped(l, i, j)
      BY <1>2, <1>5, <1>14 DEF list
    <2>2. l[i].slts[j] \in Matching(t)
      BY <1>12, <1>14 DEF Matching
    <2>3. InSpot(l, i, j)
      BY <1>12, <1>14
    <2> HIDE DEF l, i, j
    <2>4. Popped(l, i, j) \in Lists /\ Elements(Popped(l, i, j)) = Elements(l) \ {l[i].slts[j]}
      BY <1>5, <2>3, PoppedShape, PoppedElements DEF InSpot
    <2>5. Swept(Popped(l, i, j), i, j, Matching(t))
      BY <1>5, <1>6, <2>3, SweptPop
    <2>6. gi'[t] = i /\ si'[t] = j
      BY <1>14 DEF i, j
    <2>7. Elements(list(g)') \ Matching(t) = Elements(l) \ Matching(t)
      BY <2>1, <2>2, <2>4
    <2>8. list(g)' \in Lists /\ Swept(list(g)', gi'[t], si'[t], Matching(t))
      BY <2>1, <2>4, <2>5, <2>6
    <2> QED BY <1>3, <1>8, <1>10, <1>14, <2>7, <2>8
  <1> QED BY <1>3, <1>9, <1>11, <1>13, <1>14 DEF Sweep

-----------------------------------------------------------------------------
(* The invariant holds *)

LEMMA TypesStep ==
    ASSUME Sharing, Placed, Walks, NEW t \in Threads, Step(t) \/ Begin(t)
    PROVE  WalkTypes'
  <1>1. Own /\ m_block \subseteq Signals
    BY OwnTypes DEF Walks, WalkTypes
  <1>2. CASE add_connection(t) \/ clean(t)
    BY <1>1, <1>2 DEF Own, WalkTypes, add_connection, clean, callVars
  <1>3. CASE Sweep(t)
    BY <1>1, <1>3 DEF Own, WalkTypes, Sweep, callVars
  <1>4. CASE slots_reference(t)
    <2>1. PICK g \in Signals : g = sig[t]
      BY <1>4 DEF slots_reference, Sharing, SweepAlone
    <2>2. Elements(list(g)) \subseteq Slots
      BY ElementsSlots DEF Placed, AllGood, Good
    <2>3. /\ barred' = [barred EXCEPT ![t] = Elements(list(g)) \ m_connected]
          /\ UNCHANGED <<fn, obj, called, m_block>>
      BY <1>4, <2>1 DEF slots_reference
    <2> QED BY <1>1, <2>2, <2>3 DEF Own, WalkTypes
  <1>5. CASE Advance(t) \/ TestConnected(t) \/ TestBlocked(t) \/ Pass(t) \/ Body(t)
    BY <1>1, <1>5 DEF Own, WalkTypes, Advance, TestConnected, TestBlocked, Pass, Body,
                      emitUnchanged, callVars
  <1>6. CASE call_slot(t) \/ CallTracked(t)
    <2>1. Cur(t) \in Slots
      BY <1>6, HandFacts DEF IsFirst, call_slot, CallTracked
    <2>2. /\ called' = called \/ called' = [called EXCEPT ![t] = @ \cup {Cur(t)}]
          /\ UNCHANGED <<fn, obj, barred, m_block>>
      BY <1>6 DEF call_slot, CallTracked, emitUnchanged
    <2> QED BY <1>1, <2>1, <2>2 DEF Own, WalkTypes
  <1>7. CASE DropConnection(t)
    BY <1>1, <1>7 DEF Own, WalkTypes, DropConnection, callVars
  <1>8. ASSUME NEW g, NEW s, ConnectObserver(t, g, s) PROVE WalkTypes'
    BY <1>1, <1>8 DEF Own, WalkTypes, ConnectObserver, callVars
  <1>9. ASSUME NEW s, ConnectionDisconnect(t, s) PROVE WalkTypes'
    BY <1>1, <1>9 DEF Own, WalkTypes, ConnectionDisconnect, callVars
  <1>10. ASSUME NEW g, NEW c \in Callables \cup {None}, NEW o \in Objects \cup {None},
                disconnect_if(t, g, c, o)
         PROVE  WalkTypes'
    BY <1>1, <1>10 DEF Own, WalkTypes, disconnect_if, callVars
  <1>11. ASSUME NEW g, Emit(t, g) PROVE WalkTypes'
    BY <1>1, <1>11 DEF Own, WalkTypes, Emit, callVars
  <1>12. ASSUME NEW o \in Observers, DestroyObserver(t, o) PROVE WalkTypes'
    <2>1. o \in Objects
      BY ConstantsAssumption DEF Observers, Objects
    <2> QED BY <1>1, <1>12, <2>1 DEF Own, WalkTypes, DestroyObserver, callVars
  <1>13. CASE Step(t)
    BY <1>2, <1>3, <1>4, <1>5, <1>6, <1>7, <1>13 DEF Step
  <1>14. CASE Begin(t)
    BY <1>8, <1>9, <1>10, <1>11, <1>12, <1>14 DEF Begin
  <1> QED BY <1>13, <1>14

LEMMA TypesElsewhere ==
    ASSUME Walks, Elsewhere
    PROVE  WalkTypes'
  <1>1. UNCHANGED <<fn, obj, called, barred>>
    BY DEF Elsewhere, Connect, DisconnectGroup, disconnect_all, SetMuted, Move, SetBlocked,
           DropObject, vars, callVars
  <1>2. m_block' \subseteq Signals
    <2>1. m_block \subseteq Signals
      BY DEF Walks, WalkTypes
    <2>2. CASE \E g \in Signals : SetMuted(g)
      BY <2>1, <2>2 DEF SetMuted
    <2>3. CASE \E g, h \in Signals : Move(g, h)
      BY <2>1, <2>3 DEF Move, Flag
    <2>4. CASE m_block' = m_block
      BY <2>1, <2>4
    <2> QED BY <2>2, <2>3, <2>4 DEF Elsewhere, Connect, DisconnectGroup, disconnect_all, SetBlocked,
                                    DropObject, vars
  <1> QED BY <1>1, <1>2 DEF Walks, WalkTypes

LEMMA WalksStep ==
    Sharing /\ Placed /\ Walks /\ [Next]_vars => Walks'
  <1> SUFFICES ASSUME Sharing, Placed, Walks, [Next]_vars
               PROVE  Walks'
    OBVIOUS
  <1>1. AllOrdered'
    BY OrderedStep
  <1>2. CASE Elsewhere
    <2>1. WalkTypes'
      BY <1>2, TypesElsewhere
    <2>2. \A u \in Threads : WalkOK(u)'
      BY <1>2, AllUndisturbed, Keeps
    <2> QED BY <1>1, <2>1, <2>2 DEF Walks
  <1>3. ASSUME NEW t \in Threads, Step(t) \/ Begin(t) PROVE Walks'
    <2>1. WalkTypes'
      BY <1>3, TypesStep
    <2>2. \A u \in Threads : u # t => WalkOK(u)'
      BY <1>3, OthersUndisturbed, Keeps
    <2>3. CASE Step(t)
      <3>1. WalkOK(t)'
        BY <2>3, WalkQuiet, WalkClean, WalkSweep, WalkReference, WalkAdvance, WalkTest, WalkBlocked,
           WalkCall, WalkBody, WalkTracked, WalkPass DEF Step
      <3> QED BY <1>1, <2>1, <2>2, <3>1 DEF Walks
    <2>4. CASE Begin(t)
      <3>1. WalkOK(t)'
        BY <2>4, WalkQuiet, WalkDisconnectIf DEF Begin
      <3> QED BY <1>1, <2>1, <2>2, <3>1 DEF Walks
    <2> QED BY <1>3, <2>3, <2>4
  <1>4. Elsewhere \/ \E t \in Threads : Step(t) \/ Begin(t)
    BY DEF Next, Elsewhere
  <1> QED BY <1>2, <1>3, <1>4

LEMMA WalksInit ==
    Init => Walks
  <1> SUFFICES ASSUME Init PROVE Walks
    OBVIOUS
  <1>1. WalkTypes
    BY DEF Init, WalkTypes
  <1>2. AllOrdered
    <2>1. Ordered(Opening)
      BY InitialAssumption DEF Ordered, Good
    <2> QED BY <2>1, OrderedEmpty DEF Init, AllOrdered
  <1>3. \A t \in Threads : WalkOK(t)
    BY DEF Init, WalkOK
  <1> QED BY <1>1, <1>2, <1>3 DEF Walks

-----------------------------------------------------------------------------
(* The slots of the other signals *)

LEMMA MembersKept ==
    ASSUME NEW h \in Signals, list(h)' = list(h), mutex'[h] = mutex[h],
           mutex[h] # None => fn'[mutex[h]] = fn[mutex[h]] /\ obj'[mutex[h]] = obj[mutex[h]]
    PROVE  Members(h)' = Members(h)
  <1>1. CASE mutex[h] = None
    BY <1>1 DEF Members, Elements
  <1>2. CASE mutex[h] # None
    <2>1. Members(h)' = {s \in Elements(list(h)') : ~Matches(mutex[h], s)'}
      BY <1>2 DEF Members, Elements, Matches
    <2>2. \A s : Matches(mutex[h], s)' <=> Matches(mutex[h], s)
      BY <1>2 DEF Matches
    <2> QED BY <1>2, <2>1, <2>2 DEF Members
  <1> QED BY <1>1, <1>2

LEMMA MembersElsewhere ==
    ASSUME Sharing, Elsewhere, NEW h \in Signals, list(h)' = list(h)
    PROVE  Members(h)' = Members(h)
  <1>1. UNCHANGED <<mutex, fn, obj>>
    BY DEF Elsewhere, Connect, DisconnectGroup, disconnect_all, SetMuted, Move, SetBlocked,
           DropObject, vars
  <1> QED BY <1>1, MembersKept

LEMMA MembersBeside ==
    ASSUME Sharing, Own, NEW t \in Threads, Step(t) \/ Begin(t), NEW h \in Signals,
           pc[t] = "sweep" => h # sig[t], list(h)' = list(h), mutex'[h] = mutex[h]
    PROVE  Members(h)' = Members(h)
  <1>1. ASSUME mutex[h] # None
        PROVE  mutex[h] \in Threads /\ mutex[h] # t
    BY <1>1 DEF Sharing, SharedTypes, SweepAlone
  <1>2. mutex[h] # None => fn'[mutex[h]] = fn[mutex[h]] /\ obj'[mutex[h]] = obj[mutex[h]]
    BY <1>1, SameStep, SameBegin DEF ThreadSame
  <1> QED BY <1>2, MembersKept

-----------------------------------------------------------------------------
(* Each step of Signal is one of SignalAbs, or none *)

(* What SignalAbs leaves to the threads. *)
ThreadsStay == \A u \in Threads : Todo(u)' = Todo(u) /\ Pending(u)' = Pending(u)

OthersKept(t) == \A u \in Threads : u # t => Todo(u)' = Todo(u) /\ Pending(u)' = Pending(u)

SignalsStay == \A h \in Signals : Members(h)' = Members(h)

LEMMA Stutters ==
    ASSUME SignalsStay, ThreadsStay, UNCHANGED <<cleaner, m_connected, m_blocked, m_block, barred, called>>
    PROVE  UNCHANGED Abs!vars
  BY DEF Abs!vars, SignalsStay, ThreadsStay

LEMMA LivesAlive ==
    ASSUME Sharing, Placed, Walks, NEW s \in Slots, Abs!Lives(s)
    PROVE  Alive(s)
  <1>1. /\ \A g \in Signals : /\ Members(g) \subseteq Elements(list(g))
                              /\ m_slots[g] \in Payloads /\ count[m_slots[g]] > 0
    <2>1. \A g \in Signals : Members(g) \subseteq Elements(list(g))
      BY DEF Members
    <2>2. \A g \in Signals : /\ m_slots[g] \in Payloads /\ count[m_slots[g]] \in Nat
                             /\ count[m_slots[g]] >= 1
      BY Alone DEF Sharing, SharedTypes
    <2> QED BY <2>1, <2>2
  <1>2. ASSUME NEW g \in Signals, s \in Members(g) PROVE Alive(s)
    BY <1>1, <1>2 DEF Alive, list
  <1>3. ASSUME NEW t \in Threads, s \in Todo(t) PROVE Alive(s)
    <2>1. ref[t] # None
      BY <1>3 DEF Todo, Emitting
    <2>2. /\ ref[t] \in Payloads /\ value[ref[t]] \in Lists
          /\ Todo(t) = Rest(value[ref[t]], gi[t], si[t]) /\ gi[t] \in Nat /\ si[t] \in Nat
      BY <2>1, EmissionFacts
    <2>3. s \in Elements(value[ref[t]])
      BY <1>3, <2>2, RestBounds
    <2>4. count[ref[t]] > 0
      <3>1. count[ref[t]] \in Nat /\ count[ref[t]] >= 1
        BY <2>1, <2>2, Alone DEF Sharing, SharedTypes
      <3> QED BY <3>1
    <2> QED BY <2>2, <2>3, <2>4 DEF Alive
  <1>4. ASSUME NEW t \in Threads, Pending(t) = s PROVE Alive(s)
    <2>1. s # None
      BY ConstantsAssumption
    <2> QED BY <1>4, <2>1 DEF Pending, Alive
  <1> QED BY <1>2, <1>3, <1>4 DEF Abs!Lives

LEMMA SimMakeSlot ==
    ASSUME Sharing, Placed, Walks, NEW g \in Signals, NEW s \in Slots, MakeSlot(g, s),
           UNCHANGED <<m_block, mutex, barred, called>>, ThreadsStay,
           \A h \in Signals : h # g => Members(h)' = Members(h)
    PROVE  Abs!Connect(g, s)
  <1>1. /\ ~Alive(s) /\ mutex[g] = None /\ cow_write(g, Added(list(g), s))
        /\ m_connected' = m_connected \cup {s} /\ m_blocked' = m_blocked \ {s}
        /\ cleaner' = [cleaner EXCEPT ![s] = g]
    BY DEF MakeSlot
  <1>2. ~Abs!Lives(s)
    BY <1>1, LivesAlive
  <1>3. /\ m_slots[g] \in Payloads /\ Good(list(g), m_index) /\ m_index \in [Slots -> Nat]
        /\ value \in [Payloads -> Lists] /\ count[m_slots[g]] \in Nat /\ count[m_slots[g]] >= 1
    BY Alone DEF Sharing, SharedTypes, Placed, AllGood
  <1>4. s \notin Elements(list(g))
    <2>1. count[m_slots[g]] > 0
      BY <1>3
    <2> QED BY <1>1, <1>3, <2>1 DEF Alive, list
  <1>5. /\ Elements(Added(list(g), s)) = Elements(list(g)) \cup {s}
        /\ Added(list(g), s) \in Lists
    <2>1. Elements(Added(list(g), s)) = Elements(list(g)) \cup {s}
      BY <1>3, <1>4, AddedElements
    <2>2. Good(Added(list(g), s), IndexAt(m_index, s, NewIndex(list(g), s)))
      BY <1>3, <1>4, AddedGood
    <2> QED BY <2>1, <2>2 DEF Good
  <1>6. list(g)' = Added(list(g), s)
    BY <1>1, <1>3, <1>5, CowLists
  <1>7. Members(g) = Elements(list(g)) /\ Members(g)' = Elements(list(g)')
    BY <1>1 DEF Members, Elements
  <1>8. Members(g)' = Members(g) \cup {s}
    BY <1>5, <1>6, <1>7
  <1> QED BY <1>1, <1>2, <1>8 DEF Abs!Connect, ThreadsStay

LEMMA SimWrite ==
    ASSUME Sharing, Placed, Walks, NEW g \in Signals, NEW l \in Lists, mutex[g] = None,
           cow_write(g, l), NEW S, Elements(l) = Elements(list(g)) \ S,
           UNCHANGED <<m_block, mutex, m_connected, m_blocked, cleaner, barred, called>>, ThreadsStay,
           \A h \in Signals : h # g => Members(h)' = Members(h)
    PROVE  Abs!RemoveAll(g, S)
  <1>1. value \in [Payloads -> Lists]
    BY DEF Placed
  <1>2. list(g)' = l
    BY <1>1, CowLists
  <1>3. Members(g) = Elements(list(g)) /\ Members(g)' = Elements(list(g)')
    BY DEF Members, Elements
  <1>4. Members(g)' = Members(g) \ S
    BY <1>2, <1>3
  <1> QED BY <1>4 DEF Abs!RemoveAll, ThreadsStay

LEMMA SimElsewhere ==
    ASSUME Sharing, Placed, Walks, Elsewhere
    PROVE  Abs!Next \/ UNCHANGED Abs!vars
  <1>1. ThreadsStay
    BY AllUndisturbed, Keeps DEF ThreadsStay
  <1>2. ASSUME NEW g \in Signals, NEW l, cow_write(g, l)
        PROVE  \A h \in Signals : h # g => Members(h)' = Members(h)
    BY <1>2, CowOthers, MembersElsewhere
  <1>3. ASSUME NEW g \in Signals, NEW s \in Slots, Connect(g, s) PROVE Abs!Next
    <2>1. MakeSlot(g, s) /\ UNCHANGED <<m_block, mutex, barred, called>>
      BY <1>3 DEF Connect, callVars
    <2>2. \A h \in Signals : h # g => Members(h)' = Members(h)
      BY <1>2, <2>1 DEF MakeSlot
    <2>3. Abs!Connect(g, s)
      BY <1>1, <2>1, <2>2, SimMakeSlot
    <2> QED BY <2>3 DEF Abs!Next
  <1>4. ASSUME NEW g \in Signals, NEW r \in Slots, DisconnectGroup(g, Group[r]) PROVE Abs!Next
    <2> DEFINE gid == Group[r]
    <2>1. /\ mutex[g] = None /\ cow_write(g, Emptied(list(g), gid))
          /\ UNCHANGED <<m_block, mutex, m_connected, m_blocked, cleaner, barred, called>>
      BY <1>4 DEF DisconnectGroup, Emptied, slotVars, callVars
    <2>2. Good(list(g), m_index) /\ list(g) \in Lists
      BY DEF Placed, AllGood, Good
    <2>3. /\ Emptied(list(g), gid) \in Lists
          /\ Elements(Emptied(list(g), gid)) = {s \in Elements(list(g)) : Group[s] # gid}
          /\ Elements(list(g)) \subseteq Slots
      BY <2>2, EmptiedGood, EmptiedElements, ElementsSlots DEF Good
    <2>4. Elements(Emptied(list(g), gid)) = Elements(list(g)) \ Abs!InGroup(gid)
      BY <2>3 DEF Abs!InGroup
    <2>5. \A h \in Signals : h # g => Members(h)' = Members(h)
      BY <1>2, <2>1
    <2>6. Abs!RemoveAll(g, Abs!InGroup(gid))
      <3> HIDE DEF gid
      <3> QED BY <1>1, <2>1, <2>3, <2>4, <2>5, SimWrite
    <2> QED BY <2>6 DEF Abs!Next, Abs!DisconnectMatching
  <1>5. ASSUME NEW g \in Signals, disconnect_all(g) PROVE Abs!Next
    <2>1. /\ mutex[g] = None /\ cow_write(g, <<>>)
          /\ UNCHANGED <<m_block, mutex, m_connected, m_blocked, cleaner, barred, called>>
      BY <1>5 DEF disconnect_all, slotVars, callVars
    <2>2. Elements(list(g)) \subseteq Slots
      BY ElementsSlots DEF Placed, AllGood, Good
    <2>3. Elements(<<>>) = {} /\ <<>> \in Lists
      <3>1. DOMAIN <<>> = {}
        OBVIOUS
      <3> QED BY <3>1 DEF Elements, Lists
    <2>4. Elements(<<>>) = Elements(list(g)) \ Slots
      BY <2>2, <2>3
    <2>5. \A h \in Signals : h # g => Members(h)' = Members(h)
      BY <1>2, <2>1
    <2>6. Abs!RemoveAll(g, Slots)
      BY <1>1, <2>1, <2>3, <2>4, <2>5, SimWrite
    <2> QED BY <2>6 DEF Abs!Next, Abs!DisconnectMatching
  <1>6. ASSUME value' = value, m_slots' = m_slots PROVE SignalsStay
    <2>1. \A h \in Signals : list(h)' = list(h)
      BY <1>6 DEF list
    <2> QED BY <2>1, MembersElsewhere DEF SignalsStay
  <1>7. ASSUME NEW g \in Signals, SetMuted(g) PROVE Abs!Next
    <2>1. /\ m_block' \in {m_block \cup {g}, m_block \ {g}}
          /\ UNCHANGED <<value, m_slots, m_connected, m_blocked, cleaner, barred, called>>
      BY <1>7 DEF SetMuted, sigVars, slotVars, callVars
    <2>2. Abs!SetMuted
      BY <1>1, <1>6, <2>1 DEF Abs!SetMuted, SignalsStay, ThreadsStay
    <2> QED BY <2>2 DEF Abs!Next
  <1>8. ASSUME NEW s \in Slots, SetBlocked(s) PROVE Abs!Next
    <2>1. /\ m_blocked' \in {m_blocked \cup {s}, m_blocked \ {s}}
          /\ UNCHANGED <<value, m_slots, m_connected, m_block, cleaner, barred, called>>
      BY <1>8 DEF SetBlocked, sigVars, callVars
    <2>2. Abs!SetBlocked
      BY <1>1, <1>6, <2>1 DEF Abs!SetBlocked, SignalsStay, ThreadsStay
    <2> QED BY <2>2 DEF Abs!Next
  <1>9. ASSUME NEW g \in Signals, NEW h \in Signals, Move(g, h) PROVE Abs!Next
    <2>1. /\ g # h /\ mutex[g] = None /\ mutex[h] = None
          /\ m_slots' = [m_slots EXCEPT ![g] = m_slots[h], ![h] = m_slots[g]]
          /\ UNCHANGED <<value, mutex, m_connected, m_blocked, cleaner, barred, called>>
      BY <1>9 DEF Move, Swapped, slotVars, callVars
    <2>2. m_slots \in [Signals -> Payloads] /\ m_block \subseteq Signals
      BY DEF Sharing, SharedTypes, Walks, WalkTypes
    <2>3. /\ list(g)' = list(h) /\ list(h)' = list(g)
          /\ \A k \in Signals : k # g /\ k # h => list(k)' = list(k)
      BY <2>1, <2>2 DEF list
    <2>4. Members(g)' = Members(h) /\ Members(h)' = Members(g)
      BY <2>1, <2>3 DEF Members, Elements
    <2>5. \A k \in Signals : k # g /\ k # h => Members(k)' = Members(k)
      BY <2>3, MembersElsewhere
    <2>6. m_block' \subseteq Signals /\ \A k \in Signals \ {g, h} : k \in m_block' <=> k \in m_block
      BY <1>9, <2>2 DEF Move, Flag
    <2>7. [k \in Signals |-> Members(k)'] =
            [[k \in Signals |-> Members(k)] EXCEPT ![g] = Members(h), ![h] = Members(g)]
      BY <2>1, <2>4, <2>5
    <2>8. Abs!Exchange(g, h)
      BY <1>1, <2>1, <2>6, <2>7 DEF Abs!Exchange, ThreadsStay
    <2> QED BY <2>8 DEF Abs!Next
  <1>10. ASSUME (\E o \in Objects : DropObject(o)) \/ UNCHANGED vars PROVE UNCHANGED Abs!vars
    <2>1. UNCHANGED <<value, m_slots, cleaner, m_connected, m_blocked, m_block, barred, called>>
      BY <1>10 DEF DropObject, vars, sigVars, slotVars, callVars
    <2> QED BY <1>1, <1>6, <2>1, Stutters
  <1> QED BY <1>3, <1>4, <1>5, <1>7, <1>8, <1>9, <1>10 DEF Elsewhere

LEMMA OthersStayKept ==
    ASSUME Sharing, Placed, Walks, NEW t \in Threads, Step(t) \/ Begin(t)
    PROVE  OthersKept(t)
  BY OthersUndisturbed, Keeps DEF OthersKept

(* A step that is not a sweep's and writes no list. *)
LEMMA NoneWritten ==
    ASSUME Sharing, Placed, Walks, NEW t \in Threads, Step(t) \/ Begin(t), pc[t] # "sweep",
           \A h \in Signals : list(h)' = list(h), mutex' = mutex
    PROVE  SignalsStay
  BY OwnTypes, MembersBeside DEF SignalsStay

(* The steps of t in terms of SignalAbs. *)
LEMMA SimDisconnects ==
    ASSUME NEW t \in Threads, Disconnects(t), SignalsStay, OthersKept(t), Todo(t)' = Todo(t),
           m_connected \subseteq Slots, UNCHANGED <<cleaner, m_blocked, m_block, barred>>
    PROVE  Abs!Next
  <1>1. PICK s \in m_connected : m_connected' = m_connected \ {s} /\ Pending(t) = None /\ Pending(t)' = s
    BY DEF Disconnects
  <1>2. called' = called
    BY DEF Disconnects
  <1>3. [u \in Threads |-> Pending(u)'] = [[u \in Threads |-> Pending(u)] EXCEPT ![t] = s]
    BY <1>1 DEF OthersKept
  <1>4. [u \in Threads |-> Todo(u)'] = [u \in Threads |-> Todo(u)]
    BY DEF OthersKept
  <1>5. [g \in Signals |-> Members(g)'] = [g \in Signals |-> Members(g)]
    BY DEF SignalsStay
  <1>6. Abs!Disconnect(t, s)
    BY <1>1, <1>2, <1>3, <1>4, <1>5 DEF Abs!Disconnect
  <1> QED BY <1>1, <1>6 DEF Abs!Next

LEMMA SimCalls ==
    ASSUME NEW t \in Threads, Calls(t), SignalsStay, OthersKept(t), Todo(t)' = Todo(t),
           UNCHANGED <<cleaner, m_blocked, m_block, barred>>
    PROVE  Abs!Next
  <1>1. PICK s : /\ IsFirst(t, s) /\ s \notin called[t] \cup barred[t]
                 /\ called' = [called EXCEPT ![t] = @ \cup {s}]
    BY DEF Calls
  <1>2. m_connected' = m_connected /\ ThreadsStay
    BY DEF Calls, OthersKept, ThreadsStay
  <1>3. s \in Slots /\ Abs!IsNext(t, s)
    BY <1>1 DEF IsFirst, Abs!IsNext
  <1>4. Abs!Call(t, s)
    BY <1>1, <1>2, <1>3 DEF Abs!Call, SignalsStay, ThreadsStay
  <1> QED BY <1>3, <1>4 DEF Abs!Next

LEMMA SimLeftBehind ==
    ASSUME NEW t \in Threads, LeftBehind(t), SignalsStay, OthersKept(t), Pending(t)' = Pending(t),
           UNCHANGED <<cleaner, m_blocked, m_block, barred, called, m_connected>>
    PROVE  Abs!Next
  <1>1. PICK s : /\ IsFirst(t, s)
                 /\ s \in called[t] \cup m_blocked \/ s \notin m_connected
                 /\ Todo(t)' = Todo(t) \ {s}
    BY DEF LeftBehind
  <1>2. s \in Slots /\ Abs!IsNext(t, s)
    BY <1>1 DEF IsFirst, Abs!IsNext
  <1>3. [u \in Threads |-> Todo(u)'] = [[u \in Threads |-> Todo(u)] EXCEPT ![t] = @ \ {s}]
    BY <1>1 DEF OthersKept
  <1>4. [u \in Threads |-> Pending(u)'] = [u \in Threads |-> Pending(u)]
    BY DEF OthersKept
  <1>5. [g \in Signals |-> Members(g)'] = [g \in Signals |-> Members(g)]
    BY DEF SignalsStay
  <1>6. Abs!PassOver(t, s)
    BY <1>1, <1>2, <1>3, <1>4, <1>5 DEF Abs!PassOver
  <1> QED BY <1>2, <1>6 DEF Abs!Next

LEMMA SimEmission ==
    ASSUME Sharing, Placed, Walks, NEW t \in Threads,
           \/ TestConnected(t) \/ TestBlocked(t) \/ Pass(t)
           \/ call_slot(t) \/ Body(t) \/ CallTracked(t)
    PROVE  Abs!Next \/ UNCHANGED Abs!vars
  <1>1. Step(t)
    BY DEF Step
  <1>2. /\ pc[t] # "sweep" /\ UNCHANGED <<value, m_slots, mutex, cleaner, m_blocked, m_block, barred>>
    BY DEF TestConnected, TestBlocked, Pass, call_slot, Body, CallTracked, emitUnchanged, callVars
  <1>3. SignalsStay
    <2>1. \A h \in Signals : list(h)' = list(h)
      BY <1>2 DEF list
    <2> QED BY <1>1, <1>2, <2>1, NoneWritten
  <1>4. OthersKept(t) /\ m_connected \subseteq Slots
    BY <1>1, OthersStayKept DEF Sharing, SharedTypes
  <1>5. CASE TestConnected(t) \/ TestBlocked(t) \/ Pass(t)
    <2>1. Pending(t)' = Pending(t) /\ (Todo(t)' = Todo(t) \/ LeftBehind(t))
      BY <1>5, WalkTest, WalkBlocked, WalkPass
    <2>2. UNCHANGED <<called, m_connected>>
      BY <1>5 DEF TestConnected, TestBlocked, Pass, callVars
    <2>3. CASE LeftBehind(t)
      BY <1>2, <1>3, <1>4, <2>1, <2>2, <2>3, SimLeftBehind
    <2>4. CASE Todo(t)' = Todo(t)
      <3>1. ThreadsStay
        BY <1>4, <2>1, <2>4 DEF OthersKept, ThreadsStay
      <3> QED BY <1>2, <1>3, <2>2, <3>1, Stutters
    <2> QED BY <2>1, <2>3, <2>4
  <1>6. CASE call_slot(t) \/ Body(t) \/ CallTracked(t)
    <2>1. Todo(t)' = Todo(t) /\ (Calls(t) \/ Disconnects(t) \/ Neither(t))
      BY <1>6, WalkCall, WalkBody, WalkTracked
    <2>2. CASE Calls(t)
      BY <1>2, <1>3, <1>4, <2>1, <2>2, SimCalls
    <2>3. CASE Disconnects(t)
      BY <1>2, <1>3, <1>4, <2>1, <2>3, SimDisconnects
    <2>4. CASE Neither(t)
      <3>1. ThreadsStay /\ UNCHANGED <<called, m_connected>>
        BY <1>4, <2>1, <2>4 DEF OthersKept, ThreadsStay, Neither
      <3> QED BY <1>2, <1>3, <3>1, Stutters
    <2> QED BY <2>1, <2>2, <2>3, <2>4
  <1> QED BY <1>5, <1>6

LEMMA SimAdvance ==
    ASSUME Sharing, Placed, Walks, NEW t \in Threads, Advance(t)
    PROVE  Abs!Next \/ UNCHANGED Abs!vars
  <1>1. Step(t)
    BY DEF Step
  <1>2. /\ pc[t] # "sweep" /\ UNCHANGED <<mutex, cleaner, m_blocked, m_block, m_connected>>
    BY DEF Advance, emitUnchanged
  <1>3. SignalsStay
    BY <1>1, <1>2, AdvanceLists, NoneWritten
  <1>4. ThreadsStay
    BY <1>1, OthersStayKept, WalkAdvance DEF OthersKept, ThreadsStay
  <1>5. CASE called' = called /\ barred' = barred
    BY <1>2, <1>3, <1>4, <1>5, Stutters
  <1>6. CASE /\ Todo(t) = {}
             /\ called' = [called EXCEPT ![t] = {}]
             /\ barred' = [barred EXCEPT ![t] = {}]
    <2>1. Abs!Done(t)
      BY <1>2, <1>3, <1>4, <1>6 DEF Abs!Done, SignalsStay, ThreadsStay
    <2> QED BY <2>1 DEF Abs!Next
  <1> QED BY <1>5, <1>6, WalkAdvance

LEMMA SimReference ==
    ASSUME Sharing, Placed, Walks, NEW t \in Threads, slots_reference(t)
    PROVE  Abs!Next
  <1>1. Step(t)
    BY DEF Step
  <1>2. /\ pc[t] # "sweep"
        /\ UNCHANGED <<value, m_slots, mutex, cleaner, m_blocked, m_block, m_connected, called>>
    BY DEF slots_reference, slotVars
  <1>3. SignalsStay
    <2>1. \A h \in Signals : list(h)' = list(h)
      BY <1>2 DEF list
    <2> QED BY <1>1, <1>2, <2>1, NoneWritten
  <1>4. OthersKept(t)
    BY <1>1, OthersStayKept
  <1>5. PICK g \in Signals : /\ mutex[g] = None
                             /\ Todo(t)' = Elements(list(g))
                             /\ barred' = [barred EXCEPT ![t] = Elements(list(g)) \ m_connected]
    BY WalkReference
  <1>6. Members(g) = Elements(list(g))
    BY <1>5 DEF Members
  <1>7. Todo(t) = {} /\ called[t] = {} /\ Pending(t)' = Pending(t) /\ called \in [Threads -> SUBSET Slots]
    BY WalkReference DEF Walks, WalkTypes
  <1>8. called' = [called EXCEPT ![t] = {}]
    BY <1>2, <1>7
  <1>9. [u \in Threads |-> Todo(u)'] = [[u \in Threads |-> Todo(u)] EXCEPT ![t] = Members(g)]
    BY <1>4, <1>5, <1>6 DEF OthersKept
  <1>10. [u \in Threads |-> Pending(u)'] = [u \in Threads |-> Pending(u)]
    BY <1>4, <1>7 DEF OthersKept
  <1>11. [h \in Signals |-> Members(h)'] = [h \in Signals |-> Members(h)]
    BY <1>3 DEF SignalsStay
  <1>12. Abs!Emit(t, g)
    BY <1>2, <1>5, <1>6, <1>7, <1>8, <1>9, <1>10, <1>11 DEF Abs!Emit
  <1> QED BY <1>12 DEF Abs!Next

LEMMA SimClean ==
    ASSUME Sharing, Placed, Walks, NEW t \in Threads, clean(t)
    PROVE  Abs!Next
  <1>1. Step(t)
    BY DEF Step
  <1>2. /\ pc[t] # "sweep" /\ UNCHANGED <<mutex, cleaner, m_blocked, m_block, m_connected, called, barred>>
    BY DEF clean, callVars
  <1>3. PICK g \in Signals : /\ slot[t] \in Slots /\ g = cleaner[slot[t]] /\ mutex[g] = None
                             /\ Elements(list(g)') = Elements(list(g)) \ {slot[t]}
                             /\ \A h \in Signals : h # g => list(h)' = list(h)
    BY CleanLists
  <1>4. /\ Todo(t)' = Todo(t) /\ Pending(t) = slot[t] /\ Pending(t)' = None /\ slot[t] # None
    BY <1>3, WalkClean, ConstantsAssumption
  <1>5. OthersKept(t)
    BY <1>1, OthersStayKept
  <1>6. Members(g)' = Members(g) \ {Pending(t)}
    BY <1>2, <1>3, <1>4 DEF Members, Elements
  <1>7. \A h \in Signals : h # g => Members(h)' = Members(h)
    BY <1>1, <1>2, <1>3, OwnTypes, MembersBeside
  <1>8. [h \in Signals |-> Members(h)'] = [[h \in Signals |-> Members(h)] EXCEPT ![g] = @ \ {Pending(t)}]
    BY <1>6, <1>7
  <1>9. [u \in Threads |-> Pending(u)'] = [[u \in Threads |-> Pending(u)] EXCEPT ![t] = None]
    BY <1>4, <1>5 DEF OthersKept
  <1>10. [u \in Threads |-> Todo(u)'] = [u \in Threads |-> Todo(u)]
    BY <1>4, <1>5 DEF OthersKept
  <1>11. Abs!Remove(t)
    BY <1>2, <1>3, <1>4, <1>8, <1>9, <1>10 DEF Abs!Remove
  <1> QED BY <1>11 DEF Abs!Next

LEMMA SimSweep ==
    ASSUME Sharing, Placed, Walks, NEW t \in Threads, Sweep(t)
    PROVE  UNCHANGED Abs!vars
  <1>1. Step(t)
    BY DEF Step
  <1>2. UNCHANGED <<cleaner, m_blocked, m_block, m_connected, called, barred>>
    BY DEF Sweep, callVars
  <1>3. ThreadsStay
    BY <1>1, OthersStayKept, WalkSweep DEF OthersKept, ThreadsStay
  <1>4. PICK g \in Signals : /\ g = sig[t] /\ Members(g)' = Members(g)
                             /\ \A h \in Signals : h # g => mutex'[h] = mutex[h]
    BY WalkSweep
  <1>5. \A h \in Signals : h # g => Members(h)' = Members(h)
    BY <1>1, <1>4, OwnTypes, SweepOthers, MembersBeside
  <1>6. SignalsStay
    BY <1>4, <1>5 DEF SignalsStay
  <1> QED BY <1>2, <1>3, <1>6, Stutters

(* The steps that start or end something other than a walk. *)
LEMMA SimQuiet ==
    ASSUME Sharing, Placed, Walks, NEW t \in Threads,
           \/ add_connection(t) \/ DropConnection(t)
           \/ \E s \in Slots : ConnectionDisconnect(t, s)
           \/ \E g \in Signals : Emit(t, g)
           \/ \E o \in Observers : DestroyObserver(t, o)
    PROVE  Abs!Next \/ UNCHANGED Abs!vars
  <1>1. Step(t) \/ Begin(t)
    BY DEF Step, Begin
  <1>2. /\ pc[t] # "sweep"
        /\ UNCHANGED <<value, m_slots, mutex, cleaner, m_blocked, m_block>>
    BY DEF add_connection, DropConnection, ConnectionDisconnect, Emit, DestroyObserver, sigVars,
           slotVars
  <1>3. SignalsStay
    <2>1. \A h \in Signals : list(h)' = list(h)
      BY <1>2 DEF list
    <2> QED BY <1>1, <1>2, <2>1, NoneWritten
  <1>4. OthersKept(t) /\ m_connected \subseteq Slots /\ Own
    BY <1>1, OthersStayKept, OwnTypes DEF Sharing, SharedTypes
  <1>5. Todo(t)' = Todo(t) /\ called' = called /\ barred' = barred
    BY WalkQuiet
  <1>6. Disconnects(t) \/ Neither(t)
    <2>1. CASE add_connection(t)
      BY <1>4, <1>5, <2>1 DEF add_connection, Neither, Pending, Own, slotVars
    <2>2. ASSUME NEW s, NEW r, disconnect(t, s, r), pc[t] # "clean" PROVE Disconnects(t)
      <3>1. s \in m_connected /\ m_connected' = m_connected \ {s} /\ pc'[t] = "clean" /\ slot'[t] = s
        BY <1>4, <2>2 DEF disconnect, Own
      <3>2. Pending(t) = None /\ Pending(t)' = s
        BY <2>2, <3>1 DEF Pending
      <3> QED BY <1>5, <3>1, <3>2 DEF Disconnects
    <2>3. CASE DropConnection(t)
      <3>1. pc[t] = "dtor"
        BY <2>3 DEF DropConnection
      <3>2. \/ \E s : disconnect(t, s, "dtor")
            \/ UNCHANGED <<m_connected, pc>>
            \/ m_connected' = m_connected /\ pc' = [pc EXCEPT ![t] = "idle"]
        BY <2>3 DEF DropConnection
      <3>3. m_connected' = m_connected /\ pc' = [pc EXCEPT ![t] = "idle"] => Neither(t)
        BY <1>4, <1>5, <3>1 DEF Neither, Pending, Own
      <3>4. UNCHANGED <<m_connected, pc>> => Neither(t)
        BY <1>5, <3>1 DEF Neither, Pending
      <3> QED BY <2>2, <3>1, <3>2, <3>3, <3>4
    <2>4. CASE \E s \in Slots : ConnectionDisconnect(t, s)
      BY <2>2, <2>4 DEF ConnectionDisconnect
    <2>5. CASE \E g \in Signals : Emit(t, g)
      BY <1>4, <1>5, <2>5 DEF Emit, Neither, Pending, Own, slotVars
    <2>6. CASE \E o \in Observers : DestroyObserver(t, o)
      BY <1>4, <1>5, <2>6 DEF DestroyObserver, Neither, Pending, Own, slotVars
    <2> QED BY <2>1, <2>3, <2>4, <2>5, <2>6
  <1>7. CASE Disconnects(t)
    BY <1>2, <1>3, <1>4, <1>5, <1>7, SimDisconnects
  <1>8. CASE Neither(t)
    <2>1. ThreadsStay /\ m_connected' = m_connected
      BY <1>4, <1>5, <1>8 DEF OthersKept, ThreadsStay, Neither
    <2> QED BY <1>2, <1>3, <1>5, <2>1, Stutters
  <1> QED BY <1>6, <1>7, <1>8

LEMMA SimConnectObserver ==
    ASSUME Sharing, Placed, Walks, NEW t \in Threads, NEW g \in Signals, NEW s \in Slots,
           ConnectObserver(t, g, s)
    PROVE  Abs!Next
  <1>1. Begin(t) /\ Own
    BY OwnTypes DEF Begin
  <1>2. /\ pc[t] = "idle" /\ pc'[t] = "register" /\ MakeSlot(g, s)
        /\ UNCHANGED <<m_block, mutex, barred, called>>
    BY <1>1 DEF ConnectObserver, callVars, Own
  <1>3. ThreadsStay
    <2>1. Todo(t)' = Todo(t)
      BY WalkQuiet
    <2>2. Pending(t)' = Pending(t)
      BY <1>2 DEF Pending
    <2> QED BY <1>1, <2>1, <2>2, OthersStayKept DEF OthersKept, ThreadsStay
  <1>4. \A h \in Signals : h # g => list(h)' = list(h)
    BY <1>2, CowOthers DEF MakeSlot
  <1>5. \A h \in Signals : h # g => Members(h)' = Members(h)
    BY <1>1, <1>2, <1>4, MembersBeside
  <1>6. Abs!Connect(g, s)
    BY <1>2, <1>3, <1>5, SimMakeSlot
  <1> QED BY <1>6 DEF Abs!Next

LEMMA SimDisconnectIf ==
    ASSUME Sharing, Placed, Walks, NEW t \in Threads, NEW g \in Signals,
           NEW c \in Callables \cup {None}, NEW o \in Objects \cup {None}, disconnect_if(t, g, c, o)
    PROVE  Abs!Next
  <1>1. Begin(t) /\ Own
    BY OwnTypes DEF Begin
  <1>2. /\ pc[t] = "idle"
        /\ UNCHANGED <<m_block, cleaner, m_connected, m_blocked, barred, called>>
    BY DEF disconnect_if, slotVars, callVars
  <1>3. ThreadsStay
    BY <1>1, OthersStayKept, WalkDisconnectIf DEF OthersKept, ThreadsStay
  <1>4. /\ Members(g) = Elements(list(g))
        /\ Members(g)' = {s \in Elements(list(g)) :
                             ~((c # None => Callable[s] = c) /\ (o # None => Object[s] = o))}
        /\ \A h \in Signals : h # g => list(h)' = list(h) /\ mutex'[h] = mutex[h]
    BY WalkDisconnectIf
  <1>5. Elements(list(g)) \subseteq Slots
    BY ElementsSlots DEF Placed, AllGood, Good
  <1>6. Members(g)' = Members(g) \ Abs!Bound(c, o)
    BY <1>4, <1>5 DEF Abs!Bound
  <1>7. \A h \in Signals : h # g => Members(h)' = Members(h)
    BY <1>1, <1>2, <1>4, MembersBeside
  <1>8. Abs!RemoveAll(g, Abs!Bound(c, o))
    BY <1>2, <1>3, <1>6, <1>7 DEF Abs!RemoveAll, ThreadsStay
  <1>9. c \in {Callable[s] : s \in Slots} \cup {None} /\ o \in {Object[s] : s \in Slots} \cup {None}
    BY DEF Callables, Objects
  <1> QED BY <1>8, <1>9 DEF Abs!Next, Abs!DisconnectMatching

-----------------------------------------------------------------------------
LEMMA Simulates ==
    Sharing /\ Placed /\ Walks /\ [Next]_vars => [Abs!Next]_(Abs!vars)
  <1> SUFFICES ASSUME Sharing, Placed, Walks, [Next]_vars
               PROVE  Abs!Next \/ UNCHANGED Abs!vars
    OBVIOUS
  <1>1. ASSUME NEW t \in Threads, Step(t) PROVE Abs!Next \/ UNCHANGED Abs!vars
    BY <1>1, SimQuiet, SimClean, SimSweep, SimReference, SimAdvance, SimEmission DEF Step
  <1>2. ASSUME NEW t \in Threads, Begin(t) PROVE Abs!Next \/ UNCHANGED Abs!vars
    BY <1>2, SimQuiet, SimConnectObserver, SimDisconnectIf DEF Begin
  <1>3. Elsewhere \/ \E t \in Threads : Step(t) \/ Begin(t)
    BY DEF Next, Elsewhere
  <1> QED BY <1>1, <1>2, <1>3, SimElsewhere

LEMMA SimulatesInit ==
    Init => Abs!Init
  <1> SUFFICES ASSUME Init PROVE Abs!Init
    OBVIOUS
  <1>1. Initial \in [Signals -> Payloads] /\ Distinct(Initial) /\ Main \in Signals
    BY InitialAssumption DEF Initial
  <1>2. \A g \in Signals : list(g) = IF g = Main THEN Opening ELSE <<>>
    BY <1>1 DEF Init, list, Distinct
  <1>3. Elements(<<>>) = {}
    <2>1. DOMAIN <<>> = {}
      OBVIOUS
    <2> QED BY <2>1 DEF Elements
  <1>4. \A g \in Signals : Members(g) = IF g = Main THEN Elements(Opening) ELSE {}
    <2>1. \A g \in Signals : mutex[g] = None
      BY DEF Init
    <2> QED BY <1>2, <1>3, <2>1 DEF Members
  <1>5. \A t \in Threads : Pending(t) = None /\ Todo(t) = {}
    BY DEF Init, Pending, Todo, Emitting
  <1> QED BY <1>4, <1>5 DEF Init, Abs!Init

(* signal_base implements SignalAbs (signal.hpp:1131-1148, 1203, 1540):     *)
(* whatever signals, slots and threads there are, an emission calls each    *)
(* slot it found at most once, in ascending groups, passes over only        *)
(* disconnected or blocked ones and calls none that was disconnected before *)
(* it began; a disconnection takes out its own slot and no other.           *)
THEOREM Refinement == Spec => Promise
  <1>1. Init => Abs!Init /\ Placed /\ Walks
    BY SimulatesInit, PlacedInit, WalksInit
  <1>2. Sharing /\ Placed /\ Walks /\ [Next]_vars => Placed' /\ Walks'
    BY PlacedStep, WalksStep
  <1>3. Sharing /\ Placed /\ Walks /\ [Next]_vars => [Abs!Next]_(Abs!vars)
    BY Simulates
  <1> QED BY <1>1, <1>2, <1>3, SharingAlways, PTL DEF Spec, Promise, Abs!Spec

-----------------------------------------------------------------------------
(* A disconnected slot is taken out *)

(* A slot that was not moved is in the list of the signal that made it, if  *)
(* it is in one.                                                            *)
Made == \A g \in Signals : \A s \in Elements(list(g)) \ moved : cleaner[s] = g

Cleaned == Made /\ DisconnectedRemoved

(* A step that adds no slot to a list and ends no disconnection. *)
LEMMA CleanedFrame ==
    ASSUME Cleaned, cleaner' = cleaner, moved' = moved,
           \A h \in Signals : Elements(list(h)') \subseteq Elements(list(h)),
           m_connected' \subseteq m_connected,
           \A u \in Threads : pc[u] = "clean" => pc'[u] = "clean" /\ slot'[u] = slot[u],
           \A s \in m_connected : s \in m_connected' \/
               \E u \in Threads : pc'[u] = "clean" /\ slot'[u] = s
    PROVE  Cleaned'
  <1>1. ASSUME NEW g \in Signals, NEW s \in Elements(list(g)'), s \notin moved'
        PROVE  cleaner'[s] = g
    BY <1>1 DEF Cleaned, Made
  <1>2. ASSUME NEW g \in Signals, NEW s \in Elements(list(g)'), s \notin m_connected' \cup moved'
        PROVE  \E t \in Threads : pc'[t] = "clean" /\ slot'[t] = s
    <2>1. CASE s \in m_connected
      BY <1>2, <2>1
    <2>2. CASE s \notin m_connected
      <3>1. PICK t \in Threads : pc[t] = "clean" /\ slot[t] = s
        BY <1>2, <2>2 DEF Cleaned, DisconnectedRemoved
      <3> QED BY <3>1
    <2> QED BY <2>1, <2>2
  <1>3. Made'
    BY <1>1 DEF Made, Elements
  <1>4. DisconnectedRemoved'
    BY <1>2 DEF DisconnectedRemoved, Elements
  <1> QED BY <1>3, <1>4 DEF Cleaned

LEMMA CleanedMakeSlot ==
    ASSUME Sharing, Placed, Cleaned, NEW g \in Signals, NEW s \in Slots, MakeSlot(g, s),
           \A u \in Threads : pc[u] = "clean" => pc'[u] = "clean" /\ slot'[u] = slot[u]
    PROVE  Cleaned'
  <1>1. /\ ~Alive(s) /\ cow_write(g, Added(list(g), s))
        /\ m_connected' = m_connected \cup {s} /\ moved' = moved \ {s}
        /\ cleaner' = [cleaner EXCEPT ![s] = g]
    BY DEF MakeSlot
  <1>2. ASSUME NEW h \in Signals PROVE s \notin Elements(list(h))
    <2>1. m_slots[h] \in Payloads /\ count[m_slots[h]] \in Nat /\ count[m_slots[h]] >= 1
      BY Alone DEF Sharing, SharedTypes
    <2>2. count[m_slots[h]] > 0
      BY <2>1
    <2> QED BY <1>1, <2>1, <2>2 DEF Alive, list
  <1>3. /\ Good(list(g), m_index) /\ m_index \in [Slots -> Nat] /\ value \in [Payloads -> Lists]
        /\ cleaner \in [Slots -> Signals \cup {None}]
    BY DEF Sharing, SharedTypes, Placed, AllGood
  <1>4. /\ Elements(Added(list(g), s)) = Elements(list(g)) \cup {s}
        /\ Added(list(g), s) \in Lists
    <2>1. Elements(Added(list(g), s)) = Elements(list(g)) \cup {s}
      BY <1>2, <1>3, AddedElements
    <2>2. Good(Added(list(g), s), IndexAt(m_index, s, NewIndex(list(g), s)))
      BY <1>2, <1>3, AddedGood
    <2> QED BY <2>1, <2>2 DEF Good
  <1>5. list(g)' = Added(list(g), s) /\ \A h \in Signals : h # g => list(h)' = list(h)
    BY <1>1, <1>3, <1>4, CowLists
  <1>6. ASSUME NEW h \in Signals, NEW r \in Elements(list(h)')
        PROVE  IF r = s THEN h = g ELSE r \in Elements(list(h)) /\ r \in Slots
    <2>1. Elements(list(h)) \subseteq Slots
      BY ElementsSlots DEF Placed, AllGood, Good
    <2> QED BY <1>2, <1>4, <1>5, <1>6, <2>1
  <1>7. \A h \in Signals : \A r \in Elements(list(h)') \ moved' : cleaner'[r] = h
    BY <1>1, <1>3, <1>6 DEF Cleaned, Made
  <1>8. ASSUME NEW h \in Signals, NEW r \in Elements(list(h)'), r \notin m_connected' \cup moved'
        PROVE  \E t \in Threads : pc'[t] = "clean" /\ slot'[t] = r
    <2>1. r # s /\ r \in Elements(list(h)) /\ r \notin m_connected \cup moved
      BY <1>1, <1>6, <1>8
    <2>2. PICK t \in Threads : pc[t] = "clean" /\ slot[t] = r
      BY <2>1 DEF Cleaned, DisconnectedRemoved
    <2> QED BY <2>2
  <1>9. Made' /\ DisconnectedRemoved'
    BY <1>7, <1>8 DEF Made, DisconnectedRemoved, Elements
  <1> QED BY <1>9 DEF Cleaned

LEMMA CleanedClean ==
    ASSUME Sharing, Placed, Walks, Cleaned, NEW t \in Threads, clean(t)
    PROVE  Cleaned'
  <1>1. UNCHANGED <<m_connected, cleaner, moved>> /\ \A u \in Threads : u # t => ThreadSame(u)
    BY OwnTypes, SameStep DEF clean, Step
  <1>2. PICK g \in Signals : /\ slot[t] \in Slots /\ g = cleaner[slot[t]] /\ mutex[g] = None
                             /\ Elements(list(g)') = Elements(list(g)) \ {slot[t]}
                             /\ \A h \in Signals : h # g => list(h)' = list(h)
    BY CleanLists
  <1>3. ASSUME NEW h \in Signals, NEW r \in Elements(list(h)'), r \notin moved'
        PROVE  r \in Elements(list(h)) /\ r # slot[t]
    <2>1. CASE h = g
      BY <1>2, <1>3, <2>1
    <2>2. CASE h # g
      <3>1. r \in Elements(list(h))
        BY <1>2, <1>3, <2>2
      <3>2. cleaner[r] = h
        BY <1>1, <1>3, <3>1 DEF Cleaned, Made
      <3> QED BY <1>2, <2>2, <3>1, <3>2
    <2> QED BY <2>1, <2>2
  <1>4. \A h \in Signals : \A r \in Elements(list(h)') \ moved' : cleaner'[r] = h
    BY <1>1, <1>3 DEF Cleaned, Made
  <1>5. ASSUME NEW h \in Signals, NEW r \in Elements(list(h)'), r \notin m_connected' \cup moved'
        PROVE  \E u \in Threads : pc'[u] = "clean" /\ slot'[u] = r
    <2>1. r # slot[t] /\ r \in Elements(list(h)) /\ r \notin m_connected \cup moved
      BY <1>1, <1>3, <1>5
    <2>2. PICK u \in Threads : pc[u] = "clean" /\ slot[u] = r
      BY <2>1 DEF Cleaned, DisconnectedRemoved
    <2>3. u # t
      BY <2>1, <2>2
    <2> QED BY <1>1, <2>2, <2>3 DEF ThreadSame
  <1>6. Made' /\ DisconnectedRemoved'
    BY <1>4, <1>5 DEF Made, DisconnectedRemoved, Elements
  <1> QED BY <1>6 DEF Cleaned

LEMMA SweepShrinks ==
    ASSUME Sharing, Placed, NEW t \in Threads, Sweep(t), NEW h \in Signals
    PROVE  Elements(list(h)') \subseteq Elements(list(h))
  <1>1. pc[t] = "sweep" /\ m_slots' = m_slots
    BY DEF Sweep
  <1>2. PICK g \in Signals : g = sig[t]
    BY <1>1 DEF Sharing, SweepAlone
  <1>3. CASE h # g
    BY <1>2, <1>3, SweepOthers
  <1>4. CASE h = g /\ value' = value
    BY <1>1, <1>4 DEF list
  <1>5. CASE /\ h = g /\ gi[t] <= Len(list(g)) /\ si[t] <= Len(list(g)[gi[t]].slts)
             /\ value' = [value EXCEPT ![m_slots[g]] = Popped(list(g), gi[t], si[t])]
    <2> DEFINE a == gi[t]
               b == si[t]
    <2>1. /\ Good(list(g), m_index) /\ list(g) \in Lists /\ a \in Nat \ {0} /\ b \in Nat \ {0}
          /\ m_slots[g] \in Payloads /\ value \in [Payloads -> Lists]
      BY DEF Placed, AllGood, Good, Sharing, SharedTypes
    <2>2. a \in 1..Len(list(g))
      BY <1>5, <2>1, ListFacts
    <2>3. b \in 1..Len(list(g)[a].slts)
      <3>1. Len(list(g)[a].slts) \in Nat
        BY <2>1, <2>2, ListFacts
      <3> QED BY <1>5, <2>1, <3>1
    <2>4. list(g)' = Popped(list(g), a, b)
      BY <1>1, <1>5, <2>1 DEF list
    <2> HIDE DEF a, b
    <2> QED BY <1>5, <2>1, <2>2, <2>3, <2>4, PoppedElements
  <1> QED BY <1>2, <1>3, <1>4, <1>5 DEF Sweep

LEMMA CleanedStep ==
    Sharing /\ Placed /\ Walks /\ Cleaned /\ [Next]_vars => Cleaned'
  <1> SUFFICES ASSUME Sharing, Placed, Walks, Cleaned, [Next]_vars
               PROVE  Cleaned'
    OBVIOUS
  <1> DEFINE CleansOn == \A u \in Threads : pc[u] = "clean" => pc'[u] = "clean" /\ slot'[u] = slot[u]
             Shrink == \A h \in Signals : Elements(list(h)') \subseteq Elements(list(h))
  <1>1. Own
    BY OwnTypes
  <1>2. ASSUME NEW g \in Signals, NEW l \in Lists, cow_write(g, l), Elements(l) \subseteq Elements(list(g))
        PROVE  Shrink
    <2>1. value \in [Payloads -> Lists]
      BY DEF Placed
    <2>2. list(g)' = l /\ \A h \in Signals : h # g => list(h)' = list(h)
      BY <1>2, <2>1, CowLists
    <2> QED BY <1>2, <2>2
  <1>3. ASSUME value' = value, m_slots' = m_slots PROVE Shrink
    BY <1>3 DEF list
  <1>4. ASSUME NEW t \in Threads, Step(t) \/ Begin(t), pc[t] # "clean" PROVE CleansOn
    BY <1>1, <1>4, SameStep, SameBegin DEF ThreadSame
  <1>5. ASSUME Elsewhere PROVE CleansOn
    BY <1>5, SameElsewhere DEF ThreadSame
  <1>6. ASSUME NEW t \in Threads, Step(t) PROVE Cleaned'
    <2>1. CASE clean(t)
      BY <2>1, CleanedClean
    <2>2. CASE Sweep(t)
      <3>1. pc[t] # "clean" /\ UNCHANGED <<cleaner, moved, m_connected>>
        BY <2>2 DEF Sweep
      <3>2. Shrink
        BY <2>2, SweepShrinks
      <3> QED BY <1>4, <1>6, <3>1, <3>2, CleanedFrame
    <2>3. CASE Advance(t)
      <3>1. pc[t] # "clean" /\ UNCHANGED <<cleaner, moved, m_connected>>
        BY <2>3 DEF Advance, emitUnchanged
      <3>2. Shrink
        BY <2>3, AdvanceLists
      <3> QED BY <1>4, <1>6, <3>1, <3>2, CleanedFrame
    <2>4. CASE \/ add_connection(t) \/ slots_reference(t) \/ TestConnected(t) \/ TestBlocked(t)
               \/ CallTracked(t) \/ Pass(t)
      <3>1. pc[t] # "clean" /\ UNCHANGED <<value, m_slots, cleaner, moved, m_connected>>
        BY <2>4 DEF add_connection, slots_reference, TestConnected, TestBlocked, CallTracked, Pass,
                    emitUnchanged, sigVars, slotVars
      <3> QED BY <1>3, <1>4, <1>6, <3>1, CleanedFrame
    <2>5. CASE call_slot(t) \/ Body(t) \/ DropConnection(t)
      <3>1. pc[t] # "clean" /\ UNCHANGED <<value, m_slots, cleaner, moved>>
        BY <2>5 DEF call_slot, Body, DropConnection, emitUnchanged, sigVars
      <3>2. m_connected' = m_connected \/ \E s, r : disconnect(t, s, r)
        BY <2>5 DEF call_slot, Body, DropConnection
      <3>3. ASSUME NEW s, NEW r, disconnect(t, s, r)
            PROVE  m_connected' = m_connected \ {s} /\ pc'[t] = "clean" /\ slot'[t] = s
        BY <1>1, <3>3 DEF disconnect, Own
      <3>4. /\ m_connected' \subseteq m_connected
            /\ \A s \in m_connected : s \in m_connected' \/
                  \E u \in Threads : pc'[u] = "clean" /\ slot'[u] = s
        BY <3>2, <3>3
      <3> QED BY <1>3, <1>4, <1>6, <3>1, <3>4, CleanedFrame
    <2> QED BY <1>6, <2>1, <2>2, <2>3, <2>4, <2>5 DEF Step
  <1>7. ASSUME NEW t \in Threads, Begin(t) PROVE Cleaned'
    <2>1. ASSUME NEW g \in Signals, NEW s \in Slots, ConnectObserver(t, g, s) PROVE Cleaned'
      <3>1. MakeSlot(g, s) /\ pc[t] # "clean"
        BY <2>1 DEF ConnectObserver
      <3> QED BY <1>4, <1>7, <3>1, CleanedMakeSlot
    <2>2. ASSUME NEW s \in Slots, ConnectionDisconnect(t, s) PROVE Cleaned'
      <3>1. pc[t] # "clean" /\ UNCHANGED <<value, m_slots, cleaner, moved>>
        BY <2>2 DEF ConnectionDisconnect, sigVars
      <3>2. m_connected' = m_connected \ {s} /\ pc'[t] = "clean" /\ slot'[t] = s
        BY <1>1, <2>2 DEF ConnectionDisconnect, disconnect, Own
      <3>3. /\ m_connected' \subseteq m_connected
            /\ \A r \in m_connected : r \in m_connected' \/
                  \E u \in Threads : pc'[u] = "clean" /\ slot'[u] = r
        BY <3>2
      <3> QED BY <1>3, <1>4, <1>7, <3>1, <3>3, CleanedFrame
    <2>3. ASSUME NEW g \in Signals, NEW c, NEW o, disconnect_if(t, g, c, o) PROVE Cleaned'
      <3>1. pc[t] # "clean" /\ cow_write(g, list(g)) /\ UNCHANGED <<cleaner, moved, m_connected>>
        BY <2>3 DEF disconnect_if, slotVars
      <3>2. list(g) \in Lists
        BY DEF Placed, AllGood, Good
      <3>3. Shrink
        BY <1>2, <3>1, <3>2
      <3> QED BY <1>4, <1>7, <3>1, <3>3, CleanedFrame
    <2>4. CASE (\E g \in Signals : Emit(t, g)) \/ \E o \in Observers : DestroyObserver(t, o)
      <3>1. pc[t] # "clean" /\ UNCHANGED <<value, m_slots, cleaner, moved, m_connected>>
        BY <2>4 DEF Emit, DestroyObserver, sigVars, slotVars
      <3> QED BY <1>3, <1>4, <1>7, <3>1, CleanedFrame
    <2> QED BY <1>7, <2>1, <2>2, <2>3, <2>4 DEF Begin
  <1>8. CASE Elsewhere
    <2>1. ASSUME NEW g \in Signals, NEW s \in Slots, Connect(g, s) PROVE Cleaned'
      BY <1>5, <1>8, <2>1, CleanedMakeSlot DEF Connect
    <2>2. ASSUME NEW g \in Signals, disconnect_all(g) \/ \E n : DisconnectGroup(g, n) PROVE Cleaned'
      <3>1. UNCHANGED <<cleaner, moved, m_connected>>
        BY <2>2 DEF disconnect_all, DisconnectGroup, slotVars
      <3>2. Good(list(g), m_index)
        BY DEF Placed, AllGood
      <3>3. Shrink
        <4>1. CASE disconnect_all(g)
          <5>1. cow_write(g, <<>>)
            BY <4>1 DEF disconnect_all
          <5>2. <<>> \in Lists /\ Elements(<<>>) \subseteq Elements(list(g))
            BY <3>2, EmptiedGood DEF Good
          <5> QED BY <1>2, <5>1, <5>2
        <4>2. ASSUME NEW n, DisconnectGroup(g, n) PROVE Shrink
          <5>1. cow_write(g, Emptied(list(g), n))
            BY <4>2 DEF DisconnectGroup, Emptied
          <5>2. Emptied(list(g), n) \in Lists /\ Elements(Emptied(list(g), n)) \subseteq Elements(list(g))
            BY <3>2, EmptiedGood DEF Good
          <5> QED BY <1>2, <5>1, <5>2
        <4> QED BY <2>2, <4>1, <4>2
      <3> QED BY <1>5, <1>8, <3>1, <3>3, CleanedFrame
    <2>3. ASSUME NEW g \in Signals, NEW h \in Signals, Move(g, h) PROVE Cleaned'
      <3>1. /\ m_slots' = [m_slots EXCEPT ![g] = m_slots[h], ![h] = m_slots[g]]
            /\ moved' = moved \cup Elements(list(g)) \cup Elements(list(h))
            /\ UNCHANGED <<value, cleaner, m_connected, pc, slot>>
            /\ m_slots \in [Signals -> Payloads]
        BY <2>3 DEF Move, Swapped, slotVars, Sharing, SharedTypes
      <3>2. /\ list(g)' = list(h) /\ list(h)' = list(g)
            /\ \A k \in Signals : k # g /\ k # h => list(k)' = list(k)
        BY <3>1 DEF list
      <3>3. ASSUME NEW k \in Signals, NEW r \in Elements(list(k)'), r \notin moved'
            PROVE  r \in Elements(list(k)) /\ r \notin moved
        BY <3>1, <3>2, <3>3
      <3>4. \A k \in Signals : \A r \in Elements(list(k)') \ moved' : cleaner'[r] = k
        BY <3>1, <3>3 DEF Cleaned, Made
      <3>5. \A k \in Signals : \A r \in Elements(list(k)') \ (m_connected' \cup moved') :
               \E u \in Threads : pc'[u] = "clean" /\ slot'[u] = r
        BY <3>1, <3>3 DEF Cleaned, DisconnectedRemoved
      <3>6. Made' /\ DisconnectedRemoved'
        BY <3>4, <3>5 DEF Made, DisconnectedRemoved, Elements
      <3> QED BY <3>6 DEF Cleaned
    <2>4. CASE \/ \E g \in Signals : SetMuted(g)
               \/ \E s \in Slots : SetBlocked(s)
               \/ \E o \in Objects : DropObject(o)
               \/ UNCHANGED vars
      <3>1. UNCHANGED <<value, m_slots, cleaner, moved, m_connected>>
        BY <2>4 DEF SetMuted, SetBlocked, DropObject, vars, sigVars, slotVars
      <3> QED BY <1>3, <1>5, <1>8, <3>1, CleanedFrame
    <2> QED BY <1>8, <2>1, <2>2, <2>3, <2>4 DEF Elsewhere
  <1>9. Elsewhere \/ \E t \in Threads : Step(t) \/ Begin(t)
    BY DEF Next, Elsewhere
  <1> QED BY <1>6, <1>7, <1>8, <1>9

LEMMA CleanedInit ==
    Init => Cleaned
  <1> SUFFICES ASSUME Init PROVE Cleaned
    OBVIOUS
  <1>1. Initial \in [Signals -> Payloads] /\ Distinct(Initial) /\ Main \in Signals
    BY InitialAssumption DEF Initial
  <1>2. \A g \in Signals : list(g) = IF g = Main THEN Opening ELSE <<>>
    BY <1>1 DEF Init, list, Distinct
  <1>3. Elements(<<>>) = {} /\ Elements(Opening) \subseteq Slots
    <2>1. DOMAIN <<>> = {}
      OBVIOUS
    <2> QED BY <2>1, InitialAssumption, ElementsSlots DEF Elements
  <1>4. Made
    BY <1>2, <1>3 DEF Init, Made
  <1>5. DisconnectedRemoved
    BY <1>2, <1>3 DEF Init, DisconnectedRemoved
  <1> QED BY <1>4, <1>5 DEF Cleaned

(* slot_state::disconnect and clean (signal.hpp:560, 1540): whatever        *)
(* signals, slots and threads there are, a slot disconnected through its    *)
(* connection stays in a list only while the disconnecting thread is about  *)
(* to clean it, unless the list was moved.                                  *)
THEOREM DisconnectedGone == Spec => []DisconnectedRemoved
  <1>1. Init => Placed /\ Walks /\ Cleaned
    BY PlacedInit, WalksInit, CleanedInit
  <1>2. Sharing /\ Placed /\ Walks /\ Cleaned /\ [Next]_vars => Placed' /\ Walks' /\ Cleaned'
    BY PlacedStep, WalksStep, CleanedStep
  <1>3. Cleaned => DisconnectedRemoved
    BY DEF Cleaned
  <1> QED BY <1>1, <1>2, <1>3, SharingAlways, PTL DEF Spec
==============================================================================
