--------------------------- MODULE TaskThreadProofs ---------------------------
(***************************************************************************)
(* Proofs about TaskThread, for any number of clients, tasks and delays: no *)
(* wakeup is lost, and every task runs at most once, when it is due and in  *)
(* the order of the times.                                                  *)
(***************************************************************************)
EXTENDS TaskThread, TLAPS

Busy == [at : {"computed", "inserted", "blocked"}, task : Tasks, time : Nat]

(* What a client that is inside a call knows of. *)
LEMMA BusyClient ==
    ASSUME TypeOK, NEW c \in Clients, client[c].at # "idle"
    PROVE  /\ client[c] \in Busy
           /\ client[c].task \in Tasks /\ client[c].time \in Nat
  <1>1. client[c] \in ClientStates
    BY DEF TypeOK
  <1>2. client[c] \notin [at : {"idle"}]
    OBVIOUS
  <1>3. client[c] \in Busy
    BY <1>1, <1>2 DEF ClientStates, Busy
  <1> QED BY <1>3 DEF Busy

LEMMA ClientTypes ==
    /\ Idle \in ClientStates /\ Idle.at = "idle"
    /\ \A t \in Tasks, n \in Nat, a \in {"computed", "inserted", "blocked"} :
          [at |-> a, task |-> t, time |-> n] \in ClientStates
    /\ \A b \in Busy, a \in {"computed", "inserted", "blocked"} :
          /\ [b EXCEPT !.at = a] \in ClientStates
          /\ [b EXCEPT !.at = a].at = a
          /\ [b EXCEPT !.at = a].task = b.task
  BY DEF Idle, ClientStates, Busy

-----------------------------------------------------------------------------
(* A task is in one place: with the client that is about to insert it, in   *)
(* the queue, in the hands of the worker, or done.                          *)
OnePlace ==
    /\ \A c \in Clients : client[c].at = "computed" =>
          client[c].task \notin Queued \cup fulfilled \cup {task}
    /\ \A c, d \in Clients : client[c].at = "computed" /\ client[d].at # "idle" /\ c # d =>
          client[c].task # client[d].task
    /\ \A q, r \in queue : q[1] = r[1] => q = r
    /\ \A q \in queue : q[1] \notin fulfilled \cup {task}
    /\ task \notin fulfilled
    /\ task # NoTask <=> worker = "run"

Inv == TypeOK /\ NoLostWakeup /\ OnePlace

(* What the steps of a client do to its own state. *)
LEMMA StepCompute ==
    ASSUME Inv, NEW c \in Clients, NEW t \in Tasks, NEW d \in Delays, Compute(c, t, d)
    PROVE  Inv'
  <1>1. /\ t \notin Queued \cup Held \cup fulfilled \cup {task}
        /\ client[c].at = "idle"
        /\ client' = [client EXCEPT ![c] = [at |-> "computed", task |-> t, time |-> now + d]]
        /\ UNCHANGED <<running, queue, now, worker, task, deadline, fulfilled, owner>>
    BY DEF Compute, Fresh
  <1>2. /\ now + d \in Nat
        /\ client \in [Clients -> ClientStates]
    BY TimeAssumption DEF Inv, TypeOK
  <1>3. /\ client' \in [Clients -> ClientStates]
        /\ client'[c].at = "computed" /\ client'[c].task = t
        /\ \A e \in Clients : e # c => client'[e] = client[e]
    BY <1>1, <1>2, ClientTypes
  <1>4. TypeOK'
    BY <1>1, <1>3 DEF Inv, TypeOK
  <1>5. NoLostWakeup'
    BY <1>1, <1>3 DEF Inv, NoLostWakeup
  <1>6. \A e \in Clients : client[e].at # "idle" => client[e].task # t
    BY <1>1 DEF Held
  <1>7. Queued' = Queued
    BY <1>1 DEF Queued
  <1>8. OnePlace'
    BY <1>1, <1>3, <1>6, <1>7 DEF Inv, OnePlace
  <1> QED BY <1>4, <1>5, <1>8 DEF Inv

LEMMA StepInsert ==
    ASSUME Inv, NEW c \in Clients, Insert(c)
    PROVE  Inv'
  <1> DEFINE t == client[c].task
             time == IF t \in SyncTasks THEN now ELSE client[c].time
  <1>1. /\ client[c].at = "computed"
        /\ queue' = queue \cup {<<t, time>>}
        /\ client' = [client EXCEPT ![c].at = "inserted"]
        /\ UNCHANGED <<running, now, worker, task, deadline, fulfilled, owner>>
    BY DEF Insert
  <1>2. client[c] \in Busy /\ t \in Tasks /\ time \in Nat
    BY <1>1, BusyClient DEF Inv, TypeOK
  <1>3. /\ client \in [Clients -> ClientStates]
        /\ client' = [client EXCEPT ![c] = [client[c] EXCEPT !.at = "inserted"]]
    BY <1>1 DEF Inv, TypeOK
  <1>4. /\ client' \in [Clients -> ClientStates]
        /\ client'[c].at = "inserted" /\ client'[c].task = t
        /\ \A e \in Clients : e # c => client'[e] = client[e]
    BY <1>2, <1>3, ClientTypes
  <1> HIDE DEF time
  <1>5. TypeOK'
    BY <1>1, <1>2, <1>4 DEF Inv, TypeOK
  <1>6. NoLostWakeup'
    BY <1>4 DEF NoLostWakeup
  <1>7. t \notin Queued /\ t \notin fulfilled /\ t # task
    BY <1>1 DEF Inv, OnePlace
  <1>8. Queued' \subseteq Queued \cup {t}
    <2>1. ASSUME NEW q \in queue' PROVE q[1] \in Queued \cup {t}
      BY <1>1 DEF Queued
    <2>2. Queued' = {q[1] : q \in queue'}
      BY DEF Queued
    <2> QED BY <2>1, <2>2
  <1>9. \A q \in queue : q[1] # t
    BY <1>7 DEF Queued
  <1>10. OnePlace'
    <2>1. \A e \in Clients : client'[e].at = "computed" =>
             client'[e].task \notin Queued' \cup fulfilled' \cup {task'}
      BY <1>1, <1>4, <1>8 DEF Inv, OnePlace
    <2>2. \A e, f \in Clients : client'[e].at = "computed" /\ client'[f].at # "idle" /\ e # f =>
             client'[e].task # client'[f].task
      BY <1>1, <1>4 DEF Inv, OnePlace
    <2>3. /\ \A q, r \in queue' : q[1] = r[1] => q = r
          /\ \A q \in queue' : q[1] \notin fulfilled' \cup {task'}
      BY <1>1, <1>7, <1>9 DEF Inv, OnePlace
    <2>4. task' \notin fulfilled' /\ (task' # NoTask <=> worker' = "run")
      BY <1>1 DEF Inv, OnePlace
    <2> QED BY <2>1, <2>2, <2>3, <2>4 DEF OnePlace
  <1> QED BY <1>5, <1>6, <1>10 DEF Inv

(* A client leaves its call or begins to wait for the future. *)
LEMMA StepClientOn ==
    ASSUME Inv, NEW c \in Clients, client[c].at # "idle",
           \/ client' = [client EXCEPT ![c] = Idle]
           \/ client' = [client EXCEPT ![c] = [@ EXCEPT !.at = "blocked"]],
           UNCHANGED <<running, queue, now, task, deadline, fulfilled, owner>>,
           \/ worker' = Notified
           \/ client[c].at = "blocked" /\ worker' = worker
    PROVE  Inv'
  <1>1. client[c] \in Busy
    BY BusyClient DEF Inv
  <1>2. client \in [Clients -> ClientStates]
    BY DEF Inv, TypeOK
  <1>3. /\ client' \in [Clients -> ClientStates]
        /\ client'[c].at # "computed" /\ client'[c].at # "inserted"
        /\ client'[c].at # "idle" => client'[c].task = client[c].task
        /\ \A e \in Clients : e # c => client'[e] = client[e]
    BY <1>1, <1>2, ClientTypes
  <1>4. /\ worker' \in {"check", worker}
        /\ worker' = worker => client[c].at = "blocked" \/ worker \notin {"wait", "wait_until"}
        /\ worker = "run" <=> worker' = "run"
    BY DEF Notified, Inv, TypeOK
  <1>5. TypeOK'
    BY <1>3, <1>4 DEF Inv, TypeOK
  <1>6. NoLostWakeup'
    <2>1. CASE worker' = "check"
      BY <2>1 DEF NoLostWakeup
    <2>2. CASE worker' = worker /\ worker \notin {"wait", "wait_until"}
      BY <2>2 DEF NoLostWakeup
    <2>3. CASE worker' = worker /\ client[c].at = "blocked"
      BY <1>3, <2>3 DEF Inv, NoLostWakeup
    <2> QED BY <1>4, <2>1, <2>2, <2>3
  <1>7. Queued' = Queued
    BY DEF Queued
  <1>8. OnePlace'
    BY <1>3, <1>4, <1>7 DEF Inv, OnePlace
  <1> QED BY <1>5, <1>6, <1>8 DEF Inv

LEMMA StepClient ==
    ASSUME Inv, NEW c \in Clients, ClientStep(c)
    PROVE  Inv'
  <1>1. CASE Insert(c)
    BY <1>1, StepInsert
  <1>2. CASE Notify(c)
    BY <1>2, StepClientOn DEF Notify
  <1>3. CASE GetFuture(c)
    BY <1>3, StepClientOn DEF GetFuture
  <1> QED BY <1>1, <1>2, <1>3 DEF ClientStep

(* A step of the worker. *)
LEMMA StepWorker ==
    ASSUME Inv, WorkerStep \/ SpuriousWakeup
    PROVE  Inv'
  <1>1. CASE Check \/ Timeout \/ SpuriousWakeup
    <2>1. /\ UNCHANGED <<running, queue, now, task, deadline, client, fulfilled, owner>>
          /\ worker' \in {"lock", "exit", "check"}
          /\ worker # "run"
      BY <1>1 DEF Check, Timeout, SpuriousWakeup
    <2>2. TypeOK'
      BY <2>1 DEF Inv, TypeOK
    <2>3. NoLostWakeup'
      BY <2>1 DEF NoLostWakeup
    <2>4. OnePlace'
      BY <2>1 DEF Inv, OnePlace, Queued
    <2> QED BY <2>2, <2>3, <2>4 DEF Inv
  <1>2. CASE WaitEmpty \/ WaitUntil
    <2>1. /\ UNCHANGED <<running, queue, now, task, client, fulfilled, owner>>
          /\ worker = "lock" /\ worker' \in {"wait", "wait_until"}
      BY <1>2 DEF WaitEmpty, WaitUntil
    <2>2. \A q \in queue : q[2] \in Nat
      BY DEF Inv, TypeOK
    <2>3. /\ deadline' \in Nat
          /\ worker' = "wait" => queue = {}
          /\ worker' = "wait_until" => \A q \in queue : ~(deadline' > q[2])
      <3>1. CASE WaitEmpty
        BY <3>1 DEF WaitEmpty, Inv, TypeOK
      <3>2. CASE WaitUntil
        <4>1. PICK q \in Top : deadline' = q[2]
          BY <3>2 DEF WaitUntil
        <4>2. q \in queue /\ \A r \in queue : q[2] <= r[2]
          BY <4>1 DEF Top
        <4>3. worker' = "wait_until"
          BY <3>2 DEF WaitUntil
        <4> QED BY <2>2, <4>1, <4>2, <4>3
      <3> QED BY <1>2, <3>1, <3>2
    <2>4. TypeOK'
      BY <2>1, <2>3 DEF Inv, TypeOK
    <2>5. NoLostWakeup'
      BY <2>1, <2>3 DEF NoLostWakeup
    <2>6. OnePlace'
      BY <2>1 DEF Inv, OnePlace, Queued
    <2> QED BY <2>4, <2>5, <2>6 DEF Inv
  <1>3. CASE Take
    <2>1. PICK q \in queue : task' = q[1] /\ queue' = queue \ {q}
      BY <1>3 DEF Take, Top
    <2>2. /\ worker' = "run"
          /\ UNCHANGED <<running, now, deadline, client, fulfilled, owner>>
      BY <1>3 DEF Take
    <2>3. TypeOK'
      BY <2>1, <2>2 DEF Inv, TypeOK
    <2>4. NoLostWakeup'
      BY <2>2 DEF NoLostWakeup
    <2>5. Queued' \subseteq Queued /\ q[1] \in Queued
      BY <2>1 DEF Queued
    <2>6. task' # NoTask
      BY <2>1, NoTaskAssumption DEF Inv, TypeOK
    <2>7. OnePlace'
      BY <2>1, <2>2, <2>5, <2>6 DEF Inv, OnePlace
    <2> QED BY <2>3, <2>4, <2>7 DEF Inv
  <1>4. CASE Run
    <2>1. /\ fulfilled' = fulfilled \cup {task}
          /\ task' = NoTask /\ worker' = "check"
          /\ worker = "run"
          /\ UNCHANGED <<running, queue, now, deadline, client, owner>>
      BY <1>4 DEF Run
    <2>2. task # NoTask
      BY <2>1 DEF Inv, OnePlace
    <2>3. TypeOK'
      BY <2>1, <2>2 DEF Inv, TypeOK
    <2>4. NoLostWakeup'
      BY <2>1 DEF NoLostWakeup
    <2>5. OnePlace'
      <3>1. \A c \in Clients : client[c].at = "computed" => client[c].task \in Tasks
        BY BusyClient DEF Inv
      <3>2. Queued' = Queued
        BY <2>1 DEF Queued
      <3>3. \A q \in queue : q[1] \in Tasks
        BY DEF Inv, TypeOK
      <3>4. NoTask \notin Tasks /\ fulfilled' \subseteq Tasks
        BY <2>3, NoTaskAssumption DEF TypeOK
      <3> QED BY <2>1, <2>2, <3>1, <3>2, <3>3, <3>4 DEF Inv, OnePlace
    <2> QED BY <2>3, <2>4, <2>5 DEF Inv
  <1> QED BY <1>1, <1>2, <1>3, <1>4 DEF WorkerStep

(* The constructor, the destructor and the clock. *)
LEMMA StepOwner ==
    ASSUME Inv, Construct \/ Stop \/ DestructorStep \/ Tick
    PROVE  Inv'
  <1>1. /\ UNCHANGED <<queue, task, deadline, client, fulfilled>>
        /\ worker' \in {worker, "check", "stranded"}
        /\ worker = "run" <=> worker' = "run"
    BY DEF Construct, Stop, DestructorStep, NotifyAll, Join, Tick, Notified
  <1>2. TypeOK'
    <2>1. now' = now \/ now' = now + 1
      BY DEF Construct, Stop, DestructorStep, NotifyAll, Join, Tick
    <2>2. running' = running \/ running' = FALSE
      BY DEF Construct, Stop, DestructorStep, NotifyAll, Join, Tick
    <2>3. owner' \in {owner, "using", "stopping", "joining", "destroyed"}
      BY DEF Construct, Stop, DestructorStep, NotifyAll, Join, Tick
    <2>4. now' \in Nat
      BY <2>1 DEF Inv, TypeOK
    <2>5. running' \in BOOLEAN
      BY Zenon, <2>2 DEF Inv, TypeOK
    <2> QED BY <1>1, <2>3, <2>4, <2>5 DEF Inv, TypeOK
  <1>3. NoLostWakeup'
    BY <1>1 DEF Inv, NoLostWakeup
  <1>4. OnePlace'
    BY <1>1 DEF Inv, OnePlace, Queued
  <1> QED BY <1>2, <1>3, <1>4 DEF Inv

LEMMA InvInit ==
    Init => Inv
  <1> SUFFICES ASSUME Init PROVE Inv
    OBVIOUS
  <1>1. TypeOK
    BY ClientTypes DEF Init, TypeOK
  <1>2. NoLostWakeup
    BY DEF Init, NoLostWakeup
  <1>3. OnePlace
    BY ClientTypes DEF Init, OnePlace, Queued
  <1> QED BY <1>1, <1>2, <1>3 DEF Inv

LEMMA InvStep ==
    Inv /\ [Next]_vars => Inv'
  <1> SUFFICES ASSUME Inv, [Next]_vars PROVE Inv'
    OBVIOUS
  <1>1. CASE UNCHANGED vars
    BY <1>1 DEF vars, Inv, TypeOK, NoLostWakeup, OnePlace, Queued
  <1>2. CASE Next
    BY <1>2, StepCompute, StepClient, StepWorker, StepOwner DEF Next
  <1> QED BY <1>1, <1>2

(* Every member of the class and local variable of ThreadLoop keeps its     *)
(* type, and a task is in one place at a time (task_thread.hpp:12-113).     *)
THEOREM InvCorrect == Spec => []Inv
  BY InvInit, InvStep, PTL DEF Spec

(* The types alone: each client is at a place of PostDelayedTask or of      *)
(* PostTaskSync, with a task and a time (task_thread.hpp:36-67).            *)
THEOREM TypeCorrect == Spec => []TypeOK
  <1>1. Inv => TypeOK
    BY DEF Inv
  <1> QED BY <1>1, InvCorrect, PTL

-----------------------------------------------------------------------------
(* ThreadLoop (task_thread.hpp:77-105) never sleeps past the time of a      *)
(* task that was posted unless the poster has still to notify it, for any   *)
(* number of posting threads, tasks and delays.                             *)
THEOREM NoWakeupLost == Spec => []NoLostWakeup
  <1>1. Inv => NoLostWakeup
    BY DEF Inv
  <1> QED BY <1>1, InvCorrect, PTL

(* ThreadLoop takes a task only when it is due, the earliest first, and no  *)
(* task a second time.                                                      *)
THEOREM TasksInOrder == Spec => RunsInTimeOrder
  <1> DEFINE InOrder == \A t \in Tasks : (task # t /\ task' = t) =>
                 /\ t \notin fulfilled
                 /\ \E q \in queue : q[1] = t /\ q[2] <= now /\ \A r \in queue : q[2] <= r[2]
  <1>1. ASSUME Inv, [Next]_vars PROVE InOrder
    <2>1. CASE task' = task \/ task' = NoTask
      BY <2>1, NoTaskAssumption
    <2>2. CASE Take
      <3>1. PICK q \in queue : q[2] <= now /\ task' = q[1] /\ \A r \in queue : q[2] <= r[2]
        BY <2>2 DEF Take, Top
      <3>2. q[1] \notin fulfilled
        BY <1>1 DEF Inv, OnePlace
      <3> QED BY <3>1, <3>2
    <2>3. task' = task \/ task' = NoTask \/ Take
      BY <1>1 DEF Next, vars, Compute, ClientStep, Insert, Notify, GetFuture, WorkerStep, Check,
         WaitEmpty, WaitUntil, Run, Timeout, SpuriousWakeup, Construct, Stop, DestructorStep,
         NotifyAll, Join, Tick
    <2> QED BY <2>1, <2>2, <2>3
  <1>2. Inv /\ [Next]_vars => [InOrder]_vars
    BY <1>1
  <1> QED BY <1>2, InvCorrect, PTL DEF Spec, RunsInTimeOrder
===============================================================================
