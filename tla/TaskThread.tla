------------------------------ MODULE TaskThread ------------------------------
(***************************************************************************)
(* cpp/ex/task_thread/task_thread.hpp: a worker thread that runs posted    *)
(* tasks in the order of their execution time.                             *)
(*                                                                         *)
(* Clients post tasks (PostDelayedTask, of which PostTask is the case with *)
(* delay 0, and PostTaskSync, which blocks on a future); the owner runs    *)
(* the destructor once no client is inside a call.  One action is one      *)
(* stretch of code between two points where another thread can interfere:  *)
(* a critical section under mutex_ is one action, and the accesses made    *)
(* outside it (running_, the two notify calls, reading the clock, running  *)
(* the task) are actions of their own.                                     *)
(***************************************************************************)
EXTENDS Integers, FiniteSets

CONSTANTS
    Clients,    \* the threads that post
    Tasks,      \* the tasks they can post, each at most once
    SyncTasks,  \* those posted with PostTaskSync; the rest with PostDelayedTask
    Delays,     \* the values of delay_ms
    MaxTime,    \* bound of the model's clock
    EarlyStart  \* TRUE: the thread may run before the constructor is done

ASSUME TaskAssumption == SyncTasks \subseteq Tasks
ASSUME StartAssumption == EarlyStart \in BOOLEAN
ASSUME TimeAssumption == MaxTime \in Nat /\ Delays \subseteq Nat

VARIABLES
    running,    \* running_, an atomic flag, not guarded by mutex_
    queue,      \* task_queue_: the set of <<task, exec_time>> pairs
    now,        \* steady_clock::now()
    worker,     \* where ThreadLoop is
    task,       \* the local variable task of ThreadLoop, or NoTask
    deadline,   \* the time wait_until was called with
    client,     \* where each client is, and with which task
    fulfilled,  \* the tasks whose function has returned (future is ready)
    owner       \* where the destructor is

vars == <<running, queue, now, worker, task, deadline, client, fulfilled, owner>>

NoTask == "no task"

ASSUME NoTaskAssumption == NoTask \notin Tasks

(* A client is idle, has computed exec_time of its task, has inserted it,   *)
(* or waits for the future.                                                 *)
ClientStates ==
    [at : {"idle"}] \cup
    [at : {"computed", "inserted", "blocked"}, task : Tasks, time : Nat]

Idle == [at |-> "idle"]

TypeOK ==
    /\ running \in BOOLEAN
    /\ queue \subseteq (Tasks \X Nat)
    /\ now \in Nat
    /\ worker \in {"check", "lock", "wait", "wait_until", "run", "exit", "stranded"}
    /\ task \in Tasks \cup {NoTask}
    /\ deadline \in Nat
    /\ client \in [Clients -> ClientStates]
    /\ fulfilled \subseteq Tasks
    /\ owner \in {"building", "using", "stopping", "joining", "destroyed"}

Init ==
    /\ running = TRUE
    /\ queue = {}
    /\ now = 0
    /\ worker = "check"
    /\ task = NoTask
    /\ deadline = 0
    /\ client = [c \in Clients |-> Idle]
    /\ fulfilled = {}
    /\ owner = "building"

Queued == {q[1] : q \in queue}
Held == {client[c].task : c \in {d \in Clients : client[d].at # "idle"}}
Fresh == Tasks \ (Queued \cup Held \cup fulfilled \cup {task})

(***************************************************************************)
(* The clients.                                                            *)
(***************************************************************************)

(* Mutant: the delay is subtracted from the clock.                          *)
M_Compute(c, t, d) ==
    /\ owner = "using"
    /\ client[c].at = "idle"
    /\ t \in Fresh
    /\ client' = [client EXCEPT ![c] = [at |-> "computed", task |-> t, time |-> now - d]]
    /\ UNCHANGED <<running, queue, now, worker, task, deadline, fulfilled, owner>>

(* PostDelayedTask and PostTaskSync up to their critical section.           *)
Compute(c, t, d) ==
    /\ owner = "using"
    /\ client[c].at = "idle"
    /\ t \in Fresh
    /\ t \in SyncTasks => d = 0
    /\ now + d <= MaxTime
    /\ client' = [client EXCEPT ![c] = [at |-> "computed", task |-> t, time |-> now + d]]
    /\ UNCHANGED <<running, queue, now, worker, task, deadline, fulfilled, owner>>

(* The critical section.  PostTaskSync reads the clock inside it.           *)
Insert(c) ==
    LET t == client[c].task
        time == IF t \in SyncTasks THEN now ELSE client[c].time
    IN  /\ client[c].at = "computed"
        /\ queue' = queue \cup {<<t, time>>}
        /\ client' = [client EXCEPT ![c].at = "inserted"]
        /\ UNCHANGED <<running, now, worker, task, deadline, fulfilled, owner>>

(* Mutant: the notification is forgotten.                                   *)
M_Notified == worker

(* cv_.notify_one() and cv_.notify_all() make a waiting worker run again;   *)
(* there is only one waiter.                                                *)
Notified == IF worker \in {"wait", "wait_until"} THEN "check" ELSE worker

(* notify_one, after which PostDelayedTask returns and PostTaskSync blocks. *)
Notify(c) ==
    LET t == client[c].task
    IN  /\ client[c].at = "inserted"
        /\ worker' = Notified
        /\ client' = [client EXCEPT ![c] =
                        IF t \in SyncTasks THEN [@ EXCEPT !.at = "blocked"] ELSE Idle]
        /\ UNCHANGED <<running, queue, now, task, deadline, fulfilled, owner>>

(* future.get() returns once the packaged task has run.                     *)
GetFuture(c) ==
    /\ client[c].at = "blocked"
    /\ client[c].task \in fulfilled
    /\ client' = [client EXCEPT ![c] = Idle]
    /\ UNCHANGED <<running, queue, now, worker, task, deadline, fulfilled, owner>>

(***************************************************************************)
(* The worker.                                                             *)
(***************************************************************************)

(* thread_ is declared, hence started, before cv_, mutex_ and task_queue_   *)
(* are constructed.                                                         *)
MayRun == owner # "building" \/ EarlyStart

(* while (running_)                                                         *)
Check ==
    /\ MayRun
    /\ worker = "check"
    /\ worker' = IF running THEN "lock" ELSE "exit"
    /\ UNCHANGED <<running, queue, now, task, deadline, client, fulfilled, owner>>

(* The queue is empty: cv_.wait, without a predicate, releases mutex_.      *)
WaitEmpty ==
    /\ worker = "lock"
    /\ queue = {}
    /\ worker' = "wait"
    /\ UNCHANGED <<running, queue, now, task, deadline, client, fulfilled, owner>>

(* Mutant: std::less in place of std::greater<>.                            *)
M_Top == {q \in queue : \A r \in queue : q[2] >= r[2]}

(* task_queue_.top(): any task with the least exec_time.                    *)
Top == {q \in queue : \A r \in queue : q[2] <= r[2]}

WaitUntil ==
    /\ worker = "lock"
    /\ \E q \in Top :
        /\ q[2] > now
        /\ deadline' = q[2]
    /\ worker' = "wait_until"
    /\ UNCHANGED <<running, queue, now, task, client, fulfilled, owner>>

Take ==
    /\ worker = "lock"
    /\ \E q \in Top :
        /\ q[2] <= now
        /\ task' = q[1]
        /\ queue' = queue \ {q}
    /\ worker' = "run"
    /\ UNCHANGED <<running, now, deadline, client, fulfilled, owner>>

(* task() returns; for a synchronous task the promise is set.               *)
Run ==
    /\ worker = "run"
    /\ fulfilled' = fulfilled \cup {task}
    /\ task' = NoTask
    /\ worker' = "check"
    /\ UNCHANGED <<running, queue, now, deadline, client, owner>>

(* wait_until's time is reached.                                            *)
Timeout ==
    /\ worker = "wait_until"
    /\ now >= deadline
    /\ worker' = "check"
    /\ UNCHANGED <<running, queue, now, task, deadline, client, fulfilled, owner>>

(* A wait may also end for no reason.                                       *)
SpuriousWakeup ==
    /\ worker \in {"wait", "wait_until"}
    /\ worker' = "check"
    /\ UNCHANGED <<running, queue, now, task, deadline, client, fulfilled, owner>>

(***************************************************************************)
(* The constructor, the destructor in its three steps, and the clock.      *)
(***************************************************************************)

(* The members after thread_ are constructed.  A worker that already waits  *)
(* on cv_ is forgotten by it: no notification finds it any more.            *)
Construct ==
    /\ owner = "building"
    /\ owner' = "using"
    /\ worker' = IF worker = "wait" THEN "stranded" ELSE worker
    /\ UNCHANGED <<running, queue, now, task, deadline, client, fulfilled>>

Stop ==
    /\ owner = "using"
    /\ \A c \in Clients : client[c].at = "idle"
    /\ running' = FALSE
    /\ owner' = "stopping"
    /\ UNCHANGED <<queue, now, worker, task, deadline, client, fulfilled>>

NotifyAll ==
    /\ owner = "stopping"
    /\ worker' = Notified
    /\ owner' = "joining"
    /\ UNCHANGED <<running, queue, now, task, deadline, client, fulfilled>>

Join ==
    /\ owner = "joining"
    /\ worker = "exit"
    /\ owner' = "destroyed"
    /\ UNCHANGED <<running, queue, now, worker, task, deadline, client, fulfilled>>

Tick ==
    /\ now < MaxTime
    /\ now' = now + 1
    /\ UNCHANGED <<running, queue, worker, task, deadline, client, fulfilled, owner>>

ClientStep(c) == Insert(c) \/ Notify(c) \/ GetFuture(c)
WorkerStep == Check \/ WaitEmpty \/ WaitUntil \/ Take \/ Run \/ Timeout
DestructorStep == NotifyAll \/ Join

Next ==
    \/ \E c \in Clients : (\E t \in Tasks, d \in Delays : Compute(c, t, d)) \/ ClientStep(c)
    \/ WorkerStep
    \/ SpuriousWakeup
    \/ Construct
    \/ Stop
    \/ DestructorStep
    \/ Tick

(* Every thread the operating system can run is run, and time passes; a     *)
(* client need not post, the owner need not destroy, and no wait has to end *)
(* spuriously.                                                              *)
Fairness ==
    /\ \A c \in Clients : WF_vars(ClientStep(c))
    /\ WF_vars(WorkerStep)
    /\ WF_vars(DestructorStep)
    /\ WF_vars(Tick)

Spec == Init /\ [][Next]_vars /\ Fairness

(***************************************************************************)
(* Properties.                                                             *)
(***************************************************************************)

(* No wakeup is lost to the inserts: whenever the worker sleeps past the    *)
(* time of a queued task (for ever on an empty queue it saw, or until a     *)
(* later deadline), the client that inserted that task has still to call    *)
(* notify_one.                                                              *)
NoLostWakeup ==
    \A q \in queue :
        (worker = "wait" \/ (worker = "wait_until" /\ deadline > q[2]))
            => \E c \in Clients : client[c].at = "inserted"

(* A task runs no earlier than its delay and never before a queued task     *)
(* with an earlier time, and it runs once.                                  *)
RunsInTimeOrder ==
    [][\A t \in Tasks : (task # t /\ task' = t) =>
        /\ t \notin fulfilled
        /\ \E q \in queue : q[1] = t /\ q[2] <= now /\ \A r \in queue : q[2] <= r[2]]_vars

(* Every task a client has inserted is run, unless the destructor begins    *)
(* first (it drops what is queued): whichever way inserts, notifications,   *)
(* waits and deadlines interleave, no task is left asleep in the queue.     *)
PostedTasksRun ==
    \A t \in Tasks : t \in Queued ~> (t \in fulfilled \/ ~running)
=============================================================================
