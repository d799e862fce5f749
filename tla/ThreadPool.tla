------------------------------ MODULE ThreadPool ------------------------------
(***************************************************************************)
(* The thread pool of src/src/lr_thread_pool.c: submission, the worker     *)
(* loop with work stealing and the two condition variables, wait_all and   *)
(* destroy.                                                                *)
(*                                                                         *)
(* Each worker's task_queue is a sequence whose push and pop take effect   *)
(* in one step (the contract FifoQueue); LockFreeQueue models the list     *)
(* itself and shows when that contract holds.                              *)
(*                                                                         *)
(* A mutex is modelled by who holds it between two steps: signal_mutex of  *)
(* w only by w itself at "sleep", done_mutex only by a client at "dsleep". *)
(***************************************************************************)
EXTENDS Integers, Sequences, FiniteSets

CONSTANTS
  N,              \* pool->num_workers
  Clients,        \* threads that submit tasks and wait for them
  Waiters,        \* the clients that call lr_thread_pool_wait_all
  Tasks,          \* the LR_Task objects; each is submitted at most once
  Terminate,      \* the LR_TASK_TERMINATE sentinel
  None,
  Victims,        \* Victims[w]: the worker ids that w probes, in order
  StartMayFail,   \* TRUE: pthread_create or lr_runtime_new may fail
  AllocMayFail,   \* TRUE: lr_task_create may return NULL in destroy
  Spurious,       \* TRUE: condition variables may wake a thread unsignalled
  CallerFrees     \* TRUE: the waiter frees its tasks after wait_all (the CLI)

Workers == 0 .. N - 1

ASSUME PoolAssumption ==
  /\ N \in Nat \ {0}
  /\ Waiters \subseteq Clients
  /\ IsFiniteSet(Tasks)
  /\ Terminate \notin Tasks /\ None \notin Tasks /\ None # Terminate
  /\ Victims \in [Workers -> Seq(Workers)]
  /\ \A b \in {StartMayFail, AllocMayFail, Spurious, CallerFrees} : b \in BOOLEAN

VARIABLES
  poolRunning,    \* pool->running
  round_robin,    \* pool->round_robin_idx % num_workers
  tasks_pending,  \* pool->tasks_pending
  running, should_stop, queue,  \* the fields of each worker
  allocated,      \* the worker structures that have not been freed
  wpc, cur, probe,              \* each worker's step, node in hand, next victim
  cpc, ctask, ctarget,          \* each client's step, task and chosen worker
  must,           \* must[c]: the tasks submitted when c called wait_all
  mpc, mi,        \* the destroying thread's step and loop index
  stage,          \* stage[t]: how far task t has come
  executed, frees,\* how often t was executed, how often freed
  badProbe        \* TRUE when a worker has touched a freed worker structure

poolVars   == <<poolRunning, round_robin, tasks_pending>>
workerVars == <<running, should_stop, allocated>>
localVars  == <<wpc, cur, probe>>
clientVars == <<cpc, ctask, ctarget, must>>
mainVars   == <<mpc, mi>>
taskVars   == <<stage, executed, frees>>
vars == <<poolVars, workerVars, queue, localVars, clientVars, mainVars, taskVars, badProbe>>

Stages == {"new", "offered", "counted", "queued", "stolen", "running", "ran",
           "done", "freed", "dropped", "refused"}

(* The stages in which a task is included in tasks_pending.  destroy frees *)
(* the tasks left in a queue without counting them down.                   *)
NotSubmitted == {"new", "offered", "refused"}
PendingStages == {"counted", "queued", "stolen", "running", "ran", "dropped"}

(* lr_thread_pool_create: a worker whose pthread_create fails is left with *)
(* running = 0 and no thread.                                              *)
Init ==
  /\ poolRunning = TRUE /\ round_robin = 0 /\ tasks_pending = 0
  /\ running \in [Workers -> IF StartMayFail THEN BOOLEAN ELSE {TRUE}]
  /\ should_stop = [w \in Workers |-> FALSE]
  /\ queue = [w \in Workers |-> <<>>]
  /\ allocated = Workers
  /\ wpc = [w \in Workers |-> IF running[w] THEN "start" ELSE "exit"]
  /\ cur = [w \in Workers |-> None] /\ probe = [w \in Workers |-> 1]
  /\ cpc = [c \in Clients |-> "idle"] /\ ctask = [c \in Clients |-> None]
  /\ ctarget = [c \in Clients |-> 0] /\ must = [c \in Clients |-> {}]
  /\ mpc = "up" /\ mi = 0
  /\ stage = [t \in Tasks |-> "new"]
  /\ executed = [t \in Tasks |-> 0] /\ frees = [t \in Tasks |-> 0]
  /\ badProbe = FALSE

WGoto(w, l) == wpc' = [wpc EXCEPT ![w] = l]
CGoto(c, l) == cpc' = [cpc EXCEPT ![c] = l]
SetStage(t, s) == stage' = [stage EXCEPT ![t] = s]
Free(t) == frees' = [frees EXCEPT ![t] = @ + 1]

(* Mutant: the signal is sent without taking signal_mutex. *)
SignalWorker_noMutex(w) ==
  wpc' = IF wpc[w] = "asleep" THEN [wpc EXCEPT ![w] = "loop"] ELSE wpc

(* pthread_cond_signal(&w->signal_cond) under signal_mutex, which w holds  *)
(* from its test of the queue until it sleeps.                             *)
SignalWorker(w) ==
  /\ wpc[w] # "sleep"
  /\ wpc' = IF wpc[w] = "asleep" THEN [wpc EXCEPT ![w] = "loop"] ELSE wpc

DoneMutexFree == \A c \in Clients : cpc[c] # "dsleep"

-----------------------------------------------------------------------------
(* lr_thread_pool_submit and lr_thread_pool_submit_to.  The pool pointer   *)
(* must still be valid: no call begins once destroy has freed the pool.    *)

SubmitCall(c, t) ==
  /\ cpc[c] = "idle" /\ stage[t] = "new"
  /\ poolRunning
  /\ CGoto(c, "count") /\ ctask' = [ctask EXCEPT ![c] = t]
  /\ SetStage(t, "offered")
  /\ UNCHANGED <<poolVars, workerVars, queue, localVars, ctarget, must, mainVars,
                 executed, frees, badProbe>>

(* if (!pool->running) return -1: the task stays with the caller, who      *)
(* frees it.                                                               *)
SubmitRefused(c, t) ==
  /\ cpc[c] = "idle" /\ stage[t] = "new"
  /\ ~poolRunning /\ mpc # "destroyed"
  /\ SetStage(t, "refused") /\ Free(t)
  /\ UNCHANGED <<poolVars, workerVars, queue, localVars, clientVars, mainVars,
                 executed, badProbe>>

(* The counters are incremented before the node is linked.  submit takes   *)
(* the worker from round_robin_idx; submit_to is given one.                *)
SubmitCount(c, robin) ==
  /\ cpc[c] = "count"
  /\ IF robin THEN /\ ctarget' = [ctarget EXCEPT ![c] = round_robin]
                   /\ round_robin' = (round_robin + 1) % N
              ELSE /\ \E w \in Workers : ctarget' = [ctarget EXCEPT ![c] = w]
                   /\ UNCHANGED round_robin
  /\ tasks_pending' = tasks_pending + 1
  /\ SetStage(ctask[c], "counted")
  /\ CGoto(c, "push")
  /\ UNCHANGED <<poolRunning, workerVars, queue, localVars, ctask, must, mainVars,
                 executed, frees, badProbe>>

(* lr_thread_pool_enqueue: the push ... *)
SubmitPush(c) ==
  /\ cpc[c] = "push"
  /\ queue' = [queue EXCEPT ![ctarget[c]] = Append(@, ctask[c])]
  /\ SetStage(ctask[c], "queued")
  /\ CGoto(c, "signal")
  /\ UNCHANGED <<poolVars, workerVars, localVars, ctask, ctarget, must, mainVars,
                 executed, frees, badProbe>>

(* ... and the signal *)
SubmitSignal(c) ==
  /\ cpc[c] = "signal"
  /\ SignalWorker(ctarget[c])
  /\ CGoto(c, "idle")
  /\ UNCHANGED <<poolVars, workerVars, queue, cur, probe, ctask, ctarget, must,
                 mainVars, taskVars, badProbe>>

-----------------------------------------------------------------------------
(* lr_thread_pool_wait_all *)

WaitCall(c) ==
  /\ c \in Waiters /\ cpc[c] = "idle" /\ mpc = "up"
  /\ must' = [must EXCEPT ![c] = {t \in Tasks : stage[t] \notin NotSubmitted}]
  /\ CGoto(c, "dcheck")
  /\ UNCHANGED <<poolVars, workerVars, queue, localVars, ctask, ctarget, mainVars,
                 taskVars, badProbe>>

(* Mutant: wait_all looks at the queues instead of tasks_pending. *)
WaitCheck_emptyQueues(c) ==
  /\ cpc[c] = "dcheck" /\ DoneMutexFree
  /\ CGoto(c, IF \E w \in Workers : queue[w] # <<>> THEN "dsleep" ELSE "returned")
  /\ UNCHANGED <<poolVars, workerVars, queue, localVars, ctask, ctarget, must,
                 mainVars, taskVars, badProbe>>

(* The load of tasks_pending under done_mutex *)
WaitCheck(c) ==
  /\ cpc[c] = "dcheck" /\ DoneMutexFree
  /\ CGoto(c, IF tasks_pending > 0 THEN "dsleep" ELSE "returned")
  /\ UNCHANGED <<poolVars, workerVars, queue, localVars, ctask, ctarget, must,
                 mainVars, taskVars, badProbe>>

(* pthread_cond_wait releases done_mutex and sleeps in one step. *)
WaitSleep(c) ==
  /\ cpc[c] = "dsleep"
  /\ CGoto(c, "dasleep")
  /\ UNCHANGED <<poolVars, workerVars, queue, localVars, ctask, ctarget, must,
                 mainVars, taskVars, badProbe>>

(* The caller goes on; the CLI first frees every task it submitted. *)
AfterWait(c) ==
  /\ cpc[c] = "returned"
  /\ frees' = [t \in Tasks |-> IF CallerFrees /\ t \in must[c] THEN frees[t] + 1
                                                              ELSE frees[t]]
  /\ CGoto(c, "idle")
  /\ UNCHANGED <<poolVars, workerVars, queue, localVars, ctask, ctarget, must,
                 mainVars, stage, executed, badProbe>>

ClientStep(c) ==
  \/ \E robin \in BOOLEAN : SubmitCount(c, robin)
  \/ SubmitPush(c) \/ SubmitSignal(c)
  \/ WaitCheck(c) \/ WaitSleep(c) \/ AfterWait(c)

-----------------------------------------------------------------------------
(* lr_worker_thread *)

WorkerStart(w) ==
  /\ wpc[w] = "start"
  /\ \/ WGoto(w, "loop") /\ UNCHANGED running
     \/ /\ StartMayFail
        /\ running' = [running EXCEPT ![w] = FALSE]
        /\ WGoto(w, "exit")
  /\ UNCHANGED <<poolVars, should_stop, allocated, queue, cur, probe, clientVars,
                 mainVars, taskVars, badProbe>>

(* while (!w->should_stop) *)
WorkerLoop(w) ==
  /\ wpc[w] = "loop"
  /\ WGoto(w, IF should_stop[w] THEN "cleanup" ELSE "pop")
  /\ UNCHANGED <<poolVars, workerVars, queue, cur, probe, clientVars, mainVars,
                 taskVars, badProbe>>

WorkerPopNone(w) ==
  /\ wpc[w] = "pop" /\ queue[w] = <<>>
  /\ WGoto(w, "steal")
  /\ UNCHANGED <<poolVars, workerVars, queue, cur, probe, clientVars, mainVars, taskVars,
                 badProbe>>

WorkerPopTask(w) ==
  /\ wpc[w] = "pop" /\ queue[w] # <<>> /\ Head(queue[w]) # Terminate
  /\ queue' = [queue EXCEPT ![w] = Tail(@)]
  /\ cur' = [cur EXCEPT ![w] = Head(queue[w])]
  /\ SetStage(Head(queue[w]), "running")
  /\ WGoto(w, "exec")
  /\ UNCHANGED <<poolVars, workerVars, probe, clientVars, mainVars, executed, frees,
                 badProbe>>

WorkerPopTerminate(w) ==
  /\ wpc[w] = "pop" /\ queue[w] # <<>> /\ Head(queue[w]) = Terminate
  /\ queue' = [queue EXCEPT ![w] = Tail(@)]
  /\ WGoto(w, "cleanup")
  /\ UNCHANGED <<poolVars, workerVars, cur, probe, clientVars, mainVars, taskVars, badProbe>>

(* The task's script or callback, its statistics and on_complete *)
WorkerExec(w) ==
  /\ wpc[w] = "exec"
  /\ executed' = [executed EXCEPT ![cur[w]] = @ + 1]
  /\ SetStage(cur[w], "ran")
  /\ WGoto(w, "dec")
  /\ UNCHANGED <<poolVars, workerVars, queue, cur, probe, clientVars, mainVars, frees,
                 badProbe>>

(* Mutant: the value before the decrement is compared with zero. *)
WorkerDec_oldValue(w) ==
  /\ wpc[w] = "dec"
  /\ tasks_pending' = tasks_pending - 1
  /\ SetStage(cur[w], "done")
  /\ WGoto(w, IF tasks_pending = 0 THEN "notify" ELSE "free")
  /\ UNCHANGED <<poolRunning, round_robin, workerVars, queue, cur, probe, clientVars,
                 mainVars, executed, frees, badProbe>>

(* rem = fetch_add(&tasks_pending, -1) - 1 *)
WorkerDec(w) ==
  /\ wpc[w] = "dec"
  /\ tasks_pending' = tasks_pending - 1
  /\ SetStage(cur[w], "done")
  /\ WGoto(w, IF tasks_pending - 1 = 0 THEN "notify" ELSE "free")
  /\ UNCHANGED <<poolRunning, round_robin, workerVars, queue, cur, probe, clientVars,
                 mainVars, executed, frees, badProbe>>

(* Mutant: done_cond is signalled without taking done_mutex. *)
WorkerNotify_noMutex(w) ==
  /\ wpc[w] = "notify"
  /\ \/ \E c \in Waiters : cpc[c] = "dasleep" /\ CGoto(c, "dcheck")
     \/ (\A c \in Waiters : cpc[c] # "dasleep") /\ UNCHANGED cpc
  /\ WGoto(w, "free")
  /\ UNCHANGED <<poolVars, workerVars, queue, cur, probe, ctask, ctarget, must,
                 mainVars, taskVars, badProbe>>

(* pthread_cond_signal(&pool->done_cond) under done_mutex: one sleeping    *)
(* waiter wakes, if there is one.                                          *)
WorkerNotify(w) ==
  /\ wpc[w] = "notify" /\ DoneMutexFree
  /\ \/ \E c \in Waiters : cpc[c] = "dasleep" /\ CGoto(c, "dcheck")
     \/ (\A c \in Waiters : cpc[c] # "dasleep") /\ UNCHANGED cpc
  /\ WGoto(w, "free")
  /\ UNCHANGED <<poolVars, workerVars, queue, cur, probe, ctask, ctarget, must,
                 mainVars, taskVars, badProbe>>

WorkerFree(w) ==
  /\ wpc[w] = "free"
  /\ SetStage(cur[w], "freed") /\ Free(cur[w])
  /\ cur' = [cur EXCEPT ![w] = None]
  /\ WGoto(w, "loop")
  /\ UNCHANGED <<poolVars, workerVars, queue, probe, clientVars, mainVars, executed,
                 badProbe>>

(* Stealing is tried only while tasks are pending somewhere. *)
StealCheck(w) ==
  /\ wpc[w] = "steal"
  /\ WGoto(w, IF N > 1 /\ tasks_pending > 0 THEN "probe" ELSE "lock")
  /\ probe' = [probe EXCEPT ![w] = 1]
  /\ UNCHANGED <<poolVars, workerVars, queue, cur, clientVars, mainVars, taskVars,
                 badProbe>>

Victim(w) == Victims[w][probe[w]]
Probing(w) == wpc[w] = "probe" /\ ~badProbe /\ probe[w] \in 1..Len(Victims[w])
CanSteal(w) ==
  /\ Victim(w) # w /\ Victim(w) \in allocated
  /\ running[Victim(w)] /\ queue[Victim(w)] # <<>>

(* Mutant: the thief peeks at the victim's queue instead of popping it. *)
StealTake_peek(w) ==
  /\ Probing(w) /\ CanSteal(w)
  /\ cur' = [cur EXCEPT ![w] = Head(queue[Victim(w)])]
  /\ stage' = IF cur'[w] = Terminate THEN stage ELSE [stage EXCEPT ![cur'[w]] = "stolen"]
  /\ WGoto(w, "keep")
  /\ UNCHANGED <<poolVars, workerVars, queue, probe, clientVars, mainVars, executed,
                 frees, badProbe>>

(* The pop of the victim's queue returns a node. *)
StealTake(w) ==
  /\ Probing(w) /\ CanSteal(w)
  /\ cur' = [cur EXCEPT ![w] = Head(queue[Victim(w)])]
  /\ queue' = [queue EXCEPT ![Victim(w)] = Tail(@)]
  /\ stage' = IF Head(queue[Victim(w)]) = Terminate THEN stage
              ELSE [stage EXCEPT ![Head(queue[Victim(w)])] = "stolen"]
  /\ WGoto(w, "keep")
  /\ UNCHANGED <<poolVars, workerVars, probe, clientVars, mainVars, executed, frees,
                 badProbe>>

(* The victim is the worker itself, has stopped or has nothing: on to the  *)
(* next.  What follows the use of a freed worker is undefined; the model   *)
(* ends there.                                                             *)
StealMiss(w) ==
  /\ Probing(w) /\ ~CanSteal(w)
  /\ probe' = [probe EXCEPT ![w] = @ + 1]
  /\ badProbe' = (Victim(w) # w /\ Victim(w) \notin allocated)
  /\ UNCHANGED <<poolVars, workerVars, queue, wpc, cur, clientVars, mainVars, taskVars>>

(* No victim had work. *)
StealFail(w) ==
  /\ wpc[w] = "probe" /\ ~badProbe /\ probe[w] > Len(Victims[w])
  /\ WGoto(w, "lock")
  /\ UNCHANGED <<poolVars, workerVars, queue, cur, probe, clientVars, mainVars, taskVars,
                 badProbe>>

(* Mutant: a stolen task is counted again, as if it were submitted. *)
StealKeep_counted(w) ==
  /\ wpc[w] = "keep"
  /\ queue' = [queue EXCEPT ![w] = Append(@, cur[w])]
  /\ stage' = IF cur[w] = Terminate THEN stage ELSE [stage EXCEPT ![cur[w]] = "queued"]
  /\ cur' = [cur EXCEPT ![w] = None]
  /\ tasks_pending' = tasks_pending + 1
  /\ WGoto(w, "loop")
  /\ UNCHANGED <<poolRunning, round_robin, workerVars, probe, clientVars, mainVars,
                 executed, frees, badProbe>>

(* The stolen node goes to the thief's own queue. *)
StealKeep(w) ==
  /\ wpc[w] = "keep"
  /\ queue' = [queue EXCEPT ![w] = Append(@, cur[w])]
  /\ stage' = IF cur[w] = Terminate THEN stage ELSE [stage EXCEPT ![cur[w]] = "queued"]
  /\ cur' = [cur EXCEPT ![w] = None]
  /\ WGoto(w, "loop")
  /\ UNCHANGED <<poolVars, workerVars, probe, clientVars, mainVars, executed, frees,
                 badProbe>>

(* The last look at the flag and the queue, under signal_mutex *)
WorkerLock(w) ==
  /\ wpc[w] = "lock"
  /\ WGoto(w, IF ~should_stop[w] /\ queue[w] = <<>> THEN "sleep" ELSE "loop")
  /\ UNCHANGED <<poolVars, workerVars, queue, cur, probe, clientVars, mainVars,
                 taskVars, badProbe>>

(* pthread_cond_wait *)
WorkerSleep(w) ==
  /\ wpc[w] = "sleep"
  /\ WGoto(w, "asleep")
  /\ UNCHANGED <<poolVars, workerVars, queue, cur, probe, clientVars, mainVars,
                 taskVars, badProbe>>

(* lr_runtime_free, running = 0, return *)
WorkerCleanup(w) ==
  /\ wpc[w] = "cleanup"
  /\ running' = [running EXCEPT ![w] = FALSE]
  /\ WGoto(w, "exit")
  /\ UNCHANGED <<poolVars, should_stop, allocated, queue, cur, probe, clientVars,
                 mainVars, taskVars, badProbe>>

WorkerStep(w) ==
  \/ WorkerStart(w) \/ WorkerLoop(w)
  \/ WorkerPopNone(w) \/ WorkerPopTask(w) \/ WorkerPopTerminate(w) \/ WorkerExec(w)
  \/ WorkerDec(w) \/ WorkerNotify(w) \/ WorkerFree(w)
  \/ StealCheck(w) \/ StealTake(w) \/ StealMiss(w) \/ StealFail(w) \/ StealKeep(w)
  \/ WorkerLock(w) \/ WorkerSleep(w) \/ WorkerCleanup(w)

(* A condition variable may wake a thread without a signal. *)
SpuriousWake ==
  /\ Spurious
  /\ \/ /\ \E w \in Workers : wpc[w] = "asleep" /\ WGoto(w, "loop")
        /\ UNCHANGED cpc
     \/ /\ \E c \in Clients : cpc[c] = "dasleep" /\ CGoto(c, "dcheck")
        /\ UNCHANGED wpc
  /\ UNCHANGED <<poolVars, workerVars, queue, cur, probe, ctask, ctarget, must,
                 mainVars, taskVars, badProbe>>

-----------------------------------------------------------------------------
(* lr_thread_pool_destroy, called when no other call is in progress *)

DestroyCall ==
  /\ mpc = "up" /\ \A c \in Clients : cpc[c] = "idle"
  /\ poolRunning' = FALSE
  /\ mpc' = "stop" /\ mi' = 0
  /\ UNCHANGED <<round_robin, tasks_pending, workerVars, queue, localVars, clientVars,
                 taskVars, badProbe>>

(* First loop: skip the workers that are not running, flag the others. *)
DestroyStop ==
  /\ mpc = "stop"
  /\ IF mi = N
       THEN mpc' = "join" /\ mi' = 0 /\ UNCHANGED should_stop
       ELSE IF running[mi]
              THEN /\ should_stop' = [should_stop EXCEPT ![mi] = TRUE]
                   /\ mpc' = "push" /\ UNCHANGED mi
              ELSE mi' = mi + 1 /\ UNCHANGED <<mpc, should_stop>>
  /\ UNCHANGED <<poolVars, running, allocated, queue, localVars, clientVars, taskVars,
                 badProbe>>

DestroyPush ==
  /\ mpc = "push"
  /\ \/ queue' = [queue EXCEPT ![mi] = Append(@, Terminate)]
     \/ AllocMayFail /\ UNCHANGED queue
  /\ mpc' = "signal"
  /\ UNCHANGED <<poolVars, workerVars, localVars, clientVars, mi, taskVars, badProbe>>

DestroySignal ==
  /\ mpc = "signal"
  /\ SignalWorker(mi)
  /\ mpc' = "stop" /\ mi' = mi + 1
  /\ UNCHANGED <<poolVars, workerVars, queue, cur, probe, clientVars, taskVars, badProbe>>

Left(w) == {t \in Tasks : \E i \in DOMAIN queue[w] : queue[w][i] = t}

(* Second loop: join worker mi if it still runs, free the tasks left in    *)
(* its queue (they stay counted) and the worker itself.                    *)
DestroyJoin ==
  /\ mpc = "join" /\ mi < N
  /\ running[mi] => wpc[mi] = "exit"
  /\ stage' = [t \in Tasks |-> IF t \in Left(mi) THEN "dropped" ELSE stage[t]]
  /\ frees' = [t \in Tasks |-> IF t \in Left(mi) THEN frees[t] + 1 ELSE frees[t]]
  /\ queue' = [queue EXCEPT ![mi] = <<>>]
  /\ allocated' = allocated \ {mi}
  /\ mi' = mi + 1
  /\ UNCHANGED <<poolVars, running, should_stop, localVars, clientVars, mpc, executed,
                 badProbe>>

(* All workers are gone: free the pool. *)
DestroyReturn ==
  /\ mpc = "join" /\ mi = N
  /\ mpc' = "destroyed"
  /\ UNCHANGED <<poolVars, workerVars, queue, localVars, clientVars, mi, taskVars, badProbe>>

MainStep == DestroyStop \/ DestroyPush \/ DestroySignal \/ DestroyJoin \/ DestroyReturn

-----------------------------------------------------------------------------
Next ==
  \/ \E c \in Clients : ClientStep(c) \/ WaitCall(c)
                          \/ \E t \in Tasks : SubmitCall(c, t) \/ SubmitRefused(c, t)
  \/ \E w \in Workers : WorkerStep(w)
  \/ SpuriousWake
  \/ DestroyCall \/ MainStep

(* Threads inside a call of the pool, the workers and a destroy in         *)
(* progress keep running; a task's script is taken to terminate.           *)
Fairness ==
  /\ \A c \in Clients : WF_vars(ClientStep(c))
  /\ \A w \in Workers : WF_vars(WorkerStep(w))
  /\ WF_vars(MainStep)

Spec == Init /\ [][Next]_vars
FairSpec == Spec /\ Fairness
-----------------------------------------------------------------------------
WorkerSteps == {"start", "loop", "pop", "exec", "dec", "notify", "free", "steal", "probe",
                "keep", "lock", "sleep", "asleep", "cleanup", "exit"}
ClientSteps == {"idle", "count", "push", "signal", "dcheck", "dsleep", "dasleep", "returned"}

TypePool == poolRunning \in BOOLEAN /\ round_robin \in Workers /\ tasks_pending \in Int
TypeWorkers ==
  /\ running \in [Workers -> BOOLEAN] /\ should_stop \in [Workers -> BOOLEAN]
  /\ allocated \subseteq Workers /\ badProbe \in BOOLEAN
TypeQueues == queue \in [Workers -> Seq(Tasks \cup {Terminate})]
TypeLocals ==
  /\ wpc \in [Workers -> WorkerSteps]
  /\ cur \in [Workers -> Tasks \cup {Terminate, None}]
  /\ probe \in [Workers -> Nat \ {0}]
TypeClients ==
  /\ cpc \in [Clients -> ClientSteps] /\ ctask \in [Clients -> Tasks \cup {None}]
  /\ ctarget \in [Clients -> Workers] /\ must \in [Clients -> SUBSET Tasks]
TypeMain == mpc \in {"up", "stop", "push", "signal", "join", "destroyed"} /\ mi \in 0..N
TypeTasks ==
  stage \in [Tasks -> Stages] /\ executed \in [Tasks -> Nat] /\ frees \in [Tasks -> Nat]

(* The pool's variables hold values of the C types: among other things the *)
(* round-robin index and the index of destroy's loops stay in the array.   *)
TypeOK ==
  /\ TypePool /\ TypeWorkers /\ TypeQueues /\ TypeLocals
  /\ TypeClients /\ TypeMain /\ TypeTasks

(* tasks_pending counts exactly the tasks between the increment in submit  *)
(* and the decrement after execution, wherever stealing has moved them.    *)
PendingExact ==
  tasks_pending = Cardinality({t \in Tasks : stage[t] \in PendingStages})

(* lr_thread_pool_wait_all returns only when every task submitted before   *)
(* the call has been executed, exactly once.                               *)
WaitAllSound ==
  \A c \in Clients : cpc[c] = "returned" => \A t \in must[c] : executed[t] = 1

(* Who holds a task: a client between its call and the push, one position  *)
(* of one queue, or the worker that took it from there.                    *)
Holding(w) == wpc[w] \in {"keep", "exec", "dec", "notify", "free"}
Offering(c) == cpc[c] \in {"count", "push"}

QueuedStage ==
  \A w \in Workers : \A i \in DOMAIN queue[w] :
    queue[w][i] \in Tasks => stage[queue[w][i]] = "queued"
QueuedOnce ==
  \A w, x \in Workers : \A i \in DOMAIN queue[w], j \in DOMAIN queue[x] :
    queue[w][i] \in Tasks /\ queue[w][i] = queue[x][j] => w = x /\ i = j
HeldStage ==
  \A w \in Workers :
    /\ wpc[w] = "keep" /\ cur[w] # Terminate => stage[cur[w]] = "stolen"
    /\ wpc[w] = "exec" => stage[cur[w]] = "running"
    /\ wpc[w] = "dec" => stage[cur[w]] = "ran"
    /\ wpc[w] \in {"notify", "free"} => stage[cur[w]] = "done"
HeldOnce ==
  \A w, x \in Workers :
    Holding(w) /\ Holding(x) /\ cur[w] \in Tasks /\ cur[w] = cur[x] => w = x
OfferedStage ==
  \A c \in Clients :
    /\ cpc[c] = "count" => stage[ctask[c]] = "offered"
    /\ cpc[c] = "push" => stage[ctask[c]] = "counted"
OfferedOnce ==
  \A c, d \in Clients : Offering(c) /\ Offering(d) /\ ctask[c] = ctask[d] => c = d

(* Every task has one holder at a time, and its stage says which: a task   *)
(* is in at most one queue, once, and in the hand of one worker at most,   *)
(* whatever is stolen while it is pushed, popped or dropped.               *)
SingleHolder ==
  QueuedStage /\ QueuedOnce /\ HeldStage /\ HeldOnce /\ OfferedStage /\ OfferedOnce

(* No task is executed twice or freed twice, and none is executed after    *)
(* destroy has freed it.                                                   *)
OnceOnly ==
  \A t \in Tasks :
    /\ executed[t] <= 1 /\ frees[t] <= 1
    /\ stage[t] = "dropped" => executed[t] = 0

(* A worker sleeps, or is about to, with work in its queue or with         *)
(* should_stop set only while the thread that pushed or set the flag still *)
(* has to signal it.                                                       *)
NoLostWakeup ==
  \A w \in Workers : wpc[w] \in {"sleep", "asleep"} =>
    /\ queue[w] # <<>> => \/ \E c \in Clients : cpc[c] = "signal" /\ ctarget[c] = w
                          \/ mpc = "signal" /\ mi = w
    /\ should_stop[w] => mpc \in {"push", "signal"} /\ mi = w

(* A thread sleeps in wait_all with nothing pending only while a worker    *)
(* still has to signal done_cond.  It needs a single waiter.               *)
NoLostDone ==
  \A c \in Clients : cpc[c] \in {"dsleep", "dasleep"} /\ tasks_pending <= 0 =>
    \E w \in Workers : wpc[w] = "notify"

(* Every call of lr_thread_pool_wait_all returns, provided that no worker  *)
(* failed to start and that the workers do not steal for ever: a stolen    *)
(* task can be stolen back before its thief pops it, without end.          *)
WaitAllReturns ==
  /\ [](mpc = "up" => \A w \in Workers : wpc[w] # "exit")
  /\ <>[](\A w \in Workers : wpc[w] # "keep")
  => \A c \in Clients : cpc[c] = "dcheck" ~> cpc[c] = "returned"

(* lr_thread_pool_destroy returns, whatever the workers were doing, unless *)
(* one of them first touches a structure it has freed.                     *)
DestroyReturns == (mpc = "stop") ~> (mpc = "destroyed" \/ badProbe)

(* Every call of wait_all and of destroy returns, under the premises above. *)
PoolCallsReturn == WaitAllReturns /\ DestroyReturns

(* "task takes ownership": nobody else frees a task that was submitted. *)
FreedOnce == \A t \in Tasks : frees[t] <= 1
=============================================================================
