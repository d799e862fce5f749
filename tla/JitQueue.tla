------------------------------ MODULE JitQueue ------------------------------
(***************************************************************************)
(* The background compilation queue of the JIT (src/engine/lr_jit_v2.c):   *)
(* a ring of tasks under g_queue_mutex, workers that take a pointer INTO   *)
(* the ring and use it after the unlock, submitters that wait for room on  *)
(* g_queue_cond, and a shutdown that stores the flag and broadcasts        *)
(* without the mutex.                                                      *)
(*                                                                         *)
(* A task is its number in the order of acceptance.  A submitter holds the *)
(* mutex over several steps (lock), the critical sections of the others    *)
(* are one step.  Waiting on the condition is membership of waitset; a     *)
(* worker's wait is timed, a submitter's is not.  task_status, the result  *)
(* and the counts of a task are written and never read by this code (the   *)
(* writes go to the slot, not to the submitter's task) and are left out.   *)
(***************************************************************************)
EXTENDS Integers, Sequences, FiniteSets

CONSTANTS Workers, Submitters,   \* threads
          Cap,                   \* g_compile_queue_capacity
          MaxSubmits,            \* bound: calls of lr_jit_submit_compile_task
          Nobody                 \* no thread

ASSUME JitAssumption ==
    /\ Cap \in Nat \ {0}
    /\ MaxSubmits \in Nat
    /\ Nobody \notin Workers \cup Submitters
    /\ Workers \cap Submitters = {}

VARIABLES
    slots,      \* g_compile_queue: the task at each index (0: none yet)
    head, tail, size,
    queueLive,  \* g_compile_queue # NULL
    running,    \* g_workers_running
    lock,       \* the submitter inside g_queue_mutex, or Nobody
    waitset,    \* threads waiting on g_queue_cond
    wpc,        \* where each worker is
    wslot,      \* the index its task pointer points to
    wkind,      \* the task whose is_hot_loop it has read
    wprog,      \* the task whose interp and prog it has read
    spc,        \* where each submitter is
    mpc,        \* the thread that initialises and shuts down
    cpc,        \* the thread in lr_jit_wait_for_compilations
    cmust,      \* history: what had been accepted when it called last
    calls,      \* history: number of submissions begun
    accepted,   \* history: number of tasks pushed
    taken,      \* history: the task each worker took last
    ntaken,     \* history: number of tasks taken
    finished    \* history: tasks whose compilation has ended

ring  == <<slots, head, tail, size>>
wvars == <<wpc, wslot, wkind, wprog, taken, ntaken, finished>>
svars == <<spc, calls, accepted>>
mvars == <<mpc, queueLive, running>>
cvars == <<cpc, cmust>>
vars  == <<ring, wvars, svars, mvars, cvars, lock, waitset>>

-----------------------------------------------------------------------------
(* lr_jit_queue_pop and lr_jit_queue_push                                  *)

Pop ==
    /\ head' = (head + 1) % Cap
    /\ size' = size - 1
    /\ UNCHANGED <<slots, tail>>

(* Mutant: the tail wraps one place too early. *)
Push_short(t) ==
    /\ slots' = [slots EXCEPT ![tail] = t]
    /\ tail' = IF tail + 2 >= Cap THEN 0 ELSE tail + 1
    /\ size' = size + 1
    /\ UNCHANGED head

Push(t) ==
    /\ slots' = [slots EXCEPT ![tail] = t]
    /\ tail' = (tail + 1) % Cap
    /\ size' = size + 1
    /\ UNCHANGED head

(* pthread_cond_signal: any one of the waiting threads.                    *)
Signal ==
    \/ waitset = {} /\ waitset' = {}
    \/ \E x \in waitset : waitset' = waitset \ {x}

-----------------------------------------------------------------------------
(* lr_jit_worker_thread                                                    *)

WGoto(w, l) == wpc' = [wpc EXCEPT ![w] = l]

WTop(w) ==
    /\ wpc[w] = "top"
    /\ WGoto(w, IF running THEN "take" ELSE "exit")
    /\ UNCHANGED <<ring, wslot, wkind, wprog, taken, ntaken, finished, svars, mvars, cvars, lock, waitset>>

WTake(w) ==
    /\ wpc[w] = "take" /\ lock = Nobody /\ size > 0
    /\ Pop
    /\ wslot' = [wslot EXCEPT ![w] = head]
    /\ taken' = [taken EXCEPT ![w] = slots[head]]
    /\ ntaken' = ntaken + 1
    /\ WGoto(w, "kind")
    /\ UNCHANGED <<wkind, wprog, finished, svars, mvars, cvars, lock, waitset>>

WNothing(w) ==
    /\ wpc[w] = "take" /\ lock = Nobody /\ size = 0
    /\ WGoto(w, "sleep")
    /\ UNCHANGED <<ring, wslot, wkind, wprog, taken, ntaken, finished, svars, mvars, cvars, lock, waitset>>

(* From here on the slot is used without the mutex.                        *)
WReadKind(w) ==
    /\ wpc[w] = "kind"
    /\ wkind' = [wkind EXCEPT ![w] = slots[wslot[w]]]
    /\ WGoto(w, "read")
    /\ UNCHANGED <<ring, wslot, wprog, taken, ntaken, finished, svars, mvars, cvars, lock, waitset>>

(* Mutant: the program is read at the head of the ring. *)
WReadProg_head(w) ==
    /\ wpc[w] = "read"
    /\ wprog' = [wprog EXCEPT ![w] = slots[head]]
    /\ WGoto(w, "compile")
    /\ UNCHANGED <<ring, wslot, wkind, taken, ntaken, finished, svars, mvars, cvars, lock, waitset>>

WReadProg(w) ==
    /\ wpc[w] = "read"
    /\ wprog' = [wprog EXCEPT ![w] = slots[wslot[w]]]
    /\ WGoto(w, "compile")
    /\ UNCHANGED <<ring, wslot, wkind, taken, ntaken, finished, svars, mvars, cvars, lock, waitset>>

(* The compiler returns, with an entry or with NULL; the locals of the     *)
(* loop body end.                                                          *)
WDone(w) ==
    /\ wpc[w] = "compile"
    /\ finished' = finished \cup {wprog[w]}
    /\ wslot' = [wslot EXCEPT ![w] = 0] /\ wkind' = [wkind EXCEPT ![w] = 0]
    /\ wprog' = [wprog EXCEPT ![w] = 0] /\ taken' = [taken EXCEPT ![w] = 0]
    /\ WGoto(w, "top")
    /\ UNCHANGED <<ring, ntaken, svars, mvars, cvars, lock, waitset>>

WSleep(w) ==
    /\ wpc[w] = "sleep" /\ lock = Nobody
    /\ waitset' = waitset \cup {w}
    /\ WGoto(w, "waiting")
    /\ UNCHANGED <<ring, wslot, wkind, wprog, taken, ntaken, finished, svars, mvars, cvars, lock>>

(* Mutant: the wait is not timed. *)
WWake_untimed(w) ==
    /\ wpc[w] = "waiting" /\ lock = Nobody /\ w \notin waitset
    /\ WGoto(w, "top")
    /\ UNCHANGED <<ring, wslot, wkind, wprog, taken, ntaken, finished, svars, mvars, cvars, lock, waitset>>

(* Signalled, or the 10 ms are over; the mutex must be had again.          *)
WWake(w) ==
    /\ wpc[w] = "waiting" /\ lock = Nobody
    /\ waitset' = waitset \ {w}
    /\ WGoto(w, "top")
    /\ UNCHANGED <<ring, wslot, wkind, wprog, taken, ntaken, finished, svars, mvars, cvars, lock>>

-----------------------------------------------------------------------------
(* lr_jit_submit_compile_task                                              *)

SGoto(s, l) == spc' = [spc EXCEPT ![s] = l]

SBegin(s) ==
    /\ spc[s] = "idle" /\ calls < MaxSubmits
    /\ calls' = calls + 1
    /\ SGoto(s, IF running /\ queueLive THEN "lock" ELSE "idle")
    /\ UNCHANGED <<ring, wvars, mvars, cvars, lock, waitset, accepted>>

SLock(s) ==
    /\ spc[s] = "lock" /\ lock = Nobody
    /\ lock' = s
    /\ SGoto(s, "test")
    /\ UNCHANGED <<ring, wvars, mvars, cvars, waitset, calls, accepted>>

SFull(s) ==
    /\ spc[s] = "test" /\ size >= Cap /\ running
    /\ SGoto(s, "towait")
    /\ UNCHANGED <<ring, wvars, mvars, cvars, lock, waitset, calls, accepted>>

SSleep(s) ==
    /\ spc[s] = "towait"
    /\ waitset' = waitset \cup {s}
    /\ lock' = Nobody
    /\ SGoto(s, "waiting")
    /\ UNCHANGED <<ring, wvars, mvars, cvars, calls, accepted>>

SWake(s) ==
    /\ spc[s] = "waiting" /\ s \notin waitset /\ lock = Nobody
    /\ lock' = s
    /\ SGoto(s, "test")
    /\ UNCHANGED <<ring, wvars, mvars, cvars, waitset, calls, accepted>>

SRefused(s) ==
    /\ spc[s] = "test" /\ ~running
    /\ lock' = Nobody
    /\ SGoto(s, "idle")
    /\ UNCHANGED <<ring, wvars, mvars, cvars, waitset, calls, accepted>>

SRoom(s) ==
    /\ spc[s] = "test" /\ size < Cap /\ running
    /\ SGoto(s, "push")
    /\ UNCHANGED <<ring, wvars, mvars, cvars, lock, waitset, calls, accepted>>

SPush(s) ==
    /\ spc[s] = "push" /\ queueLive
    /\ Push(accepted + 1)
    /\ accepted' = accepted + 1
    /\ Signal
    /\ lock' = Nobody
    /\ SGoto(s, "idle")
    /\ UNCHANGED <<wvars, mvars, cvars, calls>>

(* The ring was freed after the test of g_workers_running.                 *)
SPushFreed(s) ==
    /\ spc[s] = "push" /\ ~queueLive
    /\ SGoto(s, "crashed")
    /\ UNCHANGED <<ring, wvars, mvars, cvars, lock, waitset, calls, accepted>>

-----------------------------------------------------------------------------
(* lr_jit_worker_init and lr_jit_worker_shutdown                           *)

(* The pool, the ring or the worker data cannot be allocated.              *)
InitFails ==
    /\ mpc = "new"
    /\ mpc' = "down"
    /\ UNCHANGED <<ring, wvars, svars, cvars, lock, waitset, queueLive, running>>

InitStart ==
    /\ mpc = "new"
    /\ running' = TRUE /\ queueLive' = TRUE /\ mpc' = "starting"
    /\ UNCHANGED <<ring, wvars, svars, cvars, lock, waitset>>

StartWorker(w) ==
    /\ mpc = "starting" /\ wpc[w] = "unborn"
    /\ WGoto(w, "top")
    /\ UNCHANGED <<ring, wslot, wkind, wprog, taken, ntaken, finished, svars, mvars, cvars, lock, waitset>>

(* pthread_create fails: the flag is lowered and the call returns.         *)
StartFails ==
    /\ mpc = "starting" /\ \E w \in Workers : wpc[w] = "unborn"
    /\ running' = FALSE /\ mpc' = "down"
    /\ UNCHANGED <<ring, wvars, svars, cvars, lock, waitset, queueLive>>

InitDone ==
    /\ mpc = "starting" /\ \A w \in Workers : wpc[w] # "unborn"
    /\ mpc' = "up"
    /\ UNCHANGED <<ring, wvars, svars, cvars, lock, waitset, queueLive, running>>

ShutdownStore ==
    /\ mpc = "up"
    /\ running' = FALSE /\ mpc' = "broadcast"
    /\ UNCHANGED <<ring, wvars, svars, cvars, lock, waitset, queueLive>>

ShutdownBroadcast ==
    /\ mpc = "broadcast"
    /\ waitset' = {}
    /\ mpc' = "join"
    /\ UNCHANGED <<ring, wvars, svars, cvars, lock, queueLive, running>>

ShutdownFree ==
    /\ mpc = "join" /\ \A w \in Workers : wpc[w] = "exit"
    /\ queueLive' = FALSE /\ mpc' = "down"
    /\ UNCHANGED <<ring, wvars, svars, cvars, lock, waitset, running>>

-----------------------------------------------------------------------------
(* lr_jit_wait_for_compilations                                            *)

WaitBegin ==
    /\ cpc = "idle" /\ running
    /\ cpc' = "poll" /\ cmust' = accepted
    /\ UNCHANGED <<ring, wvars, svars, mvars, lock, waitset>>

WaitPoll ==
    /\ cpc = "poll" /\ lock = Nobody /\ size = 0
    /\ cpc' = "returned"
    /\ UNCHANGED <<ring, wvars, svars, mvars, lock, waitset, cmust>>

-----------------------------------------------------------------------------
Init ==
    /\ slots = [i \in 0..Cap-1 |-> 0]
    /\ head = 0 /\ tail = 0 /\ size = 0
    /\ queueLive = FALSE /\ running = FALSE
    /\ lock = Nobody /\ waitset = {}
    /\ wpc = [w \in Workers |-> "unborn"]
    /\ wslot = [w \in Workers |-> 0]
    /\ wkind = [w \in Workers |-> 0]
    /\ wprog = [w \in Workers |-> 0]
    /\ taken = [w \in Workers |-> 0]
    /\ ntaken = 0 /\ finished = {}
    /\ spc = [s \in Submitters |-> "idle"]
    /\ calls = 0 /\ accepted = 0
    /\ mpc = "new" /\ cpc = "idle" /\ cmust = 0

WorkerStep(w) ==
    \/ WTop(w) \/ WTake(w) \/ WNothing(w) \/ WReadKind(w)
    \/ WReadProg(w) \/ WDone(w) \/ WSleep(w) \/ WWake(w)

(* A call of submit that has begun.                                        *)
SubmitStep(s) ==
    \/ SLock(s) \/ SFull(s) \/ SSleep(s) \/ SWake(s) \/ SRefused(s)
    \/ SRoom(s) \/ SPush(s) \/ SPushFreed(s)

StartStep == InitStart \/ (\E w \in Workers : StartWorker(w)) \/ InitDone

(* The rest of a shutdown that has begun.                                  *)
ShutdownStep == ShutdownBroadcast \/ ShutdownFree

Next ==
    \/ \E w \in Workers : WorkerStep(w)
    \/ \E s \in Submitters : SBegin(s) \/ SubmitStep(s)
    \/ StartStep \/ InitFails \/ StartFails \/ ShutdownStore \/ ShutdownStep
    \/ WaitBegin \/ WaitPoll

Spec == Init /\ [][Next]_vars

(* Every thread that can run goes on; nobody is bound to call submit, wait *)
(* or shutdown, and pthread_create need not fail.  A thread that wants the *)
(* mutex again and again finds it free again and again and gets it in the  *)
(* end (SF on the steps that take it).                                     *)
Fairness ==
    /\ \A w \in Workers : WF_vars(WorkerStep(w)) /\ SF_vars(WTake(w) \/ WNothing(w) \/ WSleep(w) \/ WWake(w))
    /\ \A s \in Submitters : WF_vars(SubmitStep(s)) /\ SF_vars(SLock(s) \/ SWake(s))
    /\ WF_vars(ShutdownStep) /\ WF_vars(StartStep)

FairSpec == Spec /\ Fairness

-----------------------------------------------------------------------------
(* Properties                                                              *)

Working == {"kind", "read", "compile"}

(* The ring holds exactly the tasks accepted and not yet taken, oldest at  *)
(* head, so each is taken once and in the order of acceptance, whatever    *)
(* workers write into slots they no longer own.  When                      *)
(* lr_jit_wait_for_compilations has returned, what had been accepted       *)
(* before has been taken.                                                  *)
RingExact ==
    /\ size = accepted - ntaken /\ size \in 0..Cap
    /\ tail = (head + size) % Cap
    /\ \A i \in 0..size-1 : slots[(head + i) % Cap] = ntaken + 1 + i
    /\ cpc = "returned" => ntaken >= cmust

(* pop hands out a pointer into the ring and the mutex is released.  A     *)
(* task that was taken is compiled, or still in a worker's hands, unless   *)
(* Cap later tasks were accepted meanwhile; and what a worker compiles is  *)
(* its task, or one that a push has put in the same slot since.            *)
LossNeedsWrap ==
    /\ \A t \in 1..ntaken :
          \/ t \in finished
          \/ \E w \in Workers : taken[w] = t /\ wpc[w] \in Working
          \/ accepted >= t + Cap
    /\ \A w \in Workers : wpc[w] = "compile" =>
          \A t \in {wkind[w], wprog[w]} :
             t \in taken[w]..accepted /\ (t - taken[w]) % Cap = 0

(* What submit accepted is taken by a worker, as long as nobody shuts the  *)
(* workers down: a signal that goes to the wrong thread, or comes before   *)
(* the wait, costs at most the 10 ms of the timed wait.                    *)
TaskTaken ==
    \A t \in 1..MaxSubmits : accepted >= t ~> (ntaken >= t \/ ~running)

(* A shutdown that has begun returns: every worker leaves its loop,        *)
(* although the flag and the broadcast are not under the mutex.            *)
ShutdownReturns == mpc = "broadcast" ~> mpc = "down"

(* "Wait for all submitted compilation tasks to complete": lr_jit.h:816.   *)
WaitMeansDone == cpc = "returned" => 1..cmust \subseteq finished

(* "Returns 0 on success, -1 on failure": lr_jit.h:813.  A submission ends,*)
(* even if nobody shuts the workers down.                                  *)
SubmitReturns == \A s \in Submitters : spc[s] = "lock" ~> (spc[s] = "idle" \/ ~running)
=============================================================================
