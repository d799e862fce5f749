------------------------------- MODULE EventLoop -------------------------------
(***************************************************************************)
(* One runtime's event loop: the microtask queue of the engine             *)
(* (src/src/engine/lr_engine.c), the timers (src/src/lr_timers.c) and the  *)
(* loops of src/src/lr_runtime.c that serve them and the messages of the   *)
(* workers.                                                                *)
(*                                                                         *)
(* JavaScript runs whenever the stack is not empty: the script, a          *)
(* microtask, a timer callback or a message handler may then enqueue       *)
(* microtasks, set and clear timers, start the worker and, in an await,    *)
(* run queued microtasks before it returns.  Everything else is C code,    *)
(* one action per step of the loop.  A timer's next_fire is kept as the    *)
(* number of clock ticks that are left, 0 when it is due.                  *)
(***************************************************************************)
EXTENDS Integers, Sequences

CONSTANTS
  MaxJobs,     \* bound: microtasks enqueued in a behaviour
  MaxTimers,   \* bound: timers set in a behaviour
  MaxMade,     \* bound: microtasks and timers together
  MaxDelay,    \* bound: delay_ms, in clock ticks
  MaxDepth,    \* bound: nested calls
  MaxMail,     \* bound: messages that one poll finds
  JobCap       \* microtasks run after a script, at most (1000)

ASSUME LoopAssumption ==
  /\ MaxJobs \in Nat /\ MaxTimers \in Nat /\ MaxMade \in Nat /\ MaxDelay \in Nat
  /\ MaxDepth \in Nat \ {0} /\ MaxMail \in Nat /\ JobCap \in Nat

TimerIds == 1 .. MaxTimers
NoNode == 0

VARIABLES
  jobs, nextJob, lastRun,  \* rt->job_list; the ids of the next and the last job run
  timer_list, timer,       \* the list, newest first, and the nodes by id
  nextTimer,               \* next_timer_id
  fires, userCleared,      \* history: 1 when a timer has fired, 2 when a timeout has again;
                           \* the timers that the script has cleared
  pending,                 \* LR_Runtime.has_pending_jobs
  stop,                    \* event_loop_stop
  stack,                   \* the JavaScript calls in progress
  pc, variant,             \* where the C code is; which of the two loops runs
  drained, has_jobs, has_pending, node, due, alive, mail,  \* its locals
  exit, called             \* why the loop ended; whether its last pass called JavaScript

jobVars   == <<jobs, nextJob, lastRun>>
timerVars == <<timer_list, timer, nextTimer, fires, userCleared>>
walkVars  == <<has_pending, node, due>>
loopVars  == <<pc, variant, drained, has_jobs, alive, mail, exit, called>>
vars == <<jobVars, timerVars, walkVars, loopVars, pending, stop, stack>>

InLoop == pc \notin {"host", "drain", "exited", "freed"}
Active(id) == /\ \E i \in DOMAIN timer_list : timer_list[i] = id
              /\ ~timer[id].cleared

Init ==
  /\ jobs = <<>> /\ nextJob = 1 /\ lastRun = 0
  /\ timer_list = <<>> /\ nextTimer = 1
  /\ timer = [id \in TimerIds |-> [interval |-> FALSE, delay |-> 0, left |-> 0, cleared |-> FALSE]]
  /\ fires = [id \in TimerIds |-> 0] /\ userCleared = {}
  /\ pending = FALSE /\ stop = FALSE /\ stack = <<>>
  /\ pc = "host" /\ variant = "run"
  /\ drained = 0 /\ has_jobs = FALSE /\ has_pending = FALSE
  /\ node = NoNode /\ due = {} /\ alive = FALSE
  /\ mail = 0 /\ exit = "none" /\ called = FALSE

-----------------------------------------------------------------------------
(* JavaScript *)

InJS == stack # <<>>
Made == nextJob + nextTimer - 2
Enter(kind) == stack' = Append(stack, kind)

(* lr_execute_pending_job: the first job leaves the list, then it is       *)
(* called.  What it returns or throws is dropped: the function always      *)
(* returns 0, so the error branches of the loops are never taken.          *)
StartJob ==
  /\ jobs # <<>>
  /\ lastRun' = Head(jobs) /\ jobs' = Tail(jobs)
  /\ Enter("job")
  /\ UNCHANGED nextJob

(* lr_enqueue_job, from queueMicrotask or a promise reaction *)
EnqueueJob ==
  /\ InJS /\ nextJob <= MaxJobs /\ Made < MaxMade
  /\ jobs' = Append(jobs, nextJob)
  /\ nextJob' = nextJob + 1
  /\ UNCHANGED <<lastRun, timerVars, walkVars, loopVars, pending, stop, stack>>

(* setTimeout and setInterval; only an interval needs its delay again. *)
SetTimer(interval, d) ==
  /\ InJS /\ nextTimer <= MaxTimers /\ Made < MaxMade
  /\ timer' = [timer EXCEPT ![nextTimer] =
                 [interval |-> interval, delay |-> IF interval THEN d ELSE 0, left |-> d,
                  cleared |-> FALSE]]
  /\ timer_list' = <<nextTimer>> \o timer_list
  /\ nextTimer' = nextTimer + 1
  /\ pending' = TRUE
  /\ UNCHANGED <<jobVars, fires, userCleared, walkVars, loopVars, stop, stack>>

(* clearTimeout and clearInterval: the node is only marked. *)
ClearTimer(id) ==
  /\ InJS /\ \E i \in DOMAIN timer_list : timer_list[i] = id
  /\ timer' = [timer EXCEPT ![id].cleared = TRUE]
  /\ userCleared' = userCleared \cup {id}
  /\ UNCHANGED <<jobVars, timer_list, nextTimer, fires, walkVars, loopVars,
                 pending, stop, stack>>

(* An await of a pending promise runs queued jobs inside the current call. *)
AwaitJob ==
  /\ InJS /\ Len(stack) < MaxDepth
  /\ StartJob
  /\ UNCHANGED <<timerVars, walkVars, loopVars, pending, stop>>

Return ==
  /\ InJS
  /\ stack' = SubSeq(stack, 1, Len(stack) - 1)
  /\ UNCHANGED <<jobVars, timerVars, walkVars, loopVars, pending, stop>>

JavaScript ==
  \/ EnqueueJob \/ AwaitJob \/ Return
  \/ \E interval \in BOOLEAN, d \in 0..MaxDelay : SetTimer(interval, d)
  \/ \E id \in TimerIds : ClearTimer(id)

-----------------------------------------------------------------------------
(* The host: evaluates scripts, runs the loop, frees the runtime *)

At(label) == pc = label /\ ~InJS

HostEval ==
  /\ At("host")
  /\ Enter("script")
  /\ pc' = "drain" /\ drained' = 0
  /\ UNCHANGED <<jobVars, timerVars, walkVars, variant, has_jobs, alive, mail, exit, called,
                 pending, stop>>

(* After a script at most JobCap jobs are run; the rest stays queued. *)
Drain ==
  /\ At("drain")
  /\ \/ /\ drained < JobCap /\ StartJob
        /\ drained' = drained + 1 /\ UNCHANGED pc
     \/ /\ jobs = <<>> \/ drained = JobCap
        /\ pc' = "host" /\ drained' = 0 /\ UNCHANGED <<jobVars, stack>>
  /\ UNCHANGED <<timerVars, walkVars, variant, has_jobs, alive, mail, exit, called,
                 pending, stop>>

(* lr_event_loop_run, lr_event_loop_run_timeout *)
HostRun(v) ==
  /\ At("host")
  /\ variant' = v /\ pc' = "top"
  /\ UNCHANGED <<jobVars, timerVars, walkVars, drained, has_jobs, alive, mail, exit, called,
                 pending, stop, stack>>

(* The call has returned. *)
HostResume ==
  /\ At("exited")
  /\ pc' = "host" /\ exit' = "none" /\ variant' = "run"
  /\ has_jobs' = FALSE /\ alive' = FALSE /\ called' = FALSE
  /\ UNCHANGED <<jobVars, timerVars, walkVars, drained, mail,
                 pending, stop, stack>>

(* lr_runtime_free: lr_timers_cleanup empties the list. *)
HostFree ==
  /\ At("host")
  /\ timer_list' = <<>> /\ pc' = "freed"
  /\ UNCHANGED <<jobVars, timer, nextTimer, fires, userCleared, walkVars, variant, drained,
                 has_jobs, alive, mail, exit, called, pending, stop, stack>>

(* lr_event_loop_stop, from the SIGINT handler or another thread *)
Stop ==
  /\ pc # "freed"
  /\ stop' = TRUE
  /\ UNCHANGED <<jobVars, timerVars, walkVars, loopVars, pending, stack>>

-----------------------------------------------------------------------------
(* The loop *)

Leave(why) == pc' = "exited" /\ exit' = why /\ stop' = FALSE

(* Mutant: event_loop_stop is not looked at. *)
LoopTop_noStop ==
  /\ At("top")
  /\ IF FALSE THEN Leave("stop") /\ UNCHANGED <<has_jobs, alive, called>>
             ELSE /\ pc' = "jobs" /\ has_jobs' = FALSE /\ alive' = FALSE /\ called' = FALSE
                  /\ UNCHANGED <<exit, stop>>
  /\ UNCHANGED <<jobVars, timerVars, walkVars, variant, drained, mail,
                 pending, stack>>

(* while (event_loop_running && !event_loop_stop); event_loop_running      *)
(* stays set.                                                              *)
LoopTop ==
  /\ At("top")
  /\ IF stop THEN Leave("stop") /\ UNCHANGED <<has_jobs, alive, called>>
             ELSE /\ pc' = "jobs" /\ has_jobs' = FALSE /\ alive' = FALSE /\ called' = FALSE
                  /\ UNCHANGED <<exit, stop>>
  /\ UNCHANGED <<jobVars, timerVars, walkVars, variant, drained, mail,
                 pending, stack>>

(* JS_IsJobPending and lr_is_job_pending test the same list: the second of *)
(* the two loops finds it empty.                                           *)
LoopJob ==
  /\ At("jobs")
  /\ StartJob /\ has_jobs' = TRUE
  /\ UNCHANGED <<timerVars, walkVars, pc, variant, drained, alive, mail, exit, called,
                 pending, stop>>

Pos(id) == CHOOSE i \in DOMAIN timer_list : timer_list[i] = id

(* The node after id in the list *)
After(id) == IF Pos(id) = Len(timer_list) THEN NoNode ELSE timer_list[Pos(id) + 1]

First == IF timer_list = <<>> THEN NoNode ELSE Head(timer_list)

(* lr_timers_process reads the clock once, before it walks the list. *)
LoopJobsDone ==
  /\ At("jobs") /\ jobs = <<>>
  /\ pc' = "walk"
  /\ due' = {id \in TimerIds : Active(id) /\ timer[id].left = 0}
  /\ has_pending' = FALSE /\ node' = First
  /\ UNCHANGED <<jobVars, timerVars, variant, drained, has_jobs, alive, mail, exit, called,
                 pending, stop, stack>>

(* A cleared node is unlinked and freed. *)
WalkCleared ==
  /\ At("walk") /\ node # NoNode /\ timer[node].cleared
  /\ timer_list' = SubSeq(timer_list, 1, Pos(node) - 1)
                    \o SubSeq(timer_list, Pos(node) + 1, Len(timer_list))
  /\ node' = After(node)
  /\ UNCHANGED <<jobVars, timer, nextTimer, fires, userCleared, has_pending, due,
                 loopVars, pending, stop, stack>>

(* Mutant: the flag that clearTimeout set is not looked at. *)
WalkFire_noTest ==
  /\ At("walk") /\ node # NoNode
  /\ node \in due
  /\ Enter("timer") /\ called' = TRUE /\ pc' = "fired"
  /\ fires' = [fires EXCEPT ![node] = IF timer[node].interval \/ @ = 0 THEN 1 ELSE 2]
  /\ UNCHANGED <<jobVars, timer_list, timer, nextTimer, userCleared, walkVars, variant,
                 drained, has_jobs, alive, mail, exit, pending, stop>>

(* now >= next_fire: call it. *)
WalkFire ==
  /\ At("walk") /\ node # NoNode /\ ~timer[node].cleared
  /\ node \in due
  /\ Enter("timer") /\ called' = TRUE /\ pc' = "fired"
  /\ fires' = [fires EXCEPT ![node] = IF timer[node].interval \/ @ = 0 THEN 1 ELSE 2]
  /\ UNCHANGED <<jobVars, timer_list, timer, nextTimer, userCleared, walkVars, variant,
                 drained, has_jobs, alive, mail, exit, pending, stop>>

(* Mutant: the walk ends after the first callback. *)
WalkFired_stopWalk ==
  /\ At("fired")
  /\ IF timer[node].interval
       THEN /\ \E left \in 0..timer[node].delay : timer' = [timer EXCEPT ![node].left = left]
            /\ has_pending' = TRUE
       ELSE /\ timer' = [timer EXCEPT ![node].cleared = TRUE]
            /\ has_pending' = FALSE
  /\ node' = NoNode /\ pc' = "walk"
  /\ UNCHANGED <<jobVars, timer_list, nextTimer, fires, userCleared, due, variant,
                 drained, has_jobs, alive, mail, exit, called, pending, stop, stack>>

(* Mutant: a timeout that has fired is not marked. *)
WalkFired_keep ==
  /\ At("fired")
  /\ IF timer[node].interval
       THEN /\ \E left \in 0..timer[node].delay : timer' = [timer EXCEPT ![node].left = left]
            /\ has_pending' = TRUE
       ELSE has_pending' = FALSE /\ UNCHANGED timer
  /\ node' = After(node) /\ pc' = "walk"
  /\ UNCHANGED <<jobVars, timer_list, nextTimer, fires, userCleared, due, variant,
                 drained, has_jobs, alive, mail, exit, called, pending, stop, stack>>

(* Back from the callback: an interval is due again delay_ms after the     *)
(* time at which the walk began (part of the delay may have passed         *)
(* since), a timeout is marked for removal, and has_pending is overwritten *)
(* either way.                                                             *)
WalkFired ==
  /\ At("fired")
  /\ IF timer[node].interval
       THEN /\ \E left \in 0..timer[node].delay : timer' = [timer EXCEPT ![node].left = left]
            /\ has_pending' = TRUE
       ELSE /\ timer' = [timer EXCEPT ![node].cleared = TRUE]
            /\ has_pending' = FALSE
  /\ node' = After(node) /\ pc' = "walk"
  /\ UNCHANGED <<jobVars, timer_list, nextTimer, fires, userCleared, due, variant,
                 drained, has_jobs, alive, mail, exit, called, pending, stop, stack>>

(* Mutant: a timer that is not due does not count as pending. *)
WalkWait_noFlag ==
  /\ At("walk") /\ node # NoNode /\ ~timer[node].cleared /\ node \notin due
  /\ node' = After(node)
  /\ UNCHANGED <<jobVars, timerVars, has_pending, due, loopVars, pending, stop, stack>>

WalkWait ==
  /\ At("walk") /\ node # NoNode /\ ~timer[node].cleared /\ node \notin due
  /\ has_pending' = TRUE /\ node' = After(node)
  /\ UNCHANGED <<jobVars, timerVars, due, loopVars, pending, stop, stack>>

WalkEnd ==
  /\ At("walk") /\ node = NoNode
  /\ pending' = has_pending /\ pc' = "poll"
  /\ has_pending' = FALSE /\ due' = {}
  /\ UNCHANGED <<jobVars, timerVars, node, variant, drained, has_jobs, alive, mail,
                 exit, called, stop, stack>>

(* lr_worker_poll counts the live workers, then reads their messages; both *)
(* are whatever the workers' threads have left there (see WebWorker).      *)
PollAlive ==
  /\ At("poll")
  /\ alive' \in BOOLEAN /\ mail' \in 0..MaxMail /\ pc' = "mail"
  /\ UNCHANGED <<jobVars, timerVars, walkVars, variant, drained, has_jobs, exit, called,
                 pending, stop, stack>>

(* A message is handed to onmessage or onerror, if that is a function. *)
PollMail ==
  /\ At("mail") /\ mail > 0
  /\ mail' = mail - 1
  /\ \/ Enter("message") /\ called' = TRUE
     \/ UNCHANGED <<stack, called>>
  /\ UNCHANGED <<jobVars, timerVars, walkVars, pc, variant, drained, has_jobs, alive, exit,
                 pending, stop>>

PollEnd ==
  /\ At("mail") /\ mail = 0
  /\ pc' = "decide"
  /\ UNCHANGED <<jobVars, timerVars, walkVars, variant, drained, has_jobs, alive, mail, exit,
                 called, pending, stop, stack>>

NothingLeft == jobs = <<>> /\ ~pending /\ ~alive

Again == pc' = "top" /\ UNCHANGED <<exit, stop>>

(* The end of a pass of lr_event_loop_run: it leaves when this pass ran no *)
(* job and no timer or worker is left, or when there is nothing left.      *)
DecideRun ==
  /\ At("decide") /\ variant = "run"
  /\ IF (~has_jobs /\ ~pending /\ ~alive) \/ NothingLeft THEN Leave("idle") ELSE Again
  /\ UNCHANGED <<jobVars, timerVars, walkVars, variant, drained, has_jobs, alive, mail, called,
                 pending, stack>>

(* The end of a pass of lr_event_loop_run_timeout: the time may be over. *)
DecideTimeout ==
  /\ At("decide") /\ variant = "timeout"
  /\ \/ Leave("timeout")
     \/ IF NothingLeft THEN Leave("idle") ELSE Again
  /\ UNCHANGED <<jobVars, timerVars, walkVars, variant, drained, has_jobs, alive, mail, called,
                 pending, stack>>

LoopStep ==
  \/ Drain \/ LoopTop \/ LoopJob \/ LoopJobsDone
  \/ WalkCleared \/ WalkFire \/ WalkFired \/ WalkWait \/ WalkEnd
  \/ PollAlive \/ PollMail \/ PollEnd \/ DecideRun \/ DecideTimeout

-----------------------------------------------------------------------------
(* The rest of the world *)

(* clock() advances. *)
Tick ==
  /\ timer' = [id \in TimerIds |-> [timer[id] EXCEPT !.left = IF @ > 0 THEN @ - 1 ELSE 0]]
  /\ UNCHANGED <<jobVars, timer_list, nextTimer, fires, userCleared, has_pending, node, due,
                 loopVars, pending, stop, stack>>

-----------------------------------------------------------------------------
Next ==
  \/ JavaScript \/ LoopStep
  \/ HostEval \/ (\E v \in {"run", "timeout"} : HostRun(v)) \/ HostResume \/ HostFree
  \/ Stop \/ Tick

(* Every JavaScript call returns, the C code goes on, CPU time passes. *)
Fairness == WF_vars(Return) /\ WF_vars(LoopStep) /\ WF_vars(Tick)

Spec == Init /\ [][Next]_vars
FairSpec == Spec /\ Fairness
-----------------------------------------------------------------------------
TimerNode == [interval : BOOLEAN, delay : 0..MaxDelay, left : 0..MaxDelay, cleared : BOOLEAN]

(* The walk's cursor is always NULL or a node that is still linked: no     *)
(* callback frees the node that is being visited.                          *)
TypeOK ==
  /\ jobs \in Seq(1..MaxJobs) /\ nextJob \in 1..MaxJobs + 1 /\ lastRun \in 0..MaxJobs
  /\ timer_list \in Seq(TimerIds) /\ timer \in [TimerIds -> TimerNode]
  /\ nextTimer \in 1..MaxTimers + 1 /\ fires \in [TimerIds -> 0..2]
  /\ userCleared \subseteq TimerIds
  /\ pending \in BOOLEAN /\ stop \in BOOLEAN
  /\ stack \in Seq({"script", "job", "timer", "message"}) /\ Len(stack) <= MaxDepth
  /\ pc \in {"host", "drain", "top", "jobs", "walk", "fired", "poll", "mail", "decide",
             "exited", "freed"}
  /\ variant \in {"run", "timeout"} /\ drained \in 0..JobCap
  /\ has_jobs \in BOOLEAN /\ has_pending \in BOOLEAN /\ alive \in BOOLEAN
  /\ due \subseteq TimerIds
  /\ node = NoNode \/ \E i \in DOMAIN timer_list : timer_list[i] = node
  /\ mail \in 0..MaxMail
  /\ exit \in {"none", "stop", "idle", "timeout"} /\ called \in BOOLEAN

(* Microtasks run exactly once, in the order in which they were enqueued,  *)
(* whether the drain after a script, the event loop or a nested await runs *)
(* them, and none is dropped when the drain reaches its cap.               *)
JobsInOrder == jobs = [i \in 1 .. nextJob - 1 - lastRun |-> lastRun + i]

(* A timer leaves the list only when it has fired or was cleared by the    *)
(* script, although callbacks push new nodes in front of the one that is   *)
(* being visited and nodes are unlinked during the walk.  A timeout fires  *)
(* at most once.                                                           *)
TimersKept ==
  /\ pc # "freed" =>
       \A id \in 1 .. nextTimer - 1 :
         \/ \E i \in DOMAIN timer_list : timer_list[i] = id
         \/ fires[id] > 0 \/ id \in userCleared
  /\ \A id \in TimerIds : ~timer[id].interval => fires[id] <= 1

(* Neither queue loses, repeats or reorders work: microtasks and timers    *)
(* are kept until they have run, and the walk holds no freed node.         *)
WorkKept == TypeOK /\ JobsInOrder /\ TimersKept

(* The loop ends by itself only when a job, a timer or a worker is not     *)
(* left behind, unless its last pass called a timer or message callback:   *)
(* only what such a callback adds or hides can be lost.                    *)
IdleExitSound ==
  pc = "exited" /\ exit = "idle" /\ ~called =>
    jobs = <<>> /\ (\A id \in TimerIds : ~Active(id)) /\ ~alive

(* No timer fires after the script has cleared it, not even when the clear *)
(* comes from another callback of the same pass.                           *)
ClearedNeverFires == [][pc # "fired" /\ pc' = "fired" => node \notin userCleared]_vars

(* While the loop runs, a timer that is not cleared fires. *)
TimersFire ==
  \A id \in TimerIds :
    (Active(id) /\ InLoop) ~> (fires[id] > 0 \/ timer[id].cleared \/ ~InLoop)

(* A call of the loop ends once it is asked to stop, and by itself when no *)
(* interval and no worker keeps it alive.                                  *)
LoopEnds ==
  /\ (stop /\ InLoop) ~> (pc = "exited")
  /\ <>[](~alive /\ \A id \in TimerIds : Active(id) => ~timer[id].interval)
     => ((pc = "top") ~> (pc = "exited"))

(* "Run the event loop until no pending tasks": when lr_event_loop_run     *)
(* ends by itself, no microtask and no timer is waiting.                   *)
RunsUntilNoPending ==
  pc = "exited" /\ exit = "idle" => jobs = <<>> /\ \A id \in TimerIds : ~Active(id)
=============================================================================
