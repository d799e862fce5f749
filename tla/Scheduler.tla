------------------------------ MODULE Scheduler ------------------------------
(***************************************************************************)
(* The task scheduler (src/src/lr_scheduler.c): a list of tasks sorted by  *)
(* their next run, one thread in lr_scheduler_run or lr_scheduler_run_for, *)
(* and clients that schedule, cancel, stop and, in the end, destroy.       *)
(*                                                                         *)
(* A client's critical section is one step.  lr_scheduler_process removes  *)
(* and re-inserts nodes while it walks over the list; it is one step per   *)
(* node, with the mutex held and with the code's own pointers st and prev. *)
(* The pool is external: a task that is submitted is only counted.         *)
(***************************************************************************)
EXTENDS Integers, Sequences, FiniteSetsExt

CONSTANTS
  MaxTasks,     \* bound: tasks scheduled in a behaviour
  MaxClock,     \* bound: the last moment of the clock
  MaxInterval,  \* bound: interval_us
  MaxDelay,     \* bound: delay_us and timeout_us
  MaxRepeats    \* bound: repeat_count

ASSUME SchedulerAssumption ==
  MaxTasks \in Nat /\ MaxClock \in Nat /\ MaxInterval \in Nat \ {0}
  /\ MaxDelay \in Nat /\ MaxRepeats \in Nat

Ids == 1 .. MaxTasks
Null == 0
Forever == -1                        \* repeat_count of a task without end
Never == MaxClock + MaxInterval + MaxDelay + 1  \* the deadline of a wait without timeout

VARIABLES
  clock,            \* lr_get_time_us
  queue,            \* the list that starts at task_head
  task,             \* LR_SchedTask, by id
  next_task_id,
  fate,             \* history: whether a node was freed, and why
  mutex,            \* whether the walk holds sched->mutex
  running,
  pc, until,        \* where the loop is; when run_for is over, Never for run
  now, st, prev,    \* the locals of lr_scheduler_process
  deadline, signalled,  \* of the wait on sched_cond
  stopping          \* a lr_scheduler_stop between its store and its signal

listVars == <<queue, task, fate>>
walkVars == <<now, st, prev>>
loopVars == <<pc, until, deadline>>
vars == <<clock, listVars, next_task_id, mutex, running, loopVars, walkVars, signalled, stopping>>

Blank == [repeat |-> FALSE, interval |-> 0, at |-> 0, count |-> 0, runs |-> 0,
          cancelled |-> FALSE]

Init ==
  /\ clock = 0
  /\ queue = <<>> /\ task = [id \in Ids |-> Blank] /\ next_task_id = 1
  /\ fate = [id \in Ids |-> "open"]
  /\ mutex = FALSE /\ running = FALSE
  /\ pc = "idle" /\ until = Never /\ deadline = Never
  /\ now = 0 /\ st = Null /\ prev = Null
  /\ signalled = FALSE /\ stopping = FALSE

-----------------------------------------------------------------------------
(* The list *)

Listed(id) == \E i \in DOMAIN queue : queue[i] = id
Pos(id) == CHOOSE i \in DOMAIN queue : queue[i] = id
Following(id) == IF Pos(id) = Len(queue) THEN Null ELSE queue[Pos(id) + 1]

(* lr_scheduler_insert_task: before the head, or behind the longest run of *)
(* nodes after the head that are not later.                                *)
Insert(q, id, at) ==
  IF q = <<>> \/ at < task[Head(q)].at
    THEN <<id>> \o q
    ELSE LET k == Max({i \in DOMAIN q : \A j \in 2 .. i : task[q[j]].at <= at})
         IN SubSeq(q, 1, k) \o <<id>> \o SubSeq(q, k + 1, Len(q))

(* Mutant: the node behind the removed one goes with it. *)
Unlink_skips ==
  (IF prev = Null THEN <<>> ELSE SubSeq(queue, 1, Pos(prev)))
  \o SubSeq(queue, Pos(st) + 2, Len(queue))

(* prev->next = st->next, or task_head = st->next when there is no prev:   *)
(* what lies between prev and st leaves the list with st.                  *)
Unlink ==
  (IF prev = Null THEN <<>> ELSE SubSeq(queue, 1, Pos(prev)))
  \o SubSeq(queue, Pos(st) + 1, Len(queue))

-----------------------------------------------------------------------------
(* Clients *)

Destroyed == pc = "destroyed"

(* Mutant: the waiting loop is not told. *)
Add_silent(t) ==
  /\ ~mutex /\ ~Destroyed /\ next_task_id <= MaxTasks
  /\ task' = [task EXCEPT ![next_task_id] = t]
  /\ queue' = Insert(queue, next_task_id, t.at)
  /\ next_task_id' = next_task_id + 1
  /\ UNCHANGED <<clock, fate, mutex, running, loopVars, walkVars, signalled, stopping>>

(* The critical section of both schedule functions: insert, then signal *)
Add(t) ==
  /\ ~mutex /\ ~Destroyed /\ next_task_id <= MaxTasks
  /\ task' = [task EXCEPT ![next_task_id] = t]
  /\ queue' = Insert(queue, next_task_id, t.at)
  /\ next_task_id' = next_task_id + 1
  /\ signalled' = (signalled \/ pc = "waiting")
  /\ UNCHANGED <<clock, fate, mutex, running, loopVars, walkVars, stopping>>

(* lr_scheduler_schedule; a repeat_count of 0 makes a oneshot, whose       *)
(* interval is never looked at.                                            *)
Schedule(interval, count) ==
  Add([Blank EXCEPT !.repeat = (count # 0), !.interval = IF count # 0 THEN interval ELSE 0,
                    !.at = clock, !.count = count])

(* lr_scheduler_schedule_delayed, and lr_scheduler_schedule_now without delay *)
ScheduleDelayed(delay) == Add([Blank EXCEPT !.at = clock + delay])

(* lr_scheduler_cancel only marks the node, and only one that is listed. *)
Cancel(id) ==
  /\ ~mutex /\ Listed(id)
  /\ task' = [task EXCEPT ![id].cancelled = TRUE]
  /\ UNCHANGED <<clock, queue, fate, next_task_id, mutex, running, loopVars, walkVars,
                 signalled, stopping>>

(* lr_scheduler_stop: the store, then the signal under the mutex *)
StopStore ==
  /\ ~stopping /\ ~Destroyed
  /\ running' = FALSE /\ stopping' = TRUE
  /\ UNCHANGED <<clock, listVars, next_task_id, mutex, loopVars, walkVars, signalled>>

(* Mutant: no signal. *)
StopSignal_missing ==
  /\ stopping /\ ~mutex
  /\ stopping' = FALSE
  /\ UNCHANGED <<clock, listVars, next_task_id, mutex, running, loopVars, walkVars, signalled>>

StopSignal ==
  /\ stopping /\ ~mutex
  /\ signalled' = (signalled \/ pc = "waiting")
  /\ stopping' = FALSE
  /\ UNCHANGED <<clock, listVars, next_task_id, mutex, running, loopVars, walkVars>>

-----------------------------------------------------------------------------
(* lr_scheduler_process *)

At(label) == pc = label
Goto(label) == pc' = label

(* The time is read before the lock is taken. *)
ReadNow ==
  /\ At("process")
  /\ now' = clock
  /\ Goto("lock")
  /\ UNCHANGED <<clock, listVars, next_task_id, mutex, running, until, deadline, st, prev,
                 signalled, stopping>>

WalkBegin ==
  /\ At("lock") /\ ~mutex
  /\ mutex' = TRUE
  /\ st' = (IF queue = <<>> THEN Null ELSE Head(queue)) /\ prev' = Null
  /\ Goto("walk")
  /\ UNCHANGED <<clock, listVars, next_task_id, running, until, deadline, now, signalled,
                 stopping>>

Walking == At("walk") /\ st # Null
Due == ~task[st].cancelled /\ task[st].at <= now
Again == task[st].repeat /\ (task[st].count < 0 \/ task[st].runs + 1 < task[st].count)

Free(id, why) ==
  /\ queue' = Unlink
  /\ task' = [task EXCEPT ![id] = Blank]
  /\ fate' = [fate EXCEPT ![id] = why]

WalkCancelled ==
  /\ Walking /\ task[st].cancelled
  /\ Free(st, "cancelled")
  /\ st' = Following(st)
  /\ UNCHANGED <<clock, next_task_id, mutex, running, loopVars, now, prev, signalled,
                 stopping>>

(* A oneshot, or the last run of a repeating task: submitted and freed *)
WalkLast ==
  /\ Walking /\ Due /\ ~Again
  /\ Free(st, "done")
  /\ st' = Following(st)
  /\ UNCHANGED <<clock, next_task_id, mutex, running, loopVars, now, prev, signalled, stopping>>

(* A repeating task is submitted, taken out and inserted again.  The       *)
(* run_count of a task without end is never looked at.                     *)
WalkRepeat ==
  /\ Walking /\ Due /\ Again
  /\ task' = [task EXCEPT ![st].runs = IF task[st].count < 0 THEN 0 ELSE @ + 1,
                          ![st].at = now + task[st].interval]
  /\ queue' = Insert(Unlink, st, now + task[st].interval)
  /\ st' = Following(st)
  /\ UNCHANGED <<clock, fate, next_task_id, mutex, running, loopVars, now, prev, signalled,
                 stopping>>

WalkSkip ==
  /\ Walking /\ ~task[st].cancelled /\ ~Due
  /\ prev' = st /\ st' = Following(st)
  /\ UNCHANGED <<clock, listVars, next_task_id, mutex, running, loopVars, now, signalled,
                 stopping>>

WalkEnd ==
  /\ At("walk") /\ st = Null
  /\ mutex' = FALSE
  /\ now' = 0 /\ prev' = Null
  /\ Goto("processed")
  /\ UNCHANGED <<clock, listVars, next_task_id, running, until, deadline, st, signalled, stopping>>

-----------------------------------------------------------------------------
(* The loops *)

(* lr_scheduler_run and lr_scheduler_run_for both begin with running = 1,  *)
(* which also undoes a stop that came before.                              *)
Run(end) ==
  /\ At("idle")
  /\ running' = TRUE /\ until' = end
  /\ Goto("top")
  /\ UNCHANGED <<clock, listVars, next_task_id, mutex, deadline, walkVars, signalled, stopping>>

LoopTop ==
  /\ At("top")
  /\ IF running THEN Goto("process") /\ UNCHANGED until
                ELSE Goto("idle") /\ until' = Never
  /\ UNCHANGED <<clock, listVars, next_task_id, mutex, running, deadline, walkVars,
                 signalled, stopping>>

(* lr_scheduler_process, called by a client: one pass, like a run_for      *)
(* without time, that leaves running alone.                                *)
Process ==
  /\ At("idle")
  /\ until' = clock
  /\ Goto("process")
  /\ UNCHANGED <<clock, listVars, next_task_id, mutex, running, deadline, walkVars, signalled,
                 stopping>>

(* lr_scheduler_destroy takes no lock: no other call may be in progress.   *)
(* Every node is freed; the task of a cancelled one is not.                *)
Destroy ==
  /\ At("idle") /\ ~stopping
  /\ running' = FALSE
  /\ queue' = <<>> /\ task' = [id \in Ids |-> IF Listed(id) THEN Blank ELSE task[id]]
  /\ fate' = [id \in Ids |-> IF Listed(id) THEN "destroyed" ELSE fate[id]]
  /\ Goto("destroyed")
  /\ UNCHANGED <<clock, next_task_id, mutex, until, deadline, walkVars, signalled, stopping>>

(* run_for is over, running stays set; or the one pass of process is. *)
TimeOver ==
  /\ At("processed") /\ until # Never /\ clock >= until
  /\ Goto("idle") /\ until' = Never
  /\ UNCHANGED <<clock, listVars, next_task_id, mutex, running, deadline, walkVars, signalled,
                 stopping>>

(* run waits for a signal or for the first task of the list; run_for hands *)
(* the time left to pthread_cond_timedwait as if it were a date, which is  *)
(* long past, and goes on at once.                                         *)
Wait ==
  /\ At("processed") /\ (until # Never => clock < until) /\ ~mutex
  /\ LET wake == IF queue = <<>> THEN Never ELSE task[Head(queue)].at
         waits == until = Never /\ running /\ wake > clock
     IN /\ Goto(IF waits THEN "waiting" ELSE "top")
        /\ deadline' = IF waits THEN wake ELSE Never
        /\ signalled' = FALSE
  /\ UNCHANGED <<clock, listVars, next_task_id, mutex, running, until, walkVars, stopping>>

(* A signal, the timeout, or neither: a wait may end for no reason. *)
Resume ==
  /\ At("waiting") /\ ~mutex
  /\ Goto("top") /\ signalled' = FALSE /\ deadline' = Never
  /\ UNCHANGED <<clock, listVars, next_task_id, mutex, running, until, walkVars, stopping>>

Woken == (signalled \/ clock >= deadline) /\ Resume

Tick ==
  /\ clock < MaxClock
  /\ clock' = clock + 1
  /\ UNCHANGED <<listVars, next_task_id, mutex, running, loopVars, walkVars, signalled, stopping>>

Walk == WalkCancelled \/ WalkLast \/ WalkRepeat \/ WalkSkip \/ WalkEnd
LoopStep == ReadNow \/ WalkBegin \/ Walk \/ LoopTop \/ TimeOver \/ Wait \/ Woken

Next ==
  \/ LoopStep \/ Resume \/ Tick \/ StopStore \/ StopSignal
  \/ \E interval \in 0 .. MaxInterval, count \in Forever .. MaxRepeats : Schedule(interval, count)
  \/ \E delay \in 0 .. MaxDelay : ScheduleDelayed(delay)
  \/ \E id \in Ids : Cancel(id)
  \/ Process \/ Destroy \/ Run(Never) \/ \E timeout \in 0 .. MaxDelay : Run(clock + timeout)

Spec == Init /\ [][Next]_vars

(* The thread of the loop runs, time passes, and a stop that has stored    *)
(* its flag gets to its signal.                                            *)
Fairness == WF_vars(LoopStep) /\ WF_vars(Tick) /\ SF_vars(StopSignal)
FairSpec == Spec /\ Fairness

-----------------------------------------------------------------------------
(* Properties *)

Scheduled == 1 .. next_task_id - 1

(* A task that was scheduled is in the list, once, until it is cancelled   *)
(* or has had its last run.  Only a repeating task can be lost, and only   *)
(* after a cancelled one was removed.                                      *)
Lost == {id \in Scheduled : fate[id] = "open" /\ ~Listed(id)}
LossNeedsCancel ==
  /\ \A id \in Lost : task[id].repeat /\ \E c \in Ids : fate[c] = "cancelled"
  /\ \A i, j \in DOMAIN queue : queue[i] = queue[j] => i = j
  /\ \A i \in DOMAIN queue : fate[queue[i]] = "open"

(* The list is sorted, so that the wait for its head misses no other task. *)
EarliestFirst == \A i, j \in DOMAIN queue : i < j => task[queue[i]].at <= task[queue[j]].at

(* The list keeps its tasks, once each and in the order of their times,    *)
(* through every pass that removes and re-inserts them under its walk.     *)
ListKept == LossNeedsCancel /\ EarliestFirst

(* A task with interval 0 is due again as soon as it has run.  Two of them *)
(* without end follow each other for ever in one pass, which holds the     *)
(* mutex.                                                                  *)
Restless(id) == task[id].repeat /\ task[id].interval = 0
EndlessPass ==
  /\ pc = "walk"
  /\ \E i, j \in DOMAIN queue : i # j /\ \A id \in {queue[i], queue[j]} :
       Restless(id) /\ task[id].count = Forever

(* While a loop goes on, every task whose time has come is submitted or    *)
(* removed: again and again none is due, except for those that are due     *)
(* again at once.  The loop sleeps neither through a task that is          *)
(* scheduled while it waits nor past the head of the list, and a pass ends *)
(* unless two tasks with interval 0 keep it going.                         *)
Returned == pc \in {"idle", "destroyed"}
NoneDue == \A i \in DOMAIN queue : task[queue[i]].at > clock \/ Restless(queue[i])
DueSubmitted == []<>(Returned \/ (NoneDue /\ ~mutex) \/ EndlessPass)

(* A stop while the loop runs ends it, wherever it finds it but for such a *)
(* pass.                                                                   *)
StopReturns == (~running /\ ~Returned) ~> (Returned \/ EndlessPass)

(* lr_scheduler.h, "Schedule a task to run at a specific interval": a task *)
(* that still has runs to come is in the list.                             *)
NoTaskLost == Lost = {}
=============================================================================
