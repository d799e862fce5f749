------------------------------- MODULE WebWorker -------------------------------
(***************************************************************************)
(* The Worker API of src/src/lr_worker.c: a parent thread that creates     *)
(* workers, posts messages to them, terminates them and polls their        *)
(* answers from its event loop, and the worker threads.                    *)
(*                                                                         *)
(* A message is its number: the n-th that was accepted by a worker's in    *)
(* queue, or posted by it.  What structured cloning does to the value is   *)
(* not modelled.                                                           *)
(***************************************************************************)
EXTENDS Integers, Sequences, Functions

CONSTANTS
  MaxWorkers,   \* bound: calls of new Worker
  InCap,        \* in_capacity (64)
  OutCap,       \* out_capacity (64)
  MatchCap,     \* length of matches in lr_worker_poll (64)
  MaxMsgs       \* bound: messages posted in both directions together

ASSUME WorkerAssumption ==
  /\ InCap \in Nat \ {0} /\ OutCap \in Nat \ {0} /\ MatchCap \in Nat \ {0}
  /\ MaxMsgs \in Nat /\ MaxWorkers \in Nat

Workers == 1 .. MaxWorkers   \* by id
None == 0

VARIABLES
  registry,               \* g_worker_registry, newest first
  next_id,                \* g_worker_next_id
  running, should_stop,   \* the fields of LR_WorkerData
  inq, outq,              \* its two queues
  tpc,                    \* where its thread is
  accepted, taken,        \* messages accepted by inq, and taken out by the thread
  posted, dropped, got,   \* messages the worker posted, those dropped, those delivered
  terminated,             \* the workers on which terminate was called
  ppc, back,              \* where the parent is, and where its call returns to
  target,                 \* the worker of the postMessage in progress
  matches, alive          \* locals of lr_worker_poll

flagVars   == <<running, should_stop>>
queueVars  == <<inq, outq>>
histVars   == <<accepted, taken, posted, dropped, got, terminated>>
parentVars == <<ppc, back, target, matches, alive>>
regVars    == <<registry, next_id>>
vars == <<regVars, flagVars, queueVars, tpc, histVars, parentVars>>

Init ==
  /\ registry = <<>> /\ next_id = 1
  /\ running = [w \in Workers |-> FALSE] /\ should_stop = [w \in Workers |-> FALSE]
  /\ inq = [w \in Workers |-> <<>>] /\ outq = [w \in Workers |-> <<>>]
  /\ tpc = [w \in Workers |-> "none"]
  /\ accepted = [w \in Workers |-> 0] /\ taken = [w \in Workers |-> 0]
  /\ posted = [w \in Workers |-> 0] /\ dropped = [w \in Workers |-> 0]
  /\ got = [w \in Workers |-> <<>>]
  /\ terminated = {}
  /\ ppc = "js" /\ back = "js" /\ matches = <<>> /\ alive = FALSE
  /\ target = None

Messages == FoldFunction(+, 0, accepted) + FoldFunction(+, 0, posted)

Registered(w) == \E i \in DOMAIN registry : registry[i] = w

-----------------------------------------------------------------------------
(* The parent's JavaScript: the script or a timer callback at "js", an     *)
(* onmessage or onerror handler at "callback"                              *)

InJS == ppc \in {"js", "callback"}

(* new Worker(...): the worker is registered, then its thread is created;  *)
(* when that fails it is taken out again and an error is thrown.           *)
Construct(w) ==
  /\ InJS /\ w = next_id
  /\ \/ /\ registry' = <<w>> \o registry
        /\ running' = [running EXCEPT ![w] = TRUE]
        /\ tpc' = [tpc EXCEPT ![w] = "start"]
     \/ /\ tpc' = [tpc EXCEPT ![w] = "never"]
        /\ UNCHANGED <<registry, running>>
  /\ next_id' = next_id + 1
  /\ UNCHANGED <<should_stop, queueVars, histVars, parentVars>>

(* postMessage: the worker must be known and running, ... *)
Post(w) ==
  /\ InJS /\ Registered(w) /\ running[w] /\ Messages < MaxMsgs
  /\ ppc' = "post" /\ back' = ppc /\ target' = w
  /\ UNCHANGED <<regVars, flagVars, queueVars, tpc, histVars, matches, alive>>

(* ... the message is appended under in_mutex, or TypeError "queue full".  *)
PostEnqueue ==
  /\ ppc = "post"
  /\ IF Len(inq[target]) >= InCap
       THEN UNCHANGED <<inq, accepted>>
       ELSE /\ accepted' = [accepted EXCEPT ![target] = @ + 1]
            /\ inq' = [inq EXCEPT ![target] = Append(@, accepted[target] + 1)]
  /\ ppc' = back /\ back' = "js" /\ target' = None
  /\ UNCHANGED <<regVars, flagVars, outq, tpc, taken, posted, dropped, got, terminated,
                 matches, alive>>

Terminate(w) ==
  /\ InJS /\ Registered(w)
  /\ should_stop' = [should_stop EXCEPT ![w] = TRUE]
  /\ running' = [running EXCEPT ![w] = FALSE]
  /\ terminated' = terminated \cup {w}
  /\ UNCHANGED <<regVars, queueVars, tpc, accepted, taken, posted, dropped, got, parentVars>>

ParentJS ==
  \/ \E w \in Workers : Construct(w) \/ Post(w) \/ Terminate(w)
  \/ PostEnqueue

-----------------------------------------------------------------------------
(* lr_worker_poll, from the parent's event loop *)

FirstMatches == SubSeq(registry, 1, IF Len(registry) < MatchCap THEN Len(registry) ELSE MatchCap)

(* Mutant: workers that no longer run are not collected. *)
PollCollect_runningOnly ==
  /\ ppc = "js"
  /\ alive' = (\E w \in Workers : Registered(w) /\ running[w])
  /\ matches' = SelectSeq(FirstMatches, LAMBDA w : running[w])
  /\ ppc' = "drain"
  /\ UNCHANGED <<regVars, flagVars, queueVars, tpc, histVars, back, target>>

(* The live workers are counted and the first MatchCap of all of them      *)
(* collected, under g_worker_mutex.                                        *)
PollCollect ==
  /\ ppc = "js"
  /\ alive' = (\E w \in Workers : Registered(w) /\ running[w])
  /\ matches' = FirstMatches
  /\ ppc' = "drain"
  /\ UNCHANGED <<regVars, flagVars, queueVars, tpc, histVars, back, target>>

(* One message is taken under out_mutex and handed to onmessage or         *)
(* onerror, if that is a function.                                         *)
PollTake ==
  /\ ppc = "drain" /\ matches # <<>>
  /\ LET w == Head(matches) IN
       /\ outq[w] # <<>>
       /\ outq' = [outq EXCEPT ![w] = Tail(@)]
       /\ got' = [got EXCEPT ![w] = Append(@, Head(outq[w]))]
  /\ ppc' \in {"callback", "drain"}
  /\ UNCHANGED <<regVars, flagVars, inq, tpc, accepted, taken, posted, dropped, terminated,
                 back, target, matches, alive>>

CallbackReturn ==
  /\ ppc = "callback"
  /\ ppc' = "drain"
  /\ UNCHANGED <<regVars, flagVars, queueVars, tpc, histVars, back, target, matches, alive>>

PollNext ==
  /\ ppc = "drain" /\ matches # <<>>
  /\ outq[Head(matches)] = <<>>
  /\ matches' = Tail(matches)
  /\ UNCHANGED <<regVars, flagVars, queueVars, tpc, histVars, ppc, back, target, alive>>

(* The loop goes on; when no worker was alive it may end. *)
PollReturn ==
  /\ ppc = "drain" /\ matches = <<>>
  /\ ppc' \in IF alive THEN {"js"} ELSE {"js", "ended"}
  /\ alive' = FALSE
  /\ UNCHANGED <<regVars, flagVars, queueVars, tpc, histVars, back, target, matches>>

Poll == PollCollect \/ PollTake \/ CallbackReturn \/ PollNext \/ PollReturn

-----------------------------------------------------------------------------
(* lr_worker_thread_fn *)

TGoto(w, label) == tpc' = [tpc EXCEPT ![w] = label]

(* Mutant: the thread sets its own flags when it starts. *)
ThreadStart_setsFlags(w) ==
  /\ tpc[w] = "start"
  /\ running' = [running EXCEPT ![w] = TRUE]
  /\ should_stop' = [should_stop EXCEPT ![w] = FALSE]
  /\ TGoto(w, "eval")
  /\ UNCHANGED <<regVars, queueVars, histVars, parentVars>>

(* Without a runtime the thread ends at once. *)
ThreadStart(w) ==
  /\ tpc[w] = "start"
  /\ \/ TGoto(w, "eval") /\ UNCHANGED running
     \/ TGoto(w, "failed") /\ running' = [running EXCEPT ![w] = FALSE]
  /\ UNCHANGED <<regVars, should_stop, queueVars, histVars, parentVars>>

(* The worker appends a message under out_mutex, or drops it. *)
Send(w) ==
  /\ posted' = [posted EXCEPT ![w] = @ + 1]
  /\ IF Len(outq[w]) < OutCap
       THEN outq' = [outq EXCEPT ![w] = Append(@, posted[w] + 1)] /\ UNCHANGED dropped
       ELSE dropped' = [dropped EXCEPT ![w] = @ + 1] /\ UNCHANGED outq

(* postMessage in the script, in a handler or in a timer of the worker *)
ThreadPost(w) ==
  /\ tpc[w] \in {"eval", "handler", "interval"} /\ Messages < MaxMsgs
  /\ Send(w)
  /\ UNCHANGED <<regVars, flagVars, inq, tpc, accepted, taken, got, terminated, parentVars>>

(* Mutant: a script that fails ends the thread. *)
ThreadEvaluated_returns(w) ==
  /\ tpc[w] = "eval"
  /\ \/ TGoto(w, "loop") /\ UNCHANGED <<outq, posted, dropped>>
     \/ Messages < MaxMsgs /\ Send(w) /\ TGoto(w, "failed")
  /\ UNCHANGED <<regVars, flagVars, inq, accepted, taken, got, terminated, parentVars>>

(* The script has run; an error is sent as a message of its own kind.      *)
ThreadEvaluated(w) ==
  /\ tpc[w] = "eval"
  /\ \/ UNCHANGED <<outq, posted, dropped>>
     \/ Messages < MaxMsgs /\ Send(w)
  /\ TGoto(w, "loop")
  /\ UNCHANGED <<regVars, flagVars, inq, accepted, taken, got, terminated, parentVars>>

(* while (running && !should_stop) *)
ThreadLoop(w) ==
  /\ tpc[w] = "loop"
  /\ TGoto(w, IF running[w] /\ ~should_stop[w] THEN "take" ELSE "stop")
  /\ UNCHANGED <<regVars, flagVars, queueVars, histVars, parentVars>>

(* One message is taken under in_mutex and handed to onmessage. *)
ThreadTake(w) ==
  /\ tpc[w] = "take"
  /\ IF inq[w] = <<>>
       THEN TGoto(w, "loop") /\ UNCHANGED <<inq, taken>>
       ELSE /\ inq' = [inq EXCEPT ![w] = Tail(@)]
            /\ taken' = [taken EXCEPT ![w] = Head(inq[w])]
            /\ TGoto(w, "handler")
  /\ UNCHANGED <<regVars, flagVars, outq, accepted, posted, dropped, got, terminated, parentVars>>

(* The handler has ended, and then the event loop of the worker, unless an *)
(* interval keeps it going: lr_event_loop_run does not look at should_stop. *)
ThreadHandled(w) ==
  /\ tpc[w] = "handler"
  /\ TGoto(w, "loop") \/ TGoto(w, "interval")
  /\ UNCHANGED <<regVars, flagVars, queueVars, histVars, parentVars>>

(* The interval is cleared by its own callback, if ever. *)
ThreadCleared(w) ==
  /\ tpc[w] = "interval"
  /\ TGoto(w, "loop")
  /\ UNCHANGED <<regVars, flagVars, queueVars, histVars, parentVars>>

(* Mutant: what is still queued is not freed. *)
ThreadDrain_missing(w) ==
  /\ tpc[w] = "stop"
  /\ TGoto(w, "cleanup")
  /\ UNCHANGED <<regVars, flagVars, queueVars, histVars, parentVars>>

ThreadDrain(w) ==
  /\ tpc[w] = "stop"
  /\ inq' = [inq EXCEPT ![w] = <<>>]
  /\ TGoto(w, "cleanup")
  /\ UNCHANGED <<regVars, flagVars, outq, histVars, parentVars>>

(* lr_runtime_free, running = 0 *)
ThreadExit(w) ==
  /\ tpc[w] = "cleanup"
  /\ running' = [running EXCEPT ![w] = FALSE]
  /\ TGoto(w, "exit")
  /\ UNCHANGED <<regVars, should_stop, queueVars, histVars, parentVars>>

Thread(w) ==
  \/ ThreadStart(w) \/ ThreadEvaluated(w) \/ ThreadLoop(w) \/ ThreadTake(w)
  \/ ThreadHandled(w) \/ ThreadDrain(w) \/ ThreadExit(w)

-----------------------------------------------------------------------------
Next == ParentJS \/ Poll \/ (\E w \in Workers : Thread(w) \/ ThreadPost(w) \/ ThreadCleared(w))

(* The parent's loop goes on polling and its handlers return; the threads  *)
(* run, and their scripts and handlers end.                                *)
Fairness ==
  /\ WF_vars(Poll \/ PostEnqueue)
  /\ \A w \in Workers : WF_vars(Thread(w))

Spec == Init /\ [][Next]_vars
FairSpec == Spec /\ Fairness

-----------------------------------------------------------------------------
(* Until a worker stops, the messages it has taken and those in its queue  *)
(* are all that postMessage accepted, once each and in that order; from    *)
(* then on its queue stays empty: no message is accepted that nobody will  *)
(* handle or free.                                                         *)
InOrder ==
  \A w \in Workers :
    inq[w] = IF tpc[w] \in {"cleanup", "exit"}
               THEN <<>>
               ELSE [i \in 1 .. accepted[w] - taken[w] |-> taken[w] + i]

Increasing(s) == \A i \in 1 .. Len(s) - 1 : s[i] < s[i + 1]

(* A worker's messages reach the parent in the order in which they were    *)
(* posted, each at most once, and all that are neither delivered nor       *)
(* queued were dropped because the queue was full; it never holds more     *)
(* than its array.                                                         *)
OutOrder ==
  \A w \in Workers :
    /\ Len(outq[w]) <= OutCap
    /\ Increasing(got[w] \o outq[w])
    /\ posted[w] = Len(got[w]) + Len(outq[w]) + dropped[w]

(* Messages arrive once and in order, in both directions. *)
MessagesInOrder == InOrder /\ OutOrder

(* A message that was accepted is taken, unless the worker is terminated,  *)
(* never got a runtime or is in the loop of an interval; a script that     *)
(* failed changes nothing in that.                                         *)
AcceptedTaken ==
  \A w \in Workers :
    (inq[w] # <<>>) ~>
      (inq[w] = <<>> \/ w \in terminated \/ ~running[w] \/ tpc[w] = "interval")

(* terminate stops the thread, at whatever point it finds it except for    *)
(* the loop of an interval.                                                *)
TerminateStops ==
  \A w \in Workers : (w \in terminated) ~> (tpc[w] \in {"exit", "failed", "interval"})

(* What a worker posts is delivered, also after it was terminated, while   *)
(* the loop runs and the worker is among those that a poll looks at.       *)
PostedDelivered ==
  \A w \in Workers :
    (outq[w] # <<>>) ~>
      (outq[w] = <<>> \/ ppc = "ended" \/ w \notin {FirstMatches[i] : i \in DOMAIN FirstMatches})
=============================================================================
