-------------------------- MODULE WebWorker_proofs --------------------------
(* Proofs about WebWorker, for every number of workers and messages and    *)
(* every capacity of the queues.                                           *)
EXTENDS WebWorker, SequenceTheorems, TLAPS

-----------------------------------------------------------------------------
(* Facts about the contents of the queues.                                 *)

(* n messages, numbered from t + 1 on. *)
Run(t, n) == [i \in 1 .. n |-> t + i]

(* A run of numbers is a sequence of its length. *)
LEMMA RunSeq ==
  ASSUME NEW t \in Nat, NEW n \in Nat
  PROVE  Run(t, n) \in Seq(Nat) /\ Len(Run(t, n)) = n
BY DEF Run

(* postMessage: the next number goes to the end of a run. *)
LEMMA RunAppend ==
  ASSUME NEW t \in Nat, NEW n \in Nat
  PROVE  Append(Run(t, n), t + n + 1) = Run(t, n + 1)
<1>1. Run(t, n) \in Seq(Nat) /\ Len(Run(t, n)) = n /\ t + n + 1 \in Nat
  BY RunSeq
<1>2. Run(t, n + 1) \in Seq(Nat) /\ Len(Run(t, n + 1)) = n + 1
  BY RunSeq
<1>3. /\ Append(Run(t, n), t + n + 1) \in Seq(Nat) /\ Len(Append(Run(t, n), t + n + 1)) = n + 1
      /\ \A i \in 1 .. n : Append(Run(t, n), t + n + 1)[i] = Run(t, n)[i]
      /\ Append(Run(t, n), t + n + 1)[n + 1] = t + n + 1
  BY <1>1, AppendProperties
<1>4. \A i \in 1 .. n + 1 : Append(Run(t, n), t + n + 1)[i] = Run(t, n + 1)[i]
  BY <1>3 DEF Run
<1>5. QED
  BY <1>2, <1>3, <1>4, SeqEqual

(* The thread takes the first number of a run. *)
LEMMA RunTail ==
  ASSUME NEW t \in Nat, NEW n \in Nat \ {0}
  PROVE  Head(Run(t, n)) = t + 1 /\ Tail(Run(t, n)) = Run(t + 1, n - 1)
<1>1. Run(t, n) \in Seq(Nat) /\ Len(Run(t, n)) = n
  BY RunSeq
<1>2. Run(t, n) # <<>>
  BY <1>1
<1>3. Run(t + 1, n - 1) \in Seq(Nat) /\ Len(Run(t + 1, n - 1)) = n - 1
  BY RunSeq
<1>4. Head(Run(t, n)) = t + 1
  BY <1>1 DEF Run
<1>5. /\ Tail(Run(t, n)) \in Seq(Nat) /\ Len(Tail(Run(t, n))) = n - 1
      /\ \A i \in 1 .. n - 1 : Tail(Run(t, n))[i] = Run(t, n)[i + 1]
  BY <1>1, <1>2, HeadTailProperties
<1>6. \A i \in 1 .. n - 1 : Tail(Run(t, n))[i] = Run(t + 1, n - 1)[i]
  BY <1>5 DEF Run
<1>7. QED
  BY <1>3, <1>4, <1>5, <1>6, SeqEqual

(* lr_worker_poll: what is taken from the queue is delivered next. *)
LEMMA HeadMoves ==
  ASSUME NEW g \in Seq(Nat), NEW q \in Seq(Nat), q # <<>>
  PROVE  Append(g, Head(q)) \o Tail(q) = g \o q
<1>1. Head(q) \in Nat /\ Tail(q) \in Seq(Nat) /\ Len(Tail(q)) = Len(q) - 1 /\ Len(q) \in Nat \ {0}
  BY HeadTailProperties, EmptySeq
<1>2. q = <<Head(q)>> \o Tail(q)
  OBVIOUS
<1>3. Append(g, Head(q)) = g \o <<Head(q)>> /\ <<Head(q)>> \in Seq(Nat)
  BY <1>1, AppendIsConcat
<1>4. (g \o <<Head(q)>>) \o Tail(q) = g \o (<<Head(q)>> \o Tail(q))
  BY <1>1, <1>3, ConcatAssociative, SMTT(30)
<1>5. QED
  BY <1>2, <1>3, <1>4

(* What a worker posts is delivered after all that was posted before. *)
LEMMA PostLast ==
  ASSUME NEW g \in Seq(Nat), NEW q \in Seq(Nat), NEW x \in Nat
  PROVE  g \o Append(q, x) = Append(g \o q, x)
<1>1. Append(q, x) = q \o <<x>> /\ <<x>> \in Seq(Nat) /\ g \o q \in Seq(Nat)
  BY AppendIsConcat, ConcatProperties
<1>2. Append(g \o q, x) = (g \o q) \o <<x>>
  BY <1>1, AppendIsConcat
<1>3. QED
  BY <1>1, <1>2, ConcatAssociative

-----------------------------------------------------------------------------
(* The inductive invariant.                                                *)

ThreadSteps == {"none", "never", "start", "eval", "failed", "loop", "take", "handler",
                "interval", "stop", "cleanup", "exit"}

TypeParent ==
  /\ registry \in Seq(Workers) /\ matches \in Seq(Workers) /\ next_id \in Nat
  /\ ppc \in {"js", "callback", "post", "drain", "ended"} /\ back \in {"js", "callback"}
  /\ target \in Workers \cup {None}

TypeThreads ==
  /\ running \in [Workers -> BOOLEAN] /\ should_stop \in [Workers -> BOOLEAN]
  /\ tpc \in [Workers -> ThreadSteps]

TypeQueues ==
  /\ inq \in [Workers -> Seq(Nat)] /\ outq \in [Workers -> Seq(Nat)]
  /\ got \in [Workers -> Seq(Nat)]
  /\ accepted \in [Workers -> Nat] /\ taken \in [Workers -> Nat]
  /\ posted \in [Workers -> Nat] /\ dropped \in [Workers -> Nat]

Ended == {"stop", "cleanup", "exit"}

(* Only workers that were constructed are registered; only they can be     *)
(* told to stop, and one that was told, or has left its loop, is not       *)
(* running.                                                                *)
FlagsKept ==
  /\ \A i \in DOMAIN registry : registry[i] < next_id
  /\ \A w \in Workers :
       /\ w >= next_id => tpc[w] = "none"
       /\ tpc[w] \in {"none", "never"} => ~should_stop[w]
       /\ \A i \in DOMAIN registry : registry[i] = w => tpc[w] \notin {"none", "never"}
       /\ should_stop[w] \/ tpc[w] \in Ended => ~running[w]

(* postMessage tests running before it takes in_mutex.  Its worker cannot  *)
(* leave its loop in between: only the parent itself stops one.            *)
TargetRuns ==
  ppc = "post" =>
    /\ target \in Workers
    /\ \/ tpc[target] = "failed"
       \/ running[target] /\ ~should_stop[target] /\ tpc[target] \notin Ended

InKept ==
  \A w \in Workers :
    /\ taken[w] <= accepted[w]
    /\ inq[w] = IF tpc[w] \in {"cleanup", "exit"} THEN <<>>
                ELSE Run(taken[w], accepted[w] - taken[w])

(* All that a worker has posted and that was not dropped, as it arrives. *)
Line(w) == got[w] \o outq[w]

OutKept ==
  \A w \in Workers :
    /\ Len(outq[w]) <= OutCap
    /\ Increasing(Line(w)) /\ \A i \in 1 .. Len(Line(w)) : Line(w)[i] <= posted[w]
    /\ posted[w] = Len(Line(w)) + dropped[w]

WorkerInv ==
  TypeParent /\ TypeThreads /\ TypeQueues /\ FlagsKept /\ TargetRuns /\ InKept /\ OutKept

(* Nothing is posted yet. *)
LEMMA WorkerStart == Init => WorkerInv
<1> SUFFICES ASSUME Init PROVE WorkerInv
  OBVIOUS
<1> USE DEF Init
<1>1. TypeParent /\ TypeThreads /\ TypeQueues
  <2>1. running \in [Workers -> BOOLEAN] /\ should_stop \in [Workers -> BOOLEAN]
    BY Zenon
  <2>2. QED
    BY <2>1 DEF TypeParent, TypeThreads, TypeQueues, ThreadSteps
<1>2. FlagsKept /\ TargetRuns
  BY DEF FlagsKept, TargetRuns, Ended, Workers
<1>3. InKept
  <2>1. Run(0, 0) = <<>>
    <3>1. Run(0, 0) \in Seq(Nat) /\ Len(Run(0, 0)) = 0
      BY RunSeq
    <3>2. QED
      BY <3>1
  <2>2. QED
    BY <2>1 DEF InKept
<1>4. OutKept
  <2>1. \A w \in Workers : Line(w) = <<>>
    BY DEF Line
  <2>2. QED
    BY <2>1, WorkerAssumption DEF OutKept, Increasing, WorkerAssumption
<1>5. QED
  BY <1>1, <1>2, <1>3, <1>4 DEF WorkerInv

(* A message of the worker goes behind all the others, or is dropped. *)
LEMMA SendKeeps ==
  ASSUME WorkerInv, NEW w \in Workers, Send(w) \/ UNCHANGED <<outq, posted, dropped>>,
         UNCHANGED <<inq, accepted, taken, got>>
  PROVE  TypeQueues' /\ OutKept'
<1> USE WorkerAssumption DEF WorkerAssumption
<1>0. TypeQueues /\ OutKept
  BY DEF WorkerInv
<1>1. CASE UNCHANGED <<outq, posted, dropped>>
  BY <1>0, <1>1 DEF TypeQueues, OutKept, Line
<1>2. CASE Send(w)
  <2>1. posted' = [posted EXCEPT ![w] = @ + 1]
    BY <1>2 DEF Send
  <2>2. /\ posted[w] \in Nat /\ posted[w] + 1 \in Nat /\ dropped[w] \in Nat
        /\ outq[w] \in Seq(Nat) /\ got[w] \in Seq(Nat) /\ Line(w) \in Seq(Nat)
        /\ posted'[w] = posted[w] + 1
    BY <1>0, <2>1, ConcatProperties DEF TypeQueues, Line
  <2>3. CASE Len(outq[w]) < OutCap /\ outq' = [outq EXCEPT ![w] = Append(@, posted[w] + 1)] /\ UNCHANGED dropped
    <3>1. TypeQueues'
      BY <1>0, <2>1, <2>2, <2>3 DEF TypeQueues
    <3>2. outq'[w] = Append(outq[w], posted[w] + 1)
      BY <1>0, <2>3 DEF TypeQueues
    <3>3. Line(w)' = Append(Line(w), posted[w] + 1)
      <4>1. got[w] \o Append(outq[w], posted[w] + 1) = Append(got[w] \o outq[w], posted[w] + 1)
        BY <2>2, PostLast, ZenonT(30)
      <4>2. got' = got
        OBVIOUS
      <4>3. QED
        BY <3>2, <4>1, <4>2, Zenon DEF Line
    <3>4. /\ Len(Line(w)') = Len(Line(w)) + 1 /\ Len(Line(w)) \in Nat
          /\ \A i \in 1 .. Len(Line(w)) : Line(w)'[i] = Line(w)[i]
          /\ Line(w)'[Len(Line(w)) + 1] = posted[w] + 1
      BY <2>2, <3>3, AppendProperties
    <3>5. /\ \A i \in 1 .. Len(Line(w)) : Line(w)[i] \in Nat /\ Line(w)[i] <= posted[w]
          /\ Increasing(Line(w))
      <4>1. \A i \in 1 .. Len(Line(w)) : Line(w)[i] <= posted[w]
        BY <1>0 DEF OutKept
      <4>2. \A i \in 1 .. Len(Line(w)) : Line(w)[i] \in Nat
        BY <2>2, ElementOfSeq
      <4>3. Increasing(Line(w))
        BY <1>0 DEF OutKept
      <4>4. QED
        BY <4>1, <4>2, <4>3
    <3>6. \A i \in 1 .. Len(Line(w)') : Line(w)'[i] <= posted[w] + 1
      <4>1. SUFFICES ASSUME NEW i \in 1 .. Len(Line(w)) + 1 PROVE Line(w)'[i] <= posted[w] + 1
        BY <3>4
      <4>2. CASE i = Len(Line(w)) + 1
        BY <2>2, <3>4, <4>2
      <4>3. CASE i # Len(Line(w)) + 1
        <5>1. i \in 1 .. Len(Line(w))
          BY <3>4, <4>1, <4>3
        <5>2. Line(w)'[i] = Line(w)[i] /\ Line(w)[i] \in Nat /\ Line(w)[i] <= posted[w]
          BY <3>4, <3>5, <5>1
        <5>3. QED
          BY <2>2, <5>2
      <4>4. QED
        BY <4>2, <4>3
    <3>7. Increasing(Line(w)')
      <4>1. SUFFICES ASSUME NEW i \in 1 .. Len(Line(w)') - 1 PROVE Line(w)'[i] < Line(w)'[i + 1]
        BY DEF Increasing
      <4>2. CASE i = Len(Line(w))
        BY <2>2, <3>4, <3>5, <4>1, <4>2
      <4>3. CASE i # Len(Line(w))
        <5>1. i \in 1 .. Len(Line(w)) - 1 /\ i \in 1 .. Len(Line(w)) /\ i + 1 \in 1 .. Len(Line(w))
          BY <3>4, <4>1, <4>3
        <5>2. Line(w)[i] < Line(w)[i + 1]
          BY <3>5, <5>1 DEF Increasing
        <5>3. QED
          BY <3>4, <5>1, <5>2
      <4>4. QED
        BY <4>2, <4>3
    <3>8. /\ Len(outq'[w]) = Len(outq[w]) + 1 /\ Len(outq[w]) \in Nat /\ Len(got[w]) \in Nat
      BY <2>2, <3>2, AppendProperties
    <3>9. ASSUME NEW v \in Workers PROVE OutKept!(v)'
      <4>1. CASE v = w
        <5>1. Len(outq'[w]) <= OutCap
          BY <2>3, <3>8
        <5>2. posted'[w] = Len(Line(w)') + dropped'[w]
          <6>1. posted[w] = Len(Line(w)) + dropped[w] /\ dropped' = dropped
            BY <1>0, <2>3 DEF OutKept
          <6>2. posted[w] \in Nat /\ dropped[w] \in Nat /\ posted'[w] = posted[w] + 1
            BY <2>2
          <6>3. Len(Line(w)') = Len(Line(w)) + 1 /\ Len(Line(w)) \in Nat
            BY <3>4
          <6>4. posted[w] + 1 = (Len(Line(w)) + 1) + dropped[w]
            BY <6>1, <6>2, <6>3
          <6>5. QED
            BY <6>1, <6>2, <6>3, <6>4, Zenon
        <5>3. QED
          BY <2>2, <3>6, <3>7, <4>1, <5>1, <5>2
      <4>2. CASE v # w
        <5>1. outq'[v] = outq[v] /\ posted'[v] = posted[v]
          BY <1>0, <2>1, <2>3, <4>2 DEF TypeQueues
        <5>2. QED
          BY <1>0, <2>3, <5>1 DEF OutKept, Line
      <4>3. QED
        BY <4>1, <4>2
    <3>10. QED
      BY <3>1, <3>9 DEF OutKept
  <2>4. CASE dropped' = [dropped EXCEPT ![w] = @ + 1] /\ UNCHANGED outq
    <3>1. TypeQueues'
      BY <1>0, <2>1, <2>2, <2>4 DEF TypeQueues
    <3>2. dropped'[w] = dropped[w] + 1 /\ Line(w)' = Line(w)
      BY <1>0, <2>4 DEF TypeQueues, Line
    <3>3. \A i \in 1 .. Len(Line(w)) : Line(w)[i] \in Nat
      BY <2>2
    <3>4. Len(outq[w]) \in Nat /\ Len(got[w]) \in Nat
      BY <2>2
    <3>5. ASSUME NEW v \in Workers PROVE OutKept!(v)'
      <4>1. CASE v = w
        <5>1. /\ Len(outq[w]) <= OutCap /\ Increasing(Line(w))
              /\ \A i \in 1 .. Len(Line(w)) : Line(w)[i] <= posted[w]
              /\ posted[w] = Len(Line(w)) + dropped[w]
          BY <1>0 DEF OutKept
        <5>2. got' = got /\ outq' = outq
          BY <2>4
        <5>3. posted'[w] = Len(Line(w)') + dropped'[w]
          <6>1. posted[w] \in Nat /\ dropped[w] \in Nat /\ posted'[w] = posted[w] + 1
            BY <2>2
          <6>2. posted[w] = Len(Line(w)) + dropped[w] /\ Len(Line(w)) \in Nat
            BY <2>2, <5>1
          <6>3. QED
            BY <3>2, <6>1, <6>2
        <5>4. \A i \in 1 .. Len(Line(w)) : Line(w)[i] <= posted'[w]
          <6>1. posted[w] \in Nat /\ posted'[w] = posted[w] + 1
            BY <2>2
          <6>2. ASSUME NEW i \in 1 .. Len(Line(w)) PROVE Line(w)[i] <= posted'[w]
            <7>1. Line(w)[i] \in Nat /\ Line(w)[i] <= posted[w]
              BY <3>3, <5>1
            <7>2. QED
              BY <6>1, <7>1
          <6>3. QED
            BY <6>2
        <5>5. QED
          BY <3>2, <4>1, <5>1, <5>2, <5>3, <5>4
      <4>2. CASE v # w
        <5>1. dropped'[v] = dropped[v] /\ posted'[v] = posted[v]
          BY <1>0, <2>1, <2>4, <4>2 DEF TypeQueues
        <5>2. QED
          BY <1>0, <2>4, <5>1 DEF OutKept, Line
      <4>3. QED
        BY <4>1, <4>2
    <3>6. QED
      BY <3>1, <3>5 DEF OutKept
  <2>5. QED
    BY <1>2, <2>3, <2>4 DEF Send
<1>3. QED
  BY <1>1, <1>2

(* Every step keeps it: postMessage finds its worker in its loop, although *)
(* it tests running before it takes the mutex, and the polls deliver from  *)
(* the front what the worker appends at the end.                           *)
LEMMA WorkerStep == WorkerInv /\ [Next]_vars => WorkerInv'
<1> SUFFICES ASSUME WorkerInv, [Next]_vars PROVE WorkerInv'
  OBVIOUS
<1> USE WorkerAssumption DEF WorkerAssumption
<1>0. TypeParent /\ TypeThreads /\ TypeQueues /\ FlagsKept /\ TargetRuns /\ InKept /\ OutKept
  BY DEF WorkerInv
<1> USE <1>0
<1>1. ASSUME NEW w \in Workers, Construct(w)
      PROVE  WorkerInv'
  <2>1. w = next_id /\ next_id' = next_id + 1 /\ UNCHANGED <<should_stop, queueVars, histVars,
                                                             parentVars>>
    BY <1>1 DEF Construct
  <2>2. \/ /\ registry' = <<w>> \o registry /\ running' = [running EXCEPT ![w] = TRUE]
           /\ tpc' = [tpc EXCEPT ![w] = "start"]
        \/ /\ tpc' = [tpc EXCEPT ![w] = "never"] /\ UNCHANGED <<registry, running>>
    BY <1>1 DEF Construct
  <2>3. tpc[w] = "none" /\ ~should_stop[w]
    BY <2>1 DEF FlagsKept, TypeThreads, TypeParent, Workers
  <2>4. /\ registry' \in Seq(Workers)
        /\ \A i \in DOMAIN registry' : registry'[i] = w \/ \E j \in DOMAIN registry : registry'[i] = registry[j]
        /\ (\E i \in DOMAIN registry' : registry'[i] = w) => tpc'[w] = "start"
    <3>1. CASE UNCHANGED registry
      BY <2>1, <2>3, <3>1 DEF FlagsKept, TypeParent, Workers
    <3>2. CASE registry' = <<w>> \o registry /\ tpc' = [tpc EXCEPT ![w] = "start"]
      <4>1. <<w>> \in Seq(Workers) /\ registry \in Seq(Workers) /\ Len(<<w>>) = 1 /\ <<w>>[1] = w
        BY DEF TypeParent
      <4>2. /\ registry' \in Seq(Workers) /\ Len(registry') = 1 + Len(registry)
            /\ \A i \in 1 .. 1 + Len(registry) :
                 registry'[i] = IF i <= 1 THEN <<w>>[i] ELSE registry[i - 1]
        BY <3>2, <4>1, ConcatProperties
      <4>3. DOMAIN registry' = 1 .. 1 + Len(registry) /\ DOMAIN registry = 1 .. Len(registry) /\ Len(registry) \in Nat
        BY <4>1, <4>2, LenProperties
      <4>4. \A i \in DOMAIN registry' : registry'[i] = w \/ \E j \in DOMAIN registry : registry'[i] = registry[j]
        <5>1. SUFFICES ASSUME NEW i \in 1 .. 1 + Len(registry), i # 1
                       PROVE  \E j \in DOMAIN registry : registry'[i] = registry[j]
          BY <4>1, <4>2, <4>3
        <5>2. i - 1 \in DOMAIN registry /\ registry'[i] = registry[i - 1]
          BY <4>2, <4>3, <5>1
        <5>3. QED
          BY <5>2
      <4>5. tpc'[w] = "start"
        BY <3>2 DEF TypeThreads
      <4>6. QED
        BY <4>2, <4>4, <4>5
    <3>3. QED
      BY <2>2, <3>1, <3>2
  <2>5. TypeParent'
    BY <2>1, <2>4 DEF TypeParent, parentVars
  <2>6. TypeThreads'
    BY <2>1, <2>2 DEF TypeThreads, ThreadSteps
  <2>7. FlagsKept'
    <3>1. \A v \in Workers \ {w} : tpc'[v] = tpc[v] /\ running'[v] = running[v]
      BY <2>2 DEF TypeThreads
    <3>2. tpc'[w] \in {"start", "never"} /\ should_stop' = should_stop
      BY <2>1, <2>2 DEF TypeThreads
    <3>3. \A i \in DOMAIN registry' : registry'[i] < next_id'
      <4>1. \A j \in DOMAIN registry : registry[j] \in Nat /\ registry[j] < next_id
        BY DEF FlagsKept, TypeParent, Workers
      <4>2. next_id \in Nat /\ next_id' = next_id + 1
        BY <2>1 DEF TypeParent
      <4>3. QED
        BY <2>1, <2>4, <4>1, <4>2
    <3>4. ASSUME NEW v \in Workers
          PROVE  /\ v >= next_id' => tpc'[v] = "none"
                 /\ tpc'[v] \in {"none", "never"} => ~should_stop'[v]
                 /\ \A i \in DOMAIN registry' : registry'[i] = v => tpc'[v] \notin {"none", "never"}
                 /\ should_stop'[v] \/ tpc'[v] \in Ended => ~running'[v]
      <4>1. CASE v = w
        BY <2>1, <2>3, <2>4, <3>2, <4>1 DEF TypeParent, Ended, Workers
      <4>2. CASE v # w
        <5>1. next_id \in Nat /\ next_id' = next_id + 1 /\ v \in Nat
          BY <2>1 DEF TypeParent, Workers
        <5>2. tpc'[v] = tpc[v] /\ running'[v] = running[v] /\ should_stop'[v] = should_stop[v]
          BY <3>1, <3>2, <4>2
        <5>3. /\ v >= next_id => tpc[v] = "none"
              /\ tpc[v] \in {"none", "never"} => ~should_stop[v]
              /\ \A i \in DOMAIN registry : registry[i] = v => tpc[v] \notin {"none", "never"}
              /\ should_stop[v] \/ tpc[v] \in Ended => ~running[v]
          BY DEF FlagsKept
        <5>4. v >= next_id' => v >= next_id
          BY <5>1
        <5>5. \A i \in DOMAIN registry' : registry'[i] = v => tpc[v] \notin {"none", "never"}
          BY <2>4, <4>2, <5>3
        <5>6. QED
          BY <5>2, <5>3, <5>4, <5>5
      <4>3. QED
        BY <4>1, <4>2
    <3>5. QED
      BY <3>3, <3>4 DEF FlagsKept
  <2>8. TargetRuns'
    BY <1>1 DEF Construct, TargetRuns, InJS, parentVars
  <2>9. InKept'
    <3>1. \A v \in Workers : tpc'[v] \in {"cleanup", "exit"} <=> tpc[v] \in {"cleanup", "exit"}
      BY <2>2, <2>3 DEF TypeThreads
    <3>2. QED
      BY <2>1, <3>1 DEF InKept, queueVars, histVars
  <2>10. TypeQueues' /\ OutKept'
    BY <1>1 DEF Construct, TypeQueues, OutKept, Line, regVars, flagVars, queueVars, histVars,
        parentVars
  <2>11. QED
    BY <2>1, <2>2, <2>3, <2>4, <2>5, <2>6, <2>7, <2>8, <2>9, <2>10 DEF WorkerInv
<1>2. ASSUME NEW w \in Workers, Post(w)
      PROVE  WorkerInv'
  <2>1. TypeParent'
    BY <1>2 DEF Post, TypeParent, InJS, regVars, flagVars, queueVars, histVars, parentVars
  <2>2. TargetRuns'
    <3>1. running[w] /\ ppc' = "post" /\ target' = w /\ UNCHANGED <<running, should_stop, tpc>>
      BY <1>2 DEF Post, flagVars
    <3>2. ~should_stop[w] /\ tpc[w] \notin Ended
      BY <3>1 DEF FlagsKept
    <3>3. QED
      BY <3>1, <3>2 DEF TargetRuns
  <2>3. TypeThreads' /\ TypeQueues' /\ FlagsKept' /\ InKept' /\ OutKept'
    BY <1>2 DEF Post, TypeThreads, TypeQueues, FlagsKept, InKept, OutKept, Line, regVars,
        flagVars, queueVars, histVars, parentVars
  <2>4. QED
    BY <2>1, <2>2, <2>3 DEF WorkerInv
<1>3. ASSUME PostEnqueue
      PROVE  WorkerInv'
  <2>1. target \in Workers /\ tpc[target] \notin {"cleanup", "exit"}
    BY <1>3 DEF PostEnqueue, TargetRuns, Ended
  <2>2. ppc' = back /\ back' = "js" /\ UNCHANGED <<regVars, flagVars, outq, tpc, taken, posted,
                                                   dropped, got, matches>>
    BY <1>3 DEF PostEnqueue
  <2>3. \/ UNCHANGED <<inq, accepted>>
        \/ /\ accepted' = [accepted EXCEPT ![target] = @ + 1]
           /\ inq' = [inq EXCEPT ![target] = Append(@, accepted[target] + 1)]
    BY <1>3 DEF PostEnqueue
  <2>4. TypeParent'
    BY <1>3 DEF PostEnqueue, TypeParent, regVars
  <2>5. TypeQueues'
    <3>1. accepted[target] + 1 \in Nat /\ inq[target] \in Seq(Nat)
      BY <2>1 DEF TypeQueues
    <3>2. Append(inq[target], accepted[target] + 1) \in Seq(Nat)
      BY <3>1, AppendProperties
    <3>3. QED
      BY <2>1, <2>2, <2>3, <3>1, <3>2 DEF TypeQueues
  <2>6. TargetRuns'
    BY <2>2 DEF TargetRuns, TypeParent
  <2>7. InKept'
    <3>1. CASE UNCHANGED <<inq, accepted>>
      BY <2>2, <3>1 DEF InKept
    <3>2. CASE /\ accepted' = [accepted EXCEPT ![target] = @ + 1]
               /\ inq' = [inq EXCEPT ![target] = Append(@, accepted[target] + 1)]
      <4>1. taken[target] \in Nat /\ accepted[target] - taken[target] \in Nat /\ accepted[target] \in Nat
        BY <2>1 DEF InKept, TypeQueues
      <4>2. inq[target] = Run(taken[target], accepted[target] - taken[target])
        BY <2>1 DEF InKept
      <4>3. taken[target] + (accepted[target] - taken[target]) + 1 = accepted[target] + 1
        BY <4>1
      <4>4. Append(inq[target], accepted[target] + 1)
               = Run(taken[target], (accepted[target] - taken[target]) + 1)
        BY <4>1, <4>2, <4>3, RunAppend
      <4>5. /\ inq'[target] = Append(inq[target], accepted[target] + 1)
            /\ accepted'[target] = accepted[target] + 1
        BY <2>1, <3>2 DEF TypeQueues
      <4>6. (accepted[target] - taken[target]) + 1 = accepted'[target] - taken[target]
        BY <4>1, <4>5
      <4>7. \A v \in Workers \ {target} : inq'[v] = inq[v] /\ accepted'[v] = accepted[v]
        BY <3>2 DEF TypeQueues
      <4>8. inq'[target] = Run(taken[target], accepted'[target] - taken[target]) /\ taken[target] <= accepted'[target]
        BY <4>1, <4>4, <4>5, <4>6
      <4>9. ASSUME NEW v \in Workers PROVE InKept!(v)'
        <5>1. CASE v = target
          BY <2>1, <2>2, <4>8, <5>1
        <5>2. CASE v # target
          BY <2>2, <4>7, <5>2 DEF InKept
        <5>3. QED
          BY <5>1, <5>2
      <4>10. QED
        BY <4>9 DEF InKept
    <3>3. QED
      BY <2>3, <3>1, <3>2
  <2>8. TypeThreads' /\ FlagsKept' /\ OutKept'
    BY <1>3 DEF PostEnqueue, TypeThreads, FlagsKept, OutKept, Line, regVars, flagVars,
        queueVars, histVars, parentVars
  <2>9. QED
    BY <2>1, <2>2, <2>3, <2>4, <2>5, <2>6, <2>7, <2>8 DEF WorkerInv
<1>4. ASSUME NEW w \in Workers, Terminate(w)
      PROVE  WorkerInv'
  <2>1. \E i \in DOMAIN registry : registry[i] = w
    BY <1>4 DEF Terminate, Registered
  <2>2. TypeThreads'
    BY <1>4 DEF Terminate, TypeThreads
  <2>3. FlagsKept'
    <3>1. tpc[w] \notin {"none", "never"}
      BY <2>1 DEF FlagsKept
    <3>2. QED
      BY <1>4, <3>1 DEF Terminate, FlagsKept, TypeThreads, regVars
  <2>4. TargetRuns'
    BY <1>4 DEF Terminate, TargetRuns, InJS, parentVars
  <2>5. TypeParent' /\ TypeQueues' /\ InKept' /\ OutKept'
    BY <1>4 DEF Terminate, TypeParent, TypeQueues, InKept, OutKept, Line, regVars, flagVars,
        queueVars, histVars, parentVars
  <2>6. QED
    BY <2>1, <2>2, <2>3, <2>4, <2>5 DEF WorkerInv
<1>5. ASSUME PollCollect
      PROVE  WorkerInv'
  <2>1. FirstMatches \in Seq(Workers)
    <3>1. registry \in Seq(Workers) /\ Len(registry) \in Nat
      BY DEF TypeParent
    <3> DEFINE n == IF Len(registry) < MatchCap THEN Len(registry) ELSE MatchCap
    <3>2. n \in Int /\ n <= Len(registry)
      BY <3>1
    <3>3. \A i \in 1 .. n : registry[i] \in Workers
      BY <3>1, <3>2
    <3> HIDE DEF n
    <3>4. SubSeq(registry, 1, n) \in Seq(Workers)
      BY <3>2, <3>3, SubSeqProperties
    <3>5. QED
      BY <3>4 DEF FirstMatches, n
  <2>2. TypeParent'
    BY <1>5, <2>1 DEF PollCollect, TypeParent, regVars
  <2>3. TargetRuns'
    BY <1>5 DEF PollCollect, TargetRuns
  <2>4. TypeThreads' /\ TypeQueues' /\ FlagsKept' /\ InKept' /\ OutKept'
    BY <1>5 DEF PollCollect, TypeThreads, TypeQueues, FlagsKept, InKept, OutKept, Line, regVars,
        flagVars, queueVars, histVars, parentVars
  <2>5. QED
    BY <2>1, <2>2, <2>3, <2>4 DEF WorkerInv
<1>6. ASSUME PollTake
      PROVE  WorkerInv'
  <2>1. matches # <<>> /\ Head(matches) \in Workers
    BY <1>6 DEF PollTake, TypeParent
  <2>2. PICK w \in Workers : w = Head(matches)
    BY <2>1
  <2>3. /\ outq[w] # <<>> /\ outq' = [outq EXCEPT ![w] = Tail(@)]
        /\ got' = [got EXCEPT ![w] = Append(@, Head(outq[w]))]
    BY <1>6, <2>2 DEF PollTake
  <2>4. UNCHANGED <<regVars, flagVars, inq, tpc, accepted, taken, posted, dropped, back, target, matches>>
    BY <1>6 DEF PollTake
  <2>5. outq[w] \in Seq(Nat) /\ got[w] \in Seq(Nat) /\ Head(outq[w]) \in Nat /\ Tail(outq[w]) \in Seq(Nat)
    BY <2>3 DEF TypeQueues
  <2>6. outq'[w] = Tail(outq[w]) /\ got'[w] = Append(got[w], Head(outq[w]))
    BY <2>3 DEF TypeQueues
  <2>7. TypeParent'
    BY <1>6 DEF PollTake, TypeParent, regVars
  <2>8. TypeQueues'
    BY <2>3, <2>4, <2>5, SMTT(30) DEF TypeQueues
  <2>9. TargetRuns'
    BY <1>6 DEF PollTake, TargetRuns
  <2>10. OutKept'
    <3>1. Line(w)' = Line(w)
      BY <2>3, <2>5, <2>6, HeadMoves DEF Line
    <3>2. Len(outq'[w]) = Len(outq[w]) - 1 /\ Len(got'[w]) = Len(got[w]) + 1
      <4>1. Len(Tail(outq[w])) = Len(outq[w]) - 1
        BY <2>3, <2>5, HeadTailProperties
      <4>2. Len(Append(got[w], Head(outq[w]))) = Len(got[w]) + 1
        BY <2>5, AppendProperties
      <4>3. QED
        BY <2>6, <4>1, <4>2
    <3>3. Len(outq[w]) \in Nat /\ Len(got[w]) \in Nat /\ dropped[w] \in Nat
      BY <2>5 DEF TypeQueues
    <3>4. ASSUME NEW v \in Workers PROVE OutKept!(v)'
      <4>1. CASE v = w
        <5>1. /\ Len(outq[w]) <= OutCap /\ Increasing(Line(w))
              /\ \A i \in 1 .. Len(Line(w)) : Line(w)[i] <= posted[w]
              /\ posted[w] = Len(Line(w)) + dropped[w]
          BY DEF OutKept
        <5>2. posted' = posted /\ dropped' = dropped
          BY <2>4
        <5>3. Len(outq'[w]) <= OutCap
          <6>1. Len(outq[w]) <= OutCap
            BY <5>1
          <6>2. QED
            BY <3>2, <3>3, <6>1
        <5>4. QED
          BY <3>1, <4>1, <5>1, <5>2, <5>3
      <4>2. CASE v # w
        <5>1. outq'[v] = outq[v] /\ got'[v] = got[v]
          BY <2>3, <4>2 DEF TypeQueues
        <5>2. QED
          BY <2>4, <5>1 DEF OutKept, Line
      <4>3. QED
        BY <4>1, <4>2
    <3>5. QED
      BY <3>4 DEF OutKept
  <2>11. TypeThreads' /\ FlagsKept' /\ InKept'
    BY <1>6 DEF PollTake, TypeThreads, FlagsKept, InKept, regVars, flagVars, queueVars,
        histVars, parentVars
  <2>12. QED
    BY <2>1, <2>2, <2>3, <2>4, <2>5, <2>6, <2>7, <2>8, <2>9, <2>10, <2>11 DEF WorkerInv
<1>7. ASSUME CallbackReturn
      PROVE  WorkerInv'
  <2>1. TypeParent'
    BY <1>7 DEF CallbackReturn, TypeParent, regVars, flagVars, queueVars, histVars, parentVars
  <2>2. TargetRuns'
    BY <1>7 DEF CallbackReturn, TargetRuns, TypeParent, regVars, flagVars, queueVars, histVars,
        parentVars
  <2>3. TypeThreads' /\ TypeQueues' /\ FlagsKept' /\ InKept' /\ OutKept'
    BY <1>7 DEF CallbackReturn, TypeThreads, TypeQueues, FlagsKept, InKept, OutKept, Line,
        regVars, flagVars, queueVars, histVars, parentVars
  <2>4. QED
    BY <2>1, <2>2, <2>3 DEF WorkerInv
<1>8. ASSUME PollNext
      PROVE  WorkerInv'
  <2>1. TypeParent'
    BY <1>8, HeadTailProperties DEF PollNext, TypeParent, regVars
  <2>2. TargetRuns'
    BY <1>8 DEF PollNext, TargetRuns
  <2>3. TypeThreads' /\ TypeQueues' /\ FlagsKept' /\ InKept' /\ OutKept'
    BY <1>8 DEF PollNext, TypeThreads, TypeQueues, FlagsKept, InKept, OutKept, Line, regVars,
        flagVars, queueVars, histVars, parentVars
  <2>4. QED
    BY <2>1, <2>2, <2>3 DEF WorkerInv
<1>9. ASSUME PollReturn
      PROVE  WorkerInv'
  <2>1. TypeParent'
    BY <1>9 DEF PollReturn, TypeParent, regVars
  <2>2. TargetRuns'
    BY <1>9 DEF PollReturn, TargetRuns
  <2>3. TypeThreads' /\ TypeQueues' /\ FlagsKept' /\ InKept' /\ OutKept'
    BY <1>9 DEF PollReturn, TypeThreads, TypeQueues, FlagsKept, InKept, OutKept, Line, regVars,
        flagVars, queueVars, histVars, parentVars
  <2>4. QED
    BY <2>1, <2>2, <2>3 DEF WorkerInv
<1>10. ASSUME NEW w \in Workers, ThreadStart(w)
       PROVE  WorkerInv'
  <2>1. TypeThreads'
    BY <1>10 DEF ThreadStart, TypeThreads, TGoto, ThreadSteps, regVars, flagVars, queueVars,
        histVars, parentVars
  <2>2. FlagsKept'
    BY <1>10 DEF ThreadStart, FlagsKept, TypeThreads, TGoto, Ended, ThreadSteps, regVars,
        flagVars, queueVars, histVars, parentVars
  <2>3. TargetRuns'
    BY <1>10 DEF ThreadStart, TargetRuns, TypeThreads, FlagsKept, TGoto, Ended, regVars,
        flagVars, queueVars, histVars, parentVars
  <2>4. InKept'
    BY <1>10 DEF ThreadStart, InKept, TypeThreads, TGoto, regVars, flagVars, queueVars,
        histVars, parentVars
  <2>5. TypeParent' /\ TypeQueues' /\ OutKept'
    BY <1>10 DEF ThreadStart, TypeParent, TypeQueues, OutKept, Line, regVars, flagVars,
        queueVars, histVars, parentVars
  <2>6. QED
    BY <2>1, <2>2, <2>3, <2>4, <2>5 DEF WorkerInv
<1>11. ASSUME NEW w \in Workers, ThreadEvaluated(w)
       PROVE  WorkerInv'
  <2>1. Send(w) \/ UNCHANGED <<outq, posted, dropped>>
    BY <1>11 DEF ThreadEvaluated
  <2>2. UNCHANGED <<inq, accepted, taken, got>>
    BY <1>11 DEF ThreadEvaluated
  <2>3. TypeQueues' /\ OutKept'
    BY <2>1, <2>2, SendKeeps DEF WorkerInv
  <2>4. TypeThreads'
    BY <1>11 DEF ThreadEvaluated, TypeThreads, TGoto, ThreadSteps, regVars, flagVars, queueVars,
        histVars, parentVars
  <2>5. FlagsKept'
    BY <1>11 DEF ThreadEvaluated, FlagsKept, TypeThreads, TGoto, Ended, ThreadSteps, regVars,
        flagVars, queueVars, histVars, parentVars
  <2>6. TargetRuns'
    BY <1>11 DEF ThreadEvaluated, TargetRuns, TypeThreads, FlagsKept, TGoto, Ended, regVars,
        flagVars, queueVars, histVars, parentVars
  <2>7. InKept'
    BY <1>11 DEF ThreadEvaluated, InKept, TypeThreads, TGoto, regVars, flagVars, queueVars,
        histVars, parentVars
  <2>8. TypeParent'
    BY <1>11 DEF ThreadEvaluated, TypeParent, regVars, flagVars, queueVars, histVars, parentVars
  <2>9. QED
    BY <2>1, <2>2, <2>3, <2>4, <2>5, <2>6, <2>7, <2>8 DEF WorkerInv
<1>12. ASSUME NEW w \in Workers, ThreadLoop(w)
       PROVE  WorkerInv'
  <2>1. TypeThreads'
    BY <1>12 DEF ThreadLoop, TypeThreads, TGoto, ThreadSteps, regVars, flagVars, queueVars,
        histVars, parentVars
  <2>2. FlagsKept'
    BY <1>12 DEF ThreadLoop, FlagsKept, TypeThreads, TGoto, Ended, ThreadSteps, regVars,
        flagVars, queueVars, histVars, parentVars
  <2>3. TargetRuns'
    BY <1>12 DEF ThreadLoop, TargetRuns, TypeThreads, FlagsKept, TGoto, Ended, regVars,
        flagVars, queueVars, histVars, parentVars
  <2>4. InKept'
    BY <1>12 DEF ThreadLoop, InKept, TypeThreads, TGoto, regVars, flagVars, queueVars, histVars,
        parentVars
  <2>5. TypeParent' /\ TypeQueues' /\ OutKept'
    BY <1>12 DEF ThreadLoop, TypeParent, TypeQueues, OutKept, Line, regVars, flagVars,
        queueVars, histVars, parentVars
  <2>6. QED
    BY <2>1, <2>2, <2>3, <2>4, <2>5 DEF WorkerInv
<1>13. ASSUME NEW w \in Workers, ThreadTake(w)
       PROVE  WorkerInv'
  <2>1. tpc[w] = "take" /\ UNCHANGED <<regVars, flagVars, outq, accepted, posted, dropped, got,
                                       parentVars>>
    BY <1>13 DEF ThreadTake
  <2>2. \/ inq[w] = <<>> /\ tpc' = [tpc EXCEPT ![w] = "loop"] /\ UNCHANGED <<inq, taken>>
        \/ /\ inq[w] # <<>> /\ tpc' = [tpc EXCEPT ![w] = "handler"]
           /\ inq' = [inq EXCEPT ![w] = Tail(@)] /\ taken' = [taken EXCEPT ![w] = Head(inq[w])]
    BY <1>13 DEF ThreadTake, TGoto
  <2>3. TypeThreads'
    BY <2>1, <2>2 DEF TypeThreads, ThreadSteps, flagVars
  <2>4. TypeQueues'
    <3>1. inq[w] # <<>> => Head(inq[w]) \in Nat /\ Tail(inq[w]) \in Seq(Nat)
      BY DEF TypeQueues
    <3>2. QED
      BY <2>1, <2>2, <3>1 DEF TypeQueues
  <2>5. FlagsKept'
    BY <2>1, <2>2 DEF FlagsKept, TypeThreads, Ended, regVars, flagVars
  <2>6. TargetRuns'
    BY <2>1, <2>2 DEF TargetRuns, TypeThreads, Ended, flagVars, parentVars
  <2>7. InKept'
    <3>1. CASE inq[w] = <<>> /\ tpc' = [tpc EXCEPT ![w] = "loop"] /\ UNCHANGED <<inq, taken>>
      BY <2>1, <3>1 DEF InKept, TypeThreads
    <3>2. CASE /\ inq[w] # <<>> /\ tpc' = [tpc EXCEPT ![w] = "handler"]
               /\ inq' = [inq EXCEPT ![w] = Tail(@)] /\ taken' = [taken EXCEPT ![w] = Head(inq[w])]
      <4>1. /\ taken[w] \in Nat /\ accepted[w] \in Nat /\ accepted[w] - taken[w] \in Nat
            /\ inq[w] = Run(taken[w], accepted[w] - taken[w])
        <5>1. taken[w] \in Nat /\ accepted[w] \in Nat /\ taken[w] <= accepted[w]
          BY DEF InKept, TypeQueues
        <5>2. inq[w] = Run(taken[w], accepted[w] - taken[w])
          BY <2>1 DEF InKept
        <5>3. QED
          BY <5>1, <5>2
      <4>2. accepted[w] - taken[w] # 0
        BY <3>2, <4>1, RunSeq DEF Run
      <4>3. Head(inq[w]) = taken[w] + 1 /\ Tail(inq[w]) = Run(taken[w] + 1, (accepted[w] - taken[w]) - 1)
        BY <4>1, <4>2, RunTail
      <4>4. inq'[w] = Tail(inq[w]) /\ taken'[w] = Head(inq[w]) /\ tpc'[w] = "handler"
        BY <3>2 DEF TypeQueues, TypeThreads
      <4>5. taken'[w] <= accepted[w] /\ (accepted[w] - taken[w]) - 1 = accepted[w] - taken'[w]
        BY <4>1, <4>2, <4>3, <4>4
      <4>6. ASSUME NEW v \in Workers PROVE InKept!(v)'
        <5>1. CASE v = w
          BY <2>1, <4>3, <4>4, <4>5, <5>1
        <5>2. CASE v # w
          <6>1. inq'[v] = inq[v] /\ taken'[v] = taken[v] /\ tpc'[v] = tpc[v]
            BY <3>2, <5>2 DEF TypeQueues, TypeThreads
          <6>2. QED
            BY <2>1, <6>1 DEF InKept
        <5>3. QED
          BY <5>1, <5>2
      <4>7. QED
        BY <4>6 DEF InKept
    <3>3. QED
      BY <2>2, <3>1, <3>2
  <2>8. TypeParent' /\ OutKept'
    BY <1>13 DEF ThreadTake, TypeParent, OutKept, Line, regVars, flagVars, queueVars, histVars,
        parentVars
  <2>9. QED
    BY <2>1, <2>2, <2>3, <2>4, <2>5, <2>6, <2>7, <2>8 DEF WorkerInv
<1>14. ASSUME NEW w \in Workers, ThreadHandled(w)
       PROVE  WorkerInv'
  <2>1. TypeThreads'
    BY <1>14 DEF ThreadHandled, TypeThreads, TGoto, ThreadSteps, regVars, flagVars, queueVars,
        histVars, parentVars
  <2>2. FlagsKept'
    BY <1>14 DEF ThreadHandled, FlagsKept, TypeThreads, TGoto, Ended, ThreadSteps, regVars,
        flagVars, queueVars, histVars, parentVars
  <2>3. TargetRuns'
    BY <1>14 DEF ThreadHandled, TargetRuns, TypeThreads, FlagsKept, TGoto, Ended, regVars,
        flagVars, queueVars, histVars, parentVars
  <2>4. InKept'
    BY <1>14 DEF ThreadHandled, InKept, TypeThreads, TGoto, regVars, flagVars, queueVars,
        histVars, parentVars
  <2>5. TypeParent' /\ TypeQueues' /\ OutKept'
    BY <1>14 DEF ThreadHandled, TypeParent, TypeQueues, OutKept, Line, regVars, flagVars,
        queueVars, histVars, parentVars
  <2>6. QED
    BY <2>1, <2>2, <2>3, <2>4, <2>5 DEF WorkerInv
<1>15. ASSUME NEW w \in Workers, ThreadDrain(w)
       PROVE  WorkerInv'
  <2>1. TypeThreads'
    BY <1>15 DEF ThreadDrain, TypeThreads, TGoto, ThreadSteps, regVars, flagVars, queueVars,
        histVars, parentVars
  <2>2. FlagsKept'
    BY <1>15 DEF ThreadDrain, FlagsKept, TypeThreads, TGoto, Ended, ThreadSteps, regVars,
        flagVars, queueVars, histVars, parentVars
  <2>3. TargetRuns'
    BY <1>15 DEF ThreadDrain, TargetRuns, TypeThreads, FlagsKept, TGoto, Ended, regVars,
        flagVars, queueVars, histVars, parentVars
  <2>4. TypeQueues'
    BY <1>15 DEF ThreadDrain, TypeQueues, histVars
  <2>5. InKept'
    BY <1>15 DEF ThreadDrain, InKept, TypeThreads, TypeQueues, TGoto, regVars, flagVars,
        queueVars, histVars, parentVars
  <2>6. TypeParent' /\ OutKept'
    BY <1>15 DEF ThreadDrain, TypeParent, OutKept, Line, regVars, flagVars, queueVars, histVars,
        parentVars
  <2>7. QED
    BY <2>1, <2>2, <2>3, <2>4, <2>5, <2>6 DEF WorkerInv
<1>16. ASSUME NEW w \in Workers, ThreadExit(w)
       PROVE  WorkerInv'
  <2>1. TypeThreads'
    BY <1>16 DEF ThreadExit, TypeThreads, TGoto, ThreadSteps, regVars, flagVars, queueVars,
        histVars, parentVars
  <2>2. FlagsKept'
    BY <1>16 DEF ThreadExit, FlagsKept, TypeThreads, TGoto, Ended, ThreadSteps, regVars,
        flagVars, queueVars, histVars, parentVars
  <2>3. TargetRuns'
    BY <1>16 DEF ThreadExit, TargetRuns, TypeThreads, FlagsKept, TGoto, Ended, regVars,
        flagVars, queueVars, histVars, parentVars
  <2>4. InKept'
    BY <1>16 DEF ThreadExit, InKept, TypeThreads, TGoto, regVars, flagVars, queueVars, histVars,
        parentVars
  <2>5. TypeParent' /\ TypeQueues' /\ OutKept'
    BY <1>16 DEF ThreadExit, TypeParent, TypeQueues, OutKept, Line, regVars, flagVars,
        queueVars, histVars, parentVars
  <2>6. QED
    BY <2>1, <2>2, <2>3, <2>4, <2>5 DEF WorkerInv
<1>17. ASSUME NEW w \in Workers, ThreadPost(w)
       PROVE  WorkerInv'
  <2>1. Send(w) \/ UNCHANGED <<outq, posted, dropped>>
    BY <1>17 DEF ThreadPost
  <2>2. UNCHANGED <<inq, accepted, taken, got>>
    BY <1>17 DEF ThreadPost
  <2>3. TypeQueues' /\ OutKept'
    BY <2>1, <2>2, SendKeeps DEF WorkerInv
  <2>4. TypeParent' /\ TypeThreads' /\ FlagsKept' /\ TargetRuns' /\ InKept'
    BY <1>17 DEF ThreadPost, TypeParent, TypeThreads, FlagsKept, TargetRuns, InKept, regVars,
        flagVars, queueVars, histVars, parentVars
  <2>5. QED
    BY <2>1, <2>2, <2>3, <2>4 DEF WorkerInv
<1>18. ASSUME NEW w \in Workers, ThreadCleared(w)
       PROVE  WorkerInv'
  <2>1. TypeThreads'
    BY <1>18 DEF ThreadCleared, TypeThreads, TGoto, ThreadSteps, regVars, flagVars, queueVars,
        histVars, parentVars
  <2>2. FlagsKept'
    BY <1>18 DEF ThreadCleared, FlagsKept, TypeThreads, TGoto, Ended, ThreadSteps, regVars,
        flagVars, queueVars, histVars, parentVars
  <2>3. TargetRuns'
    BY <1>18 DEF ThreadCleared, TargetRuns, TypeThreads, FlagsKept, TGoto, Ended, regVars,
        flagVars, queueVars, histVars, parentVars
  <2>4. InKept'
    BY <1>18 DEF ThreadCleared, InKept, TypeThreads, TGoto, regVars, flagVars, queueVars,
        histVars, parentVars
  <2>5. TypeParent' /\ TypeQueues' /\ OutKept'
    BY <1>18 DEF ThreadCleared, TypeParent, TypeQueues, OutKept, Line, regVars, flagVars,
        queueVars, histVars, parentVars
  <2>6. QED
    BY <2>1, <2>2, <2>3, <2>4, <2>5 DEF WorkerInv
<1>19. CASE UNCHANGED vars
  BY <1>19 DEF vars, WorkerInv, TypeParent, TypeThreads, TypeQueues, FlagsKept, TargetRuns,
      InKept, OutKept, Line, regVars, flagVars, queueVars, histVars, parentVars
<1>20. QED
  BY <1>1, <1>2, <1>3, <1>4, <1>5, <1>6, <1>7, <1>8, <1>9, <1>10, <1>11, <1>12, <1>13, <1>14,
      <1>15, <1>16, <1>17, <1>18, <1>19 DEF Next, ParentJS, Poll, Thread

(* Messages arrive once and in the order in which they were posted, from   *)
(* the parent to a worker and from a worker to the parent; none is         *)
(* accepted that nobody will handle or free.                               *)
THEOREM InOrderKept == Spec => []MessagesInOrder
<1>1. WorkerInv => MessagesInOrder
  <2>1. ASSUME WorkerInv, NEW w \in Workers
        PROVE  posted[w] = Len(got[w]) + Len(outq[w]) + dropped[w]
    <3>1. posted[w] = Len(Line(w)) + dropped[w]
      BY <2>1 DEF WorkerInv, OutKept
    <3>2. got[w] \in Seq(Nat) /\ outq[w] \in Seq(Nat)
      BY <2>1 DEF WorkerInv, TypeQueues
    <3>3. Len(got[w] \o outq[w]) = Len(got[w]) + Len(outq[w])
      BY <3>2, ConcatProperties
    <3>4. QED
      BY <3>1, <3>3, Zenon DEF Line
  <2>2. WorkerInv => OutOrder
    BY <2>1 DEF WorkerInv, OutOrder, OutKept, Line
  <2>3. WorkerInv => InOrder
    BY DEF WorkerInv, InOrder, InKept, Run
  <2>4. QED
    BY <2>2, <2>3 DEF MessagesInOrder
<1>2. QED
  BY <1>1, WorkerStart, WorkerStep, PTL DEF Spec
=============================================================================
