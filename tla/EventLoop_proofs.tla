-------------------------- MODULE EventLoop_proofs --------------------------
(* Proofs about EventLoop, for every number of microtasks, timers, nested  *)
(* calls and messages.                                                     *)
EXTENDS EventLoop, SequenceTheorems, TLAPS

-----------------------------------------------------------------------------
(* Facts about the two lists.                                              *)

(* n microtasks, numbered from t + 1 on. *)
Run(t, n) == [i \in 1 .. n |-> t + i]

(* A run of numbers is a sequence of its length. *)
LEMMA RunSeq ==
  ASSUME NEW t \in Nat, NEW n \in Nat
  PROVE  Run(t, n) \in Seq(Nat) /\ Len(Run(t, n)) = n
BY DEF Run

(* lr_enqueue_job: the next number goes to the end of a run. *)
LEMMA RunAppend ==
  ASSUME NEW t \in Nat, NEW n \in Nat
  PROVE  Append(Run(t, n), t + n + 1) = Run(t, n + 1)
<1>1. Run(t, n) \in Seq(Nat) /\ Len(Run(t, n)) = n /\ t + n + 1 \in Nat
  BY RunSeq
<1>2. Run(t, n + 1) \in Seq(Nat) /\ Len(Run(t, n + 1)) = n + 1
  BY RunSeq
<1>3. /\ Append(Run(t, n), t + n + 1) \in Seq(Nat) /\ Len(Append(Run(t, n), t + n + 1)) = n + 1
      /\ \A i \in 1 .. n : Append(Run(t, n), t + n + 1)[i] = Run(t, n)[i]
      /\ Append(Run(t, n), t + n + 1)[n + 1] = t + n + 1
  BY <1>1, AppendProperties
<1>4. \A i \in 1 .. n + 1 : Append(Run(t, n), t + n + 1)[i] = Run(t, n + 1)[i]
  BY <1>3 DEF Run
<1>5. QED
  BY <1>2, <1>3, <1>4, SeqEqual

(* lr_execute_pending_job: the first number of a run leaves it. *)
LEMMA RunTail ==
  ASSUME NEW t \in Nat, NEW n \in Nat, Run(t, n) # <<>>
  PROVE  n # 0 /\ Head(Run(t, n)) = t + 1 /\ Tail(Run(t, n)) = Run(t + 1, n - 1)
<1>1. Run(t, n) \in Seq(Nat) /\ Len(Run(t, n)) = n
  BY RunSeq
<1>2. n # 0 /\ n - 1 \in Nat /\ t + 1 \in Nat
  BY <1>1
<1>3. Run(t + 1, n - 1) \in Seq(Nat) /\ Len(Run(t + 1, n - 1)) = n - 1
  BY <1>2, RunSeq
<1>4. Head(Run(t, n)) = t + 1
  BY <1>1, <1>2 DEF Run
<1>5. /\ Tail(Run(t, n)) \in Seq(Nat) /\ Len(Tail(Run(t, n))) = n - 1
      /\ \A i \in 1 .. n - 1 : Tail(Run(t, n))[i] = Run(t, n)[i + 1]
  BY <1>1, <1>2, HeadTailProperties
<1>6. \A i \in 1 .. n - 1 : Tail(Run(t, n))[i] = Run(t + 1, n - 1)[i]
  BY <1>2, <1>5 DEF Run
<1>7. QED
  BY <1>2, <1>3, <1>4, <1>5, <1>6, SeqEqual

In(q, x) == \E i \in DOMAIN q : q[i] = x
Decreasing(q) == \A i, j \in DOMAIN q : i < j => q[i] > q[j]

(* setTimeout: a newer id in front of the list. *)
LEMMA PushFront ==
  ASSUME NEW S \in SUBSET Nat, NEW q \in Seq(S), NEW x \in S,
         Decreasing(q), \A i \in DOMAIN q : q[i] < x
  PROVE  /\ <<x>> \o q \in Seq(S) /\ Decreasing(<<x>> \o q)
         /\ \A y : In(<<x>> \o q, y) <=> y = x \/ In(q, y)
<1> DEFINE r == <<x>> \o q
<1>1. <<x>> \in Seq(S) /\ Len(<<x>>) = 1 /\ <<x>>[1] = x
  OBVIOUS
<1>2. /\ r \in Seq(S) /\ Len(r) = 1 + Len(q)
      /\ \A i \in 1 .. 1 + Len(q) : r[i] = IF i <= 1 THEN <<x>>[i] ELSE q[i - 1]
  BY <1>1, ConcatProperties
<1>3. DOMAIN r = 1 .. 1 + Len(q) /\ DOMAIN q = 1 .. Len(q) /\ Len(q) \in Nat
  BY <1>2, LenProperties
<1> HIDE DEF r
<1>4. r[1] = x /\ \A i \in DOMAIN q : i + 1 \in DOMAIN r /\ r[i + 1] = q[i]
  BY <1>1, <1>2, <1>3
<1>5. \A i \in DOMAIN r : i = 1 \/ (i - 1 \in DOMAIN q /\ r[i] = q[i - 1])
  BY <1>2, <1>3
<1>6. \A i \in DOMAIN q : q[i] \in Nat
  BY ElementOfSeq, <1>3
<1>7. Decreasing(r)
  <2>1. SUFFICES ASSUME NEW i \in DOMAIN r, NEW j \in DOMAIN r, i < j PROVE r[i] > r[j]
    BY DEF Decreasing
  <2>2. j - 1 \in DOMAIN q /\ r[j] = q[j - 1]
    BY <1>3, <1>5, <2>1
  <2>3. CASE i = 1
    <3>1. r[i] = x /\ x \in Nat /\ q[j - 1] < x /\ q[j - 1] \in Nat
      BY <1>4, <1>6, <2>2, <2>3
    <3>2. QED
      BY <2>2, <3>1
  <2>4. CASE i # 1
    <3>1. i - 1 \in DOMAIN q /\ r[i] = q[i - 1] /\ i - 1 < j - 1
      BY <1>3, <1>5, <2>1, <2>4
    <3>2. QED
      BY <2>2, <3>1 DEF Decreasing
  <2>5. QED
    BY <2>3, <2>4
<1>8. ASSUME NEW y PROVE In(r, y) <=> y = x \/ In(q, y)
  <2>1. 1 \in DOMAIN r
    BY <1>3
  <2>2. In(r, y) => y = x \/ In(q, y)
    BY <1>4, <1>5 DEF In
  <2>3. In(q, y) => In(r, y)
    BY <1>4 DEF In
  <2>4. QED
    BY <1>4, <2>1, <2>2, <2>3 DEF In
<1>9. QED
  BY <1>2, <1>7, <1>8 DEF r

(* lr_timers_process unlinks a node: the others keep their order. *)
LEMMA TakeOut ==
  ASSUME NEW S \in SUBSET Nat, NEW q \in Seq(S), NEW p \in DOMAIN q, Decreasing(q)
  PROVE  LET r == SubSeq(q, 1, p - 1) \o SubSeq(q, p + 1, Len(q))
         IN  /\ r \in Seq(S) /\ Decreasing(r)
             /\ \A y : In(r, y) <=> y # q[p] /\ In(q, y)
<1> DEFINE a == SubSeq(q, 1, p - 1)  b == SubSeq(q, p + 1, Len(q))  r == a \o b
<1>1. DOMAIN q = 1 .. Len(q) /\ Len(q) \in Nat /\ p \in 1 .. Len(q) /\ \A i \in 1 .. Len(q) : q[i] \in S
  BY LenProperties
<1>0. \A i \in 1 .. Len(q) : q[i] \in Nat
  BY <1>1
<1>2. a \in Seq(S) /\ Len(a) = p - 1 /\ \A i \in 1 .. p - 1 : a[i] = q[i]
  <2>1. 1 \in Int /\ p - 1 \in Int /\ \A i \in 1 .. p - 1 : q[i] \in S
    BY <1>1
  <2>2. /\ a \in Seq(S) /\ Len(a) = IF 1 <= p - 1 THEN p - 1 - 1 + 1 ELSE 0
        /\ \A i \in 1 .. p - 1 - 1 + 1 : a[i] = q[1 + i - 1]
    BY <2>1, SubSeqProperties
  <2>3. QED
    BY <1>1, <2>2
<1>3. b \in Seq(S) /\ Len(b) = Len(q) - p /\ \A i \in 1 .. Len(q) - p : b[i] = q[p + i]
  <2>1. p + 1 \in Int /\ Len(q) \in Int /\ \A i \in p + 1 .. Len(q) : q[i] \in S
    BY <1>1
  <2>2. /\ b \in Seq(S) /\ Len(b) = IF p + 1 <= Len(q) THEN Len(q) - (p + 1) + 1 ELSE 0
        /\ \A i \in 1 .. Len(q) - (p + 1) + 1 : b[i] = q[(p + 1) + i - 1]
    BY <2>1, SubSeqProperties
  <2>3. QED
    BY <1>1, <2>2
<1> HIDE DEF a, b
<1>4. /\ r \in Seq(S) /\ Len(r) = Len(a) + Len(b)
      /\ \A i \in 1 .. Len(a) + Len(b) : r[i] = IF i <= Len(a) THEN a[i] ELSE b[i - Len(a)]
  BY <1>2, <1>3, ConcatProperties
<1> HIDE DEF r
<1>5. DOMAIN r = 1 .. Len(q) - 1
  <2>1. DOMAIN r = 1 .. Len(r)
    BY <1>4, LenProperties
  <2>2. Len(r) = Len(q) - 1
    BY <1>1, <1>2, <1>3, <1>4
  <2>3. QED
    BY <2>1, <2>2
<1>6. \A i \in 1 .. Len(q) - 1 : r[i] = IF i < p THEN q[i] ELSE q[i + 1]
  <2>1. SUFFICES ASSUME NEW i \in 1 .. Len(q) - 1
                 PROVE  r[i] = IF i < p THEN q[i] ELSE q[i + 1]
    OBVIOUS
  <2>2. r[i] = IF i <= p - 1 THEN a[i] ELSE b[i - (p - 1)]
    <3>1. i \in 1 .. Len(a) + Len(b)
      BY <1>1, <1>2, <1>3, <2>1
    <3>2. r[i] = IF i <= Len(a) THEN a[i] ELSE b[i - Len(a)]
      BY <1>4, <3>1
    <3>3. QED
      BY <1>2, <3>2
  <2>3. CASE i < p
    <3>1. i <= p - 1 /\ i \in 1 .. p - 1
      BY <1>1, <2>1, <2>3
    <3>2. QED
      BY <1>2, <2>2, <2>3, <3>1
  <2>4. CASE ~(i < p)
    <3>1. ~(i <= p - 1) /\ i - (p - 1) \in 1 .. Len(q) - p /\ p + (i - (p - 1)) = i + 1
      BY <1>1, <2>1, <2>4
    <3>2. QED
      BY <1>3, <2>2, <2>4, <3>1
  <2>5. QED
    BY <2>3, <2>4
<1>7. Decreasing(r)
  <2>1. SUFFICES ASSUME NEW i \in 1 .. Len(q) - 1, NEW j \in 1 .. Len(q) - 1, i < j PROVE r[i] > r[j]
    BY <1>5 DEF Decreasing
  <2>2. \A k, l \in 1 .. Len(q) : k < l => q[k] > q[l]
    BY <1>1 DEF Decreasing
  <2>3. QED
    BY <1>1, <1>6, <2>1, <2>2
<1>8. \A i \in DOMAIN q : i # p => q[i] # q[p]
  <2>1. SUFFICES ASSUME NEW i \in 1 .. Len(q), i # p PROVE q[i] # q[p]
    BY <1>1
  <2>2. q[i] \in Nat /\ q[p] \in Nat
    BY <1>0, <1>1
  <2>3. i < p \/ p < i
    BY <1>1, <2>1
  <2>4. q[i] > q[p] \/ q[p] > q[i]
    BY <1>1, <2>3 DEF Decreasing
  <2>5. QED
    BY <2>2, <2>4
<1>9. ASSUME NEW y PROVE In(r, y) <=> y # q[p] /\ In(q, y)
  <2>1. ASSUME NEW i \in DOMAIN r, r[i] = y PROVE y # q[p] /\ In(q, y)
    <3>1. CASE i < p
      BY <1>1, <1>5, <1>6, <1>8, <2>1, <3>1 DEF In
    <3>2. CASE ~(i < p)
      <4>1. i + 1 \in DOMAIN q /\ i + 1 # p /\ y = q[i + 1]
        BY <1>1, <1>5, <1>6, <2>1, <3>2
      <4>2. QED
        BY <1>8, <4>1 DEF In
    <3>3. QED
      BY <3>1, <3>2
  <2>2. ASSUME NEW i \in DOMAIN q, q[i] = y, y # q[p] PROVE In(r, y)
    <3>1. CASE i < p
      <4>1. i \in DOMAIN r /\ r[i] = y
        BY <1>1, <1>5, <1>6, <2>2, <3>1
      <4>2. QED
        BY <4>1 DEF In
    <3>2. CASE ~(i < p)
      <4>1. i - 1 \in DOMAIN r /\ r[i - 1] = y
        BY <1>1, <1>5, <1>6, <2>2, <3>2
      <4>2. QED
        BY <4>1 DEF In
    <3>3. QED
      BY <3>1, <3>2
  <2>3. QED
    BY <2>1, <2>2 DEF In
<1>10. QED
  BY <1>4, <1>7, <1>9 DEF r, a, b

(* The walk goes down the list: between a node and the one after it there  *)
(* is no other.                                                            *)
LEMMA AfterNode ==
  ASSUME timer_list \in Seq(TimerIds), Decreasing(timer_list), NEW n, In(timer_list, n)
  PROVE  /\ Pos(n) \in DOMAIN timer_list /\ timer_list[Pos(n)] = n
         /\ After(n) = NoNode \/ (In(timer_list, After(n)) /\ After(n) # n)
         /\ \A id : In(timer_list, id) => id >= n \/ (After(n) # NoNode /\ id <= After(n))
<1>1. Pos(n) \in DOMAIN timer_list /\ timer_list[Pos(n)] = n
  BY DEF In, Pos
<1>2. /\ DOMAIN timer_list = 1 .. Len(timer_list) /\ Len(timer_list) \in Nat
      /\ \A i \in DOMAIN timer_list : timer_list[i] \in Nat \ {0}
  <2>1. DOMAIN timer_list = 1 .. Len(timer_list) /\ Len(timer_list) \in Nat
    BY LenProperties
  <2>2. \A i \in 1 .. Len(timer_list) : timer_list[i] \in TimerIds
    BY ElementOfSeq
  <2>3. TimerIds \subseteq Nat \ {0}
    BY LoopAssumption DEF TimerIds
  <2>4. QED
    BY <2>1, <2>2, <2>3
<1>3. PICK p \in 1 .. Len(timer_list) : p = Pos(n) /\ timer_list[p] = n
  BY <1>1, <1>2
<1>4. After(n) = IF p = Len(timer_list) THEN NoNode ELSE timer_list[p + 1]
  BY <1>3 DEF After
<1>5. p # Len(timer_list) => p + 1 \in DOMAIN timer_list /\ timer_list[p + 1] # n /\ timer_list[p + 1] # NoNode
  <2>1. SUFFICES ASSUME p # Len(timer_list)
                 PROVE  /\ p + 1 \in DOMAIN timer_list
                        /\ timer_list[p + 1] # n /\ timer_list[p + 1] # NoNode
    OBVIOUS
  <2>2. p \in DOMAIN timer_list /\ p + 1 \in DOMAIN timer_list /\ p < p + 1
    BY <1>2, <1>3, <2>1
  <2>3. timer_list[p] > timer_list[p + 1]
    BY <2>2 DEF Decreasing
  <2>4. timer_list[p] \in Nat /\ timer_list[p + 1] \in Nat \ {0}
    BY <1>2, <2>2
  <2>5. QED
    BY <1>3, <2>2, <2>3, <2>4 DEF NoNode
<1>6. ASSUME NEW i \in DOMAIN timer_list
      PROVE  timer_list[i] >= n \/ (p # Len(timer_list) /\ timer_list[i] <= timer_list[p + 1])
  <2>1. CASE i <= p
    <3>1. i = p \/ timer_list[i] > timer_list[p]
      <4>1. p \in DOMAIN timer_list /\ (i = p \/ i < p)
        BY <1>2, <1>3, <1>6, <2>1
      <4>2. QED
        BY <1>6, <4>1 DEF Decreasing
    <3>2. timer_list[i] \in Nat /\ timer_list[p] \in Nat
      BY <1>2, <1>3
    <3>3. QED
      BY <1>3, <3>1, <3>2
  <2>2. CASE i > p
    <3>1. p # Len(timer_list) /\ (i = p + 1 \/ timer_list[p + 1] > timer_list[i])
      <4>1. p # Len(timer_list) /\ (i = p + 1 \/ p + 1 < i)
        BY <1>2, <1>3, <1>6, <2>2
      <4>2. QED
        BY <1>5, <1>6, <4>1 DEF Decreasing
    <3>2. timer_list[i] \in Nat /\ timer_list[p + 1] \in Nat
      BY <1>2, <1>5, <3>1
    <3>3. QED
      BY <3>1, <3>2
  <2>3. i \in Nat /\ p \in Nat
    BY <1>2, <1>3, <1>6
  <2>4. QED
    BY <2>1, <2>2, <2>3
<1>7. QED
  BY <1>1, <1>4, <1>5, <1>6 DEF In

(* The walk begins at the newest timer. *)
LEMMA FirstNode ==
  ASSUME timer_list \in Seq(TimerIds), Decreasing(timer_list)
  PROVE  /\ First = NoNode \/ In(timer_list, First)
         /\ \A id \in TimerIds : In(timer_list, id) => ~(id > First)
<1>1. CASE timer_list = <<>>
  BY <1>1 DEF First, In
<1>2. CASE timer_list # <<>>
  <2>1. /\ DOMAIN timer_list = 1 .. Len(timer_list) /\ Len(timer_list) \in Nat \ {0}
        /\ First = timer_list[1]
    BY <1>2 DEF First
  <2>2. \A i \in DOMAIN timer_list : timer_list[i] \in Nat
    <3>1. \A i \in 1 .. Len(timer_list) : timer_list[i] \in TimerIds
      BY ElementOfSeq
    <3>2. TimerIds \subseteq Nat
      BY LoopAssumption DEF TimerIds
    <3>3. QED
      BY <2>1, <3>1, <3>2
  <2>3. 1 \in DOMAIN timer_list
    BY <2>1
  <2>4. ASSUME NEW i \in DOMAIN timer_list PROVE ~(timer_list[i] > First)
    <3>1. i = 1 \/ 1 < i
      BY <2>1, <2>4
    <3>2. i = 1 \/ timer_list[1] > timer_list[i]
      BY <2>3, <2>4, <3>1 DEF Decreasing
    <3>3. timer_list[1] \in Nat /\ timer_list[i] \in Nat
      BY <2>2, <2>3, <2>4
    <3>4. QED
      BY <2>1, <3>2, <3>3
  <2>5. QED
    BY <2>1, <2>3, <2>4 DEF In
<1>3. QED
  BY <1>1, <1>2

-----------------------------------------------------------------------------
(* The inductive invariant.                                                *)

Linked(id) == In(timer_list, id)

TypeJobs == nextJob \in 1..MaxJobs + 1 /\ lastRun \in 0..MaxJobs

TypeTimers ==
  /\ timer_list \in Seq(TimerIds) /\ timer \in [TimerIds -> TimerNode]
  /\ nextTimer \in 1..MaxTimers + 1 /\ fires \in [TimerIds -> 0..2]
  /\ userCleared \subseteq TimerIds /\ due \subseteq TimerIds

TypeLoop ==
  /\ pending \in BOOLEAN /\ stop \in BOOLEAN
  /\ stack \in Seq({"script", "job", "timer", "message"}) /\ Len(stack) <= MaxDepth
  /\ pc \in {"host", "drain", "top", "jobs", "walk", "fired", "poll", "mail", "decide",
             "exited", "freed"}
  /\ variant \in {"run", "timeout"} /\ drained \in 0..JobCap
  /\ has_jobs \in BOOLEAN /\ has_pending \in BOOLEAN /\ alive \in BOOLEAN
  /\ mail \in 0..MaxMail
  /\ exit \in {"none", "stop", "idle", "timeout"} /\ called \in BOOLEAN

(* Microtasks: a run from the one after lastRun on. *)
JobsKept == lastRun < nextJob /\ jobs = Run(lastRun, nextJob - 1 - lastRun)

(* The list goes from new to old; what has left it has fired or was        *)
(* cleared.                                                                *)
ListKept ==
  /\ Decreasing(timer_list) /\ \A id \in TimerIds : Linked(id) => id < nextTimer
  /\ pc # "freed" => \A id \in 1 .. nextTimer - 1 : Linked(id) \/ fires[id] > 0 \/ id \in userCleared

(* The cursor of the walk, and the timer whose callback runs. *)
CursorKept ==
  /\ node = NoNode \/ Linked(node)
  /\ pc \notin {"walk", "fired"} => node = NoNode
  /\ pc = "fired" => node # NoNode /\ fires[node] > 0 /\ called

(* Why a node is marked, and when a timeout has fired. *)
FiresKept ==
  \A id \in TimerIds :
    /\ timer[id].cleared => fires[id] > 0 \/ id \in userCleared
    /\ id \in userCleared => timer[id].cleared /\ id < nextTimer
    /\ id >= nextTimer => fires[id] = 0
    /\ ~timer[id].interval /\ fires[id] > 0 =>
         fires[id] = 1 /\ (timer[id].cleared \/ (pc = "fired" /\ node = id))

(* Where JavaScript may run. *)
StackKept ==
  stack # <<>> => /\ pc \in {"drain", "jobs", "fired", "mail"}
                  /\ pc = "mail" => called

(* A pass that has called no callback knows what is left: no microtask,    *)
(* and has_pending tells of every timer that the walk has passed.          *)
PassKept ==
  ~called =>
    /\ pc \in {"walk", "poll", "mail", "decide"} => jobs = <<>>
    /\ pc = "walk" => \A id \in TimerIds : Active(id) /\ id > node => has_pending
    /\ pc \in {"poll", "mail", "decide"} => \A id \in TimerIds : Active(id) => pending
    /\ pc = "exited" /\ exit = "idle" =>
         jobs = <<>> /\ (\A id \in TimerIds : ~Active(id)) /\ ~alive

LoopInv ==
  /\ TypeJobs /\ TypeTimers /\ TypeLoop
  /\ JobsKept /\ ListKept /\ CursorKept /\ FiresKept /\ StackKept /\ PassKept

-----------------------------------------------------------------------------
(* What the steps have in common.                                          *)

CallKinds == {"script", "job", "timer", "message"}

(* A call is pushed. *)
LEMMA Push ==
  ASSUME stack \in Seq(CallKinds), NEW kind \in CallKinds
  PROVE  /\ Append(stack, kind) \in Seq(CallKinds) /\ Append(stack, kind) # <<>>
         /\ Len(Append(stack, kind)) = Len(stack) + 1 /\ Len(stack) \in Nat
         /\ stack = <<>> => Len(stack) = 0
<1>1. Append(stack, kind) \in Seq(CallKinds) /\ Len(Append(stack, kind)) = Len(stack) + 1
  BY AppendProperties
<1>2. Len(stack) \in Nat /\ (stack = <<>> => Len(stack) = 0)
  BY LenProperties, EmptySeq
<1>3. Append(stack, kind) # <<>>
  BY <1>1, <1>2
<1>4. QED
  BY <1>1, <1>2, <1>3

(* A call returns. *)
LEMMA Pop ==
  ASSUME stack \in Seq(CallKinds), stack # <<>>
  PROVE  /\ SubSeq(stack, 1, Len(stack) - 1) \in Seq(CallKinds)
         /\ Len(SubSeq(stack, 1, Len(stack) - 1)) = Len(stack) - 1
         /\ Len(stack) \in Nat \ {0}
<1>1. Len(stack) \in Nat \ {0} /\ \A i \in 1 .. Len(stack) - 1 : stack[i] \in CallKinds
  OBVIOUS
<1>2. 1 \in Int /\ Len(stack) - 1 \in Int
  BY <1>1
<1>3. /\ SubSeq(stack, 1, Len(stack) - 1) \in Seq(CallKinds)
      /\ Len(SubSeq(stack, 1, Len(stack) - 1)) =
           IF 1 <= Len(stack) - 1 THEN Len(stack) - 1 - 1 + 1 ELSE 0
  BY <1>1, <1>2, SubSeqProperties
<1>4. PICK n \in Nat : n = Len(stack) /\ n # 0
  BY <1>1
<1>5. (IF 1 <= n - 1 THEN n - 1 - 1 + 1 ELSE 0) = n - 1
  BY <1>4
<1>6. QED
  BY <1>1, <1>3, <1>4, <1>5

(* lr_execute_pending_job takes the oldest microtask. *)
LEMMA StartKeeps ==
  ASSUME TypeJobs, JobsKept, StartJob
  PROVE  TypeJobs' /\ JobsKept' /\ jobs # <<>> /\ stack' = Append(stack, "job")
<1>1. jobs # <<>> /\ lastRun' = Head(jobs) /\ jobs' = Tail(jobs) /\ nextJob' = nextJob
  BY DEF StartJob
<1>2. nextJob \in Nat /\ lastRun \in Nat /\ MaxJobs \in Nat /\ nextJob - 1 - lastRun \in Nat
  BY LoopAssumption DEF TypeJobs, JobsKept
<1>3. /\ nextJob - 1 - lastRun # 0 /\ lastRun' = lastRun + 1
      /\ jobs' = Run(lastRun + 1, nextJob - 1 - lastRun - 1)
  BY <1>1, <1>2, RunTail DEF JobsKept
<1>4. lastRun' < nextJob' /\ nextJob' - 1 - lastRun' = nextJob - 1 - lastRun - 1
  BY <1>1, <1>2, <1>3
<1>5. JobsKept'
  BY <1>3, <1>4 DEF JobsKept
<1>6. TypeJobs'
  BY <1>1, <1>2, <1>3, <1>4 DEF TypeJobs
<1>7. QED
  BY <1>1, <1>5, <1>6 DEF StartJob, Enter

-----------------------------------------------------------------------------
(* The invariant holds at first. *)
LEMMA LoopStart == Init => LoopInv
<1> SUFFICES ASSUME Init PROVE LoopInv
  OBVIOUS
<1> USE LoopAssumption DEF Init
<1>1. TypeJobs
  BY DEF TypeJobs
<1>2. TypeTimers
  BY DEF TypeTimers, TimerNode
<1>3. TypeLoop
  <2>1. /\ stack \in Seq({"script", "job", "timer", "message"})
        /\ Len(stack) <= MaxDepth /\ 0 \in 0..JobCap /\ 0 \in 0..MaxMail
    BY EmptySeq
  <2>2. QED
    BY <2>1 DEF TypeLoop
<1>4. JobsKept
  BY DEF JobsKept, Run
<1>5. ListKept
  BY DEF ListKept, Linked, In, Decreasing
<1>6. CursorKept /\ FiresKept
  BY DEF CursorKept, FiresKept, TimerIds
<1>7. StackKept /\ PassKept
  BY DEF StackKept, PassKept
<1>8. QED
  BY <1>1, <1>2, <1>3, <1>4, <1>5, <1>6, <1>7 DEF LoopInv

(* Every step keeps it. *)
LEMMA LoopStepKeeps == LoopInv /\ [Next]_vars => LoopInv'
<1>0. SUFFICES ASSUME TypeJobs, TypeTimers, TypeLoop, JobsKept, ListKept, CursorKept, FiresKept,
                      StackKept, PassKept, [Next]_vars
               PROVE  LoopInv'
  BY DEF LoopInv
<1> USE <1>0
<1>st. stack \in Seq(CallKinds) /\ Len(stack) <= MaxDepth
  BY DEF TypeLoop, CallKinds
<1>js. stack # <<>> => /\ pc \in {"drain", "jobs", "fired", "mail"}
                       /\ pc \in {"fired", "mail"} => called
  BY DEF StackKept, CursorKept
<1>1. ASSUME EnqueueJob
      PROVE  LoopInv'
  <2>1. nextJob <= MaxJobs /\ jobs' = Append(jobs, nextJob) /\ nextJob' = nextJob + 1 /\ UNCHANGED lastRun
    BY <1>1 DEF EnqueueJob
  <2>2. TypeJobs' /\ JobsKept'
    <3>1. nextJob \in Nat \ {0} /\ lastRun \in Nat /\ MaxJobs \in Nat
      BY LoopAssumption DEF TypeJobs
    <3>2. TypeJobs'
      BY <2>1, <3>1 DEF TypeJobs
    <3>3. /\ nextJob - 1 - lastRun \in Nat /\ lastRun + (nextJob - 1 - lastRun) + 1 = nextJob
          /\ (nextJob - 1 - lastRun) + 1 = nextJob' - 1 - lastRun /\ lastRun < nextJob'
      BY <2>1, <3>1 DEF JobsKept
    <3>4. jobs' = Run(lastRun, nextJob' - 1 - lastRun)
      BY <2>1, <3>1, <3>3, RunAppend DEF JobsKept
    <3>5. QED
      BY <2>1, <3>2, <3>3, <3>4 DEF JobsKept
  <2>3. PassKept'
    <3>1. stack # <<>> /\ pc' = pc /\ called' = called
      BY <1>1 DEF EnqueueJob, InJS, loopVars
    <3>2. pc \in {"drain", "jobs"} \/ called
      BY <1>js, <3>1
    <3>3. CASE called
      BY <3>1, <3>3 DEF PassKept
    <3>4. CASE pc \in {"drain", "jobs"}
      BY <3>1, <3>4 DEF PassKept
    <3>5. QED
      BY <3>2, <3>3, <3>4
  <2>4. TypeTimers' /\ TypeLoop' /\ ListKept' /\ CursorKept' /\ FiresKept' /\ StackKept'
    BY <1>1 DEF EnqueueJob, TypeTimers, TypeLoop, ListKept, Linked, In, Decreasing, CursorKept,
        Linked, In, FiresKept, StackKept, jobVars, timerVars, walkVars, loopVars, At, InJS
  <2>5. QED
    BY <2>1, <2>2, <2>3, <2>4 DEF LoopInv
<1>2. ASSUME NEW interval \in BOOLEAN, NEW d \in 0..MaxDelay, SetTimer(interval, d)
      PROVE  LoopInv'
  <2>1. /\ nextTimer \in TimerIds /\ nextTimer' = nextTimer + 1
        /\ timer_list' = <<nextTimer>> \o timer_list
    BY <1>2, LoopAssumption DEF SetTimer, TypeTimers, TimerIds
  <2>2. /\ timer' \in [TimerIds -> TimerNode] /\ ~timer'[nextTimer].cleared
        /\ \A id \in TimerIds : id # nextTimer => timer'[id] = timer[id]
    BY <1>2, <2>1, LoopAssumption DEF SetTimer, TypeTimers, TimerNode
  <2>3. /\ timer_list' \in Seq(TimerIds) /\ Decreasing(timer_list')
        /\ \A y : In(timer_list', y) <=> y = nextTimer \/ In(timer_list, y)
    <3>1. TimerIds \in SUBSET Nat /\ timer_list \in Seq(TimerIds)
      BY LoopAssumption DEF TimerIds, TypeTimers
    <3>2. Decreasing(timer_list) /\ \A i \in DOMAIN timer_list : timer_list[i] < nextTimer
      <4>1. \A i \in DOMAIN timer_list : timer_list[i] \in TimerIds
        BY <3>1, ElementOfSeq, LenProperties
      <4>2. QED
        BY <4>1 DEF ListKept, Linked, In
    <3>3. QED
      BY <2>1, <3>1, <3>2, PushFront
  <2>4. TypeTimers'
    <3>1. nextTimer' \in 1..MaxTimers + 1
      BY <2>1, LoopAssumption DEF TimerIds
    <3>2. UNCHANGED <<fires, userCleared, due>>
      BY <1>2 DEF SetTimer, walkVars
    <3>3. QED
      BY <2>2, <2>3, <3>1, <3>2 DEF TypeTimers
  <2>5. ListKept'
    <3>1. \A id \in TimerIds : Linked(id)' => id < nextTimer'
      BY <2>1, <2>3, SMTT(30) DEF ListKept, Linked, TypeTimers, TimerIds
    <3>2. \A id \in 1 .. nextTimer' - 1 : id = nextTimer \/ id \in 1 .. nextTimer - 1
      BY <2>1 DEF TypeTimers
    <3>3. UNCHANGED <<fires, userCleared, pc>>
      BY <1>2 DEF SetTimer, loopVars
    <3>4. QED
      BY <2>3, <3>1, <3>2, <3>3 DEF ListKept, Linked
  <2>6. CursorKept'
    BY <1>2, <2>3 DEF SetTimer, CursorKept, Linked, jobVars, timerVars, walkVars, loopVars
  <2>7. FiresKept'
    <3>1. UNCHANGED <<fires, userCleared, pc, node>>
      BY <1>2 DEF SetTimer, loopVars, walkVars
    <3>2. fires[nextTimer] = 0 /\ nextTimer \notin userCleared
      BY <2>1 DEF FiresKept, TypeTimers
    <3>3. ASSUME NEW id \in TimerIds
          PROVE  /\ timer[id]'.cleared => fires'[id] > 0 \/ id \in userCleared'
                 /\ id \in userCleared' => timer[id]'.cleared /\ id < nextTimer'
                 /\ id >= nextTimer' => fires'[id] = 0
                 /\ ~timer[id]'.interval /\ fires'[id] > 0 =>
                      fires'[id] = 1 /\ (timer[id]'.cleared \/ (pc' = "fired" /\ node' = id))
      <4>1. CASE id = nextTimer
        BY <2>1, <2>2, <3>1, <3>2, <4>1
      <4>2. CASE id # nextTimer
        <5>1. nextTimer \in Nat /\ id \in Nat /\ (id < nextTimer => id < nextTimer') /\ (id >= nextTimer' => id >= nextTimer)
          BY <2>1, <3>3 DEF TypeTimers, TimerIds
        <5>2. timer'[id] = timer[id]
          BY <2>2, <3>3, <4>2
        <5>3. QED
          BY <3>1, <3>3, <5>1, <5>2 DEF FiresKept
      <4>3. QED
        BY <4>1, <4>2
    <3>4. QED
      BY <3>3 DEF FiresKept
  <2>8. PassKept'
    <3>1. stack # <<>> /\ pc' = pc /\ called' = called
      BY <1>2 DEF SetTimer, InJS, loopVars
    <3>2. pc \in {"drain", "jobs"} \/ called
      BY <1>js, <3>1
    <3>3. CASE called
      BY <3>1, <3>3 DEF PassKept
    <3>4. CASE pc \in {"drain", "jobs"}
      BY <3>1, <3>4 DEF PassKept
    <3>5. QED
      BY <3>2, <3>3, <3>4
  <2>9. TypeJobs' /\ TypeLoop' /\ JobsKept' /\ StackKept'
    BY <1>2 DEF SetTimer, TypeJobs, TypeLoop, JobsKept, StackKept, jobVars, timerVars, walkVars,
        loopVars, At, InJS
  <2>10. QED
    BY <2>1, <2>2, <2>3, <2>4, <2>5, <2>6, <2>7, <2>8, <2>9 DEF LoopInv
<1>3. ASSUME NEW id \in TimerIds, ClearTimer(id)
      PROVE  LoopInv'
  <2>1. /\ timer' \in [TimerIds -> TimerNode] /\ timer'[id].cleared /\ timer'[id].interval = timer[id].interval
        /\ \A i \in TimerIds : i # id => timer'[i] = timer[i]
    BY <1>3 DEF ClearTimer, TypeTimers, TimerNode
  <2>2. id < nextTimer /\ userCleared' = userCleared \cup {id} /\ UNCHANGED <<nextTimer, fires, pc, node>>
    BY <1>3 DEF ClearTimer, ListKept, Linked, In, walkVars, loopVars
  <2>3. TypeTimers'
    BY <1>3, <2>1 DEF ClearTimer, TypeTimers, walkVars
  <2>4. FiresKept'
    BY <1>3, <2>1, <2>2 DEF FiresKept
  <2>5. PassKept'
    BY <1>3, <1>js DEF ClearTimer, PassKept, Active, jobVars, timerVars, walkVars, loopVars, At,
        InJS
  <2>6. TypeJobs' /\ TypeLoop' /\ JobsKept' /\ ListKept' /\ CursorKept' /\ StackKept'
    BY <1>3 DEF ClearTimer, TypeJobs, TypeLoop, JobsKept, ListKept, Linked, In, Decreasing,
        CursorKept, Linked, In, StackKept, jobVars, timerVars, walkVars, loopVars, At, InJS
  <2>7. QED
    BY <2>1, <2>2, <2>3, <2>4, <2>5, <2>6 DEF LoopInv
<1>4. ASSUME AwaitJob
      PROVE  LoopInv'
  <2>1. TypeJobs' /\ JobsKept' /\ jobs # <<>> /\ stack' = Append(stack, "job")
    BY <1>4, StartKeeps DEF AwaitJob
  <2>2. stack' \in Seq(CallKinds) /\ Len(stack') <= MaxDepth
    BY <1>4, <2>1, <1>st, Push, LoopAssumption DEF AwaitJob, CallKinds
  <2>3. TypeLoop'
    BY <1>4, <2>2 DEF AwaitJob, TypeLoop, CallKinds, loopVars, walkVars
  <2>4. UNCHANGED <<timerVars, walkVars, loopVars, pending, stop>>
    BY <1>4 DEF AwaitJob
  <2>5. StackKept'
    BY <1>4, <1>js DEF AwaitJob, StackKept, StartJob, jobVars, timerVars, walkVars, loopVars,
        At, InJS
  <2>6. PassKept'
    BY <1>4, <1>js DEF AwaitJob, PassKept, Active, StartJob, jobVars, timerVars, walkVars,
        loopVars, At, InJS
  <2>7. TypeTimers' /\ ListKept' /\ CursorKept' /\ FiresKept'
    BY <1>4 DEF AwaitJob, TypeTimers, ListKept, Linked, In, Decreasing, CursorKept, Linked, In,
        FiresKept, jobVars, timerVars, walkVars, loopVars, At, InJS
  <2>8. QED
    BY <2>1, <2>2, <2>3, <2>4, <2>5, <2>6, <2>7 DEF LoopInv
<1>5. ASSUME Return
      PROVE  LoopInv'
  <2>1. stack' \in Seq(CallKinds) /\ Len(stack') <= MaxDepth
    BY <1>5, <1>st, Pop, LoopAssumption DEF Return, InJS
  <2>2. TypeLoop'
    BY <1>5, <2>1 DEF Return, TypeLoop, CallKinds, loopVars, walkVars
  <2>3. StackKept'
    BY <1>5, <1>js DEF Return, StackKept, jobVars, timerVars, walkVars, loopVars, At, InJS
  <2>4. TypeJobs' /\ TypeTimers' /\ JobsKept' /\ ListKept' /\ CursorKept' /\ FiresKept' /\
      PassKept'
    BY <1>5 DEF Return, TypeJobs, TypeTimers, JobsKept, ListKept, Linked, In, Decreasing,
        CursorKept, Linked, In, FiresKept, PassKept, Active, jobVars, timerVars, walkVars,
        loopVars, At, InJS
  <2>5. QED
    BY <2>1, <2>2, <2>3, <2>4 DEF LoopInv
<1>6. ASSUME HostEval
      PROVE  LoopInv'
  <2>1. stack = <<>> /\ stack' \in Seq(CallKinds) /\ Len(stack') <= MaxDepth
    BY <1>6, <1>st, Push, LoopAssumption DEF HostEval, At, InJS, Enter, CallKinds
  <2>2. TypeLoop'
    BY <1>6, <2>1, LoopAssumption DEF HostEval, TypeLoop, At, CallKinds, At, jobVars, timerVars,
        walkVars, loopVars, At, InJS
  <2>3. TypeJobs' /\ TypeTimers' /\ JobsKept' /\ ListKept' /\ CursorKept' /\ FiresKept' /\
      StackKept' /\ PassKept'
    BY <1>6 DEF HostEval, TypeJobs, TypeTimers, JobsKept, ListKept, Linked, In, Decreasing,
        CursorKept, Linked, In, FiresKept, StackKept, PassKept, Active, jobVars, timerVars,
        walkVars, loopVars, At, InJS
  <2>4. QED
    BY <2>1, <2>2, <2>3 DEF LoopInv
<1>7. ASSUME Drain
      PROVE  LoopInv'
  <2>1. CASE StartJob /\ drained < JobCap /\ drained' = drained + 1 /\ UNCHANGED pc
    <3>1. TypeJobs' /\ JobsKept' /\ stack' = Append(stack, "job") /\ stack = <<>>
      BY <1>7, <2>1, StartKeeps DEF Drain, At, InJS
    <3>2. stack' \in Seq(CallKinds) /\ Len(stack') <= MaxDepth
      BY <3>1, <1>st, Push, LoopAssumption DEF CallKinds
    <3>3. drained' \in 0..JobCap
      BY <2>1, LoopAssumption DEF TypeLoop
    <3>4. TypeLoop'
      BY <1>7, <2>1, <3>2, <3>3 DEF Drain, TypeLoop, CallKinds, walkVars
    <3>5. TypeTimers' /\ ListKept' /\ CursorKept' /\ FiresKept' /\ StackKept' /\ PassKept'
      BY <1>7, <2>1 DEF Drain, At, InJS, TypeTimers, ListKept, Linked, In, Decreasing, CursorKept,
        FiresKept, StackKept, PassKept, Active, timerVars, walkVars
    <3>6. QED
      BY <3>1, <3>4, <3>5 DEF LoopInv
  <2>2. CASE pc' = "host" /\ drained' = 0 /\ UNCHANGED <<jobVars, stack>>
    BY <1>7, <2>2, LoopAssumption DEF Drain, At, InJS, LoopInv, TypeJobs, TypeTimers, TypeLoop, JobsKept,
      ListKept, Linked, In, Decreasing, CursorKept, FiresKept, StackKept, PassKept, Active,
      jobVars, timerVars, walkVars
  <2>3. QED
    BY <1>7, <2>1, <2>2 DEF Drain
<1>8. ASSUME NEW v \in {"run", "timeout"}, HostRun(v)
      PROVE  LoopInv'
  <2>1. TypeJobs' /\ TypeTimers' /\ TypeLoop' /\ JobsKept' /\ ListKept' /\ CursorKept' /\
      FiresKept' /\ StackKept' /\ PassKept'
    BY <1>8 DEF HostRun, TypeJobs, TypeTimers, TypeLoop, JobsKept, ListKept, Linked, In,
        Decreasing, CursorKept, Linked, In, FiresKept, StackKept, PassKept, Active, jobVars,
        timerVars, walkVars, loopVars, At, InJS
  <2>2. QED
    BY <2>1 DEF LoopInv
<1>9. ASSUME HostResume
      PROVE  LoopInv'
  <2>1. TypeJobs' /\ TypeTimers' /\ TypeLoop' /\ JobsKept' /\ ListKept' /\ CursorKept' /\
      FiresKept' /\ StackKept' /\ PassKept'
    BY <1>9 DEF HostResume, TypeJobs, TypeTimers, TypeLoop, JobsKept, ListKept, Linked, In,
        Decreasing, CursorKept, Linked, In, FiresKept, StackKept, PassKept, Active, jobVars,
        timerVars, walkVars, loopVars, At, InJS
  <2>2. QED
    BY <2>1 DEF LoopInv
<1>10. ASSUME HostFree
       PROVE  LoopInv'
  <2>1. TypeJobs' /\ TypeTimers' /\ TypeLoop' /\ JobsKept' /\ ListKept' /\ CursorKept' /\
      FiresKept' /\ StackKept' /\ PassKept'
    BY <1>10 DEF HostFree, TypeJobs, TypeTimers, TypeLoop, JobsKept, ListKept, Linked, In,
        Decreasing, CursorKept, Linked, In, FiresKept, StackKept, PassKept, Active, jobVars,
        timerVars, walkVars, loopVars, At, InJS
  <2>2. QED
    BY <2>1 DEF LoopInv
<1>11. ASSUME Stop
       PROVE  LoopInv'
  <2>1. TypeJobs' /\ TypeTimers' /\ TypeLoop' /\ JobsKept' /\ ListKept' /\ CursorKept' /\
      FiresKept' /\ StackKept' /\ PassKept'
    BY <1>11 DEF Stop, TypeJobs, TypeTimers, TypeLoop, JobsKept, ListKept, Linked, In,
        Decreasing, CursorKept, Linked, In, FiresKept, StackKept, PassKept, Active, jobVars,
        timerVars, walkVars, loopVars, At, InJS
  <2>2. QED
    BY <2>1 DEF LoopInv
<1>12. ASSUME LoopTop
       PROVE  LoopInv'
  <2>1. TypeLoop'
    BY <1>12 DEF LoopTop, TypeLoop, Leave, jobVars, timerVars, walkVars, loopVars, At, InJS
  <2>2. StackKept'
    BY <1>12 DEF LoopTop, StackKept, Leave, jobVars, timerVars, walkVars, loopVars, At, InJS
  <2>3. PassKept'
    BY <1>12 DEF LoopTop, PassKept, Active, Leave, jobVars, timerVars, walkVars, loopVars, At,
        InJS
  <2>4. CursorKept'
    BY <1>12 DEF LoopTop, CursorKept, Linked, In, Leave, jobVars, timerVars, walkVars, loopVars,
        At, InJS
  <2>5. TypeJobs' /\ TypeTimers' /\ JobsKept' /\ ListKept' /\ FiresKept'
    BY <1>12 DEF LoopTop, TypeJobs, TypeTimers, JobsKept, ListKept, Linked, In, Decreasing,
        FiresKept, jobVars, timerVars, walkVars, loopVars, At, InJS
  <2>6. QED
    BY <2>1, <2>2, <2>3, <2>4, <2>5 DEF LoopInv
<1>13. ASSUME LoopJob
       PROVE  LoopInv'
  <2>1. TypeJobs' /\ JobsKept' /\ jobs # <<>> /\ stack' = Append(stack, "job")
    BY <1>13, StartKeeps DEF LoopJob
  <2>2. stack = <<>> /\ stack' \in Seq(CallKinds) /\ Len(stack') <= MaxDepth
    BY <1>13, <2>1, <1>st, Push, LoopAssumption DEF LoopJob, At, InJS, CallKinds
  <2>3. TypeLoop'
    BY <1>13, <2>2 DEF LoopJob, TypeLoop, CallKinds, walkVars
  <2>4. TypeTimers'
    BY <1>13 DEF LoopJob, TypeTimers, jobVars, timerVars, walkVars, loopVars, At, InJS
  <2>5. ListKept'
    BY <1>13 DEF LoopJob, ListKept, Linked, In, Decreasing, jobVars, timerVars, walkVars,
        loopVars, At, InJS
  <2>6. CursorKept'
    BY <1>13 DEF LoopJob, CursorKept, Linked, In, jobVars, timerVars, walkVars, loopVars, At,
        InJS
  <2>7. FiresKept'
    BY <1>13 DEF LoopJob, FiresKept, jobVars, timerVars, walkVars, loopVars, At, InJS
  <2>8. StackKept'
    BY <1>13 DEF LoopJob, StackKept, jobVars, timerVars, walkVars, loopVars, At, InJS
  <2>9. PassKept'
    BY <1>13 DEF LoopJob, PassKept, Active, jobVars, timerVars, walkVars, loopVars, At, InJS
  <2>10. QED
    BY <2>1, <2>2, <2>3, <2>4, <2>5, <2>6, <2>7, <2>8, <2>9 DEF LoopInv
<1>14. ASSUME LoopJobsDone
       PROVE  LoopInv'
  <2>1. /\ First = NoNode \/ Linked(First)
        /\ \A id \in TimerIds : Linked(id) => ~(id > First)
    BY FirstNode DEF TypeTimers, ListKept, Linked
  <2>2. CursorKept'
    BY <1>14, <2>1 DEF LoopJobsDone, CursorKept, Linked, In, jobVars, timerVars, walkVars,
        loopVars, At, InJS
  <2>3. PassKept'
    <3>1. jobs' = <<>> /\ pc' = "walk" /\ node' = First /\ UNCHANGED <<timer_list, timer>>
      BY <1>14 DEF LoopJobsDone, jobVars, timerVars
    <3>2. \A id \in TimerIds : Active(id)' => ~(id > node')
      BY <2>1, <3>1 DEF Active, Linked, In
    <3>3. QED
      BY <3>1, <3>2 DEF PassKept
  <2>4. TypeJobs' /\ TypeTimers' /\ TypeLoop' /\ JobsKept' /\ ListKept' /\ FiresKept' /\
      StackKept'
    BY <1>14 DEF LoopJobsDone, TypeJobs, TypeTimers, TypeLoop, JobsKept, ListKept, Linked, In,
        Decreasing, FiresKept, StackKept, jobVars, timerVars, walkVars, loopVars, At, InJS
  <2>5. QED
    BY <2>1, <2>2, <2>3, <2>4 DEF LoopInv
<1>15. ASSUME WalkCleared
       PROVE  LoopInv'
  <2>1. /\ Linked(node) /\ node \in TimerIds /\ pc = "walk" /\ stack = <<>> /\ timer[node].cleared
    <3>1. Linked(node)
      BY <1>15 DEF WalkCleared, CursorKept
    <3>2. node \in TimerIds
      BY <3>1 DEF Linked, In, TypeTimers
    <3>3. QED
      BY <1>15, <3>1, <3>2 DEF WalkCleared, At, InJS
  <2>2. /\ Pos(node) \in DOMAIN timer_list /\ timer_list[Pos(node)] = node
        /\ After(node) = NoNode \/ (Linked(After(node)) /\ After(node) # node)
        /\ \A id : Linked(id) => id >= node \/ (After(node) # NoNode /\ id <= After(node))
    BY <2>1, AfterNode DEF TypeTimers, ListKept, Linked
  <2>3. /\ timer_list' \in Seq(TimerIds) /\ Decreasing(timer_list')
        /\ \A y : In(timer_list', y) <=> y # node /\ In(timer_list, y)
    <3>1. TimerIds \in SUBSET Nat /\ timer_list \in Seq(TimerIds) /\ Decreasing(timer_list)
      BY LoopAssumption DEF TimerIds, TypeTimers, ListKept
    <3>2. PICK p \in DOMAIN timer_list : p = Pos(node)
      BY <2>2
    <3>3. timer_list' = SubSeq(timer_list, 1, p - 1) \o SubSeq(timer_list, p + 1, Len(timer_list))
      BY <1>15, <3>2 DEF WalkCleared
    <3>4. QED
      BY <2>2, <3>1, <3>2, <3>3, TakeOut
  <2>4. /\ node' = After(node)
        /\ UNCHANGED <<jobVars, timer, nextTimer, fires, userCleared, due, has_pending, loopVars,
                       pending, stop, stack>>
    BY <1>15 DEF WalkCleared
  <2>5. TypeTimers'
    BY <2>3, <2>4 DEF TypeTimers
  <2>6. ListKept'
    <3>1. fires[node] > 0 \/ node \in userCleared
      BY <2>1 DEF FiresKept
    <3>2. QED
      BY <2>3, <2>4, <3>1 DEF ListKept, Linked, loopVars
  <2>7. CursorKept'
    BY <2>1, <2>2, <2>3, <2>4 DEF CursorKept, Linked, loopVars
  <2>8. PassKept'
    <3>1. ASSUME ~called, NEW id \in TimerIds, Active(id)', id > After(node)
          PROVE  has_pending
      <4>1. Linked(id) /\ id # node /\ Active(id)
        BY <2>3, <2>4, <3>1 DEF Active, Linked, In
      <4>2. id >= node \/ (After(node) # NoNode /\ id <= After(node))
        BY <2>2, <4>1
      <4>3. id \in Nat /\ node \in Nat /\ (After(node) # NoNode => After(node) \in Nat)
        BY <2>1, <2>2, <3>1, LoopAssumption DEF TimerIds, Linked, In, TypeTimers
      <4>4. id > node
        BY <3>1, <4>1, <4>2, <4>3
      <4>5. QED
        BY <2>1, <3>1, <4>1, <4>4 DEF PassKept
    <3>2. QED
      BY <2>1, <2>4, <3>1 DEF PassKept, loopVars, jobVars
  <2>9. FiresKept'
    BY <2>1, <2>4 DEF FiresKept, loopVars
  <2>10. TypeJobs' /\ TypeLoop' /\ JobsKept' /\ StackKept'
    BY <2>4 DEF TypeJobs, TypeLoop, JobsKept, StackKept, loopVars, jobVars
  <2>11. QED
    BY <2>1, <2>2, <2>3, <2>4, <2>5, <2>6, <2>7, <2>8, <2>9, <2>10 DEF LoopInv
<1>16. ASSUME WalkFire
       PROVE  LoopInv'
  <2>1. /\ Linked(node) /\ node \in TimerIds /\ node # NoNode /\ pc = "walk" /\ stack = <<>> /\ ~timer[node].cleared
    <3>1. Linked(node)
      BY <1>16 DEF WalkFire, CursorKept
    <3>2. node \in TimerIds
      BY <3>1 DEF Linked, In, TypeTimers
    <3>3. QED
      BY <1>16, <3>1, <3>2 DEF WalkFire, At, InJS
  <2>2. /\ stack' = Append(stack, "timer") /\ called' = TRUE /\ pc' = "fired"
        /\ UNCHANGED <<jobVars, timer_list, timer, nextTimer, userCleared, walkVars, variant,
                       drained, has_jobs, alive, mail, exit, pending, stop>>
    BY <1>16 DEF WalkFire, Enter
  <2>3. /\ fires' \in [TimerIds -> 0..2] /\ fires'[node] \in 1..2
        /\ ~timer[node].interval => fires'[node] = 1
        /\ \A id \in TimerIds : id # node => fires'[id] = fires[id]
    <3>1. fires' = [fires EXCEPT ![node] = IF timer[node].interval \/ @ = 0 THEN 1 ELSE 2]
      BY <1>16 DEF WalkFire
    <3>2. fires \in [TimerIds -> 0..2]
      BY DEF TypeTimers
    <3>3. ~timer[node].interval => ~(fires[node] > 0)
      BY <2>1 DEF FiresKept
    <3>4. ~timer[node].interval => fires[node] = 0
      BY <2>1, <3>2, <3>3
    <3>5. QED
      BY <2>1, <3>1, <3>2, <3>4
  <2>4. stack' \in Seq(CallKinds) /\ Len(stack') <= MaxDepth
    BY <1>st, <2>1, <2>2, Push, LoopAssumption DEF CallKinds
  <2>5. TypeLoop'
    BY <2>2, <2>4 DEF TypeLoop, CallKinds, walkVars
  <2>6. TypeTimers'
    BY <2>2, <2>3 DEF TypeTimers, walkVars
  <2>7. ListKept'
    <3>1. \A id \in TimerIds : fires[id] > 0 => fires'[id] > 0
      BY <2>1, <2>3
    <3>2. 1 .. nextTimer - 1 \subseteq TimerIds
      BY LoopAssumption DEF TypeTimers, TimerIds
    <3>3. QED
      BY <2>1, <2>2, <3>1, <3>2 DEF ListKept, Linked, In, Decreasing
  <2>8. CursorKept'
    BY <2>1, <2>2, <2>3 DEF CursorKept, Linked, In, walkVars
  <2>9. FiresKept'
    <3>1. node < nextTimer
      BY <2>1 DEF ListKept
    <3>2. ASSUME NEW id \in TimerIds
          PROVE  /\ timer'[id].cleared => fires'[id] > 0 \/ id \in userCleared'
                 /\ id \in userCleared' => timer'[id].cleared /\ id < nextTimer'
                 /\ id >= nextTimer' => fires'[id] = 0
                 /\ ~timer'[id].interval /\ fires'[id] > 0 =>
                      fires'[id] = 1 /\ (timer'[id].cleared \/ (pc' = "fired" /\ node' = id))
      <4>1. CASE id = node
        <5>1. node \in Nat /\ nextTimer \in Nat /\ ~(node >= nextTimer)
          BY <2>1, <3>1 DEF TypeTimers, TimerIds
        <5>2. UNCHANGED <<timer, userCleared, nextTimer, node>> /\ pc' = "fired"
          BY <2>2 DEF walkVars
        <5>3. node \notin userCleared
          BY <2>1 DEF FiresKept
        <5>4. QED
          BY <2>1, <2>3, <4>1, <5>1, <5>2, <5>3
      <4>2. CASE id # node
        <5>1. fires'[id] = fires[id] /\ UNCHANGED <<timer, userCleared, nextTimer, node>> /\ pc # "fired"
          BY <2>1, <2>2, <2>3, <3>2, <4>2 DEF walkVars
        <5>2. QED
          BY <3>2, <5>1 DEF FiresKept
      <4>3. QED
        BY <4>1, <4>2
    <3>3. QED
      BY <3>2 DEF FiresKept
  <2>10. TypeJobs' /\ JobsKept' /\ StackKept' /\ PassKept'
    BY <2>2 DEF TypeJobs, JobsKept, StackKept, PassKept, jobVars
  <2>11. QED
    BY <2>1, <2>2, <2>3, <2>4, <2>5, <2>6, <2>7, <2>8, <2>9, <2>10 DEF LoopInv
<1>17. ASSUME WalkFired
       PROVE  LoopInv'
  <2>1. /\ Linked(node) /\ node \in TimerIds /\ node # NoNode /\ pc = "fired" /\ stack = <<>>
        /\ fires[node] > 0 /\ called
    <3>1. pc = "fired" /\ stack = <<>> /\ Linked(node) /\ node # NoNode /\ fires[node] > 0 /\ called
      BY <1>17 DEF WalkFired, CursorKept, At, InJS
    <3>2. QED
      BY <3>1 DEF Linked, In, TypeTimers
  <2>2. /\ node' = After(node) /\ pc' = "walk" /\ has_pending' \in BOOLEAN
        /\ UNCHANGED <<jobVars, timer_list, nextTimer, fires, userCleared, due, variant, drained,
                       has_jobs, alive, mail, exit, called, pending, stop, stack>>
    BY <1>17 DEF WalkFired
  <2>3. /\ timer' \in [TimerIds -> TimerNode] /\ timer'[node].interval = timer[node].interval
        /\ timer[node].cleared => timer'[node].cleared
        /\ timer'[node].interval \/ timer'[node].cleared
        /\ \A id \in TimerIds : id # node => timer'[id] = timer[id]
    <3>1. CASE timer[node].interval
      <4>1. PICK left \in 0..timer[node].delay : timer' = [timer EXCEPT ![node].left = left]
        BY <1>17, <3>1 DEF WalkFired
      <4>2. left \in 0..MaxDelay
        BY <2>1, LoopAssumption DEF TypeTimers, TimerNode
      <4>3. QED
        BY <2>1, <3>1, <4>1, <4>2 DEF TypeTimers, TimerNode
    <3>2. CASE ~timer[node].interval
      <4>1. timer' = [timer EXCEPT ![node].cleared = TRUE]
        BY <1>17, <3>2 DEF WalkFired
      <4>2. QED
        BY <2>1, <3>2, <4>1 DEF TypeTimers, TimerNode
    <3>3. QED
      BY <3>1, <3>2
  <2>4. After(node) = NoNode \/ Linked(After(node))
    BY <2>1, AfterNode DEF TypeTimers, ListKept, Linked
  <2>5. TypeTimers'
    BY <2>2, <2>3 DEF TypeTimers
  <2>6. CursorKept'
    BY <2>2, <2>4 DEF CursorKept, Linked, In
  <2>7. ListKept'
    BY <2>1, <2>2 DEF ListKept, Linked, In, Decreasing
  <2>8. FiresKept'
    <3>1. ASSUME NEW id \in TimerIds
          PROVE  /\ timer'[id].cleared => fires[id] > 0 \/ id \in userCleared
                 /\ id \in userCleared => timer'[id].cleared /\ id < nextTimer
                 /\ id >= nextTimer => fires[id] = 0
                 /\ ~timer'[id].interval /\ fires[id] > 0 => fires[id] = 1 /\ timer'[id].cleared
      <4>1. CASE id = node
        BY <2>1, <2>3, <4>1 DEF FiresKept
      <4>2. CASE id # node
        BY <2>3, <3>1, <4>2 DEF FiresKept
      <4>3. QED
        BY <4>1, <4>2
    <3>2. QED
      BY <2>2, <3>1 DEF FiresKept
  <2>9. TypeJobs' /\ TypeLoop' /\ JobsKept' /\ StackKept' /\ PassKept'
    BY <2>1, <2>2 DEF TypeJobs, TypeLoop, JobsKept, StackKept, PassKept, jobVars
  <2>10. QED
    BY <2>1, <2>2, <2>3, <2>4, <2>5, <2>6, <2>7, <2>8, <2>9 DEF LoopInv
<1>18. ASSUME WalkWait
       PROVE  LoopInv'
  <2>1. /\ has_pending' = TRUE /\ node' = After(node) /\ pc = "walk" /\ stack = <<>> /\ Linked(node)
        /\ UNCHANGED <<jobVars, timerVars, due, loopVars, pending, stop, stack>>
    BY <1>18 DEF WalkWait, At, InJS, CursorKept
  <2>2. After(node) = NoNode \/ Linked(After(node))
    BY <2>1, AfterNode DEF TypeTimers, ListKept, Linked
  <2>3. CursorKept'
    BY <2>1, <2>2 DEF CursorKept, Linked, In, loopVars, timerVars
  <2>4. TypeJobs' /\ TypeTimers' /\ TypeLoop' /\ JobsKept' /\ ListKept' /\ StackKept'
    BY <2>1 DEF TypeJobs, TypeTimers, TypeLoop, JobsKept, ListKept, Linked, In, Decreasing,
        StackKept, jobVars, timerVars, walkVars, loopVars
  <2>5. FiresKept'
    BY <2>1 DEF FiresKept, jobVars, timerVars, walkVars, loopVars
  <2>6. PassKept'
    BY <2>1 DEF PassKept, jobVars, timerVars, walkVars, loopVars
  <2>7. QED
    BY <2>1, <2>2, <2>3, <2>4, <2>5, <2>6 DEF LoopInv
<1>19. ASSUME WalkEnd
       PROVE  LoopInv'
  <2>1. \A id \in TimerIds : id > NoNode
    BY LoopAssumption DEF TimerIds, NoNode
  <2>2. PassKept'
    BY <1>19, <2>1 DEF WalkEnd, PassKept, Active, jobVars, timerVars, walkVars, loopVars, At,
        InJS
  <2>3. TypeLoop'
    BY <1>19 DEF WalkEnd, TypeLoop, jobVars, timerVars, walkVars, loopVars, At, InJS
  <2>4. CursorKept'
    BY <1>19 DEF WalkEnd, CursorKept, Linked, In, jobVars, timerVars, walkVars, loopVars, At,
        InJS
  <2>5. StackKept'
    BY <1>19 DEF WalkEnd, StackKept, jobVars, timerVars, walkVars, loopVars, At, InJS
  <2>6. FiresKept'
    BY <1>19 DEF WalkEnd, FiresKept, jobVars, timerVars, walkVars, loopVars, At, InJS
  <2>7. TypeJobs' /\ TypeTimers' /\ JobsKept' /\ ListKept'
    BY <1>19 DEF WalkEnd, TypeJobs, TypeTimers, JobsKept, ListKept, Linked, In, Decreasing,
        jobVars, timerVars, walkVars, loopVars, At, InJS
  <2>8. QED
    BY <2>1, <2>2, <2>3, <2>4, <2>5, <2>6, <2>7 DEF LoopInv
<1>20. ASSUME PollAlive
       PROVE  LoopInv'
  <2>1. TypeJobs' /\ TypeTimers' /\ TypeLoop' /\ JobsKept' /\ ListKept' /\ CursorKept' /\
      FiresKept' /\ StackKept' /\ PassKept'
    BY <1>20 DEF PollAlive, TypeJobs, TypeTimers, TypeLoop, JobsKept, ListKept, Linked, In,
        Decreasing, CursorKept, Linked, In, FiresKept, StackKept, PassKept, Active, jobVars,
        timerVars, walkVars, loopVars, At, InJS
  <2>2. QED
    BY <2>1 DEF LoopInv
<1>21. ASSUME PollMail
       PROVE  LoopInv'
  <2>1. mail \in Nat \ {0} /\ mail' \in 0..MaxMail /\ pc = "mail" /\ stack = <<>>
    BY <1>21, LoopAssumption DEF PollMail, At, InJS, TypeLoop
  <2>2. /\ stack' \in Seq(CallKinds) /\ Len(stack') <= MaxDepth /\ (stack' # <<>> => called')
        /\ called' \in BOOLEAN /\ (called => called')
    <3>1. CASE stack' = Append(stack, "message") /\ called' = TRUE
      <4>1. stack' \in Seq(CallKinds) /\ Len(stack') = 1
        BY <1>st, <2>1, <3>1, Push DEF CallKinds
      <4>2. QED
        BY <3>1, <4>1, LoopAssumption
    <3>2. CASE UNCHANGED <<stack, called>>
      BY <1>st, <2>1, <3>2 DEF TypeLoop
    <3>3. QED
      BY <1>21, <3>1, <3>2 DEF PollMail, Enter
  <2>3. TypeLoop'
    BY <1>21, <2>1, <2>2 DEF PollMail, TypeLoop, CallKinds, walkVars
  <2>4. StackKept'
    BY <1>21, <2>1, <2>2 DEF PollMail, StackKept
  <2>5. PassKept'
    BY <1>21, <2>1, <2>2 DEF PollMail, PassKept, Active, timerVars, jobVars
  <2>6. CursorKept'
    BY <1>21, <2>1, <2>2 DEF PollMail, CursorKept, Linked, In, timerVars, walkVars
  <2>7. TypeJobs' /\ TypeTimers' /\ JobsKept' /\ ListKept' /\ FiresKept'
    BY <1>21 DEF PollMail, TypeJobs, TypeTimers, JobsKept, ListKept, Linked, In, Decreasing,
        FiresKept, jobVars, timerVars, walkVars, loopVars, At, InJS
  <2>8. QED
    BY <2>1, <2>2, <2>3, <2>4, <2>5, <2>6, <2>7 DEF LoopInv
<1>22. ASSUME PollEnd
       PROVE  LoopInv'
  <2>1. TypeJobs' /\ TypeTimers' /\ TypeLoop' /\ JobsKept' /\ ListKept' /\ CursorKept' /\
      FiresKept' /\ StackKept' /\ PassKept'
    BY <1>22 DEF PollEnd, TypeJobs, TypeTimers, TypeLoop, JobsKept, ListKept, Linked, In,
        Decreasing, CursorKept, Linked, In, FiresKept, StackKept, PassKept, Active, jobVars,
        timerVars, walkVars, loopVars, At, InJS
  <2>2. QED
    BY <2>1 DEF LoopInv
<1>23. ASSUME DecideRun
       PROVE  LoopInv'
  <2>1. TypeLoop'
    BY <1>23 DEF DecideRun, TypeLoop, Leave, Again, jobVars, timerVars, walkVars, loopVars, At,
        InJS
  <2>2. PassKept'
    BY <1>23 DEF DecideRun, PassKept, Active, NothingLeft, Leave, Again, jobVars, timerVars,
        walkVars, loopVars, At, InJS
  <2>3. CursorKept'
    BY <1>23 DEF DecideRun, CursorKept, Linked, In, Leave, Again, jobVars, timerVars, walkVars,
        loopVars, At, InJS
  <2>4. StackKept'
    BY <1>23 DEF DecideRun, StackKept, Leave, Again, jobVars, timerVars, walkVars, loopVars, At,
        InJS
  <2>5. FiresKept'
    BY <1>23 DEF DecideRun, FiresKept, Leave, Again, jobVars, timerVars, walkVars, loopVars, At,
        InJS
  <2>6. TypeJobs' /\ TypeTimers' /\ JobsKept' /\ ListKept'
    BY <1>23 DEF DecideRun, TypeJobs, TypeTimers, JobsKept, ListKept, Linked, In, Decreasing,
        jobVars, timerVars, walkVars, loopVars, At, InJS
  <2>7. QED
    BY <2>1, <2>2, <2>3, <2>4, <2>5, <2>6 DEF LoopInv
<1>24. ASSUME DecideTimeout
       PROVE  LoopInv'
  <2>1. TypeLoop'
    BY <1>24 DEF DecideTimeout, TypeLoop, Leave, Again, jobVars, timerVars, walkVars, loopVars,
        At, InJS
  <2>2. PassKept'
    BY <1>24 DEF DecideTimeout, PassKept, Active, NothingLeft, Leave, Again, jobVars, timerVars,
        walkVars, loopVars, At, InJS
  <2>3. CursorKept'
    BY <1>24 DEF DecideTimeout, CursorKept, Linked, In, Leave, Again, jobVars, timerVars,
        walkVars, loopVars, At, InJS
  <2>4. StackKept'
    BY <1>24 DEF DecideTimeout, StackKept, Leave, Again, jobVars, timerVars, walkVars, loopVars,
        At, InJS
  <2>5. FiresKept'
    BY <1>24 DEF DecideTimeout, FiresKept, Leave, Again, jobVars, timerVars, walkVars, loopVars,
        At, InJS
  <2>6. TypeJobs' /\ TypeTimers' /\ JobsKept' /\ ListKept'
    BY <1>24 DEF DecideTimeout, TypeJobs, TypeTimers, JobsKept, ListKept, Linked, In,
        Decreasing, jobVars, timerVars, walkVars, loopVars, At, InJS
  <2>7. QED
    BY <2>1, <2>2, <2>3, <2>4, <2>5, <2>6 DEF LoopInv
<1>25. ASSUME Tick
       PROVE  LoopInv'
  <2>1. /\ timer' \in [TimerIds -> TimerNode]
        /\ \A id \in TimerIds : /\ timer'[id].cleared = timer[id].cleared
                                /\ timer'[id].interval = timer[id].interval
    <3>1. timer' = [id \in TimerIds |-> [timer[id] EXCEPT !.left = IF @ > 0 THEN @ - 1 ELSE 0]]
      BY <1>25 DEF Tick
    <3>2. \A id \in TimerIds : timer[id] \in TimerNode /\ timer[id].left \in 0..MaxDelay
      BY DEF TypeTimers, TimerNode
    <3>3. \A id \in TimerIds : (IF timer[id].left > 0 THEN timer[id].left - 1 ELSE 0) \in 0..MaxDelay
      BY <3>2, LoopAssumption
    <3>4. QED
      BY <3>1, <3>2, <3>3 DEF TimerNode
  <2>2. UNCHANGED <<jobVars, timer_list, nextTimer, fires, userCleared, has_pending, node, due,
                    loopVars, pending, stop, stack>>
    BY <1>25 DEF Tick
  <2>3. TypeTimers'
    BY <2>1, <2>2 DEF TypeTimers
  <2>4. FiresKept'
    BY <2>1, <2>2 DEF FiresKept, loopVars
  <2>5. PassKept'
    BY <2>1, <2>2 DEF PassKept, Active, loopVars, jobVars
  <2>6. TypeJobs' /\ TypeLoop' /\ JobsKept' /\ ListKept' /\ CursorKept' /\ StackKept'
    BY <2>2 DEF TypeJobs, TypeLoop, JobsKept, ListKept, CursorKept, StackKept, Linked, In,
        Decreasing, loopVars, jobVars
  <2>7. QED
    BY <2>1, <2>2, <2>3, <2>4, <2>5, <2>6 DEF LoopInv
<1>26. CASE UNCHANGED vars
  BY <1>26 DEF vars, LoopInv, TypeJobs, TypeTimers, TypeLoop, JobsKept, ListKept, Linked, In,
      Decreasing, CursorKept, Linked, In, FiresKept, StackKept, PassKept, Active, jobVars,
      timerVars, walkVars, loopVars, At, InJS
<1>27. QED
  BY <1>1, <1>2, <1>3, <1>4, <1>5, <1>6, <1>7, <1>8, <1>9, <1>10, <1>11, <1>12, <1>13, <1>14,
      <1>15, <1>16, <1>17, <1>18, <1>19, <1>20, <1>21, <1>22, <1>23, <1>24, <1>25, <1>26 DEF Next,
      JavaScript, LoopStep

(* Neither queue loses, repeats or reorders work: microtasks run once and  *)
(* in the order in which they were enqueued, a timer leaves the list only  *)
(* when it has fired or was cleared, a timeout fires at most once, and the *)
(* walk never holds a node that was freed.                                 *)
THEOREM NoWorkLost == Spec => []WorkKept
<1>1. LoopInv => TypeOK
  <2>1. SUFFICES ASSUME LoopInv PROVE jobs \in Seq(1..MaxJobs)
    BY DEF LoopInv, TypeJobs, TypeTimers, TypeLoop, CursorKept, Linked, In, TypeOK
  <2>2. nextJob \in 1..MaxJobs + 1 /\ lastRun \in 0..MaxJobs /\ MaxJobs \in Nat
    BY <2>1, LoopAssumption DEF LoopInv, TypeJobs
  <2>3. /\ lastRun < nextJob /\ nextJob - 1 - lastRun \in Nat
        /\ jobs = [i \in 1 .. nextJob - 1 - lastRun |-> lastRun + i]
    BY <2>1, <2>2 DEF LoopInv, JobsKept, Run
  <2>4. \A i \in 1 .. nextJob - 1 - lastRun : lastRun + i \in 1..MaxJobs
    BY <2>2, <2>3
  <2>5. PICK n \in Nat : n = nextJob - 1 - lastRun
    BY <2>3
  <2>6. jobs \in [1 .. n -> 1..MaxJobs]
    BY <2>3, <2>4, <2>5
  <2>7. QED
    BY <2>6, SeqDef
<1>2. LoopInv => JobsInOrder
  BY DEF LoopInv, JobsKept, Run, JobsInOrder
<1>3. LoopInv => TimersKept
  <2>1. SUFFICES ASSUME LoopInv, NEW id \in TimerIds, ~timer[id].interval PROVE fires[id] <= 1
    BY DEF LoopInv, ListKept, Linked, In, TimersKept
  <2>2. fires[id] \in 0..2 /\ (fires[id] > 0 => fires[id] = 1)
    BY <2>1 DEF LoopInv, TypeTimers, FiresKept
  <2>3. QED
    BY <2>2
<1>4. QED
  BY <1>1, <1>2, <1>3, LoopStart, LoopStepKeeps, PTL DEF Spec, WorkKept

(* The loop ends by itself only when nothing is left, unless its last pass *)
(* called a timer or message callback.                                     *)
THEOREM IdleExit == Spec => []IdleExitSound
<1>1. LoopInv => IdleExitSound
  BY DEF LoopInv, PassKept, IdleExitSound
<1>2. QED
  BY <1>1, LoopStart, LoopStepKeeps, PTL DEF Spec

(* No timer fires after the script has cleared it. *)
THEOREM ClearedStaysQuiet == Spec => ClearedNeverFires
<1>1. LoopInv /\ [Next]_vars => [pc # "fired" /\ pc' = "fired" => node \notin userCleared]_vars
  <2>1. SUFFICES ASSUME LoopInv, Next, pc # "fired", pc' = "fired" PROVE node \notin userCleared
    BY DEF vars
  <2>2. WalkFire
    BY <2>1 DEF Next, JavaScript, EnqueueJob, AwaitJob, Return, SetTimer, ClearTimer, LoopStep,
      Drain, LoopTop, Leave, LoopJob, LoopJobsDone, WalkCleared, WalkFired, WalkWait, WalkEnd,
      PollAlive, PollMail, PollEnd, DecideRun, DecideTimeout, Again, HostEval, HostRun,
      HostResume, HostFree, Stop, Tick, At, loopVars
  <2>3. node \in TimerIds /\ ~timer[node].cleared
    BY <2>1, <2>2 DEF WalkFire, LoopInv, TypeTimers
  <2>4. QED
    BY <2>1, <2>3 DEF LoopInv, FiresKept
<1>2. QED
  BY <1>1, LoopStart, LoopStepKeeps, PTL DEF Spec, ClearedNeverFires
=============================================================================
