--------------------------- MODULE JitQueue_proofs ---------------------------
(* Proofs about JitQueue, for every number of workers and submitters and   *)
(* every capacity of the ring.                                             *)
EXTENDS JitQueue, TLAPS

-----------------------------------------------------------------------------
(* Facts about the remainder, by which indexes of the ring wrap.           *)

(* Quotient and remainder by a positive number. *)
LEMMA ModDef ==
  ASSUME NEW C \in Nat \ {0}, NEW a \in Int
  PROVE  a % C \in 0..C-1 /\ a \div C \in Int /\ a = C * (a \div C) + (a % C)
OBVIOUS

(* The remainder is the only one. *)
LEMMA ModUnique ==
  ASSUME NEW C \in Nat \ {0}, NEW a \in Int, NEW q \in Int, NEW r \in 0..C-1,
         a = C * q + r
  PROVE  a % C = r
OBVIOUS

(* An index may be wrapped before or after a step is added to it. *)
LEMMA ModAdd ==
  ASSUME NEW C \in Nat \ {0}, NEW a \in Nat, NEW b \in Nat
  PROVE  ((a % C) + b) % C = (a + b) % C
<1> DEFINE q == a \div C  r == a % C
<1>1. q \in Int /\ r \in 0..C-1 /\ a = C * q + r
  BY ModDef
<1> HIDE DEF q, r
<1> DEFINE p == (r + b) \div C  s == (r + b) % C
<1>2. p \in Int /\ s \in 0..C-1 /\ r + b = C * p + s
  <2>1. r + b \in Int
    BY <1>1
  <2>2. QED
    BY <2>1, ModDef
<1> HIDE DEF p, s
<1>3. a + b = C * (q + p) + s /\ a + b \in Int /\ q + p \in Int
  BY <1>1, <1>2
<1>4. (a + b) % C = s
  BY <1>2, <1>3, ModUnique
<1>5. QED
  BY <1>4 DEF s, r

(* Two numbers at the same index are a multiple of C apart. *)
LEMMA ModDiff ==
  ASSUME NEW C \in Nat \ {0}, NEW a \in Nat, NEW b \in Nat, a % C = b % C
  PROVE  (a - b) % C = 0
<1> DEFINE q == a \div C  p == b \div C  r == a % C
<1>1. q \in Int /\ p \in Int /\ r \in 0..C-1 /\ a = C * q + r /\ b = C * p + r
  BY ModDef
<1> HIDE DEF q, p, r
<1>2. a - b = C * (q - p) + 0
  BY <1>1
<1>3. QED
  BY <1>1, <1>2, ModUnique

(* A positive multiple of C is at least C. *)
LEMMA ModSmall ==
  ASSUME NEW C \in Nat \ {0}, NEW n \in Nat, n % C = 0, n # 0
  PROVE  n >= C
OBVIOUS

(* Two different numbers at the same index are at least C apart. *)
LEMMA ModApart ==
  ASSUME NEW C \in Nat \ {0}, NEW a \in Nat, NEW b \in Nat, a % C = b % C, b < a
  PROVE  a >= b + C
<1>1. (a - b) % C = 0
  BY ModDiff
<1>2. a - b \in Nat /\ a - b # 0
  OBVIOUS
<1>3. a - b >= C
  BY <1>1, <1>2, ModSmall
<1>4. QED
  BY <1>3

(* The index of the ring, and the index after it. *)
LEMMA Wrap ==
  ASSUME NEW n \in Nat
  PROVE  n % Cap \in 0..Cap-1 /\ ((n % Cap) + 1) % Cap = (n + 1) % Cap
<1>1. Cap \in Nat \ {0} /\ 1 \in Nat /\ n \in Int
  BY JitAssumption DEF JitAssumption
<1>2. n % Cap \in 0..Cap-1
  BY <1>1, ModDef
<1>3. QED
  BY <1>1, <1>2, ModAdd

-----------------------------------------------------------------------------
(* The inductive invariant.                                                *)

JitTypes ==
  /\ slots \in [0..Cap-1 -> Nat]
  /\ accepted \in Nat /\ ntaken \in Nat
  /\ wpc \in [Workers -> {"unborn", "top", "take", "sleep", "waiting", "exit"} \cup Working]
  /\ wslot \in [Workers -> 0..Cap-1]
  /\ wkind \in [Workers -> Nat] /\ wprog \in [Workers -> Nat] /\ taken \in [Workers -> Nat]
  /\ spc \in [Submitters -> {"idle", "lock", "test", "towait", "waiting", "push", "crashed"}]

(* g_queue_mutex: one submitter at a time is inside, and the room that it  *)
(* has seen is still there when it pushes.                                 *)
MutexKept ==
  \A s \in Submitters :
    /\ spc[s] \in {"test", "towait", "push", "crashed"} => lock = s
    /\ spc[s] = "push" => size < Cap

(* head and tail count what was taken and accepted. *)
Counters ==
  /\ size = accepted - ntaken /\ size \in 0..Cap
  /\ head = ntaken % Cap /\ tail = accepted % Cap
  /\ cmust \in 0..accepted
  /\ cpc = "returned" => ntaken >= cmust

(* The last Cap tasks accepted are in the ring, those taken included. *)
Newest == \A t \in 1..accepted : t + Cap > accepted => slots[(t - 1) % Cap] = t

(* Task t has been put in the slot of w's task, now or in an earlier lap. *)
SameSlot(w, t) == t \in taken[w]..accepted /\ (t - taken[w]) % Cap = 0

(* What a worker sees through its pointer into the ring. *)
Pointers ==
  \A w \in Workers :
    /\ wpc[w] \in Working =>
         /\ taken[w] \in 1..ntaken
         /\ wslot[w] = (taken[w] - 1) % Cap
         /\ SameSlot(w, slots[wslot[w]])
    /\ wpc[w] \in {"read", "compile"} => SameSlot(w, wkind[w])
    /\ wpc[w] = "compile" => SameSlot(w, wprog[w])

(* A task taken is compiled, in a worker's hands, or Cap tasks behind. *)
Accounted ==
  \A t \in 1..ntaken :
    \/ t \in finished
    \/ \E w \in Workers : taken[w] = t /\ wpc[w] \in Working
    \/ accepted >= t + Cap

JitInv == JitTypes /\ MutexKept /\ Counters /\ Newest /\ Pointers /\ Accounted

(* The queue starts in the invariant. *)
LEMMA JitStart == Init => JitInv
<1> SUFFICES ASSUME Init PROVE JitInv
  OBVIOUS
<1> USE JitAssumption DEF JitAssumption, Init
<1>1. JitTypes /\ MutexKept
  BY DEF JitTypes, MutexKept, Working
<1>2. Counters
  <2>1. 0 % Cap = 0
    OBVIOUS
  <2>2. QED
    BY <2>1 DEF Counters
<1>3. Newest /\ Pointers /\ Accounted
  BY DEF Newest, Pointers, Accounted, Working
<1>4. QED
  BY <1>1, <1>2, <1>3 DEF JitInv

(* Every step keeps it: a take reads the slot of the oldest task, a push   *)
(* overwrites one whose task is Cap behind, and a worker that returns has  *)
(* compiled its own task or one Cap or more later.                         *)
LEMMA JitStep == JitInv /\ [Next]_vars => JitInv'
<1> SUFFICES ASSUME JitInv, [Next]_vars PROVE JitInv'
  OBVIOUS
<1> USE JitAssumption DEF JitAssumption
<1>0. JitTypes /\ MutexKept /\ Counters /\ Newest /\ Pointers /\ Accounted
  BY DEF JitInv
<1> USE <1>0
<1>1. ASSUME NEW w \in Workers, WTop(w)
      PROVE  JitInv'
  <2>1. JitTypes'
    BY <1>1 DEF WTop, JitTypes, WGoto, Working, ring, wvars, svars, mvars, cvars
  <2>2. Pointers'
    BY <1>1 DEF WTop, Pointers, JitTypes, WGoto, Working, SameSlot, ring, wvars, svars, mvars,
        cvars
  <2>3. Accounted'
    BY <1>1 DEF WTop, Accounted, JitTypes, WGoto, Working, ring, wvars, svars, mvars, cvars
  <2>4. MutexKept' /\ Counters' /\ Newest'
    BY <1>1 DEF WTop, MutexKept, Counters, Newest, ring, wvars, svars, mvars, cvars
  <2>5. QED
    BY <2>1, <2>2, <2>3, <2>4 DEF JitInv
<1>2. ASSUME NEW w \in Workers, WTake(w)
      PROVE  JitInv'
  <2>1. size > 0 /\ size' = size - 1 /\ head' = (head + 1) % Cap /\ UNCHANGED <<slots, tail, accepted>>
    BY <1>2 DEF WTake, Pop, svars
  <2>2. wslot' = [wslot EXCEPT ![w] = head] /\ taken' = [taken EXCEPT ![w] = slots[head]]
    BY <1>2 DEF WTake
  <2>3. /\ wpc' = [wpc EXCEPT ![w] = "kind"] /\ ntaken' = ntaken + 1
        /\ UNCHANGED <<wkind, wprog, finished, lock, spc, cpc, cmust>>
    BY <1>2 DEF WTake, WGoto, svars, cvars
  <2>4. head \in 0..Cap-1 /\ (head + 1) % Cap = (ntaken + 1) % Cap
    <3>1. ntaken \in Nat
      BY DEF JitTypes
    <3>2. QED
      BY <3>1, Wrap DEF Counters
  <2>5. ntaken + 1 \in 1..accepted /\ ntaken + 1 + Cap > accepted
    BY <2>1 DEF Counters, JitTypes
  <2>6. slots[head] = ntaken + 1
    <3>1. slots[((ntaken + 1) - 1) % Cap] = ntaken + 1
      BY <2>5, Zenon DEF Newest
    <3>2. (ntaken + 1) - 1 = ntaken
      BY DEF JitTypes
    <3>3. QED
      BY <3>1, <3>2 DEF Counters
  <2>7. JitTypes'
    <3>1. ntaken + 1 \in Nat
      BY DEF JitTypes
    <3>2. QED
      BY <2>1, <2>2, <2>3, <2>4, <2>6, <3>1 DEF JitTypes, Working
  <2>8. MutexKept'
    BY <2>1, <2>3 DEF MutexKept, Counters, JitTypes
  <2>9. Counters'
    BY <2>1, <2>3, <2>4, <2>5 DEF Counters, JitTypes
  <2>10. Newest'
    BY <2>1 DEF Newest
  <2>11. Pointers'
    <3>1. SUFFICES ASSUME NEW v \in Workers PROVE Pointers!(v)'
      BY DEF Pointers
    <3>2. CASE v = w
      <4>1. taken'[v] = ntaken + 1 /\ wslot'[v] = head /\ wpc'[v] = "kind"
        BY <2>2, <2>3, <2>6, <3>2 DEF JitTypes
      <4>2. (ntaken + 1) - (ntaken + 1) = 0 /\ 0 % Cap = 0 /\ (ntaken + 1) - 1 = ntaken
        BY DEF JitTypes
      <4>3. SameSlot(v, slots[wslot[v]])'
        BY <4>1, <4>2, <2>1, <2>5, <2>6 DEF SameSlot, JitTypes
      <4>4. QED
        BY <4>1, <4>2, <4>3, <2>3, <2>5 DEF Counters, JitTypes, Working
    <3>3. CASE v # w
      <4>1. taken'[v] = taken[v] /\ wslot'[v] = wslot[v] /\ wpc'[v] = wpc[v]
        BY <2>2, <2>3, <3>3 DEF JitTypes
      <4>2. QED
        BY <4>1, <2>1, <2>3 DEF Pointers, SameSlot, JitTypes
    <3>4. QED
      BY <3>2, <3>3
  <2>12. Accounted'
    <3>1. taken'[w] = ntaken + 1 /\ wpc'[w] \in Working
      BY <2>2, <2>3, <2>6 DEF JitTypes, Working
    <3>2. \A v \in Workers : wpc[v] \in Working => taken'[v] = taken[v] /\ wpc'[v] = wpc[v]
      BY <1>2, <2>2, <2>3 DEF WTake, JitTypes, Working
    <3>3. \A t \in 1..ntaken' : t = ntaken + 1 \/ t \in 1..ntaken
      BY <2>3 DEF JitTypes
    <3>4. QED
      BY <3>1, <3>2, <3>3, <2>1, <2>3 DEF Accounted
  <2>13. QED
    BY <2>1, <2>2, <2>3, <2>4, <2>5, <2>6, <2>7, <2>8, <2>9, <2>10, <2>11, <2>12 DEF JitInv
<1>3. ASSUME NEW w \in Workers, WNothing(w)
      PROVE  JitInv'
  <2>1. JitTypes'
    BY <1>3 DEF WNothing, JitTypes, WGoto, Working, ring, wvars, svars, mvars, cvars
  <2>2. Pointers'
    BY <1>3 DEF WNothing, Pointers, JitTypes, WGoto, Working, SameSlot, ring, wvars, svars,
        mvars, cvars
  <2>3. Accounted'
    BY <1>3 DEF WNothing, Accounted, JitTypes, WGoto, Working, ring, wvars, svars, mvars, cvars
  <2>4. MutexKept' /\ Counters' /\ Newest'
    BY <1>3 DEF WNothing, MutexKept, Counters, Newest, ring, wvars, svars, mvars, cvars
  <2>5. QED
    BY <2>1, <2>2, <2>3, <2>4 DEF JitInv
<1>4. ASSUME NEW w \in Workers, WReadKind(w)
      PROVE  JitInv'
  <2>1. wpc[w] \in Working /\ wpc' = [wpc EXCEPT ![w] = "read"]
    BY <1>4 DEF WReadKind, WGoto, Working
  <2>2. wkind' = [wkind EXCEPT ![w] = slots[wslot[w]]]
    BY <1>4 DEF WReadKind
  <2>3. UNCHANGED <<ring, svars, lock, cvars, wslot, wprog, taken, ntaken, finished>>
    BY <1>4 DEF WReadKind
  <2>4. JitTypes'
    BY <2>1, <2>2, <2>3 DEF JitTypes, Working, ring, svars
  <2>5. Pointers'
    BY <1>4, <2>1, <2>2, <2>3 DEF WReadKind, Pointers, SameSlot, JitTypes, Working, ring, svars
  <2>6. Accounted'
    BY <2>1, <2>3 DEF Accounted, JitTypes, Working, svars
  <2>7. MutexKept' /\ Counters' /\ Newest'
    BY <1>4 DEF WReadKind, MutexKept, Counters, Newest, ring, wvars, svars, mvars, cvars
  <2>8. QED
    BY <2>1, <2>2, <2>3, <2>4, <2>5, <2>6, <2>7 DEF JitInv
<1>5. ASSUME NEW w \in Workers, WReadProg(w)
      PROVE  JitInv'
  <2>1. wpc[w] \in Working /\ wpc' = [wpc EXCEPT ![w] = "compile"]
    BY <1>5 DEF WReadProg, WGoto, Working
  <2>2. wprog' = [wprog EXCEPT ![w] = slots[wslot[w]]]
    BY <1>5 DEF WReadProg
  <2>3. UNCHANGED <<ring, svars, lock, cvars, wslot, wkind, taken, ntaken, finished>>
    BY <1>5 DEF WReadProg
  <2>4. JitTypes'
    BY <2>1, <2>2, <2>3 DEF JitTypes, Working, ring, svars
  <2>5. Pointers'
    BY <1>5, <2>1, <2>2, <2>3 DEF WReadProg, Pointers, SameSlot, JitTypes, Working, ring, svars
  <2>6. Accounted'
    BY <2>1, <2>3 DEF Accounted, JitTypes, Working, svars
  <2>7. MutexKept' /\ Counters' /\ Newest'
    BY <1>5 DEF WReadProg, MutexKept, Counters, Newest, ring, wvars, svars, mvars, cvars
  <2>8. QED
    BY <2>1, <2>2, <2>3, <2>4, <2>5, <2>6, <2>7 DEF JitInv
<1>6. ASSUME NEW w \in Workers, WDone(w)
      PROVE  JitInv'
  <2>1. wpc[w] = "compile" /\ wpc' = [wpc EXCEPT ![w] = "top"] /\ finished' = finished \cup {wprog[w]}
    BY <1>6 DEF WDone, WGoto
  <2>2. /\ wslot' = [wslot EXCEPT ![w] = 0] /\ wkind' = [wkind EXCEPT ![w] = 0]
        /\ wprog' = [wprog EXCEPT ![w] = 0] /\ taken' = [taken EXCEPT ![w] = 0]
    BY <1>6 DEF WDone
  <2>3. UNCHANGED <<ring, svars, lock, cvars, ntaken>>
    BY <1>6 DEF WDone
  <2>4. wprog[w] = taken[w] \/ accepted >= taken[w] + Cap
    <3>1. wprog[w] \in taken[w]..accepted /\ (wprog[w] - taken[w]) % Cap = 0
      BY <2>1 DEF Pointers, SameSlot
    <3>2. wprog[w] - taken[w] \in Nat /\ taken[w] \in Nat /\ wprog[w] \in Nat /\ accepted \in Nat
      BY <3>1 DEF JitTypes
    <3>3. CASE wprog[w] - taken[w] # 0
      <4>1. wprog[w] - taken[w] >= Cap
        BY <3>1, <3>2, <3>3, ModSmall
      <4>2. QED
        BY <3>1, <3>2, <4>1
    <3>4. QED
      BY <3>2, <3>3
  <2>5. JitTypes'
    BY <2>1, <2>2, <2>3 DEF JitTypes, Working, ring, svars
  <2>6. Pointers'
    BY <2>1, <2>2, <2>3 DEF Pointers, SameSlot, JitTypes, Working, ring, svars
  <2>7. Accounted'
    <3>1. \A v \in Workers \ {w} : taken'[v] = taken[v] /\ wpc'[v] = wpc[v]
      BY <2>1, <2>2 DEF JitTypes
    <3>2. QED
      BY <2>1, <2>3, <2>4, <3>1 DEF Accounted, JitTypes, svars
  <2>8. MutexKept' /\ Counters' /\ Newest'
    BY <1>6 DEF WDone, MutexKept, Counters, Newest, ring, wvars, svars, mvars, cvars
  <2>9. QED
    BY <2>1, <2>2, <2>3, <2>4, <2>5, <2>6, <2>7, <2>8 DEF JitInv
<1>7. ASSUME NEW w \in Workers, WSleep(w)
      PROVE  JitInv'
  <2>1. JitTypes'
    BY <1>7 DEF WSleep, JitTypes, WGoto, Working, ring, wvars, svars, mvars, cvars
  <2>2. Pointers'
    BY <1>7 DEF WSleep, Pointers, JitTypes, WGoto, Working, SameSlot, ring, wvars, svars, mvars,
        cvars
  <2>3. Accounted'
    BY <1>7 DEF WSleep, Accounted, JitTypes, WGoto, Working, ring, wvars, svars, mvars, cvars
  <2>4. MutexKept' /\ Counters' /\ Newest'
    BY <1>7 DEF WSleep, MutexKept, Counters, Newest, ring, wvars, svars, mvars, cvars
  <2>5. QED
    BY <2>1, <2>2, <2>3, <2>4 DEF JitInv
<1>8. ASSUME NEW w \in Workers, WWake(w)
      PROVE  JitInv'
  <2>1. JitTypes'
    BY <1>8 DEF WWake, JitTypes, WGoto, Working, ring, wvars, svars, mvars, cvars
  <2>2. Pointers'
    BY <1>8 DEF WWake, Pointers, JitTypes, WGoto, Working, SameSlot, ring, wvars, svars, mvars,
        cvars
  <2>3. Accounted'
    BY <1>8 DEF WWake, Accounted, JitTypes, WGoto, Working, ring, wvars, svars, mvars, cvars
  <2>4. MutexKept' /\ Counters' /\ Newest'
    BY <1>8 DEF WWake, MutexKept, Counters, Newest, ring, wvars, svars, mvars, cvars
  <2>5. QED
    BY <2>1, <2>2, <2>3, <2>4 DEF JitInv
<1>9. ASSUME NEW s \in Submitters, SBegin(s)
      PROVE  JitInv'
  <2>1. JitTypes'
    BY <1>9 DEF SBegin, JitTypes, SGoto, ring, wvars, svars, mvars, cvars
  <2>2. MutexKept'
    BY <1>9 DEF SBegin, MutexKept, JitTypes, SGoto, ring, wvars, svars, mvars, cvars
  <2>3. Counters' /\ Newest' /\ Pointers' /\ Accounted'
    BY <1>9 DEF SBegin, Counters, Newest, Pointers, SameSlot, Accounted, ring, wvars, svars,
        mvars, cvars
  <2>4. QED
    BY <2>1, <2>2, <2>3 DEF JitInv
<1>10. ASSUME NEW s \in Submitters, SLock(s)
       PROVE  JitInv'
  <2>1. JitTypes'
    BY <1>10 DEF SLock, JitTypes, SGoto, ring, wvars, svars, mvars, cvars
  <2>2. MutexKept'
    BY <1>10 DEF SLock, MutexKept, JitTypes, SGoto, ring, wvars, svars, mvars, cvars
  <2>3. Counters' /\ Newest' /\ Pointers' /\ Accounted'
    BY <1>10 DEF SLock, Counters, Newest, Pointers, SameSlot, Accounted, ring, wvars, svars,
        mvars, cvars
  <2>4. QED
    BY <2>1, <2>2, <2>3 DEF JitInv
<1>11. ASSUME NEW s \in Submitters, SFull(s)
       PROVE  JitInv'
  <2>1. JitTypes'
    BY <1>11 DEF SFull, JitTypes, SGoto, ring, wvars, svars, mvars, cvars
  <2>2. MutexKept'
    BY <1>11 DEF SFull, MutexKept, JitTypes, SGoto, ring, wvars, svars, mvars, cvars
  <2>3. Counters' /\ Newest' /\ Pointers' /\ Accounted'
    BY <1>11 DEF SFull, Counters, Newest, Pointers, SameSlot, Accounted, ring, wvars, svars,
        mvars, cvars
  <2>4. QED
    BY <2>1, <2>2, <2>3 DEF JitInv
<1>12. ASSUME NEW s \in Submitters, SSleep(s)
       PROVE  JitInv'
  <2>1. JitTypes'
    BY <1>12 DEF SSleep, JitTypes, SGoto, ring, wvars, svars, mvars, cvars
  <2>2. MutexKept'
    BY <1>12 DEF SSleep, MutexKept, JitTypes, SGoto, ring, wvars, svars, mvars, cvars
  <2>3. Counters' /\ Newest' /\ Pointers' /\ Accounted'
    BY <1>12 DEF SSleep, Counters, Newest, Pointers, SameSlot, Accounted, ring, wvars, svars,
        mvars, cvars
  <2>4. QED
    BY <2>1, <2>2, <2>3 DEF JitInv
<1>13. ASSUME NEW s \in Submitters, SWake(s)
       PROVE  JitInv'
  <2>1. JitTypes'
    BY <1>13 DEF SWake, JitTypes, SGoto, ring, wvars, svars, mvars, cvars
  <2>2. MutexKept'
    BY <1>13 DEF SWake, MutexKept, JitTypes, SGoto, ring, wvars, svars, mvars, cvars
  <2>3. Counters' /\ Newest' /\ Pointers' /\ Accounted'
    BY <1>13 DEF SWake, Counters, Newest, Pointers, SameSlot, Accounted, ring, wvars, svars,
        mvars, cvars
  <2>4. QED
    BY <2>1, <2>2, <2>3 DEF JitInv
<1>14. ASSUME NEW s \in Submitters, SRefused(s)
       PROVE  JitInv'
  <2>1. JitTypes'
    BY <1>14 DEF SRefused, JitTypes, SGoto, ring, wvars, svars, mvars, cvars
  <2>2. MutexKept'
    BY <1>14 DEF SRefused, MutexKept, JitTypes, SGoto, ring, wvars, svars, mvars, cvars
  <2>3. Counters' /\ Newest' /\ Pointers' /\ Accounted'
    BY <1>14 DEF SRefused, Counters, Newest, Pointers, SameSlot, Accounted, ring, wvars, svars,
        mvars, cvars
  <2>4. QED
    BY <2>1, <2>2, <2>3 DEF JitInv
<1>15. ASSUME NEW s \in Submitters, SRoom(s)
       PROVE  JitInv'
  <2>1. JitTypes'
    BY <1>15 DEF SRoom, JitTypes, SGoto, ring, wvars, svars, mvars, cvars
  <2>2. MutexKept'
    BY <1>15 DEF SRoom, MutexKept, JitTypes, SGoto, ring, wvars, svars, mvars, cvars
  <2>3. Counters' /\ Newest' /\ Pointers' /\ Accounted'
    BY <1>15 DEF SRoom, Counters, Newest, Pointers, SameSlot, Accounted, ring, wvars, svars,
        mvars, cvars
  <2>4. QED
    BY <2>1, <2>2, <2>3 DEF JitInv
<1>16. ASSUME NEW s \in Submitters, SPush(s)
       PROVE  JitInv'
  <2>1. slots' = [slots EXCEPT ![tail] = accepted + 1] /\ tail' = (tail + 1) % Cap /\ size' = size + 1
    BY <1>16 DEF SPush, Push
  <2>2. /\ accepted' = accepted + 1 /\ spc' = [spc EXCEPT ![s] = "idle"] /\ lock' = Nobody
        /\ UNCHANGED <<head, wvars, cvars>>
    BY <1>16 DEF SPush, Push, SGoto
  <2>3. lock = s /\ size < Cap
    BY <1>16 DEF SPush, MutexKept
  <2>4. tail \in 0..Cap-1 /\ (tail + 1) % Cap = (accepted + 1) % Cap
    <3>1. accepted \in Nat
      BY DEF JitTypes
    <3>2. QED
      BY <3>1, Wrap DEF Counters
  <2>5. JitTypes'
    BY <2>1, <2>2, <2>4, SMTT(30) DEF JitTypes, wvars
  <2>6. MutexKept'
    BY <2>2, <2>3 DEF MutexKept, JitTypes
  <2>7. Counters'
    BY <2>1, <2>2, <2>3, <2>4 DEF Counters, JitTypes, wvars, cvars
  <2>8. Newest'
    <3>1. SUFFICES ASSUME NEW t \in 1..accepted + 1, t + Cap > accepted + 1
                   PROVE  slots'[(t - 1) % Cap] = t
      BY <2>2 DEF Newest, JitTypes
    <3>2. CASE t = accepted + 1
      <4>1. (t - 1) % Cap = tail
        BY <3>2 DEF Counters, JitTypes
      <4>2. QED
        BY <4>1, <3>2, <2>1, <2>4 DEF JitTypes
    <3>3. CASE t # accepted + 1
      <4>1. t - 1 \in Nat /\ t - 1 < accepted /\ accepted \in Nat /\ t \in 1..accepted
        BY <3>3 DEF JitTypes
      <4>2. (t - 1) % Cap # tail
        <5>1. SUFFICES ASSUME (t - 1) % Cap = accepted % Cap PROVE FALSE
          BY DEF Counters
        <5>2. accepted >= (t - 1) + Cap
          BY <4>1, <5>1, ModApart
        <5>3. QED
          BY <3>1, <4>1, <5>2
      <4>3. slots[(t - 1) % Cap] = t
        BY <3>1, <4>1 DEF Newest
      <4>4. (t - 1) % Cap \in 0..Cap-1
        BY <4>1, ModDef
      <4>5. QED
        BY <2>1, <4>2, <4>3, <4>4 DEF JitTypes
    <3>4. QED
      BY <3>2, <3>3
  <2>9. Pointers'
    <3>1. ASSUME NEW v \in Workers, NEW t, SameSlot(v, t)
          PROVE  t \in taken'[v]..accepted' /\ (t - taken'[v]) % Cap = 0
      BY <2>2, <3>1 DEF SameSlot, JitTypes, wvars
    <3>2. ASSUME NEW v \in Workers, wpc[v] \in Working
          PROVE  /\ slots'[wslot[v]] \in taken'[v]..accepted'
                 /\ (slots'[wslot[v]] - taken'[v]) % Cap = 0
      <4>1. /\ taken[v] \in 1..ntaken /\ wslot[v] = (taken[v] - 1) % Cap
            /\ SameSlot(v, slots[wslot[v]])
        BY <3>2 DEF Pointers
      <4>2. CASE wslot[v] = tail
        <5>1. accepted \in Nat /\ taken[v] - 1 \in Nat /\ taken[v] \in 1..accepted
          <6>1. ntaken <= accepted /\ ntaken \in Nat /\ accepted \in Nat
            BY DEF Counters, JitTypes
          <6>2. QED
            BY <4>1, <6>1
        <5>2. (accepted - (taken[v] - 1)) % Cap = 0
          BY <4>1, <4>2, <5>1, ModDiff DEF Counters
        <5>3. accepted - (taken[v] - 1) = (accepted + 1) - taken[v]
          BY <5>1
        <5>4. slots'[wslot[v]] = accepted + 1
          BY <2>1, <2>4, <4>2 DEF JitTypes
        <5>5. QED
          BY <2>2, <5>1, <5>2, <5>3, <5>4 DEF SameSlot, wvars, JitTypes
      <4>3. CASE wslot[v] # tail
        <5>1. slots'[wslot[v]] = slots[wslot[v]]
          BY <2>1, <4>3 DEF JitTypes
        <5>2. QED
          BY <3>1, <4>1, <5>1
      <4>4. QED
        BY <4>2, <4>3
    <3>3. SUFFICES ASSUME NEW v \in Workers PROVE Pointers!(v)'
      BY DEF Pointers
    <3>4. UNCHANGED <<wpc, wslot, wkind, wprog, taken, ntaken>>
      BY <2>2 DEF wvars
    <3>5. QED
      BY <3>1, <3>2, <3>4 DEF Pointers, SameSlot, Working
  <2>10. Accounted'
    BY <2>2 DEF Accounted, JitTypes, wvars
  <2>11. QED
    BY <2>1, <2>2, <2>3, <2>4, <2>5, <2>6, <2>7, <2>8, <2>9, <2>10 DEF JitInv
<1>17. ASSUME NEW s \in Submitters, SPushFreed(s)
       PROVE  JitInv'
  <2>1. JitTypes'
    BY <1>17 DEF SPushFreed, JitTypes, SGoto, ring, wvars, svars, mvars, cvars
  <2>2. MutexKept'
    BY <1>17 DEF SPushFreed, MutexKept, JitTypes, SGoto, ring, wvars, svars, mvars, cvars
  <2>3. Counters' /\ Newest' /\ Pointers' /\ Accounted'
    BY <1>17 DEF SPushFreed, Counters, Newest, Pointers, SameSlot, Accounted, ring, wvars,
        svars, mvars, cvars
  <2>4. QED
    BY <2>1, <2>2, <2>3 DEF JitInv
<1>18. ASSUME InitFails
       PROVE  JitInv'
  <2>1. JitTypes' /\ MutexKept' /\ Counters' /\ Newest' /\ Pointers' /\ Accounted'
    BY <1>18 DEF InitFails, JitTypes, MutexKept, Counters, Newest, Pointers, SameSlot,
        Accounted, ring, wvars, svars, mvars, cvars
  <2>2. QED
    BY <2>1 DEF JitInv
<1>19. ASSUME InitStart
       PROVE  JitInv'
  <2>1. JitTypes' /\ MutexKept' /\ Counters' /\ Newest' /\ Pointers' /\ Accounted'
    BY <1>19 DEF InitStart, JitTypes, MutexKept, Counters, Newest, Pointers, SameSlot,
        Accounted, ring, wvars, svars, mvars, cvars
  <2>2. QED
    BY <2>1 DEF JitInv
<1>20. ASSUME NEW w \in Workers, StartWorker(w)
       PROVE  JitInv'
  <2>1. JitTypes'
    BY <1>20 DEF StartWorker, JitTypes, WGoto, Working, ring, wvars, svars, mvars, cvars
  <2>2. Pointers'
    BY <1>20 DEF StartWorker, Pointers, JitTypes, WGoto, Working, SameSlot, ring, wvars, svars,
        mvars, cvars
  <2>3. Accounted'
    BY <1>20 DEF StartWorker, Accounted, JitTypes, WGoto, Working, ring, wvars, svars, mvars,
        cvars
  <2>4. MutexKept' /\ Counters' /\ Newest'
    BY <1>20 DEF StartWorker, MutexKept, Counters, Newest, ring, wvars, svars, mvars, cvars
  <2>5. QED
    BY <2>1, <2>2, <2>3, <2>4 DEF JitInv
<1>21. ASSUME StartFails
       PROVE  JitInv'
  <2>1. JitTypes' /\ MutexKept' /\ Counters' /\ Newest' /\ Pointers' /\ Accounted'
    BY <1>21 DEF StartFails, JitTypes, MutexKept, Counters, Newest, Pointers, SameSlot,
        Accounted, ring, wvars, svars, mvars, cvars
  <2>2. QED
    BY <2>1 DEF JitInv
<1>22. ASSUME InitDone
       PROVE  JitInv'
  <2>1. JitTypes' /\ MutexKept' /\ Counters' /\ Newest' /\ Pointers' /\ Accounted'
    BY <1>22 DEF InitDone, JitTypes, MutexKept, Counters, Newest, Pointers, SameSlot, Accounted,
        ring, wvars, svars, mvars, cvars
  <2>2. QED
    BY <2>1 DEF JitInv
<1>23. ASSUME ShutdownStore
       PROVE  JitInv'
  <2>1. JitTypes' /\ MutexKept' /\ Counters' /\ Newest' /\ Pointers' /\ Accounted'
    BY <1>23 DEF ShutdownStore, JitTypes, MutexKept, Counters, Newest, Pointers, SameSlot,
        Accounted, ring, wvars, svars, mvars, cvars
  <2>2. QED
    BY <2>1 DEF JitInv
<1>24. ASSUME ShutdownBroadcast
       PROVE  JitInv'
  <2>1. JitTypes' /\ MutexKept' /\ Counters' /\ Newest' /\ Pointers' /\ Accounted'
    BY <1>24 DEF ShutdownBroadcast, JitTypes, MutexKept, Counters, Newest, Pointers, SameSlot,
        Accounted, ring, wvars, svars, mvars, cvars
  <2>2. QED
    BY <2>1 DEF JitInv
<1>25. ASSUME ShutdownFree
       PROVE  JitInv'
  <2>1. JitTypes' /\ MutexKept' /\ Counters' /\ Newest' /\ Pointers' /\ Accounted'
    BY <1>25 DEF ShutdownFree, JitTypes, MutexKept, Counters, Newest, Pointers, SameSlot,
        Accounted, ring, wvars, svars, mvars, cvars
  <2>2. QED
    BY <2>1 DEF JitInv
<1>26. ASSUME WaitBegin
       PROVE  JitInv'
  <2>1. Counters'
    BY <1>26 DEF WaitBegin, Counters, JitTypes, ring, wvars, svars, mvars, cvars
  <2>2. JitTypes' /\ MutexKept' /\ Newest' /\ Pointers' /\ Accounted'
    BY <1>26 DEF WaitBegin, JitTypes, MutexKept, Newest, Pointers, SameSlot, Accounted, ring,
        wvars, svars, mvars, cvars
  <2>3. QED
    BY <2>1, <2>2 DEF JitInv
<1>27. ASSUME WaitPoll
       PROVE  JitInv'
  <2>1. Counters'
    BY <1>27 DEF WaitPoll, Counters, JitTypes, ring, wvars, svars, mvars, cvars
  <2>2. JitTypes' /\ MutexKept' /\ Newest' /\ Pointers' /\ Accounted'
    BY <1>27 DEF WaitPoll, JitTypes, MutexKept, Newest, Pointers, SameSlot, Accounted, ring,
        wvars, svars, mvars, cvars
  <2>3. QED
    BY <2>1, <2>2 DEF JitInv
<1>28. CASE UNCHANGED vars
  BY <1>28 DEF vars, JitInv, JitTypes, MutexKept, Counters, Newest, Pointers, SameSlot, Accounted,
      ring, wvars, svars, mvars, cvars
<1>29. QED
  BY <1>1, <1>2, <1>3, <1>4, <1>5, <1>6, <1>7, <1>8, <1>9, <1>10, <1>11, <1>12, <1>13, <1>14,
      <1>15, <1>16, <1>17, <1>18, <1>19, <1>20, <1>21, <1>22, <1>23, <1>24, <1>25, <1>26, <1>27,
      <1>28 DEF Next, WorkerStep, SubmitStep, StartStep, ShutdownStep

(* The ring is exact: what submit has accepted is taken once and in order, *)
(* and lr_jit_wait_for_compilations returns only when what was accepted    *)
(* before the call has been taken.                                         *)
THEOREM RingKept == Spec => []RingExact
<1>1. JitInv => RingExact
  <2> SUFFICES ASSUME JitInv PROVE RingExact
    OBVIOUS
  <2> USE JitAssumption DEF JitAssumption
  <2>1. JitTypes /\ Counters /\ Newest
    BY DEF JitInv
  <2>2. tail = (head + size) % Cap
    <3>1. size \in Nat /\ ntaken \in Nat /\ ntaken + size = accepted
      BY <2>1 DEF Counters, JitTypes
    <3>2. ((ntaken % Cap) + size) % Cap = (ntaken + size) % Cap
      BY <3>1, ModAdd
    <3>3. QED
      BY <2>1, <3>1, <3>2 DEF Counters
  <2>3. ASSUME NEW i \in 0..size-1 PROVE slots[(head + i) % Cap] = ntaken + 1 + i
    <3>1. i \in Nat /\ ntaken \in Nat /\ ntaken + 1 + i \in 1..accepted /\ (ntaken + 1 + i) + Cap > accepted
      BY <2>1, <2>3 DEF Counters, JitTypes
    <3>2. slots[((ntaken + 1 + i) - 1) % Cap] = ntaken + 1 + i
      BY <2>1, <3>1 DEF Newest
    <3>3. (head + i) % Cap = (ntaken + i) % Cap
      BY <2>1, <3>1, ModAdd DEF Counters
    <3>4. (ntaken + 1 + i) - 1 = ntaken + i
      BY <3>1
    <3>5. QED
      BY <3>2, <3>3, <3>4
  <2>4. QED
    BY <2>1, <2>2, <2>3 DEF RingExact, Counters
<1>2. QED
  BY <1>1, JitStart, JitStep, PTL DEF Spec

(* A task taken from the ring is lost, or confused with another, only when *)
(* Cap later tasks were accepted while a worker still held its slot.       *)
THEOREM LossBounded == Spec => []LossNeedsWrap
<1>1. JitInv => LossNeedsWrap
  BY DEF JitInv, LossNeedsWrap, Accounted, Pointers, SameSlot
<1>2. QED
  BY <1>1, JitStart, JitStep, PTL DEF Spec
=============================================================================
