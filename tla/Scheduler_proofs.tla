-------------------------- MODULE Scheduler_proofs --------------------------
(* Proofs about Scheduler, for every number of tasks and of repetitions,   *)
(* every clock and every interval.                                         *)
EXTENDS Scheduler, SequenceTheorems, WellFoundedInduction, TLAPS

-----------------------------------------------------------------------------
(* Facts about numbers and sequences.                                      *)

(* A set of numbers that has a bound has a largest one. *)
LEMMA Largest ==
  ASSUME NEW n \in Nat, NEW S \in SUBSET (1 .. n), S # {}
  PROVE  Max(S) \in S /\ \A y \in S : Max(S) >= y
<1> DEFINE T == {n - i : i \in S}  R == OpToRel(<, Nat)
<1>1. T \subseteq Nat /\ T # {}
  <2>1. \A i \in S : n - i \in Nat
    OBVIOUS
  <2>2. PICK i \in S : TRUE
    OBVIOUS
  <2>3. n - i \in T
    BY <2>2
  <2>4. QED
    BY <2>1, <2>3
<1>2. IsWellFoundedOn(R, Nat)
  BY NatLessThanWellFounded
<1>3. PICK t \in T : \A u \in T : ~(<<u, t>> \in R)
  BY <1>1, <1>2, WFMin
<1>4. \A u \in T : ~(u < t)
  BY <1>1, <1>3 DEF OpToRel
<1>5. PICK m \in S : t = n - m
  BY <1>3
<1>6. \A y \in S : m >= y
  <2>1. SUFFICES ASSUME NEW y \in S PROVE m >= y
    OBVIOUS
  <2>2. n - y \in T
    BY <2>1
  <2>3. ~(n - y < n - m) /\ y \in Int /\ m \in Int
    BY <1>4, <1>5, <2>2
  <2>4. QED
    BY <2>3
<1>7. QED
  BY <1>5, <1>6 DEF Max

(* q without what lies between its first a and its elements from b on *)
Cut(q, a, b) == SubSeq(q, 1, a) \o SubSeq(q, b, Len(q))

(* q with x behind its first k elements *)
Put(q, k, x) == SubSeq(q, 1, k) \o <<x>> \o SubSeq(q, k + 1, Len(q))

(* The two parts of a sequence. *)
LEMMA Parts ==
  ASSUME NEW S, NEW q \in Seq(S), NEW a \in 0 .. Len(q), NEW b \in 1 .. Len(q) + 1
  PROVE  /\ SubSeq(q, 1, a) \in Seq(S) /\ Len(SubSeq(q, 1, a)) = a
         /\ \A i \in 1 .. a : SubSeq(q, 1, a)[i] = q[i]
         /\ SubSeq(q, b, Len(q)) \in Seq(S) /\ Len(SubSeq(q, b, Len(q))) = Len(q) - b + 1
         /\ \A i \in 1 .. Len(q) - b + 1 : SubSeq(q, b, Len(q))[i] = q[b + i - 1]
<1>1. Len(q) \in Nat /\ \A i \in 1 .. Len(q) : q[i] \in S
  OBVIOUS
<1>2. PICK n \in Nat : n = Len(q)
  BY <1>1
<1>3. a \in Int /\ b \in Int /\ n \in Int /\ 1 \in Int
  BY <1>2
<1>4. /\ \A i \in 1 .. a : q[i] \in S
      /\ \A i \in b .. n : q[i] \in S
  BY <1>1, <1>2
<1>5. /\ SubSeq(q, 1, a) \in Seq(S) /\ Len(SubSeq(q, 1, a)) = IF 1 <= a THEN a - 1 + 1 ELSE 0
      /\ \A i \in 1 .. a - 1 + 1 : SubSeq(q, 1, a)[i] = q[1 + i - 1]
  BY <1>3, <1>4, SubSeqProperties
<1>6. /\ SubSeq(q, b, n) \in Seq(S) /\ Len(SubSeq(q, b, n)) = IF b <= n THEN n - b + 1 ELSE 0
      /\ \A i \in 1 .. n - b + 1 : SubSeq(q, b, n)[i] = q[b + i - 1]
  BY <1>3, <1>4, SubSeqProperties
<1>7. /\ (IF 1 <= a THEN a - 1 + 1 ELSE 0) = a /\ a - 1 + 1 = a /\ \A i \in 1 .. a : 1 + i - 1 = i
      /\ (IF b <= n THEN n - b + 1 ELSE 0) = n - b + 1
  BY <1>2
<1>8. QED
  BY <1>2, <1>5, <1>6, <1>7

(* What is left after a cut. *)
LEMMA CutElements ==
  ASSUME NEW S, NEW q \in Seq(S), NEW a \in 0 .. Len(q), NEW b \in 1 .. Len(q) + 1, a < b
  PROVE  /\ Cut(q, a, b) \in Seq(S)
         /\ DOMAIN Cut(q, a, b) = 1 .. a + (Len(q) - b + 1)
         /\ Len(Cut(q, a, b)) = a + (Len(q) - b + 1)
         /\ \A i \in 1 .. a : Cut(q, a, b)[i] = q[i]
         /\ \A i \in b .. Len(q) : Cut(q, a, b)[i - b + 1 + a] = q[i]
         /\ \A i \in DOMAIN Cut(q, a, b) :
              (i <= a /\ Cut(q, a, b)[i] = q[i])
              \/ (i > a /\ i + b - 1 - a \in b .. Len(q) /\ Cut(q, a, b)[i] = q[i + b - 1 - a])
<1>1. PICK n \in Nat : n = Len(q)
  OBVIOUS
<1> DEFINE u == SubSeq(q, 1, a)  v == SubSeq(q, b, Len(q))  r == u \o v
<1>2. /\ u \in Seq(S) /\ Len(u) = a /\ \A i \in 1 .. a : u[i] = q[i]
      /\ v \in Seq(S) /\ Len(v) = n - b + 1 /\ \A i \in 1 .. n - b + 1 : v[i] = q[b + i - 1]
  BY <1>1, Parts
<1> HIDE DEF u, v
<1>3. /\ r \in Seq(S) /\ Len(r) = Len(u) + Len(v)
      /\ \A i \in 1 .. Len(u) + Len(v) : r[i] = IF i <= Len(u) THEN u[i] ELSE v[i - Len(u)]
  BY <1>2, ConcatProperties
<1> HIDE DEF r
<1>4. /\ Len(r) = a + (n - b + 1) /\ a + (n - b + 1) \in Nat
      /\ \A i \in 1 .. a + (n - b + 1) : r[i] = IF i <= a THEN u[i] ELSE v[i - a]
  BY <1>1, <1>2, <1>3
<1>5. DOMAIN r = 1 .. a + (n - b + 1)
  BY <1>3, <1>4, LenProperties
<1>6. \A i \in 1 .. a : r[i] = q[i]
  <2>1. SUFFICES ASSUME NEW i \in 1 .. a PROVE r[i] = q[i]
    OBVIOUS
  <2>2. i \in 1 .. a + (n - b + 1) /\ i <= a
    BY <1>1, <2>1
  <2>3. QED
    BY <1>2, <1>4, <2>1, <2>2
<1>7. ASSUME NEW i \in 1 .. a + (n - b + 1), i > a
      PROVE  i + b - 1 - a \in b .. n /\ r[i] = q[i + b - 1 - a]
  <2>1. i - a \in 1 .. n - b + 1 /\ b + (i - a) - 1 = i + b - 1 - a /\ ~(i <= a)
    BY <1>1, <1>7
  <2>2. r[i] = v[i - a] /\ v[i - a] = q[b + (i - a) - 1]
    BY <1>2, <1>4, <1>7, <2>1
  <2>3. i + b - 1 - a \in b .. n
    BY <1>1, <1>7
  <2>4. QED
    BY <2>1, <2>2, <2>3
<1>8. ASSUME NEW i \in b .. n PROVE r[i - b + 1 + a] = q[i]
  <2>1. /\ i - b + 1 + a \in 1 .. a + (n - b + 1) /\ i - b + 1 + a > a
        /\ (i - b + 1 + a) + b - 1 - a = i
    BY <1>1, <1>8
  <2>2. QED
    BY <1>7, <2>1
<1>9. ASSUME NEW i \in DOMAIN r
      PROVE  (i <= a /\ r[i] = q[i]) \/ (i > a /\ i + b - 1 - a \in b .. n /\ r[i] = q[i + b - 1 - a])
  <2>1. i \in 1 .. a + (n - b + 1)
    BY <1>5, <1>9
  <2>2. i \in 1 .. a \/ i > a
    BY <2>1
  <2>3. CASE i \in 1 .. a
    BY <1>6, <2>3
  <2>4. CASE i > a
    BY <1>7, <2>1, <2>4
  <2>5. QED
    BY <2>2, <2>3, <2>4
<1>10. Cut(q, a, b) = r
  BY DEF Cut, r, u, v
<1>11. QED
  BY <1>1, <1>3, <1>4, <1>5, <1>6, <1>8, <1>9, <1>10, Zenon

(* What an insertion gives. *)
LEMMA PutElements ==
  ASSUME NEW S, NEW q \in Seq(S), NEW k \in 0 .. Len(q), NEW x \in S
  PROVE  /\ Put(q, k, x) \in Seq(S)
         /\ DOMAIN Put(q, k, x) = 1 .. Len(q) + 1
         /\ Len(Put(q, k, x)) = Len(q) + 1
         /\ \A i \in 1 .. k : Put(q, k, x)[i] = q[i]
         /\ Put(q, k, x)[k + 1] = x
         /\ \A i \in k + 1 .. Len(q) : Put(q, k, x)[i + 1] = q[i]
<1>1. PICK n \in Nat : n = Len(q)
  OBVIOUS
<1> DEFINE u == SubSeq(q, 1, k)  v == SubSeq(q, k + 1, Len(q))  w == u \o <<x>>  r == w \o v
<1>2. /\ u \in Seq(S) /\ Len(u) = k /\ \A i \in 1 .. k : u[i] = q[i]
      /\ v \in Seq(S) /\ Len(v) = n - k /\ \A i \in 1 .. n - k : v[i] = q[k + i]
  <2>1. k + 1 \in 1 .. n + 1 /\ n - (k + 1) + 1 = n - k /\ \A i \in 1 .. n - k : (k + 1) + i - 1 = k + i
    BY <1>1
  <2>2. /\ u \in Seq(S) /\ Len(u) = k /\ \A i \in 1 .. k : u[i] = q[i]
        /\ v \in Seq(S) /\ Len(v) = n - (k + 1) + 1
        /\ \A i \in 1 .. n - (k + 1) + 1 : v[i] = q[(k + 1) + i - 1]
    BY <1>1, <2>1, Parts
  <2>3. QED
    BY <2>1, <2>2
<1> HIDE DEF u, v
<1>3. <<x>> \in Seq(S) /\ Len(<<x>>) = 1 /\ <<x>>[1] = x
  OBVIOUS
<1>4. /\ w \in Seq(S) /\ Len(w) = Len(u) + Len(<<x>>)
      /\ \A i \in 1 .. Len(u) + Len(<<x>>) : w[i] = IF i <= Len(u) THEN u[i] ELSE <<x>>[i - Len(u)]
  BY <1>2, <1>3, ConcatProperties
<1> HIDE DEF w
<1>5. /\ Len(w) = k + 1 /\ \A i \in 1 .. k : w[i] = q[i]
      /\ w[k + 1] = x
  <2>1. \A i \in 1 .. k + 1 : w[i] = IF i <= k THEN u[i] ELSE <<x>>[i - k]
    BY <1>2, <1>3, <1>4
  <2>2. w[k + 1] = <<x>>[1]
    <3>1. k + 1 \in 1 .. k + 1 /\ ~(k + 1 <= k) /\ (k + 1) - k = 1
      BY <1>1
    <3>2. QED
      BY <2>1, <3>1
  <2>3. \A i \in 1 .. k : i \in 1 .. k + 1 /\ i <= k
    BY <1>1
  <2>4. QED
    BY <1>2, <1>3, <1>4, <2>1, <2>2, <2>3
<1>a. w \in Seq(S) /\ v \in Seq(S)
  BY <1>2, <1>4
<1>6. /\ r \in Seq(S) /\ Len(r) = Len(w) + Len(v)
      /\ \A i \in 1 .. Len(w) + Len(v) : r[i] = IF i <= Len(w) THEN w[i] ELSE v[i - Len(w)]
  BY <1>a, ConcatProperties
<1> HIDE DEF r
<1>7. Len(r) = n + 1 /\ \A i \in 1 .. n + 1 : r[i] = IF i <= k + 1 THEN w[i] ELSE v[i - (k + 1)]
  <2>1. Len(w) + Len(v) = n + 1
    BY <1>1, <1>2, <1>5
  <2>2. QED
    BY <1>5, <1>6, <2>1
<1>8. DOMAIN r = 1 .. n + 1
  BY <1>6, <1>7, LenProperties
<1>9. ASSUME NEW i \in 1 .. k + 1 PROVE r[i] = w[i]
  <2>1. i \in 1 .. n + 1 /\ i <= k + 1
    BY <1>1, <1>9
  <2>2. QED
    BY <1>7, <2>1
<1>10. ASSUME NEW i \in k + 1 .. n PROVE r[i + 1] = q[i]
  <2>1. /\ i + 1 \in 1 .. n + 1 /\ ~(i + 1 <= k + 1) /\ (i + 1) - (k + 1) = i - k
        /\ i - k \in 1 .. n - k /\ k + (i - k) = i
    BY <1>1, <1>10
  <2>2. r[i + 1] = v[i - k] /\ v[i - k] = q[k + (i - k)]
    BY <1>2, <1>7, <2>1
  <2>3. QED
    BY <2>1, <2>2
<1>11. r[k + 1] = x /\ \A i \in 1 .. k : r[i] = q[i]
  <2>1. k + 1 \in 1 .. k + 1 /\ \A i \in 1 .. k : i \in 1 .. k + 1
    BY <1>1
  <2>2. QED
    BY <1>5, <1>9, <2>1
<1>12. Put(q, k, x) = r
  BY DEF Put, r, u, v, w
<1>13. QED
  BY <1>1, <1>6, <1>7, <1>8, <1>10, <1>11, <1>12

-----------------------------------------------------------------------------
(* The inductive invariant.                                                *)

TaskType == [repeat : BOOLEAN, interval : Nat, at : Nat, count : Int, runs : Nat,
             cancelled : BOOLEAN]
Fates == {"open", "cancelled", "done", "destroyed"}

TypeList == queue \in Seq(Ids) /\ task \in [Ids -> TaskType] /\ fate \in [Ids -> Fates]
TypeClock == clock \in Nat /\ now \in Nat /\ next_task_id \in 1 .. MaxTasks + 1

(* No node is in the list twice. *)
Distinct(q) == \A i, j \in DOMAIN q : q[i] = q[j] => i = j

(* The times do not go down along the list. *)
Sorted(q, t) == \A i, j \in DOMAIN q : i < j => t[q[i]].at <= t[q[j]].at

InOrder == Distinct(queue) /\ Sorted(queue, task)

(* A listed task was scheduled and was not freed; an id that was not used  *)
(* yet has no fate.                                                        *)
OpenKept ==
  /\ \A i \in DOMAIN queue : queue[i] < next_task_id /\ fate[queue[i]] = "open"
  /\ \A id \in Ids : id >= next_task_id => fate[id] = "open"

LossKept == \A id \in Lost : task[id].repeat /\ \E c \in Ids : fate[c] = "cancelled"

(* Where st stands while the list is walked.  Without prev it is the head, *)
(* or has before it the one task that was just inserted again, with a time *)
(* later than now: then st is not due.  With prev it is the next node, and *)
(* none from prev on is due.                                               *)
Stands(p) ==
  /\ queue[p] = st
  /\ \/ prev = Null /\ p = 1
     \/ /\ prev = Null /\ p = 2 /\ task[queue[1]].repeat
        /\ now <= task[queue[1]].at /\ task[queue[1]].at < task[st].at
     \/ prev # Null /\ p > 1 /\ queue[p - 1] = prev /\ now < task[prev].at
WalkKept == pc = "walk" => mutex /\ (st # Null => \E p \in DOMAIN queue : Stands(p))

SchedInv == TypeList /\ TypeClock /\ InOrder /\ OpenKept /\ LossKept /\ WalkKept

-----------------------------------------------------------------------------
(* What the operations do to the list.                                     *)

In(q, x) == \E i \in DOMAIN q : q[i] = x

(* lr_scheduler_insert_task finds the place: no later task before it, only *)
(* later ones behind it.                                                   *)
LEMMA InsertPlace ==
  ASSUME task \in [Ids -> TaskType], NEW q \in Seq(Ids), Sorted(q, task),
         NEW id \in Ids, NEW at \in Nat
  PROVE  \E k \in 0 .. Len(q) :
           /\ Insert(q, id, at) = Put(q, k, id)
           /\ \A j \in 1 .. k : task[q[j]].at <= at
           /\ \A j \in k + 1 .. Len(q) : at < task[q[j]].at
<1>1. /\ DOMAIN q = 1 .. Len(q) /\ Len(q) \in Nat
      /\ \A j \in 1 .. Len(q) : q[j] \in Ids /\ task[q[j]].at \in Nat
  <2>1. DOMAIN q = 1 .. Len(q) /\ Len(q) \in Nat /\ \A j \in 1 .. Len(q) : q[j] \in Ids
    BY LenProperties, ElementOfSeq
  <2>2. \A x \in Ids : task[x].at \in Nat
    BY DEF TaskType
  <2>3. QED
    BY <2>1, <2>2
<1>2. \A i, j \in 1 .. Len(q) : i < j => task[q[i]].at <= task[q[j]].at
  BY <1>1 DEF Sorted
<1>3. PICK n \in Nat : n = Len(q)
  BY <1>1
<1>4. CASE q = <<>> \/ at < task[Head(q)].at
  <2>1. Insert(q, id, at) = <<id>> \o q
    BY <1>4 DEF Insert
  <2>2. <<id>> \in Seq(Ids) /\ Len(<<id>>) = 1 /\ <<id>>[1] = id
    OBVIOUS
  <2>3. /\ <<id>> \o q \in Seq(Ids) /\ Len(<<id>> \o q) = 1 + n
        /\ \A i \in 1 .. 1 + n : (<<id>> \o q)[i] = IF i <= 1 THEN <<id>>[i] ELSE q[i - 1]
    BY <1>3, <2>2, ConcatProperties
  <2>4. /\ Put(q, 0, id) \in Seq(Ids) /\ Len(Put(q, 0, id)) = n + 1 /\ Put(q, 0, id)[0 + 1] = id
        /\ \A i \in 0 + 1 .. n : Put(q, 0, id)[i + 1] = q[i]
    <3>1. 0 \in 0 .. Len(q)
      BY <1>1
    <3>2. QED
      BY <1>3, <3>1, PutElements
  <2>5. ASSUME NEW i \in 1 .. 1 + n PROVE (<<id>> \o q)[i] = Put(q, 0, id)[i]
    <3>1. CASE i = 1
      BY <2>2, <2>3, <2>4, <3>1
    <3>2. CASE i # 1
      <4>1. i - 1 \in 0 + 1 .. n /\ (i - 1) + 1 = i /\ ~(i <= 1)
        BY <2>5, <3>2
      <4>2. Put(q, 0, id)[(i - 1) + 1] = q[i - 1]
        BY <2>4, <4>1
      <4>3. QED
        BY <2>3, <2>5, <4>1, <4>2
    <3>3. QED
      BY <3>1, <3>2
  <2>6. <<id>> \o q = Put(q, 0, id)
    <3>1. Len(<<id>> \o q) = Len(Put(q, 0, id))
      BY <2>3, <2>4
    <3>2. QED
      BY <2>3, <2>4, <2>5, <3>1, SeqEqual
  <2>7. ASSUME NEW j \in 1 .. n PROVE at < task[q[j]].at
    <3>1. q # <<>> /\ Head(q) = q[1] /\ 1 \in 1 .. n
      BY <1>1, <1>3, <2>7
    <3>2. at < task[q[1]].at /\ (1 = j \/ task[q[1]].at <= task[q[j]].at)
      BY <1>2, <1>3, <1>4, <2>7, <3>1
    <3>3. task[q[1]].at \in Nat /\ task[q[j]].at \in Nat
      BY <1>1, <1>3, <2>7, <3>1
    <3>4. QED
      BY <3>2, <3>3
  <2>8. 0 \in 0 .. Len(q) /\ \A j \in 0 + 1 .. Len(q) : at < task[q[j]].at
    BY <1>1, <1>3, <2>7
  <2>9. Insert(q, id, at) = Put(q, 0, id) /\ \A j \in 1 .. 0 : task[q[j]].at <= at
    BY <2>1, <2>6
  <2>10. QED
    BY <2>8, <2>9
<1>5. CASE ~(q = <<>> \/ at < task[Head(q)].at)
  <2> DEFINE K == {i \in DOMAIN q : \A j \in 2 .. i : task[q[j]].at <= at}  k == Max(K)
  <2>1. Insert(q, id, at) = Put(q, k, id)
    BY <1>5 DEF Insert, Put
  <2>2. 1 \in DOMAIN q /\ Head(q) = q[1] /\ task[q[1]].at <= at
    <3>1. 1 \in DOMAIN q /\ Head(q) = q[1]
      BY <1>1, <1>5
    <3>2. task[q[1]].at \in Nat /\ ~(at < task[q[1]].at)
      BY <1>1, <1>5, <3>1
    <3>3. QED
      BY <3>1, <3>2
  <2>3. 1 \in K
    BY <2>2
  <2>4. K \in SUBSET (1 .. n) /\ K # {}
    BY <1>1, <1>3, <2>3
  <2>5. k \in K /\ \A y \in K : k >= y
    <3> HIDE DEF K
    <3>1. QED
      BY <2>4, Largest
  <2>6. k \in 1 .. n /\ \A j \in 2 .. k : task[q[j]].at <= at
    BY <2>4, <2>5
  <2>7. \A y \in 1 .. n : (\A j \in 2 .. y : task[q[j]].at <= at) => k >= y
    BY <1>1, <1>3, <2>5
  <2> HIDE DEF k
  <2>8. \A j \in 1 .. k : task[q[j]].at <= at
    <3>1. \A j \in 1 .. k : j = 1 \/ j \in 2 .. k
      BY <2>6
    <3>2. QED
      BY <2>2, <2>6, <3>1
  <2>9. ASSUME NEW j \in k + 1 .. n PROVE at < task[q[j]].at
    <3>1. k + 1 \in 1 .. n /\ ~(k >= k + 1)
      BY <2>6, <2>9
    <3>2. PICK l \in 2 .. k + 1 : ~(task[q[l]].at <= at)
      BY <2>7, <3>1
    <3>3. l = k + 1
      BY <2>6, <3>2
    <3>4. k + 1 = j \/ k + 1 < j
      BY <2>6, <2>9
    <3>5. j \in 1 .. n /\ task[q[j]].at \in Nat /\ task[q[k + 1]].at \in Nat
      BY <1>1, <1>3, <2>6, <2>9, <3>1
    <3>6. task[q[k + 1]].at <= task[q[j]].at
      BY <1>2, <1>3, <3>1, <3>4, <3>5
    <3>7. QED
      BY <3>2, <3>3, <3>5, <3>6
  <2>10. k \in 0 .. Len(q) /\ \A j \in k + 1 .. Len(q) : at < task[q[j]].at
    BY <1>3, <2>6, <2>9
  <2>11. QED
    BY <2>1, <2>8, <2>10
<1>6. QED
  BY <1>4, <1>5

(* The list with a task put in is still in order, whatever happens to the  *)
(* other fields of the tasks.                                              *)
LEMMA InsertKeeps ==
  ASSUME task \in [Ids -> TaskType], NEW q \in Seq(Ids), Sorted(q, task), Distinct(q),
         NEW id \in Ids, ~In(q, id), NEW at \in Nat,
         NEW t \in [Ids -> TaskType], t[id].at = at,
         \A i \in DOMAIN q : t[q[i]].at = task[q[i]].at
  PROVE  LET r == Insert(q, id, at)
         IN  /\ r \in Seq(Ids) /\ Distinct(r) /\ Sorted(r, t)
             /\ \A y : In(r, y) <=> y = id \/ In(q, y)
             /\ q # <<>> => /\ 1 \in DOMAIN r
                            /\ \/ r[1] = q[1]
                               \/ 2 \in DOMAIN r /\ r[1] = id /\ r[2] = q[1] /\ at < task[q[1]].at
<1> DEFINE r == Insert(q, id, at)
<1>1. /\ DOMAIN q = 1 .. Len(q) /\ Len(q) \in Nat
      /\ \A j \in 1 .. Len(q) : q[j] \in Ids /\ task[q[j]].at \in Nat /\ t[q[j]].at = task[q[j]].at
  <2>1. DOMAIN q = 1 .. Len(q) /\ Len(q) \in Nat /\ \A j \in 1 .. Len(q) : q[j] \in Ids
    BY LenProperties, ElementOfSeq
  <2>2. \A i \in Ids : task[i].at \in Nat
    BY DEF TaskType
  <2>3. QED
    BY <2>1, <2>2
<1>2. PICK n \in Nat : n = Len(q)
  BY <1>1
<1>3. PICK k \in 0 .. n :
        /\ r = Put(q, k, id)
        /\ \A j \in 1 .. k : task[q[j]].at <= at
        /\ \A j \in k + 1 .. n : at < task[q[j]].at
  BY <1>2, InsertPlace
<1> HIDE DEF r
<1>4. /\ r \in Seq(Ids) /\ DOMAIN r = 1 .. n + 1
      /\ \A i \in 1 .. k : r[i] = q[i]
      /\ r[k + 1] = id
      /\ \A i \in k + 1 .. n : r[i + 1] = q[i]
  <2>1. k \in 0 .. Len(q)
    BY <1>2
  <2>2. /\ Put(q, k, id) \in Seq(Ids) /\ DOMAIN Put(q, k, id) = 1 .. Len(q) + 1
        /\ \A i \in 1 .. k : Put(q, k, id)[i] = q[i]
        /\ Put(q, k, id)[k + 1] = id
        /\ \A i \in k + 1 .. Len(q) : Put(q, k, id)[i + 1] = q[i]
    <3>1. Put(q, k, id) \in Seq(Ids)
      BY <2>1, PutElements
    <3>2. DOMAIN Put(q, k, id) = 1 .. Len(q) + 1
      BY <2>1, PutElements
    <3>3. \A i \in 1 .. k : Put(q, k, id)[i] = q[i]
      BY <2>1, PutElements
    <3>4. Put(q, k, id)[k + 1] = id
      BY <2>1, PutElements
    <3>5. \A i \in k + 1 .. Len(q) : Put(q, k, id)[i + 1] = q[i]
      BY <2>1, PutElements
    <3>6. QED
      BY <3>1, <3>2, <3>3, <3>4, <3>5
  <2>3. r = Put(q, k, id)
    BY <1>3
  <2>4. QED
    BY <1>2, <2>2, <2>3
<1>5. ASSUME NEW i \in 1 .. n + 1
      PROVE  \/ i \in 1 .. k /\ i \in 1 .. n /\ r[i] = q[i]
             \/ i = k + 1 /\ r[i] = id
             \/ i > k + 1 /\ i - 1 \in k + 1 .. n /\ i - 1 \in 1 .. n /\ r[i] = q[i - 1]
  <2>1. i \in 1 .. k \/ i = k + 1 \/ (i > k + 1 /\ i - 1 \in k + 1 .. n /\ (i - 1) + 1 = i)
    BY <1>5
  <2>2. (i \in 1 .. k => i \in 1 .. n) /\ (i - 1 \in k + 1 .. n => i - 1 \in 1 .. n)
    BY <1>5
  <2>3. CASE i \in 1 .. k
    BY <1>4, <2>2, <2>3
  <2>4. CASE i = k + 1
    BY <1>4, <2>4
  <2>5. CASE i > k + 1 /\ i - 1 \in k + 1 .. n /\ (i - 1) + 1 = i
    <3>1. r[(i - 1) + 1] = q[i - 1]
      BY <1>4, <2>5
    <3>2. QED
      BY <2>2, <2>5, <3>1
  <2>6. QED
    BY <2>1, <2>3, <2>4, <2>5
<1>6. \A i \in 1 .. n : q[i] # id
  BY <1>1, <1>2 DEF In
<1>7. \A i, j \in 1 .. n : q[i] = q[j] => i = j
  BY <1>1, <1>2 DEF Distinct
<1>8. Distinct(r)
  <2>1. SUFFICES ASSUME NEW i \in 1 .. n + 1, NEW j \in 1 .. n + 1, r[i] = r[j] PROVE i = j
    BY <1>4 DEF Distinct
  <2> DEFINE Shift(x, y) == (x \in 1 .. k /\ y = x) \/ (x > k + 1 /\ y = x - 1)
  <2>2. (i = k + 1 /\ r[i] = id) \/ \E y \in 1 .. n : Shift(i, y) /\ r[i] = q[y]
    BY <1>5
  <2>3. (j = k + 1 /\ r[j] = id) \/ \E y \in 1 .. n : Shift(j, y) /\ r[j] = q[y]
    BY <1>5
  <2>4. \A y \in 1 .. n : Shift(i, y) /\ Shift(j, y) => i = j
    BY <2>1
  <2> HIDE DEF Shift
  <2>5. QED
    BY <1>6, <1>7, <2>1, <2>2, <2>3, <2>4
<1>9. Sorted(r, t)
  <2>1. SUFFICES ASSUME NEW i \in 1 .. n + 1, NEW j \in 1 .. n + 1, i < j
                 PROVE  t[r[i]].at <= t[r[j]].at
    BY <1>4 DEF Sorted
  <2>2. \A x, y \in 1 .. n : x < y => task[q[x]].at <= task[q[y]].at
    BY <1>1, <1>2 DEF Sorted
  <2>3. \A x \in 1 .. n : t[q[x]].at = task[q[x]].at /\ task[q[x]].at \in Nat
    BY <1>1, <1>2
  <2>4. CASE i \in 1 .. k /\ r[i] = q[i] /\ i \in 1 .. n
    <3>1. CASE j \in 1 .. k /\ r[j] = q[j] /\ j \in 1 .. n
      BY <2>1, <2>2, <2>3, <2>4, <3>1
    <3>2. CASE r[j] = id
      BY <1>3, <2>3, <2>4, <3>2
    <3>3. CASE j > k + 1 /\ j - 1 \in 1 .. n /\ r[j] = q[j - 1]
      <4>1. i < j - 1
        BY <2>1, <2>4, <3>3
      <4>2. QED
        BY <2>2, <2>3, <2>4, <3>3, <4>1
    <3>4. QED
      BY <1>5, <3>1, <3>2, <3>3
  <2>5. CASE i = k + 1 /\ r[i] = id
    <3>1. j > k + 1 /\ ~(j \in 1 .. k) /\ j # k + 1
      BY <2>1, <2>5
    <3>2. j - 1 \in k + 1 .. n /\ j - 1 \in 1 .. n /\ r[j] = q[j - 1]
      BY <1>5, <3>1
    <3>3. at < task[q[j - 1]].at /\ task[q[j - 1]].at \in Nat /\ t[q[j - 1]].at = task[q[j - 1]].at
      BY <1>3, <2>3, <3>2
    <3>4. QED
      BY <2>5, <3>2, <3>3
  <2>6. CASE i > k + 1 /\ i - 1 \in 1 .. n /\ r[i] = q[i - 1]
    <3>1. ~(j \in 1 .. k) /\ j # k + 1
      BY <2>1, <2>6
    <3>2. j - 1 \in 1 .. n /\ r[j] = q[j - 1] /\ i - 1 < j - 1
      BY <1>5, <2>1, <3>1
    <3>3. QED
      BY <2>2, <2>3, <2>6, <3>2
  <2>7. QED
    BY <1>5, <2>4, <2>5, <2>6
<1>10. ASSUME NEW y PROVE In(r, y) <=> y = id \/ In(q, y)
  <2>1. In(r, y) => y = id \/ In(q, y)
    <3>1. SUFFICES ASSUME NEW i \in 1 .. n + 1, r[i] = y
                   PROVE  y = id \/ \E j \in 1 .. n : q[j] = y
      BY <1>1, <1>2, <1>4 DEF In
    <3>2. QED
      BY <1>5, <3>1
  <2>2. ASSUME NEW i \in 1 .. n, q[i] = y PROVE In(r, y)
    <3>1. CASE i \in 1 .. k
      <4>1. i \in DOMAIN r
        BY <1>4, <3>1
      <4>2. QED
        BY <1>4, <2>2, <3>1, <4>1 DEF In
    <3>2. CASE ~(i \in 1 .. k)
      <4>1. i \in k + 1 .. n /\ i + 1 \in DOMAIN r
        BY <1>4, <2>2, <3>2
      <4>2. QED
        BY <1>4, <2>2, <4>1 DEF In
    <3>3. QED
      BY <3>1, <3>2
  <2>3. k + 1 \in DOMAIN r
    BY <1>4
  <2>4. QED
    BY <1>1, <1>2, <1>4, <2>1, <2>2, <2>3 DEF In
<1>11. ASSUME q # <<>>
       PROVE  /\ 1 \in DOMAIN r
              /\ \/ r[1] = q[1]
                 \/ 2 \in DOMAIN r /\ r[1] = id /\ r[2] = q[1] /\ at < task[q[1]].at
  <2>1. n # 0
    BY <1>1, <1>2, <1>11
  <2>2. 1 \in DOMAIN r /\ 2 \in DOMAIN r
    BY <1>4, <2>1
  <2>3. CASE k = 0
    <3>1. 1 \in k + 1 .. n /\ k + 1 = 1
      BY <2>1, <2>3
    <3>2. r[1 + 1] = q[1] /\ r[1] = id /\ at < task[q[1]].at
      BY <1>3, <1>4, <3>1
    <3>3. QED
      BY <2>2, <3>2
  <2>4. CASE k # 0
    <3>1. 1 \in 1 .. k
      BY <2>4
    <3>2. QED
      BY <1>4, <2>2, <3>1
  <2>5. QED
    BY <2>3, <2>4
<1>12. QED
  BY <1>4, <1>8, <1>9, <1>10, <1>11 DEF r

(* The list with some neighbours taken out is still in order. *)
LEMMA CutKeeps ==
  ASSUME task \in [Ids -> TaskType], NEW q \in Seq(Ids), Sorted(q, task), Distinct(q),
         NEW a \in 0 .. Len(q), NEW b \in 1 .. Len(q) + 1, a < b,
         NEW t, \A i \in DOMAIN q : i <= a \/ i >= b => t[q[i]].at = task[q[i]].at
  PROVE  LET r == Cut(q, a, b)
         IN  /\ r \in Seq(Ids) /\ Distinct(r) /\ Sorted(r, t)
             /\ \A y : In(r, y) <=> \E i \in DOMAIN q : (i <= a \/ i >= b) /\ q[i] = y
<1> DEFINE r == Cut(q, a, b)
<1>1. DOMAIN q = 1 .. Len(q) /\ Len(q) \in Nat
  OBVIOUS
<1>2. PICK n \in Nat : n = Len(q)
  BY <1>1
<1> HIDE DEF r
<1>3. /\ r \in Seq(Ids) /\ DOMAIN r = 1 .. a + (n - b + 1)
      /\ \A i \in 1 .. a : r[i] = q[i]
      /\ \A i \in b .. n : r[i - b + 1 + a] = q[i]
      /\ \A i \in DOMAIN r : \/ i <= a /\ r[i] = q[i]
                             \/ i > a /\ i + b - 1 - a \in b .. n /\ r[i] = q[i + b - 1 - a]
  <2>1. r = Cut(q, a, b)
    BY DEF r
  <2>3. /\ Cut(q, a, b) \in Seq(Ids) /\ DOMAIN Cut(q, a, b) = 1 .. a + (Len(q) - b + 1)
        /\ \A i \in 1 .. a : Cut(q, a, b)[i] = q[i]
        /\ \A i \in b .. Len(q) : Cut(q, a, b)[i - b + 1 + a] = q[i]
        /\ \A i \in DOMAIN Cut(q, a, b) :
             (i <= a /\ Cut(q, a, b)[i] = q[i])
             \/ (i > a /\ i + b - 1 - a \in b .. Len(q) /\ Cut(q, a, b)[i] = q[i + b - 1 - a])
    <3>1. Cut(q, a, b) \in Seq(Ids) /\ DOMAIN Cut(q, a, b) = 1 .. a + (Len(q) - b + 1)
      BY CutElements
    <3>2. \A i \in 1 .. a : Cut(q, a, b)[i] = q[i]
      BY CutElements
    <3>3. \A i \in b .. Len(q) : Cut(q, a, b)[i - b + 1 + a] = q[i]
      BY CutElements
    <3>4. \A i \in DOMAIN Cut(q, a, b) :
             (i <= a /\ Cut(q, a, b)[i] = q[i])
             \/ (i > a /\ i + b - 1 - a \in b .. Len(q) /\ Cut(q, a, b)[i] = q[i + b - 1 - a])
      BY CutElements
    <3>5. QED
      BY <3>1, <3>2, <3>3, <3>4
  <2>2. /\ r \in Seq(Ids) /\ DOMAIN r = 1 .. a + (Len(q) - b + 1)
        /\ \A i \in 1 .. a : r[i] = q[i]
        /\ \A i \in b .. Len(q) : r[i - b + 1 + a] = q[i]
        /\ \A i \in DOMAIN r : (i <= a /\ r[i] = q[i])
             \/ (i > a /\ i + b - 1 - a \in b .. Len(q) /\ r[i] = q[i + b - 1 - a])
    BY <2>1, <2>3
  <2>4. QED
    BY <1>2, <2>2
<1> DEFINE From(i, x) == (i <= a /\ x = i) \/ (i > a /\ x = i + b - 1 - a /\ x >= b)
<1>4. ASSUME NEW i \in DOMAIN r PROVE \E x \in 1 .. n : From(i, x) /\ r[i] = q[x]
  <2>1. CASE i <= a /\ r[i] = q[i]
    <3>1. i \in 1 .. n
      BY <1>2, <1>3, <1>4, <2>1
    <3>2. QED
      BY <2>1, <3>1
  <2>2. CASE i > a /\ i + b - 1 - a \in b .. n /\ r[i] = q[i + b - 1 - a]
    <3>1. i + b - 1 - a \in 1 .. n /\ i + b - 1 - a >= b
      BY <1>2, <1>3, <1>4, <2>2
    <3>2. QED
      BY <2>2, <3>1
  <2>3. QED
    BY <1>3, <1>4, <2>1, <2>2
<1>5. \A i, j \in DOMAIN r, x, y \in 1 .. n :
        From(i, x) /\ From(j, y) => (x = y => i = j) /\ (i < j => x < y) /\ (x <= a \/ x >= b)
  <2>1. a \in Int /\ b \in Int /\ \A i \in DOMAIN r : i \in Int
    BY <1>2, <1>3
  <2>2. \A i, j, x, y \in Int :
          From(i, x) /\ From(j, y) => (x = y => i = j) /\ (i < j => x < y) /\ (x <= a \/ x >= b)
    BY <2>1
  <2>3. \A x \in 1 .. n : x \in Int
    OBVIOUS
  <2> HIDE DEF From
  <2>4. QED
    BY <2>1, <2>2, <2>3
<1> HIDE DEF From
<1>6. Distinct(r)
  BY <1>1, <1>2, <1>4, <1>5 DEF Distinct
<1>7. Sorted(r, t)
  <2>1. SUFFICES ASSUME NEW i \in DOMAIN r, NEW j \in DOMAIN r, i < j
                 PROVE  t[r[i]].at <= t[r[j]].at
    BY DEF Sorted
  <2>2. PICK x \in 1 .. n : From(i, x) /\ r[i] = q[x]
    BY <1>4, <2>1
  <2>3. PICK y \in 1 .. n : From(j, y) /\ r[j] = q[y]
    BY <1>4, <2>1
  <2>4. x < y /\ (x <= a \/ x >= b) /\ (y <= a \/ y >= b)
    BY <1>5, <2>1, <2>2, <2>3
  <2>5. task[q[x]].at <= task[q[y]].at
    BY <1>1, <1>2, <2>4 DEF Sorted
  <2>6. t[q[x]].at = task[q[x]].at /\ t[q[y]].at = task[q[y]].at
    BY <1>1, <1>2, <2>4
  <2>7. QED
    BY <2>2, <2>3, <2>5, <2>6
<1>8. ASSUME NEW y PROVE In(r, y) <=> \E i \in DOMAIN q : (i <= a \/ i >= b) /\ q[i] = y
  <2>1. In(r, y) => \E i \in DOMAIN q : (i <= a \/ i >= b) /\ q[i] = y
    <3>1. SUFFICES ASSUME NEW i \in DOMAIN r, r[i] = y
                   PROVE  \E x \in 1 .. n : (x <= a \/ x >= b) /\ q[x] = y
      BY <1>1, <1>2 DEF In
    <3>2. PICK x \in 1 .. n : From(i, x) /\ r[i] = q[x]
      BY <1>4, <3>1
    <3>3. x <= a \/ x >= b
      BY <1>5, <3>1, <3>2
    <3>4. QED
      BY <3>1, <3>2, <3>3
  <2>2. ASSUME NEW i \in 1 .. n, i <= a \/ i >= b, q[i] = y PROVE In(r, y)
    <3>1. CASE i <= a
      <4>1. i \in 1 .. a /\ i \in DOMAIN r
        BY <1>2, <1>3, <2>2, <3>1
      <4>2. QED
        BY <1>3, <2>2, <4>1 DEF In
    <3>2. CASE i >= b
      <4>1. i \in b .. n /\ i - b + 1 + a \in DOMAIN r
        BY <1>2, <1>3, <2>2, <3>2
      <4>2. QED
        BY <1>3, <2>2, <4>1 DEF In
    <3>3. QED
      BY <2>2, <3>1, <3>2
  <2>3. QED
    BY <1>1, <1>2, <2>1, <2>2
<1>9. QED
  BY <1>3, <1>6, <1>7, <1>8 DEF r

-----------------------------------------------------------------------------
(* Where the walk stands.                                                  *)

(* The ids and times of the list. *)
LEMMA ListFacts ==
  ASSUME TypeList
  PROVE  /\ DOMAIN queue = 1 .. Len(queue) /\ Len(queue) \in Nat
         /\ \A i \in DOMAIN queue : queue[i] \in Ids /\ queue[i] # Null
         /\ \A id \in Ids : /\ task[id].at \in Nat /\ task[id].interval \in Nat
                            /\ task[id].count \in Int /\ task[id].runs \in Nat
<1>1. DOMAIN queue = 1 .. Len(queue) /\ Len(queue) \in Nat
  BY LenProperties DEF TypeList
<1>2. \A i \in 1 .. Len(queue) : queue[i] \in Ids
  BY ElementOfSeq DEF TypeList
<1>3. \A id \in Ids : id # Null
  BY SchedulerAssumption DEF Ids, Null
<1>4. \A id \in Ids : /\ task[id].at \in Nat /\ task[id].interval \in Nat
                      /\ task[id].count \in Int /\ task[id].runs \in Nat
  BY DEF TypeList, TaskType
<1>5. QED
  BY <1>1, <1>2, <1>3, <1>4

(* Pos finds a node. *)
LEMMA PosOf ==
  ASSUME InOrder, NEW p \in DOMAIN queue
  PROVE  Pos(queue[p]) = p
BY DEF InOrder, Distinct, Pos

(* What Unlink takes out: everything before st when there is no prev, and  *)
(* st alone when there is.                                                 *)
LEMMA UnlinkCuts ==
  ASSUME TypeList, InOrder, NEW p \in DOMAIN queue, Stands(p)
  PROVE  /\ Following(st) = IF p = Len(queue) THEN Null ELSE queue[p + 1]
         /\ prev = Null => Unlink = Cut(queue, 0, p + 1)
         /\ prev # Null => p - 1 \in DOMAIN queue /\ Unlink = Cut(queue, p - 1, p + 1)
<1>1. queue[p] = st /\ Pos(st) = p
  BY PosOf DEF Stands
<1>2. Following(st) = IF p = Len(queue) THEN Null ELSE queue[p + 1]
  BY <1>1 DEF Following
<1>3. ASSUME prev = Null PROVE Unlink = Cut(queue, 0, p + 1)
  <2>1. SubSeq(queue, 1, 0) = <<>>
    BY SubSeqEmpty
  <2>2. QED
    BY <1>1, <1>3, <2>1 DEF Unlink, Cut
<1>4. ASSUME prev # Null PROVE p - 1 \in DOMAIN queue /\ Unlink = Cut(queue, p - 1, p + 1)
  <2>1. p > 1 /\ queue[p - 1] = prev
    BY <1>4 DEF Stands
  <2>2. p - 1 \in DOMAIN queue
    BY <2>1, ListFacts
  <2>3. Pos(prev) = p - 1
    BY <2>1, <2>2, PosOf
  <2>4. QED
    BY <1>1, <1>4, <2>2, <2>3 DEF Unlink, Cut
<1>5. QED
  BY <1>2, <1>3, <1>4

(* A task that is due is at the head of the list, and nothing was skipped. *)
LEMMA DueIsHead ==
  ASSUME TypeList, TypeClock, InOrder, NEW p \in DOMAIN queue, Stands(p), Due
  PROVE  prev = Null /\ p = 1
<1>1. task[st].at <= now /\ now \in Nat /\ queue[p] = st /\ st \in Ids /\ task[st].at \in Nat
  BY ListFacts DEF Due, Stands, TypeClock
<1>2. ASSUME p = 2, now <= task[queue[1]].at, task[queue[1]].at < task[st].at PROVE FALSE
  <2>1. 1 \in DOMAIN queue
    BY <1>2, ListFacts
  <2>2. task[queue[1]].at \in Nat
    BY <2>1, ListFacts
  <2>3. QED
    BY <1>1, <1>2, <2>2
<1>3. ASSUME p > 1, queue[p - 1] = prev, now < task[prev].at PROVE FALSE
  <2>1. p - 1 \in DOMAIN queue /\ p - 1 < p
    BY <1>3, ListFacts
  <2>2. task[queue[p - 1]].at <= task[queue[p]].at
    BY <2>1 DEF InOrder, Sorted
  <2>3. task[queue[p - 1]].at \in Nat
    BY <2>1, ListFacts
  <2>4. QED
    BY <1>1, <1>3, <2>2, <2>3
<1>4. QED
  BY <1>2, <1>3 DEF Stands

(* The list without its head. *)
LEMMA WithoutHead ==
  ASSUME TypeList, InOrder, OpenKept, prev = Null, Stands(1), 1 \in DOMAIN queue,
         NEW t, \A id \in Ids : id # st => t[id].at = task[id].at
  PROVE  /\ Unlink \in Seq(Ids) /\ Distinct(Unlink) /\ Sorted(Unlink, t)
         /\ \A y : In(Unlink, y) <=> y # st /\ In(queue, y)
         /\ Following(st) # Null => /\ Following(st) # st
                                    /\ 1 \in DOMAIN Unlink /\ Unlink[1] = Following(st)
<1>1. PICK n \in Nat : n = Len(queue)
  BY ListFacts
<1>2. /\ DOMAIN queue = 1 .. n /\ 1 \in 1 .. n /\ \A i \in 1 .. n : queue[i] \in Ids
      /\ queue \in Seq(Ids) /\ task \in [Ids -> TaskType] /\ queue[1] = st
  BY <1>1, ListFacts DEF TypeList, Stands
<1>3. Unlink = Cut(queue, 0, 2) /\ Following(st) = IF 1 = n THEN Null ELSE queue[2]
  <2>1. Unlink = Cut(queue, 0, 1 + 1) /\ Following(st) = IF 1 = n THEN Null ELSE queue[1 + 1]
    BY <1>1, UnlinkCuts
  <2>2. QED
    BY <2>1
<1>4. 0 \in 0 .. n /\ 2 \in 1 .. n + 1 /\ 0 < 2
  BY <1>2
<1>5. \A i, j \in 1 .. n : queue[i] = queue[j] => i = j
  BY <1>2 DEF InOrder, Distinct
<1>6. \A i \in 1 .. n : i <= 0 \/ i >= 2 <=> queue[i] # st
  BY <1>2, <1>5
<1>7. \A i \in 1 .. n : i <= 0 \/ i >= 2 => t[queue[i]].at = task[queue[i]].at
  BY <1>2, <1>6
<1> DEFINE r == Cut(queue, 0, 2)
<1>8. /\ r \in Seq(Ids) /\ Distinct(r) /\ Sorted(r, t)
      /\ \A y : In(r, y) <=> \E i \in DOMAIN queue : (i <= 0 \/ i >= 2) /\ queue[i] = y
  <2>1. Sorted(queue, task) /\ Distinct(queue)
    BY DEF InOrder
  <2>2. 0 \in 0 .. Len(queue) /\ 2 \in 1 .. Len(queue) + 1 /\ 0 < 2
    BY <1>1, <1>4
  <2>3. \A i \in DOMAIN queue : i <= 0 \/ i >= 2 => t[queue[i]].at = task[queue[i]].at
    BY <1>2, <1>7
  <2>4. QED
    BY <1>2, <2>1, <2>2, <2>3, CutKeeps
<1>9. /\ DOMAIN r = 1 .. 0 + (n - 2 + 1)
      /\ \A i \in 2 .. n : r[i - 2 + 1 + 0] = queue[i]
  <2>1. 0 \in 0 .. Len(queue) /\ 2 \in 1 .. Len(queue) + 1 /\ 0 < 2 /\ queue \in Seq(Ids)
    BY <1>1, <1>2, <1>4
  <2>2. DOMAIN r = 1 .. 0 + (Len(queue) - 2 + 1)
    BY <2>1, CutElements
  <2>3. \A i \in 2 .. Len(queue) : r[i - 2 + 1 + 0] = queue[i]
    BY <2>1, CutElements
  <2>4. QED
    BY <1>1, <2>2, <2>3
<1> HIDE DEF r
<1>10. ASSUME n # 1
       PROVE  1 \in DOMAIN r /\ r[1] = queue[2] /\ queue[2] # st
  <2>1. 2 \in 2 .. n /\ 2 - 2 + 1 + 0 = 1 /\ 1 \in 1 .. 0 + (n - 2 + 1) /\ 2 \in 1 .. n
    BY <1>2, <1>10
  <2>2. r[2 - 2 + 1 + 0] = queue[2]
    BY <1>9, <2>1
  <2>3. QED
    BY <1>6, <1>9, <2>1, <2>2
<1>11. ASSUME NEW y PROVE In(r, y) <=> y # st /\ In(queue, y)
  <2>1. (\E i \in 1 .. n : (i <= 0 \/ i >= 2) /\ queue[i] = y)
        <=> y # st /\ \E i \in 1 .. n : queue[i] = y
    BY <1>6
  <2>2. QED
    BY <1>2, <1>8, <2>1 DEF In
<1>12. Unlink = r
  BY <1>3 DEF r
<1>13. QED
  BY <1>3, <1>8, <1>10, <1>11, <1>12

-----------------------------------------------------------------------------
(* The steps that change the list.                                         *)

(* A task is scheduled. *)
LEMMA AddKeeps ==
  ASSUME TypeList, TypeClock, InOrder, OpenKept, LossKept, WalkKept,
         NEW t \in TaskType, Add(t)
  PROVE  SchedInv'
<1> DEFINE new == next_task_id
<1>1. /\ ~mutex /\ task' = [task EXCEPT ![new] = t] /\ queue' = Insert(queue, new, t.at)
      /\ next_task_id' = new + 1 /\ UNCHANGED <<clock, fate, pc, now>>
  BY DEF Add, loopVars, walkVars
<1>2. new \in Ids /\ new \in Nat /\ next_task_id' \in 1 .. MaxTasks + 1
  BY SchedulerAssumption DEF Add, TypeClock, Ids
<1>3. /\ task' \in [Ids -> TaskType] /\ task'[new] = t
      /\ \A id \in Ids : id # new => task'[id] = task[id]
  BY <1>1, <1>2 DEF TypeList
<1>4. ~In(queue, new)
  <2>1. \A i \in DOMAIN queue : queue[i] < new /\ queue[i] \in Nat
    BY ListFacts DEF OpenKept, Ids
  <2>2. QED
    BY <1>2, <2>1 DEF In
<1>5. t.at \in Nat /\ task'[new].at = t.at
  BY <1>3 DEF TaskType
<1>6. \A i \in DOMAIN queue : task'[queue[i]].at = task[queue[i]].at
  BY <1>3, <1>4, ListFacts DEF In
<1>7. /\ queue' \in Seq(Ids) /\ Distinct(queue') /\ Sorted(queue', task')
      /\ \A y : In(queue', y) <=> y = new \/ In(queue, y)
  <2>1. queue \in Seq(Ids) /\ task \in [Ids -> TaskType] /\ Sorted(queue, task) /\ Distinct(queue)
    BY DEF TypeList, InOrder
  <2>2. PICK q \in Seq(Ids), id \in Ids, at \in Nat, u \in [Ids -> TaskType] :
          q = queue /\ id = new /\ at = t.at /\ u = task'
    BY <1>2, <1>3, <1>5, <2>1
  <2>3. /\ Sorted(q, task) /\ Distinct(q) /\ ~In(q, id) /\ u[id].at = at
        /\ \A i \in DOMAIN q : u[q[i]].at = task[q[i]].at
    BY <1>4, <1>5, <1>6, <2>1, <2>2
  <2>4. /\ Insert(q, id, at) \in Seq(Ids) /\ Distinct(Insert(q, id, at))
        /\ Sorted(Insert(q, id, at), u)
        /\ \A y : In(Insert(q, id, at), y) <=> y = id \/ In(q, y)
    BY <2>1, <2>3, InsertKeeps
  <2>5. QED
    BY <1>1, <2>2, <2>4
<1> HIDE DEF new
<1>8. TypeList' /\ TypeClock' /\ InOrder'
  BY <1>1, <1>2, <1>3, <1>7 DEF TypeList, TypeClock, InOrder, new
<1>9. OpenKept'
  <2>1. \A id \in Ids : id >= next_task_id' => id >= new
    BY <1>1, <1>2 DEF Ids
  <2>2. \A i \in DOMAIN queue' : queue'[i] = new \/ \E j \in DOMAIN queue : queue'[i] = queue[j]
    BY <1>7 DEF In
  <2>3. \A j \in DOMAIN queue : queue[j] < next_task_id' /\ fate[queue[j]] = "open"
    BY <1>1, <1>2, ListFacts DEF OpenKept, Ids, new
  <2>4. new < next_task_id' /\ fate[new] = "open"
    BY <1>1, <1>2 DEF OpenKept, new
  <2>5. QED
    BY <1>1, <2>1, <2>2, <2>3, <2>4 DEF OpenKept, new
<1>10. LossKept'
  <2>1. SUFFICES ASSUME NEW id \in 1 .. next_task_id' - 1, fate[id] = "open", ~In(queue', id)
                 PROVE  id \in Lost /\ task'[id] = task[id]
    BY <1>1 DEF LossKept, Lost, Scheduled, Listed, In
  <2>2. id # new /\ ~In(queue, id)
    BY <1>7, <2>1
  <2>3. id \in 1 .. new - 1 /\ id \in Ids
    <3>1. id \in 1 .. new /\ new \in 1 .. MaxTasks /\ MaxTasks \in Nat
      BY <1>1, <1>2, <2>1, SchedulerAssumption DEF Ids
    <3>2. QED
      BY <2>2, <3>1 DEF Ids
  <2>4. QED
    BY <1>3, <2>1, <2>2, <2>3 DEF Lost, Scheduled, Listed, In, new
<1>11. WalkKept'
  BY <1>1 DEF WalkKept
<1>12. QED
  BY <1>8, <1>9, <1>10, <1>11 DEF SchedInv

(* A cancelled task is removed, and with it the task that may stand before *)
(* it when there is no prev.                                               *)
LEMMA CancelledKeeps ==
  ASSUME TypeList, TypeClock, InOrder, OpenKept, LossKept, WalkKept, WalkCancelled
  PROVE  SchedInv'
<1>1. /\ pc = "walk" /\ st # Null /\ st' = Following(st)
      /\ queue' = Unlink /\ task' = [task EXCEPT ![st] = Blank]
      /\ fate' = [fate EXCEPT ![st] = "cancelled"]
      /\ UNCHANGED <<clock, next_task_id, mutex, pc, now, prev>>
  BY DEF WalkCancelled, Walking, At, Free, loopVars
<1>2. PICK p \in DOMAIN queue : Stands(p)
  BY <1>1 DEF WalkKept
<1>3. mutex /\ queue[p] = st /\ st \in Ids
  BY <1>1, <1>2, ListFacts DEF WalkKept, Stands
<1>4. PICK n \in Nat : n = Len(queue)
  BY ListFacts
<1>5. DOMAIN queue = 1 .. n /\ p \in 1 .. n /\ \A i \in 1 .. n : queue[i] \in Ids
  BY <1>2, <1>4, ListFacts
<1>6. PICK a \in 0 .. n :
        /\ a < p + 1 /\ queue' = Cut(queue, a, p + 1)
        /\ prev = Null => a = 0 /\ p \in 1 .. 2
        /\ prev # Null => a = p - 1 /\ a # 0 /\ queue[a] = prev /\ now < task[prev].at
  <2>1. CASE prev = Null
    <3>1. p \in 1 .. 2 /\ 0 \in 0 .. n /\ 0 < p + 1
      BY <1>2, <1>5, <2>1 DEF Stands
    <3>2. queue' = Cut(queue, 0, p + 1)
      BY <1>1, <1>2, <2>1, UnlinkCuts
    <3>3. QED
      BY <2>1, <3>1, <3>2
  <2>2. CASE prev # Null
    <3>1. queue[p - 1] = prev /\ now < task[prev].at
      BY <1>2, <2>2 DEF Stands
    <3>2. p - 1 \in 1 .. n /\ queue' = Cut(queue, p - 1, p + 1)
      BY <1>1, <1>2, <1>5, <2>2, UnlinkCuts
    <3>3. p - 1 \in 0 .. n /\ p - 1 < p + 1 /\ p - 1 # 0
      BY <1>5, <3>2
    <3>4. QED
      BY <2>2, <3>1, <3>2, <3>3
  <2>3. QED
    BY <2>1, <2>2
<1>7. /\ task' \in [Ids -> TaskType] /\ fate' \in [Ids -> Fates] /\ fate'[st] = "cancelled"
      /\ \A id \in Ids : id # st => task'[id] = task[id] /\ fate'[id] = fate[id]
  BY <1>1, <1>3 DEF TypeList, TaskType, Blank, Fates
<1>8. \A i, j \in 1 .. n : queue[i] = queue[j] => i = j
  BY <1>5 DEF InOrder, Distinct
<1>9. \A i \in 1 .. n : (i <= a \/ i >= p + 1) => queue[i] # st
  BY <1>3, <1>5, <1>6, <1>8
<1>10. a \in 0 .. Len(queue) /\ p + 1 \in 1 .. Len(queue) + 1 /\ a < p + 1 /\ queue \in Seq(Ids)
  BY <1>4, <1>5, <1>6 DEF TypeList
<1>11. /\ queue' \in Seq(Ids) /\ Distinct(queue') /\ Sorted(queue', task')
       /\ \A y : In(queue', y) <=> \E i \in DOMAIN queue : (i <= a \/ i >= p + 1) /\ queue[i] = y
  <2>1. task \in [Ids -> TaskType] /\ Sorted(queue, task) /\ Distinct(queue)
    BY DEF TypeList, InOrder
  <2>2. \A i \in DOMAIN queue : i <= a \/ i >= p + 1 => task'[queue[i]].at = task[queue[i]].at
    BY <1>5, <1>7, <1>9
  <2>3. QED
    BY <1>6, <1>10, <2>1, <2>2, CutKeeps
<1>12. TypeList' /\ TypeClock' /\ InOrder'
  BY <1>1, <1>7, <1>11 DEF TypeList, TypeClock, InOrder
<1>13. OpenKept'
  <2>1. \A i \in DOMAIN queue' : \E j \in 1 .. n : queue[j] = queue'[i] /\ queue[j] # st
    BY <1>5, <1>9, <1>11 DEF In
  <2>2. \A i \in DOMAIN queue' : queue'[i] < next_task_id' /\ fate'[queue'[i]] = "open"
    BY <1>1, <1>5, <1>7, <2>1 DEF OpenKept
  <2>3. st < next_task_id /\ st \in Nat /\ next_task_id \in Nat
    BY <1>2, <1>3 DEF OpenKept, Ids, TypeClock
  <2>4. \A id \in Ids : id >= next_task_id => id # st
    BY <2>3
  <2>5. QED
    BY <1>1, <1>7, <2>2, <2>4 DEF OpenKept
<1>14. LossKept'
  <2>1. SUFFICES ASSUME NEW id \in 1 .. next_task_id - 1, fate'[id] = "open", ~In(queue', id)
                 PROVE  task'[id].repeat
    BY <1>1, <1>3, <1>7 DEF LossKept, Lost, Scheduled, Listed, In
  <2>2. id \in Ids /\ id # st
    BY <1>7, <2>1, SchedulerAssumption DEF TypeClock, Ids
  <2>3. task'[id] = task[id] /\ fate[id] = "open"
    BY <1>7, <2>1, <2>2
  <2>4. CASE In(queue, id)
    <3>1. PICK i \in 1 .. n : queue[i] = id
      BY <1>5, <2>4 DEF In
    <3>2. ~(i <= a \/ i >= p + 1) /\ i # p
      BY <1>3, <1>5, <1>11, <2>1, <2>2, <3>1
    <3>3. a # p - 1
      BY <1>5, <1>6, <3>1, <3>2
    <3>4. prev = Null /\ a = 0 /\ p \in 1 .. 2
      BY <1>6, <3>3
    <3>5. i = 1 /\ p = 2
      BY <3>1, <3>2, <3>4
    <3>6. task[queue[1]].repeat
      BY <1>2, <3>4, <3>5 DEF Stands
    <3>7. QED
      BY <2>3, <3>1, <3>5, <3>6
  <2>5. CASE ~In(queue, id)
    <3>1. id \in Lost
      BY <2>1, <2>3, <2>5 DEF Lost, Scheduled, Listed, In
    <3>2. QED
      BY <2>3, <3>1 DEF LossKept
  <2>6. QED
    BY <2>4, <2>5
<1>15. WalkKept'
  <2>1. SUFFICES ASSUME st' # Null
                 PROVE  /\ a + 1 \in DOMAIN queue' /\ queue'[a + 1] = st'
                        /\ prev # Null => a + 1 > 1 /\ queue'[(a + 1) - 1] = prev /\ now < task'[prev].at
    <3>1. a + 1 \in DOMAIN queue' /\ Stands(a + 1)' => WalkKept'
      BY <1>1, <1>3 DEF WalkKept
    <3>2. prev = Null => a + 1 = 1
      BY <1>6
    <3>3. QED
      BY <1>1, <1>3, <2>1, <3>1, <3>2 DEF Stands, WalkKept
  <2>2. Following(st) = IF p = n THEN Null ELSE queue[p + 1]
    BY <1>2, <1>4, UnlinkCuts
  <2>3. p # n /\ st' = queue[p + 1] /\ p + 1 \in p + 1 .. n
    BY <1>1, <1>5, <2>1, <2>2
  <2>4. DOMAIN queue' = 1 .. a + (n - (p + 1) + 1)
    <3>1. DOMAIN Cut(queue, a, p + 1) = 1 .. a + (Len(queue) - (p + 1) + 1)
      BY <1>10, CutElements
    <3>2. QED
      BY <1>4, <1>6, <3>1
  <2>5. \A i \in p + 1 .. n : queue'[i - (p + 1) + 1 + a] = queue[i]
    BY <1>4, <1>6, <1>10, CutElements
  <2>6. \A i \in 1 .. a : queue'[i] = queue[i]
    BY <1>6, <1>10, CutElements
  <2>7. (p + 1) - (p + 1) + 1 + a = a + 1 /\ a + 1 \in 1 .. a + (n - (p + 1) + 1)
    BY <1>5, <1>6, <2>3
  <2>8. queue'[a + 1] = st'
    BY <2>3, <2>5, <2>7
  <2>9. ASSUME prev # Null
        PROVE  a + 1 > 1 /\ queue'[(a + 1) - 1] = prev /\ now < task'[prev].at
    <3>1. a \in 1 .. a /\ a \in 1 .. n /\ (a + 1) - 1 = a /\ a + 1 > 1 /\ a <= a
      <4>1. a # 0 /\ a \in 0 .. n /\ n \in Nat
        BY <1>4, <1>6, <2>9
      <4>2. QED
        BY <4>1
    <3>2. queue'[a] = prev /\ prev # st /\ prev \in Ids /\ now < task[prev].at
      BY <1>5, <1>6, <1>9, <2>6, <2>9, <3>1
    <3>3. QED
      BY <1>7, <3>1, <3>2
  <2>10. QED
    BY <2>4, <2>7, <2>8, <2>9
<1>16. QED
  BY <1>12, <1>13, <1>14, <1>15 DEF SchedInv

(* The last run of a task: the head leaves the list. *)
LEMMA LastKeeps ==
  ASSUME TypeList, TypeClock, InOrder, OpenKept, LossKept, WalkKept, WalkLast
  PROVE  SchedInv'
<1>1. /\ pc = "walk" /\ st # Null /\ st' = Following(st) /\ Due
      /\ queue' = Unlink /\ task' = [task EXCEPT ![st] = Blank]
      /\ fate' = [fate EXCEPT ![st] = "done"]
      /\ UNCHANGED <<clock, next_task_id, mutex, pc, now, prev>>
  BY DEF WalkLast, Walking, At, Free, loopVars
<1>2. PICK p \in DOMAIN queue : Stands(p)
  BY <1>1 DEF WalkKept
<1>3. prev = Null /\ p = 1 /\ 1 \in DOMAIN queue /\ Stands(1)
  BY <1>1, <1>2, DueIsHead
<1>4. mutex /\ queue[1] = st /\ st \in Ids
  BY <1>1, <1>3, ListFacts DEF WalkKept, Stands
<1>5. /\ task' \in [Ids -> TaskType] /\ fate' \in [Ids -> Fates] /\ fate'[st] = "done"
      /\ \A id \in Ids : id # st => task'[id] = task[id] /\ fate'[id] = fate[id]
  <2>1. task \in [Ids -> TaskType] /\ fate \in [Ids -> Fates]
    BY DEF TypeList
  <2>2. Blank \in TaskType /\ "done" \in Fates
    BY DEF Blank, TaskType, Fates
  <2>3. QED
    BY <1>1, <1>4, <2>1, <2>2
<1>6. /\ queue' \in Seq(Ids) /\ Distinct(queue') /\ Sorted(queue', task')
      /\ \A y : In(queue', y) <=> y # st /\ In(queue, y)
      /\ st' # Null => 1 \in DOMAIN queue' /\ queue'[1] = st'
  BY <1>1, <1>3, <1>5, WithoutHead
<1>7. TypeList' /\ TypeClock' /\ InOrder'
  BY <1>1, <1>5, <1>6 DEF TypeList, TypeClock, InOrder
<1>8. fate[st] = "open" /\ st < next_task_id /\ st \in Nat /\ next_task_id \in Nat
  BY <1>3, <1>4 DEF OpenKept, Ids, TypeClock
<1>9. OpenKept'
  <2>1. \A i \in DOMAIN queue' : \E j \in DOMAIN queue : queue[j] = queue'[i] /\ queue[j] # st
    BY <1>6 DEF In
  <2>2. \A i \in DOMAIN queue' : queue'[i] < next_task_id' /\ fate'[queue'[i]] = "open"
    BY <1>1, <1>5, <2>1, ListFacts DEF OpenKept
  <2>3. \A id \in Ids : id >= next_task_id => id # st
    BY <1>8
  <2>4. QED
    BY <1>1, <1>5, <2>2, <2>3 DEF OpenKept
<1>10. LossKept'
  <2>1. SUFFICES ASSUME NEW id \in 1 .. next_task_id - 1, fate'[id] = "open", ~In(queue', id)
                 PROVE  task'[id].repeat /\ \E c \in Ids : fate'[c] = "cancelled"
    BY <1>1 DEF LossKept, Lost, Scheduled, Listed, In
  <2>2. id \in Ids /\ id # st
    BY <1>5, <2>1, SchedulerAssumption DEF TypeClock, Ids
  <2>3. task'[id] = task[id] /\ id \in Lost
    BY <1>5, <1>6, <2>1, <2>2 DEF Lost, Scheduled, Listed, In
  <2>4. PICK c \in Ids : fate[c] = "cancelled"
    BY <2>3 DEF LossKept
  <2>5. fate'[c] = "cancelled"
    BY <1>5, <1>8, <2>4
  <2>6. QED
    BY <2>3, <2>5 DEF LossKept
<1>11. WalkKept'
  BY <1>1, <1>3, <1>4, <1>6 DEF WalkKept, Stands
<1>12. QED
  BY <1>7, <1>9, <1>10, <1>11 DEF SchedInv

(* A repeating task: the head leaves the list and is inserted again, so    *)
(* that it comes to stand before the next node only when that is not due.  *)
LEMMA RepeatKeeps ==
  ASSUME TypeList, TypeClock, InOrder, OpenKept, LossKept, WalkKept, WalkRepeat
  PROVE  SchedInv'
<1> DEFINE at == now + task[st].interval
<1>1. /\ pc = "walk" /\ st # Null /\ st' = Following(st) /\ Due /\ Again
      /\ task' = [task EXCEPT ![st].runs = IF task[st].count < 0 THEN 0 ELSE @ + 1, ![st].at = at]
      /\ queue' = Insert(Unlink, st, at)
      /\ UNCHANGED <<clock, fate, next_task_id, mutex, pc, now, prev>>
  BY DEF WalkRepeat, Walking, At, loopVars
<1>2. PICK p \in DOMAIN queue : Stands(p)
  BY <1>1 DEF WalkKept
<1>3. prev = Null /\ p = 1 /\ 1 \in DOMAIN queue /\ Stands(1)
  BY <1>1, <1>2, DueIsHead
<1>4. mutex /\ queue[1] = st /\ st \in Ids
  BY <1>1, <1>3, ListFacts DEF WalkKept, Stands
<1>5. at \in Nat /\ now <= at
  BY <1>4, ListFacts DEF TypeClock
<1> HIDE DEF at
<1>6. /\ task' \in [Ids -> TaskType] /\ task'[st].at = at /\ task'[st].repeat
      /\ \A id \in Ids : id # st => task'[id] = task[id]
  <2>1. task[st] \in TaskType /\ task[st].runs \in Nat /\ task[st].count \in Int /\ task[st].repeat
    BY <1>1, <1>4, ListFacts DEF TypeList, Again
  <2>2. (IF task[st].count < 0 THEN 0 ELSE task[st].runs + 1) \in Nat
    BY <2>1
  <2>3. QED
    BY <1>1, <1>4, <1>5, <2>1, <2>2 DEF TypeList, TaskType
<1>7. /\ Unlink \in Seq(Ids) /\ Distinct(Unlink) /\ Sorted(Unlink, task)
      /\ \A y : In(Unlink, y) <=> y # st /\ In(queue, y)
      /\ st' # Null => st' # st /\ 1 \in DOMAIN Unlink /\ Unlink[1] = st'
  BY <1>1, <1>3, WithoutHead
<1>8. /\ queue' \in Seq(Ids) /\ Distinct(queue') /\ Sorted(queue', task')
      /\ \A y : In(queue', y) <=> y = st \/ In(Unlink, y)
      /\ Unlink # <<>> => /\ 1 \in DOMAIN queue'
                          /\ \/ queue'[1] = Unlink[1]
                             \/ /\ 2 \in DOMAIN queue' /\ queue'[1] = st /\ queue'[2] = Unlink[1]
                                /\ at < task[Unlink[1]].at
  <2>1. task \in [Ids -> TaskType] /\ ~In(Unlink, st)
    BY <1>7 DEF TypeList
  <2>2. \A i \in DOMAIN Unlink : task'[Unlink[i]].at = task[Unlink[i]].at
    <3>1. \A i \in DOMAIN Unlink : Unlink[i] # st /\ Unlink[i] \in Ids
      BY <1>7, <2>1, ElementOfSeq, LenProperties DEF In
    <3>2. QED
      BY <1>6, <3>1
  <2> DEFINE r == Unlink
  <2> HIDE DEF r
  <2>3. /\ r \in Seq(Ids) /\ Sorted(r, task) /\ Distinct(r) /\ ~In(r, st)
        /\ \A i \in DOMAIN r : task'[r[i]].at = task[r[i]].at
        /\ queue' = Insert(r, st, at)
    BY <1>1, <1>7, <2>1, <2>2 DEF r
  <2>4. /\ queue' \in Seq(Ids) /\ Distinct(queue') /\ Sorted(queue', task')
        /\ \A y : In(queue', y) <=> y = st \/ In(r, y)
        /\ r # <<>> => /\ 1 \in DOMAIN queue'
                       /\ \/ queue'[1] = r[1]
                          \/ 2 \in DOMAIN queue' /\ queue'[1] = st /\ queue'[2] = r[1] /\ at < task[r[1]].at
    BY <1>4, <1>5, <1>6, <2>1, <2>3, InsertKeeps
  <2>5. QED
    BY <2>4 DEF r
<1>9. \A y : In(queue', y) <=> In(queue, y)
  BY <1>3, <1>4, <1>7, <1>8 DEF In
<1>10. TypeList' /\ TypeClock' /\ InOrder'
  BY <1>1, <1>6, <1>8 DEF TypeList, TypeClock, InOrder
<1>11. OpenKept'
  <2>1. \A i \in DOMAIN queue' : \E j \in DOMAIN queue : queue[j] = queue'[i]
    BY <1>9 DEF In
  <2>2. QED
    BY <1>1, <2>1 DEF OpenKept
<1>12. LossKept'
  <2>1. SUFFICES ASSUME NEW id \in 1 .. next_task_id - 1, fate[id] = "open", ~In(queue', id)
                 PROVE  id \in Lost /\ task'[id] = task[id]
    BY <1>1 DEF LossKept, Lost, Scheduled, Listed, In
  <2>2. id # st
    BY <1>8, <2>1
  <2>3. id \in Ids
    BY <2>1, SchedulerAssumption DEF TypeClock, Ids
  <2>4. QED
    BY <1>6, <1>9, <2>1, <2>2, <2>3 DEF Lost, Scheduled, Listed, In
<1>13. WalkKept'
  <2>1. SUFFICES ASSUME st' # Null PROVE \E q \in DOMAIN queue' : Stands(q)'
    BY <1>1, <1>4 DEF WalkKept
  <2>2. Unlink # <<>> /\ Unlink[1] = st' /\ st' # st /\ st' \in Ids
    BY <1>7, <2>1, ElementOfSeq, LenProperties
  <2>3. CASE 1 \in DOMAIN queue' /\ queue'[1] = st'
    BY <1>1, <1>3, <2>3 DEF Stands
  <2>4. CASE 2 \in DOMAIN queue' /\ queue'[1] = st /\ queue'[2] = st' /\ at < task[st'].at
    <3>1. task'[st'] = task[st']
      BY <1>6, <2>2
    <3>2. Stands(2)'
      BY <1>1, <1>3, <1>5, <1>6, <2>4, <3>1 DEF Stands
    <3>3. QED
      BY <2>4, <3>2
  <2>5. QED
    BY <1>8, <2>2, <2>3, <2>4
<1>14. QED
  BY <1>10, <1>11, <1>12, <1>13 DEF SchedInv

-----------------------------------------------------------------------------
(* The invariant holds at first. *)
LEMMA SchedStart == Init => SchedInv
<1> SUFFICES ASSUME Init PROVE SchedInv
  OBVIOUS
<1> USE SchedulerAssumption DEF Init
<1>1. TypeList
  BY DEF TypeList, TaskType, Fates, Blank
<1>2. TypeClock
  BY DEF TypeClock
<1>3. InOrder
  BY DEF InOrder, Distinct, Sorted
<1>4. OpenKept /\ LossKept /\ WalkKept
  BY DEF OpenKept, LossKept, Lost, Scheduled, WalkKept
<1>5. QED
  BY <1>1, <1>2, <1>3, <1>4 DEF SchedInv

(* Every step keeps it. *)
LEMMA SchedStep == SchedInv /\ [Next]_vars => SchedInv'
<1>0. SUFFICES ASSUME TypeList, TypeClock, InOrder, OpenKept, LossKept, WalkKept, [Next]_vars
               PROVE  SchedInv'
  BY DEF SchedInv
<1> USE <1>0
<1>a. ASSUME UNCHANGED <<listVars, next_task_id>>, clock' \in Nat, now' \in Nat, WalkKept'
      PROVE  SchedInv'
  BY <1>a DEF SchedInv, TypeList, TypeClock, InOrder, OpenKept, LossKept, Lost, Scheduled,
    Listed, listVars
<1>b. ASSUME UNCHANGED <<listVars, next_task_id, mutex>>, clock' \in Nat, now' \in Nat,
             pc' # "walk" \/ UNCHANGED <<pc, walkVars>>
      PROVE  SchedInv'
  <2>1. CASE pc' # "walk"
    <3>1. WalkKept'
      BY <2>1 DEF WalkKept
    <3>2. QED
      BY <1>a, <1>b, <3>1
  <2>2. CASE UNCHANGED <<pc, walkVars>>
    <3>1. WalkKept'
      BY <1>b, <2>2 DEF WalkKept, Stands, listVars, walkVars
    <3>2. QED
      BY <1>a, <1>b, <3>1
  <2>3. QED
    BY <1>b, <2>1, <2>2
<1>c. clock \in Nat /\ now \in Nat
  BY DEF TypeClock
<1>1. ASSUME ReadNow PROVE SchedInv'
  BY <1>1, <1>b, <1>c DEF ReadNow, Goto
<1>2. ASSUME WalkBegin PROVE SchedInv'
  <2>1. /\ mutex' = TRUE /\ pc' = "walk" /\ prev' = Null
        /\ st' = (IF queue = <<>> THEN Null ELSE Head(queue))
        /\ UNCHANGED <<clock, listVars, next_task_id, now>>
    BY <1>2 DEF WalkBegin, Goto
  <2>2. st' # Null => 1 \in DOMAIN queue /\ queue[1] = st'
    <3>1. SUFFICES ASSUME queue # <<>> PROVE 1 \in DOMAIN queue /\ queue[1] = Head(queue)
      BY <2>1
    <3>2. QED
      BY <3>1 DEF TypeList
  <2>3. WalkKept'
    BY <2>1, <2>2 DEF WalkKept, Stands, listVars
  <2>4. QED
    BY <1>a, <1>c, <2>1, <2>3
<1>3. ASSUME WalkCancelled PROVE SchedInv'
  BY <1>3, CancelledKeeps
<1>4. ASSUME WalkLast PROVE SchedInv'
  BY <1>4, LastKeeps
<1>5. ASSUME WalkRepeat PROVE SchedInv'
  BY <1>5, RepeatKeeps
<1>6. ASSUME WalkSkip PROVE SchedInv'
  <2>1. /\ pc = "walk" /\ st # Null /\ ~(task[st].at <= now) /\ prev' = st /\ st' = Following(st)
        /\ UNCHANGED <<clock, listVars, next_task_id, mutex, pc, now>>
    BY <1>6 DEF WalkSkip, Walking, At, Due, loopVars
  <2>2. PICK p \in DOMAIN queue : Stands(p)
    BY <2>1 DEF WalkKept
  <2>3. /\ mutex /\ queue[p] = st /\ st \in Ids
        /\ st' = IF p = Len(queue) THEN Null ELSE queue[p + 1]
    BY <2>1, <2>2, UnlinkCuts, ListFacts DEF WalkKept, Stands
  <2>4. now < task[st].at
    BY <2>1, <2>3, <1>c, ListFacts
  <2>5. st' # Null => p + 1 \in DOMAIN queue /\ p + 1 > 1 /\ (p + 1) - 1 = p /\ queue[p + 1] = st'
    BY <2>3, ListFacts
  <2>6. st' # Null => Stands(p + 1)'
    BY <2>1, <2>3, <2>4, <2>5 DEF Stands, listVars
  <2>7. WalkKept'
    BY <2>1, <2>3, <2>5, <2>6 DEF WalkKept, listVars
  <2>8. QED
    BY <1>a, <1>c, <2>1, <2>7
<1>7. ASSUME WalkEnd PROVE SchedInv'
  <2>1. WalkKept'
    BY <1>7 DEF WalkEnd, Goto, WalkKept
  <2>2. QED
    BY <1>7, <1>a, <1>c, <2>1 DEF WalkEnd
<1>8. ASSUME LoopTop \/ TimeOver \/ Wait \/ Resume \/ Process PROVE SchedInv'
  BY <1>8, <1>b, <1>c DEF LoopTop, TimeOver, Wait, Resume, Process, Goto, walkVars
<1>9. ASSUME NEW end, Run(end) PROVE SchedInv'
  BY <1>9, <1>b, <1>c DEF Run, Goto, walkVars
<1>10. ASSUME StopStore \/ StopSignal PROVE SchedInv'
  BY <1>10, <1>b, <1>c DEF StopStore, StopSignal, loopVars, walkVars
<1>11. ASSUME Tick PROVE SchedInv'
  <2>1. clock' \in Nat
    BY <1>11, <1>c DEF Tick
  <2>2. QED
    BY <1>11, <1>b, <1>c, <2>1 DEF Tick, loopVars, walkVars
<1>12. ASSUME NEW interval \in 0 .. MaxInterval, NEW count \in Forever .. MaxRepeats,
              Schedule(interval, count)
       PROVE  SchedInv'
  <2> DEFINE t == [Blank EXCEPT !.repeat = (count # 0),
                                !.interval = IF count # 0 THEN interval ELSE 0,
                                !.at = clock, !.count = count]
  <2>1. t \in TaskType
    <3>1. count \in Int /\ (IF count # 0 THEN interval ELSE 0) \in Nat /\ (count # 0) \in BOOLEAN
      BY SchedulerAssumption DEF Forever
    <3>2. QED
      BY <1>c, <3>1 DEF TaskType, Blank
  <2>2. Add(t)
    BY <1>12 DEF Schedule
  <2> HIDE DEF t
  <2>3. QED
    BY <2>1, <2>2, AddKeeps
<1>13. ASSUME NEW delay \in 0 .. MaxDelay, ScheduleDelayed(delay) PROVE SchedInv'
  <2> DEFINE t == [Blank EXCEPT !.at = clock + delay]
  <2>1. t \in TaskType
    <3>1. PICK at \in Nat : at = clock + delay
      BY <1>c, SchedulerAssumption
    <3>2. Blank \in TaskType
      BY DEF TaskType, Blank
    <3>3. [Blank EXCEPT !.at = at] \in TaskType
      BY <3>1, <3>2 DEF TaskType
    <3>4. QED
      BY <3>1, <3>3
  <2>2. Add(t)
    BY <1>13 DEF ScheduleDelayed
  <2> HIDE DEF t
  <2>3. QED
    BY <2>1, <2>2, AddKeeps
<1>14. ASSUME NEW id \in Ids, Cancel(id) PROVE SchedInv'
  <2>1. /\ ~mutex /\ task' = [task EXCEPT ![id].cancelled = TRUE]
        /\ UNCHANGED <<clock, queue, fate, next_task_id, pc, now>>
    BY <1>14 DEF Cancel, loopVars, walkVars
  <2>2. /\ task' \in [Ids -> TaskType]
        /\ \A i \in Ids : task'[i].at = task[i].at /\ task'[i].repeat = task[i].repeat
    BY <2>1 DEF TypeList, TaskType
  <2>3. TypeList' /\ TypeClock'
    BY <2>1, <2>2 DEF TypeList, TypeClock
  <2>4. InOrder'
    BY <2>1, <2>2, ListFacts DEF InOrder, Distinct, Sorted
  <2>5. OpenKept' /\ WalkKept'
    BY <2>1 DEF OpenKept, WalkKept
  <2>6. LossKept'
    <3>1. Lost' = Lost /\ \A i \in Lost : i \in Ids
      BY <2>1, SchedulerAssumption DEF Lost, Scheduled, Listed, TypeClock, Ids
    <3>2. QED
      BY <2>1, <2>2, <3>1 DEF LossKept
  <2>7. QED
    BY <2>3, <2>4, <2>5, <2>6 DEF SchedInv
<1>15. ASSUME Destroy PROVE SchedInv'
  <2>1. /\ queue' = <<>> /\ pc' = "destroyed"
        /\ task' = [id \in Ids |-> IF Listed(id) THEN Blank ELSE task[id]]
        /\ fate' = [id \in Ids |-> IF Listed(id) THEN "destroyed" ELSE fate[id]]
        /\ UNCHANGED <<clock, next_task_id, now>>
    BY <1>15 DEF Destroy, Goto, walkVars
  <2>2. TypeList' /\ TypeClock'
    <3>1. Blank \in TaskType /\ "destroyed" \in Fates
      BY DEF Blank, TaskType, Fates
    <3>2. QED
      BY <2>1, <3>1 DEF TypeList, TypeClock
  <2>3. InOrder' /\ WalkKept'
    BY <2>1 DEF InOrder, Distinct, Sorted, WalkKept
  <2>4. \A id \in Ids : Listed(id) => fate[id] = "open" /\ id < next_task_id
    BY DEF OpenKept, Listed
  <2>5. OpenKept'
    <3>1. \A id \in Ids : id >= next_task_id => ~Listed(id)
      BY <2>4 DEF TypeClock, Ids
    <3>2. QED
      BY <2>1, <3>1 DEF OpenKept
  <2>6. LossKept'
    <3>1. SUFFICES ASSUME NEW id \in 1 .. next_task_id - 1, fate'[id] = "open"
                   PROVE  task'[id].repeat /\ \E c \in Ids : fate'[c] = "cancelled"
      BY <2>1 DEF LossKept, Lost, Scheduled
    <3>2. id \in Ids
      BY SchedulerAssumption DEF TypeClock, Ids
    <3>3. ~Listed(id) /\ fate[id] = "open" /\ task'[id] = task[id]
      BY <2>1, <3>1, <3>2
    <3>4. id \in Lost
      BY <3>3 DEF Lost, Scheduled
    <3>5. PICK c \in Ids : fate[c] = "cancelled"
      BY <3>4 DEF LossKept
    <3>6. fate'[c] = "cancelled"
      BY <2>1, <2>4, <3>5
    <3>7. QED
      BY <3>3, <3>4, <3>6 DEF LossKept
  <2>7. QED
    BY <2>2, <2>3, <2>5, <2>6 DEF SchedInv
<1>16. CASE UNCHANGED vars
  BY <1>16, <1>b, <1>c DEF vars, loopVars, walkVars
<1>17. QED
  BY <1>1, <1>2, <1>3, <1>4, <1>5, <1>6, <1>7, <1>8, <1>9, <1>10, <1>11, <1>12, <1>13, <1>14,
    <1>15, <1>16 DEF Next, LoopStep, Walk, Woken

(* The list of lr_scheduler_process keeps its tasks, once each and in the  *)
(* order of their times, although the walk removes and re-inserts nodes    *)
(* under its own pointers; only a repeating task can be lost, and only     *)
(* when a cancelled one is removed.                                        *)
THEOREM TasksKept == Spec => []ListKept
<1>1. SchedInv => ListKept
  BY DEF SchedInv, InOrder, Distinct, Sorted, OpenKept, LossKept, ListKept, LossNeedsCancel,
    EarliestFirst
<1>2. QED
  BY <1>1, SchedStart, SchedStep, PTL DEF Spec
=============================================================================
