--------------------------- MODULE Promise_proofs ---------------------------
(* Proofs about Promise, for every number of promises and reactions and    *)
(* every depth of nested calls.                                            *)
EXTENDS Promise, FiniteSetTheorems, SequenceTheorems, WellFoundedInduction, TLAPS

-----------------------------------------------------------------------------
(* Facts about numbers and sequences.                                      *)

(* A set of numbers that is not empty has a smallest one. *)
LEMMA Smallest ==
  ASSUME NEW T \in SUBSET Nat, T # {}
  PROVE  \E t \in T : \A u \in T : t <= u
<1> DEFINE R == OpToRel(<, Nat)
<1>1. IsWellFoundedOn(R, Nat)
  BY NatLessThanWellFounded
<1>2. PICK t \in T : \A u \in T : ~(<<u, t>> \in R)
  BY <1>1, WFMin
<1>3. \A u \in T : ~(u < t)
  BY <1>2 DEF OpToRel
<1>4. QED
  BY <1>3

(* f lists the positions I in their order. *)
Lists(f, I) ==
  f \in [1 .. Cardinality(I) -> I] /\ \A i, j \in DOMAIN f : i < j => f[i] < f[j]

(* Every set of positions can be listed: a smallest bound without such a   *)
(* list could be lowered by taking the largest position out.               *)
LEMMA ListExists ==
  ASSUME NEW n \in Nat, NEW I \in SUBSET (1 .. n)
  PROVE  \E f : Lists(f, I)
<1> DEFINE Good(k) == \A J \in SUBSET (1 .. k) : \E f : Lists(f, J)
           Bad == {k \in Nat : ~Good(k)}
<1>1. SUFFICES Bad = {}
  BY <1>1
<1>2. SUFFICES ASSUME Bad # {} PROVE FALSE
  OBVIOUS
<1>3. PICK m \in Bad : \A u \in Bad : m <= u
  BY <1>2, Smallest
<1>4. m \in Nat /\ ~Good(m)
  BY <1>3
<1>5. PICK J \in SUBSET (1 .. m) : ~\E f : Lists(f, J)
  BY <1>4
<1>6. IsFiniteSet(J) /\ Cardinality(J) \in Nat
  <2>1. IsFiniteSet(1 .. m)
    BY <1>4, FS_Interval
  <2>2. IsFiniteSet(J)
    BY <1>5, <2>1, FS_Subset
  <2>3. QED
    BY <2>2, FS_CardinalityType
<1> HIDE DEF Bad
<1>7. CASE m = 0
  <2>1. J = {} /\ Cardinality(J) = 0
    <3>1. J = {}
      BY <1>5, <1>7
    <3>2. QED
      BY <3>1, FS_EmptySet
  <2>2. Lists([i \in {} |-> 0], J)
    BY <2>1 DEF Lists
  <2>3. QED
    BY <1>5, <2>2
<1>8. CASE m # 0
  <2>1. m - 1 \in Nat /\ m - 1 \notin Bad
    BY <1>3, <1>4, <1>8
  <2>2. Good(m - 1)
    BY <2>1 DEF Bad
  <2>3. CASE m \notin J
    <3>1. J \in SUBSET (1 .. m - 1)
      BY <1>4, <1>5, <1>8, <2>3
    <3>2. QED
      BY <1>5, <2>2, <3>1
  <2>4. CASE m \in J
    <3> DEFINE K == J \ {m}
    <3>1. K \in SUBSET (1 .. m - 1)
      BY <1>4, <1>5, <1>8
    <3>2. PICK f : Lists(f, K)
      BY <2>2, <3>1
    <3>3. PICK c \in Nat : Cardinality(J) = c + 1 /\ Cardinality(K) = c
      <4>1. IsFiniteSet(K) /\ Cardinality(K) = Cardinality(J) - 1
        BY <1>6, <2>4, FS_RemoveElement
      <4>2. Cardinality(K) \in Nat
        BY <4>1, FS_CardinalityType
      <4>3. QED
        BY <1>6, <4>1, <4>2
    <3>4. f \in [1 .. c -> K] /\ \A i, j \in 1 .. c : i < j => f[i] < f[j]
      BY <3>2, <3>3 DEF Lists
    <3> DEFINE g == [i \in 1 .. c + 1 |-> IF i = c + 1 THEN m ELSE f[i]]
    <3>5. \A i \in 1 .. c : f[i] \in K /\ f[i] \in 1 .. m - 1
      BY <3>1, <3>4
    <3>6. \A i \in 1 .. c + 1 : (i = c + 1 /\ g[i] = m) \/ (i \in 1 .. c /\ g[i] = f[i])
      BY <3>3
    <3>7. g \in [1 .. c + 1 -> J]
      BY <2>4, <3>5, <3>6
    <3>8. \A i, j \in 1 .. c + 1 : i < j => g[i] < g[j]
      <4>1. SUFFICES ASSUME NEW i \in 1 .. c + 1, NEW j \in 1 .. c + 1, i < j PROVE g[i] < g[j]
        OBVIOUS
      <4>2. i \in 1 .. c /\ g[i] = f[i]
        BY <3>3, <3>6, <4>1
      <4>3. CASE j = c + 1
        BY <1>4, <3>5, <4>2, <4>3
      <4>4. CASE j # c + 1
        BY <3>4, <3>6, <4>1, <4>2, <4>4
      <4>5. QED
        BY <4>3, <4>4
    <3>9. Lists(g, J)
      BY <3>3, <3>7, <3>8 DEF Lists
    <3>10. QED
      BY <1>5, <3>9
  <2>5. QED
    BY <2>3, <2>4
<1>9. QED
  BY <1>7, <1>8

(* InOrder lists the positions, and every one of them. *)
LEMMA InOrderLists ==
  ASSUME NEW n \in Nat, NEW I \in SUBSET (1 .. n)
  PROVE  /\ IsFiniteSet(I) /\ Cardinality(I) \in Nat /\ Cardinality(I) <= n
         /\ InOrder(I) \in [1 .. Cardinality(I) -> I]
         /\ DOMAIN InOrder(I) = 1 .. Cardinality(I)
         /\ \A i, j \in 1 .. Cardinality(I) : i < j => InOrder(I)[i] < InOrder(I)[j]
         /\ \A k \in I : \E j \in 1 .. Cardinality(I) : InOrder(I)[j] = k
<1>1. /\ IsFiniteSet(1 .. n) /\ Cardinality(1 .. n) = n
  BY FS_Interval
<1>2. IsFiniteSet(I) /\ Cardinality(I) \in Nat /\ Cardinality(I) <= n
  BY <1>1, FS_Subset, FS_CardinalityType
<1>3. Lists(InOrder(I), I)
  <2>1. \E f \in [1 .. Cardinality(I) -> I] : \A i, j \in DOMAIN f : i < j => f[i] < f[j]
    BY ListExists DEF Lists
  <2>2. QED
    BY <2>1 DEF InOrder, Lists
<1>4. PICK f : f = InOrder(I)
  OBVIOUS
<1>5. PICK c \in Nat : c = Cardinality(I)
  BY <1>2
<1>6. f \in [1 .. c -> I] /\ \A i, j \in 1 .. c : i < j => f[i] < f[j]
  BY <1>3, <1>4, <1>5 DEF Lists
<1>7. f \in Injection(1 .. c, I)
  <2>1. \A i, j \in 1 .. c : f[i] = f[j] => i = j
    <3>1. SUFFICES ASSUME NEW i \in 1 .. c, NEW j \in 1 .. c, f[i] = f[j], i # j PROVE FALSE
      OBVIOUS
    <3>2. f[i] \in I /\ f[j] \in I /\ (i < j \/ j < i)
      BY <1>6, <3>1
    <3>3. f[i] \in Int /\ f[j] \in Int
      <4>1. \A k \in I : k \in Int
        OBVIOUS
      <4>2. QED
        BY <3>2, <4>1, Zenon
    <3>4. QED
      BY <1>6, <3>1, <3>2, <3>3
  <2>2. QED
    BY <1>6, <2>1 DEF Injection, IsInjective
<1>8. IsFiniteSet(1 .. c) /\ Cardinality(1 .. c) = c
  BY FS_Interval
<1>9. f \in Surjection(1 .. c, I)
  BY <1>2, <1>5, <1>7, <1>8, FS_Injection
<1>10. \A k \in I : \E j \in 1 .. c : f[j] = k
  BY <1>9 DEF Surjection
<1>11. QED
  BY <1>2, <1>4, <1>5, <1>6, <1>10

-----------------------------------------------------------------------------
(* The inductive invariant.                                                *)

RxType == [kind : Kinds, from : Promises, f : BOOLEAN, r : BOOLEAN, to : Promises]
JobType == [id : Nat, s : Settled, v : AnyValue]
RanType == [id : Nat, s : Settled]
FrameType == [kind : FrameKinds, on : Promises \cup {NoPromise}, fresh : BOOLEAN,
              s : Settled \cup {"none"}, v : AnyValue]
AllType == [remaining : Int, rejected : BOOLEAN, items : Seq(Promises)]

TypeData ==
  /\ state \in [Promises -> States]
  /\ result \in [Promises -> AnyValue]
  /\ reactions \in [Promises -> Seq(Nat)]
  /\ reaction \in Seq(RxType)
  /\ all \in [Promises -> AllType]

TypeRun ==
  /\ jobs \in Seq(JobType)
  /\ ran \in Seq(RanType)
  /\ stack \in Seq(FrameType) /\ Len(stack) <= MaxDepth

(* A value names a promise that was made, if it names one. *)
Known(v) == v.k = "promise" => v.q \in Made

(* Whatever names a promise names one that was made. *)
MadeKept ==
  /\ held \subseteq Made /\ bare \subseteq Made
  /\ \A p \in Promises : Known(result[p])
  /\ \A id \in DOMAIN reaction : reaction[id].from \in Made /\ reaction[id].to \in Made
  /\ \A i \in DOMAIN jobs : Known(jobs[i].v)
  /\ \A i \in DOMAIN stack :
       /\ Known(stack[i].v)
       /\ stack[i].on \in Made \cup {NoPromise}
       /\ stack[i].kind # "script" => stack[i].on \in Made
       /\ stack[i].kind = "finally" => stack[i].s \in Settled

(* The reactions that left their promise, run or still queued, by id *)
LogOf(rn, jb) ==
  [i \in 1 .. Len(rn) + Len(jb) |-> IF i <= Len(rn) THEN rn[i].id ELSE jb[i - Len(rn)].id]
Log == LogOf(ran, jobs)

(* They belong to settled promises, those of one promise in their order. *)
LogKept ==
  /\ \A i \in DOMAIN Log : Log[i] \in DOMAIN reaction /\ state[reaction[Log[i]].from] \in Settled
  /\ \A i, j \in DOMAIN Log :
       i < j /\ reaction[Log[i]].from = reaction[Log[j]].from => Log[i] < Log[j]

(* The others wait on their promise, which is pending. *)
StoredKept ==
  \A p \in Promises :
    /\ reactions[p] # <<>> => state[p] = "pending"
    /\ \A i \in DOMAIN reactions[p] :
         reactions[p][i] \in DOMAIN reaction /\ reaction[reactions[p][i]].from = p
    /\ \A i, j \in DOMAIN reactions[p] : i < j => reactions[p][i] < reactions[p][j]

NoneMissing ==
  \A id \in DOMAIN reaction :
    \/ \E i \in DOMAIN Log : Log[i] = id
    \/ \E i \in DOMAIN reactions[reaction[id].from] : reactions[reaction[id].from][i] = id

(* Nobody else can settle p: neither JavaScript nor a call in progress. *)
Reserved(p) == p \notin held /\ \A i \in DOMAIN stack : stack[i].on # p

(* The promise of a then or finally belongs to its reaction until that ran. *)
DerivedKept ==
  \A id \in DOMAIN reaction : reaction[id].kind \in {"then", "finally"} /\ ~Ran(id) =>
    /\ state[reaction[id].to] = "pending"
    /\ Reserved(reaction[id].to)
    /\ \A other \in DOMAIN reaction : reaction[other].to = reaction[id].to => other = id

(* The promise of a Promise.all belongs to its items for good. *)
Owned(r) ==
  /\ r \in Made /\ Reserved(r)
  /\ \A id \in DOMAIN reaction : reaction[id].to = r => reaction[id].kind = "all"

AllOwned ==
  /\ \A r \in Promises : all[r].items = <<>> => all[r] = NoAll
  /\ \A r \in Promises : all[r].items # <<>> => Owned(r)
  /\ \A id \in DOMAIN reaction : reaction[id].kind = "all" => all[reaction[id].to].items # <<>>

(* The items that have yet to report *)
Waiting(r) == {id \in DOMAIN reaction : reaction[id].to = r /\ ~Ran(id)}

(* The counter covers them, and goes down with every report until one is a *)
(* rejection.                                                              *)
Counted(r) ==
  /\ all[r].remaining <= Len(all[r].items)
  /\ Cardinality(Waiting(r)) <= all[r].remaining
  /\ all[r].rejected => state[r] = "rejected" /\ Reports(r, "rejected") # {}
  /\ ~all[r].rejected =>
       /\ Cardinality(Reports(r, "fulfilled")) = Len(all[r].items) - all[r].remaining
       /\ state[r] = IF all[r].remaining = 0 THEN "fulfilled" ELSE "pending"

AllCounted == \A r \in Promises : all[r].items # <<>> => Counted(r)

PromiseInv ==
  /\ TypeData /\ TypeRun /\ MadeKept /\ LogKept /\ StoredKept /\ NoneMissing
  /\ DerivedKept /\ AllOwned /\ AllCounted

-----------------------------------------------------------------------------
(* What a step does.  Every step works on one promise p at most: it        *)
(* settles p, starts it or hangs p on others, and p is new, or JavaScript, *)
(* a call in progress or the reaction being run has the right to do so.    *)
(* jb is the queue before the step adds to it.                             *)

Quiet(jb) == jb = jobs /\ ran' = ran
Runs(jb) ==
  /\ jobs # <<>> /\ jb = Tail(jobs)
  /\ ran' = Append(ran, [id |-> Head(jobs).id, s |-> Head(jobs).s])

Owner(p, jb) ==
  /\ Quiet(jb) \/ Runs(jb)
  /\ \/ p = NoPromise \/ p \in Promises \ Made \/ p \in held
     \/ \E i \in DOMAIN stack : stack[i].on = p
     \/ Runs(jb) /\ p = reaction[Head(jobs).id].to

Settles(p, jb) == \E s \in Settled, v \in AnyValue : Known(v) /\ Settle(p, s, v, jb)

Starts(p, jb) ==
  /\ Open(p) /\ state' = [state EXCEPT ![p] = "pending"]
  /\ jobs' = jb /\ UNCHANGED <<result, reactions, reaction>>

Hangs(p, qs, kind, jb) ==
  /\ Open(p) /\ qs \in Seq(Made \ {p}) /\ kind \in Kinds
  /\ kind # "adopt" => p \notin Made
  /\ kind \in {"then", "finally"} => Len(qs) = 1
  /\ \E f, r \in BOOLEAN : Attach(qs, kind, f, r, p, jb)

DataStep(p, jb) ==
  \/ NoChange(jb)
  \/ p \in Promises /\ (Settles(p, jb) \/ Starts(p, jb) \/ \E qs, kind : Hangs(p, qs, kind, jb))

NewFrame(fr, p) ==
  \/ fr = Frame("script", NoPromise)
  \/ /\ fr.kind # "script" /\ fr.on = p /\ p \in Made' /\ Known(fr.v)
     /\ fr.kind = "finally" => fr.s \in Settled

CallStep(p) ==
  /\ held' \subseteq held \cup ({p} \cap Made') /\ bare' \subseteq bare \cup ({p} \cap Made')
  /\ stack' \in Seq(FrameType) /\ Len(stack') <= MaxDepth
  /\ \A i \in DOMAIN stack' :
       (\E j \in DOMAIN stack : stack'[i] = stack[j]) \/ NewFrame(stack'[i], p)

(* Nobody is given a promise that waits for a reaction. *)
Withheld ==
  \A id \in DOMAIN reaction' \ DOMAIN reaction :
    reaction'[id].kind # "adopt" => held' = held /\ stack' = stack

StepOf(p, jb) == Owner(p, jb) /\ DataStep(p, jb) /\ CallStep(p) /\ Withheld

(* A promise that is made for a call is a new one. *)
LEMMA FreshIsNew ==
  ASSUME Room
  PROVE  Fresh \in Promises \ Made
<1>1. Promises \ Made \in SUBSET Nat /\ Promises \ Made # {}
  BY PromiseAssumption DEF Promises, Room
<1>2. \E p \in Promises \ Made : \A q \in Promises \ Made : p <= q
  BY <1>1, Smallest
<1>3. QED
  BY <1>2 DEF Fresh

(* The queue that a step starts from *)
LEMMA QueueFacts ==
  ASSUME TypeRun, NEW jb, Quiet(jb) \/ Runs(jb)
  PROVE  /\ jb \in Seq(JobType) /\ ran' \in Seq(RanType)
         /\ \A i \in DOMAIN jb : \E j \in DOMAIN jobs : jb[i] = jobs[j]
         /\ Len(ran') + Len(jb) = Len(ran) + Len(jobs)
         /\ LogOf(ran', jb) = Log
<1>1. PICK n \in Nat, k \in Nat : n = Len(jobs) /\ k = Len(ran)
  BY DEF TypeRun
<1>2. jobs \in Seq(JobType) /\ ran \in Seq(RanType)
  BY DEF TypeRun
<1>3. CASE Quiet(jb)
  BY <1>2, <1>3 DEF Quiet, Log
<1>4. CASE Runs(jb)
  <2> DEFINE h == [id |-> Head(jobs).id, s |-> Head(jobs).s]
  <2>1. /\ jobs # <<>> /\ jb = Tail(jobs) /\ ran' = Append(ran, h)
    BY <1>4 DEF Runs
  <2>2. /\ Head(jobs) = jobs[1] /\ Head(jobs) \in JobType
    BY <1>2, <2>1
  <2>3. h \in RanType
    BY <2>2 DEF JobType, RanType
  <2>4. n \in Nat \ {0} /\ DOMAIN jobs = 1 .. n
    BY <1>1, <1>2, <2>1
  <2>5. /\ jb \in Seq(JobType) /\ Len(jb) = n - 1 /\ DOMAIN jb = 1 .. n - 1
        /\ \A i \in 1 .. n - 1 : jb[i] = jobs[i + 1]
    BY <1>1, <1>2, <2>1, <2>4
  <2>6. /\ ran' \in Seq(RanType) /\ Len(ran') = k + 1 /\ DOMAIN ran' = 1 .. k + 1
        /\ ran'[k + 1] = h /\ \A i \in 1 .. k : ran'[i] = ran[i]
    <3> HIDE DEF h
    <3>1. QED
      BY <1>1, <1>2, <2>1, <2>3
  <2>7. \A i \in DOMAIN jb : \E j \in DOMAIN jobs : jb[i] = jobs[j]
    <3>1. SUFFICES ASSUME NEW i \in 1 .. n - 1 PROVE \E j \in DOMAIN jobs : jb[i] = jobs[j]
      BY <2>5
    <3>2. i + 1 \in 1 .. n
      BY <2>4
    <3>3. QED
      BY <2>4, <2>5, <3>2
  <2>8. LogOf(ran', jb) = Log
    <3>1. DOMAIN LogOf(ran', jb) = 1 .. n + k /\ DOMAIN Log = 1 .. n + k
      BY <1>1, <2>4, <2>5, <2>6 DEF LogOf, Log
    <3>2. ASSUME NEW i \in 1 .. n + k
          PROVE  LogOf(ran', jb)[i] = Log[i]
      <4>1. /\ LogOf(ran', jb)[i] = IF i <= k + 1 THEN ran'[i].id ELSE jb[i - (k + 1)].id
            /\ Log[i] = IF i <= k THEN ran[i].id ELSE jobs[i - k].id
        BY <1>1, <2>4, <2>5, <2>6 DEF LogOf, Log
      <4>2. CASE i <= k
        <5>1. i \in 1 .. k /\ i <= k + 1
          BY <1>1, <3>2, <4>2
        <5>2. QED
          BY <2>6, <4>1, <4>2, <5>1
      <4>3. CASE i = k + 1
        <5>1. ~(i <= k) /\ i - k = 1 /\ i <= k + 1
          BY <1>1, <4>3
        <5>2. QED
          BY <2>2, <2>6, <4>1, <4>3, <5>1
      <4>4. CASE i > k + 1
        <5>1. ~(i <= k) /\ ~(i <= k + 1) /\ i - (k + 1) \in 1 .. n - 1 /\ i - (k + 1) + 1 = i - k
          BY <1>1, <2>4, <3>2, <4>4
        <5>2. QED
          BY <2>5, <4>1, <5>1
      <4>5. QED
        BY <1>1, <3>2, <4>2, <4>3, <4>4
    <3>3. LogOf(ran', jb) = [i \in 1 .. n + k |-> LogOf(ran', jb)[i]]
      BY <3>1 DEF LogOf
    <3>4. Log = [i \in 1 .. n + k |-> Log[i]]
      BY <3>1 DEF LogOf, Log
    <3>5. QED
      BY <3>2, <3>3, <3>4
  <2>9. QED
    BY <1>1, <2>4, <2>5, <2>6, <2>7, <2>8
<1>5. QED
  BY <1>3, <1>4

(* Which reactions have run after a step *)
LEMMA RanFacts ==
  ASSUME TypeRun, NEW jb, Quiet(jb) \/ Runs(jb), NEW id
  PROVE  Ran(id)' <=> Ran(id) \/ (Runs(jb) /\ id = Head(jobs).id)
<1>1. PICK k \in Nat : k = Len(ran) /\ DOMAIN ran = 1 .. k
  BY DEF TypeRun
<1>2. ran \in Seq(RanType)
  BY DEF TypeRun
<1>3. CASE Quiet(jb)
  <2>1. jb = jobs /\ ran' = ran
    BY <1>3 DEF Quiet
  <2>2. ~Runs(jb)
    <3>1. SUFFICES ASSUME Runs(jb) PROVE FALSE
      OBVIOUS
    <3>2. Len(ran') = k + 1
      BY <1>1, <1>2, <3>1 DEF Runs
    <3>3. QED
      BY <1>1, <2>1, <3>2
  <2>3. QED
    BY <2>1, <2>2 DEF Ran
<1>4. CASE Runs(jb)
  <2> DEFINE h == [id |-> Head(jobs).id, s |-> Head(jobs).s]
  <2>1. ran' = Append(ran, h)
    BY <1>4 DEF Runs
  <2>2. /\ DOMAIN ran' = 1 .. k + 1
        /\ ran'[k + 1] = h /\ \A i \in 1 .. k : ran'[i] = ran[i]
    <3> HIDE DEF h
    <3>1. QED
      BY <1>1, <1>2, <2>1
  <2>3. h.id = Head(jobs).id
    OBVIOUS
  <2> HIDE DEF h
  <2>4. \A i \in 1 .. k + 1 : i \in 1 .. k \/ i = k + 1
    BY <1>1
  <2>5. k + 1 \in 1 .. k + 1 /\ \A i \in 1 .. k : i \in 1 .. k + 1
    BY <1>1
  <2>6. QED
    BY <1>1, <1>4, <2>2, <2>3, <2>4, <2>5 DEF Ran
<1>5. QED
  BY <1>3, <1>4

(* Jobs that are added follow in the log. *)
Follow(rn, jb, nj, n) ==
  /\ DOMAIN LogOf(rn, jb) = 1 .. n
  /\ DOMAIN LogOf(rn, jb \o nj) = 1 .. n + Len(nj)
  /\ \A i \in 1 .. n : LogOf(rn, jb \o nj)[i] = LogOf(rn, jb)[i]
  /\ \A i \in 1 .. Len(nj) : LogOf(rn, jb \o nj)[n + i] = nj[i].id

(* The log of a longer queue begins with the log of the shorter one. *)
LEMMA LogGrows ==
  ASSUME NEW rn \in Seq(RanType), NEW jb \in Seq(JobType), NEW nj \in Seq(JobType),
         NEW n \in Nat, n = Len(rn) + Len(jb)
  PROVE  Follow(rn, jb, nj, n)
<1>1. PICK a \in Nat, b \in Nat, c \in Nat : a = Len(rn) /\ b = Len(jb) /\ c = Len(nj)
  OBVIOUS
<1>2. PICK q : q = jb \o nj
  OBVIOUS
<1>3. /\ Len(q) = b + c /\ \A i \in 1 .. b : q[i] = jb[i]
      /\ \A i \in 1 .. c : q[b + i] = nj[i]
  BY <1>1, <1>2
<1>4. n = a + b
  BY <1>1
<1>5. ASSUME NEW i \in 1 .. n PROVE LogOf(rn, q)[i] = LogOf(rn, jb)[i]
  <2>1. /\ LogOf(rn, q)[i] = IF i <= a THEN rn[i].id ELSE q[i - a].id
        /\ LogOf(rn, jb)[i] = IF i <= a THEN rn[i].id ELSE jb[i - a].id
    BY <1>1, <1>3, <1>4 DEF LogOf
  <2>2. i > a => i - a \in 1 .. b
    BY <1>4
  <2>3. QED
    BY <1>3, <2>1, <2>2
<1>6. ASSUME NEW i \in 1 .. c PROVE LogOf(rn, q)[n + i] = nj[i].id
  <2>1. n + i \in 1 .. a + (b + c) /\ ~(n + i <= a) /\ n + i - a = b + i
    BY <1>4
  <2>2. LogOf(rn, q)[n + i] = q[n + i - a].id
    BY <1>1, <1>3, <2>1 DEF LogOf
  <2>3. QED
    BY <1>3, <2>1, <2>2
<1>7. DOMAIN LogOf(rn, jb) = 1 .. n /\ DOMAIN LogOf(rn, q) = 1 .. n + c
  <2>1. a + (b + c) = n + c
    BY <1>4
  <2>2. QED
    BY <1>1, <1>3, <1>4, <2>1 DEF LogOf
<1>8. QED
  BY <1>1, <1>2, <1>5, <1>6, <1>7 DEF Follow

-----------------------------------------------------------------------------
(* then() on several promises at once                                      *)

(* The ids for a set of positions *)
LEMMA NewIdsFacts ==
  ASSUME NEW n \in Nat, n = Len(reaction), NEW m \in Nat, NEW K \in SUBSET (1 .. m)
  PROVE  /\ NewIds(InOrder(K)) \in Seq(Nat)
         /\ DOMAIN NewIds(InOrder(K)) = DOMAIN InOrder(K)
         /\ \A i \in DOMAIN NewIds(InOrder(K)) :
              InOrder(K)[i] \in K /\ NewIds(InOrder(K))[i] = n + InOrder(K)[i]
         /\ \A i, j \in DOMAIN NewIds(InOrder(K)) :
              i < j => NewIds(InOrder(K))[i] < NewIds(InOrder(K))[j]
         /\ \A k \in K : \E i \in DOMAIN NewIds(InOrder(K)) : NewIds(InOrder(K))[i] = n + k
<1>0. PICK c \in Nat : c = Cardinality(K)
  BY InOrderLists
<1>1. PICK f : f = InOrder(K)
  OBVIOUS
<1>2. /\ f \in [1 .. c -> K] /\ DOMAIN f = 1 .. c
      /\ \A i, j \in 1 .. c : i < j => f[i] < f[j]
      /\ \A k \in K : \E j \in 1 .. c : f[j] = k
  BY <1>0, <1>1, InOrderLists
<1>3. PICK g : g = NewIds(f)
  OBVIOUS
<1>4. DOMAIN g = 1 .. c /\ \A i \in 1 .. c : g[i] = n + f[i]
  BY <1>2, <1>3 DEF NewIds, NewId
<1>5. \A k \in K : k \in Nat /\ n + k \in Nat
  OBVIOUS
<1>6. \A i \in 1 .. c : f[i] \in K /\ f[i] \in Nat /\ g[i] \in Nat
  BY <1>2, <1>4, <1>5, Zenon
<1>7. g \in Seq(Nat)
  <2>1. g = [i \in 1 .. c |-> n + f[i]]
    BY <1>2, <1>3 DEF NewIds, NewId
  <2>2. g \in [1 .. c -> Nat]
    BY <1>5, <1>6, <2>1, Zenon
  <2>3. QED
    BY <2>2
<1>8. ASSUME NEW i \in 1 .. c, NEW j \in 1 .. c, i < j PROVE g[i] < g[j]
  <2>1. f[i] < f[j] /\ g[i] = n + f[i] /\ g[j] = n + f[j] /\ f[i] \in Nat /\ f[j] \in Nat
    BY <1>2, <1>4, <1>6, <1>8
  <2>2. QED
    BY <2>1
<1>9. \A k \in K : \E i \in 1 .. c : g[i] = n + k
  BY <1>2, <1>4
<1>10. QED
  BY <1>1, <1>2, <1>3, <1>4, <1>6, <1>7, <1>8, <1>9

(* The reactions that Attach adds get the next ids. *)
Added(p, qs, kind, n, m) ==
  /\ reaction' \in Seq(RxType) /\ Len(reaction') = n + m
  /\ \A i \in 1 .. n : reaction'[i] = reaction[i]
  /\ \A k \in 1 .. m : reaction'[n + k].from = qs[k] /\ reaction'[n + k].to = p
                       /\ reaction'[n + k].kind = kind

(* then() on m promises adds m reactions, each for its promise and for p. *)
LEMMA HangsReaction ==
  ASSUME PromiseInv, NEW jb, NEW p \in Promises, NEW qs, NEW kind, Hangs(p, qs, kind, jb),
         NEW n \in Nat, n = Len(reaction), NEW m \in Nat, m = Len(qs)
  PROVE  Added(p, qs, kind, n, m)
<1>1. PICK f \in BOOLEAN, r \in BOOLEAN : Attach(qs, kind, f, r, p, jb)
  BY DEF Hangs
<1> DEFINE rec(k) == [kind |-> kind, from |-> qs[k], f |-> f, r |-> r, to |-> p]
           more == [k \in 1 .. m |-> rec(k)]
<1>2. qs \in Seq(Made \ {p}) /\ kind \in Kinds /\ DOMAIN qs = 1 .. m
  BY DEF Hangs
<1>3. \A k \in 1 .. m : qs[k] \in Promises
  BY <1>2 DEF Made
<1>4. \A k \in 1 .. m : rec(k) \in RxType
  BY <1>1, <1>2, <1>3 DEF RxType
<1>5. \A k \in 1 .. m : rec(k).from = qs[k] /\ rec(k).to = p /\ rec(k).kind = kind
  OBVIOUS
<1>6. reaction' = reaction \o more
  BY <1>1, <1>2 DEF Attach
<1> HIDE DEF rec
<1>7. more \in Seq(RxType) /\ Len(more) = m /\ \A k \in 1 .. m : more[k] = rec(k)
  <2>1. more \in [1 .. m -> RxType]
    BY <1>4
  <2>2. QED
    BY <2>1
<1> HIDE DEF more
<1>8. reaction \in Seq(RxType)
  BY DEF PromiseInv, TypeData
<1>9. /\ reaction' \in Seq(RxType) /\ Len(reaction') = n + m
      /\ \A i \in 1 .. n : reaction'[i] = reaction[i]
      /\ \A k \in 1 .. m : reaction'[n + k] = more[k]
  <2>1. PICK a, b, c : a = reaction /\ b = more /\ c = reaction'
    OBVIOUS
  <2>2. a \in Seq(RxType) /\ b \in Seq(RxType) /\ n = Len(a) /\ m = Len(b) /\ c = a \o b
    BY <1>6, <1>7, <1>8, <2>1
  <2>3. /\ c \in Seq(RxType) /\ Len(c) = n + m
        /\ \A i \in 1 .. n : c[i] = a[i]
        /\ \A k \in 1 .. m : c[n + k] = b[k]
    <3>1. c \in Seq(RxType) /\ Len(c) = n + m
      BY <2>2
    <3>2. \A i \in 1 .. n : c[i] = a[i]
      BY <2>2
    <3>3. \A k \in 1 .. m : c[n + k] = b[k]
      BY <2>2
    <3>4. QED
      BY <3>1, <3>2, <3>3
  <2>4. QED
    BY <2>1, <2>3
<1>10. QED
  BY <1>5, <1>7, <1>9 DEF Added

(* Those on pending promises are stored. *)
Stored(q, qs, n, m) ==
  \E news \in Seq(Nat) :
    /\ reactions'[q] = reactions[q] \o news
    /\ \A i \in DOMAIN news : \E k \in 1 .. m :
         news[i] = n + k /\ qs[k] = q /\ state[q] = "pending"
    /\ \A i, j \in DOMAIN news : i < j => news[i] < news[j]
    /\ \A k \in 1 .. m :
         qs[k] = q /\ state[q] = "pending" => \E i \in DOMAIN news : news[i] = n + k

(* The ids of those on pending promises are stored behind the others. *)
LEMMA HangsStored ==
  ASSUME PromiseInv, NEW jb, NEW p \in Promises, NEW qs, NEW kind, Hangs(p, qs, kind, jb),
         NEW n \in Nat, n = Len(reaction), NEW m \in Nat, m = Len(qs)
  PROVE  /\ reactions' \in [Promises -> Seq(Nat)]
         /\ \A q \in Promises : Stored(q, qs, n, m)
<1>1. PICK f \in BOOLEAN, r \in BOOLEAN : Attach(qs, kind, f, r, p, jb)
  BY DEF Hangs
<1>2. DOMAIN qs = 1 .. m
  BY DEF Hangs
<1> DEFINE K(q) == {k \in 1 .. m : qs[k] = q /\ state[q] = "pending"}
           news(q) == NewIds(InOrder(K(q)))
<1>3. reactions' = [q \in Promises |-> reactions[q] \o news(q)]
  BY <1>1, <1>2 DEF Attach
<1>4. ASSUME NEW q \in Promises
      PROVE  /\ news(q) \in Seq(Nat)
             /\ \A i \in DOMAIN news(q) : \E k \in K(q) : news(q)[i] = n + k
             /\ \A i, j \in DOMAIN news(q) : i < j => news(q)[i] < news(q)[j]
             /\ \A k \in K(q) : \E i \in DOMAIN news(q) : news(q)[i] = n + k
  <2>1. PICK S : S = K(q)
    OBVIOUS
  <2>2. S \in SUBSET (1 .. m)
    BY <2>1
  <2> HIDE DEF K
  <2>3. PICK w : w = NewIds(InOrder(S))
    OBVIOUS
  <2>4. /\ w \in Seq(Nat)
        /\ \A i \in DOMAIN w : \E k \in S : w[i] = n + k
        /\ \A i, j \in DOMAIN w : i < j => w[i] < w[j]
        /\ \A k \in S : \E i \in DOMAIN w : w[i] = n + k
    <3>1. PICK d : d = InOrder(S)
      OBVIOUS
    <3>2. /\ w \in Seq(Nat)
          /\ \A i, j \in DOMAIN w : i < j => w[i] < w[j]
          /\ \A k \in S : \E i \in DOMAIN w : w[i] = n + k
      BY <2>2, <2>3, NewIdsFacts
    <3>3. \A i \in DOMAIN w : d[i] \in S /\ w[i] = n + d[i]
      BY <2>2, <2>3, <3>1, NewIdsFacts
    <3>4. QED
      BY <3>2, <3>3
  <2>5. w = news(q)
    BY <2>1, <2>3
  <2>6. QED
    BY <2>1, <2>4, <2>5
<1>5. \A q \in Promises : \A k : k \in K(q) <=> k \in 1 .. m /\ qs[k] = q /\ state[q] = "pending"
  OBVIOUS
<1> HIDE DEF K, news
<1>6. \A q \in Promises : reactions[q] \in Seq(Nat)
  BY DEF PromiseInv, TypeData
<1>7. \A q \in Promises : reactions[q] \o news(q) \in Seq(Nat)
  BY <1>4, <1>6
<1>8. reactions' \in [Promises -> Seq(Nat)]
  BY <1>3, <1>7
<1>9. ASSUME NEW q \in Promises
      PROVE  Stored(q, qs, n, m)
  <2>1. PICK w : w = news(q)
    OBVIOUS
  <2>2. /\ w \in Seq(Nat)
        /\ reactions'[q] = reactions[q] \o w
    BY <1>3, <1>4, <2>1
  <2>3. \A i \in DOMAIN w : \E k \in 1 .. m : w[i] = n + k /\ qs[k] = q /\ state[q] = "pending"
    BY <1>4, <1>5, <2>1
  <2>4. \A i, j \in DOMAIN w : i < j => w[i] < w[j]
    BY <1>4, <2>1
  <2>5. \A k \in 1 .. m : qs[k] = q /\ state[q] = "pending" => \E i \in DOMAIN w : w[i] = n + k
    BY <1>4, <1>5, <2>1
  <2>6. QED
    BY <2>2, <2>3, <2>4, <2>5 DEF Stored
<1>10. QED
  BY <1>8, <1>9

(* Those on settled promises are queued. *)
Queued(qs, jb, n, m) ==
  \E nj \in Seq(JobType) :
    /\ jobs' = jb \o nj
    /\ \A i \in DOMAIN nj : Known(nj[i].v) /\ \E k \in 1 .. m :
         nj[i].id = n + k /\ state[qs[k]] \in Settled
    /\ \A i, j \in DOMAIN nj : i < j => nj[i].id < nj[j].id
    /\ \A k \in 1 .. m :
         state[qs[k]] \in Settled => \E i \in DOMAIN nj : nj[i].id = n + k

(* The ids of those on settled promises are queued, in their order. *)
LEMMA HangsQueued ==
  ASSUME PromiseInv, NEW jb, NEW p \in Promises, NEW qs, NEW kind, Hangs(p, qs, kind, jb),
         NEW n \in Nat, n = Len(reaction), NEW m \in Nat, m = Len(qs)
  PROVE  Queued(qs, jb, n, m)
<1>1. PICK f \in BOOLEAN, r \in BOOLEAN : Attach(qs, kind, f, r, p, jb)
  BY DEF Hangs
<1>2. qs \in Seq(Made \ {p}) /\ DOMAIN qs = 1 .. m
  BY DEF Hangs
<1> DEFINE K == {k \in 1 .. m : state[qs[k]] \in Settled}
           due == InOrder(K)
           job(j) == [id |-> NewId(due[j]), s |-> state[qs[due[j]]], v |-> result[qs[due[j]]]]
           ids == NewIds(due)
           nj == [j \in DOMAIN due |-> job(j)]
<1>3. jobs' = jb \o nj
  BY <1>1, <1>2 DEF Attach
<1>4. K \in SUBSET (1 .. m)
  OBVIOUS
<1>5. \A k : k \in K <=> k \in 1 .. m /\ state[qs[k]] \in Settled
  OBVIOUS
<1> HIDE DEF K
<1>6. /\ DOMAIN ids = DOMAIN due
      /\ \A i \in DOMAIN due : due[i] \in K /\ ids[i] = n + due[i]
      /\ \A i, j \in DOMAIN due : i < j => ids[i] < ids[j]
      /\ \A k \in K : \E i \in DOMAIN due : ids[i] = n + k
  <2>1. PICK S : S = K
    OBVIOUS
  <2>2. S \in SUBSET (1 .. m)
    BY <1>4, <2>1
  <2>3. PICK d, w : d = InOrder(S) /\ w = NewIds(InOrder(S))
    OBVIOUS
  <2>4. /\ DOMAIN w = DOMAIN d
        /\ \A i \in DOMAIN w : d[i] \in S /\ w[i] = n + d[i]
        /\ \A i, j \in DOMAIN w : i < j => w[i] < w[j]
        /\ \A k \in S : \E i \in DOMAIN w : w[i] = n + k
    BY <2>2, <2>3, NewIdsFacts, ZenonT(30)
  <2>5. w = ids /\ d = due
    BY <2>1, <2>3
  <2>6. QED
    BY <2>1, <2>4, <2>5
<1>7. PICK c \in Nat : DOMAIN due = 1 .. c
  BY <1>4, InOrderLists
<1> HIDE DEF due
<1>8. \A i \in DOMAIN due : job(i).id = ids[i] /\ job(i).v = result[qs[due[i]]]
  BY DEF NewIds
<1> HIDE DEF ids
<1>9. \A k \in 1 .. m : qs[k] \in Promises
  BY <1>2 DEF Made
<1>10. \A q \in Promises : result[q] \in AnyValue /\ Known(result[q])
  BY DEF PromiseInv, TypeData, MadeKept
<1>11. \A i \in DOMAIN due : job(i) \in JobType
  <2>1. SUFFICES ASSUME NEW i \in DOMAIN due PROVE job(i) \in JobType
    OBVIOUS
  <2>2. due[i] \in 1 .. m /\ state[qs[due[i]]] \in Settled /\ n + due[i] \in Nat
    BY <1>4, <1>5, <1>6
  <2>3. result[qs[due[i]]] \in AnyValue /\ NewId(due[i]) \in Nat
    BY <1>9, <1>10, <2>2 DEF NewId
  <2>4. QED
    BY <2>2, <2>3 DEF JobType
<1> HIDE DEF job
<1>12. nj \in Seq(JobType) /\ DOMAIN nj = DOMAIN due /\ \A i \in DOMAIN due : nj[i] = job(i)
  <2>1. nj \in [1 .. c -> JobType]
    BY <1>7, <1>11
  <2>2. QED
    BY <1>7, <2>1
<1> HIDE DEF nj
<1>13. ASSUME NEW i \in DOMAIN nj
       PROVE  Known(nj[i].v) /\ \E k \in 1 .. m : nj[i].id = n + k /\ state[qs[k]] \in Settled
  <2>1. nj[i].id = n + due[i] /\ due[i] \in K /\ nj[i].v = result[qs[due[i]]]
    BY <1>6, <1>8, <1>12
  <2>2. due[i] \in 1 .. m /\ state[qs[due[i]]] \in Settled
    BY <1>5, <2>1
  <2>3. QED
    BY <1>9, <1>10, <2>1, <2>2
<1>14. \A i, j \in DOMAIN nj : i < j => nj[i].id < nj[j].id
  BY <1>6, <1>8, <1>12
<1>15. \A k \in 1 .. m : state[qs[k]] \in Settled => \E i \in DOMAIN nj : nj[i].id = n + k
  <2>1. SUFFICES ASSUME NEW k \in 1 .. m, state[qs[k]] \in Settled
                 PROVE  \E i \in DOMAIN nj : nj[i].id = n + k
    OBVIOUS
  <2>2. PICK i \in DOMAIN due : ids[i] = n + k
    BY <1>5, <1>6, <2>1
  <2>3. QED
    BY <1>8, <1>12, <2>2
<1>16. QED
  BY <1>3, <1>12, <1>13, <1>14, <1>15 DEF Queued

-----------------------------------------------------------------------------
(* Types, and promises that are made                                       *)

(* Settling p queues its reactions. *)
Released(p, jb) ==
  \E nj \in Seq(JobType) :
    /\ jobs' = jb \o nj
    /\ DOMAIN nj = DOMAIN reactions[p]
    /\ \A i \in DOMAIN nj : nj[i].id = reactions[p][i] /\ Known(nj[i].v)

(* Settling p queues its reactions and changes nothing else but p. *)
LEMMA SettlesFacts ==
  ASSUME PromiseInv, NEW jb, NEW p \in Promises, Settles(p, jb)
  PROVE  /\ \E s \in Settled : state' = [state EXCEPT ![p] = s]
         /\ \E v \in AnyValue : Known(v) /\ result' = [result EXCEPT ![p] = v]
         /\ reactions' = [reactions EXCEPT ![p] = <<>>]
         /\ reaction' = reaction
         /\ Released(p, jb)
<1>1. PICK s \in Settled, v \in AnyValue : Known(v) /\ Settle(p, s, v, jb)
  BY DEF Settles
<1>2. /\ state' = [state EXCEPT ![p] = s] /\ result' = [result EXCEPT ![p] = v]
      /\ reactions' = [reactions EXCEPT ![p] = <<>>] /\ reaction' = reaction
      /\ jobs' = jb \o Jobs(p, s, v)
  BY <1>1 DEF Settle
<1>3. PICK rs : rs = reactions[p]
  OBVIOUS
<1>4. rs \in Seq(Nat)
  BY <1>3 DEF PromiseInv, TypeData
<1>5. PICK c \in Nat : DOMAIN rs = 1 .. c
  BY <1>4
<1>6. \A i \in 1 .. c : rs[i] \in Nat
  BY <1>4, <1>5
<1> DEFINE job(i) == [id |-> rs[i], s |-> s, v |-> v]
<1>7. \A i \in 1 .. c : job(i) \in JobType /\ job(i).id = rs[i] /\ job(i).v = v
  BY <1>6 DEF JobType
<1>8. PICK nj : nj = Jobs(p, s, v)
  OBVIOUS
<1>9. nj = [i \in 1 .. c |-> job(i)]
  BY <1>3, <1>5, <1>8 DEF Jobs
<1> HIDE DEF job
<1>10. nj \in [1 .. c -> JobType] /\ \A i \in 1 .. c : nj[i] = job(i)
  BY <1>7, <1>9
<1>11. nj \in Seq(JobType) /\ DOMAIN nj = 1 .. c
  BY <1>10
<1>12. \A i \in DOMAIN nj : nj[i].id = rs[i] /\ Known(nj[i].v)
  BY <1>1, <1>7, <1>10, <1>11
<1>13. jobs' = jb \o nj /\ DOMAIN nj = DOMAIN rs
  BY <1>2, <1>5, <1>8, <1>11
<1>14. QED
  <2>1. Released(p, jb)
    BY <1>3, <1>11, <1>12, <1>13 DEF Released
  <2>2. QED
    BY <1>1, <1>2, <2>1

(* The queue after a step: what it started from, then new jobs. *)
LEMMA NewJobs ==
  ASSUME PromiseInv, NEW jb, NEW p, jb \in Seq(JobType), DataStep(p, jb)
  PROVE  \E nj \in Seq(JobType) : jobs' = jb \o nj /\ \A i \in DOMAIN nj : Known(nj[i].v)
<1>1. jb = jb \o <<>> /\ <<>> \in Seq(JobType) /\ DOMAIN <<>> = {}
  OBVIOUS
<1>2. CASE NoChange(jb)
  BY <1>1, <1>2 DEF NoChange
<1>3. CASE p \in Promises /\ Settles(p, jb)
  <2>1. Released(p, jb)
    BY <1>3, SettlesFacts
  <2>2. QED
    BY <2>1 DEF Released
<1>4. CASE p \in Promises /\ Starts(p, jb)
  BY <1>1, <1>4 DEF Starts
<1>5. ASSUME p \in Promises, NEW qs, NEW kind, Hangs(p, qs, kind, jb)
      PROVE  \E nj \in Seq(JobType) : jobs' = jb \o nj /\ \A i \in DOMAIN nj : Known(nj[i].v)
  <2>1. PICK n \in Nat : n = Len(reaction)
    BY DEF PromiseInv, TypeData
  <2>2. PICK m \in Nat : m = Len(qs)
    BY <1>5 DEF Hangs
  <2>3. Queued(qs, jb, n, m)
    BY <1>5, <2>1, <2>2, HangsQueued
  <2>4. QED
    BY <2>3 DEF Queued
<1>6. QED
  BY <1>2, <1>3, <1>4, <1>5 DEF DataStep

(* The state of a promise after a step *)
LEMMA NewState ==
  ASSUME PromiseInv, NEW jb, NEW p, DataStep(p, jb)
  PROVE  /\ state' \in [Promises -> States]
         /\ \A q \in Promises : q # p => state'[q] = state[q]
         /\ p \in Promises => state'[p] = state[p] \/ state'[p] \in Settled
                              \/ (Open(p) /\ state'[p] = "pending")
         /\ \A q \in Promises : state[q] \in Settled => state'[q] \in Settled
         /\ Made \subseteq Made'
<1>1. state \in [Promises -> States]
  BY DEF PromiseInv, TypeData
<1>2. CASE state' = state
  BY <1>1, <1>2 DEF Made
<1>3. ASSUME p \in Promises, NEW s \in Settled, state' = [state EXCEPT ![p] = s]
      PROVE  /\ state' \in [Promises -> States]
             /\ \A q \in Promises : q # p => state'[q] = state[q]
             /\ state'[p] \in Settled
             /\ \A q \in Promises : state[q] \in Settled => state'[q] \in Settled
             /\ Made \subseteq Made'
  BY <1>1, <1>3 DEF Made, States, Settled
<1>4. CASE p \in Promises /\ Open(p) /\ state' = [state EXCEPT ![p] = "pending"]
  BY <1>1, <1>4 DEF Made, States, Settled, Open
<1>5. CASE NoChange(jb)
  BY <1>2, <1>5 DEF NoChange
<1>6. CASE p \in Promises /\ Settles(p, jb)
  BY <1>3, <1>6, SettlesFacts
<1>7. CASE p \in Promises /\ Starts(p, jb)
  BY <1>4, <1>7 DEF Starts
<1>8. ASSUME p \in Promises, NEW qs, NEW kind, Hangs(p, qs, kind, jb)
      PROVE  p \in Promises /\ Open(p) /\ state' = [state EXCEPT ![p] = "pending"]
  BY <1>8 DEF Hangs, Attach
<1>9. QED
  BY <1>4, <1>5, <1>6, <1>7, <1>8 DEF DataStep

(* The reactions after a step: the old ones, and new ones that hang p on   *)
(* promises that were made before.                                         *)
LEMMA NewReactions ==
  ASSUME PromiseInv, NEW jb, NEW p, DataStep(p, jb)
  PROVE  /\ reaction' \in Seq(RxType) /\ DOMAIN reaction \subseteq DOMAIN reaction'
         /\ \A id \in DOMAIN reaction : reaction'[id] = reaction[id]
         /\ \A id \in DOMAIN reaction' \ DOMAIN reaction :
              /\ p \in Promises /\ reaction'[id].to = p /\ reaction'[id].from \in Made \ {p}
              /\ state'[p] = "pending"
              /\ reaction'[id].kind # "adopt" => p \notin Made
              /\ reaction'[id].kind \in {"then", "finally"} =>
                   \A other \in DOMAIN reaction' \ DOMAIN reaction : other = id
<1>1. reaction \in Seq(RxType)
  BY DEF PromiseInv, TypeData
<1>2. CASE reaction' = reaction
  BY <1>1, <1>2
<1>3. ASSUME p \in Promises, NEW qs, NEW kind, Hangs(p, qs, kind, jb)
      PROVE  /\ reaction' \in Seq(RxType) /\ DOMAIN reaction \subseteq DOMAIN reaction'
             /\ \A id \in DOMAIN reaction : reaction'[id] = reaction[id]
             /\ \A id \in DOMAIN reaction' \ DOMAIN reaction :
                  /\ reaction'[id].to = p /\ reaction'[id].from \in Made \ {p}
                  /\ state'[p] = "pending"
                  /\ reaction'[id].kind # "adopt" => p \notin Made
                  /\ reaction'[id].kind \in {"then", "finally"} =>
                       \A other \in DOMAIN reaction' \ DOMAIN reaction : other = id
  <2>1. PICK n \in Nat : n = Len(reaction) /\ DOMAIN reaction = 1 .. n
    BY <1>1
  <2>2. qs \in Seq(Made \ {p})
    BY <1>3 DEF Hangs
  <2>3. PICK m \in Nat : m = Len(qs) /\ DOMAIN qs = 1 .. m
    BY <2>2
  <2>4. /\ reaction' \in Seq(RxType) /\ Len(reaction') = n + m
        /\ \A i \in 1 .. n : reaction'[i] = reaction[i]
        /\ \A k \in 1 .. m : reaction'[n + k].from = qs[k] /\ reaction'[n + k].to = p
                             /\ reaction'[n + k].kind = kind
    <3>1. Added(p, qs, kind, n, m)
      BY <1>3, <2>1, <2>3, HangsReaction
    <3>2. QED
      BY <3>1 DEF Added
  <2>5. DOMAIN reaction' = 1 .. n + m
    BY <2>4
  <2>6. ASSUME NEW id \in DOMAIN reaction' \ DOMAIN reaction
        PROVE  id - n \in 1 .. m /\ id = n + (id - n)
    BY <2>1, <2>3, <2>5
  <2>7. \A k \in 1 .. m : qs[k] \in Made \ {p}
    BY <2>2, <2>3
  <2>8. state'[p] = "pending"
    <3>1. state' = [state EXCEPT ![p] = "pending"] /\ state \in [Promises -> States]
      BY <1>3 DEF Hangs, Attach, PromiseInv, TypeData
    <3>2. QED
      BY <1>3, <3>1
  <2>9. /\ kind # "adopt" => p \notin Made
        /\ kind \in {"then", "finally"} => m = 1
    BY <1>3, <2>3 DEF Hangs
  <2>10. ASSUME NEW id \in DOMAIN reaction' \ DOMAIN reaction
         PROVE  /\ reaction'[id].to = p /\ reaction'[id].from \in Made \ {p}
                /\ reaction'[id].kind = kind
    <3>1. PICK k \in 1 .. m : id = n + k
      BY <2>6, <2>10
    <3>2. QED
      BY <2>4, <2>7, <3>1
  <2>11. ASSUME m = 1, NEW a \in DOMAIN reaction' \ DOMAIN reaction,
                       NEW b \in DOMAIN reaction' \ DOMAIN reaction
         PROVE  a = b
    BY <2>6, <2>11, <2>1, <2>5
  <2>12. DOMAIN reaction \subseteq DOMAIN reaction'
    BY <2>1, <2>3, <2>5
  <2>13. QED
    BY <2>1, <2>4, <2>8, <2>9, <2>10, <2>11, <2>12
<1>4. CASE NoChange(jb)
  BY <1>2, <1>4 DEF NoChange
<1>5. CASE p \in Promises /\ Settles(p, jb)
  BY <1>2, <1>5, SettlesFacts
<1>6. CASE p \in Promises /\ Starts(p, jb)
  BY <1>2, <1>6 DEF Starts
<1>7. QED
  BY <1>3, <1>4, <1>5, <1>6 DEF DataStep

(* A step keeps the types, and names only promises that are made. *)
LEMMA TypesKeep ==
  ASSUME PromiseInv, NEW jb, NEW p, StepOf(p, jb), all' \in [Promises -> AllType]
  PROVE  TypeData' /\ TypeRun' /\ MadeKept'
<1>1. Owner(p, jb) /\ DataStep(p, jb) /\ CallStep(p)
  BY DEF StepOf
<1>2. TypeData /\ TypeRun /\ MadeKept
  BY DEF PromiseInv
<1>3. /\ jb \in Seq(JobType) /\ ran' \in Seq(RanType)
      /\ \A i \in DOMAIN jb : \E j \in DOMAIN jobs : jb[i] = jobs[j]
  BY <1>1, <1>2, QueueFacts DEF Owner
<1>4. PICK nj \in Seq(JobType) : jobs' = jb \o nj /\ \A i \in DOMAIN nj : Known(nj[i].v)
  BY <1>1, <1>3, NewJobs
<1>5. /\ jobs' \in Seq(JobType)
      /\ \A i \in DOMAIN jobs' : (\E j \in DOMAIN jb : jobs'[i] = jb[j])
                                 \/ (\E j \in DOMAIN nj : jobs'[i] = nj[j])
  BY <1>3, <1>4, SMTT(30)
<1>6. /\ state' \in [Promises -> States] /\ Made \subseteq Made'
  BY <1>1, NewState
<1> DEFINE StillKnown(v) == v.k = "promise" => v.q \in Made'
<1>7. \A v : Known(v) => StillKnown(v)
  BY <1>6 DEF Known
<1>8. /\ result' \in [Promises -> AnyValue]
      /\ \A q \in Promises : Known(result'[q])
  <2>1. result \in [Promises -> AnyValue] /\ \A q \in Promises : Known(result[q])
    BY <1>2 DEF TypeData, MadeKept
  <2>2. CASE result' = result
    BY <2>1, <2>2
  <2>3. ASSUME p \in Promises, NEW v \in AnyValue, Known(v), result' = [result EXCEPT ![p] = v]
        PROVE  /\ result' \in [Promises -> AnyValue]
               /\ \A q \in Promises : Known(result'[q])
    BY <2>1, <2>3
  <2>4. CASE p \in Promises /\ Settles(p, jb)
    BY <2>3, <2>4, SettlesFacts
  <2>5. QED
    BY <1>1, <2>2, <2>4 DEF DataStep, NoChange, Starts, Hangs, Attach
<1>9. reactions' \in [Promises -> Seq(Nat)]
  <2>1. reactions \in [Promises -> Seq(Nat)]
    BY <1>2 DEF TypeData
  <2>2. CASE reactions' = reactions
    BY <2>1, <2>2
  <2>3. CASE p \in Promises /\ Settles(p, jb)
    <3>1. reactions' = [reactions EXCEPT ![p] = <<>>] /\ <<>> \in Seq(Nat)
      BY <2>3, SettlesFacts
    <3>2. QED
      BY <2>1, <3>1
  <2>4. ASSUME p \in Promises, NEW qs, NEW kind, Hangs(p, qs, kind, jb)
        PROVE  reactions' \in [Promises -> Seq(Nat)]
    <3>1. PICK n \in Nat : n = Len(reaction)
      BY <1>2 DEF TypeData
    <3>2. PICK m \in Nat : m = Len(qs)
      BY <2>4 DEF Hangs
    <3>3. QED
      BY <2>4, <3>1, <3>2, HangsStored
  <2>5. QED
    BY <1>1, <2>2, <2>3, <2>4 DEF DataStep, NoChange, Starts
<1>10. /\ reaction' \in Seq(RxType)
       /\ \A id \in DOMAIN reaction' : reaction'[id].from \in Made' /\ reaction'[id].to \in Made'
  <2>1. reaction' \in Seq(RxType)
    BY <1>1, NewReactions
  <2>2. ASSUME NEW id \in DOMAIN reaction
        PROVE  reaction'[id].from \in Made' /\ reaction'[id].to \in Made'
    BY <1>1, <1>2, <1>6, <2>2, NewReactions DEF MadeKept
  <2>3. ASSUME NEW id \in DOMAIN reaction', id \notin DOMAIN reaction
        PROVE  reaction'[id].from \in Made' /\ reaction'[id].to \in Made'
    <3>1. p \in Promises /\ reaction'[id].to = p /\ reaction'[id].from \in Made
          /\ state'[p] = "pending"
      BY <1>1, <2>3, NewReactions
    <3>2. QED
      BY <1>6, <3>1 DEF Made
  <2>4. QED
    BY <2>1, <2>2, <2>3
<1>11. TypeData'
  BY <1>6, <1>8, <1>9, <1>10 DEF TypeData
<1>12. TypeRun'
  BY <1>1, <1>3, <1>5 DEF TypeRun, CallStep
<1>13. \A i \in DOMAIN jobs' : StillKnown(jobs'[i].v)
  <2>1. \A i \in DOMAIN jobs : Known(jobs[i].v)
    BY <1>2 DEF MadeKept
  <2>2. \A i \in DOMAIN jb : Known(jb[i].v)
    BY <1>3, <2>1
  <2>3. \A i \in DOMAIN jobs' : Known(jobs'[i].v)
    BY <1>4, <1>5, <2>2
  <2>4. QED
    BY <1>7, <2>3
<1>14. ASSUME NEW i \in DOMAIN stack'
       PROVE  /\ Known(stack'[i].v)
              /\ stack'[i].on \in Made' \cup {NoPromise}
              /\ stack'[i].kind # "script" => stack'[i].on \in Made'
              /\ stack'[i].kind = "finally" => stack'[i].s \in Settled
  <2>1. CASE \E j \in DOMAIN stack : stack'[i] = stack[j]
    BY <1>2, <1>6, <2>1 DEF MadeKept
  <2>2. CASE NewFrame(stack'[i], p)
    <3>1. CASE stack'[i] = Frame("script", NoPromise)
      BY <3>1 DEF Frame, Known, Plain
    <3>2. CASE stack'[i] # Frame("script", NoPromise)
      BY <2>2, <3>2 DEF NewFrame
    <3>3. QED
      BY <3>1, <3>2
  <2>3. QED
    BY <1>1, <1>14, <2>1, <2>2 DEF CallStep
<1>15. held' \subseteq Made' /\ bare' \subseteq Made'
  BY <1>1, <1>2, <1>6 DEF CallStep, MadeKept
<1>16. MadeKept'
  <2>1. \A q \in Promises : StillKnown(result'[q])
    BY <1>7, <1>8
  <2>2. \A i \in DOMAIN stack' : StillKnown(stack'[i].v)
    BY <1>7, <1>14
  <2>3. QED
    BY <1>10, <1>13, <1>14, <1>15, <2>1, <2>2 DEF MadeKept, Known
<1>17. QED
  BY <1>11, <1>12, <1>16

-----------------------------------------------------------------------------
(* No reaction is lost, repeated or overtaken.                             *)

(* The log after a step *)
LogShape(n, nj) ==
  /\ DOMAIN Log = 1 .. n /\ DOMAIN Log' = 1 .. n + Len(nj)
  /\ \A i \in 1 .. n : Log'[i] = Log[i]
  /\ \A i \in 1 .. Len(nj) : Log'[n + i] = nj[i].id

(* After a step the log is the log before it, then the new jobs. *)
LEMMA LogStep ==
  ASSUME TypeRun, NEW jb, Quiet(jb) \/ Runs(jb), NEW nj \in Seq(JobType), jobs' = jb \o nj
  PROVE  \E n \in Nat : LogShape(n, nj)
<1>1. /\ jb \in Seq(JobType) /\ ran' \in Seq(RanType)
      /\ LogOf(ran', jb) = Log
  BY QueueFacts
<1>2. PICK n \in Nat : n = Len(ran') + Len(jb)
  BY <1>1
<1>3. PICK rn : rn = ran'
  OBVIOUS
<1>4. Follow(rn, jb, nj, n)
  BY <1>1, <1>2, <1>3, LogGrows
<1>5. Log' = LogOf(rn, jb \o nj)
  BY <1>3 DEF Log
<1>6. LogOf(rn, jb) = Log
  BY <1>1, <1>3
<1>7. LogShape(n, nj)
  BY <1>4, <1>5, <1>6 DEF LogShape, Follow
<1>8. QED
  BY <1>2, <1>7

(* The log stays in order if the new jobs come from settled promises, in   *)
(* their order and behind the jobs of the same promise.                    *)
LEMMA LogKeeps ==
  ASSUME PromiseInv, NEW p, NEW jb, DataStep(p, jb),
         NEW n \in Nat, NEW nj \in Seq(JobType), LogShape(n, nj),
         \A i \in DOMAIN nj :
           nj[i].id \in DOMAIN reaction' /\ state'[reaction'[nj[i].id].from] \in Settled,
         \A i, j \in DOMAIN nj : i < j => nj[i].id < nj[j].id,
         \A i \in 1 .. n, j \in DOMAIN nj :
           reaction[Log[i]].from = reaction'[nj[j].id].from => Log[i] < nj[j].id
  PROVE  LogKept'
<1>1. PICK m \in Nat : m = Len(nj) /\ DOMAIN nj = 1 .. m
  OBVIOUS
<1>2. /\ DOMAIN Log = 1 .. n /\ DOMAIN Log' = 1 .. n + m
      /\ \A i \in 1 .. n : Log'[i] = Log[i]
      /\ \A i \in 1 .. m : Log'[n + i] = nj[i].id
  BY <1>1 DEF LogShape
<1>3. \A i \in 1 .. n + m : i \in 1 .. n \/ \E k \in 1 .. m : i = n + k
  <2>1. SUFFICES ASSUME NEW i \in 1 .. n + m, i \notin 1 .. n PROVE \E k \in 1 .. m : i = n + k
    OBVIOUS
  <2>2. i - n \in 1 .. m /\ i = n + (i - n)
    BY <2>1
  <2>3. QED
    BY <2>2
<1>4. /\ \A i \in 1 .. n : Log[i] \in DOMAIN reaction /\ state[reaction[Log[i]].from] \in Settled
      /\ \A i, j \in 1 .. n :
           i < j /\ reaction[Log[i]].from = reaction[Log[j]].from => Log[i] < Log[j]
  BY <1>2 DEF PromiseInv, LogKept
<1>5. /\ DOMAIN reaction \subseteq DOMAIN reaction'
      /\ \A id \in DOMAIN reaction : reaction'[id] = reaction[id]
  BY NewReactions
<1>6. \A q \in Promises : state[q] \in Settled => state'[q] \in Settled
  BY NewState
<1>7. \A id \in DOMAIN reaction : reaction[id].from \in Promises
  <2>1. reaction \in Seq(RxType)
    BY DEF PromiseInv, TypeData
  <2>2. \A id \in DOMAIN reaction : reaction[id] \in RxType
    BY <2>1
  <2>3. QED
    BY <2>2 DEF RxType
<1>8. ASSUME NEW i \in 1 .. n
      PROVE  /\ Log'[i] \in DOMAIN reaction' /\ state'[reaction'[Log'[i]].from] \in Settled
             /\ reaction'[Log'[i]].from = reaction[Log[i]].from
  <2>1. Log'[i] = Log[i] /\ Log[i] \in DOMAIN reaction
    BY <1>2, <1>4
  <2>2. reaction'[Log'[i]] = reaction[Log[i]]
    BY <1>5, <2>1
  <2>3. QED
    BY <1>4, <1>5, <1>6, <1>7, <2>1, <2>2
<1>9. ASSUME NEW i \in 1 .. n + m
      PROVE  Log'[i] \in DOMAIN reaction' /\ state'[reaction'[Log'[i]].from] \in Settled
  <2>1. CASE i \in 1 .. n
    BY <1>8, <2>1
  <2>2. ASSUME NEW k \in 1 .. m, i = n + k
        PROVE  Log'[i] \in DOMAIN reaction' /\ state'[reaction'[Log'[i]].from] \in Settled
    BY <1>1, <1>2, <2>2
  <2>3. QED
    BY <1>3, <2>1, <2>2
<1>10. ASSUME NEW i \in 1 .. n + m, NEW j \in 1 .. n + m, i < j,
              reaction'[Log'[i]].from = reaction'[Log'[j]].from
       PROVE  Log'[i] < Log'[j]
  <2>1. CASE i \in 1 .. n /\ j \in 1 .. n
    BY <1>2, <1>4, <1>8, <1>10, <2>1
  <2>2. ASSUME i \in 1 .. n, NEW k \in 1 .. m, j = n + k
        PROVE  Log'[i] < Log'[j]
    <3>1. Log'[i] = Log[i] /\ Log'[j] = nj[k].id /\ k \in DOMAIN nj
      BY <1>1, <1>2, <2>2
    <3>2. reaction[Log[i]].from = reaction'[nj[k].id].from
      BY <1>8, <1>10, <2>2, <3>1
    <3>3. QED
      BY <2>2, <3>1, <3>2
  <2>3. ASSUME NEW h \in 1 .. m, i = n + h, NEW k \in 1 .. m, j = n + k
        PROVE  Log'[i] < Log'[j]
    <3>1. h < k
      BY <1>10, <2>3
    <3>2. Log'[i] = nj[h].id /\ Log'[j] = nj[k].id
      BY <1>2, <2>3
    <3>3. QED
      BY <1>1, <3>1, <3>2
  <2>4. ~(i \notin 1 .. n /\ j \in 1 .. n)
    BY <1>10
  <2>5. QED
    BY <1>3, <2>1, <2>2, <2>3, <2>4
<1>11. QED
  BY <1>2, <1>9, <1>10 DEF LogKept

(* What is in the log stays there, and new jobs come to it. *)
LEMMA LogHolds ==
  ASSUME NEW n \in Nat, NEW nj \in Seq(JobType), LogShape(n, nj)
  PROVE  /\ \A i \in DOMAIN Log : \E j \in DOMAIN Log' : Log'[j] = Log[i]
         /\ \A i \in DOMAIN nj : \E j \in DOMAIN Log' : Log'[j] = nj[i].id
<1>1. PICK m \in Nat : m = Len(nj) /\ DOMAIN nj = 1 .. m
  OBVIOUS
<1>2. /\ DOMAIN Log = 1 .. n /\ DOMAIN Log' = 1 .. n + m
      /\ \A i \in 1 .. n : Log'[i] = Log[i]
      /\ \A i \in 1 .. m : Log'[n + i] = nj[i].id
  BY <1>1 DEF LogShape
<1>3. \A i \in 1 .. n : i \in 1 .. n + m
  OBVIOUS
<1>4. \A i \in 1 .. m : n + i \in 1 .. n + m
  OBVIOUS
<1>5. QED
  BY <1>1, <1>2, <1>3, <1>4

(* A step that adds no reaction and settles nothing *)
LEMMA LineSame ==
  ASSUME PromiseInv, NEW p, NEW jb, Owner(p, jb), DataStep(p, jb),
         reaction' = reaction, reactions' = reactions, jobs' = jb,
         \A q \in Promises : state[q] = "pending" => state'[q] = "pending"
  PROVE  LogKept' /\ StoredKept' /\ NoneMissing'
<1>1. jb \in Seq(JobType)
  BY QueueFacts DEF PromiseInv, Owner
<1>2. PICK nj : nj = <<>>
  OBVIOUS
<1>3. nj \in Seq(JobType) /\ jobs' = jb \o nj /\ DOMAIN nj = {}
  BY <1>1, <1>2
<1>4. PICK n \in Nat : LogShape(n, nj)
  BY <1>3, LogStep DEF PromiseInv, Owner
<1>5. LogKept'
  BY <1>3, <1>4, LogKeeps
<1>6. StoredKept'
  BY DEF PromiseInv, StoredKept
<1>7. NoneMissing'
  <2>1. \A i \in DOMAIN Log : \E j \in DOMAIN Log' : Log'[j] = Log[i]
    BY <1>3, <1>4, LogHolds
  <2>2. NoneMissing
    BY DEF PromiseInv
  <2>3. \A id : (\E i \in DOMAIN Log : Log[i] = id) => (\E i \in DOMAIN Log' : Log'[i] = id)
    BY <2>1
  <2> HIDE DEF Log
  <2>4. QED
    BY <2>2, <2>3 DEF NoneMissing
<1>8. QED
  BY <1>5, <1>6, <1>7

(* Settling a promise moves its reactions to the log. *)
LEMMA LineSettles ==
  ASSUME PromiseInv, NEW p \in Promises, NEW jb, Owner(p, jb), Settles(p, jb)
  PROVE  LogKept' /\ StoredKept' /\ NoneMissing'
<1>1. DataStep(p, jb)
  BY DEF DataStep
<1>2. Released(p, jb) /\ reaction' = reaction /\ reactions' = [reactions EXCEPT ![p] = <<>>]
  BY SettlesFacts
<1>3. PICK nj \in Seq(JobType) :
        /\ jobs' = jb \o nj /\ DOMAIN nj = DOMAIN reactions[p]
        /\ \A i \in DOMAIN nj : nj[i].id = reactions[p][i]
  BY <1>2 DEF Released
<1>4. PICK n \in Nat : LogShape(n, nj)
  BY <1>3, LogStep DEF PromiseInv, Owner
<1>5. /\ state \in [Promises -> States] /\ reactions \in [Promises -> Seq(Nat)]
  BY DEF PromiseInv, TypeData
<1>6. state'[p] \in Settled /\ \A q \in Promises : q # p => state'[q] = state[q]
  BY <1>5, SettlesFacts
<1>7. \A i \in DOMAIN nj : /\ nj[i].id \in DOMAIN reaction /\ reaction[nj[i].id].from = p
                           /\ state[p] = "pending"
  <2>1. \A i \in DOMAIN reactions[p] :
          reactions[p][i] \in DOMAIN reaction /\ reaction[reactions[p][i]].from = p
    BY DEF PromiseInv, StoredKept
  <2>2. reactions[p] # <<>> => state[p] = "pending"
    BY DEF PromiseInv, StoredKept
  <2>3. \A i \in DOMAIN reactions[p] : reactions[p] # <<>>
    BY <1>5
  <2>4. QED
    BY <1>3, <2>1, <2>2, <2>3
<1>8. \A i, j \in DOMAIN nj : i < j => nj[i].id < nj[j].id
  BY <1>3 DEF PromiseInv, StoredKept
<1>9. ASSUME NEW i \in 1 .. n, NEW j \in DOMAIN nj,
             reaction[Log[i]].from = reaction'[nj[j].id].from
      PROVE  Log[i] < nj[j].id
  <2>1. reaction[Log[i]].from = p /\ state[p] = "pending"
    BY <1>2, <1>7, <1>9
  <2>2. state[reaction[Log[i]].from] \in Settled
    BY <1>4 DEF PromiseInv, LogKept, LogShape
  <2>3. QED
    BY <2>1, <2>2 DEF Settled
<1>10. LogKept'
  <2>1. \A i \in DOMAIN nj :
          nj[i].id \in DOMAIN reaction' /\ state'[reaction'[nj[i].id].from] \in Settled
    BY <1>2, <1>6, <1>7
  <2>2. QED
    BY <1>1, <1>4, <1>8, <1>9, <2>1, LogKeeps
<1>11. StoredKept'
  <2>1. reactions'[p] = <<>> /\ \A q \in Promises : q # p => reactions'[q] = reactions[q]
    BY <1>2, <1>5
  <2>2. ASSUME NEW q \in Promises
        PROVE  /\ reactions'[q] # <<>> => state'[q] = "pending"
               /\ \A i \in DOMAIN reactions'[q] :
                    reactions'[q][i] \in DOMAIN reaction' /\ reaction'[reactions'[q][i]].from = q
               /\ \A i, j \in DOMAIN reactions'[q] : i < j => reactions'[q][i] < reactions'[q][j]
    <3>1. CASE q = p
      BY <2>1, <3>1
    <3>2. CASE q # p
      BY <1>2, <1>6, <2>1, <2>2, <3>2 DEF PromiseInv, StoredKept
    <3>3. QED
      BY <3>1, <3>2
  <2>3. QED
    BY <2>2 DEF StoredKept
<1>12. NoneMissing'
  <2>1. SUFFICES ASSUME NEW id \in DOMAIN reaction
                 PROVE  \/ \E i \in DOMAIN Log' : Log'[i] = id
                        \/ \E i \in DOMAIN reactions'[reaction[id].from] :
                             reactions'[reaction[id].from][i] = id
    BY <1>2 DEF NoneMissing
  <2>2. CASE \E i \in DOMAIN Log : Log[i] = id
    BY <1>4, <2>2, LogHolds
  <2>3. CASE \E i \in DOMAIN reactions[reaction[id].from] : reactions[reaction[id].from][i] = id
    <3>1. CASE reaction[id].from = p
      <4>1. PICK i \in DOMAIN nj : nj[i].id = id
        BY <1>3, <2>3, <3>1
      <4>2. QED
        BY <1>4, <4>1, LogHolds
    <3>2. CASE reaction[id].from # p
      <4>1. reaction[id].from \in Promises
        <5>1. reaction \in Seq(RxType)
          BY DEF PromiseInv, TypeData
        <5>2. reaction[id] \in RxType
          BY <2>1, <5>1
        <5>3. QED
          BY <5>2 DEF RxType
      <4>2. reactions'[reaction[id].from] = reactions[reaction[id].from]
        BY <1>2, <1>5, <3>2, <4>1
      <4>3. QED
        BY <2>3, <4>2
    <3>3. QED
      BY <3>1, <3>2
  <2>4. QED
    BY <2>1, <2>2, <2>3 DEF PromiseInv, NoneMissing
<1>13. QED
  BY <1>10, <1>11, <1>12

(* New reactions wait or are queued, behind all others. *)
LEMMA LineHangs ==
  ASSUME PromiseInv, NEW p \in Promises, NEW jb, Owner(p, jb), NEW qs, NEW kind,
         Hangs(p, qs, kind, jb)
  PROVE  LogKept' /\ StoredKept' /\ NoneMissing'
<1>1. DataStep(p, jb)
  BY DEF DataStep
<1>2. /\ reaction \in Seq(RxType) /\ state \in [Promises -> States]
      /\ reactions \in [Promises -> Seq(Nat)]
  BY DEF PromiseInv, TypeData
<1>3. PICK n \in Nat : n = Len(reaction) /\ DOMAIN reaction = 1 .. n
  BY <1>2
<1>4. qs \in Seq(Made \ {p})
  BY DEF Hangs
<1>5. PICK m \in Nat : m = Len(qs) /\ DOMAIN qs = 1 .. m
  BY <1>4
<1>6. \A k \in 1 .. m : qs[k] \in Made /\ qs[k] \in Promises /\ qs[k] # p
  BY <1>4, <1>5 DEF Made
<1>7. Added(p, qs, kind, n, m)
  BY <1>3, <1>5, HangsReaction
<1>8. \A q \in Promises : Stored(q, qs, n, m)
  BY <1>3, <1>5, HangsStored
<1>9. Queued(qs, jb, n, m)
  BY <1>3, <1>5, HangsQueued
<1>10. /\ DOMAIN reaction' = 1 .. n + m
       /\ \A i \in 1 .. n : reaction'[i] = reaction[i]
       /\ \A k \in 1 .. m : reaction'[n + k].from = qs[k]
  BY <1>7 DEF Added
<1>11. /\ state'[p] = "pending" /\ Open(p)
       /\ \A q \in Promises : q # p => state'[q] = state[q]
  <2>1. state' = [state EXCEPT ![p] = "pending"] /\ Open(p)
    BY DEF Hangs, Attach
  <2>2. QED
    BY <1>2, <2>1
<1>12. PICK nj \in Seq(JobType) :
         /\ jobs' = jb \o nj
         /\ \A i \in DOMAIN nj : \E k \in 1 .. m : nj[i].id = n + k /\ state[qs[k]] \in Settled
         /\ \A i, j \in DOMAIN nj : i < j => nj[i].id < nj[j].id
         /\ \A k \in 1 .. m :
              state[qs[k]] \in Settled => \E i \in DOMAIN nj : nj[i].id = n + k
  BY <1>9 DEF Queued
<1>13. PICK c \in Nat : LogShape(c, nj)
  BY <1>12, LogStep DEF PromiseInv, Owner
<1>14. \A k \in 1 .. m : n + k \in 1 .. n + m
  OBVIOUS
<1>15. LogKept'
  <2>1. ASSUME NEW i \in DOMAIN nj
        PROVE  nj[i].id \in DOMAIN reaction' /\ state'[reaction'[nj[i].id].from] \in Settled
    <3>1. PICK k \in 1 .. m : nj[i].id = n + k /\ state[qs[k]] \in Settled
      BY <1>12, <2>1
    <3>2. reaction'[n + k].from = qs[k] /\ state'[qs[k]] = state[qs[k]]
      BY <1>6, <1>10, <1>11
    <3>3. QED
      BY <1>10, <1>14, <3>1, <3>2
  <2>2. ASSUME NEW i \in 1 .. c, NEW j \in DOMAIN nj
        PROVE  Log[i] < nj[j].id
    <3>1. Log[i] \in 1 .. n
      BY <1>3, <1>13 DEF PromiseInv, LogKept, LogShape
    <3>2. PICK k \in 1 .. m : nj[j].id = n + k
      BY <1>12, <2>2
    <3>3. PICK a : a = Log[i]
      OBVIOUS
    <3>4. a \in 1 .. n /\ a < n + k
      BY <3>1, <3>3
    <3>5. QED
      BY <3>2, <3>3, <3>4
  <2>3. QED
    BY <1>1, <1>12, <1>13, <2>1, <2>2, LogKeeps
<1>16. StoredKept'
  <2>1. ASSUME NEW q \in Promises
        PROVE  /\ reactions'[q] # <<>> => state'[q] = "pending"
               /\ \A i \in DOMAIN reactions'[q] :
                    reactions'[q][i] \in DOMAIN reaction' /\ reaction'[reactions'[q][i]].from = q
               /\ \A i, j \in DOMAIN reactions'[q] : i < j => reactions'[q][i] < reactions'[q][j]
    <3>1. PICK old : old = reactions[q]
      OBVIOUS
    <3>2. PICK new : new = reactions'[q]
      OBVIOUS
    <3>3. PICK news \in Seq(Nat) :
            /\ new = old \o news
            /\ \A i \in DOMAIN news : \E k \in 1 .. m :
                 news[i] = n + k /\ qs[k] = q /\ state[q] = "pending"
            /\ \A i, j \in DOMAIN news : i < j => news[i] < news[j]
      BY <1>8, <3>1, <3>2 DEF Stored
    <3>4. /\ old \in Seq(Nat)
          /\ old # <<>> => state[q] = "pending"
          /\ \A i \in DOMAIN old : old[i] \in 1 .. n /\ reaction[old[i]].from = q
          /\ \A i, j \in DOMAIN old : i < j => old[i] < old[j]
      BY <1>2, <1>3, <3>1 DEF PromiseInv, StoredKept
    <3>5. PICK a \in Nat, b \in Nat : a = Len(old) /\ b = Len(news)
      BY <3>4
    <3>6. /\ DOMAIN old = 1 .. a /\ DOMAIN news = 1 .. b /\ DOMAIN new = 1 .. a + b
          /\ \A i \in 1 .. a : new[i] = old[i]
          /\ \A i \in 1 .. b : new[a + i] = news[i]
      BY <3>3, <3>4, <3>5
    <3>7. \A i \in 1 .. a + b : i \in 1 .. a \/ \E h \in 1 .. b : i = a + h
      <4>1. SUFFICES ASSUME NEW i \in 1 .. a + b, i \notin 1 .. a
                     PROVE  \E h \in 1 .. b : i = a + h
        OBVIOUS
      <4>2. i - a \in 1 .. b /\ i = a + (i - a)
        BY <4>1
      <4>3. QED
        BY <4>2
    <3>8. new # <<>> => state'[q] = "pending"
      <4>1. SUFFICES ASSUME new # <<>> PROVE state'[q] = "pending"
        OBVIOUS
      <4>2. state[q] = "pending"
        <5>1. CASE old # <<>>
          BY <3>4, <5>1
        <5>2. CASE news # <<>>
          <6>1. 1 \in DOMAIN news
            BY <5>2
          <6>2. QED
            BY <3>3, <6>1
        <5>3. CASE old = <<>> /\ news = <<>>
          BY <3>3, <4>1, <5>3
        <5>4. QED
          BY <5>1, <5>2, <5>3
      <4>3. QED
        BY <1>11, <4>2
    <3>9. ASSUME NEW i \in 1 .. a + b
          PROVE  new[i] \in DOMAIN reaction' /\ reaction'[new[i]].from = q
      <4>1. CASE i \in 1 .. a
        <5>1. new[i] = old[i] /\ old[i] \in 1 .. n /\ reaction[old[i]].from = q
          BY <3>4, <3>6, <4>1
        <5>2. old[i] \in 1 .. n + m
          BY <5>1
        <5>3. QED
          BY <1>10, <5>1, <5>2
      <4>2. ASSUME NEW h \in 1 .. b, i = a + h
            PROVE  new[i] \in DOMAIN reaction' /\ reaction'[new[i]].from = q
        <5>1. PICK k \in 1 .. m : new[i] = n + k /\ qs[k] = q
          BY <3>3, <3>6, <4>2, ZenonT(30)
        <5>2. QED
          BY <1>10, <1>14, <5>1
      <4>3. QED
        BY <3>7, <4>1, <4>2
    <3>10. ASSUME NEW i \in 1 .. a + b, NEW j \in 1 .. a + b, i < j
           PROVE  new[i] < new[j]
      <4>1. CASE i \in 1 .. a /\ j \in 1 .. a
        BY <3>4, <3>6, <3>10, <4>1
      <4>2. ASSUME i \in 1 .. a, NEW h \in 1 .. b, j = a + h
            PROVE  new[i] < new[j]
        <5>1. PICK k \in 1 .. m : new[j] = n + k
          BY <3>3, <3>6, <4>2
        <5>2. PICK x : x = new[i]
          OBVIOUS
        <5>3. x = old[i] /\ i \in DOMAIN old
          BY <3>6, <4>2, <5>2
        <5>4. x \in 1 .. n
          BY <3>4, <5>3, Zenon
        <5>5. x < n + k
          BY <5>4
        <5>6. QED
          BY <5>1, <5>2, <5>5
      <4>3. ASSUME NEW g \in 1 .. b, i = a + g, NEW h \in 1 .. b, j = a + h
            PROVE  new[i] < new[j]
        <5>1. g < h
          BY <3>10, <4>3
        <5>2. new[i] = news[g] /\ new[j] = news[h]
          BY <3>6, <4>3
        <5>3. news[g] < news[h]
          BY <3>3, <3>6, <4>3, <5>1
        <5>4. QED
          BY <5>2, <5>3
      <4>4. ~(i \notin 1 .. a /\ j \in 1 .. a)
        BY <3>10
      <4>5. QED
        BY <3>7, <4>1, <4>2, <4>3, <4>4
    <3>11. QED
      BY <3>2, <3>6, <3>8, <3>9, <3>10
  <2>2. QED
    BY <2>1 DEF StoredKept
<1>17. NoneMissing'
  <2>1. ASSUME NEW q \in Promises, NEW id, \E i \in DOMAIN reactions[q] : reactions[q][i] = id
        PROVE  \E i \in DOMAIN reactions'[q] : reactions'[q][i] = id
    <3>1. PICK i \in DOMAIN reactions[q] : reactions[q][i] = id
      BY <2>1
    <3>2. PICK old, new : old = reactions[q] /\ new = reactions'[q]
      OBVIOUS
    <3>3. PICK news \in Seq(Nat) : new = old \o news
      BY <1>8, <3>2 DEF Stored
    <3>4. old \in Seq(Nat)
      BY <1>2, <3>2
    <3>5. i \in DOMAIN new /\ new[i] = old[i]
      BY <3>1, <3>2, <3>3, <3>4
    <3>6. QED
      BY <3>1, <3>2, <3>5
  <2>2. ASSUME NEW k \in 1 .. m
        PROVE  \/ \E i \in DOMAIN Log' : Log'[i] = n + k
               \/ \E i \in DOMAIN reactions'[qs[k]] : reactions'[qs[k]][i] = n + k
    <3>1. CASE state[qs[k]] \in Settled
      <4>1. PICK i \in DOMAIN nj : nj[i].id = n + k
        BY <1>12, <3>1
      <4>2. QED
        BY <1>13, <4>1, LogHolds
    <3>2. CASE state[qs[k]] = "pending"
      <4>1. PICK q \in Promises : q = qs[k]
        BY <1>6
      <4>2. PICK old, new : old = reactions[q] /\ new = reactions'[q]
        OBVIOUS
      <4>3. PICK news \in Seq(Nat) :
              new = old \o news /\ \E i \in DOMAIN news : news[i] = n + k
        BY <1>8, <3>2, <4>1, <4>2 DEF Stored
      <4>4. old \in Seq(Nat)
        BY <1>2, <4>2
      <4>5. PICK i \in DOMAIN news : news[i] = n + k
        BY <4>3
      <4>6. Len(old) + i \in DOMAIN new /\ new[Len(old) + i] = news[i]
        BY <4>3, <4>4, <4>5
      <4>7. QED
        BY <4>1, <4>2, <4>5, <4>6
    <3>3. QED
      BY <1>2, <1>6, <2>2, <3>1, <3>2 DEF Made, States
  <2>3. ASSUME NEW id \in DOMAIN reaction'
        PROVE  \/ \E i \in DOMAIN Log' : Log'[i] = id
               \/ \E i \in DOMAIN reactions'[reaction'[id].from] :
                    reactions'[reaction'[id].from][i] = id
    <3>1. CASE id \in 1 .. n
      <4>1. reaction'[id] = reaction[id] /\ id \in DOMAIN reaction
        BY <1>3, <1>10, <3>1
      <4>2. reaction[id].from \in Promises
        <5>1. reaction[id] \in RxType
          BY <1>2, <4>1
        <5>2. QED
          BY <5>1 DEF RxType
      <4>3. CASE \E i \in DOMAIN Log : Log[i] = id
        BY <1>13, <4>3, LogHolds
      <4>4. CASE \E i \in DOMAIN reactions[reaction[id].from] : reactions[reaction[id].from][i] = id
        <5>1. PICK q \in Promises : q = reaction[id].from
          BY <4>2
        <5>2. \E i \in DOMAIN reactions'[q] : reactions'[q][i] = id
          BY <2>1, <4>4, <5>1
        <5>3. QED
          BY <4>1, <5>1, <5>2
      <4>5. QED
        BY <4>1, <4>3, <4>4 DEF PromiseInv, NoneMissing
    <3>2. CASE id \notin 1 .. n
      <4>1. id - n \in 1 .. m /\ id = n + (id - n)
        BY <1>10, <2>3, <3>2
      <4>2. PICK k \in 1 .. m : id = n + k
        BY <4>1
      <4>3. reaction'[id].from = qs[k]
        BY <1>10, <4>2
      <4>4. QED
        BY <2>2, <4>2, <4>3
    <3>3. QED
      BY <3>1, <3>2
  <2>4. QED
    BY <2>3 DEF NoneMissing
<1>18. QED
  BY <1>15, <1>16, <1>17

(* Every step keeps the line of reactions: stored, then logged, in order. *)
LEMMA LineKeeps ==
  ASSUME PromiseInv, NEW p, NEW jb, Owner(p, jb), DataStep(p, jb)
  PROVE  LogKept' /\ StoredKept' /\ NoneMissing'
<1>1. state \in [Promises -> States]
  BY DEF PromiseInv, TypeData
<1>2. CASE NoChange(jb)
  BY <1>2, LineSame DEF NoChange
<1>3. CASE p \in Promises /\ Starts(p, jb)
  BY <1>1, <1>3, LineSame DEF Starts
<1>4. CASE p \in Promises /\ Settles(p, jb)
  BY <1>4, LineSettles
<1>5. ASSUME p \in Promises, NEW qs, NEW kind, Hangs(p, qs, kind, jb)
      PROVE  LogKept' /\ StoredKept' /\ NoneMissing'
  BY <1>5, LineHangs
<1>6. QED
  BY <1>2, <1>3, <1>4, <1>5 DEF DataStep

-----------------------------------------------------------------------------
(* A promise that waits for a reaction is settled by nothing else.         *)

(* The job at the head of the queue is one that has not run. *)
LEMMA HeadFacts ==
  ASSUME PromiseInv, jobs # <<>>
  PROVE  /\ Head(jobs) \in JobType /\ Known(Head(jobs).v)
         /\ Head(jobs).id \in DOMAIN reaction
         /\ ~Ran(Head(jobs).id)
<1>1. jobs \in Seq(JobType) /\ ran \in Seq(RanType)
  BY DEF PromiseInv, TypeRun
<1>2. PICK n \in Nat, k \in Nat : n = Len(jobs) /\ k = Len(ran)
  BY <1>1
<1>3. n # 0 /\ DOMAIN jobs = 1 .. n /\ DOMAIN ran = 1 .. k
  BY <1>1, <1>2
<1>4. Head(jobs) = jobs[1] /\ Head(jobs) \in JobType /\ 1 \in DOMAIN jobs
  BY <1>1, <1>2, <1>3
<1>5. Known(Head(jobs).v)
  BY <1>4 DEF PromiseInv, MadeKept
<1>6. /\ DOMAIN Log = 1 .. k + n /\ k + 1 \in 1 .. k + n
      /\ \A i \in 1 .. k : Log[i] = ran[i].id /\ i \in 1 .. k + n
      /\ Log[k + 1] = jobs[1].id
  <2>1. Log = [i \in 1 .. k + n |-> IF i <= k THEN ran[i].id ELSE jobs[i - k].id]
    BY <1>2 DEF Log, LogOf
  <2>2. k + 1 \in 1 .. k + n /\ ~(k + 1 <= k) /\ (k + 1) - k = 1
    BY <1>2, <1>3
  <2>3. \A i \in 1 .. k : i \in 1 .. k + n /\ i <= k
    BY <1>2
  <2>4. QED
    BY <2>1, <2>2, <2>3
<1>7. LogKept
  BY DEF PromiseInv
<1>8. Head(jobs).id \in DOMAIN reaction
  BY <1>4, <1>6, <1>7 DEF LogKept
<1>9. ~Ran(Head(jobs).id)
  <2>1. SUFFICES ASSUME NEW i \in 1 .. k, ran[i].id = Head(jobs).id PROVE FALSE
    BY <1>3 DEF Ran
  <2>2. Log[i] = Log[k + 1] /\ i < k + 1
    BY <1>2, <1>4, <1>6, <2>1
  <2>3. Log[i] < Log[k + 1]
    BY <1>6, <1>7, <2>2 DEF LogKept
  <2>4. Log[k + 1] \in Nat
    BY <1>4, <1>6 DEF JobType
  <2>5. QED
    BY <2>2, <2>3, <2>4
<1>10. QED
  BY <1>4, <1>5, <1>8, <1>9

(* A reaction that has run is one that was added. *)
LEMMA RanAdded ==
  ASSUME PromiseInv
  PROVE  /\ \A i \in DOMAIN ran : ran[i].id \in DOMAIN reaction
         /\ \A id : Ran(id) => id \in DOMAIN reaction
<1>1. jobs \in Seq(JobType) /\ ran \in Seq(RanType)
  BY DEF PromiseInv, TypeRun
<1>2. PICK n \in Nat, k \in Nat : n = Len(jobs) /\ k = Len(ran)
  BY <1>1
<1>3. DOMAIN ran = 1 .. k
  BY <1>1, <1>2
<1>4. \A i \in 1 .. k : i \in DOMAIN Log /\ Log[i] = ran[i].id
  BY <1>2 DEF Log, LogOf
<1>5. \A i \in 1 .. k : ran[i].id \in DOMAIN reaction
  BY <1>4 DEF PromiseInv, LogKept
<1>6. QED
  BY <1>3, <1>5 DEF Ran

(* The promise that a step works on does not wait for a then or finally. *)
LEMMA NotDerived ==
  ASSUME PromiseInv, NEW p, NEW jb, Owner(p, jb), NEW id \in DOMAIN reaction,
         reaction[id].kind \in {"then", "finally"}, ~Ran(id)'
  PROVE  ~Ran(id) /\ reaction[id].to # p
<1>1. TypeRun /\ DerivedKept /\ MadeKept
  BY DEF PromiseInv
<1>2. Quiet(jb) \/ Runs(jb)
  BY DEF Owner
<1>3. ~Ran(id) /\ ~(Runs(jb) /\ id = Head(jobs).id)
  BY <1>1, <1>2, RanFacts
<1>4. PICK t : t = reaction[id].to
  OBVIOUS
<1>5. /\ Reserved(t) /\ t \in Made
      /\ \A other \in DOMAIN reaction : reaction[other].to = t => other = id
  BY <1>1, <1>3, <1>4 DEF DerivedKept, MadeKept
<1>6. t # NoPromise
  BY <1>5 DEF Made, Promises, NoPromise
<1>7. ASSUME Runs(jb), p = reaction[Head(jobs).id].to PROVE t # p
  <2>1. Head(jobs).id \in DOMAIN reaction
    BY <1>7, HeadFacts DEF Runs
  <2>2. QED
    BY <1>3, <1>5, <1>7, <2>1
<1>8. QED
  BY <1>3, <1>4, <1>5, <1>6, <1>7 DEF Owner, Reserved

(* A promise stays reserved when a step works on another one. *)
LEMMA StaysReserved ==
  ASSUME PromiseInv, NEW p, CallStep(p), NEW q \in Promises, q # p, Reserved(q)
  PROVE  Reserved(q)'
<1>1. q \notin held'
  BY DEF CallStep, Reserved
<1>2. ASSUME NEW i \in DOMAIN stack' PROVE stack'[i].on # q
  <2>1. CASE \E j \in DOMAIN stack : stack'[i] = stack[j]
    BY <2>1 DEF Reserved
  <2>2. CASE NewFrame(stack'[i], p)
    <3>1. q # NoPromise
      BY DEF Promises, NoPromise
    <3>2. Frame("script", NoPromise).on = NoPromise
      BY DEF Frame
    <3>3. QED
      BY <2>2, <3>1, <3>2 DEF NewFrame
  <2>3. QED
    BY <1>2, <2>1, <2>2 DEF CallStep
<1>3. QED
  BY <1>1, <1>2 DEF Reserved

(* A new promise is reserved as long as nobody is given it. *)
LEMMA NewReserved ==
  ASSUME PromiseInv, NEW p \in Promises, p \notin Made, held' = held, stack' = stack
  PROVE  Reserved(p)'
<1>1. p \notin held
  BY DEF PromiseInv, MadeKept
<1>2. p # NoPromise
  BY DEF Promises, NoPromise
<1>3. \A i \in DOMAIN stack : stack[i].on # p
  BY <1>2 DEF PromiseInv, MadeKept
<1>4. QED
  BY <1>1, <1>3 DEF Reserved

(* Every step leaves the promise of a waiting then or finally to its       *)
(* reaction.                                                               *)
LEMMA DerivedKeeps ==
  ASSUME PromiseInv, NEW p, NEW jb, StepOf(p, jb)
  PROVE  DerivedKept'
<1>1. Owner(p, jb) /\ DataStep(p, jb) /\ CallStep(p) /\ Withheld
  BY DEF StepOf
<1>2. DerivedKept /\ MadeKept /\ TypeData
  BY DEF PromiseInv
<1> DEFINE Still(q) == q \notin held' /\ \A i \in DOMAIN stack' : stack'[i].on # q
<1>3. ASSUME NEW id \in DOMAIN reaction', reaction'[id].kind \in {"then", "finally"}, ~Ran(id)'
      PROVE  /\ state'[reaction'[id].to] = "pending"
             /\ Still(reaction'[id].to)
             /\ \A other \in DOMAIN reaction' : reaction'[other].to = reaction'[id].to => other = id
  <2>1. CASE id \in DOMAIN reaction
    <3>1. reaction'[id] = reaction[id]
      BY <1>1, <2>1, NewReactions
    <3>2. PICK t : t = reaction[id].to
      OBVIOUS
    <3>3. t # p /\ ~Ran(id)
      BY <1>1, <1>3, <2>1, <3>1, <3>2, NotDerived
    <3>4. /\ state[t] = "pending" /\ Reserved(t) /\ t \in Promises
          /\ \A other \in DOMAIN reaction : reaction[other].to = t => other = id
      BY <1>2, <1>3, <2>1, <3>1, <3>2, <3>3 DEF DerivedKept, MadeKept, Made
    <3>5. state'[t] = "pending"
      BY <1>1, <3>3, <3>4, NewState
    <3>6. Still(t)
      BY <1>1, <3>3, <3>4, StaysReserved DEF Reserved
    <3>7. ASSUME NEW other \in DOMAIN reaction', reaction'[other].to = t PROVE other = id
      <4>1. CASE other \in DOMAIN reaction
        BY <1>1, <3>4, <3>7, <4>1, NewReactions
      <4>2. CASE other \notin DOMAIN reaction
        BY <1>1, <3>3, <3>7, <4>2, NewReactions
      <4>3. QED
        BY <4>1, <4>2
    <3>8. QED
      BY <3>1, <3>2, <3>5, <3>6, <3>7
  <2>2. CASE id \notin DOMAIN reaction
    <3>1. /\ p \in Promises /\ reaction'[id].to = p /\ state'[p] = "pending"
          /\ p \notin Made
          /\ \A other \in DOMAIN reaction' \ DOMAIN reaction : other = id
      BY <1>1, <1>3, <2>2, NewReactions
    <3>2. held' = held /\ stack' = stack
      BY <1>1, <1>3, <2>2 DEF Withheld
    <3>3. Still(p)
      BY <3>1, <3>2, NewReserved DEF Reserved
    <3>4. ASSUME NEW other \in DOMAIN reaction, reaction'[other].to = p PROVE FALSE
      <4>1. reaction[other].to = p
        BY <1>1, <3>4, NewReactions
      <4>2. QED
        BY <1>2, <3>1, <3>4, <4>1 DEF MadeKept
    <3>5. QED
      BY <3>1, <3>3, <3>4
  <2>3. QED
    BY <2>1, <2>2
<1>4. QED
  BY <1>3 DEF DerivedKept, Reserved

-----------------------------------------------------------------------------
(* Promise.all                                                             *)

(* What Promise.all counts is finite. *)
LEMMA FiniteCounts ==
  ASSUME PromiseInv, NEW r, NEW s
  PROVE  IsFiniteSet(Waiting(r)) /\ IsFiniteSet(Reports(r, s))
<1>1. PICK n \in Nat : DOMAIN reaction = 1 .. n
  BY DEF PromiseInv, TypeData
<1>2. PICK k \in Nat : DOMAIN ran = 1 .. k
  BY DEF PromiseInv, TypeRun
<1>3. IsFiniteSet(1 .. n) /\ IsFiniteSet(1 .. k)
  BY FS_Interval
<1>4. Waiting(r) \in SUBSET (1 .. n) /\ Reports(r, s) \in SUBSET (1 .. k)
  BY <1>1, <1>2 DEF Waiting, Reports
<1>5. QED
  BY <1>3, <1>4, FS_Subset

(* The reports after a step: those before it, and that of the job it runs. *)
LEMMA ReportsStep ==
  ASSUME PromiseInv, NEW p, NEW jb, Owner(p, jb), DataStep(p, jb), NEW r, NEW s
  PROVE  /\ Reports(r, s) \subseteq Reports(r, s)'
         /\ (Quiet(jb) \/ Head(jobs).s # s \/ reaction[Head(jobs).id].to # r
             \/ reaction[Head(jobs).id].kind # "all") => Reports(r, s)' = Reports(r, s)
         /\ Runs(jb) /\ Head(jobs).s = s /\ reaction[Head(jobs).id].to = r
            /\ reaction[Head(jobs).id].kind = "all" =>
              \E k : k \notin Reports(r, s) /\ Reports(r, s)' = Reports(r, s) \cup {k}
<1>1. ran \in Seq(RanType)
  BY DEF PromiseInv, TypeRun
<1>2. PICK k \in Nat : k = Len(ran) /\ DOMAIN ran = 1 .. k
  BY <1>1
<1>3. /\ \A i \in 1 .. k : ran[i].id \in DOMAIN reaction
      /\ \A id \in DOMAIN reaction : reaction'[id] = reaction[id]
  BY <1>2, RanAdded, NewReactions
<1>4. Reports(r, s) = {i \in 1 .. k : reaction[ran[i].id].kind = "all" /\ reaction[ran[i].id].to = r
                                      /\ ran[i].s = s}
  BY <1>2 DEF Reports
<1>5. CASE Quiet(jb)
  <2>1. ran' = ran
    BY <1>5 DEF Quiet
  <2>2. Reports(r, s)' = Reports(r, s)
    BY <1>2, <1>3, <1>4, <2>1 DEF Reports
  <2>3. ~Runs(jb)
    <3>1. SUFFICES ASSUME Runs(jb) PROVE FALSE
      OBVIOUS
    <3>2. Len(ran') = k + 1
      BY <1>1, <1>2, <3>1 DEF Runs
    <3>3. QED
      BY <1>2, <2>1, <3>2
  <2>4. QED
    BY <2>2, <2>3
<1>6. CASE Runs(jb)
  <2> DEFINE h == [id |-> Head(jobs).id, s |-> Head(jobs).s]
  <2>1. ran' = Append(ran, h) /\ jobs # <<>>
    BY <1>6 DEF Runs
  <2>2. Head(jobs).id \in DOMAIN reaction
    BY <2>1, HeadFacts
  <2>3. h.id = Head(jobs).id /\ h.s = Head(jobs).s
    OBVIOUS
  <2> HIDE DEF h
  <2>4. /\ DOMAIN ran' = 1 .. k + 1
        /\ ran'[k + 1] = h /\ \A i \in 1 .. k : ran'[i] = ran[i]
    BY <1>1, <1>2, <2>1
  <2> DEFINE Is(i) == reaction'[ran'[i].id].kind = "all" /\ reaction'[ran'[i].id].to = r
                      /\ ran'[i].s = s
  <2>5. Reports(r, s)' = {i \in 1 .. k + 1 : Is(i)}
    BY <2>4 DEF Reports
  <2>6. \A i \in 1 .. k : Is(i) <=> i \in Reports(r, s)
    BY <1>3, <1>4, <2>4
  <2>7. Is(k + 1) <=> reaction[Head(jobs).id].kind = "all" /\ reaction[Head(jobs).id].to = r
                      /\ Head(jobs).s = s
    BY <1>3, <2>2, <2>3, <2>4
  <2>8. \A i : i \in 1 .. k + 1 <=> i \in 1 .. k \/ i = k + 1
    BY <1>2
  <2>9. \A i \in Reports(r, s) : i \in 1 .. k
    BY <1>4
  <2>10. k + 1 \notin 1 .. k
    BY <1>2
  <2> HIDE DEF Is
  <2>11. CASE Is(k + 1)
    <3>1. Reports(r, s)' = Reports(r, s) \cup {k + 1} /\ k + 1 \notin Reports(r, s)
      BY <2>5, <2>6, <2>8, <2>9, <2>10, <2>11
    <3>2. ~Quiet(jb)
      <4>1. SUFFICES ASSUME Quiet(jb) PROVE FALSE
        OBVIOUS
      <4>2. DOMAIN ran' = 1 .. k
        BY <1>2, <4>1 DEF Quiet
      <4>3. k + 1 \in 1 .. k + 1
        BY <1>2
      <4>4. QED
        BY <2>4, <2>10, <4>2, <4>3
    <3>3. QED
      BY <2>7, <2>11, <3>1, <3>2
  <2>12. CASE ~Is(k + 1)
    <3>1. Reports(r, s)' = Reports(r, s)
      BY <2>5, <2>6, <2>8, <2>9, <2>10, <2>12
    <3>2. QED
      BY <2>7, <2>12, <3>1
  <2>13. QED
    BY <2>11, <2>12
<1>7. QED
  BY <1>5, <1>6 DEF Owner

(* A Promise.all that the step does not work on stays as it is. *)
LEMMA OthersKeep ==
  ASSUME PromiseInv, NEW p, NEW jb, StepOf(p, jb), NEW r \in Promises, r # p,
         all[r].items # <<>>, all'[r] = all[r],
         Runs(jb) => reaction[Head(jobs).id].to # r
  PROVE  Owned(r)' /\ Counted(r)'
<1>1. Owner(p, jb) /\ DataStep(p, jb) /\ CallStep(p)
  BY DEF StepOf
<1>2. Owned(r) /\ Counted(r)
  BY DEF PromiseInv, AllOwned, AllCounted
<1>3. state'[r] = state[r] /\ Made \subseteq Made'
  BY <1>1, NewState
<1>4. Reserved(r)'
  BY <1>1, <1>2, StaysReserved DEF Owned
<1>5. /\ DOMAIN reaction \subseteq DOMAIN reaction'
      /\ \A id \in DOMAIN reaction : reaction'[id] = reaction[id]
      /\ \A id \in DOMAIN reaction' \ DOMAIN reaction : reaction'[id].to # r
  BY <1>1, NewReactions
<1>6. \A id \in DOMAIN reaction' : reaction'[id].to = r => reaction'[id].kind = "all"
  BY <1>2, <1>5 DEF Owned
<1>7. Owned(r)'
  BY <1>2, <1>3, <1>4, <1>6 DEF Owned
<1>8. Waiting(r)' = Waiting(r)
  <2>1. \A id : Ran(id)' <=> Ran(id) \/ (Runs(jb) /\ id = Head(jobs).id)
    BY <1>1, RanFacts DEF PromiseInv, Owner
  <2>2. \A id \in DOMAIN reaction : reaction[id].to = r => (Ran(id)' <=> Ran(id))
    BY <2>1
  <2>3. Waiting(r)' = {id \in DOMAIN reaction' : reaction'[id].to = r /\ ~Ran(id)'}
    BY DEF Waiting
  <2>4. QED
    BY <1>5, <2>2, <2>3 DEF Waiting
<1>9. \A s : Reports(r, s)' = Reports(r, s)
  <2>1. SUFFICES ASSUME NEW s PROVE Reports(r, s)' = Reports(r, s)
    OBVIOUS
  <2>2. Quiet(jb) \/ Runs(jb)
    BY <1>1 DEF Owner
  <2>3. QED
    BY <1>1, <2>2, ReportsStep
<1>10. Counted(r)'
  <2>1. Reports(r, "rejected")' = Reports(r, "rejected")
        /\ Reports(r, "fulfilled")' = Reports(r, "fulfilled")
    BY <1>9
  <2>2. QED
    BY <1>2, <1>3, <1>8, <2>1 DEF Counted
<1>11. QED
  BY <1>7, <1>10

(* A step that works on a promise of its own, not on a Promise.all *)
LEMMA AllKeeps ==
  ASSUME PromiseInv, NEW p, NEW jb, StepOf(p, jb), all' = all,
         p \in Promises => all[p].items = <<>>,
         \A id \in DOMAIN reaction' \ DOMAIN reaction : reaction'[id].kind # "all",
         Runs(jb) => reaction[Head(jobs).id].kind # "all"
  PROVE  AllOwned' /\ AllCounted'
<1>1. DataStep(p, jb)
  BY DEF StepOf
<1>2. AllOwned
  BY DEF PromiseInv
<1>3. ASSUME NEW r \in Promises, all[r].items # <<>>
      PROVE  Owned(r)' /\ Counted(r)'
  <2>1. r # p
    BY <1>3
  <2>2. Runs(jb) => reaction[Head(jobs).id].to # r
    <3>1. SUFFICES ASSUME Runs(jb), reaction[Head(jobs).id].to = r PROVE FALSE
      OBVIOUS
    <3>2. Head(jobs).id \in DOMAIN reaction
      BY <3>1, HeadFacts DEF Runs
    <3>3. reaction[Head(jobs).id].kind = "all"
      BY <1>2, <1>3, <3>1, <3>2 DEF AllOwned, Owned
    <3>4. QED
      BY <3>1, <3>3
  <2>3. QED
    BY <1>3, <2>1, <2>2, OthersKeep
<1>4. ASSUME NEW id \in DOMAIN reaction', reaction'[id].kind = "all"
      PROVE  all[reaction'[id].to].items # <<>>
  <2>1. id \in DOMAIN reaction /\ reaction'[id] = reaction[id]
    BY <1>1, <1>4, NewReactions
  <2>2. QED
    BY <1>2, <1>4, <2>1 DEF AllOwned
<1>5. QED
  BY <1>2, <1>3, <1>4 DEF AllOwned, AllCounted

(* An item reports: one item less is awaited, and one report more is in. *)
LEMMA AllReported ==
  ASSUME PromiseInv, NEW jb, NEW r, StepOf(r, jb), Runs(jb), reaction' = reaction,
         reaction[Head(jobs).id].kind = "all", reaction[Head(jobs).id].to = r,
         \/ /\ all[r].rejected /\ all' = all /\ state'[r] = state[r]
         \/ /\ ~all[r].rejected /\ Head(jobs).s = "fulfilled"
            /\ all' = [all EXCEPT ![r].remaining = @ - 1]
            /\ state'[r] = IF all[r].remaining - 1 <= 0 /\ Open(r) THEN "fulfilled" ELSE state[r]
         \/ /\ ~all[r].rejected /\ Head(jobs).s = "rejected"
            /\ all' = [all EXCEPT ![r].rejected = TRUE]
            /\ state'[r] = IF Open(r) THEN "rejected" ELSE state[r],
         held' = held, stack' = stack
  PROVE  all' \in [Promises -> AllType] /\ AllOwned' /\ AllCounted'
<1>1. Owner(r, jb) /\ DataStep(r, jb) /\ CallStep(r)
  BY DEF StepOf
<1>2. PICK id : id = Head(jobs).id
  OBVIOUS
<1>3. id \in DOMAIN reaction /\ ~Ran(id) /\ Head(jobs).s \in Settled
  BY <1>2, HeadFacts DEF Runs, JobType
<1>4. r \in Promises /\ all[r].items # <<>>
  BY <1>2, <1>3 DEF PromiseInv, AllOwned, MadeKept, Made
<1>5. all \in [Promises -> AllType]
  BY DEF PromiseInv, TypeData
<1>6. PICK rem \in Int, len \in Nat : rem = all[r].remaining /\ len = Len(all[r].items)
  <2>1. all[r] \in AllType
    BY <1>4, <1>5
  <2>2. all[r].remaining \in Int /\ all[r].items \in Seq(Promises)
    BY <2>1 DEF AllType
  <2>3. Len(all[r].items) \in Nat
    BY <2>2
  <2>4. QED
    BY <2>2, <2>3
<1>7. Owned(r) /\ Counted(r)
  BY <1>4 DEF PromiseInv, AllOwned, AllCounted
<1>8. PICK c \in Nat : c = Cardinality(Waiting(r)) /\ c >= 1 /\ Cardinality(Waiting(r)') = c - 1
  <2>1. id \in Waiting(r)
    BY <1>2, <1>3 DEF Waiting
  <2>2. \A x : Ran(x)' <=> Ran(x) \/ x = id
    BY <1>1, <1>2, RanFacts DEF PromiseInv, Owner
  <2>3. Waiting(r)' = {x \in DOMAIN reaction : reaction[x].to = r /\ ~Ran(x)'}
    BY DEF Waiting
  <2>4. Waiting(r)' = Waiting(r) \ {id}
    BY <2>2, <2>3 DEF Waiting
  <2>5. IsFiniteSet(Waiting(r))
    BY FiniteCounts
  <2>6. Cardinality(Waiting(r)) \in Nat /\ IsFiniteSet(Waiting(r) \ {id})
    BY <2>5, FS_CardinalityType, FS_RemoveElement
  <2>7. Cardinality(Waiting(r) \ {id}) = Cardinality(Waiting(r)) - 1
    BY <2>1, <2>5, FS_RemoveElement
  <2>8. Cardinality(Waiting(r) \ {id}) \in Nat
    BY <2>6, FS_CardinalityType
  <2>9. QED
    BY <2>4, <2>6, <2>7, <2>8
<1>9. c <= rem /\ rem <= len
  BY <1>6, <1>7, <1>8 DEF Counted
<1>10. IsFiniteSet(Reports(r, "fulfilled")) /\ Cardinality(Reports(r, "fulfilled")) \in Nat
  BY FiniteCounts, FS_CardinalityType
<1> DEFINE Goal == /\ Counted(r)' /\ all' \in [Promises -> AllType]
                   /\ all'[r].items = all[r].items
                   /\ \A q \in Promises : q # r => all'[q] = all[q]
<1>11. ASSUME all[r].rejected, all' = all, state'[r] = state[r]
       PROVE  Goal
  <2>1. Reports(r, "rejected") \subseteq Reports(r, "rejected")'
    BY <1>1, ReportsStep
  <2>2. rem >= c - 1
    BY <1>8, <1>9
  <2>3. Counted(r)'
    BY <1>6, <1>7, <1>8, <1>9, <1>11, <2>1, <2>2 DEF Counted
  <2>4. QED
    BY <1>5, <1>11, <2>3
<1>12. ASSUME ~all[r].rejected, Head(jobs).s = "fulfilled",
              all' = [all EXCEPT ![r].remaining = @ - 1],
              state'[r] = IF all[r].remaining - 1 <= 0 /\ Open(r) THEN "fulfilled" ELSE state[r]
       PROVE  Goal
  <2>1. PICK k : /\ k \notin Reports(r, "fulfilled")
                 /\ Reports(r, "fulfilled")' = Reports(r, "fulfilled") \cup {k}
    BY <1>1, <1>12, ReportsStep
  <2>2. Cardinality(Reports(r, "fulfilled")') = Cardinality(Reports(r, "fulfilled")) + 1
    BY <1>10, <2>1, FS_AddElement
  <2>3. /\ Cardinality(Reports(r, "fulfilled")) = len - rem
        /\ state[r] = IF rem = 0 THEN "fulfilled" ELSE "pending"
    BY <1>6, <1>7, <1>12 DEF Counted
  <2>4. Cardinality(Reports(r, "fulfilled")') = len - (rem - 1)
    BY <1>6, <2>2, <2>3
  <2>5. rem # 0 /\ (rem - 1 <= 0 <=> rem - 1 = 0) /\ c - 1 <= rem - 1 /\ rem - 1 <= len
    BY <1>8, <1>9
  <2>6. state[r] = "pending" /\ Open(r)
    BY <2>3, <2>5 DEF Open
  <2>7. state'[r] = IF rem - 1 = 0 THEN "fulfilled" ELSE "pending"
    BY <1>6, <1>12, <2>5, <2>6
  <2>8. /\ all'[r].remaining = rem - 1 /\ all'[r].items = all[r].items
        /\ all'[r].rejected = all[r].rejected
    BY <1>4, <1>5, <1>6, <1>12 DEF AllType
  <2>9. Counted(r)'
    BY <1>6, <1>8, <1>12, <2>4, <2>5, <2>7, <2>8 DEF Counted
  <2>10. /\ \A q \in Promises : q # r => all'[q] = all[q]
         /\ all' \in [Promises -> AllType]
    <3>1. [all[r] EXCEPT !.remaining = @ - 1] \in AllType
      <4>1. PICK x : x = all[r]
        OBVIOUS
      <4>2. x \in AllType
        BY <1>4, <1>5, <4>1
      <4>3. [x EXCEPT !.remaining = @ - 1] \in AllType
        BY <4>2 DEF AllType
      <4>4. QED
        BY <4>1, <4>3
    <3>2. all' = [all EXCEPT ![r] = [all[r] EXCEPT !.remaining = @ - 1]]
      BY <1>4, <1>5, <1>12
    <3>3. QED
      BY <1>4, <1>5, <3>1, <3>2
  <2>11. QED
    BY <2>8, <2>9, <2>10
<1>13. ASSUME ~all[r].rejected, Head(jobs).s = "rejected",
              all' = [all EXCEPT ![r].rejected = TRUE],
              state'[r] = IF Open(r) THEN "rejected" ELSE state[r]
       PROVE  Goal
  <2>1. Reports(r, "rejected")' # {}
    BY <1>1, <1>13, ReportsStep
  <2>2. state[r] = IF rem = 0 THEN "fulfilled" ELSE "pending"
    BY <1>6, <1>7, <1>13 DEF Counted
  <2>3. rem # 0 /\ c - 1 <= rem
    BY <1>8, <1>9
  <2>4. state'[r] = "rejected"
    BY <1>13, <2>2, <2>3 DEF Open
  <2>5. /\ all'[r].remaining = rem /\ all'[r].items = all[r].items /\ all'[r].rejected
    BY <1>4, <1>5, <1>6, <1>13 DEF AllType
  <2>6. Counted(r)'
    BY <1>6, <1>8, <1>9, <2>1, <2>3, <2>4, <2>5 DEF Counted
  <2>7. /\ \A q \in Promises : q # r => all'[q] = all[q]
        /\ all' \in [Promises -> AllType]
    <3>1. [all[r] EXCEPT !.rejected = TRUE] \in AllType
      <4>1. PICK x : x = all[r]
        OBVIOUS
      <4>2. x \in AllType
        BY <1>4, <1>5, <4>1
      <4>3. [x EXCEPT !.rejected = TRUE] \in AllType
        BY <4>2 DEF AllType
      <4>4. QED
        BY <4>1, <4>3
    <3>2. all' = [all EXCEPT ![r] = [all[r] EXCEPT !.rejected = TRUE]]
      BY <1>4, <1>5, <1>13
    <3>3. QED
      BY <1>4, <1>5, <3>1, <3>2
  <2>8. QED
    BY <2>5, <2>6, <2>7
<1>14. Goal
  BY <1>11, <1>12, <1>13
<1>15. Owned(r)'
  <2>1. Made \subseteq Made'
    BY <1>1, NewState
  <2>2. QED
    BY <1>7, <2>1 DEF Owned, Reserved
<1>16. ASSUME NEW q \in Promises, all'[q].items # <<>>
       PROVE  Owned(q)' /\ Counted(q)'
  <2>1. CASE q = r
    BY <1>14, <1>15, <2>1
  <2>2. CASE q # r
    BY <1>14, <1>16, <2>2, OthersKeep
  <2>3. QED
    BY <2>1, <2>2
<1>17. \A q \in Promises : all'[q].items = <<>> => all'[q] = NoAll
  BY <1>4, <1>14 DEF PromiseInv, AllOwned
<1>18. \A x \in DOMAIN reaction : reaction[x].kind = "all" => all'[reaction[x].to].items # <<>>
  <2>1. SUFFICES ASSUME NEW x \in DOMAIN reaction, reaction[x].kind = "all"
                 PROVE  all'[reaction[x].to].items # <<>>
    OBVIOUS
  <2>2. reaction[x].to \in Promises /\ all[reaction[x].to].items # <<>>
    BY <2>1 DEF PromiseInv, AllOwned, MadeKept, Made
  <2>3. QED
    BY <1>4, <1>14, <2>2
<1>19. AllOwned' /\ AllCounted'
  BY <1>16, <1>17, <1>18 DEF AllOwned, AllCounted
<1>20. QED
  BY <1>14, <1>19

(* Promise.all itself: the new promise waits for its items. *)
LEMMA AllCalled ==
  ASSUME PromiseInv, NEW p \in Promises, p \notin Made, StepOf(p, jobs), ran' = ran,
         NEW items \in Seq(Promises), items # <<>>,
         all' = [all EXCEPT ![p] = [remaining |-> Len(items), rejected |-> FALSE, items |-> items]],
         state'[p] = "pending", held' = held, stack' = stack,
         Len(reaction') <= Len(reaction) + Len(items),
         \A id \in DOMAIN reaction' \ DOMAIN reaction : reaction'[id].kind = "all"
  PROVE  all' \in [Promises -> AllType] /\ AllOwned' /\ AllCounted'
<1>1. Owner(p, jobs) /\ DataStep(p, jobs) /\ CallStep(p)
  BY DEF StepOf
<1>2. all \in [Promises -> AllType] /\ reaction \in Seq(RxType) /\ ran \in Seq(RanType)
  BY DEF PromiseInv, TypeData, TypeRun
<1>3. PICK n \in Nat, len \in Nat : n = Len(reaction) /\ len = Len(items)
  BY <1>2
<1>4. DOMAIN reaction = 1 .. n /\ len # 0
  BY <1>2, <1>3
<1>5. /\ reaction' \in Seq(RxType)
      /\ \A id \in DOMAIN reaction : reaction'[id] = reaction[id]
      /\ \A id \in DOMAIN reaction' \ DOMAIN reaction : reaction'[id].to = p
  BY <1>1, NewReactions
<1>6. PICK n2 \in Nat : n2 = Len(reaction') /\ DOMAIN reaction' = 1 .. n2 /\ n2 <= n + len
  BY <1>3, <1>5
<1> DEFINE rec == [remaining |-> Len(items), rejected |-> FALSE, items |-> items]
<1>7. rec \in AllType /\ rec.remaining = len /\ rec.items = items /\ rec.rejected = FALSE
  BY <1>3 DEF AllType
<1>8. all' = [all EXCEPT ![p] = rec]
  OBVIOUS
<1> HIDE DEF rec
<1>9. /\ all' \in [Promises -> AllType] /\ all'[p] = rec
      /\ \A q \in Promises : q # p => all'[q] = all[q]
  BY <1>2, <1>7, <1>8
<1>10. \A id \in DOMAIN reaction : reaction[id].to # p
  BY DEF PromiseInv, MadeKept
<1>11. Owned(p)'
  <2>1. Reserved(p)'
    BY NewReserved
  <2>2. p \in Made'
    BY DEF Made
  <2>3. \A id \in DOMAIN reaction' : reaction'[id].to = p => reaction'[id].kind = "all"
    BY <1>5, <1>10
  <2>4. QED
    BY <2>1, <2>2, <2>3 DEF Owned
<1>12. Cardinality(Waiting(p)') <= len
  <2>1. Waiting(p)' \in SUBSET (n + 1 .. n + len)
    <3>1. SUFFICES ASSUME NEW x \in Waiting(p)' PROVE x \in n + 1 .. n + len
      OBVIOUS
    <3>2. x \in DOMAIN reaction' /\ reaction'[x].to = p
      BY <3>1 DEF Waiting
    <3>3. x \notin DOMAIN reaction
      BY <1>5, <1>10, <3>2
    <3>4. QED
      BY <1>3, <1>4, <1>6, <3>2, <3>3
  <2>2. IsFiniteSet(n + 1 .. n + len) /\ Cardinality(n + 1 .. n + len) = len
    <3>1. /\ IsFiniteSet(n + 1 .. n + len)
          /\ Cardinality(n + 1 .. n + len) =
               IF n + 1 > n + len THEN 0 ELSE (n + len) - (n + 1) + 1
      <4>1. PICK a \in Int, b \in Int : a = n + 1 /\ b = n + len
        OBVIOUS
      <4>2. IsFiniteSet(a .. b) /\ Cardinality(a .. b) = IF a > b THEN 0 ELSE b - a + 1
        BY FS_Interval
      <4>3. QED
        BY <4>1, <4>2
    <3>2. QED
      BY <1>3, <3>1
  <2>3. QED
    BY <2>1, <2>2, FS_Subset
<1>13. Reports(p, "fulfilled")' = {}
  <2>1. \A i \in DOMAIN ran : ran[i].id \in DOMAIN reaction
    BY RanAdded
  <2>2. \A i \in DOMAIN ran : reaction'[ran[i].id].to # p
    BY <1>5, <1>10, <2>1
  <2>3. QED
    BY <2>2 DEF Reports
<1>14. Counted(p)'
  <2>1. Cardinality(Reports(p, "fulfilled")') = 0 /\ len - len = 0
    <3>1. Cardinality({}) = 0
      BY FS_EmptySet
    <3>2. Cardinality(Reports(p, "fulfilled")') = 0
      BY <1>13, <3>1, Zenon
    <3>3. len - len = 0
      OBVIOUS
    <3>4. QED
      BY <3>2, <3>3
  <2>2. all'[p].remaining = len /\ Len(all'[p].items) = len /\ ~all'[p].rejected
    BY <1>3, <1>7, <1>9
  <2>3. QED
    BY <1>4, <1>12, <2>1, <2>2 DEF Counted
<1>15. ASSUME NEW q \in Promises, all'[q].items # <<>>
       PROVE  Owned(q)' /\ Counted(q)'
  <2>1. CASE q = p
    BY <1>11, <1>14, <2>1
  <2>2. CASE q # p
    <3>1. ~Runs(jobs)
      <4>1. SUFFICES ASSUME Runs(jobs) PROVE FALSE
        OBVIOUS
      <4>2. Len(ran') = Len(ran) + 1 /\ Len(ran) \in Nat
        BY <1>2, <4>1 DEF Runs
      <4>3. QED
        BY <4>2
    <3>2. QED
      BY <1>9, <1>15, <2>2, <3>1, OthersKeep
  <2>3. QED
    BY <2>1, <2>2
<1>16. \A q \in Promises : all'[q].items = <<>> => all'[q] = NoAll
  BY <1>7, <1>9 DEF PromiseInv, AllOwned
<1>17. ASSUME NEW id \in DOMAIN reaction', reaction'[id].kind = "all"
       PROVE  all'[reaction'[id].to].items # <<>>
  <2>1. CASE id \in DOMAIN reaction
    <3>1. reaction'[id] = reaction[id] /\ reaction[id].to \in Promises /\ reaction[id].to # p
      BY <1>5, <1>10, <2>1 DEF PromiseInv, MadeKept, Made
    <3>2. all[reaction[id].to].items # <<>>
      BY <1>17, <2>1, <3>1 DEF PromiseInv, AllOwned
    <3>3. QED
      BY <1>9, <3>1, <3>2
  <2>2. CASE id \notin DOMAIN reaction
    BY <1>5, <1>7, <1>9, <2>2
  <2>3. QED
    BY <2>1, <2>2
<1>18. AllOwned' /\ AllCounted'
  BY <1>15, <1>16, <1>17 DEF AllOwned, AllCounted
<1>19. QED
  BY <1>9, <1>18

-----------------------------------------------------------------------------
(* The parts that the actions are made of                                  *)

(* A settled promise changes only when its thenable throws. *)
FinalStep ==
  \A q \in Promises : state[q] \in Settled =>
    state'[q] = state[q] \/ (state'[q] = "rejected" /\ ThenableThrew(q))

NoNewAll == \A id \in DOMAIN reaction' \ DOMAIN reaction : reaction'[id].kind # "all"

(* A step of this shape keeps the invariant if Promise.all is kept. *)
LEMMA StepKeeps ==
  ASSUME PromiseInv, NEW p, NEW jb, StepOf(p, jb), all' \in [Promises -> AllType],
         AllOwned', AllCounted'
  PROVE  PromiseInv'
<1>1. TypeData' /\ TypeRun' /\ MadeKept'
  BY TypesKeep
<1>2. LogKept' /\ StoredKept' /\ NoneMissing'
  BY LineKeeps DEF StepOf
<1>3. DerivedKept'
  BY DerivedKeeps
<1>4. QED
  BY <1>1, <1>2, <1>3 DEF PromiseInv

(* Steps on a promise that is open, or that leave all states alone *)
LEMMA StepFinal ==
  ASSUME PromiseInv, NEW p, NEW jb, DataStep(p, jb), Open(p) \/ state' = state
  PROVE  FinalStep
<1>1. CASE state' = state
  BY <1>1 DEF FinalStep
<1>2. CASE Open(p)
  <2>1. \A q \in Promises : q # p => state'[q] = state[q]
    BY NewState
  <2>2. state[p] \notin Settled
    BY <1>2 DEF Open, Settled
  <2>3. QED
    BY <2>1, <2>2 DEF FinalStep
<1>3. QED
  BY <1>1, <1>2

(* Nobody but its items works on the promise of a Promise.all. *)
LEMMA PlainKeeps ==
  ASSUME PromiseInv, NEW p, NEW jb, StepOf(p, jb), all' = all, NoNewAll,
         Runs(jb) => reaction[Head(jobs).id].kind # "all"
  PROVE  PromiseInv'
<1>1. AllOwned /\ all \in [Promises -> AllType] /\ Owner(p, jb)
  BY DEF PromiseInv, TypeData, StepOf
<1>2. ASSUME p \in Promises, all[p].items # <<>> PROVE FALSE
  <2>1. Owned(p)
    BY <1>1, <1>2 DEF AllOwned
  <2>2. p # NoPromise
    BY <1>2 DEF Promises, NoPromise
  <2>3. ASSUME Runs(jb), p = reaction[Head(jobs).id].to PROVE FALSE
    <3>1. Head(jobs).id \in DOMAIN reaction
      BY <2>3, HeadFacts DEF Runs
    <3>2. QED
      BY <2>1, <2>3, <3>1 DEF Owned
  <2>4. QED
    BY <1>1, <2>1, <2>2, <2>3 DEF Owner, Owned, Reserved
<1>3. AllOwned' /\ AllCounted'
  BY <1>2, AllKeeps DEF NoNewAll
<1>4. QED
  BY <1>1, <1>3, StepKeeps

(* What can be left of the stack when a call ends *)
SubStack(sb) ==
  /\ sb \in Seq(FrameType) /\ Len(sb) <= MaxDepth
  /\ \A i \in DOMAIN sb : \E j \in DOMAIN stack : sb[i] = stack[j]

StackStep(p) ==
  /\ stack' \in Seq(FrameType) /\ Len(stack') <= MaxDepth
  /\ \A i \in DOMAIN stack' :
       (\E j \in DOMAIN stack : stack'[i] = stack[j]) \/ NewFrame(stack'[i], p)

(* The whole stack is part of itself. *)
LEMMA StackKept ==
  ASSUME PromiseInv
  PROVE  SubStack(stack)
BY DEF PromiseInv, TypeRun, SubStack

(* The innermost call, and the stack without it. *)
LEMMA BelowFacts ==
  ASSUME PromiseInv, InJS
  PROVE  /\ SubStack(Below)
         /\ Len(stack) \in DOMAIN stack /\ Top = stack[Len(stack)] /\ Top \in FrameType
         /\ Known(Top.v) /\ Top.on \in Made \cup {NoPromise}
         /\ Top.kind # "script" => Top.on \in Made
         /\ Top.kind = "finally" => Top.s \in Settled
<1>1. stack \in Seq(FrameType) /\ Len(stack) <= MaxDepth /\ stack # <<>> /\ MaxDepth \in Nat
  BY PromiseAssumption DEF PromiseInv, TypeRun, InJS
<1>2. PICK n \in Nat : n = Len(stack)
  BY <1>1
<1>3. n >= 1 /\ DOMAIN stack = 1 .. n /\ n - 1 \in Nat /\ n \in 1 .. n
  BY <1>1, <1>2
<1>4. PICK b : b = SubSeq(stack, 1, n - 1)
  OBVIOUS
<1>5. /\ b \in Seq(FrameType) /\ Len(b) = n - 1
      /\ \A i \in 1 .. n - 1 : b[i] = stack[i]
  BY <1>1, <1>2, <1>3, <1>4
<1>6. DOMAIN b = 1 .. n - 1
  BY <1>3, <1>5
<1>7. \A i \in 1 .. n - 1 : i \in 1 .. n
  BY <1>3
<1>8. SubStack(b)
  BY <1>1, <1>2, <1>3, <1>5, <1>6, <1>7 DEF SubStack
<1>9. Top = stack[n] /\ n \in DOMAIN stack /\ Top \in FrameType
  BY <1>1, <1>2, <1>3 DEF Top
<1>10. /\ Known(Top.v) /\ Top.on \in Made \cup {NoPromise}
       /\ Top.kind # "script" => Top.on \in Made
       /\ Top.kind = "finally" => Top.s \in Settled
  BY <1>9 DEF PromiseInv, MadeKept
<1>11. QED
  BY <1>2, <1>4, <1>8, <1>9, <1>10 DEF Below

(* A stack that only lost calls *)
LEMMA StackCut ==
  ASSUME NEW sb, SubStack(sb), stack' = sb, NEW p
  PROVE  StackStep(p)
BY DEF SubStack, StackStep

(* A stack on which one new call was pushed *)
LEMMA StackPushed ==
  ASSUME NEW sb, SubStack(sb), Len(sb) < MaxDepth, NEW fr \in FrameType, NEW p, NewFrame(fr, p),
         stack' = Append(sb, fr)
  PROVE  StackStep(p)
<1>1. sb \in Seq(FrameType) /\ MaxDepth \in Nat
  BY PromiseAssumption DEF SubStack
<1>2. PICK n \in Nat : n = Len(sb) /\ DOMAIN sb = 1 .. n
  BY <1>1
<1>3. /\ stack' \in Seq(FrameType) /\ Len(stack') = n + 1 /\ DOMAIN stack' = 1 .. n + 1
      /\ stack'[n + 1] = fr /\ \A i \in 1 .. n : stack'[i] = sb[i]
  BY <1>1, <1>2
<1>4. \A i \in 1 .. n + 1 : i \in 1 .. n \/ i = n + 1
  BY <1>2
<1>5. n + 1 <= MaxDepth
  BY <1>1, <1>2
<1>6. \A i \in 1 .. n : \E j \in DOMAIN stack : sb[i] = stack[j]
  BY <1>2 DEF SubStack
<1>7. ASSUME NEW i \in 1 .. n + 1
      PROVE  (\E j \in DOMAIN stack : stack'[i] = stack[j]) \/ NewFrame(stack'[i], p)
  BY <1>3, <1>4, <1>6
<1>8. QED
  BY <1>3, <1>5, <1>7 DEF StackStep

IsFrame(fr, kind, p, s, v) ==
  fr \in FrameType /\ fr.kind = kind /\ fr.on = p /\ fr.s = s /\ fr.v = v

(* A record of these fields is a call in progress. *)
LEMMA FrameFacts ==
  ASSUME NEW kind \in FrameKinds, NEW p \in Promises \cup {NoPromise}, NEW b \in BOOLEAN,
         NEW s \in Settled \cup {"none"}, NEW v \in AnyValue, NEW fr,
         fr = [kind |-> kind, on |-> p, fresh |-> b, s |-> s, v |-> v]
  PROVE  IsFrame(fr, kind, p, s, v)
<1>1. fr.kind = kind /\ fr.on = p /\ fr.s = s /\ fr.v = v
  OBVIOUS
<1>2. fr \in FrameType
  BY Zenon DEF FrameType
<1>3. QED
  BY <1>1, <1>2 DEF IsFrame

(* A call of a handler or a script *)
LEMMA PlainFrame ==
  ASSUME NEW kind \in FrameKinds, NEW p \in Promises \cup {NoPromise}, NEW fr,
         fr = Frame(kind, p)
  PROVE  IsFrame(fr, kind, p, "none", Plain)
<1>1. fr = [kind |-> kind, on |-> p, fresh |-> FALSE, s |-> "none", v |-> Plain]
  BY DEF Frame
<1>2. Plain \in AnyValue /\ FALSE \in BOOLEAN /\ "none" \in Settled \cup {"none"}
  BY DEF AnyValue
<1>3. QED
  BY <1>1, <1>2, FrameFacts, Zenon

(* A call that made its promise, as an executor does *)
LEMMA FreshFrameFacts ==
  ASSUME NEW kind \in FrameKinds, NEW p \in Promises \cup {NoPromise}, NEW b \in BOOLEAN,
         NEW fr, fr = [Frame(kind, p) EXCEPT !.fresh = b]
  PROVE  IsFrame(fr, kind, p, "none", Plain)
<1>1. fr = [kind |-> kind, on |-> p, fresh |-> b, s |-> "none", v |-> Plain]
  BY DEF Frame
<1>2. Plain \in AnyValue /\ "none" \in Settled \cup {"none"}
  BY DEF AnyValue
<1>3. QED
  BY <1>1, <1>2, FrameFacts, Zenon

(* A call of a finally wrapper, which keeps the outcome to pass on *)
LEMMA FinallyFrameFacts ==
  ASSUME NEW p \in Promises \cup {NoPromise}, NEW s \in Settled, NEW v \in AnyValue,
         NEW fr, fr = [Frame("finally", p) EXCEPT !.s = s, !.v = v]
  PROVE  IsFrame(fr, "finally", p, s, v)
<1>1. PICK f0 : f0 = Frame("finally", p)
  OBVIOUS
<1>2. f0 = [kind |-> "finally", on |-> p, fresh |-> FALSE, s |-> "none", v |-> Plain]
  BY <1>1 DEF Frame
<1>3. PICK f1 : f1 = [f0 EXCEPT !.s = s]
  OBVIOUS
<1>4. f1 = [kind |-> "finally", on |-> p, fresh |-> FALSE, s |-> s, v |-> Plain]
  BY <1>2, <1>3
<1>5. fr = [f1 EXCEPT !.v = v]
  BY <1>1, <1>3
<1>6. fr = [kind |-> "finally", on |-> p, fresh |-> FALSE, s |-> s, v |-> v]
  BY <1>4, <1>5
<1>7. "finally" \in FrameKinds /\ FALSE \in BOOLEAN /\ s \in Settled \cup {"none"}
  BY DEF FrameKinds
<1>8. QED
  BY <1>6, <1>7, FrameFacts, Zenon

(* Whatever JavaScript can pass names a promise that was made, if any. *)
LEMMA ValueFacts ==
  /\ Plain \in AnyValue /\ Known(Plain)
  /\ Thenable \in AnyValue /\ Known(Thenable)
  /\ \A x \in Values : x \in AnyValue /\ Known(x)
<1>1. Plain \in AnyValue /\ Known(Plain) /\ Thenable \in AnyValue /\ Known(Thenable)
  BY DEF AnyValue, Known, Plain, Thenable
<1>2. \A q \in Named : q \in Promises /\ q \in Made
  BY DEF Named, Made
<1>3. \A q \in Made : ToPromise(q) \in AnyValue /\ Known(ToPromise(q))
  <2>1. SUFFICES ASSUME NEW q \in Made PROVE ToPromise(q) \in AnyValue /\ Known(ToPromise(q))
    OBVIOUS
  <2>2. ToPromise(q).q = q
    BY DEF ToPromise
  <2>3. QED
    BY <2>1, <2>2 DEF AnyValue, Known, Made
<1>4. QED
  BY <1>1, <1>2, <1>3 DEF Values

(* A step that settles p and may end a call *)
LEMMA SettleStep ==
  ASSUME PromiseInv, NEW p \in Promises, NEW jb, Owner(p, jb), Settles(p, jb),
         NEW sb, SubStack(sb), stack' = sb, held' = held, bare' \subseteq bare \cup {p}
  PROVE  StepOf(p, jb) /\ NoNewAll /\ p \in Made'
<1>1. DataStep(p, jb)
  BY DEF DataStep
<1>2. reaction' = reaction /\ state \in [Promises -> States]
  BY SettlesFacts DEF PromiseInv, TypeData
<1>3. p \in Made'
  BY <1>2, SettlesFacts DEF Made, Settled
<1>4. StackStep(p)
  BY StackCut
<1>5. CallStep(p)
  BY <1>3, <1>4 DEF CallStep, StackStep
<1>6. QED
  BY <1>1, <1>2, <1>3, <1>5 DEF StepOf, Withheld, NoNewAll

(* lr_promise_reject_internal *)
LEMMA RejectStep ==
  ASSUME PromiseInv, NEW p \in Promises, NEW jb, Owner(p, jb), RejectWith(p, jb),
         NEW sb, SubStack(sb), stack' = sb, held' = held, bare' \subseteq bare \cup {p}
  PROVE  StepOf(p, jb) /\ NoNewAll /\ (Open(p) \/ state' = state)
<1>1. CASE Open(p)
  <2>1. Settle(p, "rejected", Plain, jb)
    BY <1>1 DEF RejectWith
  <2>2. Settles(p, jb)
    BY <2>1, ValueFacts DEF Settles, Settled
  <2>3. QED
    BY <1>1, <2>2, SettleStep
<1>2. CASE ~Open(p)
  <2>1. NoChange(jb)
    BY <1>2 DEF RejectWith
  <2>2. reaction' = reaction /\ state' = state /\ DataStep(p, jb)
    BY <2>1 DEF NoChange, DataStep
  <2>3. p \in Made'
    BY <1>2, <2>2 DEF PromiseInv, TypeData, Open, Made
  <2>4. StackStep(p)
    BY StackCut
  <2>5. CallStep(p)
    BY <2>3, <2>4 DEF CallStep, StackStep
  <2>6. QED
    BY <2>2, <2>5 DEF StepOf, Withheld, NoNewAll
<1>3. QED
  BY <1>1, <1>2

(* lr_promise_resolve_internal, on each of its five paths *)
LEMMA ResolveStep ==
  ASSUME PromiseInv, NEW p \in Promises, NEW jb, Owner(p, jb), NEW x \in AnyValue, Known(x),
         NEW sb, SubStack(sb), ResolveWith(p, x, jb, sb), bare' \subseteq bare \cup {p}
  PROVE  StepOf(p, jb) /\ NoNewAll /\ (Open(p) \/ state' = state)
<1>1. state \in [Promises -> States]
  BY DEF PromiseInv, TypeData
<1>2. CASE ~Open(p) /\ NoChange(jb) /\ stack' = sb /\ held' = held
  <2>1. reaction' = reaction /\ state' = state /\ DataStep(p, jb)
    BY <1>2 DEF NoChange, DataStep
  <2>2. p \in Made'
    BY <1>1, <1>2, <2>1 DEF Open, Made
  <2>3. StackStep(p)
    BY <1>2, StackCut
  <2>4. CallStep(p)
    BY <1>2, <2>2, <2>3 DEF CallStep, StackStep
  <2>5. QED
    BY <2>1, <2>4 DEF StepOf, Withheld, NoNewAll
<1>3. CASE Open(p) /\ Settle(p, "rejected", Plain, jb) /\ stack' = sb /\ held' = held
  <2>1. Settles(p, jb)
    BY <1>3, ValueFacts DEF Settles, Settled
  <2>2. QED
    BY <1>3, <2>1, SettleStep
<1>4. CASE Open(p) /\ Settle(p, "fulfilled", x, jb) /\ stack' = sb /\ held' = held
  <2>1. Settles(p, jb)
    BY <1>4 DEF Settles, Settled
  <2>2. QED
    BY <1>4, <2>1, SettleStep
<1>5. CASE /\ Open(p) /\ x.k = "promise" /\ x.q # p
           /\ Attach(<<x.q>>, "adopt", TRUE, TRUE, p, jb) /\ stack' = sb /\ held' = held
  <2>1. x.q \in Made \ {p}
    BY <1>5 DEF Known
  <2>2. <<x.q>> \in Seq(Made \ {p})
    BY <2>1
  <2>3. Hangs(p, <<x.q>>, "adopt", jb)
    BY <1>5, <2>2 DEF Hangs, Kinds
  <2>4. DataStep(p, jb)
    BY <2>3 DEF DataStep
  <2>5. \A id \in DOMAIN reaction' \ DOMAIN reaction : reaction'[id].kind = "adopt"
    <3>1. PICK n \in Nat : n = Len(reaction) /\ DOMAIN reaction = 1 .. n
      BY DEF PromiseInv, TypeData
    <3>2. PICK qs : qs = <<x.q>>
      OBVIOUS
    <3>3. Len(qs) = 1 /\ Hangs(p, qs, "adopt", jb)
      BY <2>3, <3>2
    <3>4. Added(p, qs, "adopt", n, 1)
      BY <3>1, <3>3, HangsReaction
    <3>5. DOMAIN reaction' = 1 .. n + 1 /\ reaction'[n + 1].kind = "adopt"
      BY <3>1, <3>4 DEF Added
    <3>6. \A id \in 1 .. n + 1 : id \in 1 .. n \/ id = n + 1
      BY <3>1
    <3>7. QED
      BY <3>1, <3>5, <3>6
  <2>6. p \in Made'
    <3>1. state' = [state EXCEPT ![p] = "pending"]
      BY <1>5 DEF Attach
    <3>2. QED
      BY <1>1, <3>1 DEF Made
  <2>7. StackStep(p)
    BY <1>5, StackCut
  <2>8. CallStep(p)
    BY <1>5, <2>6, <2>7 DEF CallStep, StackStep
  <2>9. QED
    BY <1>5, <2>4, <2>5, <2>8 DEF StepOf, Withheld, NoNewAll
<1>6. CASE /\ Open(p) /\ Len(sb) < MaxDepth /\ state' = [state EXCEPT ![p] = "pending"]
           /\ held' = held \cup {p}
           /\ stack' = Append(sb, [Frame("thenable", p) EXCEPT !.fresh = (state[p] = "none")])
           /\ jobs' = jb /\ UNCHANGED <<result, reactions, reaction>>
  <2>1. Starts(p, jb) /\ reaction' = reaction
    BY <1>6 DEF Starts
  <2>2. DataStep(p, jb)
    BY <2>1 DEF DataStep
  <2>3. p \in Made'
    BY <1>1, <1>6 DEF Made
  <2>4. PICK b \in BOOLEAN : b = (state[p] = "none")
    OBVIOUS
  <2>5. PICK fr : fr = [Frame("thenable", p) EXCEPT !.fresh = b]
    OBVIOUS
  <2>6. IsFrame(fr, "thenable", p, "none", Plain)
    <3>1. "thenable" \in FrameKinds /\ p \in Promises \cup {NoPromise}
      BY DEF FrameKinds
    <3>2. QED
      BY <2>4, <2>5, <3>1, FreshFrameFacts, Zenon
  <2>7. NewFrame(fr, p)
    BY <2>3, <2>6, ValueFacts DEF NewFrame, IsFrame
  <2>8. stack' = Append(sb, fr)
    BY <1>6, <2>4, <2>5
  <2>9. StackStep(p)
    BY <1>6, <2>6, <2>7, <2>8, StackPushed DEF IsFrame
  <2>10. CallStep(p)
    BY <1>6, <2>3, <2>9 DEF CallStep, StackStep
  <2>11. QED
    BY <1>6, <2>1, <2>2, <2>10 DEF StepOf, Withheld, NoNewAll
<1>7. QED
  BY <1>2, <1>3, <1>4, <1>5, <1>6 DEF ResolveWith

-----------------------------------------------------------------------------
(* The actions                                                             *)

Kept == PromiseInv' /\ FinalStep

(* A step that no Promise.all hears of keeps the invariant. *)
LEMMA PlainStep ==
  ASSUME PromiseInv, NEW p, NEW jb, StepOf(p, jb), all' = all, NoNewAll,
         Runs(jb) => reaction[Head(jobs).id].kind # "all", Open(p) \/ state' = state
  PROVE  Kept
<1>1. PromiseInv'
  BY PlainKeeps
<1>2. FinalStep
  BY StepFinal DEF StepOf
<1>3. QED
  BY <1>1, <1>2 DEF Kept

(* A step that runs no job *)
LEMMA QuietStep ==
  ASSUME PromiseInv, ran' = ran
  PROVE  Quiet(jobs) /\ ~Runs(jobs)
<1>1. PICK n \in Nat : n = Len(ran) /\ ran \in Seq(RanType)
  BY DEF PromiseInv, TypeRun
<1>2. ASSUME Runs(jobs) PROVE FALSE
  <2>1. Len(ran') = n + 1
    BY <1>1, <1>2 DEF Runs
  <2>2. QED
    BY <1>1, <2>1
<1>3. QED
  BY <1>2 DEF Quiet

(* The caller owns the promise it makes. *)
LEMMA FreshOwner ==
  ASSUME PromiseInv, Room, ran' = ran
  PROVE  /\ Fresh \in Promises /\ Fresh \notin Made /\ Owner(Fresh, jobs) /\ Open(Fresh)
<1>1. Fresh \in Promises /\ Fresh \notin Made
  BY FreshIsNew
<1>2. Owner(Fresh, jobs)
  BY <1>1, QuietStep DEF Owner
<1>3. Open(Fresh)
  BY <1>1 DEF Made, Open
<1>4. QED
  BY <1>1, <1>2, <1>3

(* The host calls JavaScript. *)
LEMMA CallKeeps ==
  ASSUME PromiseInv, Call
  PROVE  Kept
<1>1. /\ stack = <<>> /\ stack' = <<Frame("script", NoPromise)>> /\ ran' = ran
      /\ NoChange(jobs) /\ held' = held /\ bare' = bare /\ all' = all
  BY DEF Call, NoChange
<1>2. Quiet(jobs) /\ ~Runs(jobs)
  BY <1>1, QuietStep
<1>3. DataStep(NoPromise, jobs) /\ Owner(NoPromise, jobs)
  BY <1>1, <1>2 DEF DataStep, Owner
<1>4. PICK fr : fr = Frame("script", NoPromise)
  OBVIOUS
<1>5. fr \in FrameType /\ NewFrame(fr, NoPromise)
  <2>1. "script" \in FrameKinds /\ NoPromise \in Promises \cup {NoPromise}
    BY DEF FrameKinds
  <2>2. IsFrame(fr, "script", NoPromise, "none", Plain)
    BY <1>4, <2>1, PlainFrame
  <2>3. QED
    BY <1>4, <2>2 DEF NewFrame, IsFrame
<1>6. SubStack(stack) /\ Len(stack) < MaxDepth
  BY <1>1, StackKept, PromiseAssumption
<1>7. stack' = Append(stack, fr)
  BY <1>1, <1>4
<1>8. StackStep(NoPromise)
  BY <1>5, <1>6, <1>7, StackPushed
<1>9. reaction' = reaction /\ state' = state
  BY <1>1 DEF NoChange
<1>10. StepOf(NoPromise, jobs) /\ NoNewAll
  BY <1>1, <1>3, <1>8, <1>9 DEF StepOf, CallStep, StackStep, Withheld, NoNewAll
<1>11. QED
  BY <1>1, <1>2, <1>9, <1>10, PlainStep

(* new Promise *)
LEMMA NewPromiseKeeps ==
  ASSUME PromiseInv, NewPromise
  PROVE  Kept
<1>1. /\ Room /\ Len(stack) < MaxDepth /\ state' = [state EXCEPT ![Fresh] = "pending"]
      /\ held' = held \cup {Fresh} /\ stack' = Append(stack, FreshFrame("executor", Fresh))
      /\ ran' = ran /\ bare' = bare /\ all' = all /\ jobs' = jobs
      /\ result' = result /\ reactions' = reactions /\ reaction' = reaction
  BY DEF NewPromise
<1>2. PICK p : p = Fresh
  OBVIOUS
<1>3. p \in Promises /\ p \notin Made /\ Owner(p, jobs) /\ Open(p)
  BY <1>1, <1>2, FreshOwner
<1>4. Starts(p, jobs)
  BY <1>1, <1>2, <1>3 DEF Starts
<1>5. DataStep(p, jobs)
  BY <1>3, <1>4 DEF DataStep
<1>6. p \in Made'
  BY <1>1, <1>2, <1>3 DEF PromiseInv, TypeData, Made
<1>7. PICK fr : fr = FreshFrame("executor", p)
  OBVIOUS
<1>8. fr \in FrameType /\ NewFrame(fr, p)
  <2>1. "executor" \in FrameKinds /\ p \in Promises \cup {NoPromise} /\ TRUE \in BOOLEAN
    BY <1>3 DEF FrameKinds
  <2>2. fr = [Frame("executor", p) EXCEPT !.fresh = TRUE]
    BY <1>7 DEF FreshFrame
  <2>3. IsFrame(fr, "executor", p, "none", Plain)
    BY <2>1, <2>2, FreshFrameFacts, Zenon
  <2>4. QED
    BY <1>6, <2>3, ValueFacts DEF NewFrame, IsFrame
<1>9. stack' = Append(stack, fr)
  BY <1>1, <1>2, <1>7
<1>10. StackStep(p)
  BY <1>1, <1>8, <1>9, StackKept, StackPushed
<1>11. CallStep(p)
  BY <1>1, <1>2, <1>6, <1>10 DEF CallStep, StackStep
<1>12. StepOf(p, jobs) /\ NoNewAll
  BY <1>1, <1>3, <1>5, <1>11 DEF StepOf, Withheld, NoNewAll
<1>13. QED
  BY <1>1, <1>3, <1>12, QuietStep, PlainStep

(* The resolve function that JavaScript was given *)
LEMMA ResolveKeeps ==
  ASSUME PromiseInv, NEW p \in held, NEW x \in Values, Resolve(p, x)
  PROVE  Kept
<1>1. ResolveWith(p, x, jobs, stack) /\ bare' = bare /\ all' = all /\ ran' = ran
  BY DEF Resolve
<1>2. p \in Promises
  BY DEF PromiseInv, MadeKept, Made
<1>3. Owner(p, jobs)
  BY <1>1, QuietStep DEF Owner
<1>4. x \in AnyValue /\ Known(x) /\ SubStack(stack)
  BY ValueFacts, StackKept
<1>5. StepOf(p, jobs) /\ NoNewAll /\ (Open(p) \/ state' = state)
  BY <1>1, <1>2, <1>3, <1>4, ResolveStep
<1>6. QED
  BY <1>1, <1>5, QuietStep, PlainStep

(* The reject function that JavaScript was given *)
LEMMA RejectKeeps ==
  ASSUME PromiseInv, NEW p \in held, Reject(p)
  PROVE  Kept
<1>1. /\ RejectWith(p, jobs) /\ bare' = bare /\ all' = all /\ ran' = ran
      /\ held' = held /\ stack' = stack
  BY DEF Reject
<1>2. p \in Promises
  BY DEF PromiseInv, MadeKept, Made
<1>3. Owner(p, jobs)
  BY <1>1, QuietStep DEF Owner
<1>4. StepOf(p, jobs) /\ NoNewAll /\ (Open(p) \/ state' = state)
  BY <1>1, <1>2, <1>3, StackKept, RejectStep
<1>5. QED
  BY <1>1, <1>4, QuietStep, PlainStep

(* A call that makes a promise and settles it *)
LEMMA SettleNew ==
  ASSUME PromiseInv, Room, NEW s \in Settled, NEW v \in AnyValue, Known(v),
         Settle(Fresh, s, v, jobs), bare' \subseteq bare \cup {Fresh},
         UNCHANGED <<held, stack, all, ran>>
  PROVE  Kept
<1>1. PICK p : p = Fresh
  OBVIOUS
<1>2. p \in Promises /\ Owner(p, jobs) /\ Open(p)
  BY <1>1, FreshOwner
<1>3. Settles(p, jobs)
  BY <1>1 DEF Settles
<1>4. StepOf(p, jobs) /\ NoNewAll
  BY <1>1, <1>2, <1>3, StackKept, SettleStep
<1>5. QED
  BY <1>2, <1>4, QuietStep, PlainStep

(* A call that makes a promise and rejects it *)
LEMMA RejectNew ==
  ASSUME PromiseInv, Room, RejectWith(Fresh, jobs), bare' \subseteq bare \cup {Fresh},
         UNCHANGED <<held, stack, all, ran>>
  PROVE  Kept
<1>1. PICK p : p = Fresh
  OBVIOUS
<1>2. p \in Promises /\ Owner(p, jobs)
  BY <1>1, FreshOwner
<1>3. StepOf(p, jobs) /\ NoNewAll /\ (Open(p) \/ state' = state)
  BY <1>1, <1>2, StackKept, RejectStep
<1>4. QED
  BY <1>3, QuietStep, PlainStep

(* A call that makes a promise and resolves it *)
LEMMA ResolveNew ==
  ASSUME PromiseInv, Room, NEW x \in AnyValue, Known(x), ResolveWith(Fresh, x, jobs, stack),
         bare' \subseteq bare \cup {Fresh}, UNCHANGED <<all, ran>>
  PROVE  Kept
<1>1. PICK p : p = Fresh
  OBVIOUS
<1>2. p \in Promises /\ Owner(p, jobs)
  BY <1>1, FreshOwner
<1>3. StepOf(p, jobs) /\ NoNewAll /\ (Open(p) \/ state' = state)
  BY <1>1, <1>2, StackKept, ResolveStep
<1>4. QED
  BY <1>3, QuietStep, PlainStep

(* then and finally *)
LEMMA DeriveKeeps ==
  ASSUME PromiseInv, Room, NEW q \in Named, NEW kind \in {"then", "finally"},
         NEW f \in BOOLEAN, NEW r \in BOOLEAN, Attach(<<q>>, kind, f, r, Fresh, jobs),
         UNCHANGED <<held, bare, stack, all, ran>>
  PROVE  Kept
<1>1. PICK p, qs : p = Fresh /\ qs = <<q>>
  OBVIOUS
<1>2. p \in Promises /\ p \notin Made /\ Owner(p, jobs) /\ Open(p)
  BY <1>1, FreshOwner
<1>3. q \in Made \ {p}
  BY <1>2 DEF Named
<1>4. qs \in Seq(Made \ {p}) /\ Len(qs) = 1
  BY <1>1, <1>3
<1>5. Attach(qs, kind, f, r, p, jobs)
  BY <1>1
<1>6. kind \in Kinds
  BY DEF Kinds
<1>7. Hangs(p, qs, kind, jobs)
  BY <1>2, <1>4, <1>5, <1>6 DEF Hangs
<1>8. DataStep(p, jobs)
  BY <1>2, <1>7 DEF DataStep
<1>9. PICK n \in Nat : n = Len(reaction) /\ DOMAIN reaction = 1 .. n
  BY DEF PromiseInv, TypeData
<1>10. Added(p, qs, kind, n, 1)
  BY <1>2, <1>4, <1>7, <1>9, HangsReaction
<1>11. DOMAIN reaction' = 1 .. n + 1 /\ reaction'[n + 1].kind = kind
  BY <1>9, <1>10 DEF Added
<1>12. NoNewAll
  <2>1. \A id \in 1 .. n + 1 : id \in 1 .. n \/ id = n + 1
    BY <1>9
  <2>2. QED
    BY <1>9, <1>11, <2>1 DEF NoNewAll
<1>13. StackStep(p)
  BY StackKept, StackCut
<1>14. StepOf(p, jobs)
  BY <1>2, <1>8, <1>13 DEF StepOf, CallStep, StackStep, Withheld
<1>15. QED
  BY <1>2, <1>12, <1>14, QuietStep, PlainStep

(* An array is a sequence. *)
LEMMA ArraysFacts ==
  ASSUME NEW S, NEW items \in Arrays(S)
  PROVE  items \in Seq(S)
<1>1. PICK m \in 0 .. 2 : items \in [1 .. m -> S]
  BY DEF Arrays, SeqOf
<1>2. QED
  BY <1>1

(* The elements at some positions are a sequence that is no longer. *)
LEMMA PickFacts ==
  ASSUME NEW S, NEW s \in Seq(S), NEW I \in SUBSET DOMAIN s
  PROVE  Pick(s, I) \in Seq(S) /\ Len(Pick(s, I)) <= Len(s)
<1>1. PICK n \in Nat : n = Len(s) /\ DOMAIN s = 1 .. n
  OBVIOUS
<1>2. /\ Cardinality(I) \in Nat /\ Cardinality(I) <= n
      /\ InOrder(I) \in [1 .. Cardinality(I) -> I]
      /\ DOMAIN InOrder(I) = 1 .. Cardinality(I)
  BY <1>1, InOrderLists
<1>3. PICK c, f : c = Cardinality(I) /\ f = InOrder(I)
  OBVIOUS
<1>4. c \in Nat /\ \A j \in 1 .. c : f[j] \in DOMAIN s
  BY <1>2, <1>3
<1>5. Pick(s, I) = [j \in 1 .. c |-> s[f[j]]]
  BY <1>2, <1>3 DEF Pick
<1>6. \A j \in 1 .. c : s[f[j]] \in S
  BY <1>1, <1>4
<1>7. Pick(s, I) \in [1 .. c -> S]
  BY <1>5, <1>6
<1>8. Pick(s, I) \in Seq(S) /\ Len(Pick(s, I)) = c
  BY <1>4, <1>7
<1>9. QED
  BY <1>1, <1>2, <1>3, <1>8

(* Promise.all: the counter starts with as many items as can report. *)
LEMMA AllKeepsInv ==
  ASSUME PromiseInv, NEW items \in Arrays(Named), All(items)
  PROVE  Kept
<1>1. Room /\ held' = held /\ bare' = bare /\ stack' = stack /\ ran' = ran
  BY DEF All
<1>2. CASE items = <<>>
  <2>1. Settle(Fresh, "fulfilled", Plain, jobs) /\ all' = all
    BY <1>2 DEF All
  <2>2. QED
    BY <1>1, <2>1, ValueFacts, SettleNew DEF Settled
<1>3. CASE items # <<>>
  <2> DEFINE I == {i \in DOMAIN items : items[i] \notin bare}
  <2>1. PICK p, qs : p = Fresh /\ qs = Pick(items, I)
    OBVIOUS
  <2>2. /\ Attach(qs, "all", TRUE, TRUE, p, jobs)
        /\ all' = [all EXCEPT ![p] =
                     [remaining |-> Len(items), rejected |-> FALSE, items |-> items]]
    BY <1>3, <2>1 DEF All
  <2>3. p \in Promises /\ p \notin Made /\ Owner(p, jobs) /\ Open(p)
    BY <1>1, <2>1, FreshOwner
  <2>4. items \in Seq(Made \ {p}) /\ items \in Seq(Promises)
    <3>1. Named \subseteq Made \ {p} /\ Named \subseteq Promises
      BY <2>3 DEF Named, Made
    <3>2. items \in Seq(Named)
      BY ArraysFacts
    <3>3. QED
      BY <3>1, <3>2
  <2>5. qs \in Seq(Made \ {p}) /\ Len(qs) <= Len(items)
    <3>1. I \in SUBSET DOMAIN items
      OBVIOUS
    <3> HIDE DEF I
    <3>2. QED
      BY <2>1, <2>4, <3>1, PickFacts
  <2>6. Hangs(p, qs, "all", jobs)
    BY <2>2, <2>3, <2>5 DEF Hangs, Kinds
  <2>7. DataStep(p, jobs)
    BY <2>3, <2>6 DEF DataStep
  <2>8. PICK n \in Nat : n = Len(reaction) /\ DOMAIN reaction = 1 .. n
    BY DEF PromiseInv, TypeData
  <2>9. PICK m \in Nat : m = Len(qs)
    BY <2>5
  <2>10. Added(p, qs, "all", n, m)
    BY <2>3, <2>6, <2>8, <2>9, HangsReaction
  <2>11. DOMAIN reaction' = 1 .. n + m /\ Len(reaction') = n + m
    BY <2>8, <2>9, <2>10 DEF Added
  <2>12. \A id \in DOMAIN reaction' \ DOMAIN reaction : reaction'[id].kind = "all"
    <3>1. SUFFICES ASSUME NEW id \in DOMAIN reaction' \ DOMAIN reaction
                   PROVE  reaction'[id].kind = "all"
      OBVIOUS
    <3>2. PICK k \in 1 .. m : id = n + k
      <4>1. id - n \in 1 .. m /\ id = n + (id - n)
        BY <2>8, <2>9, <2>11
      <4>2. QED
        BY <4>1
    <3>3. QED
      BY <2>10, <3>2 DEF Added
  <2>13. StackStep(p)
    BY <1>1, StackKept, StackCut
  <2>14. StepOf(p, jobs)
    BY <1>1, <2>3, <2>7, <2>13 DEF StepOf, CallStep, StackStep, Withheld
  <2>15. state'[p] = "pending"
    <3>1. state' = [state EXCEPT ![p] = "pending"]
      BY <2>2 DEF Attach
    <3>2. QED
      BY <2>3, <3>1 DEF PromiseInv, TypeData
  <2>16. Len(reaction') <= Len(reaction) + Len(items)
    BY <2>4, <2>5, <2>8, <2>9, <2>11
  <2>17. all' \in [Promises -> AllType] /\ AllOwned' /\ AllCounted'
    BY <1>1, <1>3, <2>2, <2>3, <2>4, <2>12, <2>14, <2>15, <2>16, AllCalled
  <2>18. PromiseInv'
    BY <2>14, <2>17, StepKeeps
  <2>19. FinalStep
    BY <2>3, <2>7, StepFinal
  <2>20. QED
    BY <2>18, <2>19 DEF Kept
<1>4. QED
  BY <1>2, <1>3

(* Promise.race of no items *)
LEMMA RaceNoneKeeps ==
  ASSUME PromiseInv, RaceNone
  PROVE  Kept
<1>1. /\ Room /\ state' = [state EXCEPT ![Fresh] = "pending"] /\ bare' = bare \cup {Fresh}
      /\ UNCHANGED <<result, held, reactions, reaction, jobs, stack, all, ran>>
  BY DEF RaceNone, BareRoom
<1>2. PICK p : p = Fresh
  OBVIOUS
<1>3. p \in Promises /\ p \notin Made /\ Owner(p, jobs) /\ Open(p)
  BY <1>1, <1>2, FreshOwner
<1>4. Starts(p, jobs)
  BY <1>1, <1>2, <1>3 DEF Starts
<1>5. DataStep(p, jobs)
  BY <1>3, <1>4 DEF DataStep
<1>6. p \in Made'
  BY <1>1, <1>2, <1>3 DEF PromiseInv, TypeData, Made
<1>7. StackStep(p)
  BY <1>1, StackKept, StackCut
<1>8. StepOf(p, jobs) /\ NoNewAll
  BY <1>1, <1>2, <1>3, <1>5, <1>6, <1>7
  DEF StepOf, CallStep, StackStep, Withheld, NoNewAll
<1>9. QED
  BY <1>1, <1>3, <1>8, QuietStep, PlainStep

(* Promise.any *)
LEMMA AnyOfKeeps ==
  ASSUME PromiseInv, NEW items \in Arrays(Values), AnyOf(items)
  PROVE  Kept
<1> DEFINE hits == {i \in DOMAIN items :
                      items[i].k = "promise" => state[items[i].q] = "fulfilled"}
           x == items[Min(hits)]
           v == IF x.k = "promise" THEN result[x.q] ELSE x
<1>1. /\ Room /\ bare' = bare \cup {Fresh} /\ all' = all /\ ran' = ran
      /\ IF hits = {} THEN RejectWith(Fresh, jobs) /\ UNCHANGED <<held, stack>>
                      ELSE ResolveWith(Fresh, v, jobs, stack)
  BY DEF AnyOf, BareRoom
<1>2. items \in Seq(Values)
  BY ArraysFacts
<1>3. CASE hits = {}
  BY <1>1, <1>3, RejectNew
<1>4. CASE hits # {}
  <2>1. hits \in SUBSET Nat /\ hits \subseteq DOMAIN items
    BY <1>2
  <2>2. \E i \in hits : \A j \in hits : i <= j
    BY <1>4, <2>1, Smallest
  <2>3. Min(hits) \in DOMAIN items
    BY <2>1, <2>2 DEF Min
  <2>4. x \in Values
    BY <1>2, <2>3
  <2>5. x \in AnyValue /\ Known(x)
    BY <2>4, ValueFacts
  <2>6. ASSUME x.k = "promise" PROVE x.q \in Promises
    BY <2>5, <2>6 DEF Known, Made
  <2>7. \A q \in Promises : result[q] \in AnyValue /\ Known(result[q])
    BY DEF PromiseInv, TypeData, MadeKept
  <2>8. v \in AnyValue /\ Known(v)
    BY <2>5, <2>6, <2>7
  <2>9. ResolveWith(Fresh, v, jobs, stack)
    BY <1>1, <1>4
  <2> HIDE DEF v
  <2>10. QED
    BY <1>1, <2>8, <2>9, ResolveNew
<1>5. QED
  BY <1>3, <1>4

(* A job is run: by the event loop or by an await. *)
LEMMA RunJobKeeps ==
  ASSUME PromiseInv, RunJob
  PROVE  Kept
<1>1. PICK h, jb : h = Head(jobs) /\ jb = Tail(jobs)
  OBVIOUS
<1>2. PICK rx : rx = reaction[h.id]
  OBVIOUS
<1>3. jobs # <<>> /\ Runs(jb) /\ bare' = bare
  BY <1>1 DEF RunJob, Runs
<1>4. h \in JobType /\ Known(h.v) /\ h.id \in DOMAIN reaction /\ h.s \in Settled /\ h.v \in AnyValue
  BY <1>1, <1>3, HeadFacts DEF JobType
<1>5. rx \in RxType /\ rx.to \in Made /\ rx.to \in Promises
  BY <1>2, <1>4 DEF PromiseInv, TypeData, MadeKept, Made
<1>6. PICK p : p = rx.to
  OBVIOUS
<1>7. p \in Promises /\ p \in Made /\ p \in Promises \cup {NoPromise}
  BY <1>5, <1>6
<1>8. Owner(p, jb)
  BY <1>1, <1>2, <1>3, <1>6 DEF Owner
<1>9. reaction[Head(jobs).id].kind = rx.kind /\ reaction[Head(jobs).id].to = p
  BY <1>1, <1>2, <1>6
<1>10. ASSUME rx.kind # "all", all' = all, NoChange(jb), held' = held, Len(stack) < MaxDepth,
              NEW fr \in FrameType, NewFrame(fr, p), stack' = Append(stack, fr)
       PROVE  Kept
  <2>1. StackStep(p)
    BY <1>10, StackKept, StackPushed
  <2>2. DataStep(p, jb) /\ state' = state /\ reaction' = reaction
    BY <1>10 DEF DataStep, NoChange
  <2>3. StepOf(p, jb) /\ NoNewAll
    BY <1>3, <1>8, <1>10, <2>1, <2>2 DEF StepOf, CallStep, StackStep, Withheld, NoNewAll
  <2>4. QED
    BY <1>9, <1>10, <2>2, <2>3, PlainStep
<1>11. NoChange(jb) => Made' = Made
  BY DEF NoChange, Made
<1>12. CASE /\ rx.kind = "then" /\ Len(stack) < MaxDepth
            /\ stack' = Append(stack, Frame("handler", p)) /\ NoChange(jb)
            /\ held' = held /\ all' = all
  <2>1. PICK fr : fr = Frame("handler", p)
    OBVIOUS
  <2>2. IsFrame(fr, "handler", p, "none", Plain)
    BY <1>7, <2>1, PlainFrame DEF FrameKinds
  <2>3. NewFrame(fr, p) /\ fr \in FrameType
    BY <1>7, <1>11, <1>12, <2>2, ValueFacts DEF NewFrame, IsFrame
  <2>4. QED
    BY <1>10, <1>12, <2>1, <2>3
<1>13. CASE /\ rx.kind = "finally" /\ Len(stack) < MaxDepth
            /\ stack' = Append(stack, [Frame("finally", p) EXCEPT !.s = h.s, !.v = h.v])
            /\ NoChange(jb) /\ held' = held /\ all' = all
  <2>1. PICK s, v : s = h.s /\ v = h.v
    OBVIOUS
  <2>2. PICK fr : fr = [Frame("finally", p) EXCEPT !.s = s, !.v = v]
    OBVIOUS
  <2>3. s \in Settled /\ v \in AnyValue /\ Known(v)
    BY <1>4, <2>1
  <2>4. IsFrame(fr, "finally", p, s, v)
    BY <1>7, <2>2, <2>3, FinallyFrameFacts
  <2>5. NewFrame(fr, p) /\ fr \in FrameType
    BY <1>7, <1>11, <1>13, <2>3, <2>4 DEF NewFrame, IsFrame
  <2>6. stack' = Append(stack, fr)
    BY <1>13, <2>1, <2>2
  <2>7. QED
    BY <1>10, <1>13, <2>5, <2>6
<1>14. CASE rx.kind # "all" /\ ResolveWith(p, h.v, jb, stack) /\ all' = all
  <2>1. StepOf(p, jb) /\ NoNewAll /\ (Open(p) \/ state' = state)
    BY <1>3, <1>4, <1>7, <1>8, <1>14, StackKept, ResolveStep
  <2>2. QED
    BY <1>9, <1>14, <2>1, PlainStep
<1>15. CASE /\ rx.kind # "all" /\ RejectWith(p, jb) /\ held' = held /\ stack' = stack
            /\ all' = all
  <2>1. StepOf(p, jb) /\ NoNewAll /\ (Open(p) \/ state' = state)
    BY <1>3, <1>7, <1>8, <1>15, StackKept, RejectStep
  <2>2. QED
    BY <1>9, <1>15, <2>1, PlainStep
<1>16. CASE /\ rx.kind = "all" /\ held' = held /\ stack' = stack
            /\ IF h.s = "fulfilled" THEN AllFulfill(p, jb) ELSE AllReject(p, jb)
  <2>1. /\ NoChange(jb) \/ (Open(p) /\ Settles(p, jb))
        /\ \/ all[p].rejected /\ all' = all /\ state'[p] = state[p]
           \/ /\ ~all[p].rejected /\ h.s = "fulfilled"
              /\ all' = [all EXCEPT ![p].remaining = @ - 1]
              /\ state'[p] = IF all[p].remaining - 1 <= 0 /\ Open(p) THEN "fulfilled" ELSE state[p]
           \/ /\ ~all[p].rejected /\ h.s = "rejected"
              /\ all' = [all EXCEPT ![p].rejected = TRUE]
              /\ state'[p] = IF Open(p) THEN "rejected" ELSE state[p]
    <3>1. \A s : Settle(p, s, Plain, jb) => state'[p] = s
      BY <1>7 DEF Settle, PromiseInv, TypeData
    <3>2. \A s \in Settled : Settle(p, s, Plain, jb) => Settles(p, jb)
      BY ValueFacts DEF Settles
    <3>3. NoChange(jb) => state'[p] = state[p]
      BY DEF NoChange
    <3>4. "fulfilled" \in Settled /\ "rejected" \in Settled
      BY DEF Settled
    <3>5. CASE h.s = "fulfilled"
      <4>1. AllFulfill(p, jb)
        BY <1>16, <3>5
      <4>2. QED
        BY <3>1, <3>2, <3>3, <3>4, <3>5, <4>1 DEF AllFulfill
    <3>6. CASE h.s = "rejected"
      <4>1. AllReject(p, jb)
        BY <1>16, <3>6
      <4>2. QED
        BY <3>1, <3>2, <3>3, <3>4, <3>6, <4>1 DEF AllReject, RejectWith
    <3>7. QED
      BY <1>4, <3>5, <3>6 DEF Settled
  <2>2. DataStep(p, jb) /\ (Open(p) \/ state' = state)
    BY <1>7, <2>1 DEF DataStep, NoChange
  <2>3. reaction' = reaction
    BY <2>1, <1>7, SettlesFacts DEF NoChange
  <2>4. StackStep(p)
    BY <1>16, StackKept, StackCut
  <2>5. StepOf(p, jb)
    BY <1>3, <1>8, <1>16, <2>2, <2>3, <2>4 DEF StepOf, CallStep, StackStep, Withheld
  <2>6. all' \in [Promises -> AllType] /\ AllOwned' /\ AllCounted'
    BY <1>1, <1>3, <1>9, <1>16, <2>1, <2>3, <2>5, AllReported
  <2>7. PromiseInv'
    BY <2>5, <2>6, StepKeeps
  <2>8. FinalStep
    BY <2>2, StepFinal
  <2>9. QED
    BY <2>7, <2>8 DEF Kept
<1>17. QED
  BY <1>1, <1>2, <1>6, <1>12, <1>13, <1>14, <1>15, <1>16 DEF RunJob

(* The innermost call returns. *)
LEMMA ReturnKeeps ==
  ASSUME PromiseInv, NEW x \in Values, Return(x)
  PROVE  Kept
<1>1. InJS /\ bare' = bare /\ all' = all /\ ran' = ran
  BY DEF Return
<1>2. PICK p, n : p = Top.on /\ n = Len(stack)
  OBVIOUS
<1>3. /\ SubStack(Below) /\ Top \in FrameType /\ Known(Top.v) /\ Top.v \in AnyValue
      /\ n \in DOMAIN stack /\ stack[n].on = p
  BY <1>1, <1>2, BelowFacts DEF FrameType
<1>4. Top.kind # "script" => p \in Promises
  BY <1>1, <1>2, BelowFacts DEF Made
<1>5. Quiet(jobs) /\ ~Runs(jobs)
  BY <1>1, QuietStep
<1>6. Owner(p, jobs)
  BY <1>3, <1>5 DEF Owner
<1>7. CASE NoChange(jobs) /\ stack' = Below /\ held' = held
  <2>1. DataStep(p, jobs) /\ state' = state /\ reaction' = reaction
    BY <1>7 DEF DataStep, NoChange
  <2>2. StackStep(p)
    BY <1>3, <1>7, StackCut
  <2>3. StepOf(p, jobs) /\ NoNewAll
    BY <1>1, <1>6, <1>7, <2>1, <2>2 DEF StepOf, CallStep, StackStep, Withheld, NoNewAll
  <2>4. QED
    BY <1>1, <1>5, <2>1, <2>3, PlainStep
<1>8. ASSUME NEW v \in AnyValue, Known(v), p \in Promises, ResolveWith(p, v, jobs, Below)
      PROVE  Kept
  <2>1. StepOf(p, jobs) /\ NoNewAll /\ (Open(p) \/ state' = state)
    BY <1>1, <1>3, <1>6, <1>8, ResolveStep
  <2>2. QED
    BY <1>1, <1>5, <2>1, PlainStep
<1>9. CASE p \in Promises /\ RejectWith(p, jobs) /\ stack' = Below /\ held' = held
  <2>1. StepOf(p, jobs) /\ NoNewAll /\ (Open(p) \/ state' = state)
    BY <1>1, <1>3, <1>6, <1>9, RejectStep
  <2>2. QED
    BY <1>1, <1>5, <2>1, PlainStep
<1>10. x \in AnyValue /\ Known(x)
  BY ValueFacts
<1>11. QED
  BY <1>2, <1>3, <1>4, <1>7, <1>8, <1>9, <1>10 DEF Return

(* The innermost call throws, a thenable even after it called resolve. *)
LEMMA ThrowKeeps ==
  ASSUME PromiseInv, NEW x \in Values, Throw(x)
  PROVE  Kept
<1>1. InJS /\ bare' = bare /\ all' = all /\ ran' = ran
  BY DEF Throw
<1>2. PICK p, n : p = Top.on /\ n = Len(stack)
  OBVIOUS
<1>3. /\ SubStack(Below) /\ Top \in FrameType /\ n \in DOMAIN stack /\ stack[n].on = p
  BY <1>1, <1>2, BelowFacts
<1>4. Top.kind # "script" => p \in Promises
  BY <1>1, <1>2, BelowFacts DEF Made
<1>5. Quiet(jobs) /\ ~Runs(jobs)
  BY <1>1, QuietStep
<1>6. Owner(p, jobs)
  BY <1>3, <1>5 DEF Owner
<1>7. CASE NoChange(jobs) /\ stack' = Below /\ held' = held
  <2>1. DataStep(p, jobs) /\ state' = state /\ reaction' = reaction
    BY <1>7 DEF DataStep, NoChange
  <2>2. StackStep(p)
    BY <1>3, <1>7, StackCut
  <2>3. StepOf(p, jobs) /\ NoNewAll
    BY <1>1, <1>6, <1>7, <2>1, <2>2 DEF StepOf, CallStep, StackStep, Withheld, NoNewAll
  <2>4. QED
    BY <1>1, <1>5, <2>1, <2>3, PlainStep
<1>8. x \in AnyValue /\ Known(x)
  BY ValueFacts
<1>9. CASE p \in Promises /\ ResolveWith(p, x, jobs, Below)
  <2>1. StepOf(p, jobs) /\ NoNewAll /\ (Open(p) \/ state' = state)
    BY <1>1, <1>3, <1>6, <1>8, <1>9, ResolveStep
  <2>2. QED
    BY <1>1, <1>5, <2>1, PlainStep
<1>10. CASE p \in Promises /\ RejectWith(p, jobs) /\ stack' = Below /\ held' = held
  <2>1. StepOf(p, jobs) /\ NoNewAll /\ (Open(p) \/ state' = state)
    BY <1>1, <1>3, <1>6, <1>10, RejectStep
  <2>2. QED
    BY <1>1, <1>5, <2>1, PlainStep
<1>11. CASE /\ p \in Promises /\ Top.kind = "thenable" /\ Settle(p, "rejected", Plain, jobs)
            /\ stack' = Below /\ held' = held
  <2>1. Settles(p, jobs)
    BY <1>11, ValueFacts DEF Settles, Settled
  <2>2. StepOf(p, jobs) /\ NoNewAll
    BY <1>1, <1>3, <1>6, <1>11, <2>1, SettleStep
  <2>3. PromiseInv'
    BY <1>1, <1>5, <2>2, PlainKeeps
  <2>4. state' = [state EXCEPT ![p] = "rejected"] /\ state \in [Promises -> States]
    BY <1>11 DEF Settle, PromiseInv, TypeData
  <2>5. ThenableThrew(p)
    BY <1>1, <1>2, <1>11 DEF ThenableThrew, InJS
  <2>6. FinalStep
    BY <1>11, <2>4, <2>5 DEF FinalStep
  <2>7. QED
    BY <2>3, <2>6 DEF Kept
<1>12. QED
  BY <1>2, <1>4, <1>7, <1>9, <1>10, <1>11 DEF Throw

-----------------------------------------------------------------------------
(* The invariant                                                           *)

(* The invariant holds before the first script. *)
LEMMA InitHolds ==
  ASSUME Init
  PROVE  PromiseInv
<1>1. /\ state = [p \in Promises |-> "none"] /\ result = [p \in Promises |-> Plain]
      /\ held = {} /\ bare = {} /\ reactions = [p \in Promises |-> <<>>]
      /\ reaction = <<>> /\ jobs = <<>> /\ stack = <<>> /\ ran = <<>>
      /\ all = [p \in Promises |-> NoAll]
  BY DEF Init
<1>2. DOMAIN reaction = {} /\ DOMAIN jobs = {} /\ DOMAIN stack = {} /\ DOMAIN ran = {}
  BY <1>1
<1>3. NoAll \in AllType /\ NoAll.items = <<>>
  BY DEF NoAll, AllType
<1>4. TypeData
  BY <1>1, <1>3, ValueFacts DEF TypeData, States
<1>5. TypeRun
  BY <1>1, PromiseAssumption DEF TypeRun
<1>6. MadeKept
  BY <1>1, <1>2, ValueFacts DEF MadeKept
<1>7. DOMAIN Log = {}
  BY <1>1 DEF Log, LogOf
<1>8. LogKept /\ NoneMissing /\ DerivedKept
  BY <1>2, <1>7 DEF LogKept, NoneMissing, DerivedKept
<1>9. StoredKept
  BY <1>1 DEF StoredKept
<1>10. AllOwned /\ AllCounted
  BY <1>1, <1>2, <1>3 DEF AllOwned, AllCounted
<1>11. QED
  BY <1>4, <1>5, <1>6, <1>8, <1>9, <1>10 DEF PromiseInv

(* Nothing happens. *)
LEMMA StutterKeeps ==
  ASSUME PromiseInv, UNCHANGED vars
  PROVE  Kept
<1>1. UNCHANGED <<state, result, held, bare, reactions, reaction, jobs, stack, all, ran>>
  BY DEF vars
<1>2. Quiet(jobs) /\ ~Runs(jobs)
  BY <1>1, QuietStep
<1>3. Owner(NoPromise, jobs) /\ DataStep(NoPromise, jobs)
  BY <1>1, <1>2 DEF Owner, DataStep, NoChange
<1>4. StackStep(NoPromise)
  BY <1>1, StackKept, StackCut
<1>5. StepOf(NoPromise, jobs) /\ NoNewAll
  BY <1>1, <1>3, <1>4 DEF StepOf, CallStep, StackStep, Withheld, NoNewAll
<1>6. QED
  BY <1>1, <1>2, <1>5, PlainStep

(* Every step keeps the invariant and the settled states. *)
LEMMA NextKeeps ==
  ASSUME PromiseInv, [Next]_vars
  PROVE  Kept
<1>1. CASE UNCHANGED vars
  BY <1>1, StutterKeeps
<1>2. CASE Call
  BY <1>2, CallKeeps
<1>3. CASE NewPromise
  BY <1>3, NewPromiseKeeps
<1>4. CASE AsyncThrow
  <2>1. /\ Room /\ RejectWith(Fresh, jobs) /\ bare' \subseteq bare \cup {Fresh}
        /\ UNCHANGED <<held, stack, all, ran>>
    BY <1>4 DEF AsyncThrow
  <2>2. QED
    BY <2>1, RejectNew
<1>5. CASE RaceNone
  BY <1>5, RaceNoneKeeps
<1>6. CASE AllSettled
  <2>1. /\ Room /\ Settle(Fresh, "fulfilled", Plain, jobs) /\ bare' \subseteq bare \cup {Fresh}
        /\ UNCHANGED <<held, stack, all, ran>>
    BY <1>6 DEF AllSettled, BareRoom
  <2>2. QED
    BY <2>1, ValueFacts, SettleNew DEF Settled
<1>7. CASE LoopJob \/ AwaitJob
  BY <1>7, RunJobKeeps DEF LoopJob, AwaitJob
<1>8. ASSUME NEW x \in Values, AsyncReturn(x) \/ Race(x) PROVE Kept
  <2>1. /\ Room /\ ResolveWith(Fresh, x, jobs, stack) /\ bare' \subseteq bare \cup {Fresh}
        /\ UNCHANGED <<all, ran>>
    BY <1>8 DEF AsyncReturn, Race, BareRoom
  <2>2. QED
    BY <2>1, ValueFacts, ResolveNew
<1>9. ASSUME NEW x \in Values, Return(x) PROVE Kept
  BY <1>9, ReturnKeeps
<1>10. ASSUME NEW x \in Values, Throw(x) PROVE Kept
  BY <1>10, ThrowKeeps
<1>11. ASSUME NEW p \in held, Reject(p) PROVE Kept
  BY <1>11, RejectKeeps
<1>12. ASSUME NEW p \in held, NEW x \in Values, Resolve(p, x) PROVE Kept
  BY <1>12, ResolveKeeps
<1>13. ASSUME NEW s \in Settled, NEW x \in {Plain, Thenable}, NewSettled(s, x) PROVE Kept
  <2>1. /\ Room /\ Settle(Fresh, s, x, jobs) /\ bare' \subseteq bare \cup {Fresh}
        /\ UNCHANGED <<held, stack, all, ran>>
    BY <1>13 DEF NewSettled
  <2>2. x \in AnyValue /\ Known(x)
    BY ValueFacts
  <2>3. QED
    BY <2>1, <2>2, SettleNew
<1>14. ASSUME NEW p \in Named, Finally(p) PROVE Kept
  <2>1. /\ Room /\ Attach(<<p>>, "finally", TRUE, TRUE, Fresh, jobs)
        /\ UNCHANGED <<held, bare, stack, all, ran>>
    BY <1>14 DEF Finally
  <2>2. QED
    BY <2>1, DeriveKeeps
<1>15. ASSUME NEW p \in Named, NEW f \in BOOLEAN, Then(p, f, ~f) PROVE Kept
  <2>1. CASE f = TRUE
    <3>1. /\ Room /\ Attach(<<p>>, "then", TRUE, FALSE, Fresh, jobs)
          /\ UNCHANGED <<held, bare, stack, all, ran>>
      BY <1>15, <2>1 DEF Then
    <3>2. QED
      BY <3>1, DeriveKeeps
  <2>2. CASE f = FALSE
    <3>1. /\ Room /\ Attach(<<p>>, "then", FALSE, TRUE, Fresh, jobs)
          /\ UNCHANGED <<held, bare, stack, all, ran>>
      BY <1>15, <2>2 DEF Then
    <3>2. QED
      BY <3>1, DeriveKeeps
  <2>3. QED
    BY <2>1, <2>2
<1>16. ASSUME NEW items \in Arrays(Named), All(items) PROVE Kept
  BY <1>16, AllKeepsInv
<1>17. ASSUME NEW items \in Arrays(Values), AnyOf(items) PROVE Kept
  BY <1>17, AnyOfKeeps
<1>18. QED
  BY <1>1, <1>2, <1>3, <1>4, <1>5, <1>6, <1>7, <1>8, <1>9, <1>10, <1>11, <1>12, <1>13, <1>14,
     <1>15, <1>16, <1>17 DEF Next

-----------------------------------------------------------------------------
(* What the invariant says of the reactions                                *)

(* The log holds what was run, then what is queued. *)
LEMMA LogEntries ==
  ASSUME PromiseInv, NEW k \in Nat, k = Len(ran), NEW n \in Nat, n = Len(jobs)
  PROVE  /\ DOMAIN ran = 1 .. k /\ DOMAIN jobs = 1 .. n /\ DOMAIN Log = 1 .. k + n
         /\ \A i \in 1 .. k : Log[i] = ran[i].id
         /\ \A i \in 1 .. n : Log[k + i] = jobs[i].id
<1>1. DOMAIN ran = 1 .. k /\ DOMAIN jobs = 1 .. n
  BY DEF PromiseInv, TypeRun
<1>2. /\ DOMAIN Log = 1 .. k + n
      /\ \A i \in 1 .. k + n : Log[i] = IF i <= k THEN ran[i].id ELSE jobs[i - k].id
  BY DEF Log, LogOf
<1>3. \A i \in 1 .. k : i \in 1 .. k + n /\ i <= k
  OBVIOUS
<1>4. ASSUME NEW i \in 1 .. n PROVE Log[k + i] = jobs[i].id
  <2>1. k + i \in 1 .. k + n /\ ~(k + i <= k) /\ (k + i) - k = i
    OBVIOUS
  <2>2. Log[k + i] = jobs[(k + i) - k].id
    BY <1>2, <2>1
  <2>3. QED
    BY <2>1, <2>2
<1>5. QED
  BY <1>1, <1>2, <1>3, <1>4

(* A reaction in the log is there once, and no longer with its promise. *)
LEMMA LoggedOnce ==
  ASSUME PromiseInv, NEW i \in DOMAIN Log
  PROVE  /\ \A j \in DOMAIN Log : Log[j] = Log[i] => j = i
         /\ \A m \in DOMAIN reactions[reaction[Log[i]].from] :
              reactions[reaction[Log[i]].from][m] # Log[i]
<1>1. PICK n \in Nat : DOMAIN reaction = 1 .. n
  BY DEF PromiseInv, TypeData
<1>2. PICK c \in Nat : DOMAIN Log = 1 .. c
  <2>1. Len(ran) \in Nat /\ Len(jobs) \in Nat
    BY DEF PromiseInv, TypeRun
  <2>2. QED
    BY <2>1 DEF Log, LogOf
<1>3. \A j \in DOMAIN Log : Log[j] \in 1 .. n /\ state[reaction[Log[j]].from] \in Settled
  BY <1>1 DEF PromiseInv, LogKept
<1>4. \A j, l \in DOMAIN Log :
        j < l /\ reaction[Log[j]].from = reaction[Log[l]].from => Log[j] < Log[l]
  BY DEF PromiseInv, LogKept
<1>5. ASSUME NEW j \in DOMAIN Log, Log[j] = Log[i], j # i PROVE FALSE
  <2>1. j < i \/ i < j
    BY <1>2, <1>5
  <2>2. Log[j] < Log[i] \/ Log[i] < Log[j]
    BY <1>4, <1>5, <2>1
  <2>3. QED
    BY <1>3, <1>5, <2>2
<1>6. ASSUME NEW m \in DOMAIN reactions[reaction[Log[i]].from] PROVE FALSE
  <2>1. PICK p : p = reaction[Log[i]].from
    OBVIOUS
  <2>2. p \in Promises
    <3>1. reaction[Log[i]] \in RxType
      BY <1>1, <1>3 DEF PromiseInv, TypeData
    <3>2. QED
      BY <2>1, <3>1 DEF RxType
  <2>3. reactions[p] # <<>>
    BY <1>6, <2>1
  <2>4. state[p] = "pending"
    BY <2>2, <2>3 DEF PromiseInv, StoredKept
  <2>5. QED
    BY <1>3, <2>1, <2>4 DEF Settled
<1>7. QED
  BY <1>5, <1>6

(* A reaction has one place: the log lists each once, and what is stored   *)
(* waits on a pending promise, what is logged belongs to a settled one.    *)
LEMMA NoneLost ==
  ASSUME PromiseInv
  PROVE  NoReactionLost
<1>1. PICK k \in Nat, n \in Nat : k = Len(ran) /\ n = Len(jobs)
  BY DEF PromiseInv, TypeRun
<1>2. /\ DOMAIN ran = 1 .. k /\ DOMAIN jobs = 1 .. n /\ DOMAIN Log = 1 .. k + n
      /\ \A i \in 1 .. k : Log[i] = ran[i].id
      /\ \A i \in 1 .. n : Log[k + i] = jobs[i].id
  BY <1>1, LogEntries
<1>3. ASSUME NEW id \in DOMAIN reaction PROVE \E w \in Places(id) : Places(id) = {w}
  <2>1. PICK p, list : p = reaction[id].from /\ list = reactions[p]
    OBVIOUS
  <2>2. p \in Promises
    BY <1>3, <2>1 DEF PromiseInv, MadeKept, Made
  <2> DEFINE A == {j \in DOMAIN list : list[j] = id}
             B == {j \in DOMAIN jobs : jobs[j].id = id}
             C == {j \in DOMAIN ran : ran[j].id = id}
  <2>3. Places(id) = {<<"stored", i>> : i \in A} \cup {<<"queued", i>> : i \in B}
                     \cup {<<"run", i>> : i \in C}
    BY <2>1 DEF Places
  <2>4. ASSUME NEW i \in 1 .. k + n, Log[i] = id
        PROVE  /\ A = {}
               /\ \A j \in B : k + j = i
               /\ \A j \in C : j = i
    <3>1. /\ \A j \in 1 .. k + n : Log[j] = id => j = i
          /\ \A m \in DOMAIN list : list[m] # id
      BY <1>2, <2>1, <2>4, LoggedOnce
    <3>2. \A j \in 1 .. k : j \in 1 .. k + n
      BY <1>1
    <3>3. \A j \in 1 .. n : k + j \in 1 .. k + n
      BY <1>1
    <3>4. QED
      BY <1>2, <3>1, <3>2, <3>3
  <2>5. CASE \E i \in 1 .. k : Log[i] = id
    <3>1. PICK i \in 1 .. k : Log[i] = id
      BY <2>5
    <3>2. i \in 1 .. k + n /\ \A j \in 1 .. n : k + j # i
      BY <1>1, <3>1
    <3>3. A = {} /\ B = {}
      BY <1>2, <2>4, <3>1, <3>2
    <3>4. i \in C /\ \A j \in C : j = i
      BY <1>2, <2>4, <3>1, <3>2
    <3>5. C = {i}
      BY <3>4
    <3> HIDE DEF A, B, C
    <3>6. Places(id) = {<<"run", i>>}
      BY <2>3, <3>3, <3>5, Zenon
    <3>7. QED
      BY <3>6, Zenon
  <2>6. CASE \E i \in 1 .. n : Log[k + i] = id
    <3>1. PICK i \in 1 .. n : Log[k + i] = id
      BY <2>6
    <3>2. k + i \in 1 .. k + n /\ \A j \in 1 .. k : j # k + i
      BY <1>1, <3>1
    <3>3. A = {} /\ C = {}
      BY <1>2, <2>4, <3>1, <3>2
    <3>4. i \in B /\ \A j \in B : k + j = k + i
      BY <1>2, <2>4, <3>1, <3>2
    <3>5. \A j \in B : j = i
      <4>1. \A j \in 1 .. n : k + j = k + i => j = i
        BY <1>1, <3>1
      <4>2. QED
        BY <1>2, <3>4, <4>1
    <3>6. B = {i}
      BY <3>4, <3>5
    <3> HIDE DEF A, B, C
    <3>7. Places(id) = {<<"queued", i>>}
      BY <2>3, <3>3, <3>6, Zenon
    <3>8. QED
      BY <3>7, Zenon
  <2>7. CASE ~\E i \in 1 .. k + n : Log[i] = id
    <3>1. PICK i \in DOMAIN list : list[i] = id
      BY <1>2, <1>3, <2>1, <2>7 DEF PromiseInv, NoneMissing
    <3>2. B = {} /\ C = {}
      <4>1. \A j \in 1 .. k : j \in 1 .. k + n
        BY <1>1
      <4>2. \A j \in 1 .. n : k + j \in 1 .. k + n
        BY <1>1
      <4>3. QED
        BY <1>2, <2>7, <4>1, <4>2
    <3>3. \A j \in A : j = i
      <4>1. PICK l \in Nat : DOMAIN list = 1 .. l /\ list \in Seq(Nat)
        BY <2>1, <2>2 DEF PromiseInv, TypeData
      <4>2. \A a, b \in DOMAIN list : a < b => list[a] < list[b]
        BY <2>1, <2>2 DEF PromiseInv, StoredKept
      <4>3. SUFFICES ASSUME NEW j \in A, j # i PROVE FALSE
        OBVIOUS
      <4>4. j \in 1 .. l /\ i \in 1 .. l /\ list[j] = id /\ list[i] = id /\ id \in Nat
        BY <3>1, <4>1, <4>3
      <4>5. j < i \/ i < j
        BY <4>3, <4>4
      <4>6. id < id
        BY <4>1, <4>2, <4>4, <4>5
      <4>7. QED
        BY <4>4, <4>6
    <3>4. A = {i}
      BY <3>1, <3>3
    <3> HIDE DEF A, B, C
    <3>5. Places(id) = {<<"stored", i>>}
      BY <2>3, <3>2, <3>4, Zenon
    <3>6. QED
      BY <3>5, Zenon
  <2>8. ASSUME NEW i \in 1 .. k + n PROVE i \in 1 .. k \/ \E j \in 1 .. n : i = k + j
    <3>1. i > k => i - k \in 1 .. n /\ i = k + (i - k)
      BY <1>1, <2>8
    <3>2. QED
      BY <1>1, <2>8, <3>1, SMTT(30)
  <2>9. QED
    BY <2>5, <2>6, <2>7, <2>8
<1>4. \A p \in Promises : reactions[p] # <<>> => state[p] = "pending"
  BY DEF PromiseInv, StoredKept
<1>5. QED
  BY <1>3, <1>4 DEF NoReactionLost

(* An earlier reaction of the same promise is in the log as well, before. *)
LEMMA RunInOrder ==
  ASSUME PromiseInv
  PROVE  ReactionsInOrder
<1>1. PICK k \in Nat, n \in Nat : k = Len(ran) /\ n = Len(jobs)
  BY DEF PromiseInv, TypeRun
<1>2. /\ DOMAIN ran = 1 .. k /\ DOMAIN jobs = 1 .. n /\ DOMAIN Log = 1 .. k + n
      /\ \A i \in 1 .. k : Log[i] = ran[i].id
  BY <1>1, LogEntries
<1>3. PICK m \in Nat : DOMAIN reaction = 1 .. m
  BY DEF PromiseInv, TypeData
<1>4. SUFFICES ASSUME NEW i \in 1 .. k, NEW id \in 1 .. ran[i].id - 1,
                      reaction[id].from = reaction[ran[i].id].from
               PROVE  \E j \in 1 .. i - 1 : ran[j].id = id
  BY <1>2 DEF ReactionsInOrder
<1>5. PICK p : p = reaction[id].from
  OBVIOUS
<1>6. i \in 1 .. k + n /\ Log[i] = ran[i].id
  BY <1>1, <1>2
<1>7. Log[i] \in 1 .. m /\ state[reaction[Log[i]].from] \in Settled
  BY <1>2, <1>3, <1>6 DEF PromiseInv, LogKept
<1>8. id \in 1 .. m /\ id < Log[i] /\ state[p] \in Settled
  <2>1. PICK h \in 1 .. m : h = ran[i].id
    BY <1>6, <1>7
  <2>2. id \in 1 .. m /\ id < h
    BY <1>3, <2>1
  <2>3. QED
    BY <1>4, <1>5, <1>6, <1>7, <2>1, <2>2
<1>9. p \in Promises
  BY <1>3, <1>5, <1>8 DEF PromiseInv, MadeKept, Made
<1>10. reactions[p] = <<>>
  BY <1>8, <1>9 DEF PromiseInv, StoredKept, Settled
<1>11. PICK j \in 1 .. k + n : Log[j] = id
  BY <1>2, <1>3, <1>5, <1>8, <1>10 DEF PromiseInv, NoneMissing
<1>12. j < i
  <2>1. SUFFICES ASSUME ~(j < i) PROVE FALSE
    OBVIOUS
  <2>2. i < j \/ i = j
    BY <1>1, <2>1
  <2>3. Log[i] < Log[j] \/ i = j
    BY <1>2, <1>4, <1>6, <1>11, <2>2 DEF PromiseInv, LogKept
  <2>4. QED
    BY <1>7, <1>8, <1>11, <2>3
<1>13. j \in 1 .. i - 1 /\ j \in 1 .. k
  BY <1>1, <1>11, <1>12
<1>14. QED
  BY <1>2, <1>11, <1>13

(* The invariant contains the types. *)
LEMMA TypesHold ==
  ASSUME PromiseInv
  PROVE  TypeOK
<1>1. /\ state \in [Promises -> States] /\ result \in [Promises -> AnyValue]
      /\ held \subseteq Made /\ bare \subseteq Made
  BY DEF PromiseInv, TypeData, MadeKept
<1>2. \A p \in Promises : \A i \in DOMAIN reactions[p] : reactions[p][i] \in DOMAIN reaction
  BY DEF PromiseInv, StoredKept
<1>3. \A id \in DOMAIN reaction :
        reaction[id].kind \in Kinds /\ reaction[id].from \in Made /\ reaction[id].to \in Made
  <2>1. \A id \in DOMAIN reaction : reaction[id] \in RxType
    BY DEF PromiseInv, TypeData
  <2>2. QED
    BY <2>1 DEF PromiseInv, MadeKept, RxType
<1>4. \A i \in DOMAIN jobs : jobs[i].id \in DOMAIN reaction /\ jobs[i].s \in Settled
  <2>1. PICK k \in Nat, n \in Nat : k = Len(ran) /\ n = Len(jobs)
    BY DEF PromiseInv, TypeRun
  <2>2. /\ DOMAIN jobs = 1 .. n /\ DOMAIN Log = 1 .. k + n
        /\ \A i \in 1 .. n : Log[k + i] = jobs[i].id
    BY <2>1, LogEntries
  <2>3. \A i \in 1 .. n : k + i \in 1 .. k + n
    BY <2>1
  <2>4. \A i \in 1 .. n : jobs[i].id \in DOMAIN reaction
    BY <2>2, <2>3 DEF PromiseInv, LogKept
  <2>5. \A i \in DOMAIN jobs : jobs[i] \in JobType
    BY DEF PromiseInv, TypeRun
  <2>6. QED
    BY <2>2, <2>4, <2>5 DEF JobType
<1>5. Len(stack) <= MaxDepth
  BY DEF PromiseInv, TypeRun
<1>6. \A i \in DOMAIN stack :
        stack[i].kind \in FrameKinds /\ stack[i].on \in Made \cup {NoPromise}
  <2>1. \A i \in DOMAIN stack : stack[i] \in FrameType
    BY DEF PromiseInv, TypeRun
  <2>2. QED
    BY <2>1 DEF PromiseInv, MadeKept, FrameType
<1>7. ASSUME NEW p \in Promises PROVE all[p].remaining \in 0 .. Len(all[p].items)
  <2>1. CASE all[p].items = <<>>
    <3>1. all[p] = NoAll
      BY <2>1 DEF PromiseInv, AllOwned
    <3>2. all[p].remaining = 0 /\ Len(all[p].items) = 0
      BY <2>1, <3>1 DEF NoAll
    <3>3. QED
      BY <3>2
  <2>2. CASE all[p].items # <<>>
    <3>1. all[p].remaining \in Int /\ all[p].items \in Seq(Promises)
      BY DEF PromiseInv, TypeData, AllType
    <3>2. Cardinality(Waiting(p)) \in Nat
      BY FiniteCounts, FS_CardinalityType
    <3>3. /\ all[p].remaining <= Len(all[p].items)
          /\ Cardinality(Waiting(p)) <= all[p].remaining
      BY <2>2 DEF PromiseInv, AllCounted, Counted
    <3>4. PICK c \in Nat, rem \in Int, len \in Nat :
            c = Cardinality(Waiting(p)) /\ rem = all[p].remaining /\ len = Len(all[p].items)
      BY <3>1, <3>2
    <3>5. rem \in 0 .. len
      BY <3>3, <3>4
    <3>6. QED
      BY <3>4, <3>5
  <2>3. QED
    BY <2>1, <2>2
<1>8. QED
  BY <1>1, <1>2, <1>3, <1>4, <1>5, <1>6, <1>7 DEF TypeOK

(* The invariant contains all that ReactionsSound says. *)
LEMMA SoundHolds ==
  ASSUME PromiseInv
  PROVE  ReactionsSound
<1>1. DerivedAfterReaction
  <2>1. SUFFICES ASSUME NEW id \in DOMAIN reaction, reaction[id].kind \in {"then", "finally"},
                        state[reaction[id].to] \in Settled
                 PROVE  Ran(id)
    BY DEF DerivedAfterReaction
  <2>2. ~Ran(id) => state[reaction[id].to] = "pending"
    BY <2>1 DEF PromiseInv, DerivedKept
  <2>3. QED
    BY <2>1, <2>2 DEF Settled
<1>2. QED
  BY <1>1, TypesHold, NoneLost, RunInOrder DEF ReactionsSound

(* The counter is zero when the promise is fulfilled, so all have          *)
(* reported.                                                               *)
LEMMA AllHolds ==
  ASSUME PromiseInv
  PROVE  AllSound
<1>1. SUFFICES ASSUME NEW r \in Promises, all[r].items # <<>>
               PROVE  /\ state[r] = "fulfilled" =>
                           Cardinality(Reports(r, "fulfilled")) = Len(all[r].items)
                      /\ state[r] = "rejected" => Reports(r, "rejected") # {}
  BY DEF AllSound
<1>2. Counted(r)
  BY <1>1 DEF PromiseInv, AllCounted
<1>3. PICK len \in Nat : len = Len(all[r].items)
  BY DEF PromiseInv, TypeData, AllType
<1>4. ASSUME state[r] = "fulfilled"
      PROVE  Cardinality(Reports(r, "fulfilled")) = Len(all[r].items)
  <2>1. ~all[r].rejected
    BY <1>2, <1>4 DEF Counted
  <2>2. all[r].remaining = 0
    BY <1>2, <1>4, <2>1 DEF Counted
  <2>3. Cardinality(Reports(r, "fulfilled")) = len - 0
    BY <1>2, <1>3, <2>1, <2>2 DEF Counted
  <2>4. QED
    BY <1>3, <2>3
<1>5. ASSUME state[r] = "rejected" PROVE Reports(r, "rejected") # {}
  BY <1>2, <1>5 DEF Counted
<1>6. QED
  BY <1>4, <1>5

-----------------------------------------------------------------------------
(* The theorems                                                            *)

(* PromiseInv holds in every state that a run of JavaScript can reach.     *)
THEOREM InvariantKept == Spec => []PromiseInv
<1>1. Init => PromiseInv
  BY InitHolds
<1>2. PromiseInv /\ [Next]_vars => PromiseInv'
  BY NextKeeps DEF Kept
<1>3. QED
  BY <1>1, <1>2, PTL DEF Spec

(* ReactionsSound (lr_promise_resolve_internal, lr_promise_then, the jobs  *)
(* of both outcomes): whatever JavaScript calls, however deep the calls    *)
(* nest and in whatever order promises are settled, each reaction is       *)
(* stored, queued or run once, the reactions of a promise are run in the   *)
(* order they were added, and a promise that then or finally derived is    *)
(* settled after its reaction was run.                                     *)
THEOREM ReactionsKept == Spec => []ReactionsSound
<1>1. PromiseInv => ReactionsSound
  BY SoundHolds
<1>2. QED
  BY <1>1, InvariantKept, PTL

(* AllSound (promise_all_fulfill, promise_all_reject): the promise of a    *)
(* Promise.all is fulfilled only after each item was reported fulfilled,   *)
(* and rejected only after one was reported rejected.                      *)
THEOREM AllKept == Spec => []AllSound
<1>1. PromiseInv => AllSound
  BY AllHolds
<1>2. QED
  BY <1>1, InvariantKept, PTL

(* SettledForGood: a settled promise keeps its state, except a fulfilled   *)
(* one whose thenable throws after it called resolve, which turns rejected *)
(* (the unguarded rejection in lr_promise_resolve_internal).               *)
THEOREM SettledKept == Spec => SettledForGood
<1> DEFINE Final == \A p \in Promises : state[p] \in Settled =>
                      state'[p] = state[p] \/ (state'[p] = "rejected" /\ ThenableThrew(p))
<1>1. PromiseInv /\ [Next]_vars => [Final]_vars
  BY NextKeeps DEF Kept, FinalStep
<1>2. QED
  BY <1>1, InvariantKept, PTL DEF Spec, SettledForGood
=============================================================================
