------------------------ MODULE LockFreeQueue_proofs ------------------------
(***************************************************************************)
(* Proofs about LockFreeQueue.  One invariant carries them all; it holds   *)
(* for any number of producers, provided that consumers do not overlap     *)
(* each other, as the header demands of its callers.                       *)
(***************************************************************************)
EXTENDS LockFreeQueue, SequenceTheorems, FiniteSetTheorems, FunctionTheorems,
        WellFoundedInduction, TLAPS

(* The header's "single consumer (or externally serialized)".  The modes   *)
(* other than "concurrent" serialize the consumers themselves.             *)
Tame == mode = "concurrent" => \A c, d \in Consumers : c = d

-----------------------------------------------------------------------------
(* The parts of the invariant.                                             *)

Ops == {"none", "push", "pop", "peek", "drain"}
Calls == [op : Ops, node : Items \cup {Null}, prev : Nodes \cup {Null},
          h : Nodes \cup {Null}, n : Items \cup {Null}, s : Stubs \cup {Null}]
ProducerPcs == {"idle", "cas", "load", "swing", "inc"}
ConsumerPcs == {"idle", "next", "nextnext", "advance", "sethead", "settail",
                "dec", "zero", "free"}

Types ==
  /\ mode \in {"concurrent", "exclusive", "drain", "reclaim"}
  /\ head \in Nodes \cup {Null} /\ tail \in Nodes \cup {Null}
  /\ next \in [Nodes -> Items \cup {Null}]
  /\ live \in SUBSET Stubs /\ freed \in SUBSET Nodes
  /\ pc \in [Threads -> ProducerPcs \cup ConsumerPcs]
  /\ \A p \in Producers : pc[p] \in ProducerPcs
  /\ \A c \in Consumers : pc[c] \in ConsumerPcs
  /\ reg \in [Threads -> Calls]
  /\ linked \in Seq(Items) /\ popped \in Seq(Items)
  /\ overlapped \in SUBSET Items

(* x was linked before y. *)
Before(x, y, lk) == \E i, j \in DOMAIN lk : i < j /\ lk[i] = x /\ lk[j] = y

(* The stubs that a consumer has allocated and not yet made q->tail, and   *)
(* the nodes that a push can have met as the tail.                         *)
SetsTail(c) == pc[c] \in {"sethead", "settail"}
Held == {reg[c].s : c \in {d \in Consumers : SetsTail(d)}}
Used == (InSeq(linked) \cup live) \ Held

(* A push works on a node of its own, which is linked once its CAS on next *)
(* succeeded and not before.                                               *)
PushAt(p) ==
  /\ Idle(p) => reg[p].node = Null /\ reg[p].prev = Null
  /\ ~Idle(p) => reg[p].node \in Items /\ reg[p].prev \in Used
  /\ pc[p] \in {"cas", "load"} => reg[p].node \notin InSeq(linked)
  /\ pc[p] \in {"swing", "inc"} => reg[p].node \in InSeq(linked)
  /\ pc[p] = "swing" => next[reg[p].prev] = reg[p].node
PushKept ==
  /\ \A i, j \in DOMAIN linked : linked[i] = linked[j] => i = j
  /\ \A p \in Producers : PushAt(p)
  /\ \A p, r \in Producers : reg[p].node = reg[r].node /\ reg[p].node # Null => p = r

(* next only leads to linked nodes, and forwards in the order of linking.  *)
NextKept ==
  /\ \A x \in Nodes : next[x] # Null => next[x] \in InSeq(linked)
                                        /\ x \in InSeq(linked) \cup live
  /\ \A x \in InSeq(linked) : next[x] # Null => Before(x, next[x], linked)

(* The tail lags behind the last node by one at most, and only while the   *)
(* push that linked that node has still to swing it.                       *)
TailLags ==
  next[tail] # Null =>
    /\ next[next[tail]] = Null
    /\ \A p \in Producers : reg[p].prev # next[tail]
    /\ \E p \in Producers : pc[p] = "swing" /\ reg[p].prev = tail
TailKept == ~Destroyed => tail \in Used /\ TailLags

Alone == \A c, d \in Consumers : ~Idle(c) /\ ~Idle(d) => c = d

(* What a consumer knows at each of its accesses. *)
AtNext(c) == pc[c] = "next" => reg[c].h = head
AtAdvance(c) ==
  /\ pc[c] \in {"nextnext", "advance"} =>
       reg[c].op = "pop" /\ reg[c].n = next[head] /\ reg[c].n # Null
  /\ pc[c] = "advance" => next[reg[c].n] # Null \/ AllocMayFail
AtSetHead(c) == pc[c] = "sethead" =>
  /\ reg[c].s \in live /\ next[reg[c].s] = Null /\ reg[c].s # head /\ reg[c].s \notin freed
  /\ reg[c].op \in {"pop", "drain"}
  /\ reg[c].op = "pop" => /\ reg[c].n = next[head] /\ reg[c].n # Null
                          /\ InSeq(Contents) \subseteq {reg[c].n} \cup overlapped
  /\ reg[c].op = "drain" => reg[c].h = head
AtSetTail(c) == pc[c] = "settail" =>
  /\ head = reg[c].s /\ reg[c].s \in live /\ next[reg[c].s] = Null
  /\ reg[c].op \in {"pop", "drain"}
  /\ Reclaims => tail = reg[c].n /\ reg[c].n \notin freed
AtFree(c) ==
  /\ pc[c] \in {"zero", "free"} => reg[c].op = "drain" /\ tail = head
  /\ pc[c] \in {"settail", "zero", "free"} /\ reg[c].op = "drain" =>
       /\ reg[c].h # head /\ reg[c].h \in InSeq(popped) \cup live /\ Contents = <<>>
ConsumerAt(c) ==
  /\ ~Idle(c) => reg[c].op \in ConsumerOps
  /\ AtNext(c) /\ AtAdvance(c) /\ AtSetHead(c) /\ AtSetTail(c) /\ AtFree(c)
ConsumerKept == Alone /\ \A c \in Consumers : ConsumerAt(c)

(* q is the list of nodes that next leads to from h on, in link order. *)
ChainNode(h, q, k) == IF k = 0 THEN h ELSE q[k]
IsChain(q, h, nx, lk) ==
  /\ q \in Seq(Items)
  /\ \A k \in 1 .. Len(q) : q[k] \in InSeq(lk)
  /\ \A i, j \in 1 .. Len(q) : i < j => Before(q[i], q[j], lk)
  /\ \A k \in 0 .. Len(q) :
       nx[ChainNode(h, q, k)] = IF k = Len(q) THEN Null ELSE q[k+1]

ChainKept == ~Destroyed =>
  /\ head \in InSeq(popped) \cup live
  /\ IsChain(Contents, head, next, linked)
  /\ next[head] # Null => \A x \in InSeq(popped) : Before(x, next[head], linked)
PoppedKept == InSeq(popped) \subseteq InSeq(linked) /\ PoppedInLinkOrder

DestroyedKept ==
  Destroyed => mode = "exclusive" /\ tail = Null /\ Pushing \cup Consuming = {}

(* Nothing that a push without overlap works on gets out of reach. *)
Reach == {head} \cup InSeq(Contents)
Settled == ~Destroyed /\ \A c \in Consumers : pc[c] # "settail"
OverlapKept == Consuming # {} => \A p \in Pushing : reg[p].node \in overlapped
TailReached == Settled => tail \in Reach \/ next[tail] \in Reach
PushReached == \A p \in Producers :
  pc[p] = "cas" /\ reg[p].node \notin overlapped /\ next[reg[p].prev] = Null
    => reg[p].prev \in Reach
LossKept == OverlapKept /\ LossNeedsOverlap /\ TailReached /\ PushReached

(* Without overlap at all, nothing is ever out of reach. *)
ExclusiveKept == Exclusive =>
  /\ overlapped = {}
  /\ Consuming # {} => Pushing = {}
  /\ ~Destroyed => linked = popped \o Contents
  /\ Settled => tail \in Reach

MemoryKept ==
  /\ freed \subseteq InSeq(popped) \cup live
  /\ AllocMayFail => freed = {}
  /\ Reclaims =>
       /\ freed \subseteq InSeq(popped)
       /\ Settled => tail \notin InSeq(popped)
       /\ \A p \in Producers : reg[p].prev \notin InSeq(popped)
  /\ mode = "drain" =>
       /\ ({head, tail} \cup InSeq(Contents)) \cap freed = {}
       /\ \A p \in Producers : reg[p].prev \notin freed

QInv ==
  /\ Types /\ PushKept /\ NextKept /\ TailKept /\ ConsumerKept /\ ChainKept
  /\ PoppedKept /\ DestroyedKept /\ LossKept /\ ExclusiveKept /\ MemoryKept

-----------------------------------------------------------------------------
(* Contents is the only list of nodes that next leads to from head on.     *)

(* A set of numbers that is not empty has a smallest one. *)
LEMMA LeastOf ==
  ASSUME NEW S \in SUBSET Nat, S # {}
  PROVE  \E x \in S : \A y \in S : x <= y
<1> DEFINE R == OpToRel(<, Nat)
<1>1. IsWellFoundedOn(R, Nat)
  BY NatLessThanWellFounded
<1>2. PICK x \in S : \A y \in S : ~(<<y, x>> \in R)
  BY <1>1, WFMin
<1>3. \A y \in S : ~(y < x)
  BY <1>2 DEF OpToRel
<1>4. QED
  BY <1>3

(* The functions NodeAt chooses from, for a list that starts at h. *)
Walk(f, h, nx, n) ==
  f = [k \in 0..n |-> IF k = 0 THEN h ELSE IF f[k-1] = Null THEN Null ELSE nx[f[k-1]]]
WalkOf(h, nx) == CHOOSE f : Walk(f, h, nx, Cardinality(Nodes))
ContentsOf(h, nx) ==
  [k \in 1..Cardinality({k \in 1..Cardinality(Nodes) : WalkOf(h, nx)[k] # Null})
     |-> WalkOf(h, nx)[k]]

LEMMA ContentsAre == Contents = ContentsOf(head, next)
<1>1. NodeAt = WalkOf(head, next)
  BY DEF NodeAt, WalkOf, Walk
<1>2. QED
  BY <1>1 DEF Contents, ContentsOf

LEMMA WalkUnique ==
  ASSUME NEW f, NEW g, NEW h, NEW nx, NEW n \in Nat,
         Walk(f, h, nx, n), Walk(g, h, nx, n)
  PROVE  f = g
<1> DEFINE Bad == {k \in 0..n : f[k] # g[k]}
<1>1. /\ f[0] = h /\ g[0] = h
      /\ \A k \in 1..n : f[k] = IF f[k-1] = Null THEN Null ELSE nx[f[k-1]]
      /\ \A k \in 1..n : g[k] = IF g[k-1] = Null THEN Null ELSE nx[g[k-1]]
  BY DEF Walk
<1>2. ASSUME Bad # {} PROVE FALSE
  <2>1. PICK b \in Bad : \A k \in Bad : b <= k
    <3>1. Bad \in SUBSET Nat
      OBVIOUS
    <3>2. QED
      BY <1>2, <3>1, LeastOf
  <2>2. b \in 1..n /\ b-1 \in 0..n
    BY <1>1, <2>1
  <2>3. f[b-1] = g[b-1]
    BY <2>1, <2>2
  <2>4. f[b] = g[b]
    BY <1>1, <2>2, <2>3
  <2>5. QED
    BY <2>1, <2>4
<1>3. \A k \in 0..n : f[k] = g[k]
  BY <1>2
<1>4. f = [k \in 0..n |-> f[k]] /\ g = [k \in 0..n |-> g[k]]
  BY DEF Walk
<1>5. QED
  BY <1>3, <1>4

LEMMA NodesFinite == IsFiniteSet(Nodes) /\ Cardinality(Nodes) \in Nat
  BY QueueAssumption, FS_Union, FS_CardinalityType DEF Nodes

(* What a list has to satisfy for Contents to be that list. *)
Leads(q, h, nx) ==
  /\ q \in Seq(Items)
  /\ \A i, j \in 1..Len(q) : q[i] = q[j] => i = j
  /\ \/ h = Null /\ q = <<>>
     \/ h # Null /\ \A k \in 0..Len(q) :
          nx[ChainNode(h, q, k)] = IF k = Len(q) THEN Null ELSE q[k+1]

LEMMA ContentsIs ==
  ASSUME NEW q, NEW h, NEW nx, Leads(q, h, nx)
  PROVE  ContentsOf(h, nx) = q
<1>1. PICK n \in Nat : n = Cardinality(Nodes)
  BY NodesFinite
<1>2. PICK l \in Nat : l = Len(q)
  BY DEF Leads
<1>3. l <= n
  <2>1. q \in Injection(1..l, Nodes)
    BY <1>2 DEF Leads, Injection, Nodes, IsInjective
  <2>2. Cardinality(1..l) <= Cardinality(Nodes)
    BY <2>1, NodesFinite, FS_Injection
  <2>3. Cardinality(1..l) = l
    BY FS_Interval
  <2>4. QED
    BY <1>1, <2>2, <2>3
<1> DEFINE f == [k \in 0..n |-> IF k = 0 THEN h ELSE IF k <= l THEN q[k] ELSE Null]
<1>4. \A k \in 1..l : q[k] # Null
  BY <1>2, QueueAssumption DEF Leads
<1>5. Walk(f, h, nx, n)
  <2>1. ASSUME NEW k \in 0..n
        PROVE  f[k] = IF k = 0 THEN h ELSE IF f[k-1] = Null THEN Null ELSE nx[f[k-1]]
    <3>1. CASE k = 0
      BY <3>1
    <3>2. CASE k # 0 /\ f[k-1] = Null
      <4>1. k-1 \in 0..n /\ (k-1 = 0 \/ k-1 > l)
        BY <1>4, <3>2
      <4>2. QED
        BY <1>2, <1>4, <3>2, <4>1 DEF Leads
    <3>3. CASE k # 0 /\ f[k-1] # Null
      <4>1. k-1 \in 0..l
        BY <3>3
      <4>2. f[k-1] = ChainNode(h, q, k-1)
        BY <4>1 DEF ChainNode
      <4>3. h # Null
        BY <1>2, <3>3, <4>1 DEF Leads
      <4>4. nx[f[k-1]] = IF k-1 = l THEN Null ELSE q[k-1+1]
        BY <1>2, <4>1, <4>2, <4>3 DEF Leads
      <4>5. QED
        BY <3>3, <4>1, <4>4
    <3>4. QED
      BY <3>1, <3>2, <3>3
  <2>2. f = [k \in 0..n |-> f[k]]
    OBVIOUS
  <2> HIDE DEF f
  <2>3. QED
    BY <2>1, <2>2 DEF Walk
<1> HIDE DEF f
<1>6. WalkOf(h, nx) = f
  <2>1. Walk(WalkOf(h, nx), h, nx, n)
    BY <1>1, <1>5 DEF WalkOf
  <2>2. QED
    BY <1>5, <2>1, WalkUnique
<1>7. \A k \in 1..n : f[k] = IF k <= l THEN q[k] ELSE Null
  BY DEF f
<1>8. {k \in 1..n : f[k] # Null} = 1..l
  BY <1>3, <1>4, <1>7
<1>9. Cardinality(1..l) = l
  BY FS_Interval
<1>10. ContentsOf(h, nx) = [k \in 1..l |-> f[k]]
  BY <1>1, <1>6, <1>8, <1>9 DEF ContentsOf
<1>11. q = [k \in 1..l |-> q[k]]
  BY <1>2 DEF Leads
<1>12. QED
  BY <1>3, <1>7, <1>10, <1>11

-----------------------------------------------------------------------------
(* The order of linking, and lists that follow it.                         *)

Once(lk) == lk \in Seq(Items) /\ \A i, j \in DOMAIN lk : lk[i] = lk[j] => i = j

LEMMA InAppend ==
  ASSUME NEW S, NEW s \in Seq(S), NEW x
  PROVE  InSeq(Append(s, x)) = InSeq(s) \cup {x}
<1>1. PICK l \in Nat : l = Len(s)
  OBVIOUS
<1>2. DOMAIN s = 1..l /\ DOMAIN Append(s, x) = 1..(l+1)
  BY <1>1
<1>3. \A k \in 1..l : Append(s, x)[k] = s[k]
  BY <1>1
<1>4. Append(s, x)[l+1] = x
  BY <1>1
<1>5. QED
  BY <1>2, <1>3, <1>4 DEF InSeq

LEMMA InConcat ==
  ASSUME NEW S, NEW s \in Seq(S), NEW t \in Seq(S)
  PROVE  InSeq(s \o t) = InSeq(s) \cup InSeq(t)
<1>1. PICK l \in Nat : l = Len(s)
  OBVIOUS
<1>2. PICK m \in Nat : m = Len(t)
  OBVIOUS
<1>3. PICK c \in Seq(S) : c = s \o t
  BY ConcatProperties
<1>4. DOMAIN s = 1..l /\ DOMAIN t = 1..m /\ DOMAIN c = 1..(l+m)
  BY <1>1, <1>2, <1>3
<1>5. \A k \in 1..(l+m) : c[k] = IF k <= l THEN s[k] ELSE t[k-l]
  BY <1>1, <1>2, <1>3
<1>6. \A k \in 1..l : k \in 1..(l+m) /\ c[k] = s[k]
  BY <1>5
<1>7. ASSUME NEW k \in 1..m
      PROVE  k+l \in 1..(l+m) /\ c[k+l] = t[k]
  <2>1. k+l \in 1..(l+m) /\ ~(k+l <= l) /\ (k+l)-l = k
    OBVIOUS
  <2>2. QED
    BY <1>5, <2>1
<1>8. \A k \in 1..(l+m) : (k \in 1..l /\ c[k] = s[k]) \/ (k-l \in 1..m /\ c[k] = t[k-l])
  BY <1>5
<1>9. InSeq(c) \subseteq InSeq(s) \cup InSeq(t)
  BY <1>4, <1>8 DEF InSeq
<1>10. InSeq(s) \subseteq InSeq(c)
  BY <1>4, <1>6 DEF InSeq
<1>11. InSeq(t) \subseteq InSeq(c)
  BY <1>4, <1>7 DEF InSeq
<1>12. QED
  BY <1>3, <1>9, <1>10, <1>11

LEMMA BeforeIn ==
  ASSUME NEW x, NEW y, NEW lk, Before(x, y, lk)
  PROVE  x \in InSeq(lk) /\ y \in InSeq(lk)
  BY DEF Before, InSeq

LEMMA BeforeGrow ==
  ASSUME NEW lk \in Seq(Items), NEW n, NEW x, NEW y, Before(x, y, lk)
  PROVE  Before(x, y, Append(lk, n))
<1>1. PICK i, j \in DOMAIN lk : i < j /\ lk[i] = x /\ lk[j] = y
  BY DEF Before
<1>2. /\ i \in DOMAIN Append(lk, n) /\ j \in DOMAIN Append(lk, n)
      /\ Append(lk, n)[i] = x /\ Append(lk, n)[j] = y
  BY <1>1
<1>3. QED
  BY <1>1, <1>2 DEF Before

LEMMA BeforeLast ==
  ASSUME NEW lk \in Seq(Items), NEW n, NEW x \in InSeq(lk)
  PROVE  Before(x, n, Append(lk, n))
<1>1. PICK i \in DOMAIN lk : lk[i] = x
  BY DEF InSeq
<1>2. PICK l \in Nat : l = Len(lk)
  OBVIOUS
<1>3. /\ i \in DOMAIN Append(lk, n) /\ l+1 \in DOMAIN Append(lk, n) /\ i < l+1
      /\ Append(lk, n)[i] = x /\ Append(lk, n)[l+1] = n
  BY <1>1, <1>2
<1>4. QED
  BY <1>3 DEF Before

LEMMA BeforeTrans ==
  ASSUME NEW lk, Once(lk), NEW x, NEW y, NEW z, Before(x, y, lk), Before(y, z, lk)
  PROVE  Before(x, z, lk)
<1>1. PICK i, j \in DOMAIN lk : i < j /\ lk[i] = x /\ lk[j] = y
  BY DEF Before
<1>2. PICK k, l \in DOMAIN lk : k < l /\ lk[k] = y /\ lk[l] = z
  BY DEF Before
<1>3. j = k
  BY <1>1, <1>2 DEF Once
<1>4. i \in Nat /\ j \in Nat /\ l \in Nat
  BY <1>1, <1>2 DEF Once
<1>5. i < l
  BY <1>1, <1>2, <1>3, <1>4
<1>6. QED
  BY <1>1, <1>2, <1>5 DEF Before

LEMMA BeforeNot ==
  ASSUME NEW lk, Once(lk), NEW x
  PROVE  ~Before(x, x, lk)
<1>1. \A i, j \in DOMAIN lk : i \in Nat /\ j \in Nat
  BY DEF Once
<1>2. QED
  BY <1>1 DEF Before, Once

LEMMA OnceGrow ==
  ASSUME NEW lk, Once(lk), NEW n \in Items, n \notin InSeq(lk)
  PROVE  Once(Append(lk, n))
<1>1. PICK l \in Nat : l = Len(lk)
  BY DEF Once
<1>2. /\ DOMAIN lk = 1..l /\ DOMAIN Append(lk, n) = 1..(l+1) /\ Append(lk, n) \in Seq(Items)
      /\ \A k \in 1..l : Append(lk, n)[k] = lk[k] /\ lk[k] # n
      /\ Append(lk, n)[l+1] = n
  BY <1>1 DEF Once, InSeq
<1>3. \A k \in 1..(l+1) : k \in 1..l \/ k = l+1
  OBVIOUS
<1>4. QED
  BY <1>2, <1>3 DEF Once

LEMMA ChainIs ==
  ASSUME NEW q, NEW h, NEW nx, NEW lk, Once(lk), h # Null, IsChain(q, h, nx, lk)
  PROVE  ContentsOf(h, nx) = q
<1>1. ASSUME NEW i \in 1..Len(q), NEW j \in 1..Len(q), q[i] = q[j]
      PROVE  i = j
  <2>1. ~Before(q[i], q[j], lk) /\ ~Before(q[j], q[i], lk)
    BY <1>1, BeforeNot
  <2>2. ~(i < j) /\ ~(j < i) /\ i \in Int /\ j \in Int
    BY <2>1 DEF IsChain
  <2>3. QED
    BY <2>2
<1>2. QED
  BY <1>1, ContentsIs DEF Leads, IsChain

LEMMA ChainEmpty ==
  ASSUME NEW h, NEW nx, NEW lk, nx[h] = Null
  PROVE  IsChain(<<>>, h, nx, lk)
<1>1. <<>> \in Seq(Items) /\ Len(<<>>) = 0
  OBVIOUS
<1>2. \A k \in 0..0 : k = 0
  OBVIOUS
<1>3. QED
  BY <1>1, <1>2 DEF IsChain, ChainNode

LEMMA ChainFirst ==
  ASSUME NEW q, NEW h, NEW nx, NEW lk, IsChain(q, h, nx, lk)
  PROVE  nx[h] = IF q = <<>> THEN Null ELSE q[1]
<1>1. PICK l \in Nat : l = Len(q)
  BY DEF IsChain
<1>2. 0 \in 0..Len(q)
  BY <1>1
<1>3. q = <<>> <=> l = 0
  BY <1>1 DEF IsChain
<1>4. nx[ChainNode(h, q, 0)] = IF 0 = Len(q) THEN Null ELSE q[0+1]
  BY <1>2 DEF IsChain
<1>5. QED
  BY <1>1, <1>3, <1>4 DEF ChainNode

(* The nodes of a list: what follows one, and which one is the last. *)
LEMMA ChainReach ==
  ASSUME NEW q, NEW h, NEW nx, NEW lk, IsChain(q, h, nx, lk), NEW x \in {h} \cup InSeq(q)
  PROVE  /\ nx[x] = Null => x = ChainNode(h, q, Len(q))
         /\ nx[x] # Null => nx[x] \in InSeq(q)
<1>1. PICK l \in Nat : l = Len(q)
  BY DEF IsChain
<1>2. PICK k \in 0..l : x = ChainNode(h, q, k)
  <2>1. CASE x = h
    BY <2>1 DEF ChainNode
  <2>2. CASE x \in InSeq(q)
    <3>1. PICK i \in DOMAIN q : x = q[i]
      BY <2>2 DEF InSeq
    <3>2. i \in 0..l /\ i # 0
      BY <1>1, <3>1 DEF IsChain
    <3>3. QED
      BY <3>1, <3>2 DEF ChainNode
  <2>3. QED
    BY <2>1, <2>2
<1>3. nx[x] = IF k = l THEN Null ELSE q[k+1]
  BY <1>1, <1>2 DEF IsChain
<1>4. \A i \in 1..l : q[i] \in Items /\ q[i] # Null /\ q[i] \in InSeq(q)
  BY <1>1, QueueAssumption DEF IsChain, InSeq
<1>5. k # l => k+1 \in 1..l
  BY <1>2
<1>6. QED
  BY <1>1, <1>2, <1>3, <1>4, <1>5

(* A CAS on the next of x that links y: y ends the list if x is in it. *)
LEMMA ChainLink ==
  ASSUME NEW q, NEW h \in Nodes, NEW nx \in [Nodes -> Items \cup {Null}],
         NEW lk \in Seq(Items), IsChain(q, h, nx, lk),
         NEW x \in {h} \cup InSeq(q), x \in Nodes, nx[x] = Null,
         NEW y \in Items, y \notin InSeq(lk), nx[y] = Null, y # x
  PROVE  IsChain(Append(q, y), h, [nx EXCEPT ![x] = y], Append(lk, y))
<1>1. PICK l \in Nat : l = Len(q)
  BY DEF IsChain
<1>2. PICK r \in Seq(Items) : r = Append(q, y)
  <2>1. Append(q, y) \in Seq(Items)
    BY AppendProperties DEF IsChain
  <2>2. QED
    BY <2>1
<1>3. /\ Len(r) = l+1 /\ r[l+1] = y
      /\ \A k \in 1..l : r[k] = q[k]
  BY <1>1, <1>2 DEF IsChain
<1>4. \A k \in 1..l : q[k] \in InSeq(lk) /\ q[k] \in Nodes
  BY <1>1 DEF IsChain, Nodes
<1>5. PICK lk2 : lk2 = Append(lk, y)
  OBVIOUS
<1>6. \A k \in 1..(l+1) : r[k] \in InSeq(lk2)
  <2>1. \A k \in 1..l : r[k] \in InSeq(lk2)
    BY <1>3, <1>4, <1>5, InAppend
  <2>2. y \in InSeq(lk2)
    BY <1>5, InAppend
  <2>3. \A k \in 1..(l+1) : k \in 1..l \/ k = l+1
    OBVIOUS
  <2>4. QED
    BY <1>3, <2>1, <2>2, <2>3
<1>7. ASSUME NEW i \in 1..(l+1), NEW j \in 1..(l+1), i < j
      PROVE  Before(r[i], r[j], lk2)
  <2>1. i \in 1..l
    BY <1>7
  <2>2. CASE j \in 1..l
    <3>1. Before(q[i], q[j], lk)
      BY <1>1, <1>7, <2>1, <2>2 DEF IsChain
    <3>2. QED
      BY <1>3, <1>5, <2>1, <2>2, <3>1, BeforeGrow
  <2>3. CASE j = l+1
    BY <1>3, <1>4, <1>5, <2>1, <2>3, BeforeLast
  <2>4. QED
    BY <2>2, <2>3
<1>8. x = ChainNode(h, q, l)
  BY <1>1, ChainReach
<1>9. PICK nx2 : nx2 = [nx EXCEPT ![x] = y]
  OBVIOUS
<1>10. ASSUME NEW k \in 0..(l+1)
       PROVE  nx2[ChainNode(h, r, k)] = IF k = l+1 THEN Null ELSE r[k+1]
  <2>1. CASE k = l+1
    <3>1. ChainNode(h, r, k) = y /\ y \in Nodes
      BY <1>3, <2>1 DEF ChainNode, Nodes
    <3>2. QED
      BY <1>9, <2>1, <3>1
  <2>2. CASE k = l
    <3>1. ChainNode(h, r, k) = x
      BY <1>3, <1>8, <2>2 DEF ChainNode
    <3>2. QED
      BY <1>3, <1>9, <2>2, <3>1
  <2>3. CASE k \in 0..l /\ k # l
    <3>1. ChainNode(h, r, k) = ChainNode(h, q, k) /\ ChainNode(h, q, k) \in Nodes
      BY <1>3, <1>4, <2>3 DEF ChainNode
    <3>2. nx[ChainNode(h, q, k)] = q[k+1]
      BY <1>1, <2>3 DEF IsChain
    <3>3. q[k+1] # Null /\ r[k+1] = q[k+1]
      <4>1. k+1 \in 1..l
        BY <2>3
      <4>2. QED
        BY <1>1, <1>3, <4>1, QueueAssumption DEF IsChain
    <3>4. ChainNode(h, q, k) # x
      BY <3>2, <3>3
    <3>5. QED
      BY <1>9, <2>3, <3>1, <3>2, <3>3, <3>4
  <2>4. QED
    BY <2>1, <2>2, <2>3
<1>11. IsChain(r, h, nx2, lk2)
  BY <1>3, <1>6, <1>7, <1>10 DEF IsChain
<1>12. QED
  BY <1>2, <1>5, <1>9, <1>11

LEMMA ChainApart ==
  ASSUME NEW q, NEW h \in Nodes, NEW nx \in [Nodes -> Items \cup {Null}],
         NEW lk \in Seq(Items), IsChain(q, h, nx, lk),
         NEW x \in Nodes, x \notin {h} \cup InSeq(q), NEW y \in Items
  PROVE  IsChain(q, h, [nx EXCEPT ![x] = y], Append(lk, y))
<1>1. PICK l \in Nat : l = Len(q)
  BY DEF IsChain
<1>2. PICK lk2 : lk2 = Append(lk, y)
  OBVIOUS
<1>3. \A k \in 1..l : q[k] \in InSeq(lk2)
  BY <1>1, <1>2, InAppend DEF IsChain
<1>4. \A i, j \in 1..l : i < j => Before(q[i], q[j], lk2)
  BY <1>1, <1>2, BeforeGrow DEF IsChain
<1>5. PICK nx2 : nx2 = [nx EXCEPT ![x] = y]
  OBVIOUS
<1>6. ASSUME NEW k \in 0..l
      PROVE  nx2[ChainNode(h, q, k)] = nx[ChainNode(h, q, k)]
  <2>1. ChainNode(h, q, k) \in {h} \cup InSeq(q) /\ ChainNode(h, q, k) \in Nodes
    BY <1>1 DEF ChainNode, IsChain, InSeq, Nodes
  <2>2. QED
    BY <1>5, <2>1
<1>7. IsChain(q, h, nx2, lk2)
  BY <1>1, <1>3, <1>4, <1>6 DEF IsChain
<1>8. QED
  BY <1>2, <1>5, <1>7

(* The list after its first node. *)
LEMMA ChainTail ==
  ASSUME NEW q, NEW h, NEW nx, NEW lk, IsChain(q, h, nx, lk), q # <<>>
  PROVE  IsChain(Tail(q), q[1], nx, lk)
<1>1. PICK m \in Nat : Len(q) = m+1
  <2>1. Len(q) \in Nat /\ Len(q) # 0
    BY DEF IsChain
  <2>2. Len(q)-1 \in Nat /\ Len(q) = (Len(q)-1)+1
    BY <2>1
  <2>3. QED
    BY <2>2
<1>2. PICK r \in Seq(Items) : r = Tail(q)
  <2>1. Tail(q) \in Seq(Items)
    BY HeadTailProperties DEF IsChain
  <2>2. QED
    BY <2>1
<1>3. Len(r) = m /\ \A k \in 1..m : r[k] = q[k+1] /\ k+1 \in 1..(m+1)
  BY <1>1, <1>2 DEF IsChain
<1>4. \A k \in 1..m : r[k] \in InSeq(lk)
  BY <1>1, <1>3 DEF IsChain
<1>5. ASSUME NEW i \in 1..m, NEW j \in 1..m, i < j
      PROVE  Before(r[i], r[j], lk)
  <2>1. i+1 < j+1 /\ i+1 \in 1..(m+1) /\ j+1 \in 1..(m+1)
    BY <1>5
  <2>2. QED
    BY <1>1, <1>3, <2>1 DEF IsChain
<1>6. ASSUME NEW k \in 0..m
      PROVE  nx[ChainNode(q[1], r, k)] = IF k = m THEN Null ELSE r[k+1]
  <2>1. k+1 \in 0..(m+1) /\ k+1 # 0
    OBVIOUS
  <2>2. ChainNode(q[1], r, k) = ChainNode(h, q, k+1)
    BY <1>3, <2>1 DEF ChainNode
  <2>3. nx[ChainNode(h, q, k+1)] = IF k+1 = m+1 THEN Null ELSE q[(k+1)+1]
    BY <1>1, <2>1 DEF IsChain
  <2>4. k # m => k+1 \in 1..m /\ r[k+1] = q[(k+1)+1]
    BY <1>3
  <2>5. QED
    BY <2>2, <2>3, <2>4
<1>7. QED
  BY <1>2, <1>3, <1>4, <1>5, <1>6 DEF IsChain

-----------------------------------------------------------------------------
(* One lemma per action: the invariant is kept.                            *)

Others(t) == \A u \in Threads \ {t} : pc'[u] = pc[u] /\ reg'[u] = reg[u]

LEMMA HalvesApart ==
  ASSUME NEW s \in Seq(Items), NEW t \in Seq(Items), Once(s \o t), NEW x \in InSeq(t)
  PROVE  x \notin InSeq(s)
<1>1. PICK l \in Nat : l = Len(s)
  OBVIOUS
<1>2. PICK m \in Nat : m = Len(t)
  OBVIOUS
<1>3. PICK c \in Seq(Items) : c = s \o t
  BY ConcatProperties
<1>4. DOMAIN s = 1..l /\ DOMAIN t = 1..m /\ DOMAIN c = 1..(l+m)
  BY <1>1, <1>2, <1>3
<1>5. \A k \in 1..(l+m) : c[k] = IF k <= l THEN s[k] ELSE t[k-l]
  BY <1>1, <1>2, <1>3
<1>6. SUFFICES ASSUME NEW i \in 1..l, NEW j \in 1..m, x = s[i], x = t[j] PROVE FALSE
  BY <1>4 DEF InSeq
<1>7. i \in 1..(l+m) /\ c[i] = x
  <2>1. i \in 1..(l+m) /\ i <= l
    OBVIOUS
  <2>2. QED
    BY <1>5, <1>6, <2>1
<1>8. j+l \in 1..(l+m) /\ ~(j+l <= l) /\ (j+l)-l = j
  OBVIOUS
<1>9. c[j+l] = x
  BY <1>5, <1>6, <1>8
<1>10. i = j+l
  BY <1>3, <1>4, <1>7, <1>8, <1>9 DEF Once
<1>11. QED
  BY <1>10

LEMMA ContentsThen == Contents' = ContentsOf(head', next')
<1>1. NodeAt' = WalkOf(head', next')
  BY DEF NodeAt, WalkOf, Walk
<1>2. QED
  BY <1>1 DEF Contents, ContentsOf

LEMMA ContentsStay ==
  ASSUME head' = head, next' = next
  PROVE  Contents' = Contents
  BY ContentsAre, ContentsThen

LEMMA ThreadsApart ==
  /\ \A p \in Producers : p \in Threads /\ p \notin Consumers
  /\ \A c \in Consumers : c \in Threads /\ c \notin Producers
  BY QueueAssumption DEF Threads

LEMMA NullNotReached ==
  ASSUME QInv, ~Destroyed
  PROVE  Null \notin Reach
<1>1. Contents \in Seq(Items) /\ head # Null
  BY DEF QInv, ChainKept, IsChain, Destroyed
<1>2. \A k \in DOMAIN Contents : Contents[k] \in Items
  BY <1>1
<1>3. QED
  BY <1>1, <1>2, QueueAssumption DEF Reach, InSeq

(* While no consumer runs, a tail without successor ends the list. *)
LEMMA TailInReach ==
  ASSUME QInv, Settled, next[tail] = Null
  PROVE  tail \in Reach
<1>1. Null \notin Reach
  BY NullNotReached DEF Settled
<1>2. QED
  BY <1>1 DEF QInv, LossKept, TailReached

(* Without overlap, what was taken is no longer in the list. *)
LEMMA TakenApart ==
  ASSUME QInv, Exclusive, ~Destroyed, NEW x \in InSeq(Contents)
  PROVE  x \notin InSeq(popped)
<1>1. linked = popped \o Contents /\ Contents \in Seq(Items) /\ popped \in Seq(Items)
  BY DEF QInv, ExclusiveKept, ChainKept, IsChain, Types
<1>2. Once(linked)
  BY DEF QInv, PushKept, Types, Once
<1>3. QED
  BY <1>1, <1>2, HalvesApart

LEMMA QuietSettled ==
  ASSUME Consuming = {}, ~Destroyed
  PROVE  Settled
  BY DEF Consuming, Settled, Idle

LEMMA GotoTo ==
  ASSUME QInv, NEW t \in Threads, NEW l \in ProducerPcs \cup ConsumerPcs, Goto(t, l)
  PROVE  /\ pc' \in [Threads -> ProducerPcs \cup ConsumerPcs] /\ pc'[t] = l
         /\ \A u \in Threads \ {t} : pc'[u] = pc[u]
  BY DEF QInv, Types, Goto

LEMMA RegTo ==
  ASSUME QInv, NEW t \in Threads, NEW r \in Calls, reg' = [reg EXCEPT ![t] = r]
  PROVE  /\ reg' \in [Threads -> Calls] /\ reg'[t] = r
         /\ \A u \in Threads \ {t} : reg'[u] = reg[u]
  BY DEF QInv, Types

LEMMA NoCallIn == NoCall \in Calls
  BY DEF NoCall, Calls, Ops

(* The loop of a push loads q->tail again. *)
LEMMA PushLoadKeeps ==
  ASSUME QInv, Tame, NEW p \in Producers, PushLoad(p)
  PROVE  QInv'
<1>1. /\ pc[p] = "load" /\ pc'[p] = "cas"
      /\ reg'[p].node = reg[p].node /\ reg'[p].prev = tail
      /\ Others(p) /\ reg'[p] \in Calls
      /\ pc' \in [Threads -> ProducerPcs \cup ConsumerPcs] /\ reg' \in [Threads -> Calls]
  <2>1. p \in Threads /\ reg[p] \in Calls /\ tail \in Nodes \cup {Null}
    BY ThreadsApart DEF QInv, Types
  <2>2. PICK r : r = [reg[p] EXCEPT !.prev = tail]
    OBVIOUS
  <2>3. r \in Calls /\ r.node = reg[p].node /\ r.prev = tail
    BY <2>1, <2>2 DEF Calls
  <2>4. /\ pc[p] = "load" /\ Goto(p, "cas") /\ "cas" \in ProducerPcs
        /\ reg' = [reg EXCEPT ![p] = r]
    BY <2>2 DEF PushLoad, ProducerPcs
  <2>5. QED
    BY <2>1, <2>3, <2>4, GotoTo, RegTo DEF Others
<1>2. UNCHANGED <<head, tail, next, mode, live, freed, linked, popped, overlapped>>
  BY DEF PushLoad, qvars, mem, hist
<1>3. Contents' = Contents
  BY <1>2, ContentsStay
<1>4. \A c \in Consumers : pc'[c] = pc[c] /\ reg'[c] = reg[c]
  BY <1>1, ThreadsApart DEF Others
<1>5. \A r \in Producers : r # p => pc'[r] = pc[r] /\ reg'[r] = reg[r]
  BY <1>1, ThreadsApart DEF Others
<1>6. ~Destroyed /\ Destroyed' = Destroyed
  BY <1>1, <1>2 DEF QInv, DestroyedKept, Pushing, Idle, Destroyed
<1>7. Held' = Held /\ Used' = Used
  BY <1>2, <1>4 DEF Held, Used, SetsTail
<1>8. Types'
  BY <1>1, <1>2, <1>4, <1>5 DEF QInv, Types, ProducerPcs
<1>9. PushKept'
  BY <1>1, <1>2, <1>5, <1>6, <1>7 DEF QInv, PushKept, PushAt, TailKept, Idle
<1>10. NextKept'
  BY <1>2 DEF QInv, NextKept
<1>11. TailKept'
  BY <1>1, <1>2, <1>5, <1>6, <1>7 DEF QInv, TailKept, TailLags
<1>12. ConsumerKept'
  BY <1>2, <1>3, <1>4 DEF QInv, ConsumerKept, Alone, ConsumerAt, Idle, AtNext,
     AtAdvance, AtSetHead, AtSetTail, AtFree, ConsumerOps, AllocMayFail, Reclaims
<1>13. ChainKept' /\ PoppedKept'
  BY <1>2, <1>3, <1>6 DEF QInv, ChainKept, PoppedKept, PoppedInLinkOrder
<1>14. DestroyedKept'
  BY <1>6 DEF DestroyedKept
<1>15. LossKept'
  <2>1. OverlapKept' /\ LossNeedsOverlap'
    BY <1>1, <1>2, <1>3, <1>4, <1>5, <1>6 DEF QInv, LossKept, OverlapKept,
       LossNeedsOverlap, Lost, Pushing, Consuming, Idle
  <2>2. TailReached' /\ Reach' = Reach
    BY <1>2, <1>3, <1>4, <1>6 DEF QInv, LossKept, TailReached, Reach, Settled
  <2>3. reg[p].node \notin overlapped /\ next[tail] = Null => tail \in Reach
    BY <1>1, <1>6, QuietSettled, TailInReach DEF QInv, LossKept, OverlapKept, Pushing, Idle
  <2>4. PushReached'
    BY <1>1, <1>2, <1>5, <2>2, <2>3 DEF QInv, LossKept, PushReached
  <2>5. QED
    BY <2>1, <2>2, <2>4 DEF LossKept
<1>16. ExclusiveKept'
  BY <1>1, <1>2, <1>3, <1>4, <1>5, <1>6 DEF QInv, ExclusiveKept, Exclusive, Reach,
     Settled, Pushing, Consuming, Idle
<1>17. MemoryKept'
  <2>1. Exclusive => Settled
    BY <1>1, <1>6, QuietSettled DEF QInv, ExclusiveKept, Pushing, Idle
  <2>2. QED
    BY <1>1, <1>2, <1>3, <1>4, <1>5, <1>6, <2>1 DEF QInv, MemoryKept, AllocMayFail,
       Reclaims, Exclusive, Settled
<1>18. QED
  BY <1>8, <1>9, <1>10, <1>11, <1>12, <1>13, <1>14, <1>15, <1>16, <1>17 DEF QInv

LEMMA PushCountKeeps ==
  ASSUME QInv, Tame, NEW p \in Producers, PushCount(p)
  PROVE  QInv'
<1>1. /\ pc[p] = "inc" /\ pc'[p] = "idle"
      /\ reg'[p].node = Null /\ reg'[p].prev = Null /\ Others(p)
      /\ pc' \in [Threads -> ProducerPcs \cup ConsumerPcs] /\ reg' \in [Threads -> Calls]
  <2>1. /\ pc[p] = "inc" /\ Goto(p, "idle") /\ "idle" \in ProducerPcs
        /\ reg' = [reg EXCEPT ![p] = NoCall]
    BY DEF PushCount, Return, ProducerPcs
  <2>2. NoCall.node = Null /\ NoCall.prev = Null
    BY DEF NoCall
  <2>3. QED
    BY <2>1, <2>2, ThreadsApart, NoCallIn, GotoTo, RegTo DEF Others
<1>2. UNCHANGED <<head, tail, next, mode, live, freed, linked, popped, overlapped>>
  BY DEF PushCount, mem, hist
<1>3. Contents' = Contents
  BY <1>2, ContentsStay
<1>4. \A c \in Consumers : pc'[c] = pc[c] /\ reg'[c] = reg[c]
  BY <1>1, ThreadsApart DEF Others
<1>5. \A r \in Producers : r # p => pc'[r] = pc[r] /\ reg'[r] = reg[r]
  BY <1>1, ThreadsApart DEF Others
<1>6. ~Destroyed /\ Destroyed' = Destroyed
  BY <1>1, <1>2 DEF QInv, DestroyedKept, Pushing, Idle, Destroyed
<1>7. Held' = Held /\ Used' = Used
  BY <1>2, <1>4 DEF Held, Used, SetsTail
<1>8. Types'
  BY <1>1, <1>2, <1>4, <1>5 DEF QInv, Types, ProducerPcs
<1>9. PushKept'
  BY <1>1, <1>2, <1>5, <1>6, <1>7 DEF QInv, PushKept, PushAt, TailKept, Idle
<1>10. NextKept'
  BY <1>2 DEF QInv, NextKept
<1>11. TailKept'
  BY <1>1, <1>2, <1>5, <1>6, <1>7 DEF QInv, TailKept, TailLags
<1>12. ConsumerKept'
  BY <1>2, <1>3, <1>4 DEF QInv, ConsumerKept, Alone, ConsumerAt, Idle, AtNext,
     AtAdvance, AtSetHead, AtSetTail, AtFree, ConsumerOps, AllocMayFail, Reclaims
<1>13. ChainKept' /\ PoppedKept'
  BY <1>2, <1>3, <1>6 DEF QInv, ChainKept, PoppedKept, PoppedInLinkOrder
<1>14. DestroyedKept'
  BY <1>6 DEF DestroyedKept
<1>15. LossKept'
  <2>1. OverlapKept' /\ LossNeedsOverlap'
    BY <1>1, <1>2, <1>3, <1>4, <1>5, <1>6 DEF QInv, LossKept, OverlapKept,
       LossNeedsOverlap, Lost, Pushing, Consuming, Idle
  <2>2. TailReached' /\ Reach' = Reach
    BY <1>2, <1>3, <1>4, <1>6 DEF QInv, LossKept, TailReached, Reach, Settled
  <2>3. PushReached'
    BY <1>1, <1>2, <1>5, <2>2 DEF QInv, LossKept, PushReached
  <2>4. QED
    BY <2>1, <2>2, <2>3 DEF LossKept
<1>16. ExclusiveKept'
  BY <1>1, <1>2, <1>3, <1>4, <1>5, <1>6 DEF QInv, ExclusiveKept, Exclusive, Reach,
     Settled, Pushing, Consuming, Idle
<1>17. MemoryKept'
  <2>1. Null \notin InSeq(popped) /\ Null \notin freed
    BY QueueAssumption DEF QInv, Types, InSeq, Nodes
  <2>2. QED
    BY <1>1, <1>2, <1>3, <1>4, <1>5, <1>6, <2>1 DEF QInv, MemoryKept, AllocMayFail,
       Reclaims, Settled
<1>18. QED
  BY <1>8, <1>9, <1>10, <1>11, <1>12, <1>13, <1>14, <1>15, <1>16, <1>17 DEF QInv

LEMMA PushCallKeeps ==
  ASSUME QInv, Tame, NEW p \in Producers, NEW n \in Items, PushCall(p, n)
  PROVE  QInv'
<1>1. /\ pc[p] = "idle" /\ pc'[p] = "cas"
      /\ reg'[p].node = n /\ reg'[p].prev = tail /\ Others(p)
      /\ pc' \in [Threads -> ProducerPcs \cup ConsumerPcs] /\ reg' \in [Threads -> Calls]
  <2>1. p \in Threads /\ reg[p] \in Calls /\ tail \in Nodes \cup {Null}
    BY ThreadsApart DEF QInv, Types
  <2>2. PICK r : r = [reg[p] EXCEPT !.op = "push", !.node = n, !.prev = tail]
    OBVIOUS
  <2>3. r \in Calls /\ r.node = n /\ r.prev = tail
    BY <2>1, <2>2 DEF Calls, Ops
  <2>4. /\ pc[p] = "idle" /\ Goto(p, "cas") /\ "cas" \in ProducerPcs
        /\ reg' = [reg EXCEPT ![p] = r]
    BY <2>2 DEF PushCall, Idle, ProducerPcs
  <2>5. QED
    BY <2>1, <2>3, <2>4, GotoTo, RegTo DEF Others
<1>2. /\ UNCHANGED <<head, tail, mode, live, freed, linked, popped>>
      /\ overlapped' = IF Consuming = {} THEN overlapped ELSE overlapped \cup {n}
      /\ Exclusive => Consuming = {}
      /\ n \notin InSeq(linked) /\ \A t \in Producers : reg[t].node # n
  BY DEF PushCall, mem
<1>3. next' = next
  <2>1. next[n] = Null
    BY <1>2, QueueAssumption DEF QInv, NextKept, Types, Nodes
  <2>2. next' = [next EXCEPT ![n] = Null]
    BY DEF PushCall
  <2>3. QED
    BY <2>1, <2>2 DEF QInv, Types
<1>4. Contents' = Contents
  BY <1>2, <1>3, ContentsStay
<1>5. \A c \in Consumers : pc'[c] = pc[c] /\ reg'[c] = reg[c]
  BY <1>1, ThreadsApart DEF Others
<1>6. \A r \in Producers : r # p => pc'[r] = pc[r] /\ reg'[r] = reg[r]
  BY <1>1, ThreadsApart DEF Others
<1>7. ~Destroyed /\ Destroyed' = Destroyed
  BY <1>2 DEF PushCall, Destroyed
<1>8. Held' = Held /\ Used' = Used
  BY <1>2, <1>5 DEF Held, Used, SetsTail
<1>9. Types'
  BY <1>1, <1>2, <1>3, <1>5, <1>6 DEF QInv, Types, ProducerPcs
<1>10. PushKept'
  BY <1>1, <1>2, <1>3, <1>6, <1>7, <1>8 DEF QInv, PushKept, PushAt, TailKept, Idle
<1>11. NextKept'
  BY <1>2, <1>3 DEF QInv, NextKept
<1>12. TailKept'
  <2>1. next[tail] # Null => next[tail] # tail
    <3>1. SUFFICES ASSUME next[tail] = tail, tail # Null PROVE FALSE
      OBVIOUS
    <3>2. tail \in InSeq(linked) /\ next[tail] \in InSeq(linked)
      BY <1>7, <3>1 DEF QInv, TailKept, NextKept, Types
    <3>3. Before(tail, tail, linked)
      BY <3>1, <3>2 DEF QInv, NextKept
    <3>4. QED
      BY <3>3, BeforeNot DEF QInv, PushKept, Types, Once
  <2>2. QED
    BY <1>1, <1>2, <1>3, <1>6, <1>7, <1>8, <2>1 DEF QInv, TailKept, TailLags
<1>13. ConsumerKept'
  <2>1. overlapped \subseteq overlapped'
    BY <1>2
  <2>2. QED
    BY <1>2, <1>3, <1>4, <1>5, <2>1 DEF QInv, ConsumerKept, Alone, ConsumerAt, Idle, AtNext,
       AtAdvance, AtSetHead, AtSetTail, AtFree, ConsumerOps, AllocMayFail, Reclaims
<1>14. ChainKept' /\ PoppedKept'
  BY <1>2, <1>3, <1>4, <1>7 DEF QInv, ChainKept, PoppedKept, PoppedInLinkOrder
<1>15. DestroyedKept'
  BY <1>7 DEF DestroyedKept
<1>16. LossKept'
  <2>1. OverlapKept' /\ LossNeedsOverlap'
    BY <1>1, <1>2, <1>4, <1>5, <1>6, <1>7 DEF QInv, LossKept, OverlapKept,
       LossNeedsOverlap, Lost, Pushing, Consuming, Idle
  <2>2. TailReached' /\ Reach' = Reach
    BY <1>2, <1>3, <1>4, <1>5, <1>7 DEF QInv, LossKept, TailReached, Reach, Settled
  <2>3. n \notin overlapped' /\ next[tail] = Null => tail \in Reach
    BY <1>2, <1>7, QuietSettled, TailInReach
  <2>4. PushReached'
    BY <1>1, <1>2, <1>3, <1>6, <2>2, <2>3 DEF QInv, LossKept, PushReached
  <2>5. QED
    BY <2>1, <2>2, <2>4 DEF LossKept
<1>17. ExclusiveKept'
  BY <1>1, <1>2, <1>4, <1>5, <1>6, <1>7 DEF QInv, ExclusiveKept, Exclusive, Reach,
     Settled, Pushing, Consuming, Idle
<1>18. MemoryKept'
  <2>1. Exclusive => Settled
    BY <1>2, <1>7, QuietSettled
  <2>2. QED
    BY <1>1, <1>2, <1>4, <1>5, <1>6, <1>7, <2>1 DEF QInv, MemoryKept, AllocMayFail,
       Reclaims, Exclusive, Settled
<1>19. QED
  BY <1>9, <1>10, <1>11, <1>12, <1>13, <1>14, <1>15, <1>16, <1>17, <1>18 DEF QInv

(* The CAS on q->tail succeeds only when the tail lags behind this push. *)
LEMMA PushSwingKeeps ==
  ASSUME QInv, Tame, NEW p \in Producers, PushSwing(p)
  PROVE  QInv'
<1>1. /\ pc[p] = "swing" /\ pc'[p] = "inc" /\ reg' = reg
      /\ tail' = IF tail = reg[p].prev THEN reg[p].node ELSE tail
      /\ \A r \in Threads : r # p => pc'[r] = pc[r]
      /\ pc' \in [Threads -> ProducerPcs \cup ConsumerPcs]
  BY ThreadsApart DEF PushSwing, Goto, QInv, Types, ProducerPcs
<1>2. UNCHANGED <<head, next, mode, live, freed, linked, popped, overlapped>>
  BY DEF PushSwing, mem, hist
<1>3. Contents' = Contents
  BY <1>2, ContentsStay
<1>4. \A c \in Consumers : pc'[c] = pc[c]
  BY <1>1, ThreadsApart
<1>5. \A r \in Producers : r # p => pc'[r] = pc[r]
  BY <1>1, ThreadsApart
<1>6. ~Destroyed /\ Destroyed' = Destroyed
  BY <1>1, <1>2 DEF QInv, DestroyedKept, Pushing, Idle, Destroyed
<1>7. Held' = Held /\ Used' = Used
  BY <1>1, <1>2, <1>4 DEF Held, Used, SetsTail
<1>8. /\ reg[p].node \in Items /\ reg[p].node \in InSeq(linked)
      /\ next[reg[p].prev] = reg[p].node /\ reg[p].node # Null
  BY <1>1, QueueAssumption DEF QInv, PushKept, PushAt, Idle
<1>9. reg[p].node \in Used
  <2>1. Held \subseteq Stubs \cup {Null}
    BY ThreadsApart DEF QInv, Types, Held, Calls
  <2>2. QED
    BY <1>8, <2>1, QueueAssumption DEF Used
<1>10. tail = reg[p].prev => next[reg[p].node] = Null
  BY <1>6, <1>8 DEF QInv, TailKept, TailLags
<1>11. Types'
  BY <1>1, <1>2, <1>4, <1>5, <1>8 DEF QInv, Types, ProducerPcs, Nodes
<1>12. PushKept'
  BY <1>1, <1>2, <1>5, <1>6, <1>7 DEF QInv, PushKept, PushAt, Idle
<1>13. NextKept'
  BY <1>2 DEF QInv, NextKept
<1>14. TailKept'
  <2>1. CASE tail = reg[p].prev
    BY <1>1, <1>2, <1>7, <1>9, <1>10, <2>1 DEF TailKept, TailLags
  <2>2. CASE tail # reg[p].prev
    BY <1>1, <1>2, <1>5, <1>6, <1>7, <2>2 DEF QInv, TailKept, TailLags
  <2>3. QED
    BY <2>1, <2>2
<1>15. Exclusive => Consuming = {} /\ tail \in Reach /\ Settled
  BY <1>1, <1>6, QuietSettled DEF QInv, ExclusiveKept, Pushing, Idle
<1>16. ConsumerKept'
  <2>1. Exclusive => \A c \in Consumers : Idle(c)
    BY <1>15 DEF Consuming
  <2>2. mode = "concurrent" => \A c \in Consumers : pc[c] \notin {"zero", "free"}
    BY DEF QInv, ConsumerKept, ConsumerAt, AtFree, ConsumerOps, Idle
  <2>3. \A c \in Consumers : AtSetTail(c)' /\ AtFree(c)'
    BY <1>1, <1>2, <1>3, <1>4, <2>1, <2>2 DEF QInv, ConsumerKept, ConsumerAt, Idle,
       AtSetTail, AtFree, Exclusive, Reclaims
  <2>4. QED
    BY <1>1, <1>2, <1>3, <1>4, <2>3 DEF QInv, ConsumerKept, Alone, ConsumerAt, Idle, AtNext,
       AtAdvance, AtSetHead, ConsumerOps, AllocMayFail
<1>17. ChainKept' /\ PoppedKept'
  BY <1>2, <1>3, <1>6 DEF QInv, ChainKept, PoppedKept, PoppedInLinkOrder
<1>18. DestroyedKept'
  BY <1>6 DEF DestroyedKept
<1>19. tail = reg[p].prev /\ tail \in Reach => reg[p].node \in InSeq(Contents)
  BY <1>6, <1>8, ChainReach DEF QInv, ChainKept, Reach
<1>20. LossKept'
  <2>1. OverlapKept' /\ LossNeedsOverlap'
    BY <1>1, <1>2, <1>3, <1>4, <1>5, <1>6 DEF QInv, LossKept, OverlapKept,
       LossNeedsOverlap, Lost, Pushing, Consuming, Idle
  <2>2. Reach' = Reach /\ Settled' = Settled
    BY <1>2, <1>3, <1>4, <1>6 DEF Reach, Settled
  <2>3. TailReached'
    BY <1>1, <1>2, <1>8, <1>19, <2>2 DEF QInv, LossKept, TailReached, Reach
  <2>4. PushReached'
    BY <1>1, <1>2, <1>5, <2>2 DEF QInv, LossKept, PushReached
  <2>5. QED
    BY <2>1, <2>3, <2>4 DEF LossKept
<1>21. ExclusiveKept'
  <2>1. Exclusive => tail' \in Reach
    BY <1>1, <1>15, <1>19 DEF Reach
  <2>2. QED
    BY <1>1, <1>2, <1>3, <1>4, <1>5, <1>6, <2>1 DEF QInv, ExclusiveKept, Exclusive, Reach,
       Settled, Pushing, Consuming, Idle
<1>22. MemoryKept'
  <2>1. Reclaims => tail' \notin InSeq(popped)
    <3>1. Reclaims => reg[p].node \notin InSeq(popped) \/ tail # reg[p].prev
      BY <1>6, <1>15, <1>19, TakenApart DEF Reclaims, Exclusive
    <3>2. QED
      BY <1>1, <1>15, <3>1 DEF QInv, MemoryKept, Reclaims, Exclusive
  <2>2. QED
    BY <1>1, <1>2, <1>3, <1>4, <1>5, <1>6, <1>15, <1>19, <2>1 DEF QInv, MemoryKept, AllocMayFail,
       Reclaims, Exclusive, Settled
<1>23. QED
  BY <1>11, <1>12, <1>13, <1>14, <1>16, <1>17, <1>18, <1>20, <1>21, <1>22 DEF QInv

(* A failed CAS on prev->next changes nothing but the place in the loop. *)
LEMMA PushRetryKeeps ==
  ASSUME QInv, Tame, NEW p \in Producers, PushCas(p), next[reg[p].prev] # Null
  PROVE  QInv'
<1>1. /\ pc[p] = "cas" /\ pc'[p] = "load" /\ reg' = reg
      /\ \A r \in Threads : r # p => pc'[r] = pc[r]
      /\ pc' \in [Threads -> ProducerPcs \cup ConsumerPcs]
  BY ThreadsApart DEF PushCas, Goto, QInv, Types, ProducerPcs
<1>2. UNCHANGED <<head, tail, next, mode, live, freed, linked, popped, overlapped>>
  BY DEF PushCas, mem
<1>3. Contents' = Contents
  BY <1>2, ContentsStay
<1>4. \A c \in Consumers : pc'[c] = pc[c]
  BY <1>1, ThreadsApart
<1>5. \A r \in Producers : r # p => pc'[r] = pc[r]
  BY <1>1, ThreadsApart
<1>6. ~Destroyed /\ Destroyed' = Destroyed
  BY <1>1, <1>2 DEF QInv, DestroyedKept, Pushing, Idle, Destroyed
<1>7. Held' = Held /\ Used' = Used
  BY <1>1, <1>2, <1>4 DEF Held, Used, SetsTail
<1>8. Types'
  BY <1>1, <1>2, <1>4, <1>5 DEF QInv, Types, ProducerPcs
<1>9. PushKept'
  BY <1>1, <1>2, <1>5, <1>7 DEF QInv, PushKept, PushAt, Idle
<1>10. NextKept'
  BY <1>2 DEF QInv, NextKept
<1>11. TailKept'
  BY <1>1, <1>2, <1>5, <1>6, <1>7 DEF QInv, TailKept, TailLags
<1>12. ConsumerKept'
  BY <1>1, <1>2, <1>3, <1>4 DEF QInv, ConsumerKept, Alone, ConsumerAt, Idle, AtNext,
     AtAdvance, AtSetHead, AtSetTail, AtFree, ConsumerOps, AllocMayFail, Reclaims
<1>13. ChainKept' /\ PoppedKept'
  BY <1>2, <1>3, <1>6 DEF QInv, ChainKept, PoppedKept, PoppedInLinkOrder
<1>14. DestroyedKept'
  BY <1>6 DEF DestroyedKept
<1>15. LossKept'
  <2>1. OverlapKept' /\ LossNeedsOverlap'
    BY <1>1, <1>2, <1>3, <1>4, <1>5, <1>6 DEF QInv, LossKept, OverlapKept,
       LossNeedsOverlap, Lost, Pushing, Consuming, Idle
  <2>2. TailReached' /\ Reach' = Reach
    BY <1>2, <1>3, <1>4, <1>6 DEF QInv, LossKept, TailReached, Reach, Settled
  <2>3. PushReached'
    BY <1>1, <1>2, <1>5, <2>2 DEF QInv, LossKept, PushReached
  <2>4. QED
    BY <2>1, <2>2, <2>3 DEF LossKept
<1>16. ExclusiveKept'
  BY <1>1, <1>2, <1>3, <1>4, <1>5, <1>6 DEF QInv, ExclusiveKept, Exclusive, Reach,
     Settled, Pushing, Consuming, Idle
<1>17. MemoryKept'
  BY <1>1, <1>2, <1>3, <1>4, <1>5, <1>6 DEF QInv, MemoryKept, AllocMayFail, Reclaims, Settled
<1>18. QED
  BY <1>8, <1>9, <1>10, <1>11, <1>12, <1>13, <1>14, <1>15, <1>16, <1>17 DEF QInv

(* What a push that links its node does to the list. *)
Links(p) ==
  /\ reg[p].prev \in Nodes /\ reg[p].prev \in Used /\ next[reg[p].prev] = Null
  /\ reg[p].node \in Items /\ reg[p].node \notin InSeq(linked)
  /\ next[reg[p].node] = Null /\ reg[p].node # reg[p].prev
  /\ next' = [next EXCEPT ![reg[p].prev] = reg[p].node]
  /\ linked' = Append(linked, reg[p].node)
  /\ reg[p].prev \in Reach => Contents' = Append(Contents, reg[p].node)
  /\ reg[p].prev \notin Reach => Contents' = Contents /\ reg[p].node \in overlapped
  /\ IsChain(Contents, head, next, linked)'

LEMMA PushLinks ==
  ASSUME QInv, NEW p \in Producers, PushCas(p), next[reg[p].prev] = Null
  PROVE  Links(p)
<1>1. /\ pc[p] = "cas" /\ head' = head
      /\ next' = [next EXCEPT ![reg[p].prev] = reg[p].node]
      /\ linked' = Append(linked, reg[p].node)
  BY DEF PushCas
<1>2. /\ reg[p].node \in Items /\ reg[p].prev \in Used /\ reg[p].node \notin InSeq(linked)
  BY <1>1 DEF QInv, PushKept, PushAt, Idle
<1>3. ~Destroyed
  BY <1>1 DEF QInv, DestroyedKept, Pushing, Idle
<1>4. reg[p].prev \in Nodes /\ reg[p].node \notin live
  BY <1>2, QueueAssumption DEF QInv, Types, Used, InSeq, Nodes
<1>5. next[reg[p].node] = Null /\ reg[p].node # reg[p].prev
  BY <1>2, <1>4 DEF QInv, NextKept, Nodes, Used
<1>6. /\ head \in Nodes /\ head # Null /\ next \in [Nodes -> Items \cup {Null}]
      /\ linked \in Seq(Items) /\ Once(linked) /\ IsChain(Contents, head, next, linked)
  BY <1>3, QueueAssumption DEF QInv, Types, ChainKept, PushKept, Once, Destroyed, Nodes
<1>7. Once(linked')
  BY <1>1, <1>2, <1>6, OnceGrow
<1>8. CASE reg[p].prev \in Reach
  <2>1. IsChain(Append(Contents, reg[p].node), head', next', linked')
    BY <1>1, <1>2, <1>4, <1>5, <1>6, <1>8, ChainLink DEF Reach
  <2>2. Contents' = Append(Contents, reg[p].node)
    BY <1>1, <1>6, <1>7, <2>1, ChainIs, ContentsThen
  <2>3. QED
    BY <1>1, <1>2, <1>4, <1>5, <1>8, <2>1, <2>2 DEF Links
<1>9. CASE reg[p].prev \notin Reach
  <2>1. IsChain(Contents, head', next', linked')
    BY <1>1, <1>2, <1>4, <1>6, <1>9, ChainApart DEF Reach
  <2>2. Contents' = Contents
    BY <1>1, <1>6, <1>7, <2>1, ChainIs, ContentsThen
  <2>3. reg[p].node \in overlapped
    BY <1>1, <1>9 DEF QInv, LossKept, PushReached
  <2>4. QED
    BY <1>1, <1>2, <1>4, <1>5, <1>9, <2>1, <2>2, <2>3 DEF Links
<1>10. QED
  BY <1>8, <1>9

LEMMA AppendConcat ==
  ASSUME NEW s \in Seq(Items), NEW t \in Seq(Items), NEW x \in Items
  PROVE  Append(s \o t, x) = s \o Append(t, x)
<1>1. PICK l \in Nat : l = Len(s)
  OBVIOUS
<1>2. PICK m \in Nat : m = Len(t)
  OBVIOUS
<1>3. PICK c \in Seq(Items) : c = s \o t
  BY ConcatProperties
<1>4. PICK u \in Seq(Items) : u = Append(t, x)
  BY AppendProperties
<1>5. Len(c) = l+m /\ \A k \in 1..(l+m) : c[k] = IF k <= l THEN s[k] ELSE t[k-l]
  BY <1>1, <1>2, <1>3
<1>6. Len(u) = m+1 /\ u[m+1] = x /\ \A k \in 1..m : u[k] = t[k]
  BY <1>2, <1>4
<1>7. PICK v \in Seq(Items) : v = s \o u
  BY ConcatProperties
<1>8. PICK w \in Seq(Items) : w = Append(c, x)
  BY AppendProperties
<1>9. Len(v) = l+(m+1) /\ \A k \in 1..(l+m+1) : v[k] = IF k <= l THEN s[k] ELSE u[k-l]
  <2>1. Len(v) = l+(m+1)
    <3>1. Len(s \o u) = Len(s) + Len(u)
      BY ConcatProperties
    <3>2. QED
      BY <1>1, <1>6, <1>7, <3>1
  <2>2. \A k \in 1..(l+(m+1)) : v[k] = IF k <= l THEN s[k] ELSE u[k-l]
    BY <1>1, <1>6, <1>7
  <2>3. l+(m+1) = l+m+1
    OBVIOUS
  <2>4. QED
    BY <2>1, <2>2, <2>3
<1>10. Len(w) = l+m+1 /\ w[l+m+1] = x /\ \A k \in 1..(l+m) : w[k] = c[k]
  <2>1. /\ Len(Append(c, x)) = Len(c)+1 /\ Append(c, x)[Len(c)+1] = x
        /\ \A k \in 1..Len(c) : Append(c, x)[k] = c[k]
    BY AppendProperties
  <2>2. QED
    BY <1>5, <1>8, <2>1
<1>11. ASSUME NEW k \in 1..(l+m+1)
       PROVE  v[k] = w[k]
  <2>1. CASE k <= l
    BY <1>5, <1>9, <1>10, <2>1
  <2>2. CASE k > l /\ k # l+m+1
    <3>1. k \in 1..(l+m) /\ k-l \in 1..m /\ ~(k <= l)
      BY <2>2
    <3>2. QED
      BY <1>5, <1>6, <1>9, <1>10, <3>1
  <2>3. CASE k = l+m+1
    <3>1. k-l = m+1 /\ ~(k <= l)
      BY <2>3
    <3>2. QED
      BY <1>6, <1>9, <1>10, <2>3, <3>1
  <2>4. QED
    BY <2>1, <2>2, <2>3
<1>12. v = w
  <2>1. Len(v) = Len(w) /\ \A k \in 1..Len(v) : v[k] = w[k]
    BY <1>9, <1>10, <1>11
  <2>2. QED
    BY <2>1, SeqEqual
<1>13. QED
  BY <1>3, <1>4, <1>7, <1>8, <1>12

(* The order of what was taken, in terms of Before. *)
LEMMA OrderIs ==
  PoppedInLinkOrder <=>
    \A i, j \in DOMAIN popped : i < j => Before(popped[i], popped[j], linked)
  BY DEF PoppedInLinkOrder, Before

LEMMA OrderThen ==
  PoppedInLinkOrder' <=>
    \A i, j \in DOMAIN popped' : i < j => Before(popped'[i], popped'[j], linked')
  BY DEF PoppedInLinkOrder, Before

(* A push that links its node. *)
LEMMA PushLinkKeeps ==
  ASSUME QInv, Tame, NEW p \in Producers, PushCas(p), next[reg[p].prev] = Null
  PROVE  QInv'
<1> DEFINE n == reg[p].node
           v == reg[p].prev
<1>1. /\ pc[p] = "cas" /\ pc'[p] = "swing" /\ reg' = reg
      /\ \A r \in Threads : r # p => pc'[r] = pc[r]
      /\ pc' \in [Threads -> ProducerPcs \cup ConsumerPcs]
  BY ThreadsApart DEF PushCas, Goto, QInv, Types, ProducerPcs
<1>2. UNCHANGED <<head, tail, mode, live, freed, popped, overlapped>>
  BY DEF PushCas, mem
<1>3. Links(p)
  BY PushLinks
<1>4. /\ v \in Nodes /\ v \in Used /\ next[v] = Null
      /\ n \in Items /\ n \in Nodes /\ n \notin InSeq(linked) /\ n \notin live /\ n # Null
      /\ next[n] = Null /\ n # v
  BY <1>3, QueueAssumption DEF Links, QInv, Types, Nodes
<1>5. /\ next' \in [Nodes -> Items \cup {Null}] /\ next'[v] = n
      /\ \A x \in Nodes : x # v => next'[x] = next[x]
  BY <1>3, <1>4 DEF Links, QInv, Types
<1>6. linked \in Seq(Items) /\ linked' = Append(linked, n) /\ linked' \in Seq(Items)
  BY <1>3, <1>4, AppendProperties DEF Links, QInv, Types
<1>7. InSeq(linked') = InSeq(linked) \cup {n}
  BY <1>6, InAppend
<1>8. \A c \in Consumers : pc'[c] = pc[c]
  BY <1>1, ThreadsApart
<1>9. \A r \in Producers : r # p => pc'[r] = pc[r]
  BY <1>1, ThreadsApart
<1>10. ~Destroyed /\ Destroyed' = Destroyed /\ p \in Pushing
  BY <1>1, <1>2 DEF QInv, DestroyedKept, Pushing, Idle, Destroyed
<1>11. Held' = Held /\ Held \subseteq Stubs \cup {Null}
  BY <1>1, <1>8, ThreadsApart DEF Held, SetsTail, QInv, Types, Calls
<1>12. Used \subseteq Used' /\ n \notin Used /\ Null \notin Used
  <2>1. Null \notin InSeq(linked) /\ Null \notin live
    BY <1>6, QueueAssumption DEF QInv, Types, InSeq
  <2>2. QED
    BY <1>2, <1>4, <1>7, <1>11, <2>1 DEF Used
<1>13. /\ Contents \in Seq(Items) /\ Contents' \in Seq(Items)
       /\ v \in Reach => Contents' = Append(Contents, n)
       /\ v \notin Reach => Contents' = Contents /\ n \in overlapped
       /\ IsChain(Contents, head, next, linked)'
  <2>1. Contents \in Seq(Items)
    BY <1>10 DEF QInv, ChainKept, IsChain
  <2>2. Append(Contents, n) \in Seq(Items)
    BY <1>4, <2>1, AppendProperties
  <2>3. QED
    BY <1>3, <2>1, <2>2 DEF Links
<1>14. InSeq(Contents') = InSeq(Contents) \cup (IF v \in Reach THEN {n} ELSE {})
  BY <1>13, InAppend
<1>15. Reach \subseteq Reach' /\ Null \notin Reach
  BY <1>2, <1>10, <1>14, NullNotReached DEF Reach
<1> HIDE DEF n, v
<1>16. Types'
  BY <1>1, <1>2, <1>5, <1>6, <1>8, <1>9 DEF QInv, Types, ProducerPcs
<1>17. PushKept'
  <2>1. Once(linked')
    BY <1>4, <1>6, OnceGrow DEF QInv, PushKept, Once
  <2>2. PushAt(p)'
    BY <1>1, <1>4, <1>5, <1>7, <1>12 DEF PushAt, Idle, n, v
  <2>3. ASSUME NEW r \in Producers, r # p
        PROVE  PushAt(r)'
    <3>1. pc'[r] = pc[r] /\ reg'[r] = reg[r]
      BY <1>1, <1>9, <2>3
    <3>2. PushAt(r)
      BY DEF QInv, PushKept
    <3>3. reg[r].node # n
      BY <1>4, <2>3 DEF QInv, PushKept, n
    <3>4. pc[r] = "swing" => next'[reg[r].prev] = reg[r].node
      <4>1. pc[r] = "swing" => reg[r].node # Null /\ reg[r].prev \in Nodes
        BY <3>2, QueueAssumption DEF PushAt, Idle, Used, QInv, Types, InSeq, Nodes
      <4>2. QED
        BY <1>4, <1>5, <3>2, <4>1 DEF PushAt
    <3>5. QED
      BY <1>7, <1>12, <3>1, <3>2, <3>3, <3>4 DEF PushAt, Idle
  <2>4. QED
    BY <1>1, <2>1, <2>2, <2>3 DEF QInv, PushKept, Once
<1>18. NextKept'
  <2>1. ASSUME NEW x \in Nodes, next'[x] # Null
        PROVE  next'[x] \in InSeq(linked') /\ x \in InSeq(linked') \cup live'
    BY <1>2, <1>4, <1>5, <1>7, <2>1 DEF QInv, NextKept, Used
  <2>2. ASSUME NEW x \in InSeq(linked'), next'[x] # Null
        PROVE  Before(x, next'[x], linked')
    <3>1. CASE x = v
      <4>1. x \in InSeq(linked)
        BY <1>4, <1>7, <2>2, <3>1
      <4>2. QED
        BY <1>5, <1>6, <3>1, <4>1, BeforeLast
    <3>2. CASE x # v
      <4>1. x \in InSeq(linked) /\ next'[x] = next[x]
        <5>1. x \in Nodes
          BY <1>6, <2>2 DEF InSeq, Nodes
        <5>2. QED
          BY <1>4, <1>5, <1>7, <2>2, <3>2, <5>1
      <4>2. Before(x, next[x], linked)
        BY <2>2, <4>1 DEF QInv, NextKept
      <4>3. QED
        BY <1>6, <4>1, <4>2, BeforeGrow
    <3>3. QED
      BY <3>1, <3>2
  <2>3. QED
    BY <2>1, <2>2 DEF NextKept
<1>19. TailKept'
  <2>1. tail' \in Used' /\ tail \in Nodes
    BY <1>2, <1>10, <1>12, QueueAssumption DEF QInv, TailKept, Types, Destroyed, Used, InSeq, Nodes
  <2>2. CASE tail = v
    <3>1. next'[tail'] = n /\ next'[n] = Null
      BY <1>2, <1>4, <1>5, <2>2
    <3>2. \A r \in Producers : reg'[r].prev # n
      BY <1>1, <1>4, <1>12 DEF QInv, PushKept, PushAt
    <3>3. pc'[p] = "swing" /\ reg'[p].prev = tail'
      BY <1>1, <1>2, <2>2 DEF v
    <3>4. QED
      BY <2>1, <3>1, <3>2, <3>3 DEF TailKept, TailLags
  <2>3. CASE tail # v
    <3>1. next'[tail'] = next[tail]
      BY <1>2, <1>5, <2>1, <2>3
    <3>2. SUFFICES ASSUME next[tail] # Null PROVE TailLags'
      BY <2>1, <3>1 DEF TailKept, TailLags
    <3>3. TailLags
      BY <1>10 DEF QInv, TailKept
    <3>4. next[tail] # v /\ next[tail] \in Nodes
      BY <2>1, <3>2, <3>3 DEF TailLags, QInv, Types, v, Nodes
    <3>5. next'[next[tail]] = Null
      BY <1>5, <3>2, <3>3, <3>4 DEF TailLags
    <3>6. \E r \in Producers : pc'[r] = "swing" /\ reg'[r].prev = tail'
      BY <1>1, <1>2, <1>9, <3>2, <3>3 DEF TailLags
    <3>7. QED
      BY <1>1, <3>1, <3>2, <3>3, <3>5, <3>6 DEF TailLags
  <2>4. QED
    BY <2>2, <2>3
<1>20. ConsumerKept'
  <2>1. SUFFICES ASSUME NEW c \in Consumers, ~Idle(c) PROVE ConsumerAt(c)'
    <3>1. \A c \in Consumers : Idle(c) => ConsumerAt(c)'
      BY <1>8 DEF Idle, ConsumerAt, AtNext, AtAdvance, AtSetHead, AtSetTail, AtFree
    <3>2. Alone'
      BY <1>8 DEF QInv, ConsumerKept, Alone, Idle
    <3>3. QED
      BY <2>1, <3>1, <3>2 DEF ConsumerKept
  <2>2. mode = "concurrent"
    BY <1>10, <2>1 DEF QInv, ExclusiveKept, Exclusive, Consuming
  <2>3. ConsumerAt(c) /\ pc'[c] = pc[c] /\ reg'[c] = reg[c]
    BY <1>1, <1>8 DEF QInv, ConsumerKept
  <2>4. reg[c].op = "pop"
    BY <2>1, <2>2, <2>3 DEF ConsumerAt, ConsumerOps
  <2>5. n \in overlapped
    BY <1>10, <2>1 DEF QInv, LossKept, OverlapKept, Consuming, n
  <2>6. head \in Nodes
    BY <1>10 DEF QInv, Types, Destroyed
  <2>7. AtNext(c)' /\ AtFree(c)'
    BY <1>2, <2>3, <2>4 DEF ConsumerAt, AtNext, AtFree
  <2>8. AtAdvance(c)'
    <3>1. SUFFICES ASSUME pc[c] \in {"nextnext", "advance"} PROVE AtAdvance(c)'
      BY <2>3 DEF AtAdvance
    <3>2. reg[c].n = next[head] /\ reg[c].n # Null
      BY <2>3, <3>1 DEF ConsumerAt, AtAdvance
    <3>3. next'[head] = next[head]
      BY <1>4, <1>5, <2>6, <3>2
    <3>4. QED
      BY <1>2, <2>2, <2>3, <2>4, <3>2, <3>3 DEF AtAdvance, AllocMayFail
  <2>9. SetsTail(c) => next'[reg[c].s] = next[reg[c].s] \/ reg[c].s \notin live
    <3>1. SetsTail(c) => reg[c].s \in Held
      BY DEF Held
    <3>2. reg[c].s \in live => reg[c].s \in Nodes
      BY DEF QInv, Types, Nodes
    <3>3. QED
      BY <1>4, <1>5, <3>1, <3>2 DEF Used
  <2>10. AtSetHead(c)'
    <3>1. SUFFICES ASSUME pc[c] = "sethead" PROVE AtSetHead(c)'
      BY <2>3 DEF AtSetHead
    <3>2. next'[head] = next[head]
      BY <1>4, <1>5, <2>3, <2>4, <2>6, <3>1 DEF ConsumerAt, AtSetHead
    <3>3. InSeq(Contents') \subseteq InSeq(Contents) \cup {n}
      BY <1>14
    <3>4. QED
      BY <1>2, <2>3, <2>4, <2>5, <2>9, <3>1, <3>2, <3>3 DEF ConsumerAt, AtSetHead, SetsTail
  <2>11. AtSetTail(c)'
    BY <1>2, <2>2, <2>3, <2>9 DEF ConsumerAt, AtSetTail, SetsTail, Reclaims
  <2>12. QED
    BY <1>2, <2>3, <2>7, <2>8, <2>10, <2>11 DEF ConsumerAt, ConsumerOps, Idle
<1>21. ChainKept'
  <2>1. ASSUME next'[head'] # Null, NEW x \in InSeq(popped')
        PROVE  Before(x, next'[head'], linked')
    <3>1. x \in InSeq(linked)
      BY <1>2, <2>1 DEF QInv, PoppedKept
    <3>2. CASE head = v
      BY <1>2, <1>5, <1>6, <3>1, <3>2, BeforeLast
    <3>3. CASE head # v
      <4>1. next'[head'] = next[head]
        BY <1>2, <1>5, <1>10, <3>3 DEF QInv, Types, Destroyed
      <4>2. Before(x, next[head], linked)
        BY <1>2, <1>10, <2>1, <4>1 DEF QInv, ChainKept
      <4>3. QED
        BY <1>6, <4>1, <4>2, BeforeGrow
    <3>4. QED
      BY <3>2, <3>3
  <2>2. QED
    BY <1>2, <1>10, <1>13, <2>1 DEF QInv, ChainKept
<1>22. PoppedKept'
  <2>1. InSeq(popped') \subseteq InSeq(linked')
    BY <1>2, <1>7 DEF QInv, PoppedKept
  <2>2. \A i, j \in DOMAIN popped' : i < j => Before(popped'[i], popped'[j], linked')
    BY <1>2, <1>6, OrderIs, BeforeGrow DEF QInv, PoppedKept
  <2>3. QED
    BY <2>1, <2>2, OrderThen DEF PoppedKept
<1>23. DestroyedKept'
  BY <1>10 DEF DestroyedKept
<1>24. LossKept'
  <2>1. OverlapKept'
    BY <1>1, <1>2, <1>8, <1>9 DEF QInv, LossKept, OverlapKept, Pushing, Consuming, Idle
  <2>2. LossNeedsOverlap'
    <3>1. Lost \subseteq overlapped
      BY <1>10 DEF QInv, LossKept, LossNeedsOverlap
    <3>2. Lost' \subseteq overlapped
      BY <1>2, <1>7, <1>13, <1>14, <3>1 DEF Lost
    <3>3. QED
      BY <1>2, <3>2 DEF LossNeedsOverlap
  <2>3. TailReached'
    <3>1. SUFFICES ASSUME Settled PROVE tail \in Reach' \/ next'[tail] \in Reach'
      BY <1>2, <1>8, <1>10 DEF TailReached, Settled
    <3>2. CASE tail \in Reach
      BY <1>15, <3>2
    <3>3. CASE next[tail] \in Reach
      <4>1. tail \in Nodes /\ tail # v
        BY <1>4, <1>10, <1>15, <3>3, QueueAssumption DEF QInv, TailKept, Types, Destroyed,
           Used, InSeq, Nodes
      <4>2. QED
        BY <1>5, <1>15, <3>3, <4>1
    <3>4. QED
      BY <3>1, <3>2, <3>3 DEF QInv, LossKept, TailReached
  <2>4. PushReached'
    <3>1. SUFFICES ASSUME NEW r \in Producers, pc'[r] = "cas", reg'[r].node \notin overlapped',
                          next'[reg'[r].prev] = Null
                   PROVE  reg'[r].prev \in Reach'
      BY DEF PushReached
    <3>2. r # p /\ pc[r] = "cas" /\ reg'[r] = reg[r]
      BY <1>1, <1>9, <3>1
    <3>3. reg[r].prev \in Nodes
      BY <3>2, QueueAssumption DEF QInv, PushKept, PushAt, Idle, Used, Types, InSeq, Nodes
    <3>4. next[reg[r].prev] = Null
      BY <1>4, <1>5, <3>1, <3>2, <3>3
    <3>5. QED
      BY <1>2, <1>15, <3>1, <3>2, <3>4 DEF QInv, LossKept, PushReached
  <2>5. QED
    BY <2>1, <2>2, <2>3, <2>4 DEF LossKept
<1>25. ExclusiveKept'
  <2>1. SUFFICES ASSUME Exclusive PROVE ExclusiveKept'
    BY <1>2 DEF ExclusiveKept, Exclusive
  <2>2. overlapped = {} /\ Consuming = {} /\ tail \in Reach /\ linked = popped \o Contents
    BY <1>10, <2>1, QuietSettled DEF QInv, ExclusiveKept
  <2>3. Contents' = Append(Contents, n)
    BY <1>13, <2>2
  <2>4. linked' = popped \o Append(Contents, n)
    BY <1>4, <1>6, <1>13, <2>2, AppendConcat DEF QInv, Types
  <2>5. Consuming' = {}
    BY <1>8, <2>2 DEF Consuming, Idle
  <2>6. QED
    BY <1>2, <1>15, <2>2, <2>3, <2>4, <2>5 DEF ExclusiveKept
<1>26. MemoryKept'
  <2>1. n \notin freed
    BY <1>4 DEF QInv, MemoryKept, PoppedKept
  <2>2. Settled' = Settled
    BY <1>2, <1>8, <1>10 DEF Settled
  <2>3. QED
    BY <1>1, <1>2, <1>14, <2>1, <2>2 DEF QInv, MemoryKept, AllocMayFail, Reclaims
<1>27. QED
  BY <1>16, <1>17, <1>18, <1>19, <1>20, <1>21, <1>22, <1>23, <1>24, <1>25, <1>26 DEF QInv

(* A consumer's step that touches neither the list nor the tail. *)
Looks(c) ==
  /\ UNCHANGED <<head, tail, next, mode, freed, linked, popped>>
  /\ live \subseteq live' /\ live' \subseteq Stubs /\ Used' = Used
  /\ overlapped \subseteq overlapped' /\ overlapped' \subseteq Items
  /\ Exclusive => overlapped' = overlapped /\ Pushing = {}
  /\ pc' \in [Threads -> ProducerPcs \cup ConsumerPcs] /\ reg' \in [Threads -> Calls]
  /\ pc'[c] \in ConsumerPcs \ {"settail"} /\ pc[c] # "settail"
  /\ Others(c) /\ ~Destroyed

LEMMA RestIdle ==
  ASSUME QInv, NEW c \in Consumers, ~Idle(c)
  PROVE  \A d \in Consumers : d # c => Idle(d)
  BY DEF QInv, ConsumerKept, Alone

LEMMA OnlyOne ==
  ASSUME NEW c \in Consumers, Others(c), \A d \in Consumers : d # c => Idle(d),
         ConsumerAt(c)'
  PROVE  ConsumerKept'
<1>1. ASSUME NEW d \in Consumers, d # c
      PROVE  pc'[d] = "idle"
  BY <1>1, ThreadsApart DEF Others, Idle
<1>2. ASSUME NEW d \in Consumers, pc'[d] = "idle"
      PROVE  ConsumerAt(d)'
  BY <1>2 DEF ConsumerAt, Idle, AtNext, AtAdvance, AtSetHead, AtSetTail, AtFree
<1>3. \A d \in Consumers : ConsumerAt(d)'
  BY <1>1, <1>2
<1>4. Alone'
  BY <1>1 DEF Alone, Idle
<1>5. QED
  BY <1>3, <1>4 DEF ConsumerKept

LEMMA OverlapStays ==
  ASSUME QInv, NEW c \in Consumers, ~Idle(c), Others(c), overlapped \subseteq overlapped'
  PROVE  OverlapKept'
<1>1. \A p \in Producers : pc'[p] = pc[p] /\ reg'[p] = reg[p]
  BY ThreadsApart DEF Others
<1>2. \A p \in Pushing : reg[p].node \in overlapped
  BY DEF QInv, LossKept, OverlapKept, Consuming
<1>3. QED
  BY <1>1, <1>2 DEF OverlapKept, Pushing, Idle

LEMMA LooksKeeps ==
  ASSUME QInv, NEW c \in Consumers, Looks(c), ConsumerKept', OverlapKept'
  PROVE  QInv'
<1>1. UNCHANGED <<head, tail, next, mode, freed, linked, popped>>
  BY DEF Looks
<1>2. \A p \in Producers : pc'[p] = pc[p] /\ reg'[p] = reg[p]
  BY ThreadsApart DEF Others, Looks
<1>3. Contents' = Contents
  BY <1>1, ContentsStay
<1>4. Destroyed' = Destroyed /\ ~Destroyed /\ Settled' = Settled
  <2>1. \A d \in Consumers : pc'[d] = "settail" <=> pc[d] = "settail"
    BY ThreadsApart DEF Looks, Others
  <2>2. QED
    BY <1>1, <2>1 DEF Looks, Destroyed, Settled
<1>5. Types'
  <2>1. \A d \in Consumers : pc'[d] \in ConsumerPcs
    BY ThreadsApart DEF Looks, Others, QInv, Types
  <2>2. QED
    BY <1>1, <1>2, <2>1 DEF QInv, Types, Looks
<1>6. PushKept'
  BY <1>1, <1>2 DEF QInv, PushKept, PushAt, Idle, Looks
<1>7. NextKept'
  BY <1>1 DEF QInv, NextKept, Looks
<1>8. TailKept'
  BY <1>1, <1>2, <1>4 DEF QInv, TailKept, TailLags, Looks
<1>9. ChainKept' /\ PoppedKept'
  BY <1>1, <1>3, <1>4 DEF QInv, ChainKept, PoppedKept, PoppedInLinkOrder, Looks
<1>10. DestroyedKept'
  BY <1>4 DEF DestroyedKept
<1>11. LossKept'
  <2>1. Reach' = Reach /\ Lost' = Lost
    BY <1>1, <1>3 DEF Reach, Lost
  <2>2. LossNeedsOverlap'
    BY <1>4, <2>1 DEF QInv, LossKept, LossNeedsOverlap, Looks
  <2>3. TailReached'
    BY <1>1, <1>4, <2>1 DEF QInv, LossKept, TailReached
  <2>4. PushReached'
    BY <1>1, <1>2, <2>1 DEF QInv, LossKept, PushReached, Looks
  <2>5. QED
    BY <2>2, <2>3, <2>4 DEF LossKept
<1>12. ExclusiveKept'
  <2>1. Pushing' = Pushing /\ Reach' = Reach
    BY <1>1, <1>2, <1>3 DEF Pushing, Idle, Reach
  <2>2. QED
    BY <1>1, <1>3, <1>4, <2>1 DEF QInv, ExclusiveKept, Exclusive, Looks
<1>13. MemoryKept'
  BY <1>1, <1>2, <1>3, <1>4 DEF QInv, MemoryKept, AllocMayFail, Reclaims, Looks
<1>14. QED
  BY <1>5, <1>6, <1>7, <1>8, <1>9, <1>10, <1>11, <1>12, <1>13 DEF QInv

LEMMA ConsumerCallKeeps ==
  ASSUME QInv, Tame, NEW c \in Consumers, NEW op \in ConsumerOps \ {"destroy"},
         ConsumerCall(c, op)
  PROVE  QInv'
<1>1. /\ pc[c] = "idle" /\ pc'[c] = "next"
      /\ reg'[c].op = op /\ reg'[c].h = head /\ Others(c)
      /\ pc' \in [Threads -> ProducerPcs \cup ConsumerPcs] /\ reg' \in [Threads -> Calls]
  <2>1. c \in Threads /\ reg[c] \in Calls /\ head \in Nodes \cup {Null} /\ op \in Ops
    BY ThreadsApart DEF QInv, Types, ConsumerOps, Ops
  <2>2. PICK r : r = [reg[c] EXCEPT !.op = op, !.h = head]
    OBVIOUS
  <2>3. r \in Calls /\ r.op = op /\ r.h = head
    BY <2>1, <2>2 DEF Calls
  <2>4. reg' = [reg EXCEPT ![c] = r]
    BY <2>2 DEF ConsumerCall
  <2>5. Goto(c, "next") /\ pc[c] = "idle" /\ "next" \in ConsumerPcs
    BY DEF ConsumerCall, Idle, ConsumerPcs
  <2>6. QED
    BY <2>1, <2>3, <2>4, <2>5, GotoTo, RegTo DEF Others
<1>2. /\ UNCHANGED <<head, tail, next, mode, live, freed, linked, popped>>
      /\ ~Destroyed /\ (Exclusive => Pushing \cup Consuming = {})
      /\ overlapped' = overlapped \cup {reg[p].node : p \in Pushing}
  BY DEF ConsumerCall, qvars, mem
<1>3. Held' = Held
  BY <1>1, ThreadsApart DEF Held, SetsTail, Others
<1>4. overlapped' \subseteq Items
  BY <1>2 DEF QInv, Types, PushKept, PushAt, Pushing
<1>5. Looks(c)
  BY <1>1, <1>2, <1>3, <1>4 DEF Looks, QInv, Types, Used, ConsumerPcs
<1>6. ConsumerAt(c)'
  BY <1>1, <1>2 DEF ConsumerAt, Idle, AtNext, AtAdvance, AtSetHead, AtSetTail, AtFree,
     ConsumerOps
<1>7. \A d \in Consumers : d # c => Idle(d)
  BY <1>2 DEF Tame, Exclusive, Consuming
<1>8. ConsumerKept'
  BY <1>1, <1>6, <1>7, OnlyOne
<1>9. OverlapKept'
  <2>1. \A p \in Producers : pc'[p] = pc[p] /\ reg'[p] = reg[p]
    BY <1>1, ThreadsApart DEF Others
  <2>2. QED
    BY <1>2, <2>1 DEF OverlapKept, Pushing, Idle
<1>10. QED
  BY <1>5, <1>8, <1>9, LooksKeeps

(* What holds of any step inside a consumer's call. *)
LEMMA InsideCall ==
  ASSUME QInv, NEW c \in Consumers, ~Idle(c)
  PROVE  /\ ~Destroyed /\ (Exclusive => Pushing = {})
         /\ ConsumerAt(c) /\ reg[c] \in Calls /\ reg[c].op \in ConsumerOps
  BY ThreadsApart DEF QInv, DestroyedKept, ExclusiveKept, ConsumerKept, ConsumerAt, Consuming,
     Types

LEMMA ReturnKeeps ==
  ASSUME QInv, NEW c \in Consumers, ~Idle(c), ~SetsTail(c), Return(c),
         UNCHANGED <<head, tail, next, mode, live, freed, linked, popped, overlapped>>
  PROVE  QInv'
<1>1. /\ pc'[c] = "idle" /\ Others(c)
      /\ pc' \in [Threads -> ProducerPcs \cup ConsumerPcs] /\ reg' \in [Threads -> Calls]
  <2>1. Goto(c, "idle") /\ reg' = [reg EXCEPT ![c] = NoCall] /\ "idle" \in ConsumerPcs
    BY DEF Return, ConsumerPcs
  <2>2. QED
    BY <2>1, ThreadsApart, NoCallIn, GotoTo, RegTo DEF Others
<1>2. Held' = Held
  BY <1>1, ThreadsApart DEF Held, SetsTail, Others
<1>3. Looks(c)
  BY <1>1, <1>2, InsideCall DEF Looks, QInv, Types, Used, ConsumerPcs, SetsTail
<1>4. ConsumerAt(c)'
  BY <1>1 DEF ConsumerAt, Idle, AtNext, AtAdvance, AtSetHead, AtSetTail, AtFree
<1>5. QED
  BY <1>1, <1>3, <1>4, RestIdle, OnlyOne, OverlapStays, LooksKeeps

LEMMA LoadNextKeeps ==
  ASSUME QInv, Tame, NEW c \in Consumers, LoadNext(c)
  PROVE  QInv'
<1>1. pc[c] = "next" /\ ~Idle(c)
  BY DEF LoadNext, Idle
<1>2. /\ UNCHANGED <<head, tail, next, mode, live, freed, linked, popped, overlapped>>
      /\ ~Destroyed /\ (Exclusive => Pushing = {})
      /\ reg[c].op \in ConsumerOps /\ reg[c].h = head
  BY <1>1, InsideCall DEF LoadNext, qvars, mem, hist, ConsumerAt, AtNext
<1>3. CASE next[reg[c].h] = Null \/ reg[c].op = "peek"
  <2>1. Return(c) /\ ~SetsTail(c)
    BY <1>1, <1>3 DEF LoadNext, SetsTail
  <2>2. QED
    BY <1>1, <1>2, <2>1, ReturnKeeps
<1>4. CASE ~(next[reg[c].h] = Null \/ reg[c].op = "peek")
  <2>1. next[head] \in Items /\ reg[c].op = "pop"
    BY <1>2, <1>4 DEF QInv, Types, LoadNext, Destroyed
  <2>2. /\ pc'[c] = "nextnext" /\ Others(c)
        /\ reg'[c].op = "pop" /\ reg'[c].n = next[head]
        /\ pc' \in [Threads -> ProducerPcs \cup ConsumerPcs] /\ reg' \in [Threads -> Calls]
    <3>1. c \in Threads /\ reg[c] \in Calls
      BY ThreadsApart DEF QInv, Types
    <3>2. PICK r : r = [reg[c] EXCEPT !.n = next[head]]
      OBVIOUS
    <3>3. r \in Calls /\ r.op = "pop" /\ r.n = next[head]
      BY <2>1, <3>1, <3>2 DEF Calls
    <3>4. Goto(c, "nextnext") /\ reg' = [reg EXCEPT ![c] = r] /\ "nextnext" \in ConsumerPcs
      BY <1>2, <1>4, <3>2 DEF LoadNext, ConsumerPcs
    <3>5. QED
      BY <3>1, <3>3, <3>4, GotoTo, RegTo DEF Others
  <2>3. Held' = Held
    BY <1>1, <2>2, ThreadsApart DEF Held, SetsTail, Others
  <2>4. Looks(c)
    BY <1>1, <1>2, <2>2, <2>3 DEF Looks, QInv, Types, Used, ConsumerPcs
  <2>5. ConsumerAt(c)'
    BY <1>2, <1>4, <2>1, <2>2 DEF ConsumerAt, Idle, AtNext, AtAdvance, AtSetHead, AtSetTail,
       AtFree, ConsumerOps
  <2>6. QED
    BY <1>1, <1>2, <2>2, <2>4, <2>5, RestIdle, OnlyOne, OverlapStays, LooksKeeps
<1>5. QED
  BY <1>3, <1>4

LEMMA PopCountKeeps ==
  ASSUME QInv, Tame, NEW c \in Consumers, PopCount(c)
  PROVE  QInv'
<1>1. ~Idle(c) /\ ~SetsTail(c) /\ Return(c)
  BY DEF PopCount, Idle, SetsTail
<1>2. UNCHANGED <<head, tail, next, mode, live, freed, linked, popped, overlapped>>
  BY DEF PopCount, mem, hist
<1>3. QED
  BY <1>1, <1>2, ReturnKeeps

LEMMA DrainZeroKeeps ==
  ASSUME QInv, Tame, NEW c \in Consumers, DrainZero(c)
  PROVE  QInv'
<1>1. pc[c] = "zero" /\ ~Idle(c) /\ reg' = reg
  BY DEF DrainZero, Idle
<1>2. UNCHANGED <<head, tail, next, mode, live, freed, linked, popped, overlapped>>
  BY DEF DrainZero, mem, hist
<1>3. /\ pc'[c] = "free" /\ Others(c)
      /\ pc' \in [Threads -> ProducerPcs \cup ConsumerPcs] /\ reg' \in [Threads -> Calls]
  <2>1. Goto(c, "free") /\ "free" \in ConsumerPcs
    BY DEF DrainZero, ConsumerPcs
  <2>2. QED
    BY <1>1, <2>1, ThreadsApart, GotoTo DEF Others, QInv, Types
<1>4. Held' = Held
  BY <1>1, <1>3, ThreadsApart DEF Held, SetsTail, Others
<1>5. Looks(c)
  BY <1>1, <1>2, <1>3, <1>4, InsideCall DEF Looks, QInv, Types, Used, ConsumerPcs
<1>6. Contents' = Contents
  BY <1>2, ContentsStay
<1>7. ConsumerAt(c)'
  <2>1. ConsumerAt(c)
    BY <1>1, InsideCall
  <2>2. QED
    BY <1>1, <1>2, <1>3, <1>6, <2>1 DEF ConsumerAt, Idle, AtNext, AtAdvance, AtSetHead,
       AtSetTail, AtFree, ConsumerOps
<1>8. QED
  BY <1>1, <1>2, <1>3, <1>5, <1>7, RestIdle, OnlyOne, OverlapStays, LooksKeeps

(* A list whose first node has no successor has no other node. *)
LEMMA ChainOne ==
  ASSUME NEW q, NEW h, NEW nx, NEW lk, IsChain(q, h, nx, lk), q # <<>>, nx[q[1]] = Null
  PROVE  q = <<q[1]>> /\ InSeq(q) = {q[1]}
<1>1. PICK l \in Nat : l = Len(q)
  BY DEF IsChain
<1>2. l # 0 /\ 1 \in 0..l
  BY <1>1 DEF IsChain
<1>3. l = 1
  <2>1. SUFFICES ASSUME l # 1 PROVE FALSE
    OBVIOUS
  <2>2. nx[ChainNode(h, q, 1)] = q[1+1]
    BY <1>1, <1>2, <2>1 DEF IsChain
  <2>3. 1+1 \in 1..l
    BY <1>2, <2>1
  <2>4. q[1+1] \in Items
    BY <1>1, <2>3 DEF IsChain
  <2>5. QED
    BY <2>2, <2>4, QueueAssumption DEF ChainNode
<1>4. DOMAIN q = 1..1 /\ q \in Seq(Items) /\ Len(q) = 1
  <2>1. q \in Seq(Items) /\ Len(q) = 1
    BY <1>1, <1>3 DEF IsChain
  <2>2. QED
    BY <2>1
<1>5. InSeq(q) = {q[1]}
  BY <1>4 DEF InSeq
<1>6. q = <<q[1]>>
  BY <1>4
<1>7. QED
  BY <1>5, <1>6

(* A stub fresh from calloc: nothing leads to it and it was never freed. *)
Fresh(c, s) ==
  /\ s \in Stubs \ live /\ live' = live \cup {s}
  /\ reg'[c].s = s /\ pc'[c] = "sethead"

LEMMA FreshStub ==
  ASSUME QInv, NEW c \in Consumers, ~Idle(c), ~SetsTail(c), NEW s, Fresh(c, s), Others(c),
         linked' = linked
  PROVE  Used' = Used
<1>1. \A d \in Consumers : d # c => (SetsTail(d)' <=> SetsTail(d)) /\ reg'[d] = reg[d]
  BY ThreadsApart DEF Others, SetsTail
<1>2. SetsTail(c)' /\ reg'[c].s = s /\ ~SetsTail(c)
  BY DEF Fresh, SetsTail
<1>3. Held' = Held \cup {s}
  BY <1>1, <1>2 DEF Held
<1>4. s \notin InSeq(linked)
  BY QueueAssumption DEF Fresh, QInv, Types, InSeq
<1>5. QED
  BY <1>3, <1>4 DEF Used, Fresh

LEMMA FreshApart ==
  ASSUME QInv, ~Destroyed, NEW s \in Stubs \ live
  PROVE  next[s] = Null /\ s # head /\ s \notin freed
<1>1. s \notin InSeq(linked) /\ s \notin InSeq(popped) /\ s \in Nodes
  BY QueueAssumption DEF QInv, Types, InSeq, Nodes
<1>2. QED
  BY <1>1 DEF QInv, NextKept, ChainKept, MemoryKept

LEMMA LoadNextNextKeeps ==
  ASSUME QInv, Tame, NEW c \in Consumers, LoadNextNext(c)
  PROVE  QInv'
<1>1. pc[c] = "nextnext" /\ ~Idle(c) /\ ~SetsTail(c)
  BY DEF LoadNextNext, Idle, SetsTail
<1>2. UNCHANGED <<head, tail, next, mode, freed, linked, popped, overlapped>>
  BY DEF LoadNextNext, qvars, hist
<1>3. /\ ~Destroyed /\ (Exclusive => Pushing = {}) /\ reg[c] \in Calls
      /\ reg[c].op = "pop" /\ "pop" \in ConsumerOps
      /\ reg[c].n = next[head] /\ reg[c].n # Null
  BY <1>1, InsideCall DEF ConsumerAt, AtAdvance
<1>4. Contents' = Contents
  BY <1>2, ContentsStay
<1>5. c \in Threads
  BY ThreadsApart
<1>6. CASE next[reg[c].n] # Null
  <2>1. reg' = reg /\ live' = live
    BY <1>6 DEF LoadNextNext
  <2>2. /\ pc'[c] = "advance" /\ Others(c)
        /\ pc' \in [Threads -> ProducerPcs \cup ConsumerPcs] /\ reg' \in [Threads -> Calls]
    <3>1. Goto(c, "advance") /\ "advance" \in ConsumerPcs
      BY <1>6 DEF LoadNextNext, ConsumerPcs
    <3>2. QED
      BY <1>5, <2>1, <3>1, GotoTo DEF Others, QInv, Types
  <2>3. Held' = Held
    BY <1>1, <2>2, ThreadsApart DEF Held, SetsTail, Others
  <2>4. Looks(c)
    BY <1>1, <1>2, <1>3, <2>1, <2>2, <2>3 DEF Looks, QInv, Types, Used, ConsumerPcs
  <2>5. ConsumerAt(c)'
    BY <1>2, <1>3, <1>6, <2>1, <2>2 DEF ConsumerAt, Idle, AtNext, AtAdvance, AtSetHead,
       AtSetTail, AtFree, ConsumerOps
  <2>6. QED
    BY <1>1, <1>2, <2>2, <2>4, <2>5, RestIdle, OnlyOne, OverlapStays, LooksKeeps
<1>7. CASE next[reg[c].n] = Null
  <2>1. PICK s \in Stubs \cup {Null} :
          /\ Calloc(s) /\ reg' = [reg EXCEPT ![c].s = s]
          /\ Goto(c, IF s = Null THEN "advance" ELSE "sethead")
    BY <1>7 DEF LoadNextNext
  <2>2. PICK r : r = [reg[c] EXCEPT !.s = s]
    OBVIOUS
  <2>3. r \in Calls /\ r.op = "pop" /\ r.n = reg[c].n /\ r.s = s
    BY <1>3, <2>2 DEF Calls
  <2>4. reg' = [reg EXCEPT ![c] = r]
    BY <2>1, <2>2
  <2>5. /\ Others(c) /\ reg'[c] = r /\ pc'[c] = IF s = Null THEN "advance" ELSE "sethead"
        /\ pc' \in [Threads -> ProducerPcs \cup ConsumerPcs] /\ reg' \in [Threads -> Calls]
    BY <1>5, <2>1, <2>3, <2>4, GotoTo, RegTo DEF Others, ConsumerPcs
  <2>6. Looks(c) /\ ConsumerAt(c)'
    <3>1. CASE s = Null
      <4>1. AllocMayFail /\ live' = live
        BY <2>1, <3>1, QueueAssumption DEF Calloc
      <4>2. Held' = Held
        BY <1>1, <2>5, <3>1, ThreadsApart DEF Held, SetsTail, Others
      <4>3. Looks(c)
        BY <1>1, <1>2, <1>3, <2>5, <3>1, <4>1, <4>2 DEF Looks, QInv, Types, Used, ConsumerPcs
      <4>4. ConsumerAt(c)'
        BY <1>2, <1>3, <2>3, <2>5, <3>1, <4>1 DEF ConsumerAt, Idle, AtNext, AtAdvance,
           AtSetHead, AtSetTail, AtFree, ConsumerOps, AllocMayFail
      <4>5. QED
        BY <4>3, <4>4
    <3>2. CASE s # Null
      <4>1. Fresh(c, s)
        BY <2>1, <2>3, <2>5, <3>2 DEF Calloc, Fresh
      <4>2. Used' = Used
        BY <1>1, <1>2, <2>5, <4>1, FreshStub
      <4>3. next[s] = Null /\ s # head /\ s \notin freed
        BY <1>3, <4>1, FreshApart DEF Fresh
      <4>4. InSeq(Contents) \subseteq {reg[c].n}
        <5>1. IsChain(Contents, head, next, linked)
          BY <1>3 DEF QInv, ChainKept
        <5>2. Contents # <<>> /\ Contents[1] = reg[c].n
          BY <1>3, <5>1, ChainFirst
        <5>3. QED
          BY <1>7, <5>1, <5>2, ChainOne
      <4>5. Looks(c)
        BY <1>1, <1>2, <1>3, <2>5, <3>2, <4>1, <4>2 DEF Looks, QInv, Types, ConsumerPcs,
           Fresh, SetsTail
      <4>6. ConsumerAt(c)'
        BY <1>2, <1>3, <1>4, <2>3, <2>5, <3>2, <4>1, <4>3, <4>4 DEF ConsumerAt, Idle, AtNext,
           AtAdvance, AtSetHead, AtSetTail, AtFree, ConsumerOps, Fresh
      <4>7. QED
        BY <4>5, <4>6
    <3>3. QED
      BY <3>1, <3>2
  <2>7. QED
    BY <1>1, <1>2, <2>5, <2>6, RestIdle, OnlyOne, OverlapStays, LooksKeeps
<1>8. QED
  BY <1>6, <1>7

LEMMA DrainLoadKeeps ==
  ASSUME QInv, Tame, NEW c \in Consumers, DrainLoad(c)
  PROVE  QInv'
<1>1. pc[c] = "next" /\ ~Idle(c) /\ ~SetsTail(c)
  BY DEF DrainLoad, Idle, SetsTail
<1>2. UNCHANGED <<head, tail, next, mode, freed, linked, popped, overlapped>>
  BY DEF DrainLoad, qvars, hist
<1>3. /\ ~Destroyed /\ (Exclusive => Pushing = {}) /\ reg[c] \in Calls
      /\ reg[c].op = "drain" /\ "drain" \in ConsumerOps /\ reg[c].h = head
  BY <1>1, InsideCall DEF ConsumerAt, AtNext, DrainLoad
<1>4. ~AllocMayFail /\ head \in Nodes
  BY <1>3 DEF ConsumerOps, AllocMayFail, QInv, Types, Destroyed
<1>5. c \in Threads
  BY ThreadsApart
<1>6. PICK s \in Stubs \cup {Null} :
        /\ Calloc(s) /\ reg' = [reg EXCEPT ![c].n = next[reg[c].h], ![c].s = s]
        /\ Goto(c, IF s = Null THEN "free" ELSE "sethead")
  BY DEF DrainLoad
<1>7. s # Null
  BY <1>4, <1>6, QueueAssumption DEF Calloc
<1>8. PICK r : r = [reg[c] EXCEPT !.n = next[reg[c].h], !.s = s]
  OBVIOUS
<1>9. r \in Calls /\ r.op = "drain" /\ r.s = s /\ r.h = head
  BY <1>3, <1>4, <1>8 DEF Calls, QInv, Types
<1>10. reg' = [reg EXCEPT ![c] = r]
  BY <1>6, <1>8
<1>11. /\ Others(c) /\ reg'[c] = r /\ pc'[c] = "sethead"
       /\ pc' \in [Threads -> ProducerPcs \cup ConsumerPcs] /\ reg' \in [Threads -> Calls]
  BY <1>5, <1>6, <1>7, <1>9, <1>10, GotoTo, RegTo DEF Others, ConsumerPcs
<1>12. Fresh(c, s)
  BY <1>6, <1>7, <1>9, <1>11 DEF Calloc, Fresh
<1>13. Used' = Used
  BY <1>1, <1>2, <1>11, <1>12, FreshStub
<1>14. next[s] = Null /\ s # head /\ s \notin freed
  BY <1>3, <1>12, FreshApart DEF Fresh
<1>15. Looks(c)
  BY <1>1, <1>2, <1>3, <1>11, <1>12, <1>13 DEF Looks, QInv, Types, ConsumerPcs, Fresh, SetsTail
<1>16. ConsumerAt(c)'
  BY <1>2, <1>3, <1>9, <1>11, <1>12, <1>14 DEF ConsumerAt, Idle, AtNext, AtAdvance, AtSetHead,
     AtSetTail, AtFree, ConsumerOps, Fresh
<1>17. QED
  BY <1>1, <1>2, <1>11, <1>15, <1>16, RestIdle, OnlyOne, OverlapStays, LooksKeeps

-----------------------------------------------------------------------------
(* The stores of a consumer.                                               *)

LEMMA FirstRest ==
  ASSUME NEW q \in Seq(Items), q # <<>>
  PROVE  q[1] \in Items /\ Tail(q) \in Seq(Items) /\ InSeq(q) = {q[1]} \cup InSeq(Tail(q))
<1>1. PICK m \in Nat : Len(q) = m+1
  <2>1. Len(q) \in Nat /\ Len(q) # 0
    OBVIOUS
  <2>2. Len(q)-1 \in Nat /\ Len(q) = (Len(q)-1)+1
    BY <2>1
  <2>3. QED
    BY <2>2
<1>2. PICK r \in Seq(Items) : r = Tail(q)
  BY HeadTailProperties
<1>3. Len(r) = m /\ \A k \in 1..m : r[k] = q[k+1]
  BY <1>1, <1>2
<1>4. DOMAIN q = 1..(m+1) /\ DOMAIN r = 1..m
  BY <1>1, <1>3
<1>5. \A k \in 1..(m+1) : k = 1 \/ (k-1 \in 1..m /\ (k-1)+1 = k)
  OBVIOUS
<1>6. InSeq(q) \subseteq {q[1]} \cup InSeq(r)
  <2>1. ASSUME NEW k \in 1..(m+1)
        PROVE  q[k] \in {q[1]} \cup InSeq(r)
    <3>1. k # 1 => r[k-1] = q[k] /\ k-1 \in 1..m
      BY <1>3, <1>5
    <3>2. QED
      BY <1>4, <3>1 DEF InSeq
  <2>2. QED
    BY <1>4, <2>1 DEF InSeq
<1>7. InSeq(r) \subseteq InSeq(q) /\ q[1] \in InSeq(q)
  <2>1. \A k \in 1..m : k+1 \in 1..(m+1)
    OBVIOUS
  <2>2. 1 \in 1..(m+1)
    OBVIOUS
  <2>3. QED
    BY <1>3, <1>4, <2>1, <2>2 DEF InSeq
<1>8. QED
  BY <1>2, <1>4, <1>6, <1>7

LEMMA ShiftConcat ==
  ASSUME NEW s \in Seq(Items), NEW q \in Seq(Items), q # <<>>
  PROVE  s \o q = Append(s, q[1]) \o Tail(q)
<1>1. PICK l \in Nat : l = Len(s)
  OBVIOUS
<1>2. PICK m \in Nat : Len(q) = m+1
  <2>1. Len(q) \in Nat /\ Len(q) # 0
    OBVIOUS
  <2>2. Len(q)-1 \in Nat /\ Len(q) = (Len(q)-1)+1
    BY <2>1
  <2>3. QED
    BY <2>2
<1>3. PICK r \in Seq(Items) : r = Tail(q)
  BY HeadTailProperties
<1>4. Len(r) = m /\ \A k \in 1..m : r[k] = q[k+1]
  BY <1>2, <1>3
<1>5. PICK t \in Seq(Items) : t = Append(s, q[1])
  <2>1. q[1] \in Items
    BY <1>2
  <2>2. QED
    BY <2>1, AppendProperties
<1>6. Len(t) = l+1 /\ t[l+1] = q[1] /\ \A k \in 1..l : t[k] = s[k]
  BY <1>1, <1>5
<1>7. PICK a \in Seq(Items) : a = s \o q
  BY ConcatProperties
<1>8. PICK b \in Seq(Items) : b = t \o r
  BY ConcatProperties
<1>9. /\ Len(a) = l+(m+1)
      /\ \A k \in 1..(l+(m+1)) : a[k] = IF k <= l THEN s[k] ELSE q[k-l]
  <2>1. /\ Len(s \o q) = Len(s) + Len(q)
        /\ \A k \in 1..(Len(s) + Len(q)) :
             (s \o q)[k] = IF k <= Len(s) THEN s[k] ELSE q[k - Len(s)]
    BY ConcatProperties
  <2>2. QED
    BY <1>1, <1>2, <1>7, <2>1
<1>10. /\ Len(b) = (l+1)+m
       /\ \A k \in 1..((l+1)+m) : b[k] = IF k <= l+1 THEN t[k] ELSE r[k-(l+1)]
  <2>1. /\ Len(t \o r) = Len(t) + Len(r)
        /\ \A k \in 1..(Len(t) + Len(r)) :
             (t \o r)[k] = IF k <= Len(t) THEN t[k] ELSE r[k - Len(t)]
    BY ConcatProperties
  <2>2. QED
    BY <1>4, <1>6, <1>8, <2>1
<1>11. ASSUME NEW k \in 1..(l+m+1)
       PROVE  a[k] = b[k]
  <2>1. k \in 1..(l+(m+1)) /\ k \in 1..((l+1)+m)
    OBVIOUS
  <2>2. CASE k <= l
    BY <1>6, <1>9, <1>10, <2>1, <2>2
  <2>3. CASE k = l+1
    <3>1. k-l = 1 /\ ~(k <= l) /\ k <= l+1
      BY <2>3
    <3>2. QED
      BY <1>6, <1>9, <1>10, <2>1, <2>3, <3>1
  <2>4. CASE k > l+1
    <3>1. k-(l+1) \in 1..m /\ (k-(l+1))+1 = k-l /\ ~(k <= l) /\ ~(k <= l+1)
      BY <2>4
    <3>2. QED
      BY <1>4, <1>9, <1>10, <2>1, <3>1
  <2>5. QED
    BY <2>2, <2>3, <2>4
<1>12. a = b
  <2>1. Len(a) = Len(b) /\ \A k \in 1..Len(a) : a[k] = b[k]
    BY <1>9, <1>10, <1>11
  <2>2. QED
    BY <2>1, SeqEqual
<1>13. QED
  BY <1>3, <1>5, <1>7, <1>8, <1>12

(* With no push in progress the tail does not lag. *)
LEMMA TailQuiet ==
  ASSUME QInv, ~Destroyed, Pushing = {}
  PROVE  next[tail] = Null
  BY DEF QInv, TailKept, TailLags, Pushing, Idle

(* A list of one node, as seen by what is in it. *)
LEMMA ChainSingle ==
  ASSUME NEW q, NEW h, NEW nx, NEW lk, IsChain(q, h, nx, lk), Once(lk), q # <<>>,
         InSeq(q) \subseteq {q[1]}
  PROVE  q = <<q[1]>>
<1>1. PICK l \in Nat : l = Len(q)
  BY DEF IsChain
<1>2. l # 0 /\ DOMAIN q = 1..l
  BY <1>1 DEF IsChain
<1>3. l = 1
  <2>1. SUFFICES ASSUME l # 1 PROVE FALSE
    OBVIOUS
  <2>2. 1 \in 1..l /\ 2 \in 1..l /\ 1 < 2
    BY <1>2, <2>1
  <2>3. q[2] = q[1]
    BY <1>2, <2>2 DEF InSeq
  <2>4. Before(q[1], q[2], lk)
    BY <1>1, <2>2 DEF IsChain
  <2>5. QED
    BY <2>3, <2>4, BeforeNot
<1>4. q \in Seq(Items) /\ Len(q) = 1
  BY <1>1, <1>3 DEF IsChain
<1>5. QED
  BY <1>4

(* One more node taken, the next in the list. *)
LEMMA OrderGrows ==
  ASSUME QInv, ~Destroyed, next[head] # Null, linked' = linked,
         popped' = Append(popped, next[head])
  PROVE  PoppedKept' /\ InSeq(popped') = InSeq(popped) \cup {next[head]}
<1> DEFINE n == next[head]
<1>1. popped \in Seq(Items) /\ n \in InSeq(linked)
  BY DEF QInv, Types, NextKept, Destroyed
<1>2. \A x \in InSeq(popped) : Before(x, n, linked)
  BY DEF QInv, ChainKept
<1>3. PICK l \in Nat : l = Len(popped)
  BY <1>1
<1>4. /\ DOMAIN popped = 1..l /\ DOMAIN popped' = 1..(l+1) /\ popped'[l+1] = n
      /\ \A k \in 1..l : popped'[k] = popped[k]
  BY <1>1, <1>3
<1>5. ASSUME NEW i \in 1..(l+1), NEW j \in 1..(l+1), i < j
      PROVE  Before(popped'[i], popped'[j], linked')
  <2>1. i \in 1..l
    BY <1>5
  <2>2. CASE j \in 1..l
    <3>1. Before(popped[i], popped[j], linked)
      BY <1>4, <1>5, <2>1, <2>2, OrderIs DEF QInv, PoppedKept
    <3>2. QED
      BY <1>4, <2>1, <2>2, <3>1
  <2>3. CASE j = l+1
    <3>1. popped[i] \in InSeq(popped)
      BY <1>4, <2>1 DEF InSeq
    <3>2. QED
      BY <1>2, <1>4, <2>1, <2>3, <3>1
  <2>4. j \in 1..l \/ j = l+1
    BY <1>5
  <2>5. QED
    BY <2>2, <2>3, <2>4
<1>6. PoppedInLinkOrder'
  BY <1>4, <1>5, OrderThen
<1>7. InSeq(popped') = InSeq(popped) \cup {n}
  BY <1>1, InAppend
<1>8. QED
  BY <1>1, <1>6, <1>7 DEF PoppedKept, QInv

(* Taking the first node of the list. *)
Takes(n) ==
  /\ n = next[head] /\ n # Null /\ n \in Items /\ n \in InSeq(linked)
  /\ Contents \in Seq(Items) /\ Contents # <<>> /\ Contents[1] = n
  /\ Contents' = Tail(Contents) /\ popped' = Append(popped, n)
  /\ IsChain(Contents, head, next, linked)'

LEMMA AdvanceTakes ==
  ASSUME QInv, NEW c \in Consumers, Advance(c)
  PROVE  Takes(reg[c].n)
<1> DEFINE n == reg[c].n
<1>1. /\ pc[c] = "advance" /\ ~Idle(c) /\ head' = n /\ next' = next /\ linked' = linked
      /\ popped' = Append(popped, n)
  BY DEF Advance, Idle
<1>2. ~Destroyed /\ n = next[head] /\ n # Null
  BY <1>1, InsideCall DEF ConsumerAt, AtAdvance
<1>3. IsChain(Contents, head, next, linked) /\ Once(linked)
  BY <1>2 DEF QInv, ChainKept, PushKept, Types, Once
<1>4. Contents \in Seq(Items) /\ Contents # <<>> /\ Contents[1] = n
  BY <1>2, <1>3, ChainFirst DEF IsChain
<1>5. n \in Items /\ n \in InSeq(linked)
  BY <1>2 DEF QInv, Types, NextKept, Destroyed
<1>6. IsChain(Tail(Contents), n, next, linked)
  BY <1>3, <1>4, ChainTail
<1>7. Contents' = Tail(Contents)
  BY <1>1, <1>2, <1>3, <1>6, ChainIs, ContentsThen
<1>8. QED
  BY <1>1, <1>2, <1>4, <1>5, <1>6, <1>7 DEF Takes

(* What a consumer's store leaves alone. *)
Stores(c) ==
  /\ UNCHANGED <<next, mode, live, freed, linked, overlapped, reg>>
  /\ pc' \in [Threads -> ProducerPcs \cup ConsumerPcs]
  /\ pc'[c] \in ConsumerPcs /\ \A t \in Threads \ {c} : pc'[t] = pc[t]
  /\ ~Idle(c) /\ ~Destroyed /\ ~Destroyed'
  /\ Exclusive => Pushing = {}

LEMMA StoresKeeps ==
  ASSUME QInv, NEW c \in Consumers, Stores(c), head' \in Nodes \cup {Null},
         tail' \in Nodes \cup {Null}, popped' \in Seq(Items), Used \subseteq Used'
  PROVE  /\ Types' /\ PushKept' /\ NextKept' /\ DestroyedKept' /\ OverlapKept' /\ PushReached'
         /\ \A p \in Producers : pc'[p] = pc[p]
<1>1. /\ \A p \in Producers : pc'[p] = pc[p]
      /\ \A d \in Consumers : pc'[d] \in ConsumerPcs
  BY ThreadsApart DEF Stores, QInv, Types
<1>2. Types'
  BY <1>1 DEF QInv, Types, Stores
<1>3. PushKept'
  BY <1>1 DEF QInv, PushKept, PushAt, Idle, Stores
<1>4. NextKept'
  BY DEF QInv, NextKept, Stores
<1>5. DestroyedKept'
  BY DEF DestroyedKept, Stores
<1>6. \A p \in Pushing : reg[p].node \in overlapped
  BY DEF QInv, LossKept, OverlapKept, Consuming, Stores
<1>7. OverlapKept' /\ PushReached'
  BY <1>1, <1>6 DEF OverlapKept, PushReached, Pushing, Idle, Stores
<1>8. QED
  BY <1>1, <1>2, <1>3, <1>4, <1>5, <1>7

LEMMA StoreOthers ==
  ASSUME NEW c, Stores(c)
  PROVE  Others(c)
  BY DEF Stores, Others

LEMMA AdvanceKeeps ==
  ASSUME QInv, Tame, NEW c \in Consumers, Advance(c)
  PROVE  QInv'
<1> DEFINE n == reg[c].n
<1>1. pc[c] = "advance" /\ ~Idle(c) /\ head' = n /\ tail' = tail
  BY DEF Advance, Idle
<1>2. Takes(n)
  BY AdvanceTakes
<1>3. /\ n = next[head] /\ n # Null /\ n \in Items /\ n \in InSeq(linked) /\ n \in Nodes
      /\ Contents \in Seq(Items) /\ Contents # <<>> /\ Contents[1] = n
      /\ Contents' = Tail(Contents) /\ popped' = Append(popped, n)
      /\ IsChain(Contents, head, next, linked)'
  BY <1>2 DEF Takes, Nodes
<1>4. Stores(c) /\ pc'[c] = "dec"
  <2>1. Goto(c, "dec") /\ "dec" \in ConsumerPcs /\ c \in Threads
    BY ThreadsApart DEF Advance, ConsumerPcs
  <2>2. UNCHANGED <<next, mode, live, freed, linked, overlapped, reg>>
    BY DEF Advance, mem
  <2>3. ~Destroyed /\ ~Destroyed' /\ (Exclusive => Pushing = {})
    BY <1>1, <1>3, InsideCall DEF Destroyed
  <2>4. QED
    BY <1>1, <2>1, <2>2, <2>3, GotoTo DEF Stores
<1>5. /\ UNCHANGED <<next, mode, live, freed, linked, overlapped, reg>>
      /\ ~Destroyed /\ ~Destroyed' /\ (Exclusive => Pushing = {})
  BY <1>4 DEF Stores
<1>6. \A d \in Consumers : d # c => pc'[d] = "idle" /\ pc[d] = "idle"
  BY <1>1, <1>4, RestIdle, ThreadsApart DEF Stores, Idle
<1>7. Used' = Used
  <2>1. \A d \in Consumers : SetsTail(d)' <=> SetsTail(d)
    BY <1>1, <1>4, <1>6 DEF SetsTail
  <2>2. QED
    BY <1>5, <2>1 DEF Used, Held
<1>8. popped \in Seq(Items) /\ popped' \in Seq(Items)
  BY <1>3, AppendProperties DEF QInv, Types
<1>9. /\ Types' /\ PushKept' /\ NextKept' /\ DestroyedKept' /\ OverlapKept' /\ PushReached'
      /\ \A p \in Producers : pc'[p] = pc[p]
  BY <1>1, <1>3, <1>4, <1>7, <1>8, StoresKeeps DEF QInv, Types
<1>10. Settled /\ Settled'
  BY <1>1, <1>4, <1>5, <1>6 DEF Settled
<1>11. InSeq(Contents) = {n} \cup InSeq(Contents') /\ Reach' = {n} \cup InSeq(Contents')
  BY <1>1, <1>3, FirstRest DEF Reach
<1>12. PoppedKept' /\ InSeq(popped') = InSeq(popped) \cup {n}
  BY <1>3, <1>5, OrderGrows
<1> HIDE DEF n
<1>13. TailKept'
  BY <1>1, <1>5, <1>7, <1>9 DEF QInv, TailKept, TailLags
<1>14. ConsumerKept'
  <2>1. ConsumerAt(c)'
    <3>1. reg[c].op \in ConsumerOps
      BY <1>1, InsideCall
    <3>2. QED
      BY <1>4, <1>5, <3>1 DEF ConsumerAt, Idle, AtNext, AtAdvance, AtSetHead, AtSetTail, AtFree,
         ConsumerOps
  <2>2. QED
    BY <1>1, <1>4, <2>1, RestIdle, OnlyOne, StoreOthers
<1>15. ChainKept'
  <2>1. n \in InSeq(popped')
    BY <1>12
  <2>2. ASSUME next[n] # Null, NEW x \in InSeq(popped')
        PROVE  Before(x, next[n], linked)
    <3>1. Before(n, next[n], linked)
      BY <1>3, <2>2 DEF QInv, NextKept
    <3>2. CASE x = n
      BY <3>1, <3>2
    <3>3. CASE x \in InSeq(popped)
      <4>1. Before(x, n, linked)
        BY <1>3, <1>5, <3>3 DEF QInv, ChainKept
      <4>2. Once(linked)
        BY DEF QInv, PushKept, Types, Once
      <4>3. QED
        BY <3>1, <4>1, <4>2, BeforeTrans
    <3>4. QED
      BY <1>12, <3>2, <3>3
  <2>3. head' = n /\ next' = next /\ linked' = linked
    BY <1>1, <1>5 DEF n
  <2>4. QED
    BY <1>3, <2>1, <2>2, <2>3 DEF ChainKept
<1>16. LossKept'
  <2>1. LossNeedsOverlap'
    BY <1>5, <1>11, <1>12 DEF QInv, LossKept, LossNeedsOverlap, Lost
  <2>2. TailReached'
    <3>1. tail \in Reach' \/ next[tail] \in Reach'
      <4>1. CASE tail = head
        BY <1>3, <1>11, <4>1
      <4>2. CASE tail \in InSeq(Contents)
        BY <1>11, <4>2
      <4>3. CASE next[tail] = head
        <5>1. next[tail] # Null
          BY <1>5, <4>3 DEF Destroyed
        <5>2. next[head] = Null
          BY <1>5, <4>3, <5>1 DEF QInv, TailKept, TailLags
        <5>3. QED
          BY <1>3, <5>2
      <4>4. CASE next[tail] \in InSeq(Contents)
        BY <1>11, <4>4
      <4>5. QED
        BY <1>10, <4>1, <4>2, <4>3, <4>4 DEF QInv, LossKept, TailReached, Reach
    <3>2. QED
      BY <1>1, <1>5, <3>1 DEF TailReached
  <2>3. QED
    BY <1>9, <2>1, <2>2 DEF LossKept
<1>17. Exclusive => next[tail] = Null /\ tail \in InSeq(Contents)
  <2>1. Exclusive => next[tail] = Null /\ tail \in Reach
    BY <1>5, <1>10, TailQuiet DEF QInv, ExclusiveKept
  <2>2. QED
    BY <1>3, <2>1 DEF Reach
<1>18. ExclusiveKept'
  <2>1. SUFFICES ASSUME Exclusive PROVE ExclusiveKept'
    BY <1>5 DEF ExclusiveKept, Exclusive
  <2>2. linked' = popped' \o Contents'
    BY <1>3, <1>5, <1>8, <2>1, ShiftConcat DEF QInv, ExclusiveKept
  <2>3. Pushing' = {}
    BY <1>5, <1>9, <2>1 DEF Pushing, Idle
  <2>4. tail' \in Reach'
    BY <1>1, <1>11, <1>17, <2>1
  <2>5. QED
    BY <1>5, <2>1, <2>2, <2>3, <2>4 DEF QInv, ExclusiveKept, Exclusive
<1>19. MemoryKept'
  <2>1. Reclaims => tail # n
    <3>1. Reclaims => next[n] # Null
      BY <1>1, InsideCall DEF ConsumerAt, AtAdvance, Reclaims, AllocMayFail, n
    <3>2. QED
      BY <1>17, <3>1 DEF Reclaims, Exclusive
  <2>2. Reclaims => \A p \in Producers : reg[p].prev # n
    BY <1>3, <1>5 DEF Reclaims, Exclusive, QInv, PushKept, PushAt, Pushing
  <2>3. freed' = freed /\ live' = live /\ mode' = mode /\ tail' = tail /\ head' = n /\ reg' = reg
    BY <1>1, <1>5 DEF n
  <2>4. Reclaims => /\ freed \subseteq InSeq(popped') /\ tail \notin InSeq(popped')
                    /\ \A p \in Producers : reg[p].prev \notin InSeq(popped')
    BY <1>10, <1>12, <2>1, <2>2 DEF QInv, MemoryKept
  <2>5. mode = "drain" => ({n, tail} \cup InSeq(Contents')) \cap freed = {}
    BY <1>11 DEF QInv, MemoryKept
  <2>6. QED
    BY <1>12, <2>3, <2>4, <2>5 DEF QInv, MemoryKept, AllocMayFail, Reclaims
<1>20. QED
  BY <1>9, <1>12, <1>13, <1>14, <1>15, <1>16, <1>18, <1>19 DEF QInv

(* The store of a new stub to head empties the list. *)
Empties(c) ==
  /\ reg[c].s \in live /\ reg[c].s \in Nodes /\ reg[c].s # Null /\ next[reg[c].s] = Null
  /\ Contents' = <<>> /\ IsChain(Contents, head, next, linked)'
  /\ Contents \in Seq(Items) /\ popped' \in Seq(Items)
  /\ reg[c].op \in {"pop", "drain"}
  /\ reg[c].op = "pop" =>
       /\ reg[c].n = next[head] /\ reg[c].n # Null
       /\ popped' = Append(popped, next[head])
       /\ Exclusive => Contents = <<next[head]>>
  /\ reg[c].op = "drain" =>
       Exclusive /\ popped' = popped \o Contents /\ popped' = linked

LEMMA SetHeadEmpties ==
  ASSUME QInv, NEW c \in Consumers, SetHead(c)
  PROVE  Empties(c)
<1>1. /\ pc[c] = "sethead" /\ ~Idle(c) /\ head' = reg[c].s /\ next' = next /\ linked' = linked
      /\ popped' = popped \o (IF reg[c].op = "pop" THEN <<reg[c].n>> ELSE Contents)
  BY DEF SetHead, Idle
<1>2. ~Destroyed /\ AtSetHead(c) /\ reg[c].op \in ConsumerOps
  BY <1>1, InsideCall DEF ConsumerAt
<1>3. /\ reg[c].s \in live /\ next[reg[c].s] = Null /\ reg[c].s \in Nodes /\ reg[c].s # Null
      /\ reg[c].op \in {"pop", "drain"}
  BY <1>1, <1>2, QueueAssumption DEF AtSetHead, QInv, Types, Nodes
<1>4. IsChain(Contents, head, next, linked) /\ Once(linked) /\ popped \in Seq(Items)
  BY <1>2 DEF QInv, ChainKept, PushKept, Types, Once
<1>5. IsChain(<<>>, reg[c].s, next, linked)
  BY <1>3, ChainEmpty
<1>6. Contents' = <<>>
  BY <1>1, <1>3, <1>4, <1>5, ChainIs, ContentsThen
<1>7. IsChain(Contents, head, next, linked)'
  BY <1>1, <1>5, <1>6
<1>8. Contents \in Seq(Items)
  BY <1>4 DEF IsChain
<1>9. CASE reg[c].op = "pop"
  <2>1. /\ reg[c].n = next[head] /\ reg[c].n # Null
        /\ InSeq(Contents) \subseteq {reg[c].n} \cup overlapped
    BY <1>1, <1>2, <1>9 DEF AtSetHead
  <2>2. reg[c].n \in Items
    BY <1>2, <2>1 DEF QInv, Types, Destroyed
  <2>3. popped' = Append(popped, next[head]) /\ popped' \in Seq(Items)
    BY <1>1, <1>4, <1>9, <2>1, <2>2, AppendProperties, AppendIsConcat
  <2>4. Contents # <<>> /\ Contents[1] = next[head]
    BY <1>4, <2>1, ChainFirst
  <2>5. Exclusive => Contents = <<next[head]>>
    <3>1. Exclusive => InSeq(Contents) \subseteq {Contents[1]}
      BY <2>1, <2>4 DEF QInv, ExclusiveKept
    <3>2. QED
      BY <1>4, <2>4, <3>1, ChainSingle
  <2>6. QED
    BY <1>3, <1>6, <1>7, <1>8, <1>9, <2>1, <2>3, <2>5 DEF Empties
<1>10. CASE reg[c].op = "drain"
  <2>1. Exclusive
    BY <1>2, <1>10 DEF ConsumerOps, Exclusive
  <2>2. popped' = popped \o Contents
    BY <1>1, <1>10
  <2>3. popped' = linked /\ popped' \in Seq(Items)
    BY <1>2, <2>1, <2>2 DEF QInv, ExclusiveKept, Types
  <2>4. QED
    BY <1>3, <1>6, <1>7, <1>8, <1>10, <2>1, <2>2, <2>3 DEF Empties
<1>11. QED
  BY <1>3, <1>9, <1>10

(* What the store to head takes, counted in sets. *)
LEMMA EmptiesTakes ==
  ASSUME QInv, NEW c \in Consumers, ~Destroyed, linked' = linked, Empties(c)
  PROVE  /\ PoppedKept' /\ InSeq(popped) \subseteq InSeq(popped')
         /\ reg[c].op = "pop" => InSeq(popped') = InSeq(popped) \cup {reg[c].n}
         /\ reg[c].op = "drain" => InSeq(popped') = InSeq(linked)
<1>1. CASE reg[c].op = "pop"
  BY <1>1, OrderGrows DEF Empties
<1>2. CASE reg[c].op = "drain"
  <2>1. popped' = linked
    BY <1>2 DEF Empties
  <2>2. \A i, j \in DOMAIN popped' : i < j => Before(popped'[i], popped'[j], linked')
    BY <2>1 DEF Before
  <2>3. PoppedKept'
    BY <2>1, <2>2, OrderThen DEF PoppedKept
  <2>4. QED
    BY <1>2, <2>1, <2>3 DEF QInv, PoppedKept
<1>3. QED
  BY <1>1, <1>2 DEF Empties

LEMMA SetHeadKeeps ==
  ASSUME QInv, Tame, NEW c \in Consumers, SetHead(c)
  PROVE  QInv'
<1>1. pc[c] = "sethead" /\ ~Idle(c) /\ head' = reg[c].s /\ tail' = tail
  BY DEF SetHead, Idle
<1>2. Empties(c)
  BY SetHeadEmpties
<1>3. /\ reg[c].s \in live /\ reg[c].s \in Nodes /\ reg[c].s # Null /\ next[reg[c].s] = Null
      /\ Contents' = <<>> /\ IsChain(Contents, head, next, linked)'
      /\ popped' \in Seq(Items) /\ reg[c].op \in {"pop", "drain"}
  BY <1>2 DEF Empties
<1>4. Stores(c) /\ pc'[c] = "settail"
  <2>1. Goto(c, "settail") /\ "settail" \in ConsumerPcs /\ c \in Threads
    BY ThreadsApart DEF SetHead, ConsumerPcs
  <2>2. UNCHANGED <<next, mode, live, freed, linked, overlapped, reg>>
    BY DEF SetHead, mem
  <2>3. ~Destroyed /\ ~Destroyed' /\ (Exclusive => Pushing = {})
    BY <1>1, <1>3, InsideCall DEF Destroyed
  <2>4. QED
    BY <1>1, <2>1, <2>2, <2>3, GotoTo DEF Stores
<1>5. /\ UNCHANGED <<next, mode, live, freed, linked, overlapped, reg>>
      /\ ~Destroyed /\ ~Destroyed' /\ (Exclusive => Pushing = {})
  BY <1>4 DEF Stores
<1>6. \A d \in Consumers : d # c => pc'[d] = "idle" /\ pc[d] = "idle"
  BY <1>1, <1>4, RestIdle, ThreadsApart DEF Stores, Idle
<1>7. Used' = Used
  <2>1. \A d \in Consumers : SetsTail(d)' <=> SetsTail(d)
    BY <1>1, <1>4, <1>6 DEF SetsTail
  <2>2. QED
    BY <1>5, <2>1 DEF Used, Held
<1>8. /\ Types' /\ PushKept' /\ NextKept' /\ DestroyedKept' /\ OverlapKept' /\ PushReached'
      /\ \A p \in Producers : pc'[p] = pc[p]
  BY <1>1, <1>3, <1>4, <1>7, StoresKeeps DEF QInv, Types
<1>9. Settled /\ ~Settled'
  BY <1>1, <1>4, <1>5, <1>6 DEF Settled
<1>10. /\ PoppedKept' /\ InSeq(popped) \subseteq InSeq(popped')
       /\ reg[c].op = "pop" => InSeq(popped') = InSeq(popped) \cup {reg[c].n}
       /\ reg[c].op = "drain" => InSeq(popped') = InSeq(linked)
  BY <1>2, <1>5, EmptiesTakes
<1>11. /\ AtSetHead(c) /\ reg[c].op \in ConsumerOps
       /\ reg[c].s # head /\ reg[c].s \notin freed
  BY <1>1, InsideCall DEF ConsumerAt, AtSetHead
<1>12. TailKept'
  BY <1>1, <1>5, <1>7, <1>8 DEF QInv, TailKept, TailLags
<1>13. ConsumerKept'
  <2>1. Reclaims => tail = reg[c].n /\ reg[c].n \notin freed
    <3>1. SUFFICES ASSUME Reclaims PROVE tail = reg[c].n /\ reg[c].n \notin freed
      OBVIOUS
    <3>2. Exclusive /\ reg[c].op = "pop"
      BY <1>11, <3>1, <1>3 DEF Reclaims, Exclusive, ConsumerOps
    <3>3. next[tail] = Null /\ tail \in Reach
      BY <1>5, <1>9, <3>2, TailQuiet DEF QInv, ExclusiveKept
    <3>4. InSeq(Contents) \subseteq {reg[c].n} /\ next[head] # Null
      BY <1>1, <1>11, <3>2 DEF AtSetHead, QInv, ExclusiveKept
    <3>5. tail = reg[c].n
      BY <3>3, <3>4 DEF Reach
    <3>6. tail \notin freed
      BY <1>9, <3>1 DEF QInv, MemoryKept
    <3>7. QED
      BY <3>5, <3>6
  <2>2. AtSetTail(c)'
    BY <1>1, <1>3, <1>5, <2>1 DEF AtSetTail, Reclaims
  <2>3. AtFree(c)'
    <3>1. reg[c].op = "drain" => reg[c].h = head /\ head \in InSeq(popped) \cup live
      BY <1>1, <1>5, <1>11 DEF AtSetHead, QInv, ChainKept
    <3>2. QED
      BY <1>1, <1>3, <1>4, <1>5, <1>10, <1>11, <3>1 DEF AtFree
  <2>4. ConsumerAt(c)'
    BY <1>4, <1>5, <1>11, <2>2, <2>3 DEF ConsumerAt, Idle, AtNext, AtAdvance, AtSetHead,
       ConsumerOps
  <2>5. QED
    BY <1>1, <1>4, <2>4, RestIdle, OnlyOne, StoreOthers
<1>14. ChainKept'
  BY <1>1, <1>3, <1>5 DEF ChainKept
<1>15. LossKept'
  <2>1. LossNeedsOverlap'
    <3>1. Lost \subseteq overlapped
      BY <1>5 DEF QInv, LossKept, LossNeedsOverlap
    <3>2. CASE reg[c].op = "pop"
      <4>1. InSeq(Contents) \subseteq {reg[c].n} \cup overlapped
        BY <1>1, <1>11, <3>2 DEF AtSetHead
      <4>2. Lost' \subseteq overlapped
        BY <1>5, <1>10, <3>1, <3>2, <4>1 DEF Lost
      <4>3. QED
        BY <1>5, <4>2 DEF LossNeedsOverlap
    <3>3. CASE reg[c].op = "drain"
      BY <1>5, <1>10, <3>3 DEF LossNeedsOverlap, Lost
    <3>4. QED
      BY <1>3, <3>2, <3>3
  <2>2. TailReached'
    BY <1>9 DEF TailReached
  <2>3. QED
    BY <1>8, <2>1, <2>2 DEF LossKept
<1>16. ExclusiveKept'
  <2>1. SUFFICES ASSUME Exclusive PROVE ExclusiveKept'
    BY <1>5 DEF ExclusiveKept, Exclusive
  <2>2. linked = popped'
    <3>1. linked = popped \o Contents /\ popped \in Seq(Items)
      BY <1>5, <2>1 DEF QInv, ExclusiveKept, Types
    <3>2. CASE reg[c].op = "pop"
      <4>1. Contents = <<next[head]>> /\ popped' = Append(popped, next[head])
        BY <1>2, <2>1, <3>2 DEF Empties
      <4>2. next[head] \in Items
        BY <1>2, <1>5, <3>2 DEF Empties, QInv, Types, Destroyed
      <4>3. QED
        BY <3>1, <4>1, <4>2, AppendIsConcat
    <3>3. CASE reg[c].op = "drain"
      BY <1>2, <3>3 DEF Empties
    <3>4. QED
      BY <1>3, <3>2, <3>3
  <2>3. linked' = popped' \o Contents'
    BY <1>3, <1>5, <2>2, ConcatEmptySeq
  <2>4. Pushing' = {}
    BY <1>5, <1>8, <2>1 DEF Pushing, Idle
  <2>5. QED
    BY <1>5, <1>9, <2>1, <2>3, <2>4 DEF QInv, ExclusiveKept, Exclusive
<1>17. MemoryKept'
  <2>1. Reclaims => \A p \in Producers : reg[p].prev \notin InSeq(popped')
    <3>1. Null \notin InSeq(popped')
      BY <1>3, QueueAssumption DEF InSeq
    <3>2. QED
      BY <1>5, <3>1 DEF Reclaims, Exclusive, QInv, PushKept, PushAt, Pushing
  <2>2. InSeq(Contents') = {}
    BY <1>3 DEF InSeq
  <2>3. freed \subseteq InSeq(popped') \cup live /\ (Reclaims => freed \subseteq InSeq(popped'))
    BY <1>10 DEF QInv, MemoryKept
  <2>4. mode = "drain" => ({head', tail'} \cup InSeq(Contents')) \cap freed = {}
    BY <1>1, <1>11, <2>2 DEF QInv, MemoryKept
  <2>5. QED
    BY <1>5, <1>9, <2>1, <2>3, <2>4 DEF QInv, MemoryKept, AllocMayFail, Reclaims
<1>18. QED
  BY <1>8, <1>10, <1>12, <1>13, <1>14, <1>15, <1>16, <1>17 DEF QInv

(* The store of the new stub to tail brings the tail back to the list. *)
LEMMA SetTailKeeps ==
  ASSUME QInv, Tame, NEW c \in Consumers, SetTail(c)
  PROVE  QInv'
<1>1. pc[c] = "settail" /\ ~Idle(c) /\ head' = head /\ tail' = reg[c].s /\ popped' = popped
  BY DEF SetTail, Idle, hist
<1>2. AtSetTail(c) /\ AtFree(c) /\ reg[c].op \in ConsumerOps
  BY <1>1, InsideCall DEF ConsumerAt
<1>3. /\ head = reg[c].s /\ reg[c].s \in live /\ next[reg[c].s] = Null
      /\ reg[c].op \in {"pop", "drain"}
  BY <1>1, <1>2 DEF AtSetTail
<1>4. Stores(c) /\ pc'[c] = IF reg[c].op = "pop" THEN "dec" ELSE "zero"
  <2>1. /\ Goto(c, IF reg[c].op = "pop" THEN "dec" ELSE "zero") /\ c \in Threads
        /\ (IF reg[c].op = "pop" THEN "dec" ELSE "zero") \in ConsumerPcs
    BY ThreadsApart DEF SetTail, ConsumerPcs
  <2>2. UNCHANGED <<next, mode, live, freed, linked, overlapped, reg>>
    BY DEF SetTail, mem, hist
  <2>3. ~Destroyed /\ ~Destroyed' /\ (Exclusive => Pushing = {})
    BY <1>1, InsideCall DEF Destroyed
  <2>4. QED
    BY <1>1, <2>1, <2>2, <2>3, GotoTo DEF Stores
<1>5. /\ UNCHANGED <<next, mode, live, freed, linked, overlapped, reg>>
      /\ ~Destroyed /\ ~Destroyed' /\ (Exclusive => Pushing = {})
  BY <1>4 DEF Stores
<1>6. Contents' = Contents
  BY <1>1, <1>5, ContentsStay
<1>7. \A d \in Consumers : d # c => pc'[d] = "idle" /\ pc[d] = "idle"
  BY <1>1, <1>4, RestIdle, ThreadsApart DEF Stores, Idle
<1>8. Used \subseteq Used' /\ tail' \in Used'
  <2>1. Held' = {}
    BY <1>4, <1>7 DEF Held, SetsTail
  <2>2. QED
    BY <1>1, <1>3, <1>5, <2>1 DEF Used
<1>9. /\ Types' /\ PushKept' /\ NextKept' /\ DestroyedKept' /\ OverlapKept' /\ PushReached'
      /\ \A p \in Producers : pc'[p] = pc[p]
  BY <1>1, <1>3, <1>4, <1>8, StoresKeeps DEF QInv, Types
<1>10. Reach' = Reach /\ tail' \in Reach'
  BY <1>1, <1>3, <1>6 DEF Reach
<1>11. TailKept'
  BY <1>1, <1>3, <1>5, <1>8 DEF TailKept, TailLags
<1>12. ConsumerKept'
  <2>1. ConsumerAt(c)'
    BY <1>1, <1>2, <1>3, <1>4, <1>5, <1>6 DEF ConsumerAt, Idle, AtNext, AtAdvance, AtSetHead,
       AtSetTail, AtFree, ConsumerOps
  <2>2. QED
    BY <1>1, <1>4, <2>1, RestIdle, OnlyOne, StoreOthers
<1>13. ChainKept' /\ PoppedKept'
  BY <1>1, <1>5, <1>6 DEF QInv, ChainKept, PoppedKept, PoppedInLinkOrder
<1>14. LossKept'
  <2>1. LossNeedsOverlap'
    BY <1>1, <1>5, <1>6 DEF QInv, LossKept, LossNeedsOverlap, Lost
  <2>2. QED
    BY <1>9, <1>10, <2>1 DEF LossKept, TailReached
<1>15. ExclusiveKept'
  <2>1. Exclusive => Pushing' = {}
    BY <1>5, <1>9 DEF Pushing, Idle
  <2>2. QED
    BY <1>1, <1>5, <1>6, <1>10, <2>1 DEF QInv, ExclusiveKept, Exclusive
<1>16. MemoryKept'
  <2>1. reg[c].s \notin InSeq(popped)
    BY <1>3, QueueAssumption DEF QInv, Types, InSeq
  <2>2. QED
    BY <1>1, <1>3, <1>5, <1>6, <2>1 DEF QInv, MemoryKept, AllocMayFail, Reclaims
<1>17. QED
  BY <1>9, <1>11, <1>12, <1>13, <1>14, <1>15, <1>16 DEF QInv

-----------------------------------------------------------------------------
(* The steps that free memory.                                             *)

(* Freeing changes nothing else in the queue. *)
LEMMA FreeKeeps ==
  ASSUME QInv, UNCHANGED <<head, tail, next, mode, live, linked, popped, overlapped>>,
         freed' \in SUBSET Nodes, ~Destroyed,
         pc' \in [Threads -> ProducerPcs \cup ConsumerPcs], reg' \in [Threads -> Calls],
         \A p \in Producers : pc'[p] = pc[p] /\ reg'[p] = reg[p],
         \A c \in Consumers : (pc'[c] = pc[c] /\ reg'[c] = reg[c])
                              \/ (pc'[c] = "idle" /\ pc[c] = "free"),
         ConsumerKept', MemoryKept'
  PROVE  QInv'
<1>1. Contents' = Contents
  BY ContentsStay
<1>2. Held' = Held /\ Used' = Used
  <2>1. \A c \in Consumers : (SetsTail(c)' <=> SetsTail(c)) /\ (SetsTail(c) => reg'[c] = reg[c])
    BY DEF SetsTail
  <2>2. QED
    BY <2>1 DEF Held, Used
<1>3. Types'
  <2>1. \A c \in Consumers : pc'[c] \in ConsumerPcs
    BY DEF QInv, Types, ConsumerPcs
  <2>2. QED
    BY <2>1 DEF QInv, Types
<1>4. PushKept'
  BY <1>2 DEF QInv, PushKept, PushAt, Idle
<1>5. NextKept'
  BY DEF QInv, NextKept
<1>6. TailKept'
  BY <1>2 DEF QInv, TailKept, TailLags, Destroyed
<1>7. ChainKept' /\ PoppedKept'
  BY <1>1 DEF QInv, ChainKept, PoppedKept, PoppedInLinkOrder, Destroyed
<1>8. DestroyedKept'
  BY DEF DestroyedKept, Destroyed
<1>9. Reach' = Reach /\ Lost' = Lost /\ Pushing' = Pushing
  BY <1>1 DEF Reach, Lost, Pushing, Idle
<1>10. Settled' = Settled /\ (Consuming' # {} => Consuming # {})
  <2>1. \A c \in Consumers : pc'[c] = "settail" <=> pc[c] = "settail"
    OBVIOUS
  <2>2. Settled' <=> Settled
    BY <2>1 DEF Settled, Destroyed
  <2>3. Consuming' \subseteq Consuming
    BY DEF Consuming, Idle
  <2>4. QED
    BY <2>2, <2>3 DEF Settled
<1>11. LossKept'
  BY <1>9, <1>10 DEF QInv, LossKept, OverlapKept, LossNeedsOverlap, TailReached, PushReached,
     Destroyed, Pushing
<1>12. ExclusiveKept'
  BY <1>1, <1>9, <1>10 DEF QInv, ExclusiveKept, Exclusive, Destroyed
<1>13. QED
  BY <1>3, <1>4, <1>5, <1>6, <1>7, <1>8, <1>11, <1>12 DEF QInv

LEMMA DrainFreeKeeps ==
  ASSUME QInv, Tame, NEW c \in Consumers, DrainFree(c)
  PROVE  QInv'
<1>1. pc[c] = "free" /\ ~Idle(c) /\ freed' = freed \cup {reg[c].h}
  BY DEF DrainFree, Idle
<1>2. UNCHANGED <<head, tail, next, mode, live, linked, popped, overlapped>>
  BY DEF DrainFree, qvars, hist
<1>3. /\ pc'[c] = "idle" /\ Others(c)
      /\ pc' \in [Threads -> ProducerPcs \cup ConsumerPcs] /\ reg' \in [Threads -> Calls]
  <2>1. Goto(c, "idle") /\ reg' = [reg EXCEPT ![c] = NoCall] /\ "idle" \in ConsumerPcs
    BY DEF DrainFree, Return, ConsumerPcs
  <2>2. QED
    BY <2>1, ThreadsApart, NoCallIn, GotoTo, RegTo DEF Others
<1>4. /\ ~Destroyed /\ (Exclusive => Pushing = {}) /\ AtFree(c) /\ reg[c].op \in ConsumerOps
  BY <1>1, InsideCall DEF ConsumerAt
<1>5. /\ reg[c].op = "drain" /\ tail = head /\ reg[c].h # head
      /\ reg[c].h \in InSeq(popped) \cup live /\ Contents = <<>>
  BY <1>1, <1>4 DEF AtFree
<1>6. mode = "drain" /\ Pushing = {}
  BY <1>4, <1>5 DEF ConsumerOps, Exclusive
<1>7. reg[c].h \in Nodes /\ reg[c].h # Null
  BY <1>5, QueueAssumption DEF QInv, Types, InSeq, Nodes
<1>8. /\ \A p \in Producers : pc'[p] = pc[p] /\ reg'[p] = reg[p]
      /\ \A d \in Consumers : (pc'[d] = pc[d] /\ reg'[d] = reg[d])
                              \/ (pc'[d] = "idle" /\ pc[d] = "free")
  BY <1>1, <1>3, ThreadsApart DEF Others
<1>9. ConsumerKept'
  <2>1. ConsumerAt(c)'
    BY <1>3 DEF ConsumerAt, Idle, AtNext, AtAdvance, AtSetHead, AtSetTail, AtFree
  <2>2. QED
    BY <1>1, <1>3, <2>1, RestIdle, OnlyOne
<1>10. MemoryKept'
  <2>1. Contents' = Contents /\ InSeq(Contents) = {}
    BY <1>2, <1>5, ContentsStay DEF InSeq
  <2>2. \A p \in Producers : reg[p].prev = Null
    BY <1>6 DEF QInv, PushKept, PushAt, Pushing
  <2>3. mode' = "drain" /\ ~AllocMayFail' /\ ~Reclaims'
    BY <1>2, <1>6 DEF AllocMayFail, Reclaims
  <2>4. freed' \subseteq InSeq(popped') \cup live'
    BY <1>1, <1>2, <1>5 DEF QInv, MemoryKept
  <2>5. ({head', tail'} \cup InSeq(Contents')) \cap freed' = {}
    BY <1>1, <1>2, <1>5, <1>6, <2>1 DEF QInv, MemoryKept
  <2>6. \A p \in Producers : reg'[p].prev \notin freed'
    BY <1>1, <1>6, <1>7, <1>8, <2>2 DEF QInv, MemoryKept
  <2>7. QED
    BY <2>3, <2>4, <2>5, <2>6 DEF MemoryKept
<1>11. freed' \in SUBSET Nodes
  BY <1>1, <1>7 DEF QInv, Types
<1>12. QED
  BY <1>2, <1>3, <1>4, <1>8, <1>9, <1>10, <1>11, FreeKeeps

LEMMA CallerFreeKeeps ==
  ASSUME QInv, Tame, NEW n \in Items, CallerFree(n)
  PROVE  QInv'
<1>1. /\ mode = "reclaim" /\ n \in InSeq(popped) /\ \A c \in Consumers : reg[c].n # n
      /\ freed' = freed \cup {n}
      /\ UNCHANGED <<head, tail, next, mode, live, pc, reg, linked, popped, overlapped>>
  BY DEF CallerFree, Reclaims, qvars, hist
<1>2. ~Destroyed
  BY <1>1 DEF QInv, DestroyedKept
<1>3. Contents' = Contents
  BY <1>1, ContentsStay
<1>4. ConsumerKept'
  <2>1. ASSUME NEW c \in Consumers
        PROVE  ConsumerAt(c)'
    <3>1. reg[c].s \in live => reg[c].s # n
      BY QueueAssumption DEF QInv, Types
    <3>2. ConsumerAt(c)
      BY DEF QInv, ConsumerKept
    <3>3. AtSetHead(c)' /\ AtSetTail(c)'
      BY <1>1, <1>3, <3>1, <3>2 DEF ConsumerAt, AtSetHead, AtSetTail, Reclaims
    <3>4. QED
      BY <1>1, <1>3, <3>2, <3>3 DEF ConsumerAt, Idle, AtNext, AtAdvance, AtFree, ConsumerOps,
         AllocMayFail
  <2>2. Alone'
    BY <1>1 DEF QInv, ConsumerKept, Alone, Idle
  <2>3. QED
    BY <2>1, <2>2 DEF ConsumerKept
<1>5. MemoryKept'
  <2>1. mode' = "reclaim" /\ ~AllocMayFail' /\ Reclaims'
    BY <1>1 DEF AllocMayFail, Reclaims
  <2>2. freed' \subseteq InSeq(popped')
    BY <1>1 DEF QInv, MemoryKept, Reclaims
  <2>3. Settled' <=> Settled
    BY <1>1 DEF Settled, Destroyed
  <2>4. QED
    BY <1>1, <2>1, <2>2, <2>3 DEF QInv, MemoryKept, Reclaims
<1>6. freed' \in SUBSET Nodes
  BY <1>1 DEF QInv, Types, Nodes
<1>7. pc' \in [Threads -> ProducerPcs \cup ConsumerPcs] /\ reg' \in [Threads -> Calls]
  BY <1>1 DEF QInv, Types
<1>8. QED
  BY <1>1, <1>2, <1>4, <1>5, <1>6, <1>7, FreeKeeps

LEMMA NoHead ==
  ASSUME NEW nx
  PROVE  ContentsOf(Null, nx) = <<>>
<1>1. <<>> \in Seq(Items) /\ \A i, j \in 1..Len(<<>>) : i = j
  OBVIOUS
<1>2. Leads(<<>>, Null, nx)
  BY <1>1 DEF Leads
<1>3. QED
  BY <1>2, ContentsIs

LEMMA DestroyKeeps ==
  ASSUME QInv, Tame, NEW c \in Consumers, Destroy(c)
  PROVE  QInv'
<1>1. /\ mode = "exclusive" /\ Pushing \cup Consuming = {} /\ head' = Null /\ tail' = Null
      /\ UNCHANGED <<next, mode, live, freed, pc, reg, linked, popped, overlapped>>
  BY DEF Destroy, ConsumerOps, mem, hist, QInv, Types
<1>2. Destroyed'
  BY <1>1 DEF Destroyed
<1>3. Used' = Used
  BY <1>1 DEF Used, Held, SetsTail
<1>4. \A t \in Threads : pc[t] = "idle"
  BY <1>1 DEF Pushing, Consuming, Idle, Threads
<1>5. Types'
  BY <1>1 DEF QInv, Types
<1>6. PushKept'
  BY <1>1, <1>3 DEF QInv, PushKept, PushAt, Idle
<1>7. NextKept'
  BY <1>1 DEF QInv, NextKept
<1>8. TailKept' /\ ChainKept' /\ TailReached' /\ LossNeedsOverlap'
  BY <1>2 DEF TailKept, ChainKept, TailReached, Settled, LossNeedsOverlap
<1>9. ConsumerKept'
  BY <1>1, <1>4, ThreadsApart DEF ConsumerKept, Alone, ConsumerAt, Idle, AtNext, AtAdvance,
     AtSetHead, AtSetTail, AtFree
<1>10. PoppedKept'
  BY <1>1 DEF QInv, PoppedKept, PoppedInLinkOrder
<1>11. Pushing' = {} /\ Consuming' = {}
  BY <1>1 DEF Pushing, Consuming, Idle
<1>12. DestroyedKept'
  BY <1>1, <1>11 DEF DestroyedKept
<1>13. LossKept'
  <2>1. OverlapKept' /\ PushReached'
    BY <1>1, <1>4, <1>11, ThreadsApart DEF OverlapKept, PushReached
  <2>2. QED
    BY <1>8, <2>1 DEF LossKept
<1>14. ExclusiveKept'
  BY <1>1, <1>2, <1>11 DEF QInv, ExclusiveKept, Exclusive, Settled
<1>15. MemoryKept'
  BY <1>1 DEF QInv, MemoryKept, AllocMayFail, Reclaims
<1>16. QED
  BY <1>5, <1>6, <1>7, <1>8, <1>9, <1>10, <1>12, <1>13, <1>14, <1>15 DEF QInv

-----------------------------------------------------------------------------
(* The invariant holds in every behaviour.                                 *)

LEMMA InitKeeps == Init => QInv
<1>1. SUFFICES ASSUME Init PROVE QInv
  OBVIOUS
<1>2. /\ head = InitStub /\ tail = InitStub /\ next = [n \in Nodes |-> Null] /\ mode \in Modes
      /\ live = {InitStub} /\ freed = {} /\ pc = [t \in Threads |-> "idle"]
      /\ reg = [t \in Threads |-> NoCall] /\ linked = <<>> /\ popped = <<>> /\ overlapped = {}
  BY <1>1 DEF Init
<1>3. InSeq(linked) = {} /\ InSeq(popped) = {} /\ DOMAIN linked = {} /\ DOMAIN popped = {}
  BY <1>2 DEF InSeq
<1>4. InitStub \in Nodes /\ InitStub # Null /\ ~Destroyed /\ next[InitStub] = Null
  BY <1>2, QueueAssumption DEF Nodes, Destroyed
<1>5. \A t \in Threads : pc[t] = "idle" /\ reg[t] = NoCall
  BY <1>2
<1>6. Types
  <2>1. mode \in {"concurrent", "exclusive", "drain", "reclaim"}
    BY <1>2, QueueAssumption
  <2>2. /\ pc \in [Threads -> ProducerPcs \cup ConsumerPcs] /\ reg \in [Threads -> Calls]
        /\ \A p \in Producers : pc[p] \in ProducerPcs
        /\ \A c \in Consumers : pc[c] \in ConsumerPcs
    BY <1>2, <1>5, NoCallIn, ThreadsApart DEF ProducerPcs, ConsumerPcs
  <2>3. next \in [Nodes -> Items \cup {Null}] /\ linked \in Seq(Items) /\ popped \in Seq(Items)
    BY <1>2
  <2>4. QED
    BY <1>2, <1>4, <2>1, <2>2, <2>3, QueueAssumption DEF Types
<1>7. Pushing = {} /\ Consuming = {} /\ Held = {}
  BY <1>5 DEF Pushing, Consuming, Idle, Held, SetsTail, Threads
<1>8. IsChain(<<>>, head, next, linked) /\ Once(linked)
  BY <1>2, <1>3, <1>4, ChainEmpty DEF Once
<1>9. Contents = <<>>
  BY <1>2, <1>4, <1>8, ChainIs, ContentsAre
<1>10. PushKept
  BY <1>3, <1>5, ThreadsApart DEF PushKept, PushAt, Idle, NoCall
<1>11. NextKept
  BY <1>2, <1>3 DEF NextKept
<1>12. TailKept
  BY <1>2, <1>4, <1>7 DEF TailKept, TailLags, Used
<1>13. ConsumerKept
  BY <1>5, ThreadsApart DEF ConsumerKept, Alone, ConsumerAt, Idle, AtNext, AtAdvance,
     AtSetHead, AtSetTail, AtFree
<1>14. ChainKept /\ PoppedKept
  BY <1>2, <1>3, <1>4, <1>8, <1>9 DEF ChainKept, PoppedKept, PoppedInLinkOrder
<1>15. DestroyedKept
  BY <1>4 DEF DestroyedKept
<1>16. tail \in Reach /\ InSeq(Contents) = {}
  BY <1>2, <1>9 DEF Reach, InSeq
<1>17. LossKept
  BY <1>3, <1>5, <1>7, <1>16, ThreadsApart DEF LossKept, OverlapKept, LossNeedsOverlap, Lost,
     TailReached, PushReached
<1>18. ExclusiveKept
  <2>1. linked = popped \o Contents
    BY <1>2, <1>9
  <2>2. QED
    BY <1>2, <1>7, <1>16, <2>1 DEF ExclusiveKept
<1>19. MemoryKept
  BY <1>2, <1>3, <1>5, ThreadsApart DEF MemoryKept, NoCall
<1>20. QED
  BY <1>6, <1>10, <1>11, <1>12, <1>13, <1>14, <1>15, <1>17, <1>18, <1>19 DEF QInv

LEMMA StutterKeeps ==
  ASSUME QInv, UNCHANGED vars
  PROVE  QInv'
<1>1. UNCHANGED <<mode, head, tail, next, live, freed, pc, reg, linked, popped, overlapped>>
  BY DEF vars
<1>2. Contents' = Contents
  BY <1>1, ContentsStay
<1>3. Used' = Used /\ Reach' = Reach /\ Lost' = Lost /\ Pushing' = Pushing
      /\ Consuming' = Consuming /\ (Settled' <=> Settled) /\ (Destroyed' <=> Destroyed)
  BY <1>1, <1>2 DEF Used, Held, SetsTail, Reach, Lost, Pushing, Consuming, Idle, Settled,
     Destroyed
<1>4. Types' /\ PushKept' /\ NextKept'
  BY <1>1, <1>3 DEF QInv, Types, PushKept, PushAt, Idle, NextKept
<1>5. TailKept' /\ DestroyedKept' /\ ChainKept' /\ PoppedKept'
  BY <1>1, <1>2, <1>3 DEF QInv, TailKept, TailLags, DestroyedKept, ChainKept, PoppedKept,
     PoppedInLinkOrder
<1>6. ConsumerKept'
  BY <1>1, <1>2 DEF QInv, ConsumerKept, Alone, ConsumerAt, Idle, AtNext, AtAdvance,
     AtSetHead, AtSetTail, AtFree, ConsumerOps, AllocMayFail, Reclaims
<1>7. LossKept'
  BY <1>1, <1>3 DEF QInv, LossKept, OverlapKept, LossNeedsOverlap, TailReached, PushReached
<1>8. ExclusiveKept'
  BY <1>1, <1>2, <1>3 DEF QInv, ExclusiveKept, Exclusive
<1>9. MemoryKept'
  BY <1>1, <1>2, <1>3 DEF QInv, MemoryKept, AllocMayFail, Reclaims
<1>10. QED
  BY <1>4, <1>5, <1>6, <1>7, <1>8, <1>9 DEF QInv

LEMMA ModeFixed ==
  ASSUME [Next]_vars
  PROVE  mode' = mode
  BY DEF Next, PushStep, ConsumerStep, PushCall, PushCas, PushLoad, PushSwing, PushCount,
     ConsumerCall, LoadNext, LoadNextNext, Advance, SetHead, SetTail, PopCount, DrainLoad,
     DrainZero, DrainFree, Destroy, CallerFree, mem, vars

LEMMA NextKeeps ==
  ASSUME QInv, Tame, [Next]_vars
  PROVE  QInv'
<1>1. ASSUME NEW p \in Producers, PushStep(p)
      PROVE  QInv'
  <2>1. CASE PushCas(p)
    BY <2>1, PushRetryKeeps, PushLinkKeeps
  <2>2. CASE PushLoad(p)
    BY <2>2, PushLoadKeeps
  <2>3. CASE PushSwing(p)
    BY <2>3, PushSwingKeeps
  <2>4. CASE PushCount(p)
    BY <2>4, PushCountKeeps
  <2>5. QED
    BY <1>1, <2>1, <2>2, <2>3, <2>4 DEF PushStep
<1>2. ASSUME NEW p \in Producers, NEW n \in Items, PushCall(p, n)
      PROVE  QInv'
  BY <1>2, PushCallKeeps
<1>3. ASSUME NEW c \in Consumers, ConsumerStep(c)
      PROVE  QInv'
  <2>1. CASE LoadNext(c)
    BY <2>1, LoadNextKeeps
  <2>2. CASE LoadNextNext(c)
    BY <2>2, LoadNextNextKeeps
  <2>3. CASE Advance(c)
    BY <2>3, AdvanceKeeps
  <2>4. CASE SetHead(c)
    BY <2>4, SetHeadKeeps
  <2>5. CASE SetTail(c)
    BY <2>5, SetTailKeeps
  <2>6. CASE PopCount(c)
    BY <2>6, PopCountKeeps
  <2>7. CASE DrainLoad(c)
    BY <2>7, DrainLoadKeeps
  <2>8. CASE DrainZero(c)
    BY <2>8, DrainZeroKeeps
  <2>9. CASE DrainFree(c)
    BY <2>9, DrainFreeKeeps
  <2>10. QED
    BY <1>3, <2>1, <2>2, <2>3, <2>4, <2>5, <2>6, <2>7, <2>8, <2>9 DEF ConsumerStep
<1>4. ASSUME NEW c \in Consumers, NEW op \in ConsumerOps \ {"destroy"}, ConsumerCall(c, op)
      PROVE  QInv'
  BY <1>4, ConsumerCallKeeps
<1>5. ASSUME NEW c \in Consumers, Destroy(c)
      PROVE  QInv'
  BY <1>5, DestroyKeeps
<1>6. ASSUME NEW n \in Items, CallerFree(n)
      PROVE  QInv'
  BY <1>6, CallerFreeKeeps
<1>7. CASE UNCHANGED vars
  BY <1>7, StutterKeeps
<1>8. QED
  BY <1>1, <1>2, <1>3, <1>4, <1>5, <1>6, <1>7 DEF Next

(* In every behaviour whose consumers are serialized, the invariant holds. *)
THEOREM QueueInvariant == Spec => [](Tame => QInv)
<1>1. Init => (Tame => QInv)
  BY InitKeeps
<1>2. (Tame => QInv) /\ [Next]_vars => (Tame => QInv)'
  <2>1. SUFFICES ASSUME Tame => QInv, [Next]_vars, Tame' PROVE QInv'
    OBVIOUS
  <2>2. Tame
    BY <2>1, ModeFixed DEF Tame
  <2>3. QED
    BY <2>1, <2>2, NextKeeps
<1>3. QED
  BY <1>1, <1>2, PTL DEF Spec

(* The header's condition on the callers, for the modes considered. *)
Serialized == "concurrent" \in Modes => \A c, d \in Consumers : c = d

LEMMA SerializedTame ==
  ASSUME Serialized
  PROVE  Spec => []Tame
<1>1. Init => Tame
  BY DEF Init, Tame, Serialized
<1>2. Tame /\ [Next]_vars => Tame'
  BY ModeFixed DEF Tame
<1>3. QED
  BY <1>1, <1>2, PTL DEF Spec

LEMMA InvSound == QInv => QueueSound
<1>1. SUFFICES ASSUME QInv PROVE QueueSound
  OBVIOUS
<1>2. PoppedInLinkOrder
  BY <1>1 DEF QInv, PoppedKept
<1>3. mode \in {"concurrent", "exclusive", "drain", "reclaim"} /\ Null \notin freed
  BY <1>1, QueueAssumption DEF QInv, Types, Nodes
<1>4. QueueMemoryLive
  BY <1>1, <1>3 DEF QInv, MemoryKept, QueueMemoryLive, AllocMayFail, Reclaims
<1>5. Reclaims => tail \notin freed
  <2>1. SUFFICES ASSUME Reclaims PROVE tail \notin freed
    OBVIOUS
  <2>2. ~Destroyed
    BY <1>1, <2>1 DEF QInv, DestroyedKept, Reclaims
  <2>3. CASE Settled
    BY <1>1, <2>1, <2>3 DEF QInv, MemoryKept
  <2>4. CASE ~Settled
    BY <1>1, <2>1, <2>2, <2>4 DEF QInv, ConsumerKept, ConsumerAt, AtSetTail, Settled
  <2>5. QED
    BY <2>3, <2>4
<1>6. PushTouchesLiveMemory
  BY <1>1, <1>3, <1>5 DEF QInv, MemoryKept, PushTouchesLiveMemory, AllocMayFail, Reclaims,
     Pushing
<1>7. QED
  BY <1>2, <1>4, <1>6 DEF QueueSound

(* For any number of producers, items and stubs, and whatever races: with  *)
(* serialized consumers nodes come out once and in link order, and neither *)
(* the list nor a push uses freed memory.                                  *)
THEOREM QueueStaysSound ==
  ASSUME Serialized
  PROVE  Spec => []QueueSound
<1>1. Spec => []Tame
  BY SerializedTame
<1>2. QED
  BY <1>1, QueueInvariant, InvSound, PTL

(* With serialized consumers a linked node that is neither taken nor in    *)
(* the list was pushed while a consumer's call was in progress.            *)
THEOREM OnlyOverlapLoses ==
  ASSUME Serialized
  PROVE  Spec => []LossNeedsOverlap
<1>1. Spec => []Tame
  BY SerializedTame
<1>2. QInv => LossNeedsOverlap
  BY DEF QInv, LossKept
<1>3. QED
  BY <1>1, <1>2, QueueInvariant, PTL

-----------------------------------------------------------------------------
(* The queue implements FifoQueue.                                         *)

Stays == Contents' = Contents /\ popped' = popped

(* Every other step than the CAS on next, the stores to head and the       *)
(* destruction leaves the abstract queue as it is.                         *)
LEMMA RestStays ==
  ASSUME QInv, [Next]_vars
  PROVE  \/ Stays
         \/ \E p \in Producers : PushCas(p) /\ next[reg[p].prev] = Null
         \/ \E c \in Consumers : Advance(c) \/ SetHead(c) \/ Destroy(c)
<1>1. ASSUME NEW p \in Producers, NEW n \in Items, PushCall(p, n)
      PROVE  Stays
  <2>1. /\ n \notin InSeq(linked) /\ next' = [next EXCEPT ![n] = Null]
        /\ head' = head /\ popped' = popped
    BY <1>1 DEF PushCall
  <2>2. next[n] = Null
    BY <2>1, QueueAssumption DEF QInv, NextKept, Types, Nodes
  <2>3. next' = next
    BY <2>1, <2>2 DEF QInv, Types
  <2>4. QED
    BY <2>1, <2>3, ContentsStay DEF Stays
<1>2. ASSUME NEW p \in Producers, PushStep(p), ~(PushCas(p) /\ next[reg[p].prev] = Null)
      PROVE  Stays
  <2>1. head' = head /\ next' = next /\ popped' = popped
    BY <1>2 DEF PushStep, PushCas, PushLoad, PushSwing, PushCount, qvars, hist
  <2>2. QED
    BY <2>1, ContentsStay DEF Stays
<1>3. ASSUME NEW c \in Consumers, ConsumerStep(c), ~Advance(c), ~SetHead(c)
      PROVE  Stays
  <2>1. head' = head /\ next' = next /\ popped' = popped
    BY <1>3 DEF ConsumerStep, LoadNext, LoadNextNext, SetTail, PopCount, DrainLoad, DrainZero,
       DrainFree, qvars, hist
  <2>2. QED
    BY <2>1, ContentsStay DEF Stays
<1>4. ASSUME NEW c \in Consumers, NEW op \in ConsumerOps \ {"destroy"}, ConsumerCall(c, op)
      PROVE  Stays
  BY <1>4, ContentsStay DEF ConsumerCall, qvars, Stays
<1>5. ASSUME NEW n \in Items, CallerFree(n)
      PROVE  Stays
  BY <1>5, ContentsStay DEF CallerFree, qvars, hist, Stays
<1>6. CASE UNCHANGED vars
  BY <1>6, ContentsStay DEF vars, Stays
<1>7. QED
  BY <1>1, <1>2, <1>3, <1>4, <1>5, <1>6 DEF Next

LEMMA InSeqSame == ASSUME NEW s PROVE Fifo!InSeq(s) = InSeq(s)
  BY DEF Fifo!InSeq, InSeq

(* Each of the four takes effect on the abstract queue in one step. *)
LEMMA FifoStep ==
  ASSUME QInv, Exclusive, [Next]_vars
  PROVE  Fifo!Next \/ Stays
<1>1. Exclusive'
  BY ModeFixed DEF Exclusive
<1>2. ASSUME NEW p \in Producers, PushCas(p), next[reg[p].prev] = Null
      PROVE  Fifo!Push(reg[p].node) /\ reg[p].node \in Items
  <2>1. Links(p)
    BY <1>2, PushLinks
  <2>2. ~Destroyed /\ overlapped = {}
    BY <1>2 DEF QInv, DestroyedKept, ExclusiveKept, Pushing, Idle, PushCas
  <2>3. Contents' = Append(Contents, reg[p].node) /\ reg[p].node \in Items
    BY <2>1, <2>2 DEF Links
  <2>4. reg[p].node \notin InSeq(Contents) \cup InSeq(popped)
    <3>1. linked = popped \o Contents /\ popped \in Seq(Items) /\ Contents \in Seq(Items)
      BY <2>2 DEF QInv, ExclusiveKept, Types, ChainKept, IsChain
    <3>2. InSeq(linked) = InSeq(popped) \cup InSeq(Contents)
      BY <3>1, InConcat
    <3>3. QED
      BY <2>1, <3>2 DEF Links
  <2>5. popped' = popped
    BY <1>2 DEF PushCas
  <2>6. QED
    BY <1>1, <2>3, <2>4, <2>5, InSeqSame DEF Fifo!Push
<1>3. ASSUME NEW c \in Consumers, Advance(c)
      PROVE  Fifo!Pop
  <2>1. Takes(reg[c].n)
    BY <1>3, AdvanceTakes
  <2>2. Head(Contents) = reg[c].n
    BY <2>1 DEF Takes
  <2>3. QED
    BY <1>1, <2>1, <2>2 DEF Takes, Fifo!Pop
<1>4. ASSUME NEW c \in Consumers, SetHead(c)
      PROVE  Fifo!Pop \/ Fifo!Drain
  <2>1. Empties(c)
    BY <1>4, SetHeadEmpties
  <2>2. CASE reg[c].op = "pop"
    <3>1. Contents = <<next[head]>> /\ popped' = Append(popped, next[head]) /\ Contents' = <<>>
      BY <2>1, <2>2 DEF Empties
    <3>2. Contents # <<>> /\ Head(Contents) = next[head] /\ Tail(Contents) = <<>>
      BY <3>1
    <3>3. QED
      BY <1>1, <3>1, <3>2 DEF Fifo!Pop
  <2>3. CASE reg[c].op = "drain"
    BY <1>1, <2>1, <2>3 DEF Empties, Fifo!Drain
  <2>4. QED
    BY <2>1, <2>2, <2>3 DEF Empties
<1>5. ASSUME NEW c \in Consumers, Destroy(c)
      PROVE  Fifo!Destroy
  <2>1. head' = Null /\ popped' = popped
    BY <1>5 DEF Destroy, hist
  <2>2. Contents' = <<>>
    BY <2>1, ContentsThen, NoHead
  <2>3. QED
    BY <1>1, <2>1, <2>2 DEF Fifo!Destroy
<1>6. QED
  BY <1>2, <1>3, <1>4, <1>5, RestStays DEF Fifo!Next

(* For every value of the constants the list implements the contract       *)
(* FifoQueue when no pop overlaps another call: a push takes effect at its *)
(* CAS on next, a pop or a drain at its store to head.                     *)
THEOREM QueueImplementsFifo == Spec => ImplementsFifo
<1>1. Init => Fifo!Init
  <2>1. SUFFICES ASSUME Init PROVE Contents = <<>> /\ popped = <<>>
    BY DEF Fifo!Init
  <2>2. /\ head = InitStub /\ next = [n \in Nodes |-> Null] /\ linked = <<>> /\ popped = <<>>
    BY <2>1 DEF Init
  <2>3. next[InitStub] = Null /\ InitStub # Null
    BY <2>2, QueueAssumption DEF Nodes
  <2>4. IsChain(<<>>, head, next, linked) /\ Once(linked)
    BY <2>2, <2>3, ChainEmpty DEF Once
  <2>5. QED
    BY <2>2, <2>3, <2>4, ChainIs, ContentsAre
<1>2. (Tame => QInv) /\ [Next]_vars =>
        [Fifo!Next]_<<IF Exclusive THEN Contents ELSE <<>>, IF Exclusive THEN popped ELSE <<>> >>
  <2>1. SUFFICES ASSUME Tame => QInv, [Next]_vars
                 PROVE  [Fifo!Next]_<<IF Exclusive THEN Contents ELSE <<>>,
                                      IF Exclusive THEN popped ELSE <<>> >>
    OBVIOUS
  <2>2. Exclusive' <=> Exclusive
    BY <2>1, ModeFixed DEF Exclusive
  <2>3. CASE ~Exclusive
    BY <2>2, <2>3
  <2>4. CASE Exclusive
    <3>1. Tame
      BY <2>4 DEF Tame, Exclusive
    <3>2. Fifo!Next \/ Stays
      BY <2>1, <2>4, <3>1, FifoStep
    <3>3. QED
      BY <2>2, <2>4, <3>2 DEF Stays
  <2>5. QED
    BY <2>3, <2>4
<1>3. QED
  BY <1>1, <1>2, QueueInvariant, PTL DEF Spec, ImplementsFifo, Fifo!Spec

=============================================================================
