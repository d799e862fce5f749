---------------------------- MODULE LockFreeQueue ----------------------------
(***************************************************************************)
(* The linked-list queue of src/src/lr_lockfree_queue.h, one action for    *)
(* every atomic access to shared memory.  Nodes are embedded in the        *)
(* caller's data; a stub node keeps head and tail valid.                   *)
(*                                                                         *)
(* The loads and stores go through the lr_atomic_* wrappers, which are     *)
(* full barriers on every build, so the interleaving model is exact.       *)
(***************************************************************************)
EXTENDS Integers, Sequences, FiniteSets

CONSTANTS
  Producers,      \* threads that call lr_lfq_push
  Consumers,      \* threads that call lr_lfq_pop, _peek, _drain, _destroy
  Items,          \* caller's nodes; each is pushed at most once
  Stubs,          \* addresses calloc returns for stubs (bounds the stubs)
  InitStub,       \* the stub lr_lfq_init allocates
  Null,
  Modes           \* the ways of using the queue that are considered

ASSUME QueueAssumption ==
  /\ Producers \cap Consumers = {}
  /\ Items \cap Stubs = {}
  /\ Null \notin Items \cup Stubs
  /\ InitStub \in Stubs
  /\ IsFiniteSet(Items) /\ IsFiniteSet(Stubs)
  /\ Modes \subseteq {"concurrent", "exclusive", "drain", "reclaim"}

Nodes == Items \cup Stubs
Threads == Producers \cup Consumers

VARIABLES
  mode,           \* how the callers use the queue, fixed for a behaviour
  head, tail,     \* q->head, q->tail
  count,          \* q->count
  next,           \* next[n]: n->next
  live,           \* the stubs that calloc has returned
  freed,          \* the nodes that free() was called on
  pc,             \* pc[t]: the next atomic access of thread t
  reg,            \* reg[t]: the local variables of its call
  linked,         \* history: the nodes pushed, in the order of the CAS on next
  popped,         \* history: the nodes taken by pop and drain, in order
  overlapped      \* history: the nodes whose push overlapped a consumer's call

qvars == <<head, tail, count, next>>
mem   == <<mode, live, freed>>
hist  == <<linked, popped, overlapped>>
vars  == <<mode, head, tail, count, next, live, freed, pc, reg, linked, popped, overlapped>>

(* "concurrent": pops overlap pushes.  In the other modes the callers let  *)
(* no consumer call overlap another call; in "drain" they also drain, in   *)
(* "reclaim" they free the nodes that pop returns.  In the first two modes *)
(* calloc may fail.                                                        *)
Exclusive == mode # "concurrent"
Reclaims == mode = "reclaim"
AllocMayFail == mode \in {"concurrent", "exclusive"}
ConsumerOps == IF mode = "drain" THEN {"pop", "drain"}
               ELSE IF mode = "exclusive" THEN {"pop", "peek", "destroy"} ELSE {"pop"}

(* The locals of all calls: push has node and prev; pop has head (here h), *)
(* next (n), new_stub (s) and the operation it is part of.                 *)
NoCall == [op |-> "none", node |-> Null, prev |-> Null,
           h |-> Null, n |-> Null, s |-> Null]

InSeq(s) == {s[i] : i \in DOMAIN s}
Idle(t) == pc[t] = "idle"
Destroyed == head = Null
Pushing == {t \in Producers : ~Idle(t)}
Consuming == {t \in Consumers : ~Idle(t)}

(* The chain of nodes from head on, head itself excluded: what pop would   *)
(* return, in order.                                                       *)
NodeAt == LET at[k \in 0..Cardinality(Nodes)] ==
                IF k = 0 THEN head
                ELSE IF at[k-1] = Null THEN Null ELSE next[at[k-1]]
          IN at
Contents == LET at == NodeAt
                len == Cardinality({k \in 1..Cardinality(Nodes) : at[k] # Null})
            IN [k \in 1..len |-> at[k]]

(* lr_lfq_init *)
Init ==
  /\ mode \in Modes
  /\ head = InitStub /\ tail = InitStub /\ count = 0
  /\ next = [n \in Nodes |-> Null]
  /\ live = {InitStub} /\ freed = {}
  /\ pc = [t \in Threads |-> "idle"]
  /\ reg = [t \in Threads |-> NoCall]
  /\ linked = <<>> /\ popped = <<>> /\ overlapped = {}

Goto(t, l) == pc' = [pc EXCEPT ![t] = l]
Return(t) == Goto(t, "idle") /\ reg' = [reg EXCEPT ![t] = NoCall]

(* The behaviour of the program is defined only up to a dereference of a   *)
(* freed node; the model ends there.                                       *)
Valid(n) == n \notin freed

-----------------------------------------------------------------------------
(* lr_lfq_push *)

(* The call: node->next = NULL, then the first load of q->tail. *)
PushCall(p, n) ==
  /\ Idle(p) /\ ~Destroyed
  /\ Exclusive => Consuming = {}
  /\ n \notin InSeq(linked) /\ \A t \in Producers : reg[t].node # n
  /\ next' = [next EXCEPT ![n] = Null]
  /\ reg' = [reg EXCEPT ![p].op = "push", ![p].node = n, ![p].prev = tail]
  /\ overlapped' = IF Consuming = {} THEN overlapped ELSE overlapped \cup {n}
  /\ Goto(p, "cas")
  /\ UNCHANGED <<head, tail, count, mem, linked, popped>>

(* Mutant: a plain store in place of the CAS. *)
PushCas_plainStore(p) ==
  /\ pc[p] = "cas" /\ Valid(reg[p].prev)
  /\ next' = [next EXCEPT ![reg[p].prev] = reg[p].node]
  /\ linked' = Append(linked, reg[p].node)
  /\ Goto(p, "swing")
  /\ UNCHANGED <<head, tail, count, mem, reg, popped, overlapped>>

(* CAS(&prev->next, NULL, node): on failure the loop loads q->tail again. *)
PushCas(p) ==
  /\ pc[p] = "cas" /\ Valid(reg[p].prev)
  /\ IF next[reg[p].prev] = Null
       THEN /\ next' = [next EXCEPT ![reg[p].prev] = reg[p].node]
            /\ linked' = Append(linked, reg[p].node)
            /\ Goto(p, "swing")
       ELSE /\ Goto(p, "load")
            /\ UNCHANGED <<next, linked>>
  /\ UNCHANGED <<head, tail, count, mem, reg, popped, overlapped>>

PushLoad(p) ==
  /\ pc[p] = "load"
  /\ reg' = [reg EXCEPT ![p].prev = tail]
  /\ Goto(p, "cas")
  /\ UNCHANGED <<qvars, mem, hist>>

(* Mutant: the tail is left for "the next push" to fix. *)
PushSwing_missing(p) ==
  /\ pc[p] = "swing"
  /\ Goto(p, "inc")
  /\ UNCHANGED <<qvars, mem, reg, hist>>

(* CAS(&q->tail, prev, node), its result ignored *)
PushSwing(p) ==
  /\ pc[p] = "swing"
  /\ tail' = IF tail = reg[p].prev THEN reg[p].node ELSE tail
  /\ Goto(p, "inc")
  /\ UNCHANGED <<head, count, next, mem, reg, hist>>

PushCount(p) ==
  /\ pc[p] = "inc"
  /\ count' = count + 1
  /\ Return(p)
  /\ UNCHANGED <<head, tail, next, mem, hist>>

PushStep(p) == PushCas(p) \/ PushLoad(p) \/ PushSwing(p) \/ PushCount(p)

-----------------------------------------------------------------------------
(* Bound: a call that may need a stub begins only while one is left.       *)
StubLeft == AllocMayFail \/ Stubs \ live # {}

(* lr_lfq_pop, lr_lfq_peek (and lr_lfq_is_empty) and lr_lfq_drain begin    *)
(* with the same two loads.                                                *)

ConsumerCall(c, op) ==
  /\ Idle(c) /\ ~Destroyed /\ StubLeft
  /\ Exclusive => Pushing \cup Consuming = {}
  /\ reg' = [reg EXCEPT ![c].op = op, ![c].h = head]
  /\ overlapped' = overlapped \cup {reg[p].node : p \in Pushing}
  /\ Goto(c, "next")
  /\ UNCHANGED <<qvars, mem, linked, popped>>

(* The load of head->next ends a peek, and a pop of an empty queue. *)
LoadNext(c) ==
  /\ pc[c] = "next" /\ reg[c].op \in {"pop", "peek"} /\ Valid(reg[c].h)
  /\ IF next[reg[c].h] = Null \/ reg[c].op = "peek"
       THEN Return(c)
       ELSE /\ reg' = [reg EXCEPT ![c].n = next[reg[c].h]]
            /\ Goto(c, "nextnext")
  /\ UNCHANGED <<qvars, mem, hist>>

(* calloc of a stub; Null stands for its failure.  A stub calloc returns   *)
(* is zeroed, so its next is NULL.                                         *)
Calloc(s) ==
  \/ s \in Stubs \ live /\ live' = live \cup {s}
  \/ s = Null /\ AllocMayFail /\ UNCHANGED live

(* The load of next->next, and the allocation of a stub when next is last. *)
LoadNextNext(c) ==
  /\ pc[c] = "nextnext" /\ Valid(reg[c].n)
  /\ IF next[reg[c].n] # Null
       THEN Goto(c, "advance") /\ UNCHANGED <<reg, live>>
       ELSE \E s \in Stubs \cup {Null} :
              /\ Calloc(s)
              /\ reg' = [reg EXCEPT ![c].s = s]
              /\ Goto(c, IF s = Null THEN "advance" ELSE "sethead")
  /\ UNCHANGED <<qvars, mode, freed, hist>>

(* store(&q->head, next): more nodes follow, or the out-of-memory fallback *)
Advance(c) ==
  /\ pc[c] = "advance"
  /\ head' = reg[c].n
  /\ popped' = Append(popped, reg[c].n)
  /\ Goto(c, "dec")
  /\ UNCHANGED <<tail, count, next, mem, reg, linked, overlapped>>

(* store(&q->head, new_stub); from here on a drain owns the whole list.    *)
SetHead(c) ==
  /\ pc[c] = "sethead"
  /\ head' = reg[c].s
  /\ popped' = popped \o (IF reg[c].op = "pop" THEN <<reg[c].n>> ELSE Contents)
  /\ Goto(c, "settail")
  /\ UNCHANGED <<tail, count, next, mem, reg, linked, overlapped>>

(* Mutant: only the head is moved to the new stub. *)
SetTail_missing(c) ==
  /\ pc[c] = "settail"
  /\ Goto(c, IF reg[c].op = "pop" THEN "dec" ELSE "zero")
  /\ UNCHANGED <<qvars, mem, reg, hist>>

(* store(&q->tail, new_stub) *)
SetTail(c) ==
  /\ pc[c] = "settail"
  /\ tail' = reg[c].s
  /\ Goto(c, IF reg[c].op = "pop" THEN "dec" ELSE "zero")
  /\ UNCHANGED <<head, count, next, mem, reg, hist>>

PopCount(c) ==
  /\ pc[c] = "dec"
  /\ count' = count - 1
  /\ Return(c)
  /\ UNCHANGED <<head, tail, next, mem, hist>>

(* lr_lfq_drain: the load of the list, and the allocation of a new stub *)
DrainLoad(c) ==
  /\ pc[c] = "next" /\ reg[c].op = "drain" /\ Valid(reg[c].h)
  /\ \E s \in Stubs \cup {Null} :
       /\ Calloc(s)
       /\ reg' = [reg EXCEPT ![c].n = next[reg[c].h], ![c].s = s]
       /\ Goto(c, IF s = Null THEN "free" ELSE "sethead")
  /\ UNCHANGED <<qvars, mode, freed, hist>>

DrainZero(c) ==
  /\ pc[c] = "zero"
  /\ count' = 0
  /\ Goto(c, "free")
  /\ UNCHANGED <<head, tail, next, mem, reg, hist>>

(* free(head): the node q->head pointed to when the call began *)
DrainFree(c) ==
  /\ pc[c] = "free"
  /\ freed' = freed \cup {reg[c].h}
  /\ Return(c)
  /\ UNCHANGED <<qvars, mode, live, hist>>

(* lr_lfq_destroy(q, NULL), which the pool calls once the workers are      *)
(* joined: no other call is in progress.                                   *)
Destroy(c) ==
  /\ "destroy" \in ConsumerOps /\ ~Destroyed
  /\ Pushing \cup Consuming = {}
  /\ head' = Null /\ tail' = Null /\ count' = 0
  /\ UNCHANGED <<next, mem, pc, reg, hist>>

ConsumerStep(c) ==
  \/ LoadNext(c) \/ LoadNextNext(c)
  \/ Advance(c) \/ SetHead(c) \/ SetTail(c) \/ PopCount(c)
  \/ DrainLoad(c) \/ DrainZero(c) \/ DrainFree(c)

(* The caller frees a node once the pop that took it has returned. *)
CallerFree(n) ==
  /\ Reclaims
  /\ n \in InSeq(popped) \ freed
  /\ \A c \in Consumers : reg[c].n # n
  /\ freed' = freed \cup {n}
  /\ UNCHANGED <<qvars, mode, live, pc, reg, hist>>

-----------------------------------------------------------------------------
Next ==
  \/ \E p \in Producers : PushStep(p) \/ \E n \in Items : PushCall(p, n)
  \/ \E c \in Consumers :
       \/ ConsumerStep(c)
       \/ \E op \in ConsumerOps \ {"destroy"} : ConsumerCall(c, op)
       \/ Destroy(c)
  \/ \E n \in Items : CallerFree(n)

(* A thread inside a call keeps running; nothing makes it start a call. *)
Fairness ==
  /\ \A p \in Producers : WF_vars(PushStep(p))
  /\ \A c \in Consumers : WF_vars(ConsumerStep(c))

Spec == Init /\ [][Next]_vars
FairSpec == Spec /\ Fairness

-----------------------------------------------------------------------------
Lost == InSeq(linked) \ (InSeq(popped) \cup InSeq(Contents))

(* Nodes come out in the order in which the CAS on prev->next linked them, *)
(* none of them twice, even when pushes and the pop race.                  *)
PoppedInLinkOrder ==
  \A i, j \in DOMAIN popped : i < j =>
    \E k, l \in DOMAIN linked : k < l /\ linked[k] = popped[i] /\ linked[l] = popped[j]

(* A node is in the queue from the CAS of its push until a pop takes it,   *)
(* unless its push ran while a consumer's call was in progress: only that  *)
(* overlap loses nodes.                                                    *)
LossNeedsOverlap == ~Destroyed => Lost \subseteq overlapped

(* Every call that a thread begins returns (a push may retry, but only     *)
(* while other pushes make progress), as long as the callers free no node. *)
CallsReturn == \A t \in Threads : ~Idle(t) /\ ~Reclaims ~> Idle(t)

(* When no pop overlaps another call the list implements the contract      *)
(* FifoQueue: pushes that race each other take effect at the CAS on next,  *)
(* a pop at its store to head, and a failing calloc changes nothing.       *)
Fifo == INSTANCE FifoQueue
          WITH contents <- IF Exclusive THEN Contents ELSE <<>>,
               out <- IF Exclusive THEN popped ELSE <<>>
ImplementsFifo == Fifo!Spec

(* lr_lfq_drain leaves head, tail and everything reachable from head on    *)
(* memory that has not been freed.                                         *)
QueueMemoryLive ==
  ~Reclaims /\ ~Destroyed => ({head, tail} \cup InSeq(Contents)) \cap freed = {}

(* A push never touches a node its caller has freed: q->tail leaves the    *)
(* last node before pop returns it.                                        *)
PushTouchesLiveMemory ==
  /\ tail \notin freed
  /\ \A p \in Pushing : reg[p].prev \notin freed

(* Whatever races, the list is sound: nodes come out in link order and     *)
(* neither the list nor a push uses memory that was freed.                 *)
QueueSound == PoppedInLinkOrder /\ QueueMemoryLive /\ PushTouchesLiveMemory

-----------------------------------------------------------------------------
(* What the comments of the header promise; TLC refutes it.                *)

(* "lr_lfq_push: safe for multiple concurrent producers": a pushed node    *)
(* is popped or still reachable from head.                                 *)
NoLostNode == ~Destroyed => Lost = {}
=============================================================================
