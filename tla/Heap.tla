-------------------------------- MODULE Heap --------------------------------
(***************************************************************************)
(* Reference counts, WeakRef and FinalizationRegistry                      *)
(* (src/engine/lr_engine.c, src/lr_builtins_extra.c).  An object is freed  *)
(* by whoever drops its last reference, at once, and frees what it refers  *)
(* to; a target of WeakRefs stays, pending, until the last of them is      *)
(* freed; the entries of a registry are one list that is walked while the  *)
(* values of its entries are released.                                     *)
(*                                                                         *)
(* An object is a plain object with one property or a WeakRef.  Registries *)
(* and their callbacks are kept by the program.  The operators take and    *)
(* return the heap, a record, as the C functions change it in place; they  *)
(* are recursive, so this module is for TLC.  Allocation failures, strings *)
(* and teardown are left out.                                              *)
(***************************************************************************)
EXTENDS Integers, Sequences, SequencesExt, FiniteSetsExt, FiniteSets

CONSTANTS Objects,           \* bound: the objects that can be created
          None,              \* no object: undefined or a primitive value
          MaxRegistrations,  \* bound: calls of register
          MaxVars            \* bound: references of the program to one object

ASSUME NoneAssumption == None \notin Objects

VARIABLES
    heap,          \* what the engine keeps, see Init
    held,          \* object -> references the program has to it
    registered,    \* how many registrations there were
    unregistered,  \* registrations that unregister removed
    revived        \* objects handed out by deref after their finalization

vars == <<heap, held, registered, unregistered, revived>>

Init ==
    /\ heap = [ state      |-> [o \in Objects |-> "new"],  \* new, live, freed
                ref        |-> [o \in Objects |-> 0],      \* ref_count
                weak       |-> [o \in Objects |-> 0],      \* weak_ref_count
                pending    |-> [o \in Objects |-> FALSE],  \* finalization_pending
                prop       |-> [o \in Objects |-> None],   \* strong reference
                target     |-> [o \in Objects |-> None],   \* of a WeakRef
                entries    |-> <<>>,                       \* finalization_entries
                jobs       |-> <<>>,                       \* finalization jobs
                called     |-> <<>>,                       \* registrations whose job has run
                freeing    |-> None,                       \* lr_freeing_object
                last       |-> FALSE,    \* an entry held the last reference to a value
                fault      |-> FALSE ]   \* freed memory was used
    /\ held = [o \in Objects |-> 0]
    /\ registered = 0 /\ unregistered = {} /\ revived = {}

-----------------------------------------------------------------------------
(* The engine                                                              *)

RECURSIVE Release(_, _), FreeObject(_, _), WeakRelease(_, _), Walk(_, _, _, _)

(* lr_dup_value                                                            *)
Dup(h, o) == IF o = None THEN h ELSE [h EXCEPT !.ref[o] = @ + 1]

Fault(h) == [h EXCEPT !.fault = TRUE]

HasRegistrations(h, o) == \E i \in DOMAIN h.entries : h.entries[i].target = o

(* The last reference is gone but WeakRefs or registrations are not: the   *)
(* jobs are queued, and the object is freed unless a WeakRef keeps it.     *)
Defer(h, o) ==
    LET g == Walk([h EXCEPT !.ref[o] = 0, !.pending[o] = TRUE], "target", o, 0)
    IN  IF g.state[o] = "freed" THEN Fault(g)
        ELSE IF g.weak[o] = 0 THEN FreeObject(g, o) ELSE g

(* Mutant: registrations do not defer the release. *)
Release_weakOnly(h, o) ==
    LET g == [h EXCEPT !.ref[o] = @ - 1]
    IN  IF o = None THEN h
        ELSE IF h.state[o] = "freed" THEN Fault(h)
        ELSE IF g.ref[o] > 0 \/ g.pending[o] THEN g
        ELSE IF g.weak[o] > 0 THEN Defer(g, o)
        ELSE FreeObject(g, o)

(* lr_free_value, lr_object_release                                        *)
Release(h, o) ==
    LET g == [h EXCEPT !.ref[o] = @ - 1]
    IN  IF o = None THEN h
        ELSE IF h.state[o] = "freed" THEN Fault(h)
        ELSE IF g.ref[o] > 0 \/ g.pending[o] THEN g
        ELSE IF g.weak[o] > 0 \/ HasRegistrations(g, o) THEN Defer(g, o)
        ELSE FreeObject(g, o)

(* Mutant: the macro frees the object itself as well. *)
FreeIfHeap_twice(h, o) ==
    LET g == [h EXCEPT !.ref[o] = @ - 1]
    IN  IF h.state[o] = "freed" THEN Fault(h)
        ELSE IF g.ref[o] <= 0 THEN Release(FreeObject(g, o), o) ELSE g

(* FREE_IF_HEAP: counts down itself, and lets lr_free_value count again.   *)
FreeIfHeap(h, o) ==
    LET g == [h EXCEPT !.ref[o] = @ - 1]
    IN  IF h.state[o] = "freed" THEN Fault(h) ELSE IF g.ref[o] <= 0 THEN Release(g, o) ELSE g

(* The property and the target are cleared before they are released; an    *)
(* object that is just being freed is left alone.                          *)
FreeObject(h, o) ==
    LET a == [h EXCEPT !.freeing = o, !.pending[o] = FALSE, !.prop[o] = None]
        b == Release(a, h.prop[o])
        c == WeakRelease([b EXCEPT !.target[o] = None], b.target[o])
        d == [c EXCEPT !.freeing = h.freeing, !.state[o] = "freed"]
    IN  IF o = h.freeing THEN h ELSE IF c.state[o] = "freed" THEN Fault(d) ELSE d

WeakRelease(h, t) ==
    LET g == [h EXCEPT !.weak[t] = Max({@ - 1, 0})]
    IN  IF t = None THEN h
        ELSE IF h.state[t] = "freed" THEN Fault(h)
        ELSE IF g.weak[t] = 0 /\ g.pending[t] THEN FreeObject(g, t) ELSE g

(* The entry behind entry id (0: the first).                               *)
Behind(h, id) ==
    IF id = 0 THEN 1 ELSE 1 + SelectInSeq(h.entries, LAMBDA e : e.id = id)

(* Mutant: the job borrows the reference of the entry. *)
EnqueueJob_borrow(h, e) == [h EXCEPT !.jobs = Append(@, [id |-> e.id, value |-> e.value])]

(* lr_enqueue_finalization_job: the job has its own reference.             *)
EnqueueJob(h, e) == Dup([h EXCEPT !.jobs = Append(@, [id |-> e.id, value |-> e.value])], e.value)

(* Releases a value of an entry.                                           *)
ReleaseLast(h, o) ==
    Release(IF o # None /\ h.ref[o] = 1 THEN [h EXCEPT !.last = TRUE] ELSE h, o)

(* The entries whose field by is o leave the list, with a job if the       *)
(* target has gone.  pp points into entry prev: if releasing a value has   *)
(* freed that entry, the walk goes on in freed memory.                     *)
Walk(h, by, o, prev) ==
    LET i == Behind(h, prev)
        e == h.entries[i]
        a == IF by = "target" THEN EnqueueJob(h, e) ELSE h
        b == ReleaseLast([a EXCEPT !.entries = RemoveAt(@, i)], e.value)
        c == ReleaseLast(b, e.token)
    IN  IF prev # 0 /\ ~Contains([k \in DOMAIN h.entries |-> h.entries[k].id], prev) THEN Fault(h)
        ELSE IF h.fault \/ i > Len(h.entries) THEN h
        ELSE IF e[by] # o THEN Walk(h, by, o, e.id)
        ELSE Walk(c, by, o, prev)

(* The registrations whose job is queued.                                  *)
JobIds(h) == {j.id : j \in Range(h.jobs)}

-----------------------------------------------------------------------------
(* The program.  What it does after it has used freed memory is not        *)
(* followed.                                                               *)

Defined == ~heap.fault
Has(o) == IF o = None THEN TRUE ELSE held[o] > 0

Take(o) == held' = [held EXCEPT ![o] = @ + 1]
NoCalls == UNCHANGED <<registered, unregistered>>

Create(o, t) ==
    /\ Defined /\ heap.state[o] = "new"
    /\ LET h == [heap EXCEPT !.state[o] = "live", !.ref[o] = 1, !.target[o] = t]
       IN  heap' = IF t = None THEN h ELSE [h EXCEPT !.weak[t] = @ + 1]
    /\ Take(o)
    /\ UNCHANGED revived /\ NoCalls

(* {} and new WeakRef(t)                                                   *)
NewObject == \E o \in Objects : Create(o, None)
NewWeakRef == \E o, t \in Objects : Has(t) /\ Create(o, t)

(* o.p = v: the old value is released and then replaced.                   *)
SetProperty ==
    /\ Defined
    /\ \E o \in Objects, v \in Objects \cup {None} :
          /\ Has(o) /\ Has(v) /\ heap.target[o] = None /\ heap.prop[o] # v
          /\ heap' = [Release(Dup(heap, v), heap.prop[o]) EXCEPT !.prop[o] = v]
    /\ UNCHANGED <<held, revived>> /\ NoCalls

(* v = o.p                                                                 *)
GetProperty ==
    /\ Defined
    /\ \E o \in Objects :
          /\ Has(o) /\ heap.prop[o] # None /\ held[heap.prop[o]] < MaxVars
          /\ heap' = Dup(heap, heap.prop[o]) /\ Take(heap.prop[o])
    /\ UNCHANGED revived /\ NoCalls

(* A reference of the program ends.                                        *)
Drop ==
    /\ Defined
    /\ \E o \in Objects :
          /\ held[o] > 0
          /\ held' = [held EXCEPT ![o] = @ - 1]
          /\ heap' \in {Release(heap, o), FreeIfHeap(heap, o)}
    /\ UNCHANGED revived /\ NoCalls

(* w.deref(): the target is there as long as w is.                         *)
Deref ==
    /\ Defined
    /\ \E w \in Objects :
          LET t == heap.target[w]
          IN  /\ Has(w) /\ t # None /\ held[t] < MaxVars
              /\ heap.ref[t] > 0 \/ heap.weak[t] > 0
              /\ heap' = Dup(heap, t) /\ Take(t)
              /\ t \notin revived \* bound: once is enough, and ref_count drifts below 0
              /\ revived' = IF heap.pending[t] THEN revived \cup {t} ELSE revived
    /\ NoCalls

(* registry.register(target, value, token)                                 *)
Register ==
    /\ Defined /\ registered < MaxRegistrations
    /\ registered' = registered + 1
    /\ \E target \in Objects, value, token \in Objects \cup {None} :
          LET e == [id |-> registered + 1, target |-> target, value |-> value, token |-> token]
          IN  /\ Has(target) /\ Has(value) /\ Has(token)
              /\ heap' = [Dup(Dup(heap, value), token) EXCEPT !.entries = <<e>> \o @]
    /\ UNCHANGED <<held, unregistered, revived>>

(* registry.unregister(token): of whatever registry.                       *)
Unregister ==
    /\ Defined
    /\ \E token \in Objects :
          /\ Has(token)
          /\ \E i \in DOMAIN heap.entries : heap.entries[i].token = token
          /\ heap' = Walk(heap, "token", token, 0)
          /\ unregistered' = unregistered \cup
                ({e.id : e \in {d \in Range(heap.entries) : d.token = token}} \ JobIds(heap'))
    /\ UNCHANGED <<held, registered, revived>>

(* The callback is called with the value, which it may keep.               *)
RunJob ==
    /\ Defined /\ heap.jobs # <<>>
    /\ LET job == Head(heap.jobs)
           h == [heap EXCEPT !.jobs = Tail(@), !.called = Append(@, job.id)]
       IN  \/ heap' = Release(h, job.value) /\ UNCHANGED held
           \/ job.value # None /\ held[job.value] < MaxVars /\ heap' = h /\ Take(job.value)
    /\ UNCHANGED revived /\ NoCalls

Next ==
    \/ NewObject \/ NewWeakRef \/ SetProperty \/ GetProperty \/ Drop \/ Deref
    \/ Register \/ Unregister \/ RunJob

Spec == Init /\ [][Next]_vars

-----------------------------------------------------------------------------
(* Properties                                                              *)

Live == {o \in Objects : heap.state[o] = "live"}

(* The strong references to o: variables, properties, entries and jobs.    *)
StrongRefs(o) ==
    held[o] + Cardinality({p \in Live : heap.prop[p] = o})
    + Len(SelectSeq(heap.entries, LAMBDA e : e.value = o))
    + Len(SelectSeq(heap.entries, LAMBDA e : e.token = o))
    + Len(SelectSeq(heap.jobs, LAMBDA j : j.value = o))

WeakRefs(o) == {w \in Live : heap.target[w] = o}

(* Every reference is to an object that is there, counts are exact, and an *)
(* object is there exactly as long as something refers to it, strongly or  *)
(* by a WeakRef: nothing is freed early and nothing is forgotten, whatever *)
(* frees cause each other, until a target is handed out again after its    *)
(* last reference was dropped.                                             *)
CountsExact ==
    Defined /\ revived = {} =>
        \A o \in Objects :
            /\ o \in Live <=> StrongRefs(o) > 0 \/ WeakRefs(o) # {}
            /\ o \in Live => heap.weak[o] = Cardinality(WeakRefs(o))
            /\ o \in Live => heap.ref[o] = StrongRefs(o)
            /\ heap.pending[o] <=> o \in Live /\ StrongRefs(o) = 0

(* Freed memory is used only after an entry held the last reference to its *)
(* token or value, so that releasing it changed the list under the walk,   *)
(* or after a target was handed out again.                                 *)
FaultNeedsCause == heap.fault => heap.last \/ revived # {}

(* A registration is in the list while its target has strong references,   *)
(* and then has one job, unless it was unregistered: no callback is lost,  *)
(* called twice, called early, or called after unregister.                 *)
FinalizedOnce ==
    Defined /\ revived = {} =>
        LET listed == {e.id : e \in Range(heap.entries)}
            queued == [i \in DOMAIN heap.jobs |-> heap.jobs[i].id]
            jobs == heap.called \o queued
        IN  /\ \A e \in Range(heap.entries) : StrongRefs(e.target) > 0
            /\ Cardinality(Range(jobs)) = Len(jobs)
            /\ 1..registered = listed \cup unregistered \cup Range(jobs)
            /\ listed \cap Range(jobs) = {} /\ unregistered \cap Range(jobs) = {}

(* "The target is still physically alive as long as it is kept around by a *)
(* strong reference or by at least one WeakRef": lr_engine.c:1023.         *)
HeldIsLive == \A o \in Objects : held[o] > 0 => o \in Live
=============================================================================
