------------------------------- MODULE Promise -------------------------------
(***************************************************************************)
(* Promises (src/src/lr_promise.c) and the two places where the            *)
(* interpreter settles or awaits them (src/src/engine/lr_interp.c).        *)
(*                                                                         *)
(* JavaScript runs whenever the stack is not empty and may then call any   *)
(* function of the promise API, in any order, nested as it likes.  Of a    *)
(* value only what the code asks is kept: whether it is a promise, another *)
(* object with a then method (a thenable) or neither (plain).              *)
(*                                                                         *)
(* The two reactions that one then() adds, one per outcome, share an id.   *)
(* The promise that an internal then() derives (when a promise is adopted  *)
(* and in Promise.all) is dropped at once and is left out.                 *)
(***************************************************************************)
EXTENDS Integers, Sequences, FiniteSets, SequencesExt

CONSTANTS
  MaxPromises,   \* bound: promises made in a behaviour
  MaxReactions,  \* bound: reactions added in a behaviour
  MaxBare,       \* bound: promises made by race, any and allSettled
  MaxDepth       \* bound: nested calls

ASSUME PromiseAssumption ==
  /\ MaxPromises \in Nat /\ MaxReactions \in Nat /\ MaxBare \in Nat
  /\ MaxDepth \in Nat \ {0}

Promises == 1 .. MaxPromises
Ids == 1 .. MaxReactions
NoPromise == 0
Settled == {"fulfilled", "rejected"}
States == {"none", "pending"} \cup Settled

VARIABLES
  state,       \* LRPromiseData.state, "none" for a promise that is not made yet
  result,      \* LRPromiseData.result, Plain for every reason of a rejection
  held,        \* the promises whose resolve and reject functions JavaScript has
  bare,        \* the promises without a prototype, which have no then method
  reactions,   \* the ids in fulfill_reactions and reject_reactions
  reaction,    \* every reaction added so far, by id
  jobs,        \* the microtask queue: which reaction, for which outcome and value
  stack,       \* the calls in progress
  all,         \* PromiseAllData, by result promise
  ran          \* history: the reactions that were run, each with its outcome

vars == <<state, result, held, bare, reactions, reaction, jobs, stack, all, ran>>

Made == {p \in Promises : state[p] # "none"}
Room == Promises \ Made # {}
BareRoom == Room /\ Cardinality(bare) < MaxBare
Fresh == CHOOSE p \in Promises \ Made : \A q \in Promises \ Made : p <= q

(* What resolve can be called with *)
Plain == [k |-> "plain", q |-> NoPromise]
Thenable == [k |-> "thenable", q |-> NoPromise]
ToPromise(q) == [k |-> "promise", q |-> q]

(* A call in progress: the promise it settles, whether JavaScript does not *)
(* have that promise yet, and what a finally wrapper was called with.      *)
Frame(kind, p) == [kind |-> kind, on |-> p, fresh |-> FALSE, s |-> "none", v |-> Plain]
FreshFrame(kind, p) == [Frame(kind, p) EXCEPT !.fresh = TRUE]

(* The promises JavaScript can name: not the one whose constructor runs *)
Named == Made \ {stack[i].on : i \in {j \in DOMAIN stack : stack[j].fresh}}
Values == {Plain, Thenable} \cup {ToPromise(q) : q \in Named}

NoAll == [remaining |-> 0, rejected |-> FALSE, items |-> <<>>]

(* A set of positions as a sequence, and the elements of s at them *)
InOrder(I) ==
  CHOOSE f \in [1 .. Cardinality(I) -> I] : \A i, j \in DOMAIN f : i < j => f[i] < f[j]
Pick(s, I) == [j \in DOMAIN InOrder(I) |-> s[InOrder(I)[j]]]

Init ==
  /\ state = [p \in Promises |-> "none"]
  /\ result = [p \in Promises |-> Plain]
  /\ held = {} /\ bare = {}
  /\ reactions = [p \in Promises |-> <<>>]
  /\ reaction = <<>> /\ jobs = <<>> /\ stack = <<>>
  /\ all = [p \in Promises |-> NoAll]
  /\ ran = <<>>

-----------------------------------------------------------------------------
(* Settling and attaching.  jb and sb are the microtask queue and the      *)
(* stack without the job and the call that are just ending.                *)

(* Pending, or made in this very call *)
Open(p) == state[p] \in {"none", "pending"}

(* The trigger loops: one job for every reaction of p, in their order *)
Jobs(p, s, v) == [i \in DOMAIN reactions[p] |-> [id |-> reactions[p][i], s |-> s, v |-> v]]

(* The new state of p; its reactions are queued and leave the lists. *)
Settle(p, s, v, jb) ==
  /\ state' = [state EXCEPT ![p] = s]
  /\ result' = [result EXCEPT ![p] = v]
  /\ reactions' = [reactions EXCEPT ![p] = <<>>]
  /\ jobs' = jb \o Jobs(p, s, v)
  /\ UNCHANGED reaction

NoChange(jb) == jobs' = jb /\ UNCHANGED <<state, result, reactions, reaction>>

(* Mutant: a promise that is already settled is rejected again. *)
RejectWith_always(p, jb) == Settle(p, "rejected", Plain, jb)

(* lr_promise_reject_internal *)
RejectWith(p, jb) == IF Open(p) THEN Settle(p, "rejected", Plain, jb) ELSE NoChange(jb)

(* The ids that the reactions added by a call get *)
NewId(k) == Len(reaction) + k
NewIds(ks) == [j \in DOMAIN ks |-> NewId(ks[j])]

(* Mutant: the promise that then() on a settled promise derives is settled at once. *)
Attach_settles(qs, kind, f, r, to, jb) ==
  LET due == InOrder({k \in DOMAIN qs : state[qs[k]] \in Settled})
  IN /\ Len(reaction) + Len(qs) <= MaxReactions
     /\ reaction' = reaction \o [k \in DOMAIN qs |->
                      [kind |-> kind, from |-> qs[k], f |-> f, r |-> r, to |-> to]]
     /\ reactions' = [p \in Promises |-> reactions[p] \o
                        NewIds(InOrder({k \in DOMAIN qs : qs[k] = p /\ state[p] = "pending"}))]
     /\ jobs' = jb \o [j \in DOMAIN due |->
                  [id |-> NewId(due[j]), s |-> state[qs[due[j]]], v |-> result[qs[due[j]]]]]
     /\ state' = [state EXCEPT ![to] = IF due = <<>> THEN "pending" ELSE state[qs[due[1]]]]
     /\ UNCHANGED result

(* then() on each promise of the sequence qs, for the promise to: on a     *)
(* pending promise the reactions are stored, on a settled one the reaction *)
(* of its outcome is queued.                                               *)
Attach(qs, kind, f, r, to, jb) ==
  LET due == InOrder({k \in DOMAIN qs : state[qs[k]] \in Settled})
  IN /\ Len(reaction) + Len(qs) <= MaxReactions
     /\ reaction' = reaction \o [k \in DOMAIN qs |->
                      [kind |-> kind, from |-> qs[k], f |-> f, r |-> r, to |-> to]]
     /\ reactions' = [p \in Promises |-> reactions[p] \o
                        NewIds(InOrder({k \in DOMAIN qs : qs[k] = p /\ state[p] = "pending"}))]
     /\ jobs' = jb \o [j \in DOMAIN due |->
                  [id |-> NewId(due[j]), s |-> state[qs[due[j]]], v |-> result[qs[due[j]]]]]
     /\ state' = [state EXCEPT ![to] = "pending"]
     /\ UNCHANGED result

(* lr_promise_resolve_internal: a promise is rejected when it is resolved  *)
(* with itself, adopts a promise that has then, and calls the then of a    *)
(* thenable at once; anything else fulfils it.                             *)
ResolveWith(p, x, jb, sb) ==
  \/ /\ ~Open(p)
     /\ NoChange(jb) /\ stack' = sb /\ UNCHANGED held
  \/ /\ Open(p) /\ x = ToPromise(p)
     /\ Settle(p, "rejected", Plain, jb) /\ stack' = sb /\ UNCHANGED held
  \/ /\ Open(p) /\ x.k = "promise" /\ x.q # p /\ x.q \notin bare
     /\ Attach(<<x.q>>, "adopt", TRUE, TRUE, p, jb) /\ stack' = sb /\ UNCHANGED held
  \/ /\ Open(p) /\ x.k = "thenable" /\ Len(sb) < MaxDepth
     /\ state' = [state EXCEPT ![p] = "pending"]
     /\ held' = held \cup {p}
     /\ stack' = Append(sb, [Frame("thenable", p) EXCEPT !.fresh = (state[p] = "none")])
     /\ jobs' = jb /\ UNCHANGED <<result, reactions, reaction>>
  \/ /\ Open(p) /\ (x = Plain \/ (x.k = "promise" /\ x.q # p /\ x.q \in bare))
     /\ Settle(p, "fulfilled", x, jb) /\ stack' = sb /\ UNCHANGED held

-----------------------------------------------------------------------------
(* What JavaScript calls *)

InJS == stack # <<>>

(* new Promise(executor) calls the executor at once. *)
NewPromise ==
  /\ InJS /\ Room /\ Len(stack) < MaxDepth
  /\ state' = [state EXCEPT ![Fresh] = "pending"]
  /\ held' = held \cup {Fresh}
  /\ stack' = Append(stack, FreshFrame("executor", Fresh))
  /\ UNCHANGED <<result, bare, reactions, reaction, jobs, all, ran>>

(* The functions that the constructor or a thenable was given *)
Resolve(p, x) ==
  /\ InJS /\ p \in held
  /\ ResolveWith(p, x, jobs, stack)
  /\ UNCHANGED <<bare, all, ran>>

Reject(p) ==
  /\ InJS /\ p \in held
  /\ RejectWith(p, jobs)
  /\ UNCHANGED <<held, bare, stack, all, ran>>

(* Promise.resolve, which returns a promise as it is and otherwise makes a *)
(* fulfilled one even of a thenable, and Promise.reject.                   *)
NewSettled(s, x) ==
  /\ InJS /\ Room
  /\ x.k # "promise" /\ (s = "rejected" => x = Plain)
  /\ Settle(Fresh, s, x, jobs)
  /\ UNCHANGED <<held, bare, stack, all, ran>>

(* then and catch, and finally without a function: a handler is given or   *)
(* the default stands in for it.  A reaction comes to use one of the two,  *)
(* so it is enough that f differs from r.                                  *)
Then(p, f, r) ==
  /\ InJS /\ Room /\ p \in Named \ bare
  /\ Attach(<<p>>, "then", f, r, Fresh, jobs)
  /\ UNCHANGED <<held, bare, stack, all, ran>>

Finally(p) ==
  /\ InJS /\ Room /\ p \in Named \ bare
  /\ Attach(<<p>>, "finally", TRUE, TRUE, Fresh, jobs)
  /\ UNCHANGED <<held, bare, stack, all, ran>>

(* An async function that has run: its promise is made at the end, and     *)
(* resolved with what it returned or rejected.                             *)
AsyncReturn(x) ==
  /\ InJS /\ Room
  /\ ResolveWith(Fresh, x, jobs, stack)
  /\ UNCHANGED <<bare, all, ran>>

AsyncThrow ==
  /\ InJS /\ Room
  /\ RejectWith(Fresh, jobs)
  /\ UNCHANGED <<held, bare, stack, all, ran>>

(* Promise.all of promises (another item goes through Promise.resolve      *)
(* first).  An item without then is counted but never heard of.            *)
All(items) ==
  /\ InJS /\ Room
  /\ IF items = <<>>
       THEN Settle(Fresh, "fulfilled", Plain, jobs) /\ UNCHANGED all
       ELSE /\ Attach(Pick(items, {i \in DOMAIN items : items[i] \notin bare}), "all", TRUE, TRUE, Fresh, jobs)
            /\ all' = [all EXCEPT ![Fresh] =
                         [remaining |-> Len(items), rejected |-> FALSE, items |-> items]]
  /\ UNCHANGED <<held, bare, stack, ran>>

(* Promise.race looks at the first item only; its promise has no prototype. *)
Race(x) ==
  /\ InJS /\ BareRoom
  /\ ResolveWith(Fresh, x, jobs, stack)
  /\ bare' = bare \cup {Fresh}
  /\ UNCHANGED <<all, ran>>

RaceNone ==
  /\ InJS /\ BareRoom
  /\ state' = [state EXCEPT ![Fresh] = "pending"]
  /\ bare' = bare \cup {Fresh}
  /\ UNCHANGED <<result, held, reactions, reaction, jobs, stack, all, ran>>

(* Promise.allSettled describes the items as they are now. *)
AllSettled ==
  /\ InJS /\ BareRoom
  /\ Settle(Fresh, "fulfilled", Plain, jobs)
  /\ bare' = bare \cup {Fresh}
  /\ UNCHANGED <<held, stack, all, ran>>

(* Promise.any: the first item counts that is fulfilled now or no promise. *)
AnyOf(items) ==
  LET hits == {i \in DOMAIN items :
                 items[i].k = "promise" => state[items[i].q] = "fulfilled"}
  IN /\ InJS /\ BareRoom
     /\ IF hits = {}
          THEN RejectWith(Fresh, jobs) /\ UNCHANGED <<held, stack>>
          ELSE LET x == items[Min(hits)]
               IN ResolveWith(Fresh, IF x.k = "promise" THEN result[x.q] ELSE x, jobs, stack)
     /\ bare' = bare \cup {Fresh}
     /\ UNCHANGED <<all, ran>>

-----------------------------------------------------------------------------
(* Jobs, calls and returns *)

(* The host calls JavaScript: a script, a timer, a message. *)
Call ==
  /\ stack = <<>>
  /\ stack' = <<Frame("script", NoPromise)>>
  /\ UNCHANGED <<state, result, held, bare, reactions, reaction, jobs, all, ran>>

(* Mutant: the result waits for one item more. *)
AllFulfill_oneMore(r, jb) ==
  IF all[r].rejected
    THEN NoChange(jb) /\ UNCHANGED all
    ELSE /\ all' = [all EXCEPT ![r].remaining = @ - 1]
         /\ IF all[r].remaining <= 0 /\ Open(r)
              THEN Settle(r, "fulfilled", Plain, jb)
              ELSE NoChange(jb)

(* Mutant: the result does not wait for the last item. *)
AllFulfill_early(r, jb) ==
  IF all[r].rejected
    THEN NoChange(jb) /\ UNCHANGED all
    ELSE /\ all' = [all EXCEPT ![r].remaining = @ - 1]
         /\ IF all[r].remaining - 1 <= 1 /\ Open(r)
              THEN Settle(r, "fulfilled", Plain, jb)
              ELSE NoChange(jb)

(* promise_all_fulfill *)
AllFulfill(r, jb) ==
  IF all[r].rejected
    THEN NoChange(jb) /\ UNCHANGED all
    ELSE /\ all' = [all EXCEPT ![r].remaining = @ - 1]
         /\ IF all[r].remaining - 1 <= 0 /\ Open(r)
              THEN Settle(r, "fulfilled", Plain, jb)
              ELSE NoChange(jb)

(* promise_all_reject *)
AllReject(r, jb) ==
  IF all[r].rejected
    THEN NoChange(jb) /\ UNCHANGED all
    ELSE /\ all' = [all EXCEPT ![r].rejected = TRUE]
         /\ RejectWith(r, jb)

(* One microtask: job_fulfill_reaction or job_reject_reaction.  A handler  *)
(* of JavaScript is called; what its end brings is in Return and Throw.    *)
RunJob ==
  LET job == Head(jobs)
      jb == Tail(jobs)
      rx == reaction[job.id]
      ok == job.s = "fulfilled"
      given == IF ok THEN rx.f ELSE rx.r
  IN /\ jobs # <<>>
     /\ ran' = Append(ran, [id |-> job.id, s |-> job.s])
     /\ \/ /\ rx.kind = "then" /\ given /\ Len(stack) < MaxDepth
           /\ stack' = Append(stack, Frame("handler", rx.to))
           /\ NoChange(jb) /\ UNCHANGED <<held, all>>
        \/ /\ rx.kind = "finally" /\ Len(stack) < MaxDepth
           /\ stack' = Append(stack, [Frame("finally", rx.to) EXCEPT !.s = job.s, !.v = job.v])
           /\ NoChange(jb) /\ UNCHANGED <<held, all>>
        \/ /\ rx.kind = "adopt" \/ (rx.kind = "then" /\ ~given)
           /\ IF ok THEN ResolveWith(rx.to, job.v, jb, stack)
                    ELSE RejectWith(rx.to, jb) /\ UNCHANGED <<held, stack>>
           /\ UNCHANGED all
        \/ /\ rx.kind = "all"
           /\ IF ok THEN AllFulfill(rx.to, jb) ELSE AllReject(rx.to, jb)
           /\ UNCHANGED <<held, stack>>
     /\ UNCHANGED bare

LoopJob == stack = <<>> /\ RunJob

(* An await runs jobs while the promise it waits for is pending. *)
AwaitJob ==
  /\ InJS /\ \E p \in Named : state[p] = "pending"
  /\ RunJob

Top == stack[Len(stack)]
Below == SubSeq(stack, 1, Len(stack) - 1)

(* The innermost call returns x.  A finally wrapper passes on the outcome  *)
(* it was called with.                                                     *)
Return(x) ==
  /\ InJS
  /\ \/ /\ Top.kind \in {"script", "executor", "thenable"} /\ x = Plain
        /\ NoChange(jobs) /\ stack' = Below /\ UNCHANGED held
     \/ /\ Top.kind = "handler"
        /\ ResolveWith(Top.on, x, jobs, Below)
     \/ /\ Top.kind = "finally" /\ Top.s = "fulfilled" /\ x = Plain
        /\ ResolveWith(Top.on, Top.v, jobs, Below)
     \/ /\ Top.kind = "finally" /\ Top.s = "rejected" /\ x = Plain
        /\ RejectWith(Top.on, jobs) /\ stack' = Below /\ UNCHANGED held
  /\ UNCHANGED <<bare, all, ran>>

(* It throws x.  A thenable that throws rejects its promise whatever state *)
(* that is in by now; a finally wrapper returns what its function threw.   *)
Throw(x) ==
  /\ InJS
  /\ \/ /\ Top.kind = "script" /\ x = Plain
        /\ NoChange(jobs) /\ stack' = Below /\ UNCHANGED held
     \/ /\ Top.kind \in {"executor", "handler"} /\ x = Plain
        /\ RejectWith(Top.on, jobs) /\ stack' = Below /\ UNCHANGED held
     \/ /\ Top.kind = "thenable" /\ x = Plain
        /\ Settle(Top.on, "rejected", Plain, jobs) /\ stack' = Below /\ UNCHANGED held
     \/ /\ Top.kind = "finally"
        /\ ResolveWith(Top.on, x, jobs, Below)
  /\ UNCHANGED <<bare, all, ran>>

Arrays(S) == SeqOf(S, 2)

Next ==
  \/ Call \/ NewPromise \/ AsyncThrow \/ RaceNone \/ AllSettled \/ LoopJob \/ AwaitJob
  \/ \E x \in Values : AsyncReturn(x) \/ Race(x) \/ Return(x) \/ Throw(x)
  \/ \E p \in held : Reject(p) \/ \E x \in Values : Resolve(p, x)
  \/ \E s \in Settled, x \in {Plain, Thenable} : NewSettled(s, x)
  \/ \E p \in Named : Finally(p) \/ \E f \in BOOLEAN : Then(p, f, ~f)
  \/ \E items \in Arrays(Named) : All(items)
  \/ \E items \in Arrays(Values) : AnyOf(items)

Spec == Init /\ [][Next]_vars

(* Every call of JavaScript ends, however many calls it makes first; every *)
(* pass of the event loop runs queued jobs, and only finitely many         *)
(* callbacks are called between two passes.                                *)
EndsAt(d) == Len(stack) = d /\ \E x \in Values : Return(x) \/ Throw(x)
Fairness == SF_vars(LoopJob) /\ \A d \in 1 .. MaxDepth : SF_vars(EndsAt(d))
FairSpec == Spec /\ Fairness

-----------------------------------------------------------------------------
(* Properties *)

FrameKinds == {"script", "executor", "thenable", "handler", "finally"}
Kinds == {"then", "finally", "adopt", "all"}
AnyValue == {Plain, Thenable} \cup {ToPromise(q) : q \in Promises}

(* Every variable has its type: the counters of Promise.all never go below *)
(* zero, and whatever names a promise names one that was made.             *)
TypeOK ==
  /\ state \in [Promises -> States]
  /\ result \in [Promises -> AnyValue]
  /\ held \subseteq Made /\ bare \subseteq Made
  /\ \A p \in Promises : \A i \in DOMAIN reactions[p] : reactions[p][i] \in DOMAIN reaction
  /\ \A id \in DOMAIN reaction :
       /\ reaction[id].kind \in Kinds
       /\ reaction[id].from \in Made /\ reaction[id].to \in Made
  /\ \A i \in DOMAIN jobs : jobs[i].id \in DOMAIN reaction /\ jobs[i].s \in Settled
  /\ Len(stack) <= MaxDepth
  /\ \A i \in DOMAIN stack :
       stack[i].kind \in FrameKinds /\ stack[i].on \in Made \cup {NoPromise}
  /\ \A p \in Promises : all[p].remaining \in 0 .. Len(all[p].items)

Ran(id) == \E i \in DOMAIN ran : ran[i].id = id

(* Where a reaction is: in the list of its promise, in the queue, run *)
Places(id) ==
  LET list == reactions[reaction[id].from]
  IN {<<"stored", i>> : i \in {j \in DOMAIN list : list[j] = id}}
     \cup {<<"queued", i>> : i \in {j \in DOMAIN jobs : jobs[j].id = id}}
     \cup {<<"run", i>> : i \in {j \in DOMAIN ran : ran[j].id = id}}

(* A reaction is stored, queued or run, and that once: settling a promise, *)
(* by whatever path and however nested, neither drops a reaction nor       *)
(* queues it twice, and none waits on a promise that is settled.           *)
NoReactionLost ==
  /\ \A id \in DOMAIN reaction : \E w \in Places(id) : Places(id) = {w}
  /\ \A p \in Promises : reactions[p] # <<>> => state[p] = "pending"

(* The reactions of one promise are run in the order they were added,      *)
(* whether before or after it was settled.                                 *)
ReactionsInOrder ==
  \A k \in DOMAIN ran : \A id \in 1 .. ran[k].id - 1 :
    reaction[id].from = reaction[ran[k].id].from => \E j \in 1 .. k - 1 : ran[j].id = id

(* The promise that then, catch or finally returns is not settled before   *)
(* the reaction it stands for has been run.                                *)
DerivedAfterReaction ==
  \A id \in DOMAIN reaction :
    reaction[id].kind \in {"then", "finally"} /\ state[reaction[id].to] \in Settled => Ran(id)

(* Each reaction is run once, in order and before the promise it stands    *)
(* for is settled, whatever calls nest in each other.                      *)
ReactionsSound == TypeOK /\ NoReactionLost /\ ReactionsInOrder /\ DerivedAfterReaction

(* What the items of the Promise.all r have reported, by position in ran *)
Reports(r, s) ==
  {i \in DOMAIN ran : /\ reaction[ran[i].id].kind = "all" /\ reaction[ran[i].id].to = r
                      /\ ran[i].s = s}

(* The promise of Promise.all is fulfilled only when every item has been   *)
(* reported fulfilled, and rejected only when one was reported rejected,   *)
(* though the items report in any order and after each other's rejection.  *)
AllSound ==
  \A r \in Promises : all[r].items # <<>> =>
    /\ state[r] = "fulfilled" => Cardinality(Reports(r, "fulfilled")) = Len(all[r].items)
    /\ state[r] = "rejected" => Reports(r, "rejected") # {}

ThenableThrew(p) ==
  /\ stack # <<>> /\ Top.kind = "thenable" /\ Top.on = p
  /\ stack' = Below

(* A settled promise keeps its state for good, however often it is         *)
(* resolved or rejected; the only exception is a fulfilled promise whose   *)
(* thenable throws after it has called resolve.                            *)
SettledForGood ==
  [][\A p \in Promises : state[p] \in Settled =>
       state'[p] = state[p] \/ (state'[p] = "rejected" /\ ThenableThrew(p))]_vars

(* Promise/A+ 2.1.2, 2.1.3: a settled promise does not change its state.   *)
SettledOnce == [][\A p \in Promises : state[p] \in Settled => state'[p] = state[p]]_vars

(* Every reaction of a promise that gets settled is run in the end: again  *)
(* and again there is a moment when none is waiting.                       *)
HandlersRun ==
  []<>(\A id \in DOMAIN reaction : state[reaction[id].from] \in Settled => Ran(id))

(* The promise of Promise.all is settled in the end when its items, all of *)
(* them with a then method, are.                                           *)
AllCompletes ==
  []<>(\A r \in Promises :
         /\ all[r].items # <<>>
         /\ \A i \in DOMAIN all[r].items :
              all[r].items[i] \notin bare /\ state[all[r].items[i]] \in Settled
         => state[r] \in Settled)

(* What waits for settled promises is not left waiting: their reactions    *)
(* run, and a Promise.all of them is settled.                              *)
WaitersServed == HandlersRun /\ AllCompletes
=============================================================================
