------------------------------ MODULE FifoQueue ------------------------------
(***************************************************************************)
(* The contract a caller of lr_lockfree_queue.h relies on: a first-in      *)
(* first-out queue of distinct nodes whose operations take effect in one   *)
(* step.  LockFreeQueue is shown to implement it when no pop overlaps      *)
(* another operation.                                                      *)
(***************************************************************************)
EXTENDS Naturals, Sequences

CONSTANT Items          \* the nodes a caller may push, each at most once

VARIABLES contents,     \* the nodes in the queue, oldest first
          out           \* the nodes returned so far, in order

InSeq(s) == {s[i] : i \in DOMAIN s}

Init == contents = <<>> /\ out = <<>>

Push(n) ==
  /\ n \notin InSeq(contents) \cup InSeq(out)
  /\ contents' = Append(contents, n)
  /\ UNCHANGED out

Pop ==
  /\ contents # <<>>
  /\ out' = Append(out, Head(contents))
  /\ contents' = Tail(contents)

Drain ==
  /\ out' = out \o contents
  /\ contents' = <<>>

(* Destroying the queue abandons whatever is still in it. *)
Destroy ==
  /\ contents' = <<>>
  /\ UNCHANGED out

Next == (\E n \in Items : Push(n)) \/ Pop \/ Drain \/ Destroy

Spec == Init /\ [][Next]_<<contents, out>>
=============================================================================
