---- MODULE MC_ControlFlow ----
(* Programs for TLC: a loop labelled A around two statements inside each   *)
(* other around a jump, with an act before and after every place.          *)
EXTENDS ControlFlow

Do(n) == [k |-> "act", n |-> n]
Block(lex, ss) == [k |-> "block", lex |-> lex, body |-> ss]
Loop(k, v, lbl, s) == [k |-> k, var |-> v, lbl |-> lbl, lex |-> k = "forof" /\ v = 2, body |-> s]

Jumps ==
    {[k |-> j, lbl |-> l] : j \in {"break", "continue"}, l \in {"", "A"}}
        \cup {Do(1), [k |-> "return"]}

(* The statements with s inside, at depth d.                               *)
Around(s, d) ==
    LET b == Block(FALSE, <<s, Do(10 * d)>>)
    IN  {s,
         [k |-> "if", var |-> 1, val |-> 1, body |-> s],
         Block(TRUE, <<s, Do(10 * d + 1)>>),
         [k |-> "switch", var |-> 1, lbl |-> "",
          cases |-> << [val |-> 1, body |-> <<s, Do(10 * d + 2)>>],
                       [val |-> 0, body |-> <<Do(10 * d + 3)>>] >>],
         Loop("for", d, "", b), Loop("forof", d, "", b),
         [k |-> "try", body |-> b]}

Middles == UNION {Around(s, 2) : s \in UNION {Around(j, 3) : j \in Jumps}}

HasSwitchInTry(s) ==
    s.k = "try" /\ Head(s.body.body).k = "switch"

MCPrograms ==
    {Loop(k, 1, "A", Block(FALSE, <<Do(2), s, Do(3)>>)) :
        k \in {"for", "while", "dowhile", "forof"}, s \in {m \in Middles : ~HasSwitchInTry(m)}}
====
