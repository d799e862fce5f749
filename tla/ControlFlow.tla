---------------------------- MODULE ControlFlow -----------------------------
(***************************************************************************)
(* How statements become bytecode and what the virtual machine makes of it *)
(* (src/engine/lr_bytecode_compile.c, lr_bytecode_exec.c): loops, for-of   *)
(* with its three operands on the stack, switch with its discriminant on   *)
(* the stack, block scopes, break and continue as bare jumps that are      *)
(* patched when their loop is complete, and subtrees that are handed to    *)
(* the tree-walking interpreter (src/engine/lr_interp.c).                  *)
(*                                                                         *)
(* A statement is a record with its kind k.  Expressions are what the      *)
(* statements need: act (recorded in trace), a variable per loop, a test   *)
(* of it.  Iterables are arrays of N items.  LOOP_TICK, results, function  *)
(* calls, exceptions and the contents of scopes are left out.  Compile and *)
(* Exec are recursive, so this module is for TLC.                          *)
(***************************************************************************)
EXTENDS Integers, Sequences, SequencesExt, FiniteSetsExt

CONSTANTS Programs,   \* the programs that are run
          Vars,       \* the variables of their loops
          N,          \* length of every iterable, rounds of every loop
          MaxStack    \* bound: the operand stack is not grown beyond this

VARIABLES
    prog, code,       \* the program and its bytecode
    clean,            \* no jump of prog crosses a frame: see Clean
    expected,         \* what prog means: Exec
    pc, stack, scopes, x, trace, status

vars == <<prog, code, clean, expected, pc, stack, scopes, x, trace, status>>

-----------------------------------------------------------------------------
(* The compiler                                                            *)

I(op, a, b) == [op |-> op, a |-> a, b |-> b]

RECURSIVE Compile(_, _, _), CompileSeq(_, _, _)

CompileSeq(ss, at, loops) ==
    IF ss = <<>> THEN <<>>
    ELSE LET h == Compile(Head(ss), at, loops)
         IN  h \o CompileSeq(Tail(ss), at + Len(h), loops)

(* The innermost entry that an unlabelled jump may aim at, or the one with *)
(* the label.                                                              *)
FindTarget(loops, lbl, need_loop) ==
    Max({i \in DOMAIN loops :
            IF lbl = "" THEN ~need_loop \/ ~loops[i].is_switch ELSE loops[i].lbl = lbl})

LoopPush(loops, s) == Append(loops, [lbl |-> s.lbl, is_switch |-> s.k = "switch"])

(* loop_pop: the jumps that were noted for entry d get their targets.      *)
LoopPop(c, d, break_target, continue_target) ==
    [i \in DOMAIN c |->
        IF c[i].op = "break" /\ c[i].a = d THEN I("jump", break_target, 0)
        ELSE IF c[i].op = "continue" /\ c[i].a = d THEN I("jump", continue_target, 0)
        ELSE c[i]]

CompileBlock(s, at, loops) ==
    IF s.lex
    THEN <<I("enter", 0, 0)>> \o CompileSeq(s.body, at + 1, loops) \o <<I("leave", 0, 0)>>
    ELSE CompileSeq(s.body, at, loops)

(* Mutant: the jump over the body is patched to the test. *)
CompileIf_back(s, at, loops) ==
    <<I("eq", s.var, s.val), I("jfalse", at, 0)>> \o Compile(s.body, at + 2, loops)

CompileIf(s, at, loops) ==
    LET b == Compile(s.body, at + 2, loops)
    IN  <<I("eq", s.var, s.val), I("jfalse", at + 2 + Len(b), 0)>> \o b

(* init; test; body; update: continue goes to the update.                  *)
CompileFor(s, at, loops) ==
    LET ls == LoopPush(loops, s)
        b == Compile(s.body, at + 3, ls)
        update == at + 3 + Len(b)
        end == update + 2
    IN  <<I("init", s.var, 0), I("le", s.var, 0), I("jfalse", end, 0)>>
        \o LoopPop(b, Len(ls), end, update)
        \o <<I("incr", s.var, 0), I("jump", at + 1, 0)>>

CompileWhile(s, at, loops) ==
    LET ls == LoopPush(loops, s)
        b == Compile(s.body, at + 2, ls)
        end == at + 3 + Len(b)
    IN  <<I("incle", s.var, 0), I("jfalse", end, 0)>>
        \o LoopPop(b, Len(ls), end, at) \o <<I("jump", at, 0)>>

CompileDoWhile(s, at, loops) ==
    LET ls == LoopPush(loops, s)
        b == Compile(s.body, at, ls)
        test == at + Len(b)
    IN  LoopPop(b, Len(ls), test + 2, test) \o <<I("incle", s.var, 0), I("jtrue", at, 0)>>

(* Mutant: continue goes back to the creation of the iterator. *)
CompileForOf_restart(s, at, loops) ==
    LET ls == LoopPush(loops, s)
        init == IF s.lex THEN at + 1 ELSE at
        b == Compile(s.body, init + 3, ls)
        end == init + 4 + Len(b)
    IN  (IF s.lex THEN <<I("enter", 0, 0)>> ELSE <<>>)
        \o <<I("iterInit", 0, 0), I("iterNext", end, 0), I("store", s.var, 0)>>
        \o LoopPop(b, Len(ls), end, init) \o <<I("jump", init + 1, 0), I("iterClose", 0, 0)>>
        \o (IF s.lex THEN <<I("leave", 0, 0)>> ELSE <<>>)

(* The source, the next function and the index lie on the stack while the  *)
(* loop runs; break and the end of the items go to the iterClose.          *)
CompileForOf(s, at, loops) ==
    LET ls == LoopPush(loops, s)
        init == IF s.lex THEN at + 1 ELSE at
        b == Compile(s.body, init + 3, ls)
        end == init + 4 + Len(b)
    IN  (IF s.lex THEN <<I("enter", 0, 0)>> ELSE <<>>)
        \o <<I("iterInit", 0, 0), I("iterNext", end, 0), I("store", s.var, 0)>>
        \o LoopPop(b, Len(ls), end, init + 1) \o <<I("jump", init + 1, 0), I("iterClose", 0, 0)>>
        \o (IF s.lex THEN <<I("leave", 0, 0)>> ELSE <<>>)

(* Mutant: the discriminant is dropped before the bodies as well. *)
CompileSwitch_dropTwice(s, at, loops) ==
    LET ls == LoopPush(loops, s)
        tests == SelectSeq(s.cases, LAMBDA c : c.val # 0)
        first == at + 2 + 3 * Len(tests)
        bodies[i \in 0..Len(s.cases)] ==
            IF i = 0 THEN [start |-> first, next |-> first, c |-> <<>>]
            ELSE LET p == bodies[i-1].next
                     c == <<I("pop", 0, 0)>> \o CompileSeq(s.cases[i].body, p + 1, ls)
                 IN  [start |-> p, next |-> p + Len(c), c |-> bodies[i-1].c \o c]
        end == bodies[Len(s.cases)].next
        Start(v) == bodies[CHOOSE i \in DOMAIN s.cases : s.cases[i].val = v].start
        Test(c) == <<I("dup", 0, 0), I("caseEq", c.val, 0), I("jtrue", Start(c.val), 0)>>
        default == IF \E i \in DOMAIN s.cases : s.cases[i].val = 0 THEN Start(0) ELSE end
    IN  <<I("var", s.var, 0)>> \o FlattenSeq([i \in DOMAIN tests |-> Test(tests[i])])
        \o <<I("jump", default, 0)>>
        \o LoopPop(bodies[Len(s.cases)].c, Len(ls), end, end) \o <<I("pop", 0, 0)>>

(* The discriminant stays on the stack for the tests and the bodies and is *)
(* dropped at the end, where break goes.  A case with val 0 is default.    *)
CompileSwitch(s, at, loops) ==
    LET ls == LoopPush(loops, s)
        tests == SelectSeq(s.cases, LAMBDA c : c.val # 0)
        first == at + 2 + 3 * Len(tests)
        bodies[i \in 0..Len(s.cases)] ==
            IF i = 0 THEN [start |-> first, next |-> first, c |-> <<>>]
            ELSE LET p == bodies[i-1].next
                     c == CompileSeq(s.cases[i].body, p, ls)
                 IN  [start |-> p, next |-> p + Len(c), c |-> bodies[i-1].c \o c]
        end == bodies[Len(s.cases)].next
        Start(v) == bodies[CHOOSE i \in DOMAIN s.cases : s.cases[i].val = v].start
        Test(c) == <<I("dup", 0, 0), I("caseEq", c.val, 0), I("jtrue", Start(c.val), 0)>>
        default == IF \E i \in DOMAIN s.cases : s.cases[i].val = 0 THEN Start(0) ELSE end
    IN  <<I("var", s.var, 0)>> \o FlattenSeq([i \in DOMAIN tests |-> Test(tests[i])])
        \o <<I("jump", default, 0)>>
        \o LoopPop(bodies[Len(s.cases)].c, Len(ls), end, end) \o <<I("pop", 0, 0)>>

(* try is delegated whatever it contains; a jump notes its loop.           *)
Compile(s, at, loops) ==
    CASE s.k = "act"      -> <<I("act", s.n, 0)>>
      [] s.k = "return"   -> <<I("return", 0, 0)>>
      [] s.k = "break"    -> <<I("break", FindTarget(loops, s.lbl, FALSE), 0)>>
      [] s.k = "continue" -> <<I("continue", FindTarget(loops, s.lbl, TRUE), 0)>>
      [] s.k = "block"    -> CompileBlock(s, at, loops)
      [] s.k = "if"       -> CompileIf(s, at, loops)
      [] s.k = "for"      -> CompileFor(s, at, loops)
      [] s.k = "while"    -> CompileWhile(s, at, loops)
      [] s.k = "dowhile"  -> CompileDoWhile(s, at, loops)
      [] s.k = "forof"    -> CompileForOf(s, at, loops)
      [] s.k = "switch"   -> CompileSwitch(s, at, loops)
      [] s.k = "try"      -> <<I("eval", s.body, 0)>>

-----------------------------------------------------------------------------
(* What a statement means, and what the tree-walker does with it: values   *)
(* st of the variables, trace so far, and how the statement completes (c,  *)
(* with the label l of a jump).  The tree-walker differs in eval_switch,   *)
(* which goes on after a continue: no program here has a switch in a try.  *)

Completes(st, c, l) == [x |-> st.x, trace |-> st.trace, c |-> c, l |-> l]
Normal(st) == Completes(st, "normal", "")
Assign(st, v, n) == [st EXCEPT !.x[v] = n]

(* break_is_mine, continue_is_mine                                         *)
Mine(r, s) == r.l = "" \/ r.l = s.lbl

LeavesLoop(r, s) == r.c \in {"break", "return"} \/ (r.c = "continue" /\ ~Mine(r, s))
AfterLoop(r, s) == IF r.c = "break" /\ Mine(r, s) THEN Normal(r) ELSE r

RECURSIVE Exec(_, _), ExecSeq(_, _), Iterate(_, _, _)

ExecSeq(ss, st) ==
    IF ss = <<>> THEN Normal(st)
    ELSE LET r == Exec(Head(ss), st)
         IN  IF r.c = "normal" THEN ExecSeq(Tail(ss), r) ELSE r

(* Round i of loop s.                                                      *)
Iterate(s, st, i) ==
    LET v == s.var
        Round(t) == Exec(s.body, t)
        Go(r, u) == IF LeavesLoop(r, s) THEN AfterLoop(r, s) ELSE Iterate(s, u, i + 1)
    IN  CASE s.k = "forof" ->
               IF i > N THEN Normal(st)
               ELSE LET r == Round(Assign(st, v, i)) IN Go(r, r)
          [] s.k = "for" ->
               IF st.x[v] > N THEN Normal(st)
               ELSE LET r == Round(st) IN Go(r, Assign(r, v, r.x[v] + 1))
          [] s.k = "while" ->
               LET t == Assign(st, v, st.x[v] + 1)
               IN  IF st.x[v] >= N THEN Normal(t) ELSE LET r == Round(t) IN Go(r, r)
          [] s.k = "dowhile" ->
               LET r == Round(st)
                   t == Assign(r, v, r.x[v] + 1)
               IN  IF ~LeavesLoop(r, s) /\ r.x[v] >= N THEN Normal(t) ELSE Go(r, t)

ExecSwitch(s, st) ==
    LET hits == {i \in DOMAIN s.cases : s.cases[i].val = st.x[s.var]}
        chosen == IF hits # {} THEN hits ELSE {i \in DOMAIN s.cases : s.cases[i].val = 0}
        from == SubSeq(s.cases, Min(chosen), Len(s.cases))
        r == ExecSeq(FlattenSeq([i \in DOMAIN from |-> from[i].body]), st)
    IN  IF chosen = {} THEN Normal(st) ELSE AfterLoop(r, s)

Exec(s, st) ==
    CASE s.k = "act"      -> Normal([st EXCEPT !.trace = Append(@, s.n)])
      [] s.k = "return"   -> Completes(st, "return", "")
      [] s.k \in {"break", "continue"} -> Completes(st, s.k, s.lbl)
      [] s.k = "block"    -> ExecSeq(s.body, st)
      [] s.k = "if"       -> IF st.x[s.var] = s.val THEN Exec(s.body, st) ELSE Normal(st)
      [] s.k = "for"      -> Iterate(s, Assign(st, s.var, 1), 1)
      [] s.k \in {"while", "dowhile", "forof"} -> Iterate(s, st, 1)
      [] s.k = "switch"   -> ExecSwitch(s, st)
      [] s.k = "try"      -> Exec(s.body, st)

-----------------------------------------------------------------------------
(* The virtual machine: one action per opcode.  What the opcodes do when   *)
(* operands are missing is left out: NeverShort shows that none is.        *)

Num(n) == [t |-> "int", v |-> n]
Bool(b) == Num(IF b THEN 1 ELSE 0)
Source == [t |-> "src", v |-> N]
NoFunction == [t |-> "fn", v |-> 0]

Running(op) == status = "run" /\ code[pc].op = op
A == code[pc].a
Top == Last(stack)

frozen == <<prog, code, clean, expected>>

(* How many operands an opcode takes.                                      *)
Operands(op) ==
    CASE op \in {"dup", "caseEq", "jfalse", "jtrue", "pop", "store"} -> 1
      [] op \in {"iterNext", "iterClose"} -> 3
      [] OTHER -> 0

Goto(target) == pc' = target
Push(c) == Len(stack) < MaxStack /\ stack' = Append(stack, c)
Drop(n) == stack' = SubSeq(stack, 1, Len(stack) - n)

(* vm_done and vm_abort drop the operands and the scopes.                  *)
End(s) == status' = s /\ stack' = <<>> /\ scopes' = 0

Act ==
    /\ Running("act")
    /\ trace' = Append(trace, A)
    /\ Goto(pc + 1)
    /\ UNCHANGED <<frozen, stack, scopes, x, status>>

(* The init and the update of a for: no operand is left.                   *)
SetVar ==
    /\ \/ Running("init") /\ x' = [x EXCEPT ![A] = 1]
       \/ Running("incr") /\ x' = [x EXCEPT ![A] = @ + 1]
    /\ Goto(pc + 1)
    /\ UNCHANGED <<frozen, stack, scopes, trace, status>>

(* Tests and the discriminant leave one operand; incle is x++ < N.         *)
PushValue ==
    /\ \/ Running("eq") /\ Push(Bool(x[A] = code[pc].b)) /\ UNCHANGED x
       \/ Running("le") /\ Push(Bool(x[A] <= N)) /\ UNCHANGED x
       \/ Running("incle") /\ Push(Bool(x[A] < N)) /\ x' = [x EXCEPT ![A] = @ + 1]
       \/ Running("var") /\ Push(Num(x[A])) /\ UNCHANGED x
       \/ Running("dup") /\ Push(Top) /\ UNCHANGED x
    /\ Goto(pc + 1)
    /\ UNCHANGED <<frozen, scopes, trace, status>>

CaseEq ==
    /\ Running("caseEq")
    /\ stack' = Append(Front(stack), Bool(Top = Num(A)))
    /\ Goto(pc + 1)
    /\ UNCHANGED <<frozen, scopes, x, trace, status>>

Jump ==
    /\ Running("jump")
    /\ Goto(A)
    /\ UNCHANGED <<frozen, stack, scopes, x, trace, status>>

JumpIf ==
    /\ Running("jfalse") \/ Running("jtrue")
    /\ Goto(IF (Top = Bool(TRUE)) = (code[pc].op = "jtrue") THEN A ELSE pc + 1)
    /\ Drop(1)
    /\ UNCHANGED <<frozen, scopes, x, trace, status>>

Pop ==
    /\ Running("pop")
    /\ Drop(1)
    /\ Goto(pc + 1)
    /\ UNCHANGED <<frozen, scopes, x, trace, status>>

IterInit ==
    /\ Running("iterInit") /\ Len(stack) + 3 <= MaxStack
    /\ stack' = stack \o <<Source, NoFunction, Num(0)>>
    /\ Goto(pc + 1)
    /\ UNCHANGED <<frozen, scopes, x, trace, status>>

(* The int32 that lies in an operand; of a pointer, its low half.          *)
AsIndex(c) == IF c.t = "src" THEN {-1, N} ELSE {c.v}

(* Whatever lies on top is read as the index, whatever lies two below as   *)
(* the source; anything but an array has length 0.  A negative index means *)
(* an iterator object, whose next function is called: here it is none.     *)
IterNext ==
    /\ Running("iterNext")
    /\ LET n == Len(stack)
           length == IF stack[n-2].t = "src" THEN stack[n-2].v ELSE 0
       IN  \E index \in AsIndex(Top) :
              \/ /\ index < 0
                 /\ End("threw") /\ UNCHANGED pc
              \/ /\ index >= length
                 /\ Goto(A) /\ UNCHANGED <<stack, scopes, status>>
              \/ /\ index \in 0..(length - 1) /\ n < MaxStack
                 /\ stack' = Append([stack EXCEPT ![n].v = index + 1], Num(index + 1))
                 /\ Goto(pc + 1) /\ UNCHANGED <<scopes, status>>
    /\ UNCHANGED <<frozen, x, trace>>

Store ==
    /\ Running("store")
    /\ x' = [x EXCEPT ![A] = Top.v]
    /\ Drop(1)
    /\ Goto(pc + 1)
    /\ UNCHANGED <<frozen, scopes, trace, status>>

IterClose ==
    /\ Running("iterClose")
    /\ Drop(3)
    /\ Goto(pc + 1)
    /\ UNCHANGED <<frozen, scopes, x, trace, status>>

ScopeEnter ==
    /\ Running("enter")
    /\ scopes' = scopes + 1
    /\ Goto(pc + 1)
    /\ UNCHANGED <<frozen, stack, x, trace, status>>

ScopeLeave ==
    /\ Running("leave")
    /\ scopes' = Max({scopes - 1, 0})
    /\ Goto(pc + 1)
    /\ UNCHANGED <<frozen, stack, x, trace, status>>

(* The tree-walker runs the subtree; a return is seen by the caller, any   *)
(* other jump out of it ends the run.                                      *)
EvalNode ==
    /\ Running("eval")
    /\ LET r == Exec(A, [x |-> x, trace |-> trace])
       IN  /\ x' = r.x /\ trace' = r.trace
           /\ \/ r.c = "normal" /\ Goto(pc + 1) /\ UNCHANGED <<stack, scopes, status>>
              \/ r.c = "return" /\ End("returned") /\ UNCHANGED pc
              \/ r.c \in {"break", "continue"} /\ End("aborted") /\ UNCHANGED pc
    /\ UNCHANGED frozen

Return ==
    /\ Running("return")
    /\ End("returned")
    /\ UNCHANGED <<frozen, pc, x, trace>>

Stop ==
    /\ Running("stop")
    /\ End("done")
    /\ UNCHANGED <<frozen, pc, x, trace>>

-----------------------------------------------------------------------------
(* The jumps of a statement, each with the statements it leaves.           *)
RECURSIVE Leaves(_)

Leaves(s) ==
    LET kids == CASE s.k \in {"act", "break", "continue", "return"} -> {}
                  [] s.k = "block" -> Range(s.body)
                  [] s.k = "switch" -> UNION {Range(s.cases[i].body) : i \in DOMAIN s.cases}
                  [] OTHER -> {s.body}
        Ends(j) ==   \* s is where j goes
            /\ s.k \in {"for", "while", "dowhile", "forof"} \/ (s.k = "switch" /\ j.k = "break")
            /\ j.lbl \in {"", s.lbl}
    IN  IF s.k \in {"break", "continue"} THEN {[k |-> s.k, lbl |-> s.lbl, left |-> {}]}
        ELSE LET inner == UNION {Leaves(kid) : kid \in kids}
             IN  {j \in inner : j.lbl = "done"}
                 \cup {IF Ends(j) THEN [j EXCEPT !.lbl = "done"]
                       ELSE [j EXCEPT !.left = @ \cup
                                (IF s.k = "block" /\ s.lex THEN {"scope"} ELSE {s.k})]
                       : j \in {i \in inner : i.lbl # "done"}}

(* No break or continue leaves a for-of, a switch, a block with a scope or *)
(* a delegated statement on its way.                                       *)
Clean(s) == \A j \in Leaves(s) : j.left \cap {"forof", "switch", "scope", "try"} = {}

Init ==
    /\ prog \in Programs
    /\ code = Compile(prog, 1, <<>>) \o <<I("stop", 0, 0)>>
    /\ clean = Clean(prog)
    /\ x = [v \in Vars |-> 0] /\ trace = <<>>
    /\ expected = Exec(prog, [x |-> x, trace |-> <<>>])
    /\ pc = 1 /\ stack = <<>> /\ scopes = 0 /\ status = "run"

Next ==
    \/ Act \/ SetVar \/ PushValue \/ CaseEq \/ Jump \/ JumpIf \/ Pop
    \/ IterInit \/ IterNext \/ Store \/ IterClose
    \/ ScopeEnter \/ ScopeLeave \/ EvalNode \/ Return \/ Stop

Spec == Init /\ [][Next]_vars

(* The machine runs until it ends.                                         *)
FairSpec == Spec /\ WF_vars(Next)

-----------------------------------------------------------------------------
(* Properties                                                              *)

(* A program whose jumps leave no operand, scope or delegated statement    *)
(* behind does step by step what it means, ends as it should, and has      *)
(* taken every operand off the stack and left every scope when it ends.    *)
JumpsSound ==
    clean =>
        /\ IsPrefix(trace, expected.trace)
        /\ Running("stop") => stack = <<>> /\ scopes = 0
        /\ status # "run" =>
              /\ trace = expected.trace
              /\ status = IF expected.c = "return" THEN "returned" ELSE "done"

(* Whatever jumps a program has, they may leave operands behind but never  *)
(* take any away: every opcode finds the operands it takes, so that the    *)
(* sp < 3 tests of the for-of opcodes never end a run, and a run is given  *)
(* up without an error only for a jump out of a delegated statement.       *)
NeverShort ==
    /\ status = "run" => Len(stack) >= Operands(code[pc].op)
    /\ status = "aborted" => \E j \in Leaves(prog) : "try" \in j.left

(* A program of such jumps ends.                                           *)
Halts == clean => <>(status # "run")

(* "we must be sure it cannot transfer control out of itself ... the whole *)
(* unit bails out to the interpreter": lr_bytecode_emit.c:285.             *)
NoEscape == status # "aborted"
=============================================================================
