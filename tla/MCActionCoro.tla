----------------------------- MODULE MCActionCoro -----------------------------
(***************************************************************************)
(* Small action functions for TLC to run ActionCoro on. Each one is the    *)
(* control flow graph of a program of the repository's tests or manual.    *)
(***************************************************************************)
EXTENDS ActionCoro, TLC

Bits == {0, 1}
None == "none"

Act(n, x, next, group) ==
  [kind |-> "act", succ |-> <<next>>, flow |-> <<next>>, group |-> group,
   name |-> n, arg |-> x, uses |-> {}, defines |-> {x} \ {"none", "secret"}]
ActionsStmt(targets) ==
  [kind |-> "actions", succ |-> targets, flow |-> targets, group |-> 0,
   name |-> "none", arg |-> "none", uses |-> {}, defines |-> {}]
Stmt(targets, uses) ==
  [kind |-> "plain", succ |-> targets, flow |-> targets, group |-> 0,
   name |-> "none", arg |-> "none", uses |-> uses, defines |-> {}]
Let(target, x) == [Stmt(<<target>>, {}) EXCEPT !.defines = {x}]
Break(target, after) == [Stmt(<<target>>, {}) EXCEPT !.flow = <<after>>]
BreakIf(target, after, uses) == [Stmt(<<target, after>>, uses) EXCEPT !.flow = <<after>>]
Return == [Stmt(<< >>, {}) EXCEPT !.kind = "end"]

To(p, frm) == [next |-> p, vars |-> frm]
Assign(p, frm, x, vs) == {To(p, [frm EXCEPT ![x] = v]) : v \in vs}

-----------------------------------------------------------------------------
(* tool/rlc/test/bug_multiple_can_apply_definitions.rl: the same action at *)
(* two places of a loop with different preconditions, and an "actions"     *)
(* between them. One alternative is that of tool/rlc/test/nexted_action.rl: *)
(* an argument kept in the frame, a local declared and used between two    *)
(* actions, then a break. The other is an action to give up whose          *)
(* precondition reads the frame, as a sub-action writes it; it returns     *)
(* from inside the loop. The function has an argument with a precondition  *)
(* (tool/rlc/test/prereq.rl) and a ctx variable the host passes again at   *)
(* every call (docs/sphinx_doc/language-reference.md:545), which the loop  *)
(* tests. An act behind its return is reached by no path, and is pruned.   *)

PlayCode == <<
  Stmt(<<2, 10>>, {"c"}),              \*  1 while !stopped and c != 0:
  Act("subact", "x1", 3, 0),           \*  2   act subact(x) {x > 5, x < 15}
  Stmt(<<4>>, {"x1", "c"}),            \*  3   c = c - x
  ActionsStmt(<<5, 8>>),               \*  4   actions:
  Act("guess", "secret", 6, 4),        \*  5     act guess(frm secret)
  Let(7, "right"),                     \*  6     let right = secret == 1
  BreakIf(10, 9, {"right", "c"}),      \*  7     if right and c != 1: break
  Act("give_up", "none", 10, 4),       \*  8     act give_up() {secret != 0}: return
  Act("subact", "x2", 1, 0),           \*  9   act subact(x) {x > -12, x < 3}
  Return,                              \* 10 return
  Act("subact", "x2", 12, 0),          \* 11 act subact(x)
  Return >>                            \* 12
PlayFrm == {"stopped", "secret"}
PlayLocal == {"x1", "x2", "right", "c"}
PlayNames == {"subact", "guess", "give_up"}
PlayInit == [x \in PlayFrm |-> 0]
Anything(frm) == TRUE
NotStopped(frm) == frm.stopped = 0
PlayAdmits(a, frm, v) ==
  CASE a = 2 -> v = 1 [] a = 8 -> frm.secret # 0 [] a = 9 -> v = 0 [] a \in {5, 11} -> TRUE
PlayExec(p, frm) ==
  CASE p = 1 -> {To(s, frm) : s \in IF frm.stopped = 1 THEN {10} ELSE {2, 10}}
    [] p = 7 -> {To(s, frm) : s \in IF frm.secret = 1 THEN {10, 9} ELSE {9}}
    [] p \in {3, 6} -> {To(Next1(p), frm)}

-----------------------------------------------------------------------------
(* subaction* first, second over two objects of one action type            *)
(* (docs/sphinx_doc/language-reference.md:523): what                       *)
(* LowerSubActionStatements writes for it. 0 waits for asd, 1 is done.     *)

TwinsCode == <<
  Stmt(<<2, 7>>, {}),                  \*  1 while !(first.is_done() and ...)
  ActionsStmt(<<3, 5>>),             \*  2 actions:
  Act("asd", "none", 4, 2),            \*  3   act asd() {can first.asd()}
  Stmt(<<1>>, {}),                     \*  4   first.asd()
  Act("asd", "none", 6, 2),            \*  5   act asd() {can second.asd()}
  Stmt(<<1>>, {}),                     \*  6   second.asd()
  Return >>                            \*  7
TwinsFrm == {"first", "second"}
TwinsNames == {"asd"}
TwinsInit == [x \in TwinsFrm |-> 0]
TwinsAdmits(a, frm, v) == IF a = 3 THEN frm.first = 0 ELSE frm.second = 0
TwinsExec(p, frm) ==
  CASE p = 1 -> {To(IF frm.first + frm.second = 2 THEN 7 ELSE 2, frm)}
    [] p = 4 -> Assign(1, frm, "first", {1})
    [] p = 6 -> Assign(1, frm, "second", {1})

-----------------------------------------------------------------------------
(* A local variable of the function that is read after a break: the        *)
(* analysis goes on from break to the return written after the if.         *)

HiddenUseCode == <<
  Let(2, "v"),                         \*  1 let v = ...
  Stmt(<<3, 7>>, {}),                  \*  2 while true:
  Act("bar", "x", 4, 0),               \*  3   act bar(x)
  Stmt(<<5, 6>>, {"x"}),               \*  4   if x:
  Break(7, 6),                         \*  5     break
  Return,                              \*  6   return
  Stmt(<<8>>, {"v"}),                  \*  7 use(v)
  Return >>                            \*  8
HiddenUseLocal == {"v", "x"}
HiddenUseNames == {"bar"}
HiddenUseInit == [x \in {} |-> 0]
HiddenUseAdmits(a, frm, v) == TRUE
HiddenUseExec(p, frm) == {To(s, frm) : s \in SuccOf(p)}
==============================================================================
