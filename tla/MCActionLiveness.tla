--------------------------- MODULE MCActionLiveness ---------------------------
(***************************************************************************)
(* An action function for TLC to run the storage analysis on: a local that *)
(* has to be frm (total), two that do not (guess, right), a loop, a break. *)
(***************************************************************************)
EXTENDS ActionLiveness

Point(kind, flow, uses, defines) ==
  [kind |-> kind, succ |-> flow, flow |-> flow, group |-> 0, name |-> "none",
   arg |-> "none", uses |-> uses, defines |-> defines]
Act(n, x, next, group) ==
  [Point("act", <<next>>, {}, {x} \ {"none"}) EXCEPT
     !.name = n, !.arg = x, !.group = group]

ForgottenCode == <<
  Point("plain", <<2>>, {}, {"total"}),             \*  1 let total = ...
  Point("plain", <<3, 10>>, {}, {}),                \*  2 while true:
  Point("actions", <<4, 8>>, {}, {}),               \*  3   actions:
  Act("p2_choise", "guess", 5, 3),                  \*  4     act p2_choise(guess)
  Point("plain", <<6>>, {"guess"}, {"right"}),      \*  5     let right = ...
  Point("plain", <<7, 2>>, {"right"}, {}),          \*  6     if right:
  [Point("plain", <<10>>, {}, {}) EXCEPT !.flow = <<2>>], \* 7    break
  Act("give_up", "none", 9, 3),                     \*  8     act give_up()
  Point("plain", <<2>>, {"total"}, {}),             \*  9     use(total)
  Point("plain", <<11>>, {"total"}, {}),            \* 10 use(total)
  Point("end", << >>, {}, {}) >>                    \* 11
ForgottenNames == {"p2_choise", "give_up"}

\* What runs, as opposed to what is analysed, plays no part.
NoFrm == [x \in {} |-> 0]
Anything(frm) == TRUE
AnyCall(a, frm, v) == TRUE
AnySucc(p, frm) == {[next |-> s, vars |-> frm] : s \in SuccOf(p)}
==============================================================================
