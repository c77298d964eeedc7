--------------------------- MODULE ClippInterface ---------------------------
(***************************************************************************)
(* The functions of commonApp/clipp.h a program describes its command line *)
(* with, as far as the programs use them:                                  *)
(*                                                                         *)
(*     (Required("--pvlist") & Value("pvlist")) ++ (Option(...) & ...).    *)
(*                                                                         *)
(* A description is a tree of parameters and groups.  A parameter matches  *)
(* its flags or, if it has none, any string that is not empty.  Nothing is *)
(* exclusive, repeatable, joinable or greedy, and no group blocks; what    *)
(* clipp does in these cases is left out.                                  *)
(***************************************************************************)
EXTENDS Sequences

Group(children, scoped) ==
    [children |-> children, scoped |-> scoped,
     flags |-> {}, target |-> "", required |-> FALSE, blocking |-> FALSE]

Parameter(flags) ==
    [children |-> <<>>, scoped |-> FALSE,
     flags |-> flags, target |-> "", required |-> FALSE, blocking |-> FALSE]

Blocking(p) == [p EXCEPT !.blocking = TRUE]

\* target(): the name of the variable that is set to the string.
Targeting(p, target) == [p EXCEPT !.target = target]

Required(flag) == [Parameter({flag}) EXCEPT !.required = TRUE]

Option(flag) == Parameter({flag})

Value(target) == Blocking([Targeting(Parameter({}), target) EXCEPT !.required = TRUE])

\* The sequence of two parameters: both block.
Sequence(a, b) == Group(<<Blocking(a), Blocking(b)>>, TRUE)

a & b == Sequence(a, b)

PushBack(g, child) == [g EXCEPT !.children = Append(@, child)]

PushFront(g, child) == [g EXCEPT !.children = <<child>> \o @]

\* operator , : a group that is not scoped takes the other operand in.
MayTakeIn(g) == g.children # <<>> /\ ~g.scoped

Combination(a, b) ==
    IF MayTakeIn(a) THEN PushBack(a, b)
    ELSE IF a.children = <<>> /\ MayTakeIn(b) THEN PushFront(b, a)
    ELSE Group(<<a, b>>, FALSE)

a ++ b == Combination(a, b)
=============================================================================
