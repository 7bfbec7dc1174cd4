--------------------------- MODULE MCPickAndPlace ---------------------------
(***************************************************************************)
(* Answers for model checking: two commands of two tasks, one with too few *)
(* classes, one with an area nobody knows, one with a class the detector   *)
(* does not know, a class without an area, and plain text.                 *)
(***************************************************************************)
EXTENDS PickAndPlace

Plan(areas, classes) == [kind |-> "plan", areas |-> areas, classes |-> classes]
MCReplies == {Plan(<<"A", "B">>, <<39, 41>>), Plan(<<"A", "A">>, <<41, 41>>),
              Plan(<<"A", "B">>, <<39>>), Plan(<<"C">>, <<39>>),
              Plan(<<"B">>, <<99>>),
              [kind |-> "class", areas |-> <<>>, classes |-> <<41>>],
              [kind |-> "prose", areas |-> <<>>, classes |-> <<>>]}
MCKnown == {39, 41}
MCAreaDict == {"A", "B", "O"}
=============================================================================
