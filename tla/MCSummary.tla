------------------------------- MODULE MCSummary -------------------------------
(* The monthly limit of blurbs is that of one day, so that both budgets refuse. *)
EXTENDS Summary

(* The hash does not tell the first change of the numbers, nor when counting   *)
(* began as long as nothing has changed.                                       *)
MCCoarse == [n \in Worlds |-> [first \in 0 .. 2 |-> IF n <= 1 THEN 0 ELSE 1 + first]]

MCLimit == [k \in Kinds |-> 2]

=============================================================================
