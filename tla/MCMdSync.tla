------------------------------ MODULE MCMdSync ------------------------------
(* Small instances of MdSync: two people for whom the same login name is     *)
(* proposed, an account outside the group that has the first variant of that *)
(* name, and an account of the group, made by hand, that has the second.     *)
EXTENDS MdSync

CONSTANTS u1, u2, g1, a, a1, a2, a3, a4

Order == <<u1, u2>>
Propose == [u \in Uuid |-> a]
Variants == [x \in Name \X (1 .. MaxIndex) |-> CASE x[2] = 1 -> a1 [] x[2] = 2 -> a2 [] x[2] = 3 -> a3
                                         [] x[2] = 4 -> a4]

Outsider == [uuid |-> None, pvgrp |-> None, vs_defer |-> 0, grp |-> FALSE]
Start == [n \in Name |-> IF n = a1 THEN Outsider
                         ELSE IF n = a2 THEN [Outsider EXCEPT !.grp = TRUE] ELSE None]
=============================================================================
