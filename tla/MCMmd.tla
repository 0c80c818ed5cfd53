------------------------------- MODULE MCMmd -------------------------------
(* A small instance of Mmd: a read module with two users, a group and a      *)
(* membership, ids of 16 values with the automatic range 3 to 6 for users    *)
(* and 3 to 4 for groups.                                                    *)
EXTENDS Mmd

CONSTANTS ldap, shadow, a, b, c, g, h

OneReader == <<shadow>>
Names2    == [user |-> {a, b, c}, group |-> {g}]
Ranges    == [user |-> [min |-> 3, max |-> 6], group |-> [min |-> 3, max |-> 4]]

Start ==
  [user |-> [m \in Modules |->
      IF m = shadow THEN <<[name |-> a, id |-> 3], [name |-> b, id |-> 1]>> ELSE <<>>],
   group |-> [m \in Modules |-> IF m = shadow THEN <<[name |-> g, id |-> 4]>> ELSE <<>>]]
StartSg == [m \in Modules |-> IF m = shadow THEN {<<a, g>>} ELSE {}]
=============================================================================
