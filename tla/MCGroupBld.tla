----------------------------- MODULE MCGroupBld -----------------------------
(* A small instance of GroupBld: two accounts, one of which has a group of   *)
(* its own name, two Vitalnix groups, and two groups without the prefix.     *)
EXTENDS GroupBld, TLC

CONSTANTS a, b, p, va, vb, x, y

MCTransform == [t \in Text |-> IF t = x THEN va ELSE vb]

Account1(n, pvgrp) == [uid |-> {n}, uidNumber |-> 1, gidNumber |-> 1,
                       attr |-> [t \in Attr |-> IF t = "vitalnixGroup" THEN pvgrp ELSE {x}],
                       managed |-> pvgrp # {}]
MCUsers == (a :> Account1(a, {x})) @@ (b :> Account1(b, {}))
MCGroups == (a :> [gid |-> 1, member |-> {a, b}]) @@ (p :> [gid |-> 3, member |-> {b}])
            @@ (vb :> [gid |-> 2, member |-> {a}]) @@ (va :> None)

Mod == [op |-> "usermod", name |-> b, newname |-> None, gid |-> None, real |-> None, pvgrp |-> None]
MCRequests ==
  {[Mod EXCEPT !.pvgrp = x], [Mod EXCEPT !.pvgrp = y], [Mod EXCEPT !.real = y, !.gid = 2],
   [Mod EXCEPT !.name = a, !.newname = b, !.real = y], [Mod EXCEPT !.name = a, !.pvgrp = y],
   [op |-> "userdel", name |-> b],
   [op |-> "useradd", name |-> b, uid |-> AUTOID, gid |-> 1, real |-> None, pvgrp |-> y],
   [op |-> "groupadd", group |-> va, gid |-> 1], [op |-> "groupdel", group |-> a],
   [op |-> "groupmod", group |-> a, newname |-> None, gid |-> 2],
   [op |-> "groupmod", group |-> a, newname |-> None, gid |-> AUTOID],
   [op |-> "groupmod", group |-> vb, newname |-> va, gid |-> 3],
   [op |-> "groupmod", group |-> a, newname |-> va, gid |-> AUTOID],
   [op |-> "groupmod", group |-> va, newname |-> a, gid |-> AUTOID],
   [op |-> "sgmapadd", name |-> b, group |-> vb], [op |-> "sgmapdel", name |-> a, group |-> vb]}

FewRequests ==
  {[op |-> "sgmapadd", name |-> a, group |-> va], [op |-> "sgmapdel", name |-> a, group |-> a],
   [op |-> "userdel", name |-> b]}
=============================================================================
