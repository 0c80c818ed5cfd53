--------------------------- MODULE MCAccountTools ---------------------------
(* A small instance of AccountTools: root, whose home directory has one      *)
(* slash, and two people; one group that accounts get from useradd.conf and  *)
(* one that is free; uid 1 is a system id.                                   *)
EXTENDS AccountTools, TLC

CONSTANTS a, b, g, h, x, y, slash, srv, srv_a, srv_b

MCBelow == [d \in Dir |-> CASE d = slash -> Dir
                            [] d = srv   -> {srv, srv_a, srv_b}
                            [] OTHER     -> {d}]
MCDirs == [d \in Dir |-> CASE d \in {slash, srv} -> 0 [] d = srv_a -> 2 [] OTHER -> None]

Root == [name |-> root, uid |-> 0, gid |-> 0, home |-> srv, real |-> x, uuid |-> None,
         made |-> FALSE]
Alice == [Root EXCEPT !.name = a, !.uid = 2, !.gid = 1, !.home = srv_a,
                      !.uuid = [real |-> x, xday |-> 1], !.made = TRUE]
MCDb == [users |-> <<Root, Alice>>,
         groups |-> <<[name |-> g, gid |-> 1], [name |-> h, gid |-> 2]>>,
         uids |-> {}, names |-> {}, gids |-> {}]

Add == [tool |-> "useradd", name |-> b, uid |-> None, allow_dup |-> FALSE, sys |-> FALSE,
        gid |-> 1, home |-> srv_b, real |-> y, create_home |-> TRUE]
Mod == [tool |-> "usermod", name |-> a, newname |-> None, uid |-> None, home |-> None,
        real |-> None]
Del == [tool |-> "userdel", name |-> a, rm_home |-> TRUE, force |-> FALSE]
Fix == [tool |-> "fixuuid", name |-> a, real |-> None, bday |-> None]
GroupAdd == [tool |-> "groupadd", name |-> g, gid |-> 2, allow_dup |-> FALSE]
GroupMod == [tool |-> "groupmod", name |-> g, gid |-> 2, allow_dup |-> FALSE, newname |-> None]
GroupDel == [tool |-> "groupdel", name |-> g, force |-> FALSE]

MCRequests ==
  {Add, [Add EXCEPT !.uid = 2], [Add EXCEPT !.uid = 2, !.allow_dup = TRUE, !.create_home = FALSE],
   [Add EXCEPT !.sys = TRUE], [Add EXCEPT !.home = srv_a, !.uid = 3],
   [Add EXCEPT !.name = a, !.home = srv_a]}
  \cup {[Mod EXCEPT !.newname = b], [Mod EXCEPT !.uid = 0], [Mod EXCEPT !.home = srv],
        [Mod EXCEPT !.name = root, !.newname = b], [Mod EXCEPT !.real = y]}
  \cup {Del, [Del EXCEPT !.name = b], [Del EXCEPT !.name = root],
        [Del EXCEPT !.name = root, !.force = TRUE], [Del EXCEPT !.rm_home = FALSE]}
  \cup {[Fix EXCEPT !.real = y], [Fix EXCEPT !.bday = 2], [Fix EXCEPT !.name = b, !.real = x]}
  \cup {GroupAdd, [GroupAdd EXCEPT !.name = b], [GroupAdd EXCEPT !.name = b, !.gid = 0]}
  \cup {GroupMod, [GroupMod EXCEPT !.allow_dup = TRUE], [GroupMod EXCEPT !.newname = h, !.gid = None],
        [GroupMod EXCEPT !.name = h, !.newname = b, !.gid = 2]}
  \cup {GroupDel, [GroupDel EXCEPT !.force = TRUE], [GroupDel EXCEPT !.name = h]}
=============================================================================
