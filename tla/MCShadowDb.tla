----------------------------- MODULE MCShadowDb -----------------------------
(* Small instances of ShadowDb: two users, two groups, ids 1 to 3 of which   *)
(* 1 is a system id.                                                         *)
EXTENDS ShadowDb, TLC

CONSTANTS a, b, g, h, x, u, p1, p2

MCId == 1 .. 3

Alice == [name |-> a, uid |-> 2, gid |-> 2, pw |-> x, uuid |-> u]
Bob   == [name |-> b, uid |-> 3, gid |-> 2, pw |-> x, uuid |-> NULL]
Staff == [name |-> g, gid |-> 2]
Guest == [name |-> h, gid |-> 3]

OneUser  == WriteImage(<<Alice>>, <<Staff>>)
TwoUsers == WriteImage(<<Alice, Bob>>, <<Staff, Guest>>)
\* An account that somebody has added to passwd by hand, without shadow line
HalfUser == [TwoUsers EXCEPT !.shadow = SubSeq(@, 1, 1)]

MCInitDisks == {OneUser, HalfUser}
OneDisk == {TwoUsers}
SmallDisk == {OneUser}

NoMod == [name |-> NULL, uid |-> VXDB_NO_CHANGE, gid |-> VXDB_NO_CHANGE,
          pw |-> NULL, uuid |-> NULL]
MCAddRq == {[Bob EXCEPT !.uid = VXDB_AUTOUID, !.pw = NULL],
            [Alice EXCEPT !.uid = VXDB_AUTOUID_SYS]}
MCModRq == {[NoMod EXCEPT !.name = b], [NoMod EXCEPT !.pw = LockedPw, !.uuid = u]}
MCGroupAddRq == {[name |-> g, gid |-> VXDB_AUTOGID],
                 [name |-> h, gid |-> VXDB_AUTOGID_SYS]}
MCGroupModRq == {[name |-> h, gid |-> VXDB_NOGID], [name |-> NULL, gid |-> 3]}

\* One operation of each kind that matters to the runs with more processes
FewAddRq == {[Bob EXCEPT !.uid = VXDB_AUTOUID]}
FewModRq == {[NoMod EXCEPT !.pw = LockedPw]}
FewGroupModRq == {[name |-> NULL, gid |-> 3]}
NoRq == {}

ReadOrWrite  == {{}, {"WRLOCK"}}
WriteOnly    == {{"WRLOCK"}}
Anywhere     == PC \ {"closed"}
Symmetry     == Permutations({p1, p2})
=============================================================================
