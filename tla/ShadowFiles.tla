---------------------------- MODULE ShadowFiles ----------------------------
(***************************************************************************)
(* The account data of the shadow driver (drivers/shadow): the records it  *)
(* keeps in memory, the files it keeps on disk, the functions that read    *)
(* one into the other, and the user and group operations on the in-memory  *)
(* lists.  Nothing here is concurrent; ShadowDb adds the processes.        *)
(*                                                                         *)
(* dq_user and dq_group are sequences of records, a file is a sequence of  *)
(* lines.  Of the seventeen fields of struct vxdb_user the ones kept are   *)
(* those that decide control or live in different files: name, uid, gid    *)
(* (passwd), the password (shadow) and the uuid (vxshadow).                *)
(***************************************************************************)
EXTENDS Integers, Sequences, FiniteSets

CONSTANTS
  UserName,       \* login names
  GroupName,      \* group names
  Id,             \* numeric user and group ids
  Password,       \* encrypted passwords
  Uuid,           \* external user ids
  NULL,           \* the null pointer: no password, no uuid, "do not change"
  LockedPw,       \* the password "!"
  UidMin, UidMax, \* etc/autouid.conf, UID_MIN and UID_MAX
  GidMin, GidMax  \* etc/autouid.conf, GID_MIN and GID_MAX

ASSUME DataAssumption ==
  /\ LockedPw \in Password
  /\ NULL \notin UserName \cup GroupName \cup Password \cup Uuid

ASSUME IdAssumption ==
  /\ UidMin \in Nat /\ UidMax \in Nat /\ GidMin \in Nat /\ GidMax \in Nat
  /\ Id \subseteq Nat
  /\ 1 .. (UidMin - 1) \subseteq Id /\ UidMin .. UidMax \subseteq Id
  /\ 1 .. (GidMin - 1) \subseteq Id /\ GidMin .. GidMax \subseteq Id

\* libvxdb.h: the reserved numbers, outside of Id
VXDB_NO_CHANGE   == -2
VXDB_AUTOUID     == -1
VXDB_AUTOUID_SYS == -2
VXDB_AUTOGID     == -1
VXDB_AUTOGID_SYS == -2
VXDB_NOGID       == -1

User  == [name : UserName, uid : Id, gid : Id,
          pw : Password \cup {NULL}, uuid : Uuid \cup {NULL}]
Group == [name : GroupName, gid : Id]

PasswdLine == [name : UserName, uid : Id, gid : Id]
ShadowLine == [name : UserName, pw : Password]
\* A line without a uuid stands for a user that vxshadow has no element for.
VxLine     == [name : UserName, uuid : Uuid \cup {NULL}]

File  == {"passwd", "shadow", "vxshadow", "group"}
Image == [passwd : Seq(PasswdLine), shadow : Seq(ShadowLine),
          vxshadow : Seq(VxLine), group : Seq(Group)]

-----------------------------------------------------------------------------
(* Looking entries up.  A lookup result is the set holding the index of the *)
(* first match, empty when there is none.                                   *)

lookup(list, n) ==
  {i \in DOMAIN list : /\ list[i].name = n
                       /\ \A j \in 1 .. (i - 1) : list[j].name # n}

Names(list) == {list[i].name : i \in DOMAIN list}

UniqueNames(list) ==
  \A i, j \in DOMAIN list : list[i].name = list[j].name => i = j

\* The line that is assigned last wins.
Last(lines, S) == lines[CHOOSE i \in S : \A j \in S : j <= i]

-----------------------------------------------------------------------------
(* Reading the files *)

db_read_passwd(lines) ==
  [i \in DOMAIN lines |->
     [name |-> lines[i].name, uid |-> lines[i].uid, gid |-> lines[i].gid,
      pw |-> NULL, uuid |-> NULL]]

\* A shadow line goes to the first user of its name; orphans are skipped.
db_read_shadow(lines, users) ==
  [i \in DOMAIN users |->
     LET mine == {k \in DOMAIN lines : lines[k].name = users[i].name}
     IN  IF mine # {} /\ i \in lookup(users, users[i].name)
           THEN [users[i] EXCEPT !.pw = Last(lines, mine).pw]
           ELSE users[i]]

db_read_vxshadow(lines, users) ==
  [i \in DOMAIN users |->
     LET mine == {k \in DOMAIN lines : /\ lines[k].name = users[i].name
                                       /\ lines[k].uuid # NULL}
     IN  IF mine # {} /\ i \in lookup(users, users[i].name)
           THEN [users[i] EXCEPT !.uuid = Last(lines, mine).uuid]
           ELSE users[i]]

\* What an undisturbed db_open() of a privileged process finds.
ReadUsers(img, hasVx) ==
  LET us == db_read_shadow(img.shadow, db_read_passwd(img.passwd))
  IN  IF hasVx THEN db_read_vxshadow(img.vxshadow, us) ELSE us

-----------------------------------------------------------------------------
(* Writing the files *)

\* mutant: the missing password is written as it is
WriteImage_RawPassword(users, groups) ==
  [passwd   |-> [i \in DOMAIN users |->
                   [name |-> users[i].name, uid |-> users[i].uid,
                    gid |-> users[i].gid]],
   shadow   |-> [i \in DOMAIN users |->
                   [name |-> users[i].name, pw |-> users[i].pw]],
   vxshadow |-> [i \in DOMAIN users |->
                   [name |-> users[i].name, uuid |-> users[i].uuid]],
   group    |-> groups]

\* A user without password is written with "!".
WriteImage(users, groups) ==
  [passwd   |-> [i \in DOMAIN users |->
                   [name |-> users[i].name, uid |-> users[i].uid,
                    gid |-> users[i].gid]],
   shadow   |-> [i \in DOMAIN users |->
                   [name |-> users[i].name,
                    pw |-> IF users[i].pw = NULL THEN LockedPw
                                                 ELSE users[i].pw]],
   vxshadow |-> [i \in DOMAIN users |->
                   [name |-> users[i].name, uuid |-> users[i].uuid]],
   group    |-> groups]

\* What survives of a list of users when it is written and read back.
Stored(users, hasVx) ==
  [i \in DOMAIN users |->
     [users[i] EXCEPT !.pw = IF @ = NULL THEN LockedPw ELSE @,
                      !.uuid = IF hasVx THEN @ ELSE NULL]]

Elements(vxlines) == {i \in DOMAIN vxlines : vxlines[i].uuid # NULL}

(* The new lines go over the old ones in place: until the file is truncated *)
(* a longer old content sticks out behind the new one.  A vxshadow document *)
(* with such a rest does not parse, which reads like an empty one.          *)
Overwritten(f, old, new) ==
  IF f = "vxshadow"
    THEN IF Cardinality(Elements(old)) > Cardinality(Elements(new))
           THEN <<>> ELSE new
    ELSE new \o SubSeq(old, Len(new) + 1, Len(old))

\* mutant: truncate_here() forgotten
Truncated_Never(f, old, new) == IF f = "vxshadow" THEN new ELSE old

\* truncate_here(): cut behind what has just been written
Truncated(f, old, new) ==
  IF f = "vxshadow" THEN new
  ELSE IF Len(old) <= Len(new) THEN old ELSE SubSeq(old, 1, Len(new))

-----------------------------------------------------------------------------
(* Operations on the lists.  An operation yields the set of lists it may    *)
(* leave behind, empty when it returns an error and changes nothing.        *)

Without(list, i) == SubSeq(list, 1, i - 1) \o SubSeq(list, i + 1, Len(list))

FirstFree(lo, hi, used) ==
  {i \in lo .. hi : i \notin used /\ \A j \in lo .. (i - 1) : j \in used}

Uids(users)  == {users[i].uid : i \in DOMAIN users}
Gids(groups) == {groups[i].gid : i \in DOMAIN groups}

\* The id that is given out, no element for ENOSPC.  AutoId has the loops.
automatic_uid(users, wanted) ==
  CASE wanted = VXDB_AUTOUID_SYS -> FirstFree(1, UidMin - 1, Uids(users))
    [] wanted = VXDB_AUTOUID     -> FirstFree(UidMin, UidMax, Uids(users))
    [] OTHER                     -> {wanted}

automatic_gid(groups, wanted) ==
  CASE wanted = VXDB_AUTOGID_SYS -> FirstFree(1, GidMin - 1, Gids(groups))
    [] wanted = VXDB_AUTOGID     -> FirstFree(GidMin, GidMax, Gids(groups))
    [] OTHER                     -> {wanted}

useradd(users, rq) ==
  IF lookup(users, rq.name) # {} THEN {}
  ELSE {Append(users, [rq EXCEPT !.uid = id]) :
          id \in automatic_uid(users, rq.uid)}

\* UP_STR and UP_INT of usermod(): NULL and VXDB_NO_CHANGE keep the field
Keep(new, old, none) == IF new = none THEN old ELSE new

usermod(users, n, mask) ==
  {[users EXCEPT ![i] =
      [name |-> Keep(mask.name, @.name, NULL),
       uid  |-> Keep(mask.uid, @.uid, VXDB_NO_CHANGE),
       gid  |-> Keep(mask.gid, @.gid, VXDB_NO_CHANGE),
       pw   |-> Keep(mask.pw, @.pw, NULL),
       uuid |-> Keep(mask.uuid, @.uuid, NULL)]] : i \in lookup(users, n)}

userdel(users, n) == {Without(users, i) : i \in lookup(users, n)}

\* The existence test of groupadd() is the wrong way round: a name that is
\* not there yet is refused with ENOENT.
groupadd(groups, rq) ==
  IF lookup(groups, rq.name) = {} THEN {}
  ELSE {Append(groups, [rq EXCEPT !.gid = id]) :
          id \in automatic_gid(groups, rq.gid)}

groupmod(groups, n, mask) ==
  {[groups EXCEPT ![i] =
      [name |-> Keep(mask.name, @.name, NULL),
       gid  |-> Keep(mask.gid, @.gid, VXDB_NOGID)]] : i \in lookup(groups, n)}

groupdel(groups, n) == {Without(groups, i) : i \in lookup(groups, n)}
=============================================================================
