---------------------------- MODULE AccountTools ----------------------------
(***************************************************************************)
(* The programs vxuseradd, vxusermod, vxuserdel, vxgroupadd, vxgroupmod,   *)
(* vxgroupdel and vxfixuuid on the database of the shadow driver.  A run   *)
(* opens the database for writing, which gives it a copy that nobody else  *)
(* can change meanwhile (see SerialDb), works on the copy and on the home  *)
(* directories, and closes the database, which stores the copy.  Home      *)
(* directories change at once.  What the command line and the              *)
(* configuration file say is one record of Requests.                       *)
(***************************************************************************)
EXTENDS Integers, Sequences, SequencesExt

CONSTANTS
  Requests,     \* what the programs are asked to do
  Name, Group, Dir, Person,
  Uid, Gid, Day,        \* sets of numbers
  None,                 \* an option that is not given, a thing that is not there
  AUTOUID, AUTOUID_SYS, \* -1 and -2
  UserIds, SysIds,      \* the ranges of the automatic uids
  root,                 \* the login name "root"
  Slash,                \* the directory "/"
  Shallow,              \* directories with fewer than two slashes in their names
  Below,                \* of each directory: what rmdir -r on it removes
  InitDb, InitDirs,
  Faults,               \* what may go wrong: a subset of {"open", "mkdir", "kill"}
  MaxRuns               \* bound on the number of runs

ASSUME ToolsAssumption ==
  /\ root \in Name /\ {Slash} \cup Shallow \subseteq Dir
  /\ UserIds \cup SysIds \subseteq Uid /\ 0 \in Uid /\ 0 \in Day
  /\ {AUTOUID, AUTOUID_SYS} \cap Uid = {}
  /\ Below \in [Dir -> SUBSET Dir] /\ \A d \in Dir : d \in Below[d]
  /\ MaxRuns \in Nat

Option(S) == S \cup {None}

\* What the options, the configuration files and the defaults come to.  The
\* options --before and --after, the shell, the dates and the secondary groups
\* make no difference here.
UseraddRq == [tool : {"useradd"}, name : Name, uid : Option(Uid), allow_dup : BOOLEAN,
              sys : BOOLEAN, gid : Gid, home : Dir, real : Person,
              create_home : BOOLEAN]
UserdelRq == [tool : {"userdel"}, name : Name, rm_home : BOOLEAN, force : BOOLEAN]
UsermodRq == [tool : {"usermod"}, name : Name, newname : Option(Name), uid : Option(Uid),
              home : Option(Dir), real : Option(Person)]
FixuuidRq == [tool : {"fixuuid"}, name : Name, real : Option(Person), bday : Option(Day)]
GroupaddRq == [tool : {"groupadd"}, name : Group, gid : Option(Gid), allow_dup : BOOLEAN]
GroupmodRq == [tool : {"groupmod"}, name : Group, gid : Option(Gid), newname : Option(Group),
               allow_dup : BOOLEAN]
GroupdelRq == [tool : {"groupdel"}, name : Group, force : BOOLEAN]

ASSUME RequestAssumption ==
  Requests \subseteq UNION {UseraddRq, UserdelRq, UsermodRq, FixuuidRq, GroupaddRq, GroupmodRq,
                           GroupdelRq}

VARIABLES
  file,     \* the stored accounts and groups
  db,       \* the copy of the run
  dirs,     \* the owner of each directory, None where there is none
  pc, run,  \* what the run does next, and its request
  ret,      \* what the run returns
  start,    \* history: the stored accounts and groups when the run began
  lost,     \* history: directories whose loss is accounted for (HomesKept)
  runs

vars == <<file, db, dirs, pc, run, ret, start, lost, runs>>

\* History: made says that useradd made the home directory.
User == [name : Name, uid : Uid, gid : Gid, home : Dir, real : Person,
         uuid : Option([real : Person, xday : Day]), made : BOOLEAN]

\* History: uids, names and gids are those given without a look at the others.
Database == [users : Seq(User), groups : Seq([name : Group, gid : Gid]),
             uids : SUBSET Uid, names : SUBSET Name, gids : SUBSET Gid]

\* The instance starts from accounts and directories that there can be.
ASSUME InitAssumption ==
  /\ InitDb \in Database /\ InitDirs \in [Dir -> Option(Uid)]
  /\ None \notin Uid \cup {AUTOUID, AUTOUID_SYS}

Init ==
  /\ file = InitDb /\ db = InitDb /\ start = InitDb
  /\ dirs = InitDirs
  /\ pc = "idle" /\ run = None /\ ret = "E_SUCCESS"
  /\ lost = {} /\ runs = 0

Users  == ToSet(db.users)
Groups == ToSet(db.groups)

\* lookup_user(), lookup_group(): the first of the name, 0 if there is none
UserAt(n)  == SelectInSeq(db.users, LAMBDA u : u.name = n)
GroupAt(n) == SelectInSeq(db.groups, LAMBDA g : g.name = n)

IfGiven(option, value) == IF option = None THEN value ELSE option
Unchecked(option) == {option} \ {None}

-----------------------------------------------------------------------------
(* Opening and closing: the functions *_run2() and *_main2() *)

Open(rq) ==
  /\ pc = "idle" /\ runs < MaxRuns
  /\ runs' = runs + 1 /\ start' = file
  /\ \/ /\ pc' = "main3" /\ run' = rq
        /\ db' = file
        /\ UNCHANGED ret
     \/ /\ "open" \in Faults
        /\ ret' = "E_OPEN"
        /\ UNCHANGED <<pc, run, db>>
  /\ UNCHANGED <<file, dirs, lost>>

Return(r) == pc' = "close" /\ ret' = r

Tool(name) ==
  /\ pc = "main3" /\ run.tool = name
  /\ UNCHANGED <<file, dirs, run, start, lost, runs>>

Refuse(condition, r) == condition /\ Return(r) /\ UNCHANGED db

\* vxdb_close(): the copy is stored, whatever the run returns.
Close ==
  /\ pc = "close" /\ pc' = "idle" /\ run' = None
  /\ file' = db
  /\ UNCHANGED <<db, dirs, ret, start, lost, runs>>

\* Whether vxuserdel -r removes the home directory
removable(home) == home # Slash /\ (home \notin Shallow \/ run.force)

\* The account that vxuserdel deletes, and what goes with its home directory
Deleted == SelectInSeq(file.users, LAMBDA u : u.name = run.name)
Gone ==
  LET home == file.users[Deleted].home
  IN  IF removable(home) THEN Below[home] ELSE {}

Removing == run.tool = "userdel" /\ run.rm_home /\ pc = "close" /\ ret = "E_SUCCESS"

\* mutant: changes are stored as they are made
Kill_Stored ==
  /\ pc # "idle" /\ pc' = "idle" /\ run' = None
  /\ ret' = "killed" /\ file' = db
  /\ UNCHANGED <<db, dirs, start, lost, runs>>

\* The process ends without vxdb_close(): killed, or main2() of fixuuid on an
\* error.  What a vxuserdel -r has removed before it is killed is gone.
Kill ==
  /\ "kill" \in Faults
  /\ pc # "idle" /\ pc' = "idle" /\ run' = None
  /\ ret' = "killed"
  /\ lost' = IF Removing THEN lost \cup Gone ELSE lost
  /\ UNCHANGED <<file, db, dirs, start, runs>>

-----------------------------------------------------------------------------
(* vxuseradd *)

\* mutant: -u is looked at only together with -r
uid_used_Sys(rq) == rq.sys /\ \E u \in Users : u.uid = rq.uid

uid_used(rq) == rq.uid # None /\ ~rq.allow_dup /\ \E u \in Users : u.uid = rq.uid

\* The uid that useradd_run3() puts into the request
request_uid(rq) == IF rq.uid # None THEN rq.uid
                   ELSE IF rq.sys THEN AUTOUID_SYS ELSE AUTOUID

\* automatic_uid(): see AutoId for the one that it takes
automatic_uid(wanted) ==
  LET free(range) == range \ {u.uid : u \in Users}
  IN  CASE wanted = AUTOUID     -> free(UserIds)
        [] wanted = AUTOUID_SYS -> free(SysIds)
        [] OTHER                -> {wanted}

\* vxshadow_useradd() takes pw_gid, which only GROUP in useradd.conf sets, and
\* not pw_igrp, which -g sets.
NewUser(rq, uid) ==
  [name |-> rq.name, uid |-> uid, gid |-> rq.gid, home |-> rq.home, real |-> rq.real,
   uuid |-> None, made |-> FALSE]

useradd_run3 ==
  LET rq  == run
      ids == automatic_uid(request_uid(rq))
  IN  /\ Tool("useradd")
      /\ \/ Refuse(UserAt(rq.name) # 0, "E_NAME_USED")
         \/ Refuse(UserAt(rq.name) = 0 /\ uid_used(rq), "E_UID_USED")
         \/ Refuse(UserAt(rq.name) = 0 /\ ids = {}, "E_UPDATE")
         \/ /\ UserAt(rq.name) = 0 /\ ~uid_used(rq)
            /\ \E uid \in ids :
                 db' = [db EXCEPT !.users = Append(@, NewUser(rq, uid)),
                                  !.uids = IF rq.allow_dup THEN @ \cup Unchecked(rq.uid) ELSE @]
            /\ pc' = IF rq.create_home THEN "mkdir" ELSE "close"
            /\ ret' = "E_SUCCESS"

\* HX_mkdir(): a directory that is there already is as good.
mkdir ==
  /\ pc = "mkdir"
  /\ \/ /\ pc' = "chown"
        /\ dirs' = [dirs EXCEPT ![run.home] = IF @ = None THEN 0 ELSE @]
        /\ lost' = lost \ {run.home}
        /\ db' = [db EXCEPT !.users[Len(db.users)].made = TRUE]
        /\ UNCHANGED ret
     \/ /\ "mkdir" \in Faults
        /\ Return("E_POST")
        /\ UNCHANGED <<db, dirs, lost>>
  /\ UNCHANGED <<file, run, start, runs>>

\* lchown() and HX_copy_dir() get the uid of the request; -1 changes nothing.
chown ==
  /\ pc = "chown" /\ pc' = "close"
  /\ dirs' = IF request_uid(run) = AUTOUID THEN dirs
             ELSE [dirs EXCEPT ![run.home] = request_uid(run)]
  /\ UNCHANGED <<file, db, run, ret, start, lost, runs>>

-----------------------------------------------------------------------------
(* vxuserdel *)

protected(u) == ~run.force /\ (u.name = root \/ u.uid = 0)

\* mutant: the refusal is only printed
userdel_run3_NoReturn ==
  LET i == UserAt(run.name)
  IN  /\ Tool("userdel") /\ i # 0
      /\ db' = IF protected(db.users[i]) THEN db ELSE [db EXCEPT !.users = RemoveAt(@, i)]
      /\ pc' = IF run.rm_home THEN "rmdir" ELSE "close"
      /\ ret' = "E_SUCCESS"

userdel_run3 ==
  LET i == UserAt(run.name)
  IN  /\ Tool("userdel")
      /\ \/ Refuse(i = 0, "E_OTHER")
         \/ Refuse(i # 0 /\ protected(db.users[i]), "E_DENY")
         \/ /\ i # 0 /\ ~protected(db.users[i])
            /\ db' = [db EXCEPT !.users = RemoveAt(@, i)]
            /\ pc' = IF run.rm_home THEN "rmdir" ELSE "close"
            /\ ret' = "E_SUCCESS"

\* HX_rrmdir(), before vxdb_close().  What it takes from accounts other than
\* the one deleted is theirs to lose.
rrmdir ==
  /\ pc = "rmdir" /\ pc' = "close"
  /\ dirs' = [d \in Dir |-> IF d \in Gone THEN None ELSE dirs[d]]
  /\ lost' = lost \cup ({file.users[j].home : j \in DOMAIN file.users \ {Deleted}} \cap Gone)
  /\ UNCHANGED <<file, db, run, ret, start, runs>>

-----------------------------------------------------------------------------
(* vxusermod and vxfixuuid *)

\* vxshadow_usermod() changes what is given; -g, -m, -o, -L and -U have no
\* effect, and nobody looks whether the new name or uid is in use.
Changed(u, rq) ==
  [u EXCEPT !.name = IfGiven(rq.newname, @), !.uid = IfGiven(rq.uid, @),
            !.home = IfGiven(rq.home, @), !.made = @ /\ rq.home = None,
            !.real = IfGiven(rq.real, @)]

usermod_run3 ==
  LET i == UserAt(run.name)
  IN  /\ Tool("usermod")
      /\ \/ Refuse(i = 0, "E_NO_EXIST")
         \/ /\ i # 0
            /\ db' = [db EXCEPT !.users[i] = Changed(@, run),
                               !.uids = @ \cup Unchecked(run.uid),
                               !.names = @ \cup Unchecked(run.newname)]
            /\ Return("E_SUCCESS")

\* vxuuid_vx3() of the real name and the birthday; without -b the day of the
\* old uuid, if there is one
rebuild_uuid(u, rq) ==
  [real |-> IfGiven(rq.real, u.real),
   xday |-> IfGiven(rq.bday, IF u.uuid = None THEN 0 ELSE u.uuid.xday)]

fixuuid ==
  LET i == UserAt(run.name)
  IN  /\ pc = "main3" /\ run.tool = "fixuuid"
      /\ \/ /\ i = 0 /\ db' = db
            /\ pc' = "idle" /\ run' = None /\ ret' = "E_OTHER"
         \/ /\ i # 0
            /\ db' = [db EXCEPT !.users[i].real = IfGiven(run.real, @),
                               !.users[i].uuid = rebuild_uuid(db.users[i], run)]
            /\ Return("E_SUCCESS") /\ UNCHANGED run
      /\ UNCHANGED <<file, dirs, start, lost, runs>>

-----------------------------------------------------------------------------
(* vxgroupadd, vxgroupmod and vxgroupdel *)

gid_used(rq) == rq.gid # None /\ ~rq.allow_dup /\ \E g \in Groups : g.gid = rq.gid

\* vxshadow_groupadd() returns -ENOENT unless the group is there already, so
\* that no request gets through.
groupadd_main3 ==
  LET i == GroupAt(run.name)
  IN  /\ Tool("groupadd")
      /\ \/ Refuse(i # 0, "E_NAME_USED")
         \/ Refuse(i = 0 /\ gid_used(run), "E_GID_USED")
         \/ Refuse(i = 0 /\ ~gid_used(run), "E_UPDATE")

new_name_used(g) == run.newname # None /\ run.newname # g.name /\ GroupAt(run.newname) # 0

groupmod_main3 ==
  LET i == GroupAt(run.name)
      gid_taken == run.gid # db.groups[i].gid /\ gid_used(run)
      renamed   == new_name_used(db.groups[i])
  IN  /\ Tool("groupmod")
      /\ \/ Refuse(i = 0, "E_NO_EXIST")
         \/ Refuse(i # 0 /\ gid_taken, "E_GID_USED")
         \/ Refuse(i # 0 /\ ~gid_taken /\ renamed, "E_NAME_USED")
         \/ /\ i # 0 /\ ~gid_taken /\ ~renamed
            /\ db' = [db EXCEPT !.groups[i] = [name |-> IfGiven(run.newname, @.name),
                                              gid |-> IfGiven(run.gid, @.gid)],
                               !.gids = IF run.allow_dup THEN @ \cup Unchecked(run.gid) ELSE @]
            /\ Return("E_SUCCESS")

\* mutant: the member list of the group is looked at, which is empty
check_pri_group_Never(g) == FALSE

\* groupdel_check_pri_group(): pw_igrp is NULL in the records of the shadow
\* driver.  The walk fills a record that is not initialized, which may end the
\* process (Kill).
check_pri_group(g) == \E u \in Users : u.gid = g.gid

groupdel_main3 ==
  LET i == GroupAt(run.name)
      primary == ~run.force /\ check_pri_group(db.groups[i])
  IN  /\ Tool("groupdel")
      /\ \/ Refuse(i = 0, "E_NO_EXIST")
         \/ Refuse(i # 0 /\ primary, "E_PRIMARY")
         \/ /\ i # 0 /\ ~primary
            /\ db' = [db EXCEPT !.groups = RemoveAt(@, i)]
            /\ Return("E_SUCCESS")

-----------------------------------------------------------------------------
Next ==
  \/ (\E rq \in Requests : Open(rq)) \/ Close \/ Kill
  \/ useradd_run3 \/ mkdir \/ chown
  \/ userdel_run3 \/ rrmdir
  \/ usermod_run3 \/ fixuuid
  \/ groupadd_main3 \/ groupmod_main3 \/ groupdel_main3

Spec == Init /\ [][Next]_vars

-----------------------------------------------------------------------------
Forced == run.tool \in {"userdel", "groupdel"} /\ run.force

(* A run that does not return success, or does not return at all, leaves     *)
(* the stored accounts and groups as they were; but vxuseradd keeps the      *)
(* account when making its home directory fails.                             *)
AllOrNothing ==
  pc = "idle" /\ ret \notin {"E_SUCCESS", "E_POST"} => file = start

(* No two accounts have one uid or one name, whatever mixture of given,      *)
(* automatic and system ids led there, unless -o or vxusermod gave them      *)
(* without a look at the other accounts.  Of a group the new gid "must be    *)
(* unique, unless -o is given", the new name "must be unique" (vxgroupmod.8).*)
NamesAndIdsUnique ==
  /\ \A i, j \in DOMAIN file.users : i # j =>
       /\ file.users[i].uid = file.users[j].uid => file.users[i].uid \in file.uids
       /\ file.users[i].name = file.users[j].name => file.users[i].name \in file.names
  /\ \A i, j \in DOMAIN file.groups : i # j =>
       /\ file.groups[i].gid = file.groups[j].gid => file.groups[i].gid \in file.gids
       /\ file.groups[i].name # file.groups[j].name

(* An account keeps the home directory that vxuseradd made for it until it   *)
(* is deleted itself.  It loses it only to a vxuserdel -r of an account with *)
(* the same directory or one above it, or to one that was killed before it   *)
(* stored the deletion.                                                      *)
HomesKept ==
  pc = "idle" =>
    \A u \in ToSet(file.users) : u.made => dirs[u.home] # None \/ u.home \in lost

(* vxgroupdel.8: without -F no group is deleted "of which a user is a        *)
(* primary member": the gid stays as long as stored accounts have it.        *)
PrimaryKept ==
  [][\A g \in ToSet(file.groups) :
       (\E u \in ToSet(file'.users) : u.gid = g.gid)
       /\ g.gid \notin {h.gid : h \in ToSet(file'.groups)}
       => run.tool = "groupmod" \/ Forced]_vars
=============================================================================
