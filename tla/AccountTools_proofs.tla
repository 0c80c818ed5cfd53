------------------------ MODULE AccountTools_proofs ------------------------
(***************************************************************************)
(* Proofs about AccountTools, for all requests, accounts, directories and  *)
(* faults: the types, that a run that fails stores nothing, that names and *)
(* ids stay unique, that home directories are kept, and that primary       *)
(* groups are.                                                             *)
(***************************************************************************)
EXTENDS AccountTools, SequenceTheorems, WellFoundedInduction, TLAPS

GroupRec == [name : Group, gid : Gid]

-----------------------------------------------------------------------------
(* Sequences *)

\* A set of indices that is not empty has a least one.
LEMMA LeastIndex ==
  ASSUME NEW I, I \subseteq Nat, I # {}
  PROVE  Min(I) \in I /\ \A i \in I : Min(I) <= i
<1>1. PICK k \in I : \A y \in I : ~ (<<y, k>> \in OpToRel(<, Nat))
  BY WFMin, NatLessThanWellFounded, Zenon
<1>2. \A y \in I : k <= y
  <2> TAKE y \in I
  <2>1. ~ (y < k)
    BY <1>1 DEF OpToRel
  <2> QED
    BY <2>1
<1> QED
  BY <1>2 DEF Min

\* lookup_user() and lookup_group() return the first record of the name.
LEMMA UserAtIs ==
  ASSUME db \in Database, NEW n
  PROVE  /\ UserAt(n) # 0 => UserAt(n) \in DOMAIN db.users /\ db.users[UserAt(n)].name = n
         /\ UserAt(n) = 0 => \A i \in DOMAIN db.users : db.users[i].name # n
<1> DEFINE I == {i \in 1 .. Len(db.users) : db.users[i].name = n}
<1>1. db.users \in Seq(User) /\ DOMAIN db.users = 1 .. Len(db.users) /\ Len(db.users) \in Nat
  BY DEF Database
<1>2. UserAt(n) = IF I # {} THEN Min(I) ELSE 0
  BY DEF UserAt, SelectInSeq
<1>3. ASSUME I # {}
      PROVE  Min(I) \in I
  <2>1. I \subseteq Nat
    BY <1>1
  <2> HIDE DEF I
  <2> QED
    BY <2>1, <1>3, LeastIndex
<1> QED
  BY <1>1, <1>2, <1>3

\* The same for groups.
LEMMA GroupAtIs ==
  ASSUME db \in Database, NEW n
  PROVE  /\ GroupAt(n) # 0 => GroupAt(n) \in DOMAIN db.groups /\ db.groups[GroupAt(n)].name = n
         /\ GroupAt(n) = 0 => \A i \in DOMAIN db.groups : db.groups[i].name # n
<1> DEFINE I == {i \in 1 .. Len(db.groups) : db.groups[i].name = n}
<1>1. db.groups \in Seq(GroupRec) /\ DOMAIN db.groups = 1 .. Len(db.groups) /\ Len(db.groups) \in Nat
  BY DEF Database, GroupRec
<1>2. GroupAt(n) = IF I # {} THEN Min(I) ELSE 0
  BY DEF GroupAt, SelectInSeq
<1>3. ASSUME I # {}
      PROVE  Min(I) \in I
  <2>1. I \subseteq Nat
    BY <1>1
  <2> HIDE DEF I
  <2> QED
    BY <2>1, <1>3, LeastIndex
<1> QED
  BY <1>1, <1>2, <1>3

\* What RemoveAt() leaves is the rest, each record at one place.
LEMMA RemoveAtIs ==
  ASSUME NEW S, NEW s \in Seq(S), NEW i \in DOMAIN s
  PROVE  /\ RemoveAt(s, i) \in Seq(S)
         /\ Len(RemoveAt(s, i)) = Len(s) - 1
         /\ \A j \in 1 .. Len(s) - 1 : RemoveAt(s, i)[j] = s[IF j < i THEN j ELSE j + 1]
<1>1. DOMAIN s = 1 .. Len(s) /\ Len(s) \in Nat
  OBVIOUS
<1> DEFINE front == SubSeq(s, 1, i - 1)
           back  == SubSeq(s, i + 1, Len(s))
<1>2. front \in Seq(S) /\ Len(front) = i - 1 /\ \A j \in 1 .. i - 1 : front[j] = s[j]
  BY <1>1
<1>3. /\ back \in Seq(S) /\ Len(back) = Len(s) - i
      /\ \A j \in 1 .. Len(s) - i : back[j] = s[i + j]
  <2>1. back \in Seq(S) /\ Len(back) = Len(s) - i
    BY <1>1
  <2>2. \A j \in 1 .. Len(s) - i : back[j] = s[i + j]
    BY <1>1
  <2> QED
    BY <2>1, <2>2
<1>4. RemoveAt(s, i) = front \o back
  BY DEF RemoveAt
<1> HIDE DEF front, back
<1>5. Len(front \o back) = Len(s) - 1 /\ front \o back \in Seq(S)
  <2>1. front \o back \in Seq(S) /\ Len(front \o back) = Len(front) + Len(back)
    BY <1>2, <1>3, ConcatProperties, Zenon
  <2>2. (i - 1) + (Len(s) - i) = Len(s) - 1
    BY <1>1
  <2> QED
    BY <1>2, <1>3, <2>1, <2>2
<1>6. \A j \in 1 .. Len(s) - 1 : (front \o back)[j] = s[IF j < i THEN j ELSE j + 1]
  <2> TAKE j \in 1 .. Len(s) - 1
  <2>1. CASE j < i
    BY <1>1, <1>2, <1>3, <2>1
  <2>2. CASE ~ (j < i)
    <3>1. (front \o back)[j] = back[j - (i - 1)]
      BY <1>1, <1>2, <1>3, <2>2
    <3>2. j - (i - 1) \in 1 .. Len(s) - i /\ i + (j - (i - 1)) = j + 1
      BY <1>1, <2>2
    <3> QED
      BY <3>1, <3>2, <1>3, <2>2
  <2> QED
    BY <2>1, <2>2
<1> QED
  BY <1>4, <1>5, <1>6
-----------------------------------------------------------------------------
(* Types *)

Owner == Uid \cup {None, AUTOUID_SYS}

\* The types of the state.  Some program is running outside "idle".
TypeOK ==
  /\ file \in Database /\ db \in Database
  /\ dirs \in [Dir -> Owner] /\ lost \subseteq Dir
  /\ pc \in {"idle", "main3", "mkdir", "chown", "rmdir", "close"}
  /\ pc # "idle" => run \in Requests

\* Where a run is.  It starts from what is stored; vxuseradd alone makes a home
\* directory, that of the last account; vxuserdel -r has taken the account out
\* of the copy when it removes the directory and until the copy is stored.
StageOK ==
  /\ pc = "main3" => db = file
  /\ pc \in {"mkdir", "chown"} =>
       /\ run.tool = "useradd"
       /\ db.users # <<>> /\ db.users[Len(db.users)].home = run.home
  /\ pc = "rmdir" \/ Removing =>
       /\ run.tool = "userdel" /\ run.rm_home
       /\ Deleted \in DOMAIN file.users /\ db.users = RemoveAt(file.users, Deleted)

\* The tool of a request tells its other fields.
LEMMA RequestIs ==
  ASSUME run \in Requests
  PROVE  /\ run.tool = "useradd" => run \in UseraddRq
         /\ run.tool = "userdel" => run \in UserdelRq
         /\ run.tool = "usermod" => run \in UsermodRq
         /\ run.tool = "fixuuid" => run \in FixuuidRq
         /\ run.tool = "groupadd" => run \in GroupaddRq
         /\ run.tool = "groupmod" => run \in GroupmodRq
         /\ run.tool = "groupdel" => run \in GroupdelRq
BY RequestAssumption
   DEF UseraddRq, UserdelRq, UsermodRq, FixuuidRq, GroupaddRq, GroupmodRq, GroupdelRq

\* useradd_run3() refuses, or adds an account with a name that is new and a
\* uid that is new or given with -o.
LEMMA UseraddAdds ==
  ASSUME TypeOK, useradd_run3
  PROVE  \/ db' = db /\ pc' = "close" /\ ret' \notin {"E_SUCCESS", "E_POST"}
         \/ \E uid \in Uid :
              LET u == NewUser(run, uid)
              IN  /\ u \in User
                  /\ db'.users = Append(db.users, u)
                  /\ \A i \in DOMAIN db.users : db.users[i].name # u.name
                  /\ \A i \in DOMAIN db.users : db.users[i].uid = uid => uid \in db'.uids
                  /\ db.uids \subseteq db'.uids
                  /\ db'.groups = db.groups /\ db'.names = db.names /\ db'.gids = db.gids
                  /\ db' \in Database
                  /\ pc' \in {"mkdir", "close"} /\ ret' = "E_SUCCESS"
<1>1. run \in UseraddRq /\ pc = "main3"
  BY RequestIs DEF useradd_run3, Tool, TypeOK
<1> DEFINE ids == automatic_uid(request_uid(run))
<1>2. CASE db' = db /\ \E r \in {"E_NAME_USED", "E_UID_USED", "E_UPDATE"} : Return(r)
  BY <1>2 DEF Return
<1>3. ASSUME NEW uid \in ids, UserAt(run.name) = 0, ~uid_used(run),
             db' = [db EXCEPT !.users = Append(@, NewUser(run, uid)),
                              !.uids = IF run.allow_dup THEN @ \cup Unchecked(run.uid) ELSE @],
             pc' = IF run.create_home THEN "mkdir" ELSE "close",
             ret' = "E_SUCCESS"
      PROVE  uid \in Uid /\
             LET u == NewUser(run, uid)
              IN  /\ u \in User
                  /\ db'.users = Append(db.users, u)
                  /\ \A i \in DOMAIN db.users : db.users[i].name # u.name
                  /\ \A i \in DOMAIN db.users : db.users[i].uid = uid => uid \in db'.uids
                  /\ db.uids \subseteq db'.uids
                  /\ db'.groups = db.groups /\ db'.names = db.names /\ db'.gids = db.gids
                  /\ db' \in Database
                  /\ pc' \in {"mkdir", "close"} /\ ret' = "E_SUCCESS"
  <2> DEFINE u == NewUser(run, uid)
             uids2 == IF run.allow_dup THEN db.uids \cup Unchecked(run.uid) ELSE db.uids
  <2>1. /\ run.uid \in Option(Uid) /\ run.allow_dup \in BOOLEAN /\ run.sys \in BOOLEAN
        /\ run.name \in Name /\ run.gid \in Gid /\ run.home \in Dir /\ run.real \in Person
        /\ run.create_home \in BOOLEAN
    BY <1>1 DEF UseraddRq
  <2>2. db \in Database /\ db.users \in Seq(User) /\ db.uids \in SUBSET Uid
    BY DEF TypeOK, Database
  <2>3. /\ uid \in Uid
        /\ run.uid # None => uid = run.uid
        /\ run.uid = None => \A i \in DOMAIN db.users : db.users[i].uid # uid
    <3>1. CASE run.uid # None
      BY <2>1, <3>1, <1>3, ToolsAssumption DEF automatic_uid, request_uid, Option
    <3>2. CASE run.uid = None
      <4>1. uid \in (UserIds \cup SysIds) \ {w.uid : w \in Users}
        BY <3>2, <1>3, ToolsAssumption DEF automatic_uid, request_uid
      <4> QED
        BY <4>1, <3>2, ToolsAssumption DEF Users, ToSet
    <3> QED
      BY <3>1, <3>2
  <2>4. u \in User
    BY <2>1, <2>3 DEF NewUser, User, Option
  <2>5. uids2 \in SUBSET Uid /\ db.uids \subseteq uids2
    BY <2>1, <2>2 DEF Unchecked, Option
  <2>6. Append(db.users, u) \in Seq(User)
    BY <2>2, <2>4, AppendProperties
  <2>7. /\ db' = [db EXCEPT !.users = Append(db.users, u), !.uids = uids2]
        /\ db'.users = Append(db.users, u) /\ db'.uids = uids2
        /\ db'.groups = db.groups /\ db'.names = db.names /\ db'.gids = db.gids
    BY <1>3, <2>2 DEF Database
  <2>8. db' \in Database
    <3> HIDE DEF u, uids2
    <3> QED
      BY <2>2, <2>5, <2>6, <2>7 DEF Database
  <2>9. \A i \in DOMAIN db.users : db.users[i].name # u.name
    BY <1>3, <2>2, UserAtIs DEF NewUser
  <2>10. ASSUME NEW i \in DOMAIN db.users, db.users[i].uid = uid
         PROVE  uid \in db'.uids
    <3>1. run.uid = uid /\ run.uid # None
      BY <2>3, <2>10
    <3>2. run.allow_dup
      BY <1>3, <2>10, <3>1, <2>1 DEF uid_used, Users, ToSet
    <3> QED
      BY <3>1, <3>2, <2>7 DEF Unchecked
  <2>11. pc' \in {"mkdir", "close"}
    BY <1>3
  <2> QED
    BY <2>3, <2>4, <2>5, <2>7, <2>8, <2>9, <2>10, <2>11, <1>3
<1>4. \/ db' = db /\ \E r \in {"E_NAME_USED", "E_UID_USED", "E_UPDATE"} : Return(r)
      \/ \E uid \in ids :
           /\ UserAt(run.name) = 0 /\ ~uid_used(run)
           /\ db' = [db EXCEPT !.users = Append(@, NewUser(run, uid)),
                               !.uids = IF run.allow_dup THEN @ \cup Unchecked(run.uid) ELSE @]
           /\ pc' = IF run.create_home THEN "mkdir" ELSE "close"
           /\ ret' = "E_SUCCESS"
  BY DEF useradd_run3, Refuse
<1> HIDE DEF ids
<1> QED
  BY <1>2, <1>3, <1>4

\* userdel_run3() refuses, or takes the account of the request out of the list.
LEMMA UserdelDrops ==
  ASSUME TypeOK, userdel_run3
  PROVE  \/ db' = db /\ pc' = "close" /\ ret' \notin {"E_SUCCESS", "E_POST"}
         \/ \E k \in DOMAIN db.users :
              /\ k = UserAt(run.name)
              /\ db'.users = RemoveAt(db.users, k)
              /\ db'.groups = db.groups /\ db'.uids = db.uids /\ db'.names = db.names
              /\ db'.gids = db.gids
              /\ db' \in Database
              /\ pc' = IF run.rm_home THEN "rmdir" ELSE "close"
              /\ ret' = "E_SUCCESS"
<1> DEFINE k == UserAt(run.name)
<1>1. CASE db' = db /\ \E r \in {"E_OTHER", "E_DENY"} : Return(r)
  BY <1>1 DEF Return
<1>2. CASE /\ k # 0 /\ db' = [db EXCEPT !.users = RemoveAt(@, k)]
           /\ pc' = IF run.rm_home THEN "rmdir" ELSE "close"
           /\ ret' = "E_SUCCESS"
  <2>1. db \in Database /\ db.users \in Seq(User)
    BY DEF TypeOK, Database
  <2>2. k \in DOMAIN db.users
    BY <1>2, <2>1, UserAtIs
  <2>3. RemoveAt(db.users, k) \in Seq(User)
    <3> HIDE DEF k
    <3> QED
      BY <2>1, <2>2, RemoveAtIs
  <2>4. /\ db'.users = RemoveAt(db.users, k) /\ db'.groups = db.groups
        /\ db'.uids = db.uids /\ db'.names = db.names /\ db'.gids = db.gids
    BY <1>2, <2>1 DEF Database
  <2>5. db' \in Database
    <3> HIDE DEF k
    <3> QED
      BY <1>2, <2>1, <2>3 DEF Database
  <2> HIDE DEF k
  <2>6. \E j \in DOMAIN db.users : j = k
    BY <2>2
  <2> QED
    BY <1>2, <2>2, <2>4, <2>5, <2>6 DEF k
<1>3. \/ db' = db /\ \E r \in {"E_OTHER", "E_DENY"} : Return(r)
      \/ /\ k # 0 /\ db' = [db EXCEPT !.users = RemoveAt(@, k)]
         /\ pc' = IF run.rm_home THEN "rmdir" ELSE "close"
         /\ ret' = "E_SUCCESS"
  BY DEF userdel_run3, Refuse
<1> HIDE DEF k
<1> QED
  BY <1>1, <1>2, <1>3

\* What one program does to the account at k, the others staying as they are
Edited(k) ==
  /\ k \in DOMAIN db.users
  /\ db'.users \in Seq(User) /\ Len(db'.users) = Len(db.users)
  /\ \A i \in DOMAIN db.users : i # k => db'.users[i] = db.users[i]
  /\ db'.groups = db.groups /\ db'.gids = db.gids
  /\ db' \in Database

\* usermod_run3() refuses, or changes one account, its name and its uid only to
\* those given.
LEMMA UsermodEdits ==
  ASSUME TypeOK, usermod_run3
  PROVE  \/ db' = db /\ pc' = "close" /\ ret' \notin {"E_SUCCESS", "E_POST"}
         \/ \E k \in DOMAIN db.users :
              /\ Edited(k)
              /\ db'.users[k] = Changed(db.users[k], run)
              /\ db'.uids = db.uids \cup Unchecked(run.uid)
              /\ db'.names = db.names \cup Unchecked(run.newname)
              /\ pc' = "close" /\ ret' = "E_SUCCESS"
<1>1. run \in UsermodRq
  BY RequestIs DEF usermod_run3, Tool, TypeOK
<1> DEFINE k == UserAt(run.name)
<1>2. CASE Return("E_NO_EXIST") /\ db' = db
  BY <1>2 DEF Return
<1>3. CASE /\ k # 0
           /\ db' = [db EXCEPT !.users[k] = Changed(@, run),
                               !.uids = @ \cup Unchecked(run.uid),
                               !.names = @ \cup Unchecked(run.newname)]
           /\ Return("E_SUCCESS")
  <2>1. db \in Database /\ db.users \in Seq(User) /\ db.uids \in SUBSET Uid
        /\ db.names \in SUBSET Name
    BY DEF TypeOK, Database
  <2>2. k \in DOMAIN db.users
    BY <1>3, <2>1, UserAtIs
  <2> HIDE DEF k
  <2>3. /\ run.newname \in Option(Name) /\ run.uid \in Option(Uid)
        /\ run.home \in Option(Dir) /\ run.real \in Option(Person)
    BY <1>1 DEF UsermodRq
  <2> DEFINE u == Changed(db.users[k], run)
             users2 == [db.users EXCEPT ![k] = u]
             uids2 == db.uids \cup Unchecked(run.uid)
             names2 == db.names \cup Unchecked(run.newname)
  <2>4. u \in User
    <3>1. db.users[k] \in User
      BY <2>1, <2>2
    <3> QED
      BY <3>1, <2>3 DEF Changed, IfGiven, User, Option
  <2>5. uids2 \in SUBSET Uid /\ names2 \in SUBSET Name
    BY <2>1, <2>3 DEF Unchecked, Option
  <2>6. /\ db' = [db EXCEPT !.users = users2, !.uids = uids2, !.names = names2]
        /\ db'.users = users2 /\ db'.uids = uids2 /\ db'.names = names2
        /\ db'.groups = db.groups /\ db'.gids = db.gids
    BY <1>3, <2>1 DEF Database
  <2> HIDE DEF u, uids2, names2
  <2>7. /\ users2 \in Seq(User) /\ Len(users2) = Len(db.users) /\ users2[k] = u
        /\ \A i \in DOMAIN db.users : i # k => users2[i] = db.users[i]
    BY <2>1, <2>2, <2>4, ExceptSeq
  <2> HIDE DEF users2
  <2>8. db' \in Database
    BY <2>1, <2>5, <2>6, <2>7 DEF Database
  <2>9. Edited(k)
    BY <2>2, <2>6, <2>7, <2>8 DEF Edited
  <2> QED
    BY <1>3, <2>2, <2>6, <2>7, <2>9 DEF Return, u, uids2, names2
<1>4. \/ Return("E_NO_EXIST") /\ db' = db
      \/ /\ k # 0
         /\ db' = [db EXCEPT !.users[k] = Changed(@, run),
                             !.uids = @ \cup Unchecked(run.uid),
                             !.names = @ \cup Unchecked(run.newname)]
         /\ Return("E_SUCCESS")
  BY DEF usermod_run3, Refuse
<1> HIDE DEF k
<1> QED
  BY <1>2, <1>3, <1>4

\* fixuuid ends without storing anything, or changes the real name and the uuid
\* of one account.
LEMMA FixuuidEdits ==
  ASSUME TypeOK, fixuuid
  PROVE  \/ db' = db /\ pc' = "idle" /\ run' = None /\ ret' = "E_OTHER"
         \/ \E k \in DOMAIN db.users :
              /\ Edited(k)
              /\ \A f \in {"name", "uid", "gid", "home", "made"} :
                   db'.users[k][f] = db.users[k][f]
              /\ db'.uids = db.uids /\ db'.names = db.names
              /\ pc' = "close" /\ ret' = "E_SUCCESS" /\ run' = run
<1>1. run \in FixuuidRq
  BY RequestIs DEF fixuuid, TypeOK
<1> DEFINE k == UserAt(run.name)
<1>2. CASE /\ k # 0
           /\ db' = [db EXCEPT !.users[k].real = IfGiven(run.real, @),
                               !.users[k].uuid = rebuild_uuid(db.users[k], run)]
           /\ Return("E_SUCCESS") /\ run' = run
  <2>1. db \in Database /\ db.users \in Seq(User)
    BY DEF TypeOK, Database
  <2>2. k \in DOMAIN db.users
    BY <1>2, <2>1, UserAtIs
  <2> HIDE DEF k
  <2>3. run.real \in Option(Person) /\ run.bday \in Option(Day)
    BY <1>1 DEF FixuuidRq
  <2>4. db.users[k] \in User
    BY <2>1, <2>2
  <2> DEFINE real2 == IfGiven(run.real, db.users[k].real)
             uuid2 == rebuild_uuid(db.users[k], run)
             u == [db.users[k] EXCEPT !.real = real2, !.uuid = uuid2]
             users2 == [db.users EXCEPT ![k] = u]
  <2>5. real2 \in Person /\ uuid2 \in [real : Person, xday : Day]
    BY <2>3, <2>4, ToolsAssumption DEF IfGiven, rebuild_uuid, Option, User
  <2>6. db' = [db EXCEPT !.users = users2]
    BY <1>2, <2>1, <2>2, <2>4 DEF Database, User
  <2> HIDE DEF real2, uuid2
  <2>7. u \in User /\ \A f \in {"name", "uid", "gid", "home", "made"} : u[f] = db.users[k][f]
    BY <2>4, <2>5 DEF User, Option
  <2> HIDE DEF u
  <2>8. /\ users2 \in Seq(User) /\ Len(users2) = Len(db.users) /\ users2[k] = u
        /\ \A i \in DOMAIN db.users : i # k => users2[i] = db.users[i]
    BY <2>1, <2>2, <2>7, ExceptSeq
  <2> HIDE DEF users2
  <2>9. /\ db'.users = users2 /\ db'.uids = db.uids /\ db'.names = db.names
        /\ db'.groups = db.groups /\ db'.gids = db.gids
        /\ db' \in Database
    BY <2>1, <2>6, <2>8 DEF Database
  <2>10. Edited(k)
    BY <2>2, <2>8, <2>9 DEF Edited
  <2>11. \A f \in {"name", "uid", "gid", "home", "made"} : db'.users[k][f] = db.users[k][f]
    BY <2>7, <2>8, <2>9
  <2> QED
    BY <1>2, <2>2, <2>9, <2>10, <2>11 DEF Return
<1>3. \/ db' = db /\ pc' = "idle" /\ run' = None /\ ret' = "E_OTHER"
      \/ /\ k # 0
         /\ db' = [db EXCEPT !.users[k].real = IfGiven(run.real, @),
                             !.users[k].uuid = rebuild_uuid(db.users[k], run)]
         /\ Return("E_SUCCESS") /\ run' = run
  BY DEF fixuuid
<1> HIDE DEF k
<1> QED
  BY <1>2, <1>3

\* groupmod_main3() refuses, or gives one group a name and a gid: its own, ones
\* that no group has, or a gid given with -o.
LEMMA GroupmodEdits ==
  ASSUME TypeOK, groupmod_main3
  PROVE  \/ db' = db /\ pc' = "close" /\ ret' \notin {"E_SUCCESS", "E_POST"}
         \/ \E k \in DOMAIN db.groups, r \in GroupRec :
              /\ db'.groups = [db.groups EXCEPT ![k] = r]
              /\ r.name = db.groups[k].name \/ \A i \in DOMAIN db.groups : db.groups[i].name # r.name
              /\ \A i \in DOMAIN db.groups : db.groups[i].gid = r.gid
                   => r.gid = db.groups[k].gid \/ r.gid \in db'.gids
              /\ db'.users = db.users /\ db'.uids = db.uids /\ db'.names = db.names
              /\ db.gids \subseteq db'.gids
              /\ db' \in Database
              /\ pc' = "close" /\ ret' = "E_SUCCESS"
<1>1. run \in GroupmodRq
  BY RequestIs DEF groupmod_main3, Tool, TypeOK
<1> DEFINE k == GroupAt(run.name)
           taken == run.gid # db.groups[k].gid /\ gid_used(run)
           renamed == new_name_used(db.groups[k])
<1>2. CASE db' = db /\ \E r \in {"E_NO_EXIST", "E_GID_USED", "E_NAME_USED"} : Return(r)
  BY <1>2 DEF Return
<1>3. CASE /\ k # 0 /\ ~taken /\ ~renamed
           /\ db' = [db EXCEPT !.groups[k] = [name |-> IfGiven(run.newname, @.name),
                                              gid |-> IfGiven(run.gid, @.gid)],
                               !.gids = IF run.allow_dup THEN @ \cup Unchecked(run.gid) ELSE @]
           /\ Return("E_SUCCESS")
  <2>1. db \in Database /\ db.groups \in Seq(GroupRec) /\ db.gids \in SUBSET Gid
    BY DEF TypeOK, Database, GroupRec
  <2>2. k \in DOMAIN db.groups
    BY <1>3, <2>1, GroupAtIs
  <2>3. /\ run.newname \in Option(Group) /\ run.gid \in Option(Gid)
        /\ run.allow_dup \in BOOLEAN
    BY <1>1 DEF GroupmodRq
  <2> DEFINE r == [name |-> IfGiven(run.newname, db.groups[k].name),
                   gid |-> IfGiven(run.gid, db.groups[k].gid)]
             groups2 == [db.groups EXCEPT ![k] = r]
             gids2 == IF run.allow_dup THEN db.gids \cup Unchecked(run.gid) ELSE db.gids
  <2>4. r \in GroupRec
    <3>1. db.groups[k] \in GroupRec
      BY <2>1, <2>2
    <3> QED
      BY <3>1, <2>3 DEF IfGiven, GroupRec, Option
  <2>5. gids2 \in SUBSET Gid /\ db.gids \subseteq gids2
    BY <2>1, <2>3 DEF Unchecked, Option
  <2>6. db' = [db EXCEPT !.groups = groups2, !.gids = gids2]
    BY <1>3, <2>1 DEF Database
  <2>7. r.name = db.groups[k].name \/ \A i \in DOMAIN db.groups : db.groups[i].name # r.name
    <3>1. CASE run.newname = None \/ run.newname = db.groups[k].name
      BY <3>1 DEF IfGiven
    <3>2. CASE ~ (run.newname = None \/ run.newname = db.groups[k].name)
      <4>1. GroupAt(run.newname) = 0 /\ r.name = run.newname
        BY <1>3, <3>2 DEF new_name_used, IfGiven
      <4> QED
        BY <4>1, <2>1, GroupAtIs
    <3> QED
      BY <3>1, <3>2
  <2>8. ASSUME NEW i \in DOMAIN db.groups, db.groups[i].gid = r.gid
        PROVE  r.gid = db.groups[k].gid \/ r.gid \in gids2
    <3>1. CASE run.gid = None \/ run.gid = db.groups[k].gid
      BY <3>1 DEF IfGiven
    <3>2. CASE ~ (run.gid = None \/ run.gid = db.groups[k].gid)
      <4>1. ~gid_used(run) /\ r.gid = run.gid /\ run.gid # None
        BY <1>3, <3>2 DEF IfGiven
      <4>2. \E g \in Groups : g.gid = run.gid
        BY <2>8, <4>1 DEF Groups, ToSet
      <4>3. run.allow_dup
        BY <4>1, <4>2, <2>3 DEF gid_used
      <4> QED
        BY <4>1, <4>3 DEF Unchecked
    <3> QED
      BY <3>1, <3>2
  <2> HIDE DEF r, gids2, k
  <2>9. groups2 \in Seq(GroupRec)
    BY <2>1, <2>2, <2>4, ExceptSeq
  <2> HIDE DEF groups2
  <2>10. /\ db'.groups = groups2 /\ db'.gids = gids2 /\ db'.users = db.users
         /\ db'.uids = db.uids /\ db'.names = db.names
         /\ db' \in Database
    BY <2>1, <2>5, <2>6, <2>9 DEF Database, GroupRec
  <2>11. \A i \in DOMAIN db.groups : db.groups[i].gid = r.gid
           => r.gid = db.groups[k].gid \/ r.gid \in db'.gids
    BY <2>8, <2>10
  <2>12. db'.groups = [db.groups EXCEPT ![k] = r] /\ db.gids \subseteq db'.gids
    BY <2>5, <2>10 DEF groups2
  <2> QED
    BY <1>3, <2>2, <2>4, <2>7, <2>10, <2>11, <2>12 DEF Return
<1>4. \/ db' = db /\ \E r \in {"E_NO_EXIST", "E_GID_USED", "E_NAME_USED"} : Return(r)
      \/ /\ k # 0 /\ ~taken /\ ~renamed
         /\ db' = [db EXCEPT !.groups[k] = [name |-> IfGiven(run.newname, @.name),
                                            gid |-> IfGiven(run.gid, @.gid)],
                             !.gids = IF run.allow_dup THEN @ \cup Unchecked(run.gid) ELSE @]
         /\ Return("E_SUCCESS")
  BY DEF groupmod_main3, Refuse
<1> HIDE DEF k, taken, renamed
<1> QED
  BY <1>2, <1>3, <1>4

\* groupdel_main3() refuses, or takes out one group, which without -F is no
\* account's primary group.
LEMMA GroupdelDrops ==
  ASSUME TypeOK, groupdel_main3
  PROVE  \/ db' = db /\ pc' = "close" /\ ret' \notin {"E_SUCCESS", "E_POST"}
         \/ \E k \in DOMAIN db.groups :
              /\ db'.groups = RemoveAt(db.groups, k)
              /\ run.force \/ \A u \in Users : u.gid # db.groups[k].gid
              /\ db'.users = db.users /\ db'.uids = db.uids /\ db'.names = db.names
              /\ db'.gids = db.gids
              /\ db' \in Database
              /\ pc' = "close" /\ ret' = "E_SUCCESS"
<1> DEFINE k == GroupAt(run.name)
           primary == ~run.force /\ check_pri_group(db.groups[k])
<1>1. CASE db' = db /\ \E r \in {"E_NO_EXIST", "E_PRIMARY"} : Return(r)
  BY <1>1 DEF Return
<1>2. CASE /\ k # 0 /\ ~primary
           /\ db' = [db EXCEPT !.groups = RemoveAt(@, k)]
           /\ Return("E_SUCCESS")
  <2>1. db \in Database /\ db.groups \in Seq(GroupRec)
    BY DEF TypeOK, Database, GroupRec
  <2>2. k \in DOMAIN db.groups
    BY <1>2, <2>1, GroupAtIs
  <2>3. run.force \/ \A u \in Users : u.gid # db.groups[k].gid
    BY <1>2 DEF check_pri_group
  <2> HIDE DEF k
  <2>4. RemoveAt(db.groups, k) \in Seq(GroupRec)
    BY <2>1, <2>2, RemoveAtIs
  <2>5. /\ db'.groups = RemoveAt(db.groups, k) /\ db'.users = db.users
        /\ db'.uids = db.uids /\ db'.names = db.names /\ db'.gids = db.gids
        /\ db' \in Database
    BY <1>2, <2>1, <2>4 DEF Database, GroupRec
  <2> QED
    BY <1>2, <2>2, <2>3, <2>5 DEF Return
<1>3. \/ db' = db /\ \E r \in {"E_NO_EXIST", "E_PRIMARY"} : Return(r)
      \/ /\ k # 0 /\ ~primary
         /\ db' = [db EXCEPT !.groups = RemoveAt(@, k)]
         /\ Return("E_SUCCESS")
  BY DEF groupdel_main3, Refuse
<1> HIDE DEF k, primary
<1> QED
  BY <1>1, <1>2, <1>3

\* vxgroupadd never gets a group into the database.
LEMMA GroupaddRefuses ==
  ASSUME groupadd_main3
  PROVE  db' = db /\ pc' = "close" /\ ret' \notin {"E_SUCCESS", "E_POST"}
BY DEF groupadd_main3, Refuse, Return

\* The rest of the state is the same after the programs' work on the copy.
LEMMA ToolLeaves ==
  ASSUME useradd_run3 \/ userdel_run3 \/ usermod_run3 \/ groupadd_main3 \/ groupmod_main3
         \/ groupdel_main3
  PROVE  /\ pc = "main3"
         /\ file' = file /\ dirs' = dirs /\ run' = run /\ start' = start
         /\ lost' = lost /\ runs' = runs
BY DEF useradd_run3, userdel_run3, usermod_run3, groupadd_main3, groupmod_main3,
       groupdel_main3, Tool

\* mkdir leaves everything but the return code, or the directory is there and
\* the record of the new account, the last one, says so.
LEMMA MkdirMarks ==
  ASSUME TypeOK, StageOK, mkdir
  PROVE  \/ db' = db /\ dirs' = dirs /\ lost' = lost /\ pc' = "close" /\ ret' = "E_POST"
         \/ /\ Edited(Len(db.users))
            /\ \A f \in {"name", "uid", "gid", "home"} :
                 db'.users[Len(db.users)][f] = db.users[Len(db.users)][f]
            /\ db'.uids = db.uids /\ db'.names = db.names
            /\ run.home \in Dir
            /\ dirs' \in [Dir -> Owner] /\ dirs'[run.home] # None
            /\ \A d \in Dir : d # run.home => dirs'[d] = dirs[d]
            /\ lost' = lost \ {run.home}
            /\ pc' = "chown" /\ ret' = ret
<1> DEFINE n == Len(db.users)
<1>1. CASE Return("E_POST") /\ db' = db /\ dirs' = dirs /\ lost' = lost
  BY <1>1 DEF Return
<1>2. CASE /\ pc' = "chown"
           /\ dirs' = [dirs EXCEPT ![run.home] = IF @ = None THEN 0 ELSE @]
           /\ lost' = lost \ {run.home}
           /\ db' = [db EXCEPT !.users[n].made = TRUE]
           /\ ret' = ret
  <2>1. pc = "mkdir" /\ run \in UseraddRq /\ db.users # <<>>
    BY RequestIs DEF mkdir, TypeOK, StageOK
  <2>2. db \in Database /\ db.users \in Seq(User)
    BY DEF TypeOK, Database
  <2>3. n \in DOMAIN db.users /\ n \in 1 .. Len(db.users)
    BY <2>1, <2>2
  <2>4. run.home \in Dir
    BY <2>1 DEF UseraddRq
  <2> HIDE DEF n
  <2> DEFINE u == [db.users[n] EXCEPT !.made = TRUE]
             users2 == [db.users EXCEPT ![n] = u]
  <2>5. db.users[n] \in User
    BY <2>2, <2>3
  <2>6. u \in User /\ \A f \in {"name", "uid", "gid", "home"} : u[f] = db.users[n][f]
    BY <2>5 DEF User
  <2>7. db' = [db EXCEPT !.users = users2]
    BY <1>2, <2>2, <2>3, <2>5 DEF Database, User
  <2> HIDE DEF u
  <2>8. /\ users2 \in Seq(User) /\ Len(users2) = Len(db.users) /\ users2[n] = u
        /\ \A i \in DOMAIN db.users : i # n => users2[i] = db.users[i]
    BY <2>2, <2>3, <2>6, ExceptSeq
  <2> HIDE DEF users2
  <2>9. /\ db'.users = users2 /\ db'.uids = db.uids /\ db'.names = db.names
        /\ db'.groups = db.groups /\ db'.gids = db.gids
        /\ db' \in Database
    BY <2>2, <2>7, <2>8 DEF Database
  <2>10. Edited(n)
    BY <2>3, <2>8, <2>9 DEF Edited
  <2>11. \A f \in {"name", "uid", "gid", "home"} : db'.users[n][f] = db.users[n][f]
    BY <2>6, <2>8, <2>9
  <2>12. dirs \in [Dir -> Owner] /\ None # 0 /\ 0 \in Owner
    BY ToolsAssumption, InitAssumption DEF TypeOK, Owner
  <2>13. /\ dirs' \in [Dir -> Owner] /\ dirs'[run.home] # None
         /\ \A d \in Dir : d # run.home => dirs'[d] = dirs[d]
    BY <1>2, <2>4, <2>12
  <2> QED
    BY <1>2, <2>4, <2>9, <2>10, <2>11, <2>13 DEF n
<1> QED
  BY <1>1, <1>2 DEF mkdir

-----------------------------------------------------------------------------
(* The state keeps its types *)

\* Outside Open, Close and Kill the steps of a run are these.
Working ==
  \/ useradd_run3 \/ userdel_run3 \/ usermod_run3 \/ groupadd_main3 \/ groupmod_main3
  \/ groupdel_main3

\* What vxuserdel -r removes are directories.
LEMMA GoneIs ==
  ASSUME TypeOK, Deleted \in DOMAIN file.users
  PROVE  Gone \subseteq Dir /\ file.users[Deleted] \in User
<1>1. file.users \in Seq(User)
  BY DEF TypeOK, Database
<1>2. file.users[Deleted] \in User
  BY <1>1
<1> QED
  BY <1>2, ToolsAssumption DEF Gone, User

\* Each step keeps the types.
LEMMA TypeStep ==
  TypeOK /\ StageOK /\ [Next]_vars => TypeOK'
<1> SUFFICES ASSUME TypeOK, StageOK, [Next]_vars
             PROVE  TypeOK'
  OBVIOUS
<1>1. ASSUME NEW rq \in Requests, Open(rq)
      PROVE  TypeOK'
  BY <1>1 DEF Open, TypeOK
<1>2. CASE Close
  BY <1>2 DEF Close, TypeOK
<1>3. CASE Kill
  <2>1. Removing => Gone \subseteq Dir
    BY GoneIs DEF StageOK
  <2> QED
    BY <1>3, <2>1 DEF Kill, TypeOK
<1>4. CASE Working
  <2>1. db' \in Database /\ pc' \in {"mkdir", "rmdir", "close"}
    BY <1>4, UseraddAdds, UserdelDrops, UsermodEdits, GroupaddRefuses, GroupmodEdits,
       GroupdelDrops DEF Working, Edited, TypeOK
  <2> QED
    BY <1>4, <2>1, ToolLeaves DEF Working, TypeOK
<1>5. CASE fixuuid
  <2>1. db' \in Database /\ pc' \in {"idle", "close"} /\ (pc' # "idle" => run' = run)
    BY <1>5, FixuuidEdits DEF Edited, TypeOK
  <2> QED
    BY <1>5, <2>1 DEF fixuuid, TypeOK
<1>6. CASE mkdir
  <2>1. db' \in Database /\ dirs' \in [Dir -> Owner] /\ lost' \subseteq Dir
        /\ pc' \in {"chown", "close"}
    BY <1>6, MkdirMarks DEF Edited, TypeOK
  <2> QED
    BY <1>6, <2>1 DEF mkdir, TypeOK
<1>7. CASE chown
  <2>1. run \in UseraddRq
    BY <1>7, RequestIs DEF chown, StageOK, TypeOK
  <2>2. request_uid(run) \in Owner \cup {AUTOUID}
    BY <2>1 DEF request_uid, Owner, UseraddRq, Option
  <2> QED
    BY <1>7, <2>2 DEF chown, TypeOK
<1>8. CASE rrmdir
  <2>1. Gone \subseteq Dir
    BY <1>8, GoneIs DEF StageOK, rrmdir
  <2> QED
    BY <1>8, <2>1 DEF rrmdir, TypeOK, Owner
<1>9. CASE UNCHANGED vars
  BY <1>9 DEF vars, TypeOK
<1> QED
  BY <1>1, <1>2, <1>3, <1>4, <1>5, <1>6, <1>7, <1>8, <1>9 DEF Next, Working

\* Each step goes to the stage that StageOK says of.
LEMMA StageStep ==
  TypeOK /\ StageOK /\ [Next]_vars => StageOK'
<1> SUFFICES ASSUME TypeOK, StageOK, [Next]_vars
             PROVE  StageOK'
  OBVIOUS
<1>1. ASSUME NEW rq \in Requests, Open(rq)
      PROVE  StageOK'
  BY <1>1 DEF Open, StageOK, Removing
<1>2. CASE Close
  BY <1>2 DEF Close, StageOK, Removing
<1>3. CASE Kill
  BY <1>3 DEF Kill, StageOK, Removing
<1>4. CASE useradd_run3
  <2>1. run.tool = "useradd" /\ run' = run
    BY <1>4 DEF useradd_run3, Tool
  <2>2. CASE db' = db /\ pc' = "close" /\ ret' \notin {"E_SUCCESS", "E_POST"}
    BY <2>1, <2>2 DEF StageOK, Removing
  <2>3. ASSUME NEW uid \in Uid,
               NewUser(run, uid) \in User,
               db'.users = Append(db.users, NewUser(run, uid)),
               pc' \in {"mkdir", "close"}
        PROVE  StageOK'
    <3>1. db.users \in Seq(User)
      BY DEF TypeOK, Database
    <3>2. /\ db'.users # <<>> /\ Len(db'.users) = Len(db.users) + 1
          /\ db'.users[Len(db.users) + 1] = NewUser(run, uid)
      BY <3>1, <2>3, AppendProperties
    <3>3. NewUser(run, uid).home = run.home
      BY DEF NewUser
    <3> QED
      BY <2>1, <2>3, <3>2, <3>3 DEF StageOK, Removing
  <2> QED
    BY <1>4, <2>2, <2>3, UseraddAdds
<1>5. CASE userdel_run3
  <2>1. run.tool = "userdel" /\ run' = run /\ pc = "main3" /\ file' = file /\ db = file
    BY <1>5 DEF userdel_run3, Tool, StageOK
  <2>2. CASE db' = db /\ pc' = "close" /\ ret' \notin {"E_SUCCESS", "E_POST"}
    BY <2>1, <2>2 DEF StageOK, Removing
  <2>3. ASSUME NEW k \in DOMAIN db.users, k = UserAt(run.name),
               db'.users = RemoveAt(db.users, k),
               pc' = IF run.rm_home THEN "rmdir" ELSE "close"
        PROVE  StageOK'
    <3>1. Deleted = k
      BY <2>1, <2>3 DEF Deleted, UserAt
    <3>2. Deleted' = Deleted
      BY <2>1 DEF Deleted, SelectInSeq
    <3> QED
      BY <2>1, <2>3, <3>1, <3>2 DEF StageOK, Removing
  <2> QED
    BY <1>5, <2>2, <2>3, UserdelDrops
<1>6. CASE usermod_run3 \/ groupadd_main3 \/ groupmod_main3 \/ groupdel_main3
  <2>1. run.tool # "userdel" /\ run' = run
    BY <1>6 DEF usermod_run3, groupadd_main3, groupmod_main3, groupdel_main3, Tool
  <2>2. pc' = "close"
    BY <1>6, UsermodEdits, GroupaddRefuses, GroupmodEdits, GroupdelDrops
  <2> QED
    BY <2>1, <2>2 DEF StageOK, Removing
<1>7. CASE fixuuid
  BY <1>7 DEF fixuuid, Return, StageOK, Removing
<1>8. CASE mkdir
  <2>1. run' = run /\ run.tool = "useradd"
    BY <1>8 DEF mkdir, StageOK
  <2>2. CASE pc' = "close"
    BY <2>1, <2>2 DEF StageOK, Removing
  <2>3. CASE /\ Edited(Len(db.users)) /\ pc' = "chown"
             /\ db'.users[Len(db.users)].home = db.users[Len(db.users)].home
    <3>1. /\ db.users # <<>> /\ db.users[Len(db.users)].home = run.home
      BY <1>8 DEF mkdir, StageOK
    <3>2. db'.users # <<>> /\ Len(db'.users) = Len(db.users)
      BY <2>3, <3>1 DEF Edited
    <3> QED
      BY <2>1, <2>3, <3>1, <3>2 DEF StageOK, Removing
  <2> QED
    BY <1>8, <2>2, <2>3, MkdirMarks
<1>9. CASE chown
  BY <1>9 DEF chown, StageOK, Removing
<1>10. CASE rrmdir
  <2>1. Deleted' = Deleted
    BY <1>10 DEF rrmdir, Deleted, SelectInSeq
  <2> QED
    BY <1>10, <2>1 DEF rrmdir, StageOK, Removing
<1>11. CASE UNCHANGED vars
  <2>1. Deleted' = Deleted
    BY <1>11 DEF vars, Deleted, SelectInSeq
  <2> QED
    BY <1>11, <2>1 DEF vars, StageOK, Removing
<1> QED
  BY <1>1, <1>2, <1>3, <1>4, <1>5, <1>6, <1>7, <1>8, <1>9, <1>10, <1>11 DEF Next

\* Both hold in the beginning.
LEMMA InitOK ==
  Init => TypeOK /\ StageOK
BY InitAssumption DEF Init, TypeOK, StageOK, Removing, Option, Owner

\* The accounts, the groups, the directories and the runs keep their types for
\* all requests and faults, and a run is where StageOK says.
THEOREM TypeCorrect == Spec => [](TypeOK /\ StageOK)
<1>1. TypeOK /\ StageOK /\ [Next]_vars => (TypeOK /\ StageOK)'
  BY TypeStep, StageStep
<1> QED
  BY <1>1, InitOK, PTL DEF Spec

-----------------------------------------------------------------------------
(* A run that fails stores nothing *)

\* The outcome of a run, which AllOrNothing is not inductive without: until it
\* is closed nothing is stored, a code other than success goes with a copy that
\* is as it was read, and what is left to do follows a success.
OutcomeOK ==
  /\ pc # "idle" => start = file
  /\ pc = "close" /\ ret \notin {"E_SUCCESS", "E_POST"} => db = file
  /\ pc \in {"mkdir", "chown", "rmdir"} => ret = "E_SUCCESS"
  /\ AllOrNothing

\* A run that has not stored anything stays so once it has failed.
LEMMA OutcomeStep ==
  TypeOK /\ StageOK /\ OutcomeOK /\ [Next]_vars => OutcomeOK'
<1> SUFFICES ASSUME TypeOK, StageOK, OutcomeOK, [Next]_vars
             PROVE  OutcomeOK'
  OBVIOUS
<1> USE DEF AllOrNothing
<1>1. ASSUME NEW rq \in Requests, Open(rq)
      PROVE  OutcomeOK'
  BY <1>1 DEF Open, OutcomeOK
<1>2. CASE Close
  BY <1>2 DEF Close, OutcomeOK
<1>3. CASE Kill
  BY <1>3 DEF Kill, OutcomeOK
<1>4. CASE Working
  <2>1. /\ (db' = db /\ pc' = "close") \/ ret' = "E_SUCCESS"
        /\ pc' # "idle"
    BY <1>4, UseraddAdds, UserdelDrops, UsermodEdits, GroupaddRefuses, GroupmodEdits,
       GroupdelDrops DEF Working
  <2>2. pc = "main3" /\ db = file /\ file' = file /\ start' = start
    BY <1>4, ToolLeaves DEF Working, StageOK
  <2> QED
    BY <2>1, <2>2 DEF OutcomeOK
<1>5. CASE fixuuid
  BY <1>5 DEF fixuuid, Return, StageOK, OutcomeOK
<1>6. CASE mkdir
  BY <1>6 DEF mkdir, Return, OutcomeOK
<1>7. CASE chown \/ rrmdir
  BY <1>7 DEF chown, rrmdir, OutcomeOK
<1>8. CASE UNCHANGED vars
  BY <1>8 DEF vars, OutcomeOK
<1> QED
  BY <1>1, <1>2, <1>3, <1>4, <1>5, <1>6, <1>7, <1>8 DEF Next, Working

\* A run that returns an error, that cannot open the database or that is killed
\* leaves what is stored as it was, for all requests and faults.
THEOREM FailureStoresNothing == Spec => []AllOrNothing
<1>1. Init => OutcomeOK
  BY DEF Init, OutcomeOK, AllOrNothing
<1>2. TypeOK /\ StageOK /\ OutcomeOK /\ [Next]_vars => OutcomeOK'
  BY OutcomeStep
<1>3. OutcomeOK => AllOrNothing
  BY DEF OutcomeOK
<1> QED
  BY <1>1, <1>2, <1>3, TypeCorrect, PTL DEF Spec

-----------------------------------------------------------------------------
(* Names and ids stay unique *)

UniqueUsers(users, uids, names) ==
  \A i, j \in DOMAIN users : i # j =>
    /\ users[i].uid = users[j].uid => users[i].uid \in uids
    /\ users[i].name = users[j].name => users[i].name \in names

UniqueGroups(groups, gids) ==
  \A i, j \in DOMAIN groups : i # j =>
    /\ groups[i].gid = groups[j].gid => groups[i].gid \in gids
    /\ groups[i].name # groups[j].name

Unique(d) == UniqueUsers(d.users, d.uids, d.names) /\ UniqueGroups(d.groups, d.gids)

\* NamesAndIdsUnique of the copy too, which is stored whatever happens.
UniqueOK == Unique(file) /\ Unique(db)

\* A list that gets a new account at its end.
LEMMA AddedUnique ==
  ASSUME NEW s \in Seq(User), NEW u \in User, NEW uids, NEW uids2, NEW names,
         UniqueUsers(s, uids, names), uids \subseteq uids2,
         \A i \in DOMAIN s : s[i].name # u.name,
         \A i \in DOMAIN s : s[i].uid = u.uid => u.uid \in uids2
  PROVE  UniqueUsers(Append(s, u), uids2, names)
<1>1. /\ DOMAIN s = 1 .. Len(s) /\ Len(s) \in Nat
      /\ DOMAIN Append(s, u) = 1 .. Len(s) + 1
      /\ \A i \in DOMAIN s : Append(s, u)[i] = s[i]
      /\ Append(s, u)[Len(s) + 1] = u
  BY AppendProperties
<1> DEFINE t == Append(s, u)
<1> HIDE DEF t
<1>2. \A i \in DOMAIN t : \/ i \in DOMAIN s /\ t[i] = s[i]
                          \/ i = Len(s) + 1 /\ t[i] = u
  BY <1>1 DEF t
<1> SUFFICES ASSUME NEW i \in DOMAIN t, NEW j \in DOMAIN t, i # j
             PROVE  /\ t[i].uid = t[j].uid => t[i].uid \in uids2
                    /\ t[i].name # t[j].name \/ t[i].name \in names
  BY DEF UniqueUsers, t
<1> QED
  BY <1>2 DEF UniqueUsers

\* Each record that RemoveAt() leaves is one of the list's, each at most once.
LEMMA RemoveAtMap ==
  ASSUME NEW S, NEW s \in Seq(S), NEW k \in DOMAIN s
  PROVE  \E f \in [DOMAIN RemoveAt(s, k) -> DOMAIN s] :
           /\ \A i, j \in DOMAIN RemoveAt(s, k) : i # j => f[i] # f[j]
           /\ \A i \in DOMAIN RemoveAt(s, k) : RemoveAt(s, k)[i] = s[f[i]] /\ f[i] # k
<1> DEFINE f == [i \in 1 .. Len(s) - 1 |-> IF i < k THEN i ELSE i + 1]
<1>1. DOMAIN s = 1 .. Len(s) /\ Len(s) \in Nat
  OBVIOUS
<1>2. DOMAIN RemoveAt(s, k) = 1 .. Len(s) - 1
  <2>1. RemoveAt(s, k) \in Seq(S) /\ Len(RemoveAt(s, k)) = Len(s) - 1
    BY RemoveAtIs
  <2> QED
    BY <2>1
<1>5. \A i \in 1 .. Len(s) - 1 : RemoveAt(s, k)[i] = s[f[i]]
  BY RemoveAtIs
<1>3. f \in [1 .. Len(s) - 1 -> DOMAIN s]
  BY <1>1
<1>4. \A i, j \in 1 .. Len(s) - 1 : (i # j => f[i] # f[j]) /\ f[i] # k
  BY <1>1
<1> HIDE DEF f
<1> QED
  BY <1>2, <1>3, <1>4, <1>5

\* All records but the one at k are left.
LEMMA RemoveAtKeeps ==
  ASSUME NEW S, NEW s \in Seq(S), NEW k \in DOMAIN s, NEW i \in DOMAIN s, i # k
  PROVE  \E j \in DOMAIN RemoveAt(s, k) : RemoveAt(s, k)[j] = s[i]
<1> DEFINE j == IF i < k THEN i ELSE i - 1
<1>1. DOMAIN s = 1 .. Len(s) /\ Len(s) \in Nat
  OBVIOUS
<1>2. RemoveAt(s, k) \in Seq(S) /\ Len(RemoveAt(s, k)) = Len(s) - 1
  BY RemoveAtIs
<1>3. j \in 1 .. Len(s) - 1 /\ i = IF j < k THEN j ELSE j + 1
  BY <1>1
<1>4. RemoveAt(s, k)[j] = s[IF j < k THEN j ELSE j + 1]
  BY <1>3, RemoveAtIs
<1> QED
  BY <1>2, <1>3, <1>4

\* What RemoveAt() leaves is unique if the list is.
LEMMA FewerUsersUnique ==
  ASSUME NEW s \in Seq(User), NEW k \in DOMAIN s, NEW uids, NEW names, UniqueUsers(s, uids, names)
  PROVE  UniqueUsers(RemoveAt(s, k), uids, names)
<1> DEFINE t == RemoveAt(s, k)
<1>1. PICK f \in [DOMAIN t -> DOMAIN s] :
        /\ \A i, j \in DOMAIN t : i # j => f[i] # f[j]
        /\ \A i \in DOMAIN t : t[i] = s[f[i]] /\ f[i] # k
  BY RemoveAtMap
<1> HIDE DEF t
<1>2. UniqueUsers(t, uids, names)
  BY <1>1 DEF UniqueUsers
<1> QED
  BY <1>2 DEF t

\* The same for groups.
LEMMA FewerGroupsUnique ==
  ASSUME NEW s \in Seq(GroupRec), NEW k \in DOMAIN s, NEW gids, UniqueGroups(s, gids)
  PROVE  UniqueGroups(RemoveAt(s, k), gids)
<1> DEFINE t == RemoveAt(s, k)
<1>1. PICK f \in [DOMAIN t -> DOMAIN s] :
        /\ \A i, j \in DOMAIN t : i # j => f[i] # f[j]
        /\ \A i \in DOMAIN t : t[i] = s[f[i]] /\ f[i] # k
  BY RemoveAtMap
<1> HIDE DEF t
<1>2. UniqueGroups(t, gids)
  BY <1>1 DEF UniqueGroups
<1> QED
  BY <1>2 DEF t

\* usermod_run3() changes one account; fixuuid and mkdir change neither its
\* name nor its uid.
LEMMA EditedUnique ==
  ASSUME NEW s \in Seq(User), NEW t \in Seq(User), Len(t) = Len(s), NEW k \in DOMAIN s,
         NEW uids, NEW uids2, NEW names, NEW names2,
         UniqueUsers(s, uids, names), uids \subseteq uids2, names \subseteq names2,
         \A i \in DOMAIN s : i # k => t[i] = s[i],
         t[k].uid = s[k].uid \/ t[k].uid \in uids2,
         t[k].name = s[k].name \/ t[k].name \in names2
  PROVE  UniqueUsers(t, uids2, names2)
<1>1. DOMAIN t = DOMAIN s
  OBVIOUS
<1> QED
  BY <1>1 DEF UniqueUsers

\* groupmod_main3() gives one group another name or gid.
LEMMA RenamedUnique ==
  ASSUME NEW s \in Seq(GroupRec), NEW k \in DOMAIN s, NEW r \in GroupRec, NEW gids, NEW gids2,
         UniqueGroups(s, gids), gids \subseteq gids2,
         r.name = s[k].name \/ \A i \in DOMAIN s : s[i].name # r.name,
         \A i \in DOMAIN s : s[i].gid = r.gid => r.gid = s[k].gid \/ r.gid \in gids2
  PROVE  UniqueGroups([s EXCEPT ![k] = r], gids2)
<1> DEFINE t == [s EXCEPT ![k] = r]
<1>1. DOMAIN t = DOMAIN s /\ t[k] = r /\ \A i \in DOMAIN s : i # k => t[i] = s[i]
  OBVIOUS
<1> HIDE DEF t
<1> SUFFICES ASSUME NEW i \in DOMAIN s, NEW j \in DOMAIN s, i # j
             PROVE  /\ t[i].gid = t[j].gid => t[i].gid \in gids2
                    /\ t[i].name # t[j].name
  BY <1>1 DEF UniqueGroups, t
<1>2. CASE i # k /\ j # k
  BY <1>1, <1>2 DEF UniqueGroups
<1>3. CASE i = k
  BY <1>1, <1>3 DEF UniqueGroups
<1>4. CASE j = k
  BY <1>1, <1>4 DEF UniqueGroups
<1> QED
  BY <1>2, <1>3, <1>4

\* Each program keeps the names and ids of the copy unique, and storing the copy
\* those of the file.
LEMMA UniqueStep ==
  TypeOK /\ StageOK /\ UniqueOK /\ [Next]_vars => UniqueOK'
<1> SUFFICES ASSUME TypeOK, StageOK, UniqueOK, [Next]_vars
             PROVE  UniqueOK'
  OBVIOUS
<1>a. /\ db \in Database /\ db.users \in Seq(User) /\ db.groups \in Seq(GroupRec)
      /\ UniqueUsers(db.users, db.uids, db.names) /\ UniqueGroups(db.groups, db.gids)
  BY DEF TypeOK, Database, UniqueOK, Unique, GroupRec
<1>b. ASSUME db' = db, file' = file \/ file' = db
      PROVE  UniqueOK'
  BY <1>b DEF UniqueOK, Unique
<1>c. ASSUME file' = file, UniqueUsers(db'.users, db'.uids, db'.names),
             UniqueGroups(db'.groups, db'.gids)
      PROVE  UniqueOK'
  BY <1>c DEF UniqueOK, Unique
<1>1. ASSUME NEW rq \in Requests, Open(rq)
      PROVE  UniqueOK'
  BY <1>1 DEF Open, UniqueOK, Unique
<1>2. CASE Close \/ Kill \/ chown \/ rrmdir \/ UNCHANGED vars
  BY <1>2, <1>b DEF Close, Kill, chown, rrmdir, vars
<1>3. CASE useradd_run3
  <2>1. file' = file
    BY <1>3, ToolLeaves
  <2>2. ASSUME NEW uid \in Uid, NewUser(run, uid) \in User,
               db'.users = Append(db.users, NewUser(run, uid)),
               \A i \in DOMAIN db.users : db.users[i].name # NewUser(run, uid).name,
               \A i \in DOMAIN db.users : db.users[i].uid = uid => uid \in db'.uids,
               db.uids \subseteq db'.uids,
               db'.groups = db.groups, db'.names = db.names, db'.gids = db.gids
        PROVE  UniqueOK'
    <3>1. NewUser(run, uid).uid = uid
      BY DEF NewUser
    <3>2. UniqueUsers(Append(db.users, NewUser(run, uid)), db'.uids, db.names)
      BY <1>a, <2>2, <3>1, AddedUnique
    <3> QED
      BY <1>a, <1>c, <2>1, <2>2, <3>2
  <2> QED
    BY <1>3, <2>1, <2>2, <1>b, UseraddAdds
<1>4. CASE userdel_run3
  <2>1. file' = file
    BY <1>4, ToolLeaves
  <2>2. ASSUME NEW k \in DOMAIN db.users, db'.users = RemoveAt(db.users, k),
               db'.groups = db.groups, db'.uids = db.uids, db'.names = db.names,
               db'.gids = db.gids
        PROVE  UniqueOK'
    <3>1. UniqueUsers(db'.users, db.uids, db.names)
      BY <1>a, <2>2, FewerUsersUnique
    <3> QED
      BY <1>a, <1>c, <2>1, <2>2, <3>1
  <2> QED
    BY <1>4, <2>1, <2>2, <1>b, UserdelDrops
<1>d. ASSUME NEW k \in DOMAIN db.users, Edited(k), file' = file,
             db.uids \subseteq db'.uids, db.names \subseteq db'.names,
             db'.users[k].uid = db.users[k].uid \/ db'.users[k].uid \in db'.uids,
             db'.users[k].name = db.users[k].name \/ db'.users[k].name \in db'.names
      PROVE  UniqueOK'
  <2>1. UniqueUsers(db'.users, db'.uids, db'.names)
    BY <1>a, <1>d, EditedUnique DEF Edited
  <2> QED
    BY <1>a, <1>c, <1>d, <2>1 DEF Edited
<1>5. CASE usermod_run3
  <2>1. file' = file
    BY <1>5, ToolLeaves
  <2>2. ASSUME NEW k \in DOMAIN db.users, Edited(k),
               db'.users[k] = Changed(db.users[k], run),
               db'.uids = db.uids \cup Unchecked(run.uid),
               db'.names = db.names \cup Unchecked(run.newname)
        PROVE  UniqueOK'
    <3>1. db.users[k] \in User
      BY <1>a
    <3>2. /\ db'.users[k].uid = db.users[k].uid \/ db'.users[k].uid \in db'.uids
          /\ db'.users[k].name = db.users[k].name \/ db'.users[k].name \in db'.names
      BY <2>2, <3>1 DEF Changed, IfGiven, Unchecked, User
    <3> QED
      BY <1>d, <2>1, <2>2, <3>2
  <2> QED
    BY <1>5, <2>1, <2>2, <1>b, UsermodEdits
<1>6. CASE fixuuid
  <2>1. file' = file
    BY <1>6 DEF fixuuid
  <2>2. ASSUME NEW k \in DOMAIN db.users, Edited(k),
               \A f \in {"name", "uid", "gid", "home", "made"} : db'.users[k][f] = db.users[k][f],
               db'.uids = db.uids, db'.names = db.names
        PROVE  UniqueOK'
    BY <1>d, <2>1, <2>2
  <2> QED
    BY <1>6, <2>1, <2>2, <1>b, FixuuidEdits
<1>7. CASE mkdir
  <2>1. file' = file
    BY <1>7 DEF mkdir
  <2>2. CASE /\ Edited(Len(db.users))
             /\ \A f \in {"name", "uid", "gid", "home"} :
                  db'.users[Len(db.users)][f] = db.users[Len(db.users)][f]
             /\ db'.uids = db.uids /\ db'.names = db.names
    <3>1. Len(db.users) \in DOMAIN db.users
      BY <2>2 DEF Edited
    <3> QED
      BY <1>d, <2>1, <2>2, <3>1
  <2> QED
    BY <1>7, <2>1, <2>2, <1>b, MkdirMarks
<1>8. CASE groupadd_main3
  BY <1>8, <1>b, GroupaddRefuses, ToolLeaves
<1>9. CASE groupmod_main3
  <2>1. file' = file
    BY <1>9, ToolLeaves
  <2>2. ASSUME NEW k \in DOMAIN db.groups, NEW r \in GroupRec,
               db'.groups = [db.groups EXCEPT ![k] = r],
               r.name = db.groups[k].name \/ \A i \in DOMAIN db.groups : db.groups[i].name # r.name,
               \A i \in DOMAIN db.groups : db.groups[i].gid = r.gid
                 => r.gid = db.groups[k].gid \/ r.gid \in db'.gids,
               db'.users = db.users, db'.uids = db.uids, db'.names = db.names,
               db.gids \subseteq db'.gids
        PROVE  UniqueOK'
    <3>1. UniqueGroups([db.groups EXCEPT ![k] = r], db'.gids)
      BY <1>a, <2>2, RenamedUnique
    <3> QED
      BY <1>a, <1>c, <2>1, <2>2, <3>1
  <2> QED
    BY <1>9, <2>1, <2>2, <1>b, GroupmodEdits
<1>10. CASE groupdel_main3
  <2>1. file' = file
    BY <1>10, ToolLeaves
  <2>2. ASSUME NEW k \in DOMAIN db.groups, db'.groups = RemoveAt(db.groups, k),
               db'.users = db.users, db'.uids = db.uids, db'.names = db.names,
               db'.gids = db.gids
        PROVE  UniqueOK'
    <3>1. UniqueGroups(db'.groups, db.gids)
      BY <1>a, <2>2, FewerGroupsUnique
    <3> QED
      BY <1>a, <1>c, <2>1, <2>2, <3>1
  <2> QED
    BY <1>10, <2>1, <2>2, <1>b, GroupdelDrops
<1> QED
  BY <1>1, <1>2, <1>3, <1>4, <1>5, <1>6, <1>7, <1>8, <1>9, <1>10 DEF Next

\* The accounts and groups to start with are unique where they have to be.
InitUnique == Unique(InitDb)

\* Names and ids stay unique, but for those given with -o or by vxusermod, for
\* all requests and all mixtures of given, automatic and system ids.
THEOREM UniqueStay == InitUnique => (Spec => []NamesAndIdsUnique)
<1> SUFFICES ASSUME InitUnique
             PROVE  Spec => []NamesAndIdsUnique
  OBVIOUS
<1>1. Init => UniqueOK
  BY DEF Init, UniqueOK, InitUnique
<1>2. TypeOK /\ StageOK /\ UniqueOK /\ [Next]_vars => UniqueOK'
  BY UniqueStep
<1>3. UniqueOK => NamesAndIdsUnique
  BY DEF UniqueOK, Unique, UniqueUsers, UniqueGroups, NamesAndIdsUnique
<1> QED
  BY <1>1, <1>2, <1>3, TypeCorrect, PTL DEF Spec

-----------------------------------------------------------------------------
(* Home directories are kept *)

\* With directories ds and losses ls, account u has the home directory that was
\* made for it.
Housed(u, ds, ls) == u.made => ds[u.home] # None \/ u.home \in ls

\* HomesKept while a program runs: of the copy and of what is stored, where the
\* one account being deleted may be without.
HousedOK ==
  /\ pc # "idle" => \A i \in DOMAIN db.users : Housed(db.users[i], dirs, lost)
  /\ \A i \in DOMAIN file.users :
       \/ Housed(file.users[i], dirs, lost)
       \/ Removing /\ i = Deleted /\ file.users[i].home \in Gone

\* Directories that are there or accounted for remain so.
LEMMA HousedStays ==
  ASSUME HousedOK, ~Removing, pc # "idle", file' = file,
         \A i \in DOMAIN file.users :
           Housed(file.users[i], dirs, lost) => Housed(file.users[i], dirs', lost'),
         \A i \in DOMAIN db'.users : Housed(db'.users[i], dirs', lost')
  PROVE  HousedOK'
BY DEF HousedOK

\* A program that changes the copy only gives no account a directory.
LEMMA HousedWork ==
  ASSUME HousedOK, pc = "main3" \/ fixuuid, file' = file, dirs' = dirs, lost' = lost,
         \A i \in DOMAIN db'.users :
           \/ db'.users[i].made = FALSE
           \/ \E j \in DOMAIN db.users :
                /\ db'.users[i].made => db.users[j].made
                /\ db'.users[i].made => db'.users[i].home = db.users[j].home
  PROVE  HousedOK'
<1>1. ~Removing /\ pc # "idle"
  BY DEF Removing, fixuuid
<1>2. ASSUME NEW i \in DOMAIN db'.users
      PROVE  Housed(db'.users[i], dirs', lost')
  BY <1>1, <1>2 DEF HousedOK, Housed
<1> QED
  BY <1>1, <1>2, HousedStays

\* Each step keeps the directories that are made for accounts, or accounts for
\* those it removes.
LEMMA HousedStep ==
  TypeOK /\ StageOK /\ OutcomeOK /\ HousedOK /\ [Next]_vars => HousedOK'
<1> SUFFICES ASSUME TypeOK, StageOK, OutcomeOK, HousedOK, [Next]_vars
             PROVE  HousedOK'
  OBVIOUS
<1>a. db \in Database /\ db.users \in Seq(User) /\ file.users \in Seq(User)
  BY DEF TypeOK, Database
<1>b. ASSUME pc = "main3", file' = file, dirs' = dirs, lost' = lost, db'.users = db.users
      PROVE  HousedOK'
  BY <1>b, HousedWork
<1>1. ASSUME NEW rq \in Requests, Open(rq)
      PROVE  HousedOK'
  <2>1. pc = "idle" /\ file' = file /\ dirs' = dirs /\ lost' = lost
    BY <1>1 DEF Open
  <2>2. \A i \in DOMAIN file.users : Housed(file.users[i], dirs', lost')
    BY <2>1 DEF HousedOK, Removing
  <2>3. pc' # "idle" => db' = file
    BY <1>1 DEF Open
  <2> QED
    BY <2>1, <2>2, <2>3 DEF HousedOK
<1>2. CASE Close
  <2>1. file' = db /\ db' = db /\ dirs' = dirs /\ lost' = lost /\ pc = "close" /\ pc' = "idle"
    BY <1>2 DEF Close
  <2> QED
    BY <2>1 DEF HousedOK
<1>3. CASE Kill
  <2>1. /\ file' = file /\ dirs' = dirs /\ pc' = "idle"
        /\ lost' = IF Removing THEN lost \cup Gone ELSE lost
    BY <1>3 DEF Kill
  <2>2. \A i \in DOMAIN file.users : Housed(file.users[i], dirs', lost')
    BY <2>1 DEF HousedOK, Housed
  <2> QED
    BY <2>1, <2>2 DEF HousedOK
<1>4. CASE useradd_run3
  <2>1. pc = "main3" /\ file' = file /\ dirs' = dirs /\ lost' = lost
    BY <1>4, ToolLeaves
  <2>2. ASSUME NEW uid \in Uid, NewUser(run, uid) \in User,
               db'.users = Append(db.users, NewUser(run, uid))
        PROVE  HousedOK'
    <3>1. NewUser(run, uid).made = FALSE
      BY DEF NewUser
    <3>2. /\ DOMAIN db'.users = 1 .. Len(db.users) + 1 /\ DOMAIN db.users = 1 .. Len(db.users)
          /\ \A i \in 1 .. Len(db.users) : db'.users[i] = db.users[i]
          /\ db'.users[Len(db.users) + 1] = NewUser(run, uid)
      BY <1>a, <2>2, AppendProperties
    <3>3. \A i \in DOMAIN db'.users : \/ i \in DOMAIN db.users /\ db'.users[i] = db.users[i]
                                      \/ db'.users[i].made = FALSE
      <4>1. Len(db.users) \in Nat
        BY <1>a
      <4> QED
        BY <3>1, <3>2, <4>1
    <3> QED
      BY <2>1, <3>3, HousedWork
  <2> QED
    BY <1>4, <2>1, <2>2, <1>b, UseraddAdds
<1>5. CASE userdel_run3
  <2>1. pc = "main3" /\ file' = file /\ dirs' = dirs /\ lost' = lost
    BY <1>5, ToolLeaves
  <2>2. ASSUME NEW k \in DOMAIN db.users, db'.users = RemoveAt(db.users, k)
        PROVE  HousedOK'
    <3>1. \A i \in DOMAIN db'.users : \E j \in DOMAIN db.users : db'.users[i] = db.users[j]
      BY <1>a, <2>2, RemoveAtMap
    <3> QED
      BY <2>1, <3>1, HousedWork
  <2> QED
    BY <1>5, <2>1, <2>2, <1>b, UserdelDrops
<1>6. CASE usermod_run3
  <2>1. pc = "main3" /\ file' = file /\ dirs' = dirs /\ lost' = lost
    BY <1>6, ToolLeaves
  <2>2. ASSUME NEW k \in DOMAIN db.users, Edited(k),
               db'.users[k] = Changed(db.users[k], run)
        PROVE  HousedOK'
    <3>1. db.users[k] \in User
      BY <1>a
    <3>2. /\ db'.users[k].made => db.users[k].made
          /\ db'.users[k].made => db'.users[k].home = db.users[k].home
      BY <2>2, <3>1 DEF Changed, IfGiven, User
    <3>3. DOMAIN db'.users = DOMAIN db.users
          /\ \A i \in DOMAIN db.users : i # k => db'.users[i] = db.users[i]
      BY <1>a, <2>2 DEF Edited
    <3> QED
      BY <2>1, <3>2, <3>3, HousedWork
  <2> QED
    BY <1>6, <2>1, <2>2, <1>b, UsermodEdits
<1>7. CASE fixuuid
  <2>1. pc = "main3" /\ file' = file /\ dirs' = dirs /\ lost' = lost
    BY <1>7 DEF fixuuid
  <2>2. ASSUME NEW k \in DOMAIN db.users, Edited(k),
               \A f \in {"name", "uid", "gid", "home", "made"} : db'.users[k][f] = db.users[k][f]
        PROVE  HousedOK'
    <3>1. DOMAIN db'.users = DOMAIN db.users
          /\ \A i \in DOMAIN db.users : i # k => db'.users[i] = db.users[i]
      BY <1>a, <2>2 DEF Edited
    <3>2. db'.users[k].made = db.users[k].made /\ db'.users[k].home = db.users[k].home
      BY <2>2
    <3> QED
      BY <2>1, <3>1, <3>2, HousedWork
  <2> QED
    BY <1>7, <2>1, <2>2, <1>b, FixuuidEdits
<1>8. CASE groupadd_main3 \/ groupmod_main3 \/ groupdel_main3
  <2>1. db'.users = db.users
    BY <1>8, GroupaddRefuses, GroupmodEdits, GroupdelDrops
  <2> QED
    BY <1>8, <2>1, <1>b, ToolLeaves
<1>9. CASE mkdir
  <2>1. file' = file /\ pc = "mkdir" /\ ~Removing
    BY <1>9 DEF mkdir, Removing
  <2>2. CASE db' = db /\ dirs' = dirs /\ lost' = lost
    BY <2>1, <2>2 DEF HousedOK
  <2>3. CASE /\ Edited(Len(db.users))
             /\ db'.users[Len(db.users)].home = db.users[Len(db.users)].home
             /\ run.home \in Dir /\ dirs'[run.home] # None
             /\ \A d \in Dir : d # run.home => dirs'[d] = dirs[d]
             /\ lost' = lost \ {run.home}
    <3>1. \A u \in User : Housed(u, dirs, lost) => Housed(u, dirs', lost')
      BY <2>3 DEF Housed, User
    <3>2. Housed(db'.users[Len(db.users)], dirs', lost')
      BY <2>1, <2>3 DEF StageOK, Housed
    <3>3. DOMAIN db'.users = DOMAIN db.users
          /\ \A i \in DOMAIN db.users : i # Len(db.users) => db'.users[i] = db.users[i]
      BY <1>a, <2>3 DEF Edited
    <3>4. \A i \in DOMAIN db.users : Housed(db.users[i], dirs', lost')
      <4>1. \A i \in DOMAIN db.users : Housed(db.users[i], dirs, lost) /\ db.users[i] \in User
        BY <1>a, <2>1 DEF HousedOK
      <4> QED
        BY <4>1, <3>1
    <3>5. \A i \in DOMAIN db'.users : Housed(db'.users[i], dirs', lost')
      BY <3>2, <3>3, <3>4
    <3>6. \A i \in DOMAIN file.users :
            Housed(file.users[i], dirs, lost) => Housed(file.users[i], dirs', lost')
      <4>1. \A i \in DOMAIN file.users : file.users[i] \in User
        BY <1>a
      <4> QED
        BY <4>1, <3>1
    <3> QED
      BY <2>1, <3>5, <3>6, HousedStays
  <2> QED
    BY <1>9, <2>2, <2>3, MkdirMarks
<1>10. CASE chown
  <2>1. file' = file /\ db' = db /\ lost' = lost /\ pc = "chown" /\ ~Removing
    BY <1>10 DEF chown, Removing
  <2>2. run \in UseraddRq
    BY <2>1, RequestIs DEF StageOK, TypeOK
  <2>3. request_uid(run) # None
    BY <2>2, InitAssumption DEF request_uid, UseraddRq
  <2>4. dirs \in [Dir -> Owner] /\ \A d \in Dir : dirs[d] # None => dirs'[d] # None
    BY <1>10, <2>3 DEF chown, TypeOK
  <2>5. \A u \in User : Housed(u, dirs, lost) => Housed(u, dirs', lost')
    BY <2>1, <2>4 DEF Housed, User
  <2>6. \A i \in DOMAIN file.users : file.users[i] \in User
    BY <1>a
  <2>7. \A i \in DOMAIN db.users : db.users[i] \in User
    BY <1>a
  <2> QED
    BY <2>1, <2>5, <2>6, <2>7, HousedStays DEF HousedOK
<1>11. CASE rrmdir
  <2>1. /\ pc = "rmdir" /\ pc' = "close" /\ file' = file /\ db' = db /\ run' = run /\ ret' = ret
        /\ dirs' = [d \in Dir |-> IF d \in Gone THEN None ELSE dirs[d]]
        /\ lost' = lost \cup ({file.users[j].home : j \in DOMAIN file.users \ {Deleted}} \cap Gone)
    BY <1>11 DEF rrmdir
  <2>2. /\ run.tool = "userdel" /\ run.rm_home
        /\ Deleted \in DOMAIN file.users /\ db.users = RemoveAt(file.users, Deleted)
    BY <2>1 DEF StageOK
  <2>3. Deleted' = Deleted
    BY <2>1 DEF Deleted, SelectInSeq
  <2>4. Gone' = Gone
    BY <2>1, <2>3 DEF Gone, removable
  <2>5. \A i \in DOMAIN file.users : file.users[i] \in User /\ Housed(file.users[i], dirs, lost)
    BY <1>a, <2>1 DEF HousedOK, Removing
  <2>6. \A i \in DOMAIN file.users : i # Deleted => Housed(file.users[i], dirs', lost')
    BY <2>1, <2>5 DEF Housed, User
  <2>7. Housed(file.users[Deleted], dirs', lost') \/ file.users[Deleted].home \in Gone
    BY <2>1, <2>2, <2>5 DEF Housed, User
  <2>8. Removing'
    BY <2>1, <2>2 DEF Removing, OutcomeOK
  <2>9. \A i \in DOMAIN db.users : \E j \in DOMAIN file.users :
          j # Deleted /\ db.users[i] = file.users[j]
    BY <1>a, <2>2, RemoveAtMap
  <2>10. \A i \in DOMAIN db'.users : Housed(db'.users[i], dirs', lost')
    BY <2>1, <2>6, <2>9
  <2> QED
    BY <2>1, <2>3, <2>4, <2>6, <2>7, <2>8, <2>10 DEF HousedOK
<1>12. CASE UNCHANGED vars
  <2>1. Deleted' = Deleted
    BY <1>12 DEF vars, Deleted, SelectInSeq
  <2>2. Gone' = Gone
    BY <1>12, <2>1 DEF vars, Gone, removable
  <2> QED
    BY <1>12, <2>1, <2>2 DEF vars, HousedOK, Removing
<1> QED
  BY <1>1, <1>2, <1>3, <1>4, <1>5, <1>6, <1>7, <1>8, <1>9, <1>10, <1>11, <1>12 DEF Next

\* The accounts to start with have the directories made for them.
InitHoused == \A i \in DOMAIN InitDb.users : Housed(InitDb.users[i], InitDirs, {})

\* Every account keeps the home directory made for it until it is deleted, but
\* for a vxuserdel -r of another account with that directory or one above it,
\* and for one that was killed: for all requests, faults and trees.
THEOREM HomesStay == InitHoused => (Spec => []HomesKept)
<1> SUFFICES ASSUME InitHoused
             PROVE  Spec => []HomesKept
  OBVIOUS
<1>1. Init => OutcomeOK
  BY DEF Init, OutcomeOK, AllOrNothing
<1>2. TypeOK /\ StageOK /\ OutcomeOK /\ [Next]_vars => OutcomeOK'
  BY OutcomeStep
<1>3. Init => HousedOK
  BY DEF Init, HousedOK, InitHoused
<1>4. TypeOK /\ StageOK /\ OutcomeOK /\ HousedOK /\ [Next]_vars => HousedOK'
  BY HousedStep
<1>5. HousedOK => HomesKept
  BY DEF HousedOK, HomesKept, Housed, Removing, ToSet
<1> QED
  BY <1>1, <1>2, <1>3, <1>4, <1>5, TypeCorrect, PTL DEF Spec

-----------------------------------------------------------------------------
(* Primary groups stay *)

Gids(groups) == {groups[i].gid : i \in DOMAIN groups}

\* PrimaryKept before the copy is stored: a stored group that the copy misses is
\* no account's primary group, unless the run may take it away.
PrimaryOK ==
  pc # "idle" =>
    \A i \in DOMAIN file.groups :
      file.groups[i].gid \notin Gids(db.groups)
        => \/ run.tool = "groupmod" \/ Forced
           \/ \A j \in DOMAIN db.users : db.users[j].gid # file.groups[i].gid

\* Each step keeps the stored groups that are primary groups, also on the copy of
\* a run that has yet to store it.
LEMMA PrimaryStep ==
  TypeOK /\ StageOK /\ PrimaryOK /\ [Next]_vars => PrimaryOK'
<1> SUFFICES ASSUME TypeOK, StageOK, PrimaryOK, [Next]_vars
             PROVE  PrimaryOK'
  OBVIOUS
<1>a. /\ db \in Database /\ db.users \in Seq(User) /\ db.groups \in Seq(GroupRec)
  BY DEF TypeOK, Database, GroupRec
\* From what is stored a run gets by without a loss, as long as it keeps gids.
<1>b. ASSUME pc = "main3", file' = file, Gids(db.groups) \subseteq Gids(db'.groups)
      PROVE  PrimaryOK'
  <2>1. \A i \in DOMAIN file.groups : file.groups[i].gid \in Gids(db.groups)
    BY <1>b DEF StageOK, Gids
  <2> QED
    BY <1>b, <2>1 DEF PrimaryOK
<1>1. ASSUME NEW rq \in Requests, Open(rq)
      PROVE  PrimaryOK'
  BY <1>1 DEF Open, PrimaryOK, Gids
<1>2. CASE Close \/ Kill
  BY <1>2 DEF Close, Kill, PrimaryOK
<1>3. CASE useradd_run3 \/ userdel_run3 \/ usermod_run3 \/ groupadd_main3
  <2>1. db'.groups = db.groups
    BY <1>3, UseraddAdds, UserdelDrops, UsermodEdits, GroupaddRefuses DEF Edited
  <2> QED
    BY <1>3, <1>b, <2>1, ToolLeaves
<1>4. CASE fixuuid
  <2>1. db'.groups = db.groups
    BY <1>4, FixuuidEdits DEF Edited
  <2> QED
    BY <1>4, <1>b, <2>1 DEF fixuuid
<1>5. CASE groupmod_main3
  <2>1. run' = run /\ run.tool = "groupmod"
    BY <1>5 DEF groupmod_main3, Tool
  <2> QED
    BY <2>1 DEF PrimaryOK
<1>6. CASE groupdel_main3
  <2>1. /\ run' = run /\ run.tool = "groupdel" /\ file' = file /\ pc = "main3" /\ db = file
    BY <1>6 DEF groupdel_main3, Tool, StageOK
  <2>2. ASSUME NEW k \in DOMAIN db.groups, db'.groups = RemoveAt(db.groups, k),
               run.force \/ \A u \in Users : u.gid # db.groups[k].gid,
               db'.users = db.users
        PROVE  PrimaryOK'
    <3>1. CASE run.force
      BY <2>1, <3>1 DEF PrimaryOK, Forced
    <3>2. CASE \A u \in Users : u.gid # db.groups[k].gid
      <4>1. \A i \in DOMAIN db.groups : i # k => db.groups[i].gid \in Gids(db'.groups)
        BY <1>a, <2>2, RemoveAtKeeps DEF Gids
      <4>2. \A j \in DOMAIN db'.users : db'.users[j].gid # db.groups[k].gid
        BY <2>2, <3>2 DEF Users, ToSet
      <4> QED
        BY <2>1, <4>1, <4>2 DEF PrimaryOK
    <3> QED
      BY <2>2, <3>1, <3>2
  <2> QED
    BY <1>6, <2>1, <2>2, <1>b, GroupdelDrops
<1>7. CASE mkdir
  <2>1. /\ run' = run /\ file' = file /\ pc = "mkdir"
        /\ pc = "mkdir" => db.users # <<>>
    BY <1>7 DEF mkdir, StageOK
  <2>2. CASE db' = db
    BY <2>1, <2>2 DEF PrimaryOK, Forced
  <2>3. CASE /\ Edited(Len(db.users))
             /\ db'.users[Len(db.users)].gid = db.users[Len(db.users)].gid
    <3>1. /\ db'.groups = db.groups /\ DOMAIN db'.users = DOMAIN db.users
          /\ \A i \in DOMAIN db.users : db'.users[i].gid = db.users[i].gid
      BY <1>a, <2>3 DEF Edited
    <3> QED
      BY <2>1, <3>1 DEF PrimaryOK, Forced
  <2> QED
    BY <1>7, <2>2, <2>3, MkdirMarks
<1>8. CASE chown \/ rrmdir \/ UNCHANGED vars
  BY <1>8 DEF chown, rrmdir, vars, PrimaryOK, Forced
<1> QED
  BY <1>1, <1>2, <1>3, <1>4, <1>5, <1>6, <1>7, <1>8 DEF Next

\* Without -F no group goes that stored accounts have as primary group, whatever
\* programs run in between, but for a vxgroupmod that changes its gid.
THEOREM PrimaryGroupsStay == Spec => PrimaryKept
<1> DEFINE A == \A g \in ToSet(file.groups) :
                  (\E u \in ToSet(file'.users) : u.gid = g.gid)
                  /\ g.gid \notin {h.gid : h \in ToSet(file'.groups)}
                  => run.tool = "groupmod" \/ Forced
<1>1. Init => PrimaryOK
  BY DEF Init, PrimaryOK
<1>2. TypeOK /\ StageOK /\ PrimaryOK /\ [Next]_vars => PrimaryOK'
  BY PrimaryStep
<1>3. TypeOK /\ PrimaryOK /\ [Next]_vars => [A]_vars
  <2> SUFFICES ASSUME TypeOK, PrimaryOK, Next
               PROVE  A
    OBVIOUS
  <2>1. CASE file' = file
    BY <2>1 DEF ToSet
  <2>2. CASE Close
    <3>1. file' = db /\ pc # "idle"
      BY <2>2 DEF Close
    <3> QED
      BY <3>1 DEF PrimaryOK, ToSet, Gids
  <2>3. file' = file \/ Close
    BY DEF Next, Open, Kill, fixuuid, mkdir, chown, rrmdir, useradd_run3, userdel_run3,
       usermod_run3, groupadd_main3, groupmod_main3, groupdel_main3, Tool
  <2> QED
    BY <2>1, <2>2, <2>3
<1>4. Spec => [][A]_vars
  <2> HIDE DEF A
  <2> QED
    BY <1>1, <1>2, <1>3, TypeCorrect, PTL DEF Spec
<1> QED
  BY <1>4 DEF PrimaryKept
=============================================================================
