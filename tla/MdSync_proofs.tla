--------------------------- MODULE MdSync_proofs ---------------------------
(***************************************************************************)
(* Proofs about MdSync, for any people, names, accounts and lists, any     *)
(* deferral, and with failures, answers and crashes anywhere: nobody gets  *)
(* two accounts, accounts outside the group stay as they are, nobody's     *)
(* account is deleted before its time, a run in which nothing fails or is  *)
(* left out does all that there is to do, and the names given are free.    *)
(* The last part is about Genpw, whose vxutil_genpw() mdsync_add() calls   *)
(* for every new account: for any syllable tables, buffers and wishes, and *)
(* however many tries it takes, the password is what was asked for.        *)
(***************************************************************************)
EXTENDS MdSync, Genpw, FiniteSetTheorems, WellFoundedInduction, TLAPS

-----------------------------------------------------------------------------
(* The inductive invariant *)

Request(r) == r = [username |-> r.username, pvgrp |-> r.pvgrp] /\ r.pvgrp \in Pvgrp

TypeOK ==
  /\ eds \in List /\ input \in List
  /\ today \in Nat /\ begun_on \in Nat
  /\ db \in Accounts /\ file \in Accounts
  /\ DOMAIN add_req \subseteq Uuid
  /\ add_req = [u \in DOMAIN add_req |-> add_req[u]]
  /\ \A u \in DOMAIN add_req : Request(add_req[u])
  /\ \A n \in DOMAIN update_req : update_req[n] \in Pvgrp
  /\ done_on \in [Uuid -> Nat] /\ \A u \in Uuid : done_on[u] <= today

BeforeAdd == {"fixup", "continue", "ask_add", "add", "flush", "home"}
BeforeMod == BeforeAdd \cup {"ask_mod", "mod"}

\* The people in add_req have no account of the group.
AddOK ==
  /\ pc = "compare" => DOMAIN add_req = {u \in Uuid : input[u] # None}
  /\ (pc = "compare" /\ prog = "newuser") \/ pc \in BeforeAdd =>
       \A n \in Members(db) : db[n].uuid \notin DOMAIN add_req

\* The accounts that are to be changed are of the group.
ModOK ==
  /\ (pc \in {"idle", "compare"} \/ prog = "newuser") =>
       DOMAIN update_req = {} /\ defer_start = {} /\ defer_stop = {}
  /\ pc \in BeforeMod =>
       /\ DOMAIN update_req \cup defer_start \cup defer_stop \subseteq Members(db)
       /\ \A n \in defer_start : db[n].uuid # None => input[db[n].uuid] = None

\* So are those that are to be deleted, whose time has come.
DelOK ==
  /\ pc \in {"idle", "compare"} => delete_now = {}
  /\ delete_now \subseteq Members(db)
  /\ \A n \in delete_now : db[n].uuid # None => done_on[db[n].uuid] + Defer <= today
  /\ pc = "userdel" => cur \in Members(db) /\ cur \notin delete_now

\* The timer of a listed person is going to be stopped, if all goes well.
StopOK ==
  pc \notin {"idle", "compare"} /\ complete =>
    \A n \in Members(db) :
      db[n].uuid # None /\ input[db[n].uuid] # None /\ db[n].vs_defer # 0 =>
        pc \in BeforeMod /\ n \in defer_stop

\* A timer was started after the last completed run that found the person listed.
TimersOf(d) ==
  \A n \in Members(d) : d[n].uuid # None /\ d[n].vs_defer # 0 => done_on[d[n].uuid] <= d[n].vs_defer

IInv ==
  /\ TypeOK /\ UuidOnce /\ OutsidersUntouched
  /\ AddOK /\ ModOK /\ DelOK /\ StopOK
  /\ TimersOf(db) /\ TimersOf(file)

-----------------------------------------------------------------------------
(* Lemmas *)

LEMMA MemberFacts ==
  ASSUME TypeOK, NEW n \in Members(db)
  PROVE  n \in Name /\ db[n] # None /\ db[n] \in Account /\ db[n].grp
  BY DEF TypeOK, Accounts, Members, Used

(* The accounts as a whole: nothing is changed, or they are stored. *)
AccountsKept ==
  /\ db' \in {db, file} /\ file' \in {db, file}
  /\ homes \subseteq homes' /\ UNCHANGED done_on

AccountsOK == UuidOnce /\ OutsidersUntouched /\ TimersOf(db) /\ TimersOf(file)

LEMMA KeptOK == ASSUME AccountsOK, AccountsKept PROVE AccountsOK'
  BY DEF AccountsOK, AccountsKept, UuidOnce, OutsidersUntouched, TimersOf

(* One account of the group gets other data, under the same name and uuid. *)
Changed(n, entry) ==
  /\ db' = [db EXCEPT ![n] = entry]
  /\ entry \in Account /\ entry.uuid = db[n].uuid /\ entry.grp

LEMMA SameMembers ==
  ASSUME TypeOK, NEW n \in Members(db), NEW entry, Changed(n, entry)
  PROVE  /\ db' \in Accounts
         /\ Members(db') = Members(db)
         /\ \A m \in Members(db) : db'[m].uuid = db[m].uuid
         /\ db'[n] = entry /\ \A m \in Name \ {n} : db'[m] = db[m]
<1>1. n \in Name /\ entry # None
  BY MemberFacts, MdSyncAssumption DEF Changed
<1>2. db' \in Accounts
  BY <1>1 DEF Changed, TypeOK, Accounts
<1>3. db'[n] = entry /\ \A m \in Name \ {n} : db'[m] = db[m]
  BY <1>1 DEF Changed, TypeOK, Accounts
<1>4. Members(db') = Members(db)
  BY <1>1, <1>3, MemberFacts DEF Changed, Members, Used
<1>5. \A m \in Members(db) : db'[m].uuid = db[m].uuid
  BY <1>1, <1>3 DEF Changed, Members, Used
<1> QED
  BY <1>2, <1>3, <1>4, <1>5

LEMMA ChangedOK ==
  ASSUME TypeOK, AccountsOK, NEW n \in Members(db), NEW entry, Changed(n, entry),
         entry.vs_defer \in {db[n].vs_defer, 0, today},
         file' \in {file, db'}, UNCHANGED <<homes, done_on>>
  PROVE  AccountsOK'
<1>1. Once(db')
  BY SameMembers DEF AccountsOK, UuidOnce, Once
<1>2. TimersOf(db)'
  <2> SUFFICES ASSUME NEW m \in Members(db), db'[m].uuid # None, db'[m].vs_defer # 0
               PROVE  done_on[db'[m].uuid] <= db'[m].vs_defer
    BY SameMembers DEF TimersOf
  <2>1. m \in Name /\ db[m].uuid \in Uuid /\ db'[m].uuid = db[m].uuid
    BY SameMembers, MemberFacts DEF Account
  <2>2. CASE m # n
    BY <2>1, <2>2, SameMembers DEF AccountsOK, TimersOf
  <2>3. CASE m = n /\ entry.vs_defer = today
    BY <2>1, <2>3, SameMembers DEF TypeOK
  <2>4. CASE m = n /\ entry.vs_defer # today
    BY <2>1, <2>4, SameMembers DEF AccountsOK, TimersOf
  <2> QED
    BY <2>2, <2>3, <2>4
<1>3. OutsidersUntouched'
  BY SameMembers, MemberFacts DEF AccountsOK, OutsidersUntouched
<1>4. Once(file') /\ TimersOf(file)'
  BY <1>1, <1>2 DEF AccountsOK, UuidOnce, TimersOf
<1> QED
  BY <1>1, <1>2, <1>3, <1>4 DEF AccountsOK, UuidOnce

(* A person without an account of the group gets one. *)
Added(n, entry) ==
  /\ db[n] = None /\ db' = [db EXCEPT ![n] = entry]
  /\ entry \in Account /\ entry.grp /\ entry.vs_defer = 0
  /\ entry.uuid # None /\ \A m \in Members(db) : db[m].uuid # entry.uuid

LEMMA AddedMembers ==
  ASSUME TypeOK, NEW n, NEW entry, Added(n, entry)
  PROVE  /\ db' \in Accounts
         /\ Members(db) \subseteq Members(db') /\ Members(db') \subseteq Members(db) \cup {n}
         /\ n \notin Members(db) /\ (n \in Members(db') => db'[n] = entry)
         /\ \A m \in Name \ {n} : db'[m] = db[m]
<1>1. db' \in Accounts
  BY DEF Added, TypeOK, Accounts
<1>2. (n \in Name => db'[n] = entry) /\ \A m \in Name \ {n} : db'[m] = db[m]
  BY DEF Added, TypeOK, Accounts
<1>3. n \notin Members(db)
  BY DEF Added, Members, Used
<1>4. entry # None
  BY MdSyncAssumption DEF Added
<1> QED
  BY <1>1, <1>2, <1>3, <1>4 DEF Added, Members, Used

LEMMA AddedOK ==
  ASSUME TypeOK, AccountsOK, NEW n, NEW entry, Added(n, entry),
         file' \in {file, db'}, UNCHANGED <<homes, done_on>>
  PROVE  AccountsOK'
<1>0. \A m \in Members(db') :
        (m = n /\ db'[m] = entry) \/ (m # n /\ m \in Members(db) /\ db'[m] = db[m])
  <2>1. n \in Members(db') => db'[n] = entry
    BY AddedMembers
  <2>2. ASSUME NEW m \in Members(db'), m # n PROVE m \in Members(db) /\ db'[m] = db[m]
    <3>1. m \in Members(db)
      BY <2>2, AddedMembers
    <3> QED
      BY <2>2, <3>1, AddedMembers, MemberFacts
  <2> QED
    BY <2>1, <2>2
<1>1. Once(db')
  <2> SUFFICES ASSUME NEW k \in Members(db'), NEW m \in Members(db'),
                      db'[k].uuid # None, db'[k].uuid = db'[m].uuid
               PROVE  k = m
    BY DEF Once
  <2>1. \A j \in Members(db) : db[j].uuid # entry.uuid
    BY DEF Added
  <2>2. CASE k # n /\ m # n
    BY <1>0, <2>2 DEF AccountsOK, UuidOnce, Once
  <2>3. CASE k = n \/ m = n
    BY <1>0, <2>1, <2>3
  <2> QED
    BY <2>2, <2>3
<1>2. TimersOf(db)'
  <2> SUFFICES ASSUME NEW m \in Members(db'), db'[m].uuid # None, db'[m].vs_defer # 0
               PROVE  done_on'[db'[m].uuid] <= db'[m].vs_defer
    BY DEF TimersOf
  <2>1. entry.vs_defer = 0
    BY DEF Added
  <2>2. m \in Members(db) /\ db'[m] = db[m]
    BY <1>0, <2>1
  <2>3. UNCHANGED done_on
    OBVIOUS
  <2> QED
    BY <2>2, <2>3 DEF AccountsOK, TimersOf
<1>3. OutsidersUntouched'
  <2> SUFFICES ASSUME NEW m \in Name, InitAccounts[m] # None, ~InitAccounts[m].grp
               PROVE  db'[m] = InitAccounts[m] /\ file'[m] = InitAccounts[m] /\ m \in homes'
    BY DEF OutsidersUntouched
  <2>1. db[m] = InitAccounts[m] /\ file[m] = InitAccounts[m] /\ m \in homes
    BY DEF AccountsOK, OutsidersUntouched
  <2>2. m # n
    BY <2>1 DEF Added
  <2> QED
    BY <2>1, <2>2, AddedMembers
<1>4. Once(file') /\ TimersOf(file)'
  BY <1>1, <1>2 DEF AccountsOK, UuidOnce, TimersOf
<1> QED
  BY <1>1, <1>2, <1>3, <1>4 DEF AccountsOK, UuidOnce

(* An account of the group is deleted. *)
LEMMA RemovedMembers ==
  ASSUME TypeOK, NEW n \in Members(db), db' = [db EXCEPT ![n] = None]
  PROVE  /\ db' \in Accounts /\ Members(db') = Members(db) \ {n}
         /\ \A m \in Name \ {n} : db'[m] = db[m]
  BY DEF TypeOK, Accounts, Members, Used

LEMMA RemovedOK ==
  ASSUME TypeOK, AccountsOK, NEW n \in Members(db), db' = [db EXCEPT ![n] = None],
         file' \in {file, db'}, UNCHANGED <<homes, done_on>>
  PROVE  AccountsOK'
<1>1. \A m \in Members(db') : m \in Members(db) /\ db'[m] = db[m]
  BY RemovedMembers, MemberFacts
<1>2. Once(db') /\ TimersOf(db)'
  <2>1. Once(db')
    BY <1>1 DEF AccountsOK, UuidOnce, Once
  <2>2. TimersOf(db)'
    BY <1>1 DEF AccountsOK, TimersOf
  <2> QED
    BY <2>1, <2>2
<1>3. OutsidersUntouched'
  BY RemovedMembers, MemberFacts DEF AccountsOK, OutsidersUntouched
<1>4. Once(file') /\ TimersOf(file)'
  BY <1>2 DEF AccountsOK, UuidOnce, TimersOf
<1> QED
  BY <1>2, <1>3, <1>4 DEF AccountsOK, UuidOnce

-----------------------------------------------------------------------------
(* Outside, reading and comparing *)

LEMMA OutsideStep ==
  ASSUME IInv, (\E u \in Uuid, g \in Pvgrp \cup {None} : EdsChange(u, g)) \/ NewDay
  PROVE  IInv'
<1>1. CASE \E u \in Uuid, g \in Pvgrp \cup {None} : EdsChange(u, g)
  <2>1. eds' \in List
    BY <1>1 DEF EdsChange, IInv, TypeOK, List
  <2>2. UNCHANGED <<today, file, db, homes, prog, pc, work, cur, complete, history>>
    BY <1>1 DEF EdsChange
  <2> QED
    BY <2>1, <2>2
    DEF IInv, TypeOK, UuidOnce, OutsidersUntouched, AddOK, ModOK, DelOK, StopOK, TimersOf, work, history
<1>2. CASE NewDay
  <2>1. today' = today + 1
    BY <1>2 DEF NewDay
  <2>2. UNCHANGED <<eds, file, db, homes, prog, pc, work, cur, complete, history>>
    BY <1>2 DEF NewDay
  <2>3. TypeOK' /\ UuidOnce' /\ OutsidersUntouched' /\ AddOK' /\ ModOK' /\ StopOK'
        /\ TimersOf(db)' /\ TimersOf(file)'
    BY <2>1, <2>2
    DEF IInv, TypeOK, UuidOnce, OutsidersUntouched, AddOK, ModOK, StopOK, TimersOf, work, history
  <2>4. DelOK'
    <3> SUFFICES ASSUME NEW n \in delete_now, db[n].uuid # None
                 PROVE  done_on[db[n].uuid] + Defer <= today'
      BY <2>2 DEF IInv, DelOK, work, history
    <3>1. db[n].uuid \in Uuid
      BY MemberFacts DEF IInv, DelOK, Account
    <3> QED
      BY <2>1, <3>1, MdSyncAssumption DEF IInv, TypeOK, DelOK
  <2> QED
    BY <2>3, <2>4 DEF IInv
<1> QED
  BY <1>1, <1>2

LEMMA BeginStep ==
  ASSUME IInv, NEW program, NEW list \in List, Begin(program, list),
         program = "newuser" => \A n \in Members(file) : file[n].uuid = None \/ list[file[n].uuid] = None
  PROVE  IInv'
<1>1. TypeOK'
  <2>1. \A u \in DOMAIN add_req' : list[u] \in Pvgrp /\ add_req'[u] = [username |-> LName[u], pvgrp |-> list[u]]
    BY DEF Begin, List
  <2>2. \A u \in DOMAIN add_req' : Request(add_req'[u])
    BY <2>1 DEF Request
  <2>3. DOMAIN add_req' \subseteq Uuid /\ add_req' = [u \in DOMAIN add_req' |-> add_req'[u]]
    BY DEF Begin
  <2> QED
    BY <2>2, <2>3 DEF Begin, IInv, TypeOK, world
<1>2. AccountsOK'
  BY KeptOK DEF Begin, AccountsKept, AccountsOK, IInv
<1>3. AddOK'
  <2>1. DOMAIN add_req' = {u \in Uuid : list[u] # None}
    BY DEF Begin
  <2>2. None \notin Uuid
    BY MdSyncAssumption
  <2> QED
    BY <2>1, <2>2 DEF Begin, AddOK, BeforeAdd
<1>4. ModOK' /\ DelOK' /\ StopOK'
  BY DEF Begin, IInv, ModOK, DelOK, StopOK, BeforeMod, BeforeAdd
<1> QED
  BY <1>1, <1>2, <1>3, <1>4 DEF IInv, AccountsOK

LEMMA CompareStep == ASSUME IInv, mdsync_compare PROVE IInv'
<1> DEFINE found   == {n \in Analyzed(db) : Listed(n)}
           missing == Analyzed(db) \ found
<1>1. Analyzed(db) = Members(db)
  BY DEF Analyzed
<1>2. /\ add_req' = [u \in DOMAIN add_req \ {db[n].uuid : n \in found} |-> add_req[u]]
      /\ DOMAIN update_req' \subseteq found
      /\ \A n \in DOMAIN update_req' : update_req'[n] = add_req[db[n].uuid].pvgrp
      /\ defer_stop' = {n \in found : db[n].vs_defer # 0}
      /\ defer_start' \subseteq missing
      /\ delete_now' = {n \in missing : Defer = 0 \/ (db[n].vs_defer # 0 /\ Expired(n))}
  BY DEF mdsync_compare
<1>3. /\ prog # "newuser" /\ pc = "compare" /\ pc' = "fixup"
      /\ UNCHANGED <<eds, today, file, db, homes, prog, cur, complete, begun_on, input, done_on>>
  BY DEF mdsync_compare, world, history
<1>4. \A n \in found : n \in Members(db) /\ db[n].uuid \in DOMAIN add_req
  BY <1>1 DEF Listed
<1>5. \A n \in missing : n \in Members(db) /\ db[n].uuid \notin DOMAIN add_req
  BY <1>1 DEF Listed
<1>6. DOMAIN add_req = {u \in Uuid : input[u] # None}
  BY <1>3 DEF IInv, AddOK
<1>7. \A n \in Members(db) : n \in found \/ n \in missing
  BY <1>1
<1> HIDE DEF found, missing
<1>8. TypeOK'
  <2>1. \A u \in DOMAIN add_req' : u \in DOMAIN add_req /\ add_req'[u] = add_req[u]
    BY <1>2
  <2>2. \A n \in DOMAIN update_req' : update_req'[n] \in Pvgrp
    BY <1>2, <1>4 DEF IInv, TypeOK, Request
  <2>3. add_req' = [u \in DOMAIN add_req' |-> add_req'[u]]
    BY <1>2
  <2> QED
    BY <1>3, <2>1, <2>2, <2>3 DEF IInv, TypeOK
<1>9. AccountsOK'
  BY <1>3, KeptOK DEF AccountsKept, AccountsOK, IInv
<1>10. AddOK'
  <2>1. ASSUME NEW n \in Members(db) PROVE db[n].uuid \notin DOMAIN add_req'
    BY <1>2, <1>5, <1>7
  <2> QED
    BY <1>3, <2>1 DEF AddOK
<1>11. ModOK'
  <2>1. DOMAIN update_req' \cup defer_start' \cup defer_stop' \subseteq Members(db)
    BY <1>2, <1>4, <1>5
  <2>2. \A n \in defer_start' : db[n].uuid # None => input[db[n].uuid] = None
    <3> SUFFICES ASSUME NEW n \in defer_start', db[n].uuid # None PROVE input[db[n].uuid] = None
      OBVIOUS
    <3>1. n \in Members(db) /\ db[n].uuid \notin DOMAIN add_req
      BY <1>2, <1>5
    <3>2. db[n].uuid \in Uuid
      BY <3>1, MemberFacts DEF IInv, Account
    <3> QED
      BY <1>6, <3>1, <3>2
  <2> QED
    BY <1>3, <2>1, <2>2 DEF ModOK
<1>12. DelOK'
  <2> SUFFICES ASSUME NEW n \in delete_now'
               PROVE  n \in Members(db) /\ (db[n].uuid # None => done_on[db[n].uuid] + Defer <= today)
    BY <1>3 DEF DelOK
  <2>1. n \in Members(db)
    BY <1>2, <1>5
  <2>2. ASSUME db[n].uuid # None PROVE done_on[db[n].uuid] + Defer <= today
    <3>1. db[n].uuid \in Uuid /\ db[n].vs_defer \in Nat
      BY <2>1, <2>2, MemberFacts DEF IInv, Account
    <3>2. done_on[db[n].uuid] \in Nat /\ done_on[db[n].uuid] <= today /\ today \in Nat
      BY <3>1 DEF IInv, TypeOK
    <3>3. Defer \in Nat
      BY MdSyncAssumption
    <3>4. CASE Defer = 0
      BY <3>2, <3>4
    <3>5. CASE db[n].vs_defer # 0 /\ Expired(n)
      <4>1. done_on[db[n].uuid] <= db[n].vs_defer
        BY <2>1, <2>2, <3>5 DEF IInv, TimersOf
      <4>2. today >= db[n].vs_defer + Defer
        BY <3>5 DEF Expired
      <4> QED
        BY <3>1, <3>2, <3>3, <4>1, <4>2
    <3> QED
      BY <1>2, <3>4, <3>5
  <2> QED
    BY <2>1, <2>2
<1>13. StopOK'
  <2> SUFFICES ASSUME NEW n \in Members(db), db[n].uuid # None, input[db[n].uuid] # None,
                      db[n].vs_defer # 0
               PROVE  n \in defer_stop'
    BY <1>3 DEF StopOK, BeforeMod, BeforeAdd
  <2>1. db[n].uuid \in Uuid
    BY MemberFacts DEF IInv, Account
  <2>2. n \in found
    BY <1>5, <1>6, <1>7, <2>1
  <2> QED
    BY <1>2, <2>2
<1> QED
  BY <1>8, <1>9, <1>10, <1>11, <1>12, <1>13 DEF IInv, AccountsOK

LEMMA CompareSimpleStep == ASSUME IInv, mdsync_compare_simple PROVE IInv'
<1>1. /\ prog = "newuser" /\ pc = "compare" /\ pc' = "fixup"
      /\ UNCHANGED <<eds, today, file, db, homes, prog, cur, complete, begun_on, input, done_on>>
      /\ UNCHANGED <<add_req, update_req, defer_start, defer_stop, delete_now>>
  BY DEF mdsync_compare_simple, world, history
<1>2. TypeOK'
  BY <1>1 DEF IInv, TypeOK
<1>3. AccountsOK'
  BY <1>1, KeptOK DEF AccountsKept, AccountsOK, IInv
<1>4. AddOK'
  BY <1>1 DEF IInv, AddOK
<1>5. ModOK' /\ DelOK'
  BY <1>1 DEF IInv, ModOK, DelOK
<1>6. StopOK'
  <2> SUFFICES ASSUME NEW n \in Members(db), db[n].uuid # None PROVE input[db[n].uuid] = None
    BY <1>1 DEF StopOK
  <2>1. db[n].uuid \in Uuid
    BY MemberFacts DEF IInv, Account
  <2> QED
    BY <1>1, <2>1 DEF IInv, AddOK
<1> QED
  BY <1>2, <1>3, <1>4, <1>5, <1>6 DEF IInv, AccountsOK

LEMMA FixupStep == ASSUME IInv, mdsync_fixup PROVE IInv'
<1> DEFINE names == Given(Len(UuidOrder))
<1>1. /\ pc = "fixup" /\ pc' \in {"add", "ask_add", "continue"}
      /\ UNCHANGED <<eds, today, file, db, homes, prog, cur, complete, begun_on, input, done_on>>
      /\ UNCHANGED <<update_req, defer_start, defer_stop, delete_now>>
      /\ add_req' = [u \in DOMAIN add_req |-> [add_req[u] EXCEPT !.username = names[u]]]
  BY DEF mdsync_fixup, world, history
<1> HIDE DEF names
<1>2. TypeOK'
  <2>1. DOMAIN add_req' = DOMAIN add_req /\ add_req' = [u \in DOMAIN add_req' |-> add_req'[u]]
    BY <1>1
  <2>2. \A u \in DOMAIN add_req' : Request(add_req'[u])
    BY <1>1 DEF IInv, TypeOK, Request
  <2> QED
    BY <1>1, <2>1, <2>2 DEF IInv, TypeOK
<1>3. AccountsOK'
  BY <1>1, KeptOK DEF AccountsKept, AccountsOK, IInv
<1>4. AddOK'
  BY <1>1 DEF IInv, AddOK, BeforeAdd
<1>5. ModOK' /\ DelOK'
  BY <1>1 DEF IInv, ModOK, DelOK, BeforeMod, BeforeAdd
<1>6. StopOK'
  BY <1>1 DEF IInv, StopOK, BeforeMod, BeforeAdd
<1> QED
  BY <1>2, <1>3, <1>4, <1>5, <1>6 DEF IInv, AccountsOK

-----------------------------------------------------------------------------
(* The course of a run: the requests and the accounts that it works on are   *)
(* left alone, or the process ends.                                          *)

Advance ==
  /\ UNCHANGED <<eds, today, done_on, input, begun_on>> /\ UNCHANGED <<add_req, update_req>>
  /\ UNCHANGED <<defer_start, defer_stop, delete_now, db, prog>>
  /\ file' \in {file, db} /\ homes \subseteq homes'

LEMMA AdvanceOK ==
  ASSUME IInv, Advance,
         pc \notin {"idle", "compare"}, pc' \notin {"idle", "compare", "userdel"},
         pc' \in BeforeAdd => pc \in BeforeAdd, pc' \in BeforeMod => pc \in BeforeMod,
         complete' => complete /\ (defer_stop = {} \/ (pc \in BeforeMod => pc' \in BeforeMod))
  PROVE  IInv'
<1>1. TypeOK'
  BY DEF IInv, TypeOK, Advance, Accounts
<1>2. AccountsOK'
  BY KeptOK DEF Advance, AccountsKept, AccountsOK, IInv
<1>3. AddOK'
  BY DEF IInv, AddOK, Advance
<1>4. ModOK'
  BY DEF IInv, ModOK, Advance
<1>5. DelOK'
  BY DEF IInv, DelOK, Advance
<1>6. StopOK'
  BY DEF IInv, StopOK, Advance
<1> QED
  BY <1>1, <1>2, <1>3, <1>4, <1>5, <1>6 DEF IInv, AccountsOK

LEMMA CourseStep ==
  ASSUME IInv,
         Continue \/ (\E part \in DOMAIN Ask : sync_part(part)) \/ UseraddFlush \/ create_home
         \/ AddEnd \/ ModEnd \/ DelEnd
  PROVE  IInv'
<1>1. CASE Continue
  <2>1. Advance
    BY <1>1 DEF Continue, Advance, world, work, history
  <2> QED
    BY <1>1, <2>1, AdvanceOK DEF Continue, BeforeAdd, BeforeMod
<1>2. ASSUME NEW part \in DOMAIN Ask, sync_part(part) PROVE IInv'
  <2>1. Advance
    BY <1>2 DEF sync_part, Advance, world, work, history
  <2>2. CASE part = "add"
    <3>1. prog = "newuser" => defer_stop = {}
      BY DEF IInv, ModOK
    <3> QED
      BY <1>2, <2>1, <2>2, <3>1, AdvanceOK DEF sync_part, Ask, After, BeforeAdd, BeforeMod
  <2>3. CASE part = "mod"
    <3>1. Items("mod") = {} => defer_stop = {}
      BY DEF Items
    <3> QED
      BY <1>2, <2>1, <2>3, <3>1, AdvanceOK DEF sync_part, Ask, After, BeforeAdd, BeforeMod
  <2>4. CASE part = "del"
    BY <1>2, <2>1, <2>4, AdvanceOK DEF sync_part, Ask, After, BeforeAdd, BeforeMod
  <2> QED
    BY <2>2, <2>3, <2>4 DEF Ask
<1>3. CASE UseraddFlush
  <2>1. Advance
    BY <1>3 DEF UseraddFlush, Advance, world, work, history
  <2> QED
    BY <1>3, <2>1, AdvanceOK DEF UseraddFlush, BeforeAdd, BeforeMod
<1>4. CASE create_home
  <2>1. Advance
    BY <1>4 DEF create_home, Advance, world, work, history
  <2> QED
    BY <1>4, <2>1, AdvanceOK DEF create_home, BeforeAdd, BeforeMod
<1>5. CASE AddEnd
  <2>1. Advance
    BY <1>5 DEF AddEnd, Advance, world, work, history
  <2>2. prog = "newuser" => defer_stop = {}
    BY DEF IInv, ModOK
  <2> QED
    BY <1>5, <2>1, <2>2, AdvanceOK DEF AddEnd, After, BeforeAdd, BeforeMod
<1>6. CASE ModEnd
  <2>1. Advance
    BY <1>6 DEF ModEnd, Advance, world, work, history
  <2> QED
    BY <1>6, <2>1, AdvanceOK DEF ModEnd, After, BeforeAdd, BeforeMod
<1>7. CASE DelEnd
  <2>1. Advance
    BY <1>7 DEF DelEnd, Advance, world, work, history
  <2> QED
    BY <1>7, <2>1, AdvanceOK DEF DelEnd, After, BeforeAdd, BeforeMod
<1> QED
  BY <1>1, <1>2, <1>3, <1>4, <1>5, <1>6, <1>7

(* The process ends, and what is stored is what was stored or what it saw. *)
LEMMA ExitOK ==
  ASSUME TypeOK, TypeOK', AccountsOK', Exit PROVE IInv'
<1>1. pc' = "idle" /\ ~complete'
  BY DEF Exit
<1>2. DOMAIN add_req' = {} /\ DOMAIN update_req' = {}
      /\ defer_start' = {} /\ defer_stop' = {} /\ delete_now' = {}
  BY DEF Exit, mdsync_free, Nothing
<1>3. AddOK' /\ ModOK' /\ DelOK' /\ StopOK'
  BY <1>1, <1>2 DEF AddOK, ModOK, DelOK, StopOK, BeforeMod, BeforeAdd
<1> QED
  BY <1>3 DEF IInv, AccountsOK

LEMMA ExitTyped ==
  ASSUME TypeOK, Exit, UNCHANGED <<eds, today>>, db' \in Accounts, file' \in Accounts,
         done_on' \in [Uuid -> Nat], \A u \in Uuid : done_on'[u] <= today
  PROVE  TypeOK'
<1>1. input' \in List /\ begun_on' \in Nat
  BY DEF Exit, Nobody, List
<1>2. add_req' = Nothing /\ update_req' = Nothing
  BY DEF Exit, mdsync_free
<1>3. add_req' = [u \in DOMAIN add_req' |-> add_req'[u]] /\ DOMAIN add_req' = {} /\ DOMAIN update_req' = {}
  BY <1>2 DEF Nothing
<1> QED
  BY <1>1, <1>3 DEF TypeOK

LEMMA CrashStep == ASSUME IInv, Crash PROVE IInv'
<1>1. Exit /\ db' = file /\ UNCHANGED <<eds, today, file, homes, done_on>>
  BY DEF Crash, world
<1>2. TypeOK'
  BY <1>1, ExitTyped DEF IInv, TypeOK
<1>3. AccountsOK'
  BY <1>1, KeptOK DEF AccountsKept, AccountsOK, IInv
<1> QED
  BY <1>1, <1>2, <1>3, ExitOK DEF IInv

(* A completed run: nobody listed has a timer. *)
LEMMA CloseStep == ASSUME IInv, Close PROVE IInv'
<1>1. Exit /\ pc = "close" /\ file' = db /\ UNCHANGED <<eds, today, db, homes>>
  BY DEF Close, world
<1>2. done_on' = [u \in Uuid |-> IF complete /\ input[u] # None THEN today ELSE done_on[u]]
  BY DEF Close
<1>3. TypeOK'
  <2>1. done_on' \in [Uuid -> Nat] /\ \A u \in Uuid : done_on'[u] <= today
    BY <1>2 DEF IInv, TypeOK
  <2> QED
    BY <1>1, <2>1, ExitTyped DEF IInv, TypeOK
<1>4. TimersOf(db)' /\ TimersOf(file)'
  <2> SUFFICES ASSUME NEW n \in Members(db), db[n].uuid # None, db[n].vs_defer # 0
               PROVE  done_on'[db[n].uuid] <= db[n].vs_defer
    BY <1>1 DEF TimersOf
  <2>1. db[n].uuid \in Uuid
    BY MemberFacts DEF IInv, Account
  <2>2. ~(complete /\ input[db[n].uuid] # None)
    BY <1>1 DEF IInv, StopOK, BeforeMod, BeforeAdd
  <2>3. done_on'[db[n].uuid] = done_on[db[n].uuid]
    BY <1>2, <2>1, <2>2
  <2> QED
    BY <2>3 DEF IInv, TimersOf
<1>5. UuidOnce' /\ OutsidersUntouched'
  BY <1>1 DEF IInv, UuidOnce, OutsidersUntouched
<1> QED
  BY <1>1, <1>3, <1>4, <1>5, ExitOK DEF AccountsOK, IInv

-----------------------------------------------------------------------------
(* Adding, changing and deleting *)

LEMMA UseraddStep == ASSUME IInv, NEW u \in Uuid, Useradd(u) PROVE IInv'
<1> DEFINE n == add_req[u].username
           entry == NewAccount(u)
<1>1. u \in DOMAIN add_req /\ pc = "add" /\ UNCHANGED <<eds, today, homes, done_on>>
  BY DEF Useradd, world
<1>2. Added(n, entry)
  <2>1. entry \in Account /\ entry.grp /\ entry.vs_defer = 0 /\ entry.uuid = u
    BY <1>1, MdSyncAssumption DEF NewAccount, Account, IInv, TypeOK, Request
  <2>2. \A m \in Members(db) : db[m].uuid # u
    BY <1>1 DEF IInv, AddOK, BeforeAdd
  <2>3. db[n] = None /\ db' = [db EXCEPT ![n] = entry]
    BY DEF Useradd, Store, Used
  <2>4. u # None
    BY MdSyncAssumption
  <2> HIDE DEF n, entry
  <2> QED
    BY <2>1, <2>2, <2>3, <2>4 DEF Added
<1>3. file' \in {file, db'}
  BY DEF Useradd, Store
<1>4. entry.uuid = u
  BY DEF NewAccount
<1> HIDE DEF n, entry
<1>5. AccountsOK'
  BY <1>1, <1>2, <1>3, AddedOK DEF IInv, AccountsOK
<1>6. db' \in Accounts /\ file' \in Accounts
  BY <1>2, <1>3, AddedMembers DEF IInv, TypeOK
<1>7. \A m \in Members(db) : m \in Members(db') /\ db'[m] = db[m]
  BY <1>2, AddedMembers, MemberFacts DEF IInv
<1>8. \A m \in Members(db') :
        (db'[m].uuid = u /\ db'[m].vs_defer = 0) \/ (m \in Members(db) /\ db'[m] = db[m])
  <2>1. n \in Members(db') => db'[n] = entry
    BY <1>2, AddedMembers DEF IInv
  <2>2. ASSUME NEW m \in Members(db'), m # n PROVE m \in Members(db) /\ db'[m] = db[m]
    <3>1. m \in Members(db)
      BY <1>2, <2>2, AddedMembers DEF IInv
    <3> QED
      BY <1>7, <3>1
  <2>3. entry.vs_defer = 0
    BY <1>2 DEF Added
  <2> QED
    BY <1>4, <2>1, <2>2, <2>3
<1>9. CASE /\ pc' \in {"flush", "home"} /\ UNCHANGED <<prog, update_req, defer_start, defer_stop, delete_now>>
           /\ add_req' = [v \in DOMAIN add_req \ {u} |-> add_req[v]]
           /\ UNCHANGED <<complete, input, begun_on>>
  <2>1. TypeOK'
    BY <1>1, <1>6, <1>9 DEF IInv, TypeOK
  <2>2. AddOK'
    BY <1>1, <1>8, <1>9 DEF IInv, AddOK, BeforeAdd
  <2>3. ModOK' /\ DelOK'
    BY <1>1, <1>7, <1>9 DEF IInv, ModOK, DelOK, BeforeMod, BeforeAdd
  <2>4. StopOK'
    BY <1>1, <1>8, <1>9 DEF IInv, StopOK, BeforeMod, BeforeAdd
  <2> QED
    BY <1>5, <2>1, <2>2, <2>3, <2>4 DEF IInv, AccountsOK
<1>10. CASE Exit
  <2>1. TypeOK'
    BY <1>1, <1>6, <1>10, ExitTyped DEF IInv, TypeOK
  <2> QED
    BY <1>5, <1>10, <2>1, ExitOK DEF IInv
<1>11. CASE Failed("add")
  <2>1. /\ pc' \in {"close", "ask_mod"} /\ ~complete' /\ UNCHANGED <<prog, input, begun_on>>
        /\ UNCHANGED <<add_req, update_req, defer_start, defer_stop, delete_now>>
    BY <1>11 DEF Failed, After, work
  <2>2. TypeOK'
    BY <1>1, <1>6, <2>1 DEF IInv, TypeOK
  <2>3. AddOK' /\ StopOK'
    BY <2>1 DEF AddOK, StopOK, BeforeAdd
  <2>4. ModOK' /\ DelOK'
    BY <1>1, <1>7, <2>1 DEF IInv, ModOK, DelOK, BeforeMod, BeforeAdd
  <2> QED
    BY <1>5, <2>2, <2>3, <2>4 DEF IInv, AccountsOK
<1> QED
  BY <1>9, <1>10, <1>11 DEF Useradd, FailedAdd

LEMMA FailStep == ASSUME IInv, Fail PROVE IInv'
<1>1. UNCHANGED <<eds, today, db, homes, done_on>> /\ file' \in {file, db}
  BY DEF Fail, world
<1>2. CASE Exit
  <2>1. TypeOK'
    BY <1>1, <1>2, ExitTyped DEF IInv, TypeOK
  <2>2. AccountsOK'
    BY <1>1, KeptOK DEF AccountsKept, AccountsOK, IInv
  <2> QED
    BY <1>2, <2>1, <2>2, ExitOK DEF IInv
<1>3. ASSUME NEW part \in {"add", "mod", "del"}, Failed(part),
             part = "add" => pc = "add", part = "mod" => pc = "mod", part = "del" => pc \in {"del", "userdel"}
      PROVE  IInv'
  <2>1. Advance
    BY <1>1, <1>3 DEF Failed, Advance, work
  <2> QED
    BY <1>3, <2>1, AdvanceOK DEF Failed, After, BeforeAdd, BeforeMod
<1> QED
  BY <1>2, <1>3 DEF Fail, FailedAdd

(* An account is changed in mdsync_mod(): it keeps its uuid and group, and   *)
(* its timer is left alone, started for somebody who is not listed, or       *)
(* stopped.                                                                  *)
LEMMA ModStep ==
  ASSUME IInv, NEW n \in Members(db), NEW entry, Changed(n, entry), file' \in {file, db'},
         pc = "mod", UNCHANGED <<eds, today, done_on, input, begun_on, prog>>,
         UNCHANGED <<pc, homes, add_req, delete_now, complete>>,
         DOMAIN update_req' \subseteq DOMAIN update_req,
         \A m \in DOMAIN update_req' : update_req'[m] = update_req[m],
         defer_start' \subseteq defer_start, defer_stop' \subseteq defer_stop,
         \/ entry.vs_defer = db[n].vs_defer /\ UNCHANGED defer_stop
         \/ entry.vs_defer = today /\ n \in defer_start /\ UNCHANGED defer_stop
         \/ entry.vs_defer = 0 /\ defer_stop' = defer_stop \ {n}
  PROVE  IInv'
<1>1. AccountsOK'
  BY ChangedOK DEF IInv, AccountsOK
<1>2. db' \in Accounts /\ file' \in Accounts
  BY SameMembers DEF IInv, TypeOK
<1>3. TypeOK'
  BY <1>2 DEF IInv, TypeOK
<1>4. Members(db') = Members(db) /\ \A m \in Members(db) : db'[m].uuid = db[m].uuid
  BY SameMembers DEF IInv
<1>5. AddOK'
  BY DEF AddOK, BeforeAdd
<1>6. ModOK'
  <2>1. prog = "newuser" => DOMAIN update_req' = {} /\ defer_start' = {} /\ defer_stop' = {}
    BY DEF IInv, ModOK
  <2>2. DOMAIN update_req' \cup defer_start' \cup defer_stop' \subseteq Members(db)
    BY DEF IInv, ModOK, BeforeMod
  <2>3. \A m \in defer_start' : db[m].uuid # None => input[db[m].uuid] = None
    BY DEF IInv, ModOK, BeforeMod
  <2> QED
    BY <1>4, <2>1, <2>2, <2>3 DEF ModOK
<1>7. DelOK'
  BY <1>4 DEF IInv, DelOK
<1>8. StopOK'
  <2> SUFFICES ASSUME complete, NEW m \in Members(db), db[m].uuid # None, input[db[m].uuid] # None,
                      db'[m].vs_defer # 0
               PROVE  m \in defer_stop'
    BY <1>4 DEF StopOK, BeforeMod
  <2>1. m \in Name /\ db'[n] = entry /\ (m # n => db'[m] = db[m])
    BY SameMembers, MemberFacts DEF IInv
  <2>2. n \in defer_start => ~(db[n].uuid # None /\ input[db[n].uuid] # None)
    BY DEF IInv, ModOK, BeforeMod
  <2>3. db[m].vs_defer # 0 => m \in defer_stop
    BY DEF IInv, StopOK
  <2> QED
    BY <2>1, <2>2, <2>3
<1> QED
  BY <1>1, <1>3, <1>5, <1>6, <1>7, <1>8 DEF IInv, AccountsOK

LEMMA ModSteps ==
  ASSUME IInv, NEW n \in Name, Update(n) \/ DeferStart(n) \/ DeferStop(n)
  PROVE  IInv'
<1>1. CASE Update(n)
  <2> DEFINE entry == [db[n] EXCEPT !.pvgrp = update_req[n]]
  <2>1. pc = "mod" /\ n \in DOMAIN update_req
        /\ UNCHANGED <<eds, today, done_on, input, begun_on, prog>>
        /\ UNCHANGED <<pc, homes, add_req, delete_now, complete>>
        /\ UNCHANGED <<defer_start, defer_stop>>
        /\ update_req' = [m \in DOMAIN update_req \ {n} |-> update_req[m]]
    BY <1>1 DEF Update, world, history
  <2>2. n \in Members(db)
    BY <2>1 DEF IInv, ModOK, BeforeMod
  <2>3. Changed(n, entry) /\ entry.vs_defer = db[n].vs_defer
    BY <1>1, <2>1, <2>2, MemberFacts DEF Update, Store, Changed, Account, IInv, TypeOK
  <2>4. file' \in {file, db'}
    BY <1>1 DEF Update, Store
  <2> HIDE DEF entry
  <2> QED
    BY <2>1, <2>2, <2>3, <2>4, ModStep
<1>2. CASE DeferStart(n)
  <2> DEFINE entry == [db[n] EXCEPT !.vs_defer = today]
  <2>1. pc = "mod" /\ n \in defer_start
        /\ UNCHANGED <<eds, today, done_on, input, begun_on, prog>>
        /\ UNCHANGED <<pc, homes, add_req, delete_now, complete>>
        /\ UNCHANGED <<update_req, defer_stop>>
        /\ defer_start' = defer_start \ {n}
    BY <1>2 DEF DeferStart, world, history
  <2>2. n \in Members(db)
    BY <2>1 DEF IInv, ModOK, BeforeMod
  <2>3. Changed(n, entry) /\ entry.vs_defer = today
    BY <1>2, <2>1, <2>2, MemberFacts DEF DeferStart, Store, Changed, Account, IInv, TypeOK
  <2>4. file' \in {file, db'}
    BY <1>2 DEF DeferStart, Store
  <2> HIDE DEF entry
  <2> QED
    BY <2>1, <2>2, <2>3, <2>4, ModStep
<1>3. CASE DeferStop(n)
  <2> DEFINE entry == [db[n] EXCEPT !.vs_defer = 0]
  <2>1. pc = "mod" /\ n \in defer_stop
        /\ UNCHANGED <<eds, today, done_on, input, begun_on, prog>>
        /\ UNCHANGED <<pc, homes, add_req, delete_now, complete>>
        /\ UNCHANGED <<update_req, defer_start>>
        /\ defer_stop' = defer_stop \ {n}
    BY <1>3 DEF DeferStop, world, history
  <2>2. n \in Members(db)
    BY <2>1 DEF IInv, ModOK, BeforeMod
  <2>3. Changed(n, entry) /\ entry.vs_defer = 0
    BY <1>3, <2>1, <2>2, MemberFacts DEF DeferStop, Store, Changed, Account, IInv, TypeOK
  <2>4. file' \in {file, db'}
    BY <1>3 DEF DeferStop, Store
  <2> HIDE DEF entry
  <2> QED
    BY <2>1, <2>2, <2>3, <2>4, ModStep
<1> QED
  BY <1>1, <1>2, <1>3

LEMMA RrmdirStep == ASSUME IInv, NEW n \in Name, Rrmdir(n) PROVE IInv'
<1>1. /\ pc = "del" /\ n \in delete_now /\ pc' = "userdel" /\ cur' = n
      /\ homes' = homes \ {n} /\ delete_now' = delete_now \ {n}
      /\ UNCHANGED <<eds, today, done_on, input, begun_on, prog>>
      /\ UNCHANGED <<file, db, add_req, update_req, defer_start, defer_stop, complete>>
  BY DEF Rrmdir, world, history
<1>2. n \in Members(db)
  BY <1>1 DEF IInv, DelOK
<1>3. TypeOK' /\ UuidOnce' /\ TimersOf(db)' /\ TimersOf(file)'
  BY <1>1 DEF IInv, TypeOK, UuidOnce, TimersOf
<1>4. OutsidersUntouched'
  BY <1>1, <1>2, MemberFacts DEF IInv, OutsidersUntouched
<1>5. AddOK'
  BY <1>1 DEF IInv, AddOK, BeforeAdd
<1>6. ModOK'
  BY <1>1 DEF IInv, ModOK, BeforeMod, BeforeAdd
<1>7. DelOK'
  BY <1>1, <1>2 DEF IInv, DelOK
<1>8. StopOK'
  BY <1>1 DEF IInv, StopOK, BeforeMod, BeforeAdd
<1> QED
  BY <1>3, <1>4, <1>5, <1>6, <1>7, <1>8 DEF IInv

LEMMA UserdelStep == ASSUME IInv, Userdel PROVE IInv'
<1>1. /\ pc = "userdel" /\ pc' = "del"
      /\ UNCHANGED <<eds, today, done_on, input, begun_on, prog, homes, complete>>
      /\ UNCHANGED <<add_req, update_req, defer_start, defer_stop, delete_now>>
      /\ db' = [db EXCEPT ![cur] = None] /\ file' \in {file, db'}
  BY DEF Userdel, Store, world, history, work
<1>2. cur \in Members(db) /\ cur \notin delete_now
  BY <1>1 DEF IInv, DelOK
<1>3. db' \in Accounts /\ Members(db') = Members(db) \ {cur}
      /\ \A m \in Name \ {cur} : db'[m] = db[m]
  BY <1>1, <1>2, RemovedMembers DEF IInv
<1>4. \A m \in Members(db') : m \in Members(db) /\ db'[m] = db[m]
  BY <1>3, MemberFacts DEF IInv
<1>5. TypeOK'
  BY <1>1, <1>3 DEF IInv, TypeOK
<1>6. AccountsOK'
  BY <1>1, <1>2, RemovedOK DEF IInv, AccountsOK
<1>7. AddOK' /\ ModOK'
  BY <1>1 DEF IInv, AddOK, ModOK, BeforeMod, BeforeAdd
<1>8. DelOK'
  BY <1>1, <1>2, <1>3, <1>4 DEF IInv, DelOK
<1>9. StopOK'
  BY <1>1, <1>4 DEF IInv, StopOK, BeforeMod, BeforeAdd
<1> QED
  BY <1>5, <1>6, <1>7, <1>8, <1>9 DEF IInv, AccountsOK

-----------------------------------------------------------------------------
(* The specification *)

LEMMA InitInv == Init => IInv
<1> SUFFICES ASSUME Init PROVE IInv
  OBVIOUS
<1>1. TypeOK
  <2>1. Nobody \in List
    BY DEF Nobody, List
  <2>2. DOMAIN Nothing = {} /\ Nothing = [u \in DOMAIN Nothing |-> Nothing[u]]
    BY DEF Nothing
  <2> QED
    BY <2>1, <2>2, MdSyncAssumption DEF Init, TypeOK
<1>2. UuidOnce /\ OutsidersUntouched
  BY MdSyncAssumption DEF Init, UuidOnce, OutsidersUntouched
<1>3. TimersOf(db) /\ TimersOf(file)
  <2> SUFFICES ASSUME NEW n \in Members(db), db[n].uuid # None, db[n].vs_defer # 0
               PROVE  done_on[db[n].uuid] <= db[n].vs_defer
    BY DEF Init, TimersOf
  <2>1. db[n].uuid \in Uuid /\ db[n].vs_defer \in Nat
    BY <1>1, MemberFacts DEF Account
  <2> QED
    BY <2>1 DEF Init
<1>4. AddOK /\ ModOK /\ DelOK /\ StopOK
  BY DEF Init, Nothing, AddOK, ModOK, DelOK, StopOK, BeforeMod, BeforeAdd
<1> QED
  BY <1>1, <1>2, <1>3, <1>4 DEF IInv

LEMMA StepInv == IInv /\ [Next]_vars => IInv'
<1> SUFFICES ASSUME IInv, [Next]_vars PROVE IInv'
  OBVIOUS
<1>1. ASSUME NEW program \in Programs, BeginSync(program) PROVE IInv'
  BY <1>1, BeginStep DEF BeginSync, IInv, TypeOK
<1>2. ASSUME NEW u \in Uuid, NEW g \in Pvgrp, BeginSingle(u, g) PROVE IInv'
  <2> DEFINE list == [Nobody EXCEPT ![u] = g]
  <2>1. list \in List
    BY DEF Nobody, List
  <2>2. \A n \in Members(file) : file[n].uuid = None \/ list[file[n].uuid] = None
    <3> SUFFICES ASSUME NEW n \in Members(file), file[n].uuid # None PROVE list[file[n].uuid] = None
      OBVIOUS
    <3>1. file[n].uuid # u
      BY <1>2 DEF BeginSingle, careful
    <3>2. file[n].uuid \in Uuid
      BY DEF IInv, TypeOK, Accounts, Account, Members, Used
    <3> QED
      BY <3>1, <3>2 DEF Nobody
  <2>3. Begin("newuser", list)
    BY <1>2 DEF BeginSingle
  <2> HIDE DEF list
  <2> QED
    BY <2>1, <2>2, <2>3, BeginStep
<1>3. CASE UNCHANGED vars
  BY <1>3 DEF vars, world, work, history, IInv, TypeOK, UuidOnce, OutsidersUntouched,
              AddOK, ModOK, DelOK, StopOK, TimersOf
<1> QED
  BY <1>1, <1>2, <1>3, OutsideStep, CompareStep, CompareSimpleStep, FixupStep, CourseStep, FailStep,
     UseraddStep, ModSteps, RrmdirStep, UserdelStep, CloseStep, CrashStep
  DEF Next

LEMMA InvHolds == Spec => []IInv
  BY InitInv, StepInv, PTL DEF Spec

(* However often runs of the three programs fail, are left half-way or are   *)
(* killed, and are repeated, nobody has two accounts in the group.           *)
THEOREM OneAccountEach == Spec => []UuidOnce
<1>1. IInv => UuidOnce
  BY DEF IInv
<1> QED
  BY <1>1, InvHolds, PTL

(* Accounts that are not of the group stay as they were, and so do their     *)
(* home directories.                                                         *)
THEOREM OutsidersSafe == Spec => []OutsidersUntouched
<1>1. IInv => OutsidersUntouched
  BY DEF IInv
<1> QED
  BY <1>1, InvHolds, PTL

(* No home directory is removed, nor the account after it, before Defer days *)
(* have passed since the last completed run that found the person listed.    *)
THEOREM NotTooSoon == Spec => KeptSinceDone
<1>1. IInv => [\A n \in Name : Rrmdir(n) /\ db[n].uuid # None =>
                 today >= done_on[db[n].uuid] + Defer]_vars
  <2> SUFFICES ASSUME IInv, NEW n \in Name, Rrmdir(n), db[n].uuid # None
               PROVE  today >= done_on[db[n].uuid] + Defer
    OBVIOUS
  <2>1. n \in delete_now
    BY DEF Rrmdir
  <2>2. n \in Members(db) /\ done_on[db[n].uuid] + Defer <= today
    BY <2>1 DEF IInv, DelOK
  <2>3. db[n].uuid \in Uuid
    BY <2>2, MemberFacts DEF IInv, Account
  <2> QED
    BY <2>2, <2>3, MdSyncAssumption DEF IInv, TypeOK
<1> QED
  BY <1>1, InvHolds, PTL DEF KeptSinceDone

-----------------------------------------------------------------------------
(* Complete runs: everything that is to be done for an account or a person   *)
(* of the list is either done or still in one of the lists of the run.       *)

Wanted(n) == db[n].uuid # None /\ input[db[n].uuid] # None

\* A timer that had not expired on the day of the comparison
Timed(n) == Defer # 0 /\ db[n].vs_defer # 0 /\ begun_on < db[n].vs_defer + Defer

Cared(n) ==
  \/ n \in delete_now
  \/ pc = "userdel" /\ cur = n
  \/ pc \in BeforeMod /\ n \in defer_start
  \/ Timed(n)

\* Nobody is on a wrong list.
ListsOK ==
  /\ 1 <= today /\ begun_on <= today /\ (pc = "compare" => begun_on = today)
  /\ \A u \in DOMAIN add_req : input[u] # None
  /\ \A n \in delete_now : ~Wanted(n)
  /\ pc = "userdel" => ~Wanted(cur)
  /\ pc \in BeforeMod => \A n \in defer_stop : Wanted(n)
  /\ defer_start # {} => Defer # 0

\* Nobody is forgotten.
PartsOK ==
  complete /\ pc \notin {"idle", "compare"} =>
    /\ pc \notin BeforeAdd => DOMAIN add_req = {}
    /\ pc = "close" /\ prog # "newuser" => delete_now = {}
    /\ \A u \in Uuid : input[u] # None =>
         u \in DOMAIN add_req \/ \E n \in Members(db) : db[n].uuid = u
    /\ prog # "newuser" => \A n \in Members(db) : Wanted(n) \/ Cared(n)

SyncInv == ListsOK /\ PartsOK

(* The members that there are after a step on the accounts were there before *)
(* with the same uuid, and the run's lists have at most become shorter.      *)
LEMMA ListsKept ==
  ASSUME IInv, ListsOK, UNCHANGED <<today, input, begun_on>>,
         DOMAIN add_req' \subseteq DOMAIN add_req,
         delete_now' \subseteq delete_now, defer_start' \subseteq defer_start,
         defer_stop' \subseteq defer_stop,
         \A n \in delete_now' \cup (IF pc' \in BeforeMod THEN defer_stop' ELSE {}) : db'[n].uuid = db[n].uuid,
         pc' # "compare", pc' \in BeforeMod => pc \in BeforeMod,
         pc' # "userdel"
  PROVE  ListsOK'
<1>1. \A n \in delete_now' : ~Wanted(n)'
  BY DEF ListsOK, Wanted
<1>2. pc' \in BeforeMod => \A n \in defer_stop' : Wanted(n)'
  BY DEF ListsOK, Wanted
<1>3. /\ 1 <= today' /\ begun_on' <= today'
      /\ \A u \in DOMAIN add_req' : input'[u] # None
      /\ defer_start' # {} => Defer # 0
  BY DEF ListsOK
<1> QED
  BY <1>1, <1>2, <1>3 DEF ListsOK

(* The run goes on to another part: what it leaves behind is done. *)
LEMMA AdvanceSync ==
  ASSUME IInv, SyncInv, Advance,
         pc \notin {"idle", "compare"}, pc' \notin {"idle", "compare", "userdel"},
         pc' \in BeforeMod => pc \in BeforeMod,
         complete' =>
           /\ complete /\ pc # "userdel"
           /\ pc' \notin BeforeAdd => pc \notin BeforeAdd \/ DOMAIN add_req = {}
           /\ defer_start = {} \/ (pc \in BeforeMod => pc' \in BeforeMod)
           /\ pc' = "close" /\ prog # "newuser" => delete_now = {}
  PROVE  SyncInv'
<1>1. ListsOK'
  BY ListsKept DEF SyncInv, Advance
<1>2. PartsOK'
  <2> SUFFICES ASSUME complete'
               PROVE  /\ pc' \notin BeforeAdd => DOMAIN add_req = {}
                      /\ pc' = "close" /\ prog # "newuser" => delete_now = {}
                      /\ \A u \in Uuid : input[u] # None =>
                           u \in DOMAIN add_req \/ \E n \in Members(db) : db[n].uuid = u
                      /\ prog # "newuser" => \A n \in Members(db) : Wanted(n) \/ Cared(n)'
    BY DEF PartsOK, Advance, Wanted
  <2>1. complete /\ pc # "userdel"
    OBVIOUS
  <2>2. pc' \notin BeforeAdd => DOMAIN add_req = {}
    BY <2>1 DEF SyncInv, PartsOK
  <2>3. \A u \in Uuid : input[u] # None =>
          u \in DOMAIN add_req \/ \E n \in Members(db) : db[n].uuid = u
    BY <2>1 DEF SyncInv, PartsOK
  <2>4. ASSUME prog # "newuser", NEW n \in Members(db) PROVE Wanted(n) \/ Cared(n)'
    <3>1. Wanted(n) \/ Cared(n)
      BY <2>1, <2>4 DEF SyncInv, PartsOK
    <3> QED
      BY <2>1, <3>1 DEF Cared, Timed, Advance
  <2> QED
    BY <2>2, <2>3, <2>4
<1> QED
  BY <1>1, <1>2 DEF SyncInv

\* When the process ends its lists are empty.
LEMMA ExitSync ==
  ASSUME IInv, ListsOK, Exit, UNCHANGED today PROVE SyncInv'
<1>1. pc' = "idle" /\ ~complete' /\ begun_on' = 0
  BY DEF Exit
<1>2. DOMAIN add_req' = {} /\ defer_start' = {} /\ defer_stop' = {} /\ delete_now' = {}
  BY DEF Exit, mdsync_free, Nothing
<1>3. today \in Nat
  BY DEF IInv, TypeOK
<1> QED
  BY <1>1, <1>2, <1>3 DEF SyncInv, ListsOK, PartsOK, BeforeMod, BeforeAdd

LEMMA OutsideSync ==
  ASSUME IInv, SyncInv,
         (\E u \in Uuid, g \in Pvgrp \cup {None} : EdsChange(u, g)) \/ NewDay
  PROVE  SyncInv'
<1>1. today' \in {today, today + 1} /\ (pc = "compare" => UNCHANGED today)
      /\ UNCHANGED <<db, prog, pc, add_req, defer_start, defer_stop, delete_now, cur, complete>>
      /\ UNCHANGED <<input, begun_on>>
  BY DEF EdsChange, NewDay, work, history
<1>2. ListsOK'
  <2>1. \A n : Wanted(n)' = Wanted(n)
    BY <1>1 DEF Wanted
  <2>2. 1 <= today' /\ begun_on' <= today' /\ (pc' = "compare" => begun_on' = today')
    BY <1>1 DEF SyncInv, ListsOK, IInv, TypeOK
  <2> QED
    BY <1>1, <2>1, <2>2 DEF SyncInv, ListsOK
<1>3. PartsOK'
  <2>1. \A n : Wanted(n)' = Wanted(n) /\ Cared(n)' = Cared(n)
    BY <1>1 DEF Wanted, Cared, Timed
  <2> QED
    BY <1>1, <2>1 DEF SyncInv, PartsOK
<1> QED
  BY <1>2, <1>3 DEF SyncInv

LEMMA BeginRunSync ==
  ASSUME IInv, SyncInv, NEW program, NEW list, Begin(program, list)
  PROVE  SyncInv'
<1>1. /\ pc = "idle" /\ pc' = "compare" /\ begun_on' = today /\ today' = today /\ input' = list
      /\ UNCHANGED <<defer_start, defer_stop, delete_now>>
      /\ DOMAIN add_req' = {u \in Uuid : list[u] # None}
  BY DEF Begin, world
<1>2. defer_start = {} /\ delete_now = {} /\ today \in Nat
  BY <1>1 DEF IInv, ModOK, DelOK, TypeOK
<1>3. ListsOK'
  BY <1>1, <1>2 DEF SyncInv, ListsOK, BeforeMod, BeforeAdd
<1>4. PartsOK'
  BY <1>1 DEF PartsOK
<1> QED
  BY <1>3, <1>4 DEF SyncInv

LEMMA CompareSync == ASSUME IInv, SyncInv, mdsync_compare PROVE SyncInv'
<1> DEFINE found   == {n \in Analyzed(db) : Listed(n)}
           missing == Analyzed(db) \ found
<1>1. Analyzed(db) = Members(db)
  BY DEF Analyzed
<1>2. /\ add_req' = [u \in DOMAIN add_req \ {db[n].uuid : n \in found} |-> add_req[u]]
      /\ defer_stop' = {n \in found : db[n].vs_defer # 0}
      /\ defer_start' = {n \in missing : Defer # 0 /\ db[n].vs_defer = 0}
      /\ delete_now' = {n \in missing : Defer = 0 \/ (db[n].vs_defer # 0 /\ Expired(n))}
  BY DEF mdsync_compare
<1>3. /\ prog # "newuser" /\ pc = "compare" /\ pc' = "fixup"
      /\ UNCHANGED <<today, db, prog, complete, begun_on, input>>
  BY DEF mdsync_compare, world, history
<1>4. DOMAIN add_req = {u \in Uuid : input[u] # None} /\ None \notin Uuid
  BY <1>3, MdSyncAssumption DEF IInv, AddOK
<1>5. \A n \in found : n \in Members(db) /\ db[n].uuid \in DOMAIN add_req
  BY <1>1 DEF Listed
<1>6. \A n \in missing : n \in Members(db) /\ db[n].uuid \notin DOMAIN add_req
  BY <1>1 DEF Listed
<1>7. \A n \in Members(db) : n \in found \/ n \in missing
  BY <1>1
<1>8. \A n \in found : Wanted(n)
  BY <1>4, <1>5 DEF Wanted
<1>9. \A n \in missing : ~Wanted(n)
  <2> SUFFICES ASSUME NEW n \in missing, db[n].uuid # None PROVE input[db[n].uuid] = None
    BY DEF Wanted
  <2> HIDE DEF missing, found
  <2>1. db[n].uuid \in Uuid
    BY <1>6, MemberFacts DEF IInv, Account
  <2> QED
    BY <1>4, <1>6, <2>1
<1> HIDE DEF found, missing
<1>10. \A n : Wanted(n)' = Wanted(n)
  BY <1>3 DEF Wanted
<1>11. ListsOK'
  <2>1. \A u \in DOMAIN add_req' : input[u] # None
    BY <1>2, <1>4
  <2>2. \A n \in delete_now' : ~Wanted(n)
    BY <1>2, <1>9
  <2>3. \A n \in defer_stop' : Wanted(n)
    BY <1>2, <1>8
  <2>4. defer_start' # {} => Defer # 0
    BY <1>2
  <2> QED
    BY <1>3, <1>10, <2>1, <2>2, <2>3, <2>4 DEF SyncInv, ListsOK
<1>12. PartsOK'
  <2>1. \A u \in Uuid : input[u] # None =>
          u \in DOMAIN add_req' \/ \E n \in Members(db) : db[n].uuid = u
    BY <1>2, <1>4, <1>5
  <2>2. ASSUME NEW n \in Members(db), ~Wanted(n) PROVE Cared(n)'
    <3>1. n \in missing
      BY <1>7, <1>8, <2>2
    <3>2. CASE n \in delete_now' \/ n \in defer_start'
      BY <1>3, <3>2 DEF Cared, BeforeMod, BeforeAdd
    <3>3. CASE n \notin delete_now' /\ n \notin defer_start'
      <4>1. Defer # 0 /\ db[n].vs_defer # 0 /\ ~Expired(n)
        BY <1>2, <3>1, <3>3
      <4>2. db[n].vs_defer \in Nat /\ today \in Nat /\ Defer \in Nat /\ begun_on = today
        BY <1>3, MemberFacts, MdSyncAssumption DEF IInv, Account, TypeOK, SyncInv, ListsOK
      <4>3. begun_on < db[n].vs_defer + Defer
        BY <4>1, <4>2 DEF Expired
      <4> QED
        BY <1>3, <4>1, <4>3 DEF Cared, Timed
    <3> QED
      BY <3>2, <3>3
  <2> QED
    BY <1>3, <1>10, <2>1, <2>2 DEF PartsOK, BeforeAdd
<1> QED
  BY <1>11, <1>12 DEF SyncInv

LEMMA CompareSimpleSync == ASSUME IInv, SyncInv, mdsync_compare_simple PROVE SyncInv'
<1>1. /\ prog = "newuser" /\ pc = "compare" /\ pc' = "fixup"
      /\ UNCHANGED <<today, db, prog, complete, begun_on, input>>
      /\ UNCHANGED <<add_req, defer_start, defer_stop, delete_now>>
  BY DEF mdsync_compare_simple, world, history
<1>2. DOMAIN add_req = {u \in Uuid : input[u] # None} /\ defer_stop = {} /\ delete_now = {}
  BY <1>1 DEF IInv, AddOK, ModOK, DelOK
<1>3. ListsOK'
  BY <1>1, <1>2 DEF SyncInv, ListsOK
<1>4. PartsOK'
  BY <1>1, <1>2 DEF PartsOK, BeforeAdd
<1> QED
  BY <1>3, <1>4 DEF SyncInv

LEMMA FixupSync == ASSUME IInv, SyncInv, mdsync_fixup PROVE SyncInv'
<1>1. /\ pc = "fixup" /\ pc' \in {"add", "ask_add", "continue"}
      /\ UNCHANGED <<today, db, prog, cur, complete, begun_on, input>>
      /\ UNCHANGED <<defer_start, defer_stop, delete_now>> /\ DOMAIN add_req' = DOMAIN add_req
  BY DEF mdsync_fixup, world, history
<1>2. ListsOK'
  BY <1>1, ListsKept DEF SyncInv, BeforeMod, BeforeAdd
<1>3. PartsOK'
  <2>1. \A n : Wanted(n)' = Wanted(n) /\ (Cared(n) => Cared(n)')
    BY <1>1 DEF Wanted, Cared, Timed, BeforeMod, BeforeAdd
  <2> QED
    BY <1>1, <2>1 DEF SyncInv, PartsOK, BeforeAdd
<1> QED
  BY <1>2, <1>3 DEF SyncInv

LEMMA CourseSync ==
  ASSUME IInv, SyncInv,
         Continue \/ (\E part \in DOMAIN Ask : sync_part(part)) \/ UseraddFlush \/ create_home
         \/ AddEnd \/ ModEnd \/ DelEnd
  PROVE  SyncInv'
<1>1. CASE Continue
  <2>1. Advance
    BY <1>1 DEF Continue, Advance, world, work, history
  <2> QED
    BY <1>1, <2>1, AdvanceSync DEF Continue, BeforeAdd, BeforeMod
<1>2. ASSUME NEW part \in DOMAIN Ask, sync_part(part) PROVE SyncInv'
  <2>1. Advance
    BY <1>2 DEF sync_part, Advance, world, work, history
  <2>2. CASE part = "add"
    <3>1. prog = "newuser" => defer_start = {}
      BY DEF IInv, ModOK
    <3>2. Items("add") = {} => DOMAIN add_req = {}
      BY DEF Items
    <3> QED
      BY <1>2, <2>1, <2>2, <3>1, <3>2, AdvanceSync DEF sync_part, Ask, After, BeforeAdd, BeforeMod
  <2>3. CASE part = "mod"
    <3>1. Items("mod") = {} => defer_start = {}
      BY DEF Items
    <3> QED
      BY <1>2, <2>1, <2>3, <3>1, AdvanceSync DEF sync_part, Ask, After, BeforeAdd, BeforeMod
  <2>4. CASE part = "del"
    <3>1. Items("del") = {} => delete_now = {}
      BY DEF Items
    <3> QED
      BY <1>2, <2>1, <2>4, <3>1, AdvanceSync DEF sync_part, Ask, After, BeforeAdd, BeforeMod
  <2> QED
    BY <2>2, <2>3, <2>4 DEF Ask
<1>3. CASE UseraddFlush
  <2>1. Advance
    BY <1>3 DEF UseraddFlush, Advance, world, work, history
  <2> QED
    BY <1>3, <2>1, AdvanceSync DEF UseraddFlush, BeforeAdd, BeforeMod
<1>4. CASE create_home
  <2>1. Advance
    BY <1>4 DEF create_home, Advance, world, work, history
  <2> QED
    BY <1>4, <2>1, AdvanceSync DEF create_home, BeforeAdd, BeforeMod
<1>5. CASE AddEnd
  <2>1. Advance
    BY <1>5 DEF AddEnd, Advance, world, work, history
  <2>2. prog = "newuser" => defer_start = {}
    BY DEF IInv, ModOK
  <2> QED
    BY <1>5, <2>1, <2>2, AdvanceSync DEF AddEnd, After, BeforeAdd, BeforeMod
<1>6. CASE ModEnd
  <2>1. Advance
    BY <1>6 DEF ModEnd, Advance, world, work, history
  <2> QED
    BY <1>6, <2>1, AdvanceSync DEF ModEnd, After, BeforeAdd, BeforeMod
<1>7. CASE DelEnd
  <2>1. Advance
    BY <1>7 DEF DelEnd, Advance, world, work, history
  <2> QED
    BY <1>7, <2>1, AdvanceSync DEF DelEnd, After, BeforeAdd, BeforeMod
<1> QED
  BY <1>1, <1>2, <1>3, <1>4, <1>5, <1>6, <1>7

(* Useradd() takes the person off the list and makes the account. *)
LEMMA UseraddSync == ASSUME IInv, SyncInv, NEW u \in Uuid, Useradd(u) PROVE SyncInv'
<1> DEFINE n == add_req[u].username
           entry == NewAccount(u)
<1>1. u \in DOMAIN add_req /\ pc = "add" /\ UNCHANGED today
  BY DEF Useradd, world
<1>2. CASE Exit
  BY <1>1, <1>2, ExitSync DEF SyncInv
<1>3. n \in Name /\ db[n] = None /\ db' = [db EXCEPT ![n] = entry] /\ entry.uuid = u
  BY DEF Useradd, Store, NewAccount, Used
<1>4. entry \in Account /\ entry.grp
  BY <1>1, MdSyncAssumption DEF NewAccount, Account, IInv, TypeOK, Request
<1>5. CASE Failed("add")
  <2>1. /\ pc' \in {"close", "ask_mod"} /\ ~complete' /\ UNCHANGED <<input, begun_on>>
        /\ UNCHANGED <<add_req, defer_start, defer_stop, delete_now>>
    BY <1>5 DEF Failed, After, work
  <2>2. \A m \in Members(db) : db'[m] = db[m]
    BY <1>3, MemberFacts DEF IInv, TypeOK, Accounts
  <2>3. delete_now \subseteq Members(db) /\ defer_stop \subseteq Members(db)
    BY <1>1 DEF IInv, DelOK, ModOK, BeforeMod, BeforeAdd
  <2>4. ListsOK'
    BY <1>1, <2>1, <2>2, <2>3, ListsKept DEF SyncInv, BeforeMod, BeforeAdd
  <2>5. PartsOK'
    BY <2>1 DEF PartsOK
  <2> QED
    BY <2>4, <2>5 DEF SyncInv
<1>6. CASE /\ pc' \in {"flush", "home"} /\ UNCHANGED <<prog, update_req, defer_start, defer_stop, delete_now>>
           /\ add_req' = [v \in DOMAIN add_req \ {u} |-> add_req[v]]
           /\ UNCHANGED <<complete, input, begun_on>>
  <2>1. \A m \in Members(db) : m \in Members(db') /\ db'[m] = db[m]
    BY <1>3, MemberFacts DEF IInv, TypeOK, Accounts, Members, Used
  <2>2. \A m \in Members(db') : m \in Members(db) \/ db'[m].uuid = u
    BY <1>3 DEF IInv, TypeOK, Accounts, Members, Used
  <2>3. delete_now \subseteq Members(db) /\ defer_stop \subseteq Members(db)
    BY <1>1 DEF IInv, DelOK, ModOK, BeforeMod, BeforeAdd
  <2>4. ListsOK'
    BY <1>1, <1>6, <2>1, <2>3, ListsKept DEF SyncInv, BeforeMod, BeforeAdd
  <2>5. PartsOK'
    <3>1. \A v \in Uuid : complete /\ input[v] # None =>
            v \in DOMAIN add_req' \/ \E m \in Members(db') : db'[m].uuid = v
      <4> SUFFICES ASSUME complete, NEW v \in Uuid, input[v] # None, v \notin DOMAIN add_req'
                   PROVE  \E m \in Members(db') : db'[m].uuid = v
        OBVIOUS
      <4>1. CASE v = u
        <5>1. db'[n] = entry /\ entry # None
          BY <1>3, <1>4, MdSyncAssumption DEF IInv, TypeOK, Accounts
        <5> HIDE DEF n, entry
        <5>2. n \in Members(db')
          BY <1>3, <1>4, <5>1 DEF Members, Used
        <5> QED
          BY <1>3, <4>1, <5>1, <5>2
      <4>2. CASE v # u
        <5>1. v \notin DOMAIN add_req
          BY <1>6, <4>2
        <5>2. PICK m \in Members(db) : db[m].uuid = v
          BY <1>1, <5>1 DEF SyncInv, PartsOK
        <5> QED
          BY <2>1, <5>2
      <4> QED
        BY <4>1, <4>2
    <3>2. ASSUME complete, prog # "newuser", NEW m \in Members(db') PROVE Wanted(m)' \/ Cared(m)'
      <4>1. CASE m \in Members(db)
        <5>1. Wanted(m) \/ Cared(m)
          BY <1>1, <3>2, <4>1 DEF SyncInv, PartsOK
        <5> QED
          BY <1>1, <1>6, <2>1, <4>1, <5>1 DEF Wanted, Cared, Timed, BeforeMod, BeforeAdd
      <4>2. CASE db'[m].uuid = u
        <5>1. input[u] # None /\ u # None
          BY <1>1, MdSyncAssumption DEF SyncInv, ListsOK
        <5> QED
          BY <1>6, <4>2, <5>1 DEF Wanted
      <4> QED
        BY <2>2, <4>1, <4>2
    <3> QED
      BY <1>6, <3>1, <3>2 DEF PartsOK, BeforeAdd
  <2> QED
    BY <2>4, <2>5 DEF SyncInv
<1> QED
  BY <1>2, <1>5, <1>6 DEF Useradd, FailedAdd

LEMMA FailSync == ASSUME IInv, SyncInv, Fail PROVE SyncInv'
<1>1. UNCHANGED <<today, db, homes, eds, done_on>> /\ file' \in {file, db}
  BY DEF Fail, world
<1>2. CASE Exit
  BY <1>1, <1>2, ExitSync DEF SyncInv
<1>3. ASSUME NEW part \in {"add", "mod", "del"}, Failed(part),
             part = "add" => pc = "add", part = "mod" => pc = "mod", part = "del" => pc \in {"del", "userdel"}
      PROVE  SyncInv'
  <2>1. Advance
    BY <1>1, <1>3 DEF Failed, Advance, work
  <2> QED
    BY <1>3, <2>1, AdvanceSync DEF Failed, After, BeforeAdd, BeforeMod
<1> QED
  BY <1>2, <1>3 DEF Fail, FailedAdd

LEMMA ModStepSync ==
  ASSUME IInv, SyncInv, NEW n \in Members(db), NEW entry, Changed(n, entry),
         pc = "mod", UNCHANGED <<today, input, begun_on, prog>>,
         UNCHANGED <<pc, add_req, delete_now, complete>>,
         defer_start' \subseteq defer_start, defer_stop' \subseteq defer_stop,
         \/ entry.vs_defer = db[n].vs_defer /\ UNCHANGED defer_start
         \/ entry.vs_defer = today /\ n \in defer_start /\ defer_start' = defer_start \ {n}
         \/ n \in defer_stop /\ UNCHANGED defer_start
  PROVE  SyncInv'
<1>1. Members(db') = Members(db) /\ \A m \in Members(db) : db'[m].uuid = db[m].uuid
  BY SameMembers DEF IInv
<1>2. db'[n] = entry /\ \A m \in Members(db) : m # n => db'[m] = db[m]
  BY SameMembers, MemberFacts DEF IInv
<1>3. delete_now \subseteq Members(db) /\ defer_stop \subseteq Members(db)
  BY DEF IInv, DelOK, ModOK, BeforeMod
<1>4. ListsOK'
  BY <1>1, <1>3, ListsKept DEF SyncInv, BeforeMod
<1>5. PartsOK'
  <2> SUFFICES ASSUME complete
               PROVE  /\ DOMAIN add_req = {}
                      /\ \A u \in Uuid : input[u] # None =>
                           u \in DOMAIN add_req \/ \E m \in Members(db') : db'[m].uuid = u
                      /\ prog # "newuser" => \A m \in Members(db') : Wanted(m)' \/ Cared(m)'
    BY DEF PartsOK, BeforeMod
  <2>1. DOMAIN add_req = {}
    BY DEF SyncInv, PartsOK, BeforeAdd
  <2>2. ASSUME NEW u \in Uuid, input[u] # None
        PROVE  u \in DOMAIN add_req \/ \E m \in Members(db') : db'[m].uuid = u
    <3>1. PICK m \in Members(db) : db[m].uuid = u
      BY <2>1, <2>2 DEF SyncInv, PartsOK
    <3> QED
      BY <1>1, <3>1
  <2>3. ASSUME prog # "newuser", NEW m \in Members(db') PROVE Wanted(m)' \/ Cared(m)'
    <3>1. m \in Members(db) /\ (Wanted(m) \/ Cared(m))
      BY <1>1, <2>3 DEF SyncInv, PartsOK
    <3>2. Wanted(m) => Wanted(m)'
      BY <1>1, <3>1 DEF Wanted
    <3>3. CASE m # n
      BY <1>2, <3>1, <3>2, <3>3 DEF Cared, Timed
    <3>4. CASE m = n /\ entry.vs_defer = db[n].vs_defer /\ UNCHANGED defer_start
      BY <1>2, <3>1, <3>2, <3>4 DEF Cared, Timed
    <3>5. CASE m = n /\ entry.vs_defer = today /\ n \in defer_start
      <4>1. Defer # 0 /\ Defer \in Nat /\ today \in Nat /\ begun_on \in Nat /\ 1 <= today /\ begun_on <= today
        BY <3>5, MdSyncAssumption DEF SyncInv, ListsOK, IInv, TypeOK
      <4>2. today # 0 /\ begun_on < today + Defer
        BY <4>1
      <4> QED
        BY <1>2, <3>5, <4>1, <4>2 DEF Cared, Timed
    <3>6. CASE m = n /\ n \in defer_stop
      <4>1. Wanted(m)
        BY <3>6 DEF SyncInv, ListsOK, BeforeMod
      <4> QED
        BY <3>2, <4>1
    <3> QED
      BY <3>3, <3>4, <3>5, <3>6
  <2> QED
    BY <2>1, <2>2, <2>3
<1> QED
  BY <1>4, <1>5 DEF SyncInv

LEMMA ModSync ==
  ASSUME IInv, SyncInv, NEW n \in Name, Update(n) \/ DeferStart(n) \/ DeferStop(n)
  PROVE  SyncInv'
<1>1. CASE Update(n)
  <2> DEFINE entry == [db[n] EXCEPT !.pvgrp = update_req[n]]
  <2>1. pc = "mod" /\ n \in DOMAIN update_req
        /\ UNCHANGED <<today, input, begun_on, prog>>
        /\ UNCHANGED <<pc, add_req, delete_now, complete>>
        /\ UNCHANGED <<defer_start, defer_stop>>
    BY <1>1 DEF Update, world, history
  <2>2. n \in Members(db)
    BY <2>1 DEF IInv, ModOK, BeforeMod
  <2>3. Changed(n, entry) /\ entry.vs_defer = db[n].vs_defer
    BY <1>1, <2>1, <2>2, MemberFacts DEF Update, Store, Changed, Account, IInv, TypeOK
  <2> HIDE DEF entry
  <2> QED
    BY <2>1, <2>2, <2>3, ModStepSync
<1>2. CASE DeferStart(n)
  <2> DEFINE entry == [db[n] EXCEPT !.vs_defer = today]
  <2>1. pc = "mod" /\ n \in defer_start
        /\ UNCHANGED <<today, input, begun_on, prog>>
        /\ UNCHANGED <<pc, add_req, delete_now, complete>>
        /\ UNCHANGED defer_stop
        /\ defer_start' = defer_start \ {n}
    BY <1>2 DEF DeferStart, world, history
  <2>2. n \in Members(db)
    BY <2>1 DEF IInv, ModOK, BeforeMod
  <2>3. Changed(n, entry) /\ entry.vs_defer = today
    BY <1>2, <2>1, <2>2, MemberFacts DEF DeferStart, Store, Changed, Account, IInv, TypeOK
  <2> HIDE DEF entry
  <2> QED
    BY <2>1, <2>2, <2>3, ModStepSync
<1>3. CASE DeferStop(n)
  <2> DEFINE entry == [db[n] EXCEPT !.vs_defer = 0]
  <2>1. pc = "mod" /\ n \in defer_stop
        /\ UNCHANGED <<today, input, begun_on, prog>>
        /\ UNCHANGED <<pc, add_req, delete_now, complete>>
        /\ UNCHANGED defer_start
        /\ defer_stop' = defer_stop \ {n}
    BY <1>3 DEF DeferStop, world, history
  <2>2. n \in Members(db)
    BY <2>1 DEF IInv, ModOK, BeforeMod
  <2>3. Changed(n, entry)
    BY <1>3, <2>1, <2>2, MemberFacts DEF DeferStop, Store, Changed, Account, IInv, TypeOK
  <2> HIDE DEF entry
  <2> QED
    BY <2>1, <2>2, <2>3, ModStepSync
<1> QED
  BY <1>1, <1>2, <1>3

LEMMA RrmdirSync == ASSUME IInv, SyncInv, NEW n \in Name, Rrmdir(n) PROVE SyncInv'
<1>1. /\ pc = "del" /\ n \in delete_now /\ pc' = "userdel" /\ cur' = n
      /\ delete_now' = delete_now \ {n}
      /\ UNCHANGED <<today, input, begun_on, prog>>
      /\ UNCHANGED <<db, add_req, defer_start, defer_stop, complete>>
  BY DEF Rrmdir, world, history
<1>2. \A m : Wanted(m)' = Wanted(m) /\ (Cared(m) => Cared(m)')
  BY <1>1 DEF Wanted, Cared, Timed, BeforeMod, BeforeAdd
<1>3. ListsOK'
  BY <1>1, <1>2 DEF SyncInv, ListsOK, BeforeMod, BeforeAdd
<1>4. PartsOK'
  BY <1>1, <1>2 DEF SyncInv, PartsOK, BeforeAdd
<1> QED
  BY <1>3, <1>4 DEF SyncInv

LEMMA UserdelSync == ASSUME IInv, SyncInv, Userdel PROVE SyncInv'
<1>1. /\ pc = "userdel" /\ pc' = "del"
      /\ UNCHANGED <<today, input, begun_on, prog, complete>>
      /\ UNCHANGED <<add_req, defer_start, defer_stop, delete_now>>
      /\ db' = [db EXCEPT ![cur] = None]
  BY DEF Userdel, Store, world, history, work
<1>2. cur \in Members(db) /\ cur \notin delete_now /\ delete_now \subseteq Members(db)
  BY <1>1 DEF IInv, DelOK
<1>3. Members(db') = Members(db) \ {cur} /\ \A m \in Members(db') : db'[m] = db[m]
  BY <1>1, <1>2, RemovedMembers, MemberFacts DEF IInv
<1>4. ListsOK'
  BY <1>1, <1>2, <1>3, ListsKept DEF SyncInv, BeforeMod, BeforeAdd
<1>5. PartsOK'
  <2>1. ASSUME complete, NEW u \in Uuid, input[u] # None, u \notin DOMAIN add_req
        PROVE  \E m \in Members(db') : db'[m].uuid = u
    <3>1. PICK m \in Members(db) : db[m].uuid = u
      BY <1>1, <2>1 DEF SyncInv, PartsOK
    <3>2. u # None
      BY MdSyncAssumption
    <3>3. Wanted(m) /\ ~Wanted(cur)
      BY <1>1, <2>1, <3>1, <3>2 DEF SyncInv, ListsOK, Wanted
    <3>4. m # cur
      BY <3>3
    <3> QED
      BY <1>3, <3>1, <3>4
  <2>2. ASSUME complete, prog # "newuser", NEW m \in Members(db') PROVE Wanted(m)' \/ Cared(m)'
    <3>1. m \in Members(db) /\ m # cur /\ db'[m] = db[m]
      BY <1>3
    <3>2. Wanted(m) \/ Cared(m)
      BY <1>1, <2>2, <3>1 DEF SyncInv, PartsOK
    <3> QED
      BY <1>1, <3>1, <3>2 DEF Wanted, Cared, Timed, BeforeMod, BeforeAdd
  <2>3. complete => DOMAIN add_req = {}
    BY <1>1 DEF SyncInv, PartsOK, BeforeAdd
  <2> QED
    BY <1>1, <2>1, <2>2, <2>3 DEF PartsOK
<1> QED
  BY <1>4, <1>5 DEF SyncInv

LEMMA EndSync == ASSUME IInv, SyncInv, Close \/ Crash PROVE SyncInv'
  BY ExitSync DEF Close, Crash, SyncInv, world

LEMMA SyncStep == IInv /\ SyncInv /\ [Next]_vars => SyncInv'
<1> SUFFICES ASSUME IInv, SyncInv, [Next]_vars PROVE SyncInv'
  OBVIOUS
<1>1. ASSUME NEW program \in Programs, BeginSync(program) PROVE SyncInv'
  BY <1>1, BeginRunSync DEF BeginSync
<1>2. ASSUME NEW u \in Uuid, NEW g \in Pvgrp, BeginSingle(u, g) PROVE SyncInv'
  <2>1. Begin("newuser", [Nobody EXCEPT ![u] = g])
    BY <1>2 DEF BeginSingle
  <2> QED
    BY <2>1, BeginRunSync
<1>3. CASE UNCHANGED vars
  BY <1>3 DEF vars, world, work, history, SyncInv, ListsOK, PartsOK, Wanted, Cared, Timed
<1> QED
  BY <1>1, <1>2, <1>3, OutsideSync, CompareSync, CompareSimpleSync, FixupSync, CourseSync, FailSync,
     UseraddSync, ModSync, RrmdirSync, UserdelSync, EndSync
  DEF Next

LEMMA SyncInit == Init => SyncInv
<1> SUFFICES ASSUME Init PROVE SyncInv
  OBVIOUS
<1>1. DOMAIN add_req = {} /\ delete_now = {} /\ defer_start = {} /\ defer_stop = {}
  BY DEF Init, Nothing
<1> QED
  BY <1>1 DEF Init, SyncInv, ListsOK, PartsOK, BeforeMod, BeforeAdd

\* At the end of a complete run all the lists are done.
LEMMA SyncDone == IInv /\ SyncInv => SyncComplete
<1> SUFFICES ASSUME IInv, SyncInv, pc = "close", complete
             PROVE  /\ \A u \in Uuid : input[u] # None =>
                         Cardinality({n \in Members(db) : db[n].uuid = u /\ db[n].vs_defer = 0}) = 1
                    /\ prog # "newuser" =>
                         \A n \in Members(db) : db[n].uuid = None \/ input[db[n].uuid] = None =>
                           Defer # 0 /\ db[n].vs_defer # 0 /\ begun_on < db[n].vs_defer + Defer
  BY DEF SyncComplete
<1>1. ASSUME NEW u \in Uuid, input[u] # None
      PROVE  Cardinality({n \in Members(db) : db[n].uuid = u /\ db[n].vs_defer = 0}) = 1
  <2>1. u # None
    BY MdSyncAssumption
  <2>2. DOMAIN add_req = {}
    BY DEF SyncInv, PartsOK, BeforeAdd
  <2>3. PICK m \in Members(db) : db[m].uuid = u
    BY <1>1, <2>2 DEF SyncInv, PartsOK
  <2>4. db[m].vs_defer = 0
    BY <1>1, <2>1, <2>3 DEF IInv, StopOK, BeforeMod, BeforeAdd
  <2>5. \A n \in Members(db) : db[n].uuid = u => n = m
    BY <2>1, <2>3 DEF IInv, UuidOnce, Once
  <2>6. {n \in Members(db) : db[n].uuid = u /\ db[n].vs_defer = 0} = {m}
    BY <2>3, <2>4, <2>5
  <2> QED
    BY <2>6, FS_Singleton
<1>2. ASSUME prog # "newuser", NEW n \in Members(db), db[n].uuid = None \/ input[db[n].uuid] = None
      PROVE  Defer # 0 /\ db[n].vs_defer # 0 /\ begun_on < db[n].vs_defer + Defer
  <2>1. Cared(n)
    BY <1>2 DEF SyncInv, PartsOK, Wanted
  <2>2. delete_now = {}
    BY <1>2 DEF SyncInv, PartsOK
  <2> QED
    BY <2>1, <2>2 DEF Cared, Timed, BeforeMod, BeforeAdd
<1> QED
  BY <1>1, <1>2

(* After a run in which nothing failed or was left out, everyone listed (or  *)
(* added) has exactly one account of the group, without a timer, and after a *)
(* synchronization every other account of the group has a timer that had not *)
(* expired at the comparison: nobody is forgotten, whatever the order in     *)
(* which the lists are worked off and however long the answers take.         *)
THEOREM RunsComplete == Spec => []SyncComplete
<1>1. Spec => []SyncInv
  BY InvHolds, SyncInit, SyncStep, PTL DEF Spec
<1> QED
  BY <1>1, InvHolds, SyncDone, PTL

-----------------------------------------------------------------------------
(* The names that mdsync_fixup() gives                                       *)

\* A set of natural numbers that is not empty has a least one.
LEMMA LeastNat ==
  ASSUME NEW I, I \subseteq Nat, I # {}
  PROVE  \E i \in I : \A j \in I : i <= j
<1>1. PICK i \in I : \A j \in I : ~ (<<j, i>> \in OpToRel(<, Nat))
  BY WFMin, NatLessThanWellFounded, Zenon
<1>2. \A j \in I : i <= j
  <2> TAKE j \in I
  <2>1. ~ (j < i)
    BY <1>1 DEF OpToRel
  <2> QED
    BY <2>1
<1> QED
  BY <1>2

\* The name chosen is free, as long as fewer names are taken than there are variants.
LEMMA FreeNameIs ==
  ASSUME NEW u, NEW taken, add_req[u].username \in Name, IsFiniteSet(taken),
         Cardinality(taken) < Cardinality(Used(InitAccounts)) + Cardinality(Uuid)
  PROVE  FreeName(u, taken) \in Name \ taken
<1> DEFINE name == add_req[u].username
           variants == {format_name[<<name, i>>] : i \in 1 .. MaxIndex}
           left == {i \in 1 .. MaxIndex : format_name[<<name, i>>] \notin taken}
<1>1. MaxIndex \in Nat /\ format_name \in [Name \X (1 .. MaxIndex) -> Name] /\ name \in Name
      /\ Cardinality(variants) >= Cardinality(Used(InitAccounts)) + Cardinality(Uuid)
  BY NamesAssumption
<1>2. /\ Cardinality(Used(InitAccounts)) \in Nat /\ Cardinality(Uuid) \in Nat
      /\ Cardinality(taken) \in Nat
  BY NamesAssumption, FS_CardinalityType
<1>3. left # {}
  <2> SUFFICES ASSUME left = {} PROVE FALSE
    OBVIOUS
  <2>1. variants \subseteq taken
    OBVIOUS
  <2> HIDE DEF variants, left
  <2>2. IsFiniteSet(variants) /\ Cardinality(variants) <= Cardinality(taken)
    BY <2>1, FS_Subset
  <2>3. Cardinality(variants) \in Nat
    BY <2>2, FS_CardinalityType
  <2> QED
    BY <1>1, <1>2, <2>2, <2>3
<1>4. PICK i \in left : \A j \in left : i <= j
  <2>1. left \subseteq Nat
    BY <1>1
  <2> HIDE DEF left
  <2> QED
    BY <2>1, <1>3, LeastNat
<1>5. i \in Index /\ format_name[<<name, i>>] \notin taken
      /\ \A j \in 1 .. i - 1 : format_name[<<name, j>>] \in taken
  <2>1. i \in Index /\ format_name[<<name, i>>] \notin taken
    BY <1>4 DEF Index
  <2>2. ASSUME NEW j \in 1 .. i - 1 PROVE format_name[<<name, j>>] \in taken
    BY <1>1, <1>4
  <2> QED
    BY <2>1, <2>2
<1> DEFINE index == CHOOSE k \in Index : /\ format_name[<<name, k>>] \notin taken
                                        /\ \A j \in 1 .. k - 1 : format_name[<<name, j>>] \in taken
<1>6. index \in 1 .. MaxIndex /\ format_name[<<name, index>>] \notin taken
  BY <1>5 DEF Index
<1>7. FreeName(u, taken) = IF name \notin taken THEN name ELSE format_name[<<name, index>>]
  BY DEF FreeName
<1> HIDE DEF name, index
<1> QED
  BY <1>1, <1>6, <1>7

\* The function in Given() exists: the names for m people are those for one
\* less and one more.
NamesFor(h, m) ==
  h = [j \in 0 .. m |-> IF j = 0 THEN Nothing ELSE Named(h[j - 1], UuidOrder[j])]

LEMMA NamesExist == ASSUME NEW m \in Nat PROVE \E h : NamesFor(h, m)
<1> DEFINE bad == {k \in Nat : ~ \E h : NamesFor(h, k)}
<1> SUFFICES ASSUME bad # {} PROVE FALSE
  OBVIOUS
<1>1. PICK k \in bad : \A j \in bad : k <= j
  <2>1. bad \subseteq Nat
    OBVIOUS
  <2> HIDE DEF bad
  <2> QED
    BY <2>1, LeastNat
<1>2. k \in Nat /\ ~ \E h : NamesFor(h, k)
  OBVIOUS
<1>3. k # 0
  <2> SUFFICES ASSUME k = 0 PROVE FALSE
    OBVIOUS
  <2> DEFINE h == [j \in 0 .. 0 |-> Nothing]
  <2>1. h = [j \in 0 .. 0 |-> IF j = 0 THEN Nothing ELSE Named(h[j - 1], UuidOrder[j])]
    OBVIOUS
  <2>2. NamesFor(h, 0)
    BY <2>1 DEF NamesFor
  <2> QED
    BY <1>2, <2>2
<1>4. k - 1 \in Nat /\ k - 1 \notin bad
  BY <1>1, <1>2, <1>3
<1>5. PICK h : NamesFor(h, k - 1)
  BY <1>4
<1> DEFINE f == [j \in 0 .. k |-> IF j = k THEN Named(h[k - 1], UuidOrder[k]) ELSE h[j]]
<1>6. ASSUME NEW j \in 0 .. k
      PROVE  f[j] = IF j = 0 THEN Nothing ELSE Named(f[j - 1], UuidOrder[j])
  <2>1. CASE j = k
    <3>1. k - 1 \in 0 .. k /\ k - 1 # k
      BY <1>2, <1>3
    <3>2. f[k - 1] = h[k - 1]
      BY <3>1
    <3> QED
      BY <1>3, <2>1, <3>2
  <2>2. CASE j # k
    <3>1. j \in 0 .. k - 1
      BY <1>2, <2>2
    <3>2. h[j] = IF j = 0 THEN Nothing ELSE Named(h[j - 1], UuidOrder[j])
      BY <1>5, <3>1 DEF NamesFor
    <3>3. j # 0 => j - 1 \in 0 .. k /\ j - 1 # k
      BY <1>2, <3>1
    <3>4. f[j] = h[j] /\ (j # 0 => f[j - 1] = h[j - 1])
      BY <2>2, <3>3
    <3> QED
      BY <3>2, <3>4
  <2> QED
    BY <2>1, <2>2
<1>7. f = [j \in 0 .. k |-> f[j]]
  OBVIOUS
<1> HIDE DEF f
<1>8. NamesFor(f, k)
  BY <1>6, <1>7 DEF NamesFor
<1> QED
  BY <1>2, <1>8

LEMMA GivenIs == ASSUME NEW m \in Nat PROVE \E h : NamesFor(h, m) /\ Given(m) = h[m]
<1> DEFINE g == CHOOSE h : h = [j \in 0 .. m |-> IF j = 0 THEN Nothing ELSE Named(h[j - 1], UuidOrder[j])]
<1>1. NamesFor(g, m)
  BY NamesExist DEF NamesFor
<1>2. Given(m) = g[m]
  BY DEF Given
<1> QED
  BY <1>1, <1>2

\* The names in use are those at the start and those of the people with an
\* account of the group; the people who are to get accounts get names that are
\* free, each another one.
Held(d) == \A n \in Used(d) : n \in Used(InitAccounts) \/ (d[n].grp /\ d[n].uuid # None)

NamesOK ==
  /\ Held(db) /\ Held(file)
  /\ pc \in {"compare", "fixup"} => \A u \in DOMAIN add_req : add_req[u].username \in Name
  /\ pc = "fixup" => lnlist = Used(db)
  /\ pc \in BeforeAdd \ {"fixup"} =>
       /\ \A u \in DOMAIN add_req : add_req[u].username \in Name \ Used(db)
       /\ \A u, v \in DOMAIN add_req : add_req[u].username = add_req[v].username => u = v

\* While somebody is without a name fewer names are taken than there are variants.
LEMMA TakenFew ==
  ASSUME IInv, NamesOK, pc = "fixup", NEW given, NEW u \in DOMAIN add_req,
         DOMAIN given \subseteq DOMAIN add_req \ {u}
  PROVE  LET taken == lnlist \cup {given[v] : v \in DOMAIN given}
         IN  /\ IsFiniteSet(taken)
             /\ Cardinality(taken) < Cardinality(Used(InitAccounts)) + Cardinality(Uuid)
<1> DEFINE taken == lnlist \cup {given[v] : v \in DOMAIN given}
           others == Uuid \ {u}
           holds == [v \in others |-> IF v \in DOMAIN given THEN given[v]
                                      ELSE CHOOSE n \in Members(db) : db[n].uuid = v]
           names == {holds[v] : v \in others}
           start == Used(InitAccounts)
<1>1. u \in Uuid /\ DOMAIN add_req \subseteq Uuid
  BY DEF IInv, TypeOK
<1>2. \A v \in DOMAIN given : v \in others /\ holds[v] = given[v]
  BY <1>1
<1>3. ASSUME NEW n \in Used(db), n \notin start PROVE n \in names
  <2>1. n \in Members(db) /\ db[n].uuid # None
    BY <1>3 DEF NamesOK, Held, Members
  <2>2. db[n].uuid \in Uuid
    BY <2>1, MemberFacts DEF IInv, Account
  <2>3. db[n].uuid \notin DOMAIN add_req
    BY <2>1 DEF IInv, AddOK, BeforeAdd
  <2>4. db[n].uuid \in others /\ db[n].uuid \notin DOMAIN given
    BY <2>2, <2>3
  <2>5. holds[db[n].uuid] = CHOOSE m \in Members(db) : db[m].uuid = db[n].uuid
    BY <2>4
  <2> DEFINE m == CHOOSE k \in Members(db) : db[k].uuid = db[n].uuid
  <2>6. m \in Members(db) /\ db[m].uuid = db[n].uuid
    BY <2>1
  <2>7. m = n
    BY <2>1, <2>6 DEF IInv, UuidOnce, Once
  <2> QED
    BY <2>4, <2>5, <2>7
<1>4. taken \subseteq start \cup names
  <2>1. \A v \in DOMAIN given : given[v] \in names
    BY <1>2
  <2>2. lnlist = Used(db)
    BY DEF NamesOK
  <2> HIDE DEF names, start
  <2> QED
    BY <1>3, <2>1, <2>2
<1>5. IsFiniteSet(others) /\ Cardinality(others) = Cardinality(Uuid) - 1
  BY <1>1, NamesAssumption, FS_RemoveElement
<1>6. IsFiniteSet(names) /\ Cardinality(names) <= Cardinality(others)
  <2>1. holds \in Surjection(others, names)
    BY DEF Surjection
  <2> HIDE DEF holds, names, others
  <2> QED
    BY <1>5, <2>1, FS_Surjection
<1>7. IsFiniteSet(start)
  BY NamesAssumption
<1> HIDE DEF taken, others, holds, names, start
<1>8. /\ IsFiniteSet(start \cup names)
      /\ Cardinality(start \cup names) = Cardinality(start) + Cardinality(names) - Cardinality(start \cap names)
  BY <1>6, <1>7, FS_Union
<1>9. IsFiniteSet(taken) /\ Cardinality(taken) <= Cardinality(start \cup names)
  BY <1>4, <1>8, FS_Subset
<1>10. IsFiniteSet(start \cap names)
  BY <1>7, FS_Intersection
<1>11. /\ Cardinality(start) \in Nat /\ Cardinality(names) \in Nat /\ Cardinality(start \cap names) \in Nat
       /\ Cardinality(others) \in Nat /\ Cardinality(taken) \in Nat /\ Cardinality(Uuid) \in Nat
       /\ Cardinality(start \cup names) \in Nat
  BY <1>5, <1>6, <1>7, <1>8, <1>9, <1>10, NamesAssumption, FS_CardinalityType
<1>12. Cardinality(taken) < Cardinality(start) + Cardinality(Uuid)
  BY <1>5, <1>6, <1>8, <1>9, <1>11
<1> QED
  BY <1>9, <1>12 DEF taken, start

\* The names given to the first j people
NamedOK(given, j) ==
  /\ DOMAIN given = {UuidOrder[i] : i \in 1 .. j} \cap DOMAIN add_req
  /\ \A v \in DOMAIN given : given[v] \in Name \ lnlist
  /\ \A v, w \in DOMAIN given : given[v] = given[w] => v = w

LEMMA NamedStep ==
  ASSUME IInv, NamesOK, pc = "fixup", NEW given, NEW j \in 1 .. Len(UuidOrder), NamedOK(given, j - 1)
  PROVE  NamedOK(Named(given, UuidOrder[j]), j)
<1> DEFINE u == UuidOrder[j]
           taken == lnlist \cup {given[v] : v \in DOMAIN given}
           next == Named(given, u)
<1>1. Len(UuidOrder) \in Nat
  BY NamesAssumption
<1>2. {UuidOrder[i] : i \in 1 .. j} = {UuidOrder[i] : i \in 1 .. j - 1} \cup {u}
  <2>1. \A i \in 1 .. j : i \in 1 .. j - 1 \/ i = j
    BY <1>1
  <2>2. \A i \in 1 .. j - 1 : i \in 1 .. j
    BY <1>1
  <2>3. j \in 1 .. j
    BY <1>1
  <2> QED
    BY <2>1, <2>2, <2>3
<1>3. u \notin {UuidOrder[i] : i \in 1 .. j - 1}
  <2> SUFFICES ASSUME NEW i \in 1 .. j - 1, UuidOrder[i] = u PROVE FALSE
    OBVIOUS
  <2>1. i \in 1 .. Len(UuidOrder) /\ i # j
    BY <1>1
  <2> QED
    BY <2>1, NamesAssumption
<1>4. CASE u \notin DOMAIN add_req
  <2>1. next = given
    BY <1>4 DEF Named
  <2> QED
    BY <1>2, <1>4, <2>1 DEF NamedOK
<1>5. CASE u \in DOMAIN add_req
  <2>1. next = [v \in DOMAIN given \cup {u} |-> IF v = u THEN FreeName(u, taken) ELSE given[v]]
    BY <1>5 DEF Named
  <2>2. DOMAIN given \subseteq DOMAIN add_req \ {u}
    BY <1>3 DEF NamedOK
  <2>3. IsFiniteSet(taken) /\ Cardinality(taken) < Cardinality(Used(InitAccounts)) + Cardinality(Uuid)
    BY <1>5, <2>2, TakenFew
  <2>4. add_req[u].username \in Name
    BY <1>5 DEF NamesOK
  <2>5. FreeName(u, taken) \in Name \ taken
    <3> HIDE DEF taken, u
    <3> QED
      BY <2>3, <2>4, FreeNameIs
  <2>6. DOMAIN next = DOMAIN given \cup {u} /\ next[u] = FreeName(u, taken)
        /\ \A v \in DOMAIN given : next[v] = given[v]
    BY <2>1, <2>2
  <2>7. \A v \in DOMAIN given : given[v] \in taken
    OBVIOUS
  <2>8. lnlist \subseteq taken
    OBVIOUS
  <2> HIDE DEF next, taken, u
  <2>9. DOMAIN next = {UuidOrder[i] : i \in 1 .. j} \cap DOMAIN add_req
    BY <1>2, <1>5, <2>6 DEF NamedOK
  <2>10. \A v \in DOMAIN next : next[v] \in Name \ lnlist
    BY <2>5, <2>6, <2>8 DEF NamedOK
  <2>11. \A v, w \in DOMAIN next : next[v] = next[w] => v = w
    <3> SUFFICES ASSUME NEW v \in DOMAIN next, NEW w \in DOMAIN next, next[v] = next[w] PROVE v = w
      OBVIOUS
    <3>1. CASE v \in DOMAIN given /\ w \in DOMAIN given
      BY <2>6, <3>1 DEF NamedOK
    <3>2. CASE v = u \/ w = u
      BY <2>5, <2>6, <2>7, <3>2
    <3> QED
      BY <2>6, <3>1, <3>2
  <2> QED
    BY <2>9, <2>10, <2>11 DEF NamedOK, next, u
<1> QED
  BY <1>4, <1>5

\* By induction on the number of people, everyone gets a name of their own.
LEMMA GivenOK ==
  ASSUME IInv, NamesOK, pc = "fixup"
  PROVE  NamedOK(Given(Len(UuidOrder)), Len(UuidOrder))
<1> DEFINE N == Len(UuidOrder)
<1>1. N \in Nat
  BY NamesAssumption
<1> HIDE DEF N
<1>2. PICK h : NamesFor(h, N) /\ Given(N) = h[N]
  BY <1>1, GivenIs
<1>3. h[0] = Nothing /\ \A j \in 1 .. N : h[j] = Named(h[j - 1], UuidOrder[j])
  BY <1>1, <1>2 DEF NamesFor
<1> DEFINE bad == {j \in 0 .. N : ~ NamedOK(h[j], j)}
<1>4. bad = {}
  <2> SUFFICES ASSUME bad # {} PROVE FALSE
    OBVIOUS
  <2>1. bad \subseteq Nat
    BY <1>1
  <2> HIDE DEF bad
  <2>2. PICK j \in bad : \A i \in bad : j <= i
    BY <2>1, LeastNat
  <2> USE DEF bad
  <2>3. j # 0
    <3>1. NamedOK(Nothing, 0)
      BY DEF NamedOK, Nothing
    <3> QED
      BY <1>3, <2>2, <3>1
  <2>4. j \in 1 .. N /\ j - 1 \in 0 .. N /\ NamedOK(h[j - 1], j - 1)
    BY <1>1, <2>2, <2>3
  <2>5. NamedOK(Named(h[j - 1], UuidOrder[j]), j)
    BY <2>4, NamedStep DEF N
  <2> QED
    BY <1>3, <2>2, <2>4, <2>5
<1>5. N \in 0 .. N
  BY <1>1
<1> QED
  BY <1>2, <1>4, <1>5 DEF N

\* A step on the accounts keeps those that are there, but for their timers and
\* classes, adds accounts of the group, or removes some.
LEMMA HeldKept ==
  ASSUME Held(db), Held(file), file' \in {file, db, db'},
         \/ db' \in {db, file}
         \/ \A n \in Used(db') :
              \/ n \in Used(db) /\ db'[n].grp = db[n].grp /\ db'[n].uuid = db[n].uuid
              \/ db'[n].grp /\ db'[n].uuid # None
  PROVE  Held(db)' /\ Held(file)'
<1>1. Held(db')
  BY DEF Held
<1> QED
  BY <1>1 DEF Held

LEMMA NamesAdvance ==
  ASSUME NamesOK, Advance, pc' \notin {"compare", "fixup"},
         pc' \in BeforeAdd => pc \in BeforeAdd /\ pc # "fixup"
  PROVE  NamesOK'
<1>1. Held(db)' /\ Held(file)'
  BY HeldKept DEF NamesOK, Advance
<1> QED
  BY <1>1 DEF NamesOK, Advance

LEMMA NamesOutside ==
  ASSUME NamesOK, (\E u \in Uuid, g \in Pvgrp \cup {None} : EdsChange(u, g)) \/ NewDay
  PROVE  NamesOK'
<1>1. UNCHANGED <<file, db, pc, add_req, lnlist>>
  BY DEF EdsChange, NewDay, work
<1> QED
  BY <1>1 DEF NamesOK, Held

LEMMA NamesBegin ==
  ASSUME NamesOK, NEW program, NEW list, Begin(program, list) PROVE NamesOK'
<1>1. pc' = "compare" /\ db' = file /\ file' = file
      /\ add_req' = [u \in {v \in Uuid : list[v] # None} |-> [username |-> LName[u], pvgrp |-> list[u]]]
  BY DEF Begin
<1>2. \A u \in DOMAIN add_req' : add_req'[u].username \in Name
  BY <1>1, NamesAssumption
<1> QED
  BY <1>1, <1>2 DEF NamesOK, Held, BeforeAdd

LEMMA NamesCompare == ASSUME NamesOK, mdsync_compare \/ mdsync_compare_simple PROVE NamesOK'
<1>1. pc = "compare" /\ pc' = "fixup" /\ lnlist' = Used(db) /\ UNCHANGED <<db, file>>
  BY DEF mdsync_compare, mdsync_compare_simple
<1>2. \A u \in DOMAIN add_req' : u \in DOMAIN add_req /\ add_req'[u] = add_req[u]
  BY DEF mdsync_compare, mdsync_compare_simple
<1> QED
  BY <1>1, <1>2 DEF NamesOK, Held

LEMMA NamesFixup == ASSUME IInv, NamesOK, mdsync_fixup PROVE NamesOK'
<1> DEFINE names == Given(Len(UuidOrder))
<1>1. /\ pc = "fixup" /\ pc' \notin {"compare", "fixup"} /\ UNCHANGED <<db, file>>
      /\ add_req' = [u \in DOMAIN add_req |-> [add_req[u] EXCEPT !.username = names[u]]]
  BY DEF mdsync_fixup
<1>2. NamedOK(names, Len(UuidOrder))
  BY <1>1, GivenOK
<1> HIDE DEF names
<1>3. DOMAIN names = DOMAIN add_req
  BY <1>2, NamesAssumption DEF NamedOK, IInv, TypeOK
<1>4. \A u \in DOMAIN add_req : add_req'[u].username = names[u]
  BY <1>1 DEF IInv, TypeOK, Request
<1>5. DOMAIN add_req' = DOMAIN add_req
  BY <1>1
<1>6. lnlist = Used(db)
  BY <1>1 DEF NamesOK
<1> QED
  BY <1>1, <1>2, <1>3, <1>4, <1>5, <1>6 DEF NamesOK, NamedOK, Held

LEMMA NamesCourse ==
  ASSUME NamesOK,
         Continue \/ (\E part \in DOMAIN Ask : sync_part(part)) \/ UseraddFlush \/ create_home
         \/ AddEnd \/ ModEnd \/ DelEnd
  PROVE  NamesOK'
<1>1. CASE Continue
  <2>1. Advance
    BY <1>1 DEF Continue, Advance, world, work, history
  <2> QED
    BY <1>1, <2>1, NamesAdvance DEF Continue, BeforeAdd
<1>2. ASSUME NEW part \in DOMAIN Ask, sync_part(part) PROVE NamesOK'
  <2>1. Advance
    BY <1>2 DEF sync_part, Advance, world, work, history
  <2> QED
    BY <1>2, <2>1, NamesAdvance DEF sync_part, Ask, After, BeforeAdd
<1>3. CASE UseraddFlush \/ create_home
  <2>1. Advance
    BY <1>3 DEF UseraddFlush, create_home, Advance, world, work, history
  <2> QED
    BY <1>3, <2>1, NamesAdvance DEF UseraddFlush, create_home, BeforeAdd
<1>4. CASE AddEnd \/ ModEnd \/ DelEnd
  <2>1. Advance
    BY <1>4 DEF AddEnd, ModEnd, DelEnd, Advance, world, work, history
  <2> QED
    BY <1>4, <2>1, NamesAdvance DEF AddEnd, ModEnd, DelEnd, After, BeforeAdd
<1> QED
  BY <1>1, <1>2, <1>3, <1>4

\* Once the lists of names are empty or done with, only the accounts matter.
LEMMA NamesOther ==
  ASSUME NamesOK, Held(db)', Held(file)', pc' \notin BeforeAdd \cup {"compare"}
  PROVE  NamesOK'
  BY DEF NamesOK, BeforeAdd

LEMMA NamesUseradd == ASSUME IInv, NamesOK, NEW u \in Uuid, Useradd(u) PROVE NamesOK'
<1> DEFINE n == add_req[u].username
           entry == NewAccount(u)
<1>1. u \in DOMAIN add_req /\ pc = "add" /\ n \in Name /\ db[n] = None
      /\ db' = [db EXCEPT ![n] = entry] /\ file' \in {file, db'}
  BY DEF Useradd, Store, Used
<1>2. entry.grp /\ entry.uuid = u /\ entry # None /\ u # None
  <2>1. entry \in Account /\ entry.grp /\ entry.uuid = u
    BY <1>1, MdSyncAssumption DEF NewAccount, Account, IInv, TypeOK, Request
  <2> HIDE DEF entry
  <2> QED
    BY <2>1, MdSyncAssumption
<1> HIDE DEF entry
<1>3. db'[n] = entry /\ \A m \in Name \ {n} : db'[m] = db[m]
  BY <1>1 DEF IInv, TypeOK, Accounts
<1>4. Used(db') = Used(db) \cup {n}
  BY <1>1, <1>2, <1>3 DEF Used
<1>5. Held(db)' /\ Held(file)'
  <2>1. \A m \in Used(db') : (m \in Used(db) /\ db'[m] = db[m]) \/ (db'[m].grp /\ db'[m].uuid # None)
    BY <1>1, <1>2, <1>3, <1>4 DEF Used
  <2> QED
    BY <1>1, <2>1, HeldKept DEF NamesOK
<1>6. CASE pc' \in {"flush", "home"} /\ add_req' = [v \in DOMAIN add_req \ {u} |-> add_req[v]]
  <2>1. \A v \in DOMAIN add_req' : v \in DOMAIN add_req /\ v # u /\ add_req'[v] = add_req[v]
    BY <1>6
  <2>2. /\ \A v \in DOMAIN add_req : add_req[v].username \in Name \ Used(db)
        /\ \A v, w \in DOMAIN add_req : add_req[v].username = add_req[w].username => v = w
    BY <1>1 DEF NamesOK, BeforeAdd
  <2>3. \A v \in DOMAIN add_req' : add_req'[v].username \in Name \ Used(db')
    BY <1>1, <1>4, <2>1, <2>2
  <2>4. \A v, w \in DOMAIN add_req' : add_req'[v].username = add_req'[w].username => v = w
    BY <2>1, <2>2
  <2> QED
    BY <1>5, <1>6, <2>3, <2>4 DEF NamesOK, BeforeAdd
<1>7. CASE FailedAdd
  BY <1>5, <1>7, NamesOther DEF FailedAdd, Exit, Failed, After, BeforeAdd
<1> QED
  BY <1>6, <1>7 DEF Useradd

LEMMA NamesFail == ASSUME NamesOK, Fail PROVE NamesOK'
<1>1. db' = db /\ file' \in {file, db}
  BY DEF Fail
<1>2. Held(db)' /\ Held(file)'
  BY <1>1, HeldKept DEF NamesOK
<1>3. pc' \notin BeforeAdd \cup {"compare"}
  BY DEF Fail, FailedAdd, Exit, Failed, After, BeforeAdd
<1> QED
  BY <1>2, <1>3, NamesOther

LEMMA NamesMod ==
  ASSUME IInv, NamesOK, NEW n \in Name, Update(n) \/ DeferStart(n) \/ DeferStop(n)
  PROVE  NamesOK'
<1>1. pc = "mod" /\ pc' = "mod" /\ file' \in {file, db'}
  BY DEF Update, DeferStart, DeferStop, Store
<1>2. n \in Members(db)
  BY <1>1 DEF IInv, ModOK, BeforeMod, Update, DeferStart, DeferStop
<1>3. \E entry : Changed(n, entry)
  <2>1. db[n] \in Account /\ db[n].grp
    BY <1>2, MemberFacts DEF IInv
  <2>2. CASE Update(n)
    <3>1. Changed(n, [db[n] EXCEPT !.pvgrp = update_req[n]])
      BY <2>1, <2>2 DEF Update, Store, Changed, Account, IInv, TypeOK
    <3> QED
      BY <3>1
  <2>3. CASE DeferStart(n)
    <3>1. Changed(n, [db[n] EXCEPT !.vs_defer = today])
      BY <2>1, <2>3 DEF DeferStart, Store, Changed, Account, IInv, TypeOK
    <3> QED
      BY <3>1
  <2>4. CASE DeferStop(n)
    <3>1. Changed(n, [db[n] EXCEPT !.vs_defer = 0])
      BY <2>1, <2>4 DEF DeferStop, Store, Changed, Account, IInv, TypeOK
    <3> QED
      BY <3>1
  <2> QED
    BY <2>2, <2>3, <2>4
<1>4. PICK entry : Changed(n, entry)
  BY <1>3
<1>5. \A m \in Used(db') : m \in Used(db) /\ db'[m].grp = db[m].grp /\ db'[m].uuid = db[m].uuid
  <2> SUFFICES ASSUME NEW m \in Used(db')
               PROVE  m \in Used(db) /\ db'[m].grp = db[m].grp /\ db'[m].uuid = db[m].uuid
    OBVIOUS
  <2>1. m \in Name /\ db'[m] # None /\ db'[n] = entry /\ (m # n => db'[m] = db[m])
    BY <1>2, <1>4, SameMembers DEF IInv, Used
  <2>2. db[n].grp /\ entry.grp
    BY <1>2, <1>4, MemberFacts DEF IInv, Changed
  <2>3. n \in Used(db) /\ entry.uuid = db[n].uuid
    BY <1>2, <1>4 DEF Members, Changed
  <2>4. entry.grp = db[n].grp
    BY <1>2, <1>4, <2>2, MemberFacts DEF IInv, Changed, Account
  <2> QED
    BY <2>1, <2>3, <2>4 DEF Used
<1>6. Held(db)' /\ Held(file)'
  BY <1>1, <1>5, HeldKept DEF NamesOK
<1> QED
  BY <1>1, <1>6, NamesOther DEF BeforeAdd

LEMMA NamesDel ==
  ASSUME IInv, NamesOK, (\E n \in Name : Rrmdir(n)) \/ Userdel \/ Close \/ Crash
  PROVE  NamesOK'
<1>1. pc' \notin BeforeAdd \cup {"compare"}
  BY DEF Rrmdir, Userdel, Close, Crash, Exit, BeforeAdd
<1>2. file' \in {file, db, db'} /\ (db' \in {db, file} \/ (Userdel /\ db' = [db EXCEPT ![cur] = None]))
  BY DEF Rrmdir, Userdel, Close, Crash, Store
<1>3. CASE db' \in {db, file}
  <2>1. Held(db)' /\ Held(file)'
    BY <1>2, <1>3, HeldKept DEF NamesOK
  <2> QED
    BY <1>1, <2>1, NamesOther
<1>4. CASE Userdel /\ db' = [db EXCEPT ![cur] = None]
  <2>1. \A m \in Used(db') : m \in Used(db) /\ db'[m] = db[m]
    BY <1>4 DEF IInv, TypeOK, Accounts, Used
  <2>2. Held(db)' /\ Held(file)'
    BY <1>2, <2>1, HeldKept DEF NamesOK
  <2> QED
    BY <1>1, <2>2, NamesOther
<1> QED
  BY <1>2, <1>3, <1>4

LEMMA NamesNext == IInv /\ NamesOK /\ [Next]_vars => NamesOK'
<1> SUFFICES ASSUME IInv, NamesOK, [Next]_vars PROVE NamesOK'
  OBVIOUS
<1>1. ASSUME NEW program \in Programs, BeginSync(program) PROVE NamesOK'
  BY <1>1, NamesBegin DEF BeginSync
<1>2. ASSUME NEW u \in Uuid, NEW g \in Pvgrp, BeginSingle(u, g) PROVE NamesOK'
  <2>1. Begin("newuser", [Nobody EXCEPT ![u] = g])
    BY <1>2 DEF BeginSingle
  <2> QED
    BY <2>1, NamesBegin
<1>3. CASE UNCHANGED vars
  BY <1>3 DEF vars, work, NamesOK, Held
<1> QED
  BY <1>1, <1>2, <1>3, NamesOutside, NamesCompare, NamesFixup, NamesCourse, NamesFail, NamesUseradd,
     NamesMod, NamesDel
  DEF Next

LEMMA NamesInit == Init => NamesOK
  BY DEF Init, Nothing, NamesOK, Held, BeforeAdd

(* Every name that a run gives is free, until the account is made, and no    *)
(* two are the same, whoever has the proposed name or its variants: newly    *)
(* named people count, and there are always enough variants.                 *)
THEOREM NamesFree == Spec => []NewNamesFree
<1>1. Spec => []NamesOK
  BY InvHolds, NamesInit, NamesNext, PTL DEF Spec
<1>2. NamesOK => NewNamesFree
  BY DEF NamesOK, NewNamesFree, BeforeAdd, Used
<1> QED
  BY <1>1, <1>2, PTL
-----------------------------------------------------------------------------
(* The passwords that mdsync_add() gives to new accounts: vxutil_genpw()     *)

Tokens == {Digit, Letter} \cup {Syllable(k, up) : k \in Syllables, up \in BOOLEAN}

\* The pieces lie side by side in the buffer, piece i at place at[i].
Lies(at, from, to) ==
  /\ at \in [1 .. Len(plain) + 1 -> Int] /\ at[1] = from /\ at[Len(plain) + 1] = to
  /\ \A i \in 1 .. Len(plain) : at[i + 1] = at[i] + Length(plain[i])

PlainOK ==
  /\ phase \in {"idle", "build", "done"} /\ meth \in Method /\ len \in Nat
  /\ plain \in Seq(Tokens)
  /\ phase = "idle" => plain = <<>>
  /\ phase = "build" => len > 1

\* A digit is in the password just when the wish for one is fulfilled.
DigitOK ==
  IF flags \cap Digits = want \cap Digits
    THEN digits = {}
    ELSE flags \cap Digits = {} /\ \E i : digits = {i}

CapitalOK ==
  IF flags \cap Cases = want \cap Cases
    THEN capitals = {}
    ELSE flags \cap Cases = {} /\ \E i : capitals = {i}

\* What is made fills the buffer but for size characters.
PlaceOK ==
  /\ size \in Nat
  /\ phase = "done" => size = 0 /\ ~unmet
  /\ \E at : IF meth = "random" THEN Lies(at, 0, Room(meth, len) - size)
                                ELSE Lies(at, size, Room(meth, len))

\* prev is the first syllable.
OrderOK ==
  /\ meth = "random" => prev = 0
  /\ prev = 0 => \A i \in DOMAIN plain : ~key(i)
  /\ \A i \in DOMAIN plain : key(i) /\ (\A k \in 1 .. i - 1 : ~key(k)) => plain[i].knum = prev
  /\ Varied /\ VowelAfterN

GenpwInv ==
  /\ PlainOK
  /\ phase # "idle" /\ len > 1 =>
       DigitOK /\ (meth # "random" => CapitalOK) /\ PlaceOK /\ OrderOK

\* c is put before what is there, or behind it.
Front(c) ==
  /\ Len(plain) \in Nat /\ DOMAIN plain = 1 .. Len(plain)
  /\ Len(plain') = Len(plain) + 1 /\ DOMAIN plain' = 1 .. Len(plain) + 1
  /\ plain'[1] = c /\ \A i \in 1 .. Len(plain) : plain'[i + 1] = plain[i]

Back(c) ==
  /\ Len(plain) \in Nat /\ DOMAIN plain = 1 .. Len(plain)
  /\ Len(plain') = Len(plain) + 1 /\ DOMAIN plain' = 1 .. Len(plain) + 1
  /\ plain'[Len(plain) + 1] = c /\ \A i \in 1 .. Len(plain) : plain'[i] = plain[i]

\* What Put does to the buffer: at the end with the random method, else at the front
LEMMA PutIs ==
  ASSUME plain \in Seq(Tokens), meth' = meth, NEW c \in Tokens, NEW n, Put(c, n)
  PROVE  /\ plain' \in Seq(Tokens') /\ size' = size - n
         /\ IF meth = "random" THEN Back(c) ELSE Front(c)
<1>1. Tokens' = Tokens
  BY DEF Tokens, Syllables, Digit, Letter, Syllable
<1> DEFINE T == Tokens
<1>2. plain \in Seq(T) /\ c \in T
  OBVIOUS
<1>3. size' = size - n /\ plain' = IF meth = "random" THEN Append(plain, c) ELSE <<c>> \o plain
  BY DEF Put
<1> HIDE DEF T
<1>4. Len(plain) \in Nat /\ DOMAIN plain = 1 .. Len(plain)
  BY <1>2
<1>5. CASE meth = "random"
  <2>1. plain' \in Seq(T) /\ Len(plain') = Len(plain) + 1
    BY <1>2, <1>3, <1>5
  <2>2. DOMAIN plain' = 1 .. Len(plain) + 1
    BY <2>1
  <2>3. plain'[Len(plain) + 1] = c /\ \A i \in 1 .. Len(plain) : plain'[i] = plain[i]
    BY <1>2, <1>3, <1>5
  <2> QED
    BY <1>1, <1>3, <1>4, <1>5, <2>1, <2>2, <2>3 DEF Back, T
<1>6. CASE meth # "random"
  <2>1. plain' \in Seq(T) /\ Len(plain') = Len(plain) + 1
    BY <1>2, <1>3, <1>6
  <2>2. DOMAIN plain' = 1 .. Len(plain) + 1
    BY <2>1
  <2>3. plain'[1] = c /\ \A i \in 1 .. Len(plain) : plain'[i + 1] = plain[i]
    BY <1>2, <1>3, <1>6
  <2> QED
    BY <1>1, <1>3, <1>4, <1>6, <2>1, <2>2, <2>3 DEF Front, T
<1> QED
  BY <1>5, <1>6

\* What can be put into the buffer, and which characteristics it has
LEMMA TokenIs ==
  /\ Digit \in Tokens /\ Digit.kind = "digit" /\ Length(Digit) = 1
  /\ Letter \in Tokens /\ Letter.kind = "letter" /\ Letter.upper = FALSE /\ Length(Letter) = 1
  /\ \A k \in Syllables, up \in BOOLEAN :
       /\ Syllable(k, up) \in Tokens
       /\ Syllable(k, up).kind = "key" /\ Syllable(k, up).knum = k /\ Syllable(k, up).upper = up
       /\ Length(Syllable(k, up)) = Table[meth][k].len
<1>1. Digit \in Tokens /\ Letter \in Tokens /\ \A k \in Syllables, up \in BOOLEAN : Syllable(k, up) \in Tokens
  BY DEF Tokens
<1>2. Digit.kind = "digit" /\ Letter.kind = "letter" /\ Letter.upper = FALSE
  BY DEF Digit, Letter
<1>3. \A k, up : /\ Syllable(k, up).kind = "key" /\ Syllable(k, up).knum = k
                 /\ Syllable(k, up).upper = up
  BY DEF Syllable
<1> QED
  BY <1>1, <1>2, <1>3 DEF Length

\* T has the positions in S after a piece was put before or behind, and that of
\* the new piece if it counts.
Grows(S, T, n, new) ==
  /\ n \in Nat /\ S \subseteq 1 .. n /\ T \subseteq 1 .. n + 1 /\ new \in BOOLEAN
  /\ \/ (1 \in T <=> new) /\ \A i \in 1 .. n : i + 1 \in T <=> i \in S
     \/ (n + 1 \in T <=> new) /\ \A i \in 1 .. n : i \in T <=> i \in S

\* The places of one kind of piece, when a piece is put at either end
LEMMA GrowsBy ==
  ASSUME NEW S, NEW T, NEW n, NEW new, Grows(S, T, n, new)
  PROVE  /\ ~new /\ S = {} => T = {}
         /\ ~new /\ (\E i : S = {i}) => \E i : T = {i}
         /\ new /\ S = {} => \E i : T = {i}
<1>1. n \in Nat /\ S \subseteq 1 .. n /\ T \subseteq 1 .. n + 1
  BY DEF Grows
<1>2. CASE (1 \in T <=> new) /\ \A i \in 1 .. n : i + 1 \in T <=> i \in S
  <2>1. \A j \in T : j = 1 \/ (j - 1 \in 1 .. n /\ j - 1 + 1 = j)
    BY <1>1
  <2>2. \A j \in T : (j = 1 /\ new) \/ j - 1 \in S
    BY <1>2, <2>1
  <2>3. ~new /\ S = {} => T = {}
    BY <2>2
  <2>4. ASSUME ~new, NEW i, S = {i} PROVE \E j : T = {j}
    <3>1. i \in 1 .. n /\ i + 1 \in T
      BY <1>1, <1>2, <2>4
    <3>2. \A j \in T : j = i + 1
      BY <1>1, <2>2, <2>4
    <3>3. T = {i + 1}
      BY <3>1, <3>2
    <3> QED
      BY <3>3
  <2>5. new /\ S = {} => T = {1}
    BY <1>2, <2>2
  <2> QED
    BY <2>3, <2>4, <2>5
<1>3. CASE (n + 1 \in T <=> new) /\ \A i \in 1 .. n : i \in T <=> i \in S
  <2>1. \A j \in T : j = n + 1 \/ j \in 1 .. n
    BY <1>1
  <2>2. \A j \in T : (j = n + 1 /\ new) \/ j \in S
    BY <1>3, <2>1
  <2>3. ~new => T = S
    BY <1>1, <1>3, <2>2
  <2>4. new /\ S = {} => T = {n + 1}
    BY <1>3, <2>2
  <2> QED
    BY <2>3, <2>4
<1> QED
  BY <1>2, <1>3 DEF Grows

\* A digit is put in only while the wish for it is open, which it fulfils
LEMMA DigitPut ==
  ASSUME NEW c, Front(c) \/ Back(c), DigitOK, want' = want,
         \/ c.kind = "digit" /\ flags \cap Digits # {} /\ flags' = flags \ Digits
         \/ c.kind # "digit" /\ flags' \cap Digits = flags \cap Digits
  PROVE  DigitOK'
<1>1. Grows(digits, digits', Len(plain), c.kind = "digit")
  <2>1. /\ Len(plain) \in Nat /\ digits \subseteq 1 .. Len(plain) /\ digits' \subseteq 1 .. Len(plain) + 1
    BY DEF Front, Back, digits
  <2>2. CASE Front(c)
    <3>1. 1 \in digits' <=> c.kind = "digit"
      BY <2>2 DEF Front, digits
    <3>2. ASSUME NEW i \in 1 .. Len(plain) PROVE i + 1 \in digits' <=> i \in digits
      BY <2>2 DEF Front, digits
    <3> QED
      BY <2>1, <3>1, <3>2 DEF Grows
  <2>3. CASE Back(c)
    <3>1. Len(plain) + 1 \in digits' <=> c.kind = "digit"
      BY <2>3 DEF Back, digits
    <3>2. ASSUME NEW i \in 1 .. Len(plain) PROVE i \in digits' <=> i \in digits
      BY <2>3 DEF Back, digits
    <3> QED
      BY <2>1, <3>1, <3>2 DEF Grows
  <2> QED
    BY <2>2, <2>3
<1>2. CASE c.kind = "digit" /\ flags \cap Digits # {} /\ flags' = flags \ Digits
  <2>1. flags \cap Digits = want \cap Digits /\ digits = {}
    BY <1>2 DEF DigitOK
  <2>2. flags' \cap Digits = {} /\ want' \cap Digits # {}
    BY <1>2, <2>1
  <2>3. \E i : digits' = {i}
    BY <1>1, <1>2, <2>1, GrowsBy
  <2> QED
    BY <2>2, <2>3 DEF DigitOK
<1>3. CASE c.kind # "digit" /\ flags' \cap Digits = flags \cap Digits
  <2>1. digits = {} => digits' = {}
    BY <1>1, <1>3, GrowsBy
  <2>2. (\E i : digits = {i}) => \E i : digits' = {i}
    BY <1>1, <1>3, GrowsBy
  <2> QED
    BY <1>3, <2>1, <2>2 DEF DigitOK
<1> QED
  BY <1>2, <1>3

\* So with an upper case syllable
LEMMA CapitalPut ==
  ASSUME NEW c, Front(c), c.kind # "digit" => c.upper \in BOOLEAN, CapitalOK, want' = want,
         \/ c.kind # "digit" /\ c.upper /\ flags \cap Cases # {} /\ flags' = flags \ Cases
         \/ ~(c.kind # "digit" /\ c.upper) /\ flags' \cap Cases = flags \cap Cases
  PROVE  CapitalOK'
<1> DEFINE new == c.kind # "digit" /\ c.upper = TRUE
<1>1. Grows(capitals, capitals', Len(plain), new)
  <2>1. /\ Len(plain) \in Nat /\ capitals \subseteq 1 .. Len(plain) /\ capitals' \subseteq 1 .. Len(plain) + 1
    BY DEF Front, capitals
  <2>2. 1 \in capitals' <=> new
    BY DEF Front, capitals
  <2>3. ASSUME NEW i \in 1 .. Len(plain) PROVE i + 1 \in capitals' <=> i \in capitals
    <3>1. plain'[i + 1] = plain[i] /\ i + 1 \in DOMAIN plain' /\ i \in DOMAIN plain
      BY DEF Front
    <3>2. i + 1 \in capitals' <=> plain'[i + 1].kind # "digit" /\ plain'[i + 1].upper
      BY <3>1 DEF capitals
    <3>3. i \in capitals <=> plain[i].kind # "digit" /\ plain[i].upper
      BY <3>1 DEF capitals
    <3> QED
      BY <3>1, <3>2, <3>3
  <2> QED
    BY <2>1, <2>2, <2>3 DEF Grows
<1>2. CASE new /\ flags \cap Cases # {} /\ flags' = flags \ Cases
  <2>1. flags \cap Cases = want \cap Cases /\ capitals = {}
    BY <1>2 DEF CapitalOK
  <2>2. flags' \cap Cases = {} /\ want' \cap Cases # {}
    BY <1>2, <2>1
  <2>3. \E i : capitals' = {i}
    BY <1>1, <1>2, <2>1, GrowsBy
  <2> QED
    BY <2>2, <2>3 DEF CapitalOK
<1>3. CASE ~new /\ flags' \cap Cases = flags \cap Cases
  <2>1. capitals = {} => capitals' = {}
    BY <1>1, <1>3, GrowsBy
  <2>2. (\E i : capitals = {i}) => \E i : capitals' = {i}
    BY <1>1, <1>3, GrowsBy
  <2> QED
    BY <1>3, <2>1, <2>2 DEF CapitalOK
<1> QED
  BY <1>2, <1>3

\* A piece lies next to those before it
LEMMA PlacePut ==
  ASSUME NEW c, IF meth = "random" THEN Back(c) ELSE Front(c),
         PlaceOK, meth' = meth, len' = len, phase' = "build", Room(meth, len) \in Int,
         Length(c) \in Nat, Length(c) <= size, size' = size - Length(c)
  PROVE  PlaceOK'
<1> DEFINE n == Len(plain)
           room == Room(meth, len)
           w == Length(c)
<1>1. /\ n \in Nat /\ Len(plain') = n + 1 /\ size \in Nat /\ w \in Nat /\ w <= size /\ size' = size - w
      /\ Room(meth, len)' = room /\ room \in Int
  BY DEF Front, Back, PlaceOK, Room
<1>2. \A d : Length(d)' = Length(d)
  BY DEF Length
<1>3. size' \in Nat /\ (phase' = "done" => size' = 0 /\ ~unmet')
  BY <1>1
<1>4. CASE meth = "random"
  <2>1. Back(c)
    BY <1>4
  <2>2. PICK at : Lies(at, 0, room - size)
    BY <1>4 DEF PlaceOK
  <2>3. /\ at \in [1 .. n + 1 -> Int] /\ at[1] = 0 /\ at[n + 1] = room - size
        /\ \A i \in 1 .. n : at[i + 1] = at[i] + Length(plain[i])
    BY <2>2 DEF Lies
  <2> DEFINE to == [i \in 1 .. (n + 1) + 1 |-> IF i = n + 2 THEN room - size' ELSE at[i]]
  <2> HIDE DEF n, room, w
  <2>4. to \in [1 .. (n + 1) + 1 -> Int] /\ to[1] = 0 /\ to[(n + 1) + 1] = room - size'
    BY <1>1, <2>3
  <2>5. ASSUME NEW i \in 1 .. n + 1 PROVE to[i + 1] = to[i] + Length(plain'[i])
    <3>1. CASE i = n + 1
      <4>1. plain'[i] = c
        BY <2>1, <3>1 DEF Back, n
      <4>2. to[i + 1] = room - size' /\ to[i] = room - size
        BY <1>1, <2>3, <3>1
      <4> QED
        BY <1>1, <4>1, <4>2 DEF w
    <3>2. CASE i # n + 1
      <4>1. i \in 1 .. n /\ i + 1 \in 1 .. n + 1 /\ i # n + 2 /\ i + 1 # n + 2
        BY <1>1, <3>2
      <4>2. plain'[i] = plain[i]
        BY <2>1, <4>1 DEF Back, n
      <4>3. to[i + 1] = at[i + 1] /\ to[i] = at[i]
        BY <1>1, <4>1
      <4> QED
        BY <2>3, <4>1, <4>2, <4>3
    <3> QED
      BY <3>1, <3>2
  <2> HIDE DEF to
  <2>6. \E t : /\ t \in [1 .. Len(plain') + 1 -> Int] /\ t[1] = 0 /\ t[Len(plain') + 1] = room - size'
               /\ \A i \in 1 .. Len(plain') : t[i + 1] = t[i] + Length(plain'[i])
    BY <1>1, <2>4, <2>5
  <2>7. (\E t : Lies(t, 0, Room(meth, len) - size))'
    BY <1>1, <1>2, <2>6 DEF room, Lies
  <2> QED
    BY <1>3, <1>4, <2>7 DEF PlaceOK
<1>5. CASE meth # "random"
  <2>1. Front(c)
    BY <1>5
  <2>2. PICK at : Lies(at, size, room)
    BY <1>5 DEF PlaceOK
  <2>3. /\ at \in [1 .. n + 1 -> Int] /\ at[1] = size /\ at[n + 1] = room
        /\ \A i \in 1 .. n : at[i + 1] = at[i] + Length(plain[i])
    BY <2>2 DEF Lies
  <2> DEFINE to == [i \in 1 .. (n + 1) + 1 |-> IF i = 1 THEN size' ELSE at[i - 1]]
  <2> HIDE DEF n, room, w
  <2>4. \A i \in 1 .. (n + 1) + 1 : i # 1 => i - 1 \in 1 .. n + 1
    BY <1>1
  <2>5. to \in [1 .. (n + 1) + 1 -> Int] /\ to[1] = size' /\ to[(n + 1) + 1] = room
    BY <1>1, <2>3, <2>4
  <2>6. ASSUME NEW i \in 1 .. n + 1 PROVE to[i + 1] = to[i] + Length(plain'[i])
    <3>1. CASE i = 1
      <4>1. plain'[i] = c
        BY <2>1, <3>1 DEF Front
      <4>2. to[i + 1] = size /\ to[i] = size'
        BY <1>1, <2>3, <3>1
      <4> QED
        BY <1>1, <4>1, <4>2 DEF w
    <3>2. CASE i # 1
      <4>1. i - 1 \in 1 .. n /\ i - 1 + 1 = i /\ i + 1 # 1 /\ i + 1 - 1 = i
        BY <1>1, <3>2
      <4>2. plain'[i] = plain[i - 1]
        BY <2>1, <4>1 DEF Front, n
      <4>3. to[i + 1] = at[i] /\ to[i] = at[i - 1]
        BY <1>1, <3>2, <4>1
      <4>4. at[i] = at[i - 1] + Length(plain[i - 1])
        BY <2>3, <4>1
      <4> QED
        BY <4>2, <4>3, <4>4
    <3> QED
      BY <3>1, <3>2
  <2> HIDE DEF to
  <2>7. \E t : /\ t \in [1 .. Len(plain') + 1 -> Int] /\ t[1] = size' /\ t[Len(plain') + 1] = room
               /\ \A i \in 1 .. Len(plain') : t[i + 1] = t[i] + Length(plain'[i])
    BY <1>1, <2>5, <2>6
  <2>8. (\E t : Lies(t, size, Room(meth, len)))'
    BY <1>1, <1>2, <2>7 DEF room, Lies
  <2> QED
    BY <1>3, <1>5, <2>8 DEF PlaceOK
<1> QED
  BY <1>4, <1>5

\* A digit in front, or a syllable that may stand before what is there
LEMMA OrderFront ==
  ASSUME meth # "random", plain \in Seq(Tokens), NEW c, Front(c), OrderOK, meth' = meth,
         \/ c.kind # "key" /\ prev' = prev
         \/ c.kind = "key" /\ readable(c.knum) /\ c.knum # 0 /\ prev' = c.knum
  PROVE  OrderOK'
<1> DEFINE n == Len(plain)
<1>1. /\ n \in Nat /\ DOMAIN plain = 1 .. n /\ Len(plain') = n + 1 /\ DOMAIN plain' = 1 .. n + 1
      /\ plain'[1] = c /\ \A i \in 1 .. n : plain'[i + 1] = plain[i]
  BY DEF Front
<1>2. /\ prev = 0 => \A i \in 1 .. n : ~key(i)
      /\ \A i \in 1 .. n : key(i) /\ (\A k \in 1 .. i - 1 : ~key(k)) => plain[i].knum = prev
      /\ Varied /\ VowelAfterN
  BY <1>1 DEF OrderOK
<1>3. /\ key(1)' <=> c.kind = "key"
      /\ \A i \in 1 .. n : key(i + 1)' <=> key(i)
      /\ begins(1)' = Table[meth][c.knum].letter
      /\ \A i \in 1 .. n : begins(i + 1)' = begins(i)
  BY <1>1 DEF key, begins
<1>4. \A j \in 1 .. n + 1 : j = 1 \/ (j - 1 \in 1 .. n /\ j - 1 + 1 = j)
  BY <1>1
<1>5. (meth = "random" => prev = 0)'
  OBVIOUS
<1>6. ASSUME prev' = 0, NEW j \in 1 .. n + 1 PROVE ~key(j)'
  <2>1. c.kind # "key" /\ prev = 0
    BY <1>6
  <2>2. CASE j = 1
    BY <1>3, <2>1, <2>2
  <2>3. CASE j # 1
    <3>1. j - 1 \in 1 .. n /\ j - 1 + 1 = j
      BY <1>4, <2>3
    <3>2. ~key(j - 1)
      BY <1>2, <2>1, <3>1
    <3> QED
      BY <1>3, <3>1, <3>2
  <2> QED
    BY <2>2, <2>3
<1>7. ASSUME NEW j \in 1 .. n + 1, key(j)', \A k \in 1 .. j - 1 : ~key(k)'
      PROVE  plain'[j].knum = prev'
  <2>1. CASE j = 1
    BY <1>1, <1>3, <1>7, <2>1
  <2>2. CASE j # 1
    <3>1. j - 1 \in 1 .. n /\ j - 1 + 1 = j /\ 1 \in 1 .. j - 1
      BY <1>1, <1>4, <2>2
    <3>2. key(j - 1) /\ ~key(1)' /\ plain'[j] = plain[j - 1]
      BY <1>1, <1>3, <1>7, <3>1
    <3>3. \A k \in 1 .. (j - 1) - 1 : k \in 1 .. n /\ k + 1 \in 1 .. j - 1
      BY <3>1
    <3>4. \A k \in 1 .. (j - 1) - 1 : ~key(k)
      BY <1>3, <1>7, <3>3
    <3>5. plain[j - 1].knum = prev
      BY <1>2, <3>1, <3>2, <3>4
    <3> QED
      BY <1>3, <3>2, <3>5
  <2> QED
    BY <2>1, <2>2
<1>8. ASSUME NEW i \in 1 .. n + 1, NEW j \in 1 .. n + 1, i < j, key(i)', key(j)',
             \A k \in i + 1 .. j - 1 : ~key(k)'
      PROVE  plain'[i].knum # plain'[j].knum /\ (meth = "zh" => begins(i)' # begins(j)')
  <2> DEFINE b == j - 1
  <2>1. b \in 1 .. n /\ b + 1 = j
    BY <1>1, <1>8
  <2>2. key(b) /\ plain'[j] = plain[b] /\ begins(j)' = begins(b)
    BY <1>1, <1>3, <1>8, <2>1
  <2> HIDE DEF b
  <2>3. CASE i = 1
    <3>1. \A k \in 1 .. b - 1 : k \in 1 .. n /\ k + 1 \in i + 1 .. j - 1
      BY <2>1, <2>3
    <3>2. \A k \in 1 .. b - 1 : ~key(k)
      BY <1>3, <1>8, <3>1
    <3>3. plain[b].knum = prev /\ prev # 0
      BY <1>2, <2>1, <2>2, <3>2
    <3>4. c.kind = "key" /\ readable(c.knum)
      BY <1>3, <1>8, <2>3
    <3>5. c.knum # prev /\ (meth = "zh" => Table["zh"][c.knum].letter # Table["zh"][prev].letter)
      BY <3>3, <3>4 DEF readable
    <3>6. begins(b) = Table[meth][prev].letter
      BY <3>3 DEF begins
    <3> QED
      BY <1>1, <1>3, <2>2, <2>3, <3>3, <3>5, <3>6
  <2>4. CASE i # 1
    <3> DEFINE a == i - 1
    <3>1. a \in 1 .. n /\ a + 1 = i /\ a < b
      BY <1>1, <1>8, <2>1, <2>4
    <3>2. key(a) /\ plain'[i] = plain[a] /\ begins(i)' = begins(a)
      BY <1>1, <1>3, <1>8, <3>1
    <3> HIDE DEF a
    <3>3. \A k \in a + 1 .. b - 1 : k \in 1 .. n /\ k + 1 \in i + 1 .. j - 1
      BY <2>1, <3>1
    <3>4. \A k \in a + 1 .. b - 1 : ~key(k)
      BY <1>3, <1>8, <3>3
    <3>5. plain[a].knum # plain[b].knum /\ (meth = "zh" => begins(a) # begins(b))
      BY <1>1, <1>2, <2>1, <2>2, <3>1, <3>2, <3>4 DEF Varied
    <3> QED
      BY <2>2, <3>2, <3>5
  <2> QED
    BY <2>3, <2>4
<1>9. ASSUME meth = "jp", NEW i \in 1 .. n + 1, key(i)', plain'[i].knum = Len(Table["jp"])
      PROVE  i < n + 1 /\ key(i + 1)' /\ begins(i + 1)' \in Vowel
  <2>1. CASE i = 1
    <3>1. c.kind = "key" /\ c.knum = Len(Table["jp"]) /\ readable(c.knum)
      BY <1>1, <1>3, <1>9, <2>1
    <3>2. plain # <<>> /\ plain[1].kind = "key" /\ Table["jp"][plain[1].knum].letter \in Vowel
      BY <1>9, <3>1 DEF readable, jp_vowel
    <3>3. n # 0
      <4> DEFINE T == Tokens
      <4>1. plain \in Seq(T)
        OBVIOUS
      <4> HIDE DEF T
      <4> QED
        BY <3>2, <4>1
    <3>4. 1 \in 1 .. n /\ i < n + 1
      BY <1>1, <2>1, <3>3
    <3>5. key(1) /\ begins(1) \in Vowel
      BY <1>9, <3>2 DEF key, begins
    <3> QED
      BY <1>3, <2>1, <3>4, <3>5
  <2>2. CASE i # 1
    <3> DEFINE a == i - 1
    <3>1. a \in 1 .. n /\ a + 1 = i
      BY <1>1, <2>2
    <3>2. key(a) /\ plain[a].knum = Len(Table["jp"])
      BY <1>1, <1>3, <1>9, <3>1
    <3> HIDE DEF a
    <3>3. a < n /\ key(a + 1) /\ begins(a + 1) \in Vowel
      BY <1>1, <1>2, <1>9, <3>1, <3>2 DEF VowelAfterN
    <3>4. i \in 1 .. n /\ i < n + 1
      BY <1>1, <3>1, <3>3
    <3> QED
      BY <1>3, <3>1, <3>3, <3>4
  <2> QED
    BY <2>1, <2>2
<1>10. Varied'
  BY <1>1, <1>8 DEF Varied
<1>11. VowelAfterN'
  BY <1>1, <1>9 DEF VowelAfterN
<1> QED
  BY <1>1, <1>5, <1>6, <1>7, <1>10, <1>11 DEF OrderOK

\* A random password has no syllables.
LEMMA OrderBack ==
  ASSUME meth = "random", NEW c, Back(c), c.kind # "key", OrderOK, meth' = meth, prev' = prev
  PROVE  OrderOK'
<1>1. prev = 0 /\ \A i \in 1 .. Len(plain) : ~key(i)
  BY DEF OrderOK, Back
<1>2. \A i \in 1 .. Len(plain) + 1 : i = Len(plain) + 1 \/ i \in 1 .. Len(plain)
  BY DEF Back
<1>3. DOMAIN plain' = 1 .. Len(plain) + 1 /\ \A i \in 1 .. Len(plain) + 1 : ~key(i)'
  BY <1>1, <1>2 DEF Back, key
<1> QED
  BY <1>1, <1>3 DEF OrderOK, Varied, VowelAfterN

LEMMA RoomInt ==
  ASSUME len \in Nat
  PROVE  Room(meth, len) \in Int
  BY DEF Room

\* A try begins with an empty buffer and all wishes.
LEMMA TryOK ==
  ASSUME plain' = <<>>, size' = Room(meth', len'), flags' = want', prev' = 0, phase' = "build",
         len' \in Nat, len' > 1
  PROVE  DigitOK' /\ CapitalOK' /\ PlaceOK' /\ OrderOK'
<1>1. Len(plain') = 0 /\ DOMAIN plain' = {}
  OBVIOUS
<1>2. DigitOK' /\ CapitalOK'
  BY <1>1 DEF DigitOK, CapitalOK, digits, capitals
<1>3. OrderOK'
  BY <1>1 DEF OrderOK, Varied, VowelAfterN
<1>4. PlaceOK'
  <2>1. size' \in Nat /\ Room(meth, len)' = size'
    <3>1. Room(meth, len)' = Room(meth', len')
      BY DEF Room
    <3>2. Room(meth', len') = IF meth' = "random" THEN len' ELSE len' - 1
      BY DEF Room
    <3>3. \A n \in Nat : n > 1 => n - 1 \in Nat
      OBVIOUS
    <3> QED
      BY <3>1, <3>2, <3>3
  <2>2. ASSUME NEW from \in Int
        PROVE  \E t : /\ t \in [1 .. 0 + 1 -> Int] /\ t[1] = from /\ t[0 + 1] = from
                      /\ \A i \in 1 .. 0 : FALSE
    <3> DEFINE t == [i \in 1 .. 0 + 1 |-> from]
    <3>1. t \in [1 .. 0 + 1 -> Int] /\ t[1] = from /\ t[0 + 1] = from /\ \A i \in 1 .. 0 : FALSE
      OBVIOUS
    <3> QED
      BY <3>1
  <2>3. size' \in Int /\ 0 \in Int /\ size' - size' = 0
    BY <2>1
  <2>4. (\E t : Lies(t, size, Room(meth, len)))'
    BY <1>1, <2>1, <2>2, <2>3 DEF Lies
  <2>5. (\E t : Lies(t, 0, Room(meth, len) - size))'
    BY <1>1, <2>1, <2>2, <2>3 DEF Lies
  <2> QED
    BY <2>1, <2>4, <2>5 DEF PlaceOK
<1> QED
  BY <1>2, <1>3, <1>4

LEMMA TokenLen ==
  ASSUME meth \in Method, meth # "random", NEW k \in DOMAIN Table[meth]
  PROVE  Table[meth][k].len \in Nat \ {0} /\ k # 0
<1>1. meth \in {"jp", "zh"}
  BY DEF Method
<1> QED
  BY <1>1, TableAssumption

\* Pieces that lie side by side add up to the distance between the ends.
LEMMA FilledIs ==
  ASSUME meth \in Method, plain \in Seq(Tokens), NEW at, NEW from \in Int, NEW to \in Int, Lies(at, from, to)
  PROVE  Filled = to - from
<1> DEFINE n == Len(plain)
           T == Tokens
           f == CHOOSE f : f = [i \in 0 .. n |-> IF i = 0 THEN 0 ELSE f[i - 1] + Length(plain[i])]
           g == [i \in 0 .. n |-> at[i + 1] - from]
<1>1. n \in Nat
  <2>1. plain \in Seq(T)
    OBVIOUS
  <2> HIDE DEF T
  <2> QED
    BY <2>1
<1>2. Filled = f[n]
  BY DEF Filled
<1>3. /\ at \in [1 .. n + 1 -> Int] /\ at[1] = from /\ at[n + 1] = to
      /\ \A i \in 1 .. n : at[i + 1] = at[i] + Length(plain[i])
  BY DEF Lies
<1> HIDE DEF n
<1>4. ASSUME NEW i \in 1 .. n PROVE Length(plain[i]) \in Int
  <2>1. plain[i] \in Tokens
    <3>1. plain \in Seq(T)
      OBVIOUS
    <3> HIDE DEF T
    <3>2. plain[i] \in T
      BY <3>1 DEF n
    <3> QED
      BY <3>2 DEF T
  <2>2. CASE plain[i] \in {Digit, Letter}
    BY <2>2, TokenIs
  <2>3. ASSUME NEW k \in Syllables, NEW up \in BOOLEAN, plain[i] = Syllable(k, up) PROVE Length(plain[i]) \in Int
    <3>1. Length(plain[i]) = Table[meth][k].len
      BY <2>3, TokenIs
    <3>2. meth # "random" /\ k \in DOMAIN Table[meth]
      BY DEF Syllables
    <3> QED
      BY <3>1, <3>2, TokenLen
  <2> QED
    BY <2>1, <2>2, <2>3 DEF Tokens
<1>5. g = [i \in 0 .. n |-> IF i = 0 THEN 0 ELSE g[i - 1] + Length(plain[i])]
  <2>1. ASSUME NEW i \in 0 .. n PROVE g[i] = IF i = 0 THEN 0 ELSE g[i - 1] + Length(plain[i])
    <3>1. CASE i = 0
      BY <1>1, <1>3, <3>1
    <3>2. CASE i # 0
      <4>1. i \in 1 .. n /\ i - 1 \in 0 .. n /\ i - 1 + 1 = i /\ i + 1 \in 1 .. n + 1 /\ i \in 1 .. n + 1
        BY <1>1, <3>2
      <4>2. g[i - 1] = at[i] - from /\ g[i] = at[i + 1] - from
        BY <4>1
      <4> QED
        BY <1>3, <1>4, <3>2, <4>1, <4>2
    <3> QED
      BY <3>1, <3>2
  <2>2. g = [i \in 0 .. n |-> g[i]]
    OBVIOUS
  <2> HIDE DEF g
  <2> QED
    BY <2>1, <2>2
<1>6. f = [i \in 0 .. n |-> IF i = 0 THEN 0 ELSE f[i - 1] + Length(plain[i])]
  <2> HIDE DEF g
  <2> QED
    BY <1>5
<1> HIDE DEF f
<1>7. f[n] = g[n]
  <2> DEFINE bad == {i \in 0 .. n : f[i] # g[i]}
  <2> HIDE DEF g
  <2> SUFFICES ASSUME bad # {} PROVE FALSE
    BY <1>1
  <2>1. PICK k \in bad : \A j \in bad : k <= j
    <3>1. bad \subseteq Nat
      OBVIOUS
    <3> HIDE DEF bad
    <3> QED
      BY <3>1, LeastNat
  <2>2. k \in 0 .. n /\ f[k] # g[k]
    OBVIOUS
  <2>3. f[0] = 0 /\ g[0] = 0
    <3>1. 0 \in 0 .. n
      BY <1>1
    <3> QED
      BY <1>5, <1>6, <3>1
  <2>4. k # 0 /\ k - 1 \in 0 .. n /\ ~ (k <= k - 1)
    BY <1>1, <2>2, <2>3
  <2>5. f[k - 1] = g[k - 1]
    BY <2>1, <2>4
  <2>6. f[k] = f[k - 1] + Length(plain[k])
    BY <1>6, <2>2, <2>4
  <2>7. g[k] = g[k - 1] + Length(plain[k])
    BY <1>5, <2>2, <2>4
  <2> QED
    BY <2>2, <2>5, <2>6, <2>7
<1>8. g[n] = to - from
  BY <1>1, <1>3
<1> QED
  BY <1>2, <1>7, <1>8

\* A call begins with the buffer empty and all wishes open.
LEMMA CallStep ==
  ASSUME GenpwInv, NEW m \in Method, NEW n \in Nat, NEW fl, vxutil_genpw(m, n, fl)
  PROVE  GenpwInv'
<1>1. /\ phase = "idle" /\ plain = <<>> /\ meth' \in Method /\ len' \in Nat
      /\ meth' = m /\ len' = n /\ want' = fl
  BY DEF vxutil_genpw, GenpwInv, PlainOK
<1>2. <<>> \in Seq(Tokens')
  OBVIOUS
<1>3. CASE n <= 1
  <2>1. phase' = "done" /\ plain' = <<>> /\ ~ (len' > 1)
    BY <1>1, <1>3 DEF vxutil_genpw
  <2> QED
    BY <1>1, <1>2, <2>1 DEF GenpwInv, PlainOK
<1>4. CASE ~ (n <= 1)
  <2>1. /\ phase' = "build" /\ plain' = <<>> /\ size' = Room(meth', len') /\ flags' = want' /\ prev' = 0
        /\ len' > 1
    BY <1>1, <1>4 DEF vxutil_genpw
  <2>2. DigitOK' /\ CapitalOK' /\ PlaceOK' /\ OrderOK'
    BY <1>1, <2>1, TryOK
  <2>3. PlainOK'
    BY <1>1, <1>2, <2>1 DEF PlainOK
  <2> QED
    BY <2>2, <2>3 DEF GenpwInv
<1> QED
  BY <1>3, <1>4

LEMMA AtWork ==
  ASSUME GenpwInv, phase = "build"
  PROVE  /\ meth \in Method /\ len \in Nat /\ len > 1 /\ plain \in Seq(Tokens) /\ size \in Nat
         /\ Room(meth, len) \in Int
         /\ DigitOK /\ (meth # "random" => CapitalOK) /\ PlaceOK /\ OrderOK
<1>1. meth \in Method /\ len \in Nat /\ len > 1 /\ plain \in Seq(Tokens)
  BY DEF GenpwInv, PlainOK
<1>2. DigitOK /\ (meth # "random" => CapitalOK) /\ PlaceOK /\ OrderOK
  BY <1>1 DEF GenpwInv
<1> QED
  BY <1>1, <1>2, RoomInt DEF PlaceOK

LEMMA DigitStep == ASSUME GenpwInv, put_digit PROVE GenpwInv'
<1>1. /\ phase = "build" /\ size > 0 /\ flags \cap Digits # {} /\ Put(Digit, 1)
      /\ flags' = flags \ Digits /\ UNCHANGED <<phase, meth, len, want, prev>>
  BY DEF put_digit, args
<1>2. /\ meth \in Method /\ len \in Nat /\ len > 1 /\ plain \in Seq(Tokens) /\ size \in Nat
      /\ Room(meth, len) \in Int
      /\ DigitOK /\ (meth # "random" => CapitalOK) /\ PlaceOK /\ OrderOK
  BY <1>1, AtWork
<1>3. /\ Digit \in Tokens /\ Digit.kind = "digit" /\ Length(Digit) = 1
  BY TokenIs
<1>4. /\ plain' \in Seq(Tokens') /\ size' = size - 1
      /\ IF meth = "random" THEN Back(Digit) ELSE Front(Digit)
  BY <1>1, <1>2, <1>3, PutIs
<1>5. PlainOK'
  BY <1>1, <1>2, <1>4 DEF PlainOK
<1>6. DigitOK'
  BY <1>1, <1>2, <1>3, <1>4, DigitPut
<1>7. meth # "random" => CapitalOK'
  <2>1. flags' \cap Cases = flags \cap Cases
    BY <1>1 DEF Digits, Cases
  <2> QED
    BY <1>1, <1>2, <1>3, <1>4, <2>1, CapitalPut
<1>8. PlaceOK'
  BY <1>1, <1>2, <1>3, <1>4, PlacePut
<1>9. OrderOK'
  BY <1>1, <1>2, <1>3, <1>4, OrderFront, OrderBack
<1> QED
  BY <1>1, <1>5, <1>6, <1>7, <1>8, <1>9 DEF GenpwInv

LEMMA SyllableStep ==
  ASSUME GenpwInv, NEW k \in Syllables, NEW up \in BOOLEAN, put_syllable(k, up)
  PROVE  GenpwInv'
<1> DEFINE c == Syllable(k, up)
<1>1. /\ phase = "build" /\ meth # "random" /\ size > 0 /\ Table[meth][k].len <= size /\ readable(k) /\ drawn(up)
      /\ Put(c, Table[meth][k].len) /\ flags' = (IF up THEN flags \ Cases ELSE flags) /\ prev' = k
      /\ UNCHANGED <<phase, meth, len, want>>
  BY DEF put_syllable, args, fits
<1>2. /\ meth \in Method /\ len \in Nat /\ len > 1 /\ plain \in Seq(Tokens) /\ size \in Nat
      /\ Room(meth, len) \in Int
      /\ DigitOK /\ (meth # "random" => CapitalOK) /\ PlaceOK /\ OrderOK
  BY <1>1, AtWork
<1>3. /\ c \in Tokens /\ c.kind = "key" /\ c.knum = k /\ c.upper = up /\ Length(c) = Table[meth][k].len
  BY TokenIs
<1>4. Length(c) \in Nat /\ k # 0
  <2>1. k \in DOMAIN Table[meth]
    BY <1>1 DEF Syllables
  <2> QED
    BY <1>1, <1>2, <1>3, <2>1, TokenLen
<1> HIDE DEF c
<1>5. plain' \in Seq(Tokens') /\ size' = size - Length(c) /\ Front(c)
  BY <1>1, <1>2, <1>3, PutIs
<1>6. PlainOK'
  BY <1>1, <1>2, <1>5 DEF PlainOK
<1>7. DigitOK'
  <2>1. flags' \cap Digits = flags \cap Digits
    BY <1>1 DEF Digits, Cases
  <2> QED
    BY <1>1, <1>2, <1>3, <1>5, <2>1, DigitPut
<1>8. CapitalOK'
  <2>1. CASE up
    <3>1. flags \cap Cases # {} /\ flags' = flags \ Cases
      BY <1>1, <2>1 DEF drawn
    <3> QED
      BY <1>1, <1>2, <1>3, <1>5, <2>1, <3>1, CapitalPut
  <2>2. CASE ~up
    <3>1. flags' \cap Cases = flags \cap Cases
      BY <1>1, <2>2
    <3> QED
      BY <1>1, <1>2, <1>3, <1>5, <2>2, <3>1, CapitalPut
  <2> QED
    BY <2>1, <2>2
<1>9. PlaceOK'
  BY <1>1, <1>2, <1>3, <1>4, <1>5, PlacePut
<1>10. OrderOK'
  BY <1>1, <1>2, <1>3, <1>4, <1>5, OrderFront
<1> QED
  BY <1>6, <1>7, <1>8, <1>9, <1>10 DEF GenpwInv

LEMMA LetterStep == ASSUME GenpwInv, NEW up \in BOOLEAN, put_letter(up) PROVE GenpwInv'
<1>1. /\ phase = "build" /\ meth = "random" /\ size > 0 /\ Put(Letter, 1)
      /\ flags' = (IF up THEN flags \ Cases ELSE flags)
      /\ UNCHANGED <<phase, meth, len, want, prev>>
  BY DEF put_letter, args
<1>2. /\ meth \in Method /\ len \in Nat /\ len > 1 /\ plain \in Seq(Tokens) /\ size \in Nat
      /\ Room(meth, len) \in Int
      /\ DigitOK /\ (meth # "random" => CapitalOK) /\ PlaceOK /\ OrderOK
  BY <1>1, AtWork
<1>3. Letter \in Tokens /\ Letter.kind = "letter" /\ Length(Letter) = 1
  BY TokenIs
<1>4. plain' \in Seq(Tokens') /\ size' = size - 1 /\ Back(Letter)
  BY <1>1, <1>2, <1>3, PutIs
<1>5. PlainOK'
  BY <1>1, <1>2, <1>4 DEF PlainOK
<1>6. DigitOK'
  <2>1. flags' \cap Digits = flags \cap Digits
    BY <1>1 DEF Digits, Cases
  <2> QED
    BY <1>1, <1>2, <1>3, <1>4, <2>1, DigitPut
<1>7. PlaceOK'
  BY <1>1, <1>2, <1>3, <1>4, PlacePut
<1>8. OrderOK'
  BY <1>1, <1>2, <1>3, <1>4, OrderBack
<1> QED
  BY <1>1, <1>5, <1>6, <1>7, <1>8 DEF GenpwInv

\* So does another try, whatever was made of the one before.
LEMMA RedoStep == ASSUME GenpwInv, redo PROVE GenpwInv'
<1>1. /\ phase = "build" /\ UNCHANGED <<phase, meth, len, want>>
      /\ plain' = <<>> /\ size' = Room(meth, len) /\ flags' = want /\ prev' = 0
  BY DEF redo, args
<1>2. meth \in Method /\ len \in Nat /\ len > 1
  BY <1>1, AtWork
<1>3. DigitOK' /\ CapitalOK' /\ PlaceOK' /\ OrderOK'
  BY <1>1, <1>2, TryOK
<1>4. plain' \in Seq(Tokens')
  BY <1>1
<1> QED
  BY <1>1, <1>2, <1>3, <1>4 DEF GenpwInv, PlainOK

\* Without a change to the buffer and the flags, all this stays.
LEMMA SameCall ==
  ASSUME UNCHANGED <<meth, len, want, plain, size, flags, prev>>
  PROVE  /\ DigitOK' = DigitOK /\ CapitalOK' = CapitalOK /\ OrderOK' = OrderOK /\ Tokens' = Tokens
         /\ \A at, from, to : Lies(at, from, to)' = Lies(at, from, to)
<1>1. DigitOK' = DigitOK /\ CapitalOK' = CapitalOK
  BY DEF DigitOK, CapitalOK, digits, capitals
<1>2. OrderOK' = OrderOK
  BY DEF OrderOK, Varied, VowelAfterN, key, begins
<1>3. Tokens' = Tokens /\ \A c : Length(c)' = Length(c)
  BY DEF Tokens, Digit, Letter, Syllable, Syllables, Length
<1>4. \A at, from, to : Lies(at, from, to)' = Lies(at, from, to)
  BY <1>3 DEF Lies
<1> QED
  BY <1>1, <1>2, <1>3, <1>4

LEMMA ReturnStep == ASSUME GenpwInv, return PROVE GenpwInv'
<1>1. /\ phase = "build" /\ size <= 0 /\ ~unmet /\ phase' = "done"
      /\ UNCHANGED <<meth, len, want, plain, size, flags, prev>>
  BY DEF return, args
<1>2. /\ meth \in Method /\ len \in Nat /\ plain \in Seq(Tokens) /\ size \in Nat
      /\ DigitOK /\ (meth # "random" => CapitalOK) /\ PlaceOK /\ OrderOK
  BY <1>1, AtWork
<1>3. DigitOK' = DigitOK /\ CapitalOK' = CapitalOK /\ OrderOK' = OrderOK /\ Tokens' = Tokens
      /\ \A at, from, to : Lies(at, from, to)' = Lies(at, from, to)
  BY <1>1, SameCall
<1>4. PlainOK'
  BY <1>1, <1>2, <1>3 DEF PlainOK
<1>5. PlaceOK'
  <2>1. size' = 0 /\ ~unmet' /\ Room(meth, len)' = Room(meth, len)
    BY <1>1, <1>2 DEF unmet, Room
  <2> QED
    BY <1>1, <1>2, <1>3, <2>1 DEF PlaceOK
<1> QED
  BY <1>1, <1>2, <1>3, <1>4, <1>5 DEF GenpwInv

LEMMA GenpwStep == GenpwInv /\ [GenpwNext]_genpw_vars => GenpwInv'
<1> SUFFICES ASSUME GenpwInv, [GenpwNext]_genpw_vars PROVE GenpwInv'
  OBVIOUS
<1>1. CASE UNCHANGED genpw_vars
  <2>1. UNCHANGED <<phase, meth, len, want, plain, size, flags, prev>>
    BY <1>1 DEF genpw_vars, args
  <2>2. DigitOK' = DigitOK /\ CapitalOK' = CapitalOK /\ OrderOK' = OrderOK /\ Tokens' = Tokens
        /\ \A at, from, to : Lies(at, from, to)' = Lies(at, from, to)
    BY <2>1, SameCall
  <2>3. PlaceOK' = PlaceOK
    BY <2>1, <2>2 DEF PlaceOK, unmet, Room
  <2>4. PlainOK' = PlainOK
    BY <2>1, <2>2 DEF PlainOK
  <2> QED
    BY <2>1, <2>2, <2>3, <2>4 DEF GenpwInv
<1>2. ASSUME NEW m \in Method, NEW n \in 0 .. MaxLen, NEW fl \in Wishes, vxutil_genpw(m, n, fl) PROVE GenpwInv'
  BY <1>2, CallStep
<1>3. CASE Step
  BY <1>3, DigitStep, SyllableStep, LetterStep, RedoStep, ReturnStep DEF Step
<1>4. CASE used
  <2>1. phase' = "idle" /\ plain' = <<>> /\ UNCHANGED <<meth, len>>
    BY <1>4 DEF used, args
  <2> QED
    BY <2>1 DEF GenpwInv, PlainOK
<1> QED
  BY <1>1, <1>2, <1>3, <1>4 DEF GenpwNext

LEMMA GenpwInvHolds == GenpwSpec => []GenpwInv
<1>1. GenpwInit => GenpwInv
  BY DEF GenpwInit, GenpwInv, PlainOK, Method
<1> QED
  BY <1>1, GenpwStep, PTL DEF GenpwSpec

(* A password that is returned has the characteristics that were asked for,  *)
(* however many tries genpw_jp(), genpw_zh() and genpw_random() made.        *)
THEOREM WishesMet == GenpwSpec => []Characteristics
<1>1. GenpwInv => Characteristics
  <2> SUFFICES ASSUME GenpwInv, Made PROVE
        /\ Cardinality(digits) \in IF "1DIGIT" \in want THEN {1} ELSE IF "O1DIGIT" \in want THEN {0, 1} ELSE {0}
        /\ meth # "random" =>
             Cardinality(capitals) \in IF "1CASE" \in want THEN {1} ELSE IF "O1CASE" \in want THEN {0, 1} ELSE {0}
    BY DEF Characteristics
  <2>1. DigitOK /\ (meth # "random" => CapitalOK) /\ flags \cap Must = {}
    BY DEF GenpwInv, Made, PlaceOK, unmet
  <2>2. Cardinality({}) = 0 /\ \A i : Cardinality({i}) = 1
    BY FS_EmptySet, FS_Singleton
  <2>3. "1DIGIT" \notin flags /\ "1CASE" \notin flags
    BY <2>1 DEF Must
  <2>4. Cardinality(digits) \in IF "1DIGIT" \in want THEN {1} ELSE IF "O1DIGIT" \in want THEN {0, 1} ELSE {0}
    <3>1. CASE flags \cap Digits = want \cap Digits
      <4>1. "1DIGIT" \notin want /\ digits = {}
        BY <2>1, <2>3, <3>1 DEF Digits, DigitOK
      <4> QED
        BY <2>2, <4>1
    <3>2. CASE flags \cap Digits # want \cap Digits
      <4>1. flags \cap Digits = {} /\ \E i : digits = {i}
        BY <2>1, <3>2 DEF DigitOK
      <4>2. Cardinality(digits) = 1
        BY <2>2, <4>1
      <4>3. "1DIGIT" \in want \/ "O1DIGIT" \in want
        BY <3>2, <4>1 DEF Digits
      <4> QED
        BY <4>2, <4>3
    <3> QED
      BY <3>1, <3>2
  <2>5. ASSUME meth # "random"
        PROVE  Cardinality(capitals) \in IF "1CASE" \in want THEN {1} ELSE IF "O1CASE" \in want THEN {0, 1} ELSE {0}
    <3>1. CASE flags \cap Cases = want \cap Cases
      <4>1. "1CASE" \notin want /\ capitals = {}
        BY <2>1, <2>3, <2>5, <3>1 DEF Cases, CapitalOK
      <4> QED
        BY <2>2, <4>1
    <3>2. CASE flags \cap Cases # want \cap Cases
      <4>1. flags \cap Cases = {} /\ \E i : capitals = {i}
        BY <2>1, <2>5, <3>2 DEF CapitalOK
      <4>2. Cardinality(capitals) = 1
        BY <2>2, <4>1
      <4>3. "1CASE" \in want \/ "O1CASE" \in want
        BY <3>2, <4>1 DEF Cases
      <4> QED
        BY <4>2, <4>3
    <3> QED
      BY <3>1, <3>2
  <2> QED
    BY <2>4, <2>5
<1> QED
  BY <1>1, GenpwInvHolds, PTL

(* It fills its buffer exactly and can be read out.                          *)
THEOREM PasswordsReadable == GenpwSpec => []FullAndReadable
<1>1. GenpwInv => FullAndReadable
  <2> SUFFICES ASSUME GenpwInv, Made PROVE Filled = Room(meth, len) /\ Varied /\ VowelAfterN
    BY DEF FullAndReadable
  <2>1. meth \in Method /\ plain \in Seq(Tokens) /\ Room(meth, len) \in Int
    BY RoomInt DEF GenpwInv, PlainOK
  <2>2. PlaceOK /\ OrderOK /\ phase = "done"
    BY DEF GenpwInv, Made
  <2>3. size = 0 /\ Room(meth, len) - size = Room(meth, len)
    BY <2>1, <2>2 DEF PlaceOK
  <2>4. PICK at : Lies(at, 0, Room(meth, len))
    BY <2>2, <2>3 DEF PlaceOK
  <2>5. Filled = Room(meth, len) - 0
    BY <2>1, <2>4, FilledIs
  <2> QED
    BY <2>1, <2>2, <2>5 DEF OrderOK
<1> QED
  BY <1>1, GenpwInvHolds, PTL
=============================================================================
