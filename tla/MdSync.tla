------------------------------- MODULE MdSync -------------------------------
(***************************************************************************)
(* libvxmdsync and its programs.  usersync, and steelmill in its dialogs,  *)
(* make the accounts of one group agree with an external list (EDS):       *)
(* listed people without an account get one, accounts of people who are    *)
(* not listed any more are deleted after DEFERRED_DELETION days, and a     *)
(* timer that runs is stopped when the person is back on the list.         *)
(* newuser adds one person.  A run holds the write lock of the database    *)
(* from its start to its end, so there is one run at a time.               *)
(***************************************************************************)
EXTENDS Integers, Sequences, FiniteSets

CONSTANTS
  Uuid,          \* the people; UuidOrder has them in the order of HXmap
  UuidOrder,
  Pvgrp,         \* private groups (classes) in the list
  Name,          \* login names
  LName,         \* vxutil_propose_lname(): from people to login names
  format_name,   \* fixup.c: from <<login name, index>> to login names
  MaxIndex,      \* the last index that format_name() takes
  None,
  InitAccounts,  \* the accounts at the start
  Defer,         \* DEFERRED_DELETION
  PostaddFlush,  \* POSTADD_FLUSH=yes and a USER_POSTADD command
  WriteThrough,  \* whether the driver stores every change at once
  Faults,        \* what may go wrong: a subset of {"fail", "skip", "crash"}
  Programs,      \* which programs run: a subset of {"usersync", "newuser", "steelmill"}
  MaxDay         \* bound on the days

\* grp: whether the account is in the group that is synchronized
Account == [uuid : Uuid \cup {None}, pvgrp : Pvgrp \cup {None}, vs_defer : Nat, grp : BOOLEAN]
Accounts == [Name -> Account \cup {None}]
List == [Uuid -> Pvgrp \cup {None}]

Used(d)    == {n \in Name : d[n] # None}
Members(d) == {n \in Used(d) : d[n].grp}

\* No two accounts of the group are of one person.
Once(d) == \A m, n \in Members(d) : d[m].uuid # None /\ d[m].uuid = d[n].uuid => m = n

ASSUME MdSyncAssumption ==
  /\ Defer \in Nat /\ MaxDay \in Nat
  /\ None \notin Uuid \cup Pvgrp \cup Account
  /\ InitAccounts \in Accounts /\ Once(InitAccounts)
  /\ Programs \subseteq {"usersync", "newuser", "steelmill"}

\* Everyone is in UuidOrder once.  Numbered variants of one name may be the
\* same name (the name is cut to make room for the number), but there are
\* enough different ones: after number 9999 format_name() ends the process.
ASSUME NamesAssumption ==
  /\ IsFiniteSet(Uuid) /\ IsFiniteSet(Used(InitAccounts))
  /\ UuidOrder \in Seq(Uuid) /\ Uuid = {UuidOrder[i] : i \in 1 .. Len(UuidOrder)}
  /\ \A i, j \in 1 .. Len(UuidOrder) : UuidOrder[i] = UuidOrder[j] => i = j
  /\ LName \in [Uuid -> Name]
  /\ MaxIndex \in Nat /\ format_name \in [Name \X (1 .. MaxIndex) -> Name]
  /\ \A name \in Name : Cardinality({format_name[<<name, i>>] : i \in 1 .. MaxIndex})
                          >= Cardinality(Used(InitAccounts)) + Cardinality(Uuid)

VARIABLES
  eds,       \* the external list: the private group of everyone listed
  today,     \* vxutil_now_iday()
  file,      \* the accounts as stored
  db,        \* the accounts as the run sees them
  homes,     \* the accounts with a home directory
  prog,      \* the program that runs
  pc,        \* what the run does next
  add_req, lnlist, update_req, defer_start, defer_stop, delete_now,
  cur,       \* the account that mdsync_add() or mdsync_del() is in the middle of
  input,     \* history: the list that the run has read
  complete,  \* history: whether the run has neither failed nor skipped a part
  begun_on,  \* history: the day of the comparison
  done_on    \* history: the last day on which a completed run found a person listed

work == <<add_req, lnlist, update_req, defer_start, defer_stop, delete_now>>
world == <<eds, today>>
history == <<begun_on, input, done_on>>
vars == <<world, file, db, homes, prog, pc, work, cur, complete, history>>

Nothing == [u \in {} |-> None]
Nobody == [u \in Uuid |-> None]

Init ==
  /\ eds \in List /\ today = 1
  /\ file = InitAccounts /\ db = file /\ homes = {n \in Name : file[n] # None}
  /\ prog = None /\ pc = "idle"
  /\ add_req = Nothing /\ update_req = Nothing
  /\ lnlist = {} /\ defer_start = {} /\ defer_stop = {} /\ delete_now = {}
  /\ cur = None /\ complete = FALSE
  /\ input = Nobody /\ begun_on = 0
  /\ done_on = [u \in Uuid |-> 0]

-----------------------------------------------------------------------------
(* Outside *)

EdsChange(u, g) ==
  /\ pc = "idle" /\ eds' = [eds EXCEPT ![u] = g]
  /\ UNCHANGED <<today, file, db, homes, prog, pc, work, cur, complete, history>>

\* Between the runs, or while a run waits for an answer
NewDay ==
  /\ pc \in {"idle", "continue", "ask_add", "ask_mod", "ask_del"}
  /\ today < MaxDay /\ today' = today + 1
  /\ UNCHANGED <<eds, file, db, homes, prog, pc, work, cur, complete, history>>

-----------------------------------------------------------------------------
(* Reading and comparing: no user is changed *)

Begin(program, list) ==
  /\ program \in Programs
  /\ pc = "idle" /\ pc' = "compare" /\ prog' = program
  /\ db' = file
  /\ add_req' = [u \in {v \in Uuid : list[v] # None} |-> [username |-> LName[u], pvgrp |-> list[u]]]
  /\ complete' = TRUE /\ input' = list
  /\ begun_on' = today
  /\ UNCHANGED <<world, file, homes, lnlist, update_req, defer_start, defer_stop, delete_now,
                 cur, done_on>>

\* sync_init() and mdsync_read_file(), and the same in WD_SyncParam::Compare()
BeginSync(program) == program # "newuser" /\ Begin(program, eds)

\* newuser: "Make sure you do not add a user twice by accident."
careful(u) == \A n \in Members(file) : file[n].uuid # u

\* single_init() and single_run() of newuser, for one person
BeginSingle(u, g) ==
  /\ careful(u)
  /\ Begin("newuser", [Nobody EXCEPT ![u] = g])

Listed(n)  == db[n].uuid \in DOMAIN add_req

\* mutant: accounts outside the group are looked at, too
Analyzed_All(d) == Used(d)

Analyzed(d) == Members(d)

Expired(n) == today >= db[n].vs_defer + Defer

\* mutant: those who have an account stay in add_req
mdsync_compare_Keep ==
  /\ prog # "newuser" /\ pc = "compare" /\ pc' = "fixup"
  /\ lnlist' = Used(db)
  /\ LET found   == {n \in Analyzed(db) : Listed(n)}
         missing == Analyzed(db) \ found
     IN  /\ update_req' = [n \in found |-> add_req[db[n].uuid].pvgrp]
         /\ defer_stop' = {n \in found : db[n].vs_defer # 0}
         /\ defer_start' = {n \in missing : Defer # 0 /\ db[n].vs_defer = 0}
         /\ delete_now' = {n \in missing : Defer = 0 \/ (db[n].vs_defer # 0 /\ Expired(n))}
  /\ UNCHANGED <<world, file, db, homes, prog, add_req, cur, complete, history>>

\* mutant: the timer of somebody who is listed again goes on
mdsync_compare_NoStop ==
  /\ prog # "newuser" /\ pc = "compare" /\ pc' = "fixup"
  /\ lnlist' = Used(db)
  /\ LET found   == {n \in Analyzed(db) : Listed(n)}
         missing == Analyzed(db) \ found
     IN  /\ update_req' = [n \in found |-> add_req[db[n].uuid].pvgrp]
         /\ add_req' = [u \in DOMAIN add_req \ {db[n].uuid : n \in found} |-> add_req[u]]
         /\ defer_stop' = {}
         /\ defer_start' = {n \in missing : Defer # 0 /\ db[n].vs_defer = 0}
         /\ delete_now' = {n \in missing : Defer = 0 \/ (db[n].vs_defer # 0 /\ Expired(n))}
  /\ UNCHANGED <<world, file, db, homes, prog, cur, complete, history>>

\* What is to be done about each account of the group.  No two of them have
\* the same uuid (see UuidOnce), so their order does not matter.  The new
\* group is compared with the uuid.
mdsync_compare ==
  /\ prog # "newuser" /\ pc = "compare" /\ pc' = "fixup"
  /\ lnlist' = Used(db)
  /\ LET found   == {n \in Analyzed(db) : Listed(n)}
         missing == Analyzed(db) \ found
         update  == {n \in found : add_req[db[n].uuid].pvgrp # db[n].uuid}
     IN  /\ update_req' = [n \in update |-> add_req[db[n].uuid].pvgrp]
         /\ add_req' = [u \in DOMAIN add_req \ {db[n].uuid : n \in found} |-> add_req[u]]
         /\ defer_stop' = {n \in found : db[n].vs_defer # 0}
         /\ defer_start' = {n \in missing : Defer # 0 /\ db[n].vs_defer = 0}
         /\ delete_now' = {n \in missing : Defer = 0 \/ (db[n].vs_defer # 0 /\ Expired(n))}
  /\ UNCHANGED <<world, file, db, homes, prog, cur, complete, history>>

mdsync_compare_simple ==
  /\ prog = "newuser" /\ pc = "compare" /\ pc' = "fixup"
  /\ lnlist' = Used(db)
  /\ UNCHANGED <<world, file, db, homes, prog, add_req, update_req, defer_start, defer_stop, delete_now,
                 cur, complete, history>>

Index == 1 .. MaxIndex

\* The name proposed for u, or the first of its numbered variants, that is not
\* in the set taken.
FreeName(u, taken) ==
  LET name == add_req[u].username
      index == CHOOSE i \in Index : /\ format_name[<<name, i>>] \notin taken
                                    /\ \A j \in 1 .. i - 1 : format_name[<<name, j>>] \in taken
  IN  IF name \notin taken THEN name ELSE format_name[<<name, index>>]

\* mutant: the names that have just been given are not remembered
Named_Forgotten(given, u) ==
  IF u \notin DOMAIN add_req THEN given
  ELSE [v \in DOMAIN given \cup {u} |-> IF v = u THEN FreeName(u, lnlist) ELSE given[v]]

\* The names that have been given, and one for u, who is next
Named(given, u) ==
  LET taken == lnlist \cup {given[v] : v \in DOMAIN given}
  IN  IF u \notin DOMAIN add_req THEN given
      ELSE [v \in DOMAIN given \cup {u} |-> IF v = u THEN FreeName(u, taken) ELSE given[v]]

\* The names given to the first i people, each in turn.
Given(i) ==
  LET g[j \in 0 .. i] == IF j = 0 THEN Nothing ELSE Named(g[j - 1], UuidOrder[j])
  IN  g[i]

mdsync_fixup ==
  /\ pc = "fixup"
  /\ pc' = CASE prog = "newuser" -> "add" [] prog = "usersync" -> "ask_add" [] OTHER -> "continue"
  /\ LET names == Given(Len(UuidOrder))
     IN  /\ add_req' = [u \in DOMAIN add_req |-> [add_req[u] EXCEPT !.username = names[u]]]
         /\ lnlist' = lnlist \cup {names[u] : u \in DOMAIN names}
  /\ UNCHANGED <<world, file, db, homes, prog, update_req, defer_start, defer_stop, delete_now,
                 cur, complete, history>>

\* The results are shown in WD_SyncProg, where the user goes on or cancels.
Continue ==
  /\ pc = "continue"
  /\ \/ pc' = "ask_add" /\ UNCHANGED complete
     \/ "skip" \in Faults /\ pc' = "close" /\ complete' = FALSE
  /\ UNCHANGED <<world, file, db, homes, prog, work, cur, history>>

-----------------------------------------------------------------------------
(* Adding, changing and deleting: the three parts of sync_run() and of       *)
(* WD_SyncProg::Continue()                                                   *)

Ask == [add |-> "ask_add", mod |-> "ask_mod", del |-> "ask_del"]
After(part) ==
  CASE part = "add" -> (IF prog = "newuser" THEN "close" ELSE "ask_mod")
    [] part = "mod" -> "ask_del"
    [] OTHER        -> "close"

\* mutant: timers to be stopped do not count
Items_StartOnly(part) ==
  CASE part = "add" -> DOMAIN add_req
    [] part = "mod" -> defer_start
    [] OTHER        -> delete_now

\* What decides whether a part is done: update_req does not count.
Items(part) ==
  CASE part = "add" -> DOMAIN add_req
    [] part = "mod" -> defer_start \cup defer_stop
    [] OTHER        -> delete_now

\* sync_add(), sync_mod() and sync_del(): the answer to ask_continue() or the
\* options --no-add, --no-mod and --no-del can leave out the part.
sync_part(part) ==
  /\ pc = Ask[part]
  /\ \/ pc' = (IF Items(part) # {} THEN part ELSE After(part)) /\ UNCHANGED complete
     \/ /\ "skip" \in Faults /\ Items(part) # {}
        /\ pc' = After(part) /\ complete' = FALSE
  /\ UNCHANGED <<world, file, db, homes, prog, work, cur, history>>

Store(d) == db' = d /\ file' = IF WriteThrough THEN d ELSE file

mdsync_free ==
  /\ add_req' = Nothing /\ update_req' = Nothing
  /\ lnlist' = {} /\ defer_start' = {} /\ defer_stop' = {} /\ delete_now' = {}

\* The process ends.
Exit ==
  /\ pc' = "idle" /\ prog' = None /\ cur' = None /\ complete' = FALSE
  /\ mdsync_free /\ input' = Nobody /\ begun_on' = 0

\* A part has failed: usersync leaves out the parts after it, steelmill goes on
\* with them.
Failed(part) ==
  /\ pc' = IF prog = "usersync" THEN "close" ELSE After(part)
  /\ cur' = None /\ complete' = FALSE
  /\ UNCHANGED <<prog, work, input, begun_on>>

\* newuser exits without closing the database.
FailedAdd == IF prog = "newuser" THEN Exit ELSE Failed("add")

\* A call of the driver fails: the rest of this part is left out; mdsync_add()
\* flushes all the same.
Fail ==
  /\ "fail" \in Faults
  /\ \/ pc = "add" /\ DOMAIN add_req # {} /\ file' = db /\ FailedAdd
     \/ pc = "mod" /\ defer_start \cup defer_stop # {} /\ UNCHANGED file /\ Failed("mod")
     \/ pc = "del" /\ delete_now # {} /\ UNCHANGED file /\ Failed("del")
     \/ pc = "userdel" /\ UNCHANGED file /\ Failed("del")
  /\ UNCHANGED <<world, db, homes, done_on>>

NewAccount(u) == [uuid |-> u, pvgrp |-> add_req[u].pvgrp, vs_defer |-> 0, grp |-> TRUE]

\* vxdb_useradd() and vxdb_getpwnam(); if the second one fails the account is
\* there, but what follows is not done.
Useradd(u) ==
  /\ pc = "add" /\ u \in DOMAIN add_req
  /\ LET n == add_req[u].username
         d == [db EXCEPT ![n] = NewAccount(u)]
     IN  /\ n \in Name \ Used(db)
         /\ \/ /\ pc' = IF PostaddFlush THEN "flush" ELSE "home"
               /\ cur' = n
               /\ add_req' = [v \in DOMAIN add_req \ {u} |-> add_req[v]]
               /\ Store(d)
               /\ UNCHANGED <<prog, lnlist, update_req, defer_start, defer_stop, delete_now, complete,
                              input, begun_on>>
            \/ "fail" \in Faults /\ FailedAdd /\ db' = d /\ file' = d
  /\ UNCHANGED <<world, homes, done_on>>

UseraddFlush ==
  /\ pc = "flush" /\ pc' = "home"
  /\ file' = db
  /\ UNCHANGED <<world, db, homes, prog, work, cur, complete, history>>

\* A home directory that cannot be made is worth a warning.
create_home ==
  /\ pc = "home" /\ pc' = "add"
  /\ cur' = None
  /\ \/ homes' = homes \cup {cur}
     \/ "fail" \in Faults /\ UNCHANGED homes
  /\ UNCHANGED <<world, file, db, prog, work, complete, history>>

\* The end of mdsync_add(); newuser is done with it.
AddEnd ==
  /\ pc = "add" /\ DOMAIN add_req = {}
  /\ pc' = After("add") /\ file' = db
  /\ UNCHANGED <<world, db, homes, prog, work, cur, complete, history>>

Update(n) ==
  /\ pc = "mod" /\ n \in DOMAIN update_req
  /\ Store([db EXCEPT ![n].pvgrp = update_req[n]])
  /\ update_req' = [m \in DOMAIN update_req \ {n} |-> update_req[m]]
  /\ UNCHANGED <<world, homes, prog, pc, add_req, lnlist, defer_start, defer_stop, delete_now,
                 cur, complete, history>>

DeferStart(n) ==
  /\ pc = "mod" /\ DOMAIN update_req = {} /\ n \in defer_start
  /\ Store([db EXCEPT ![n].vs_defer = today])
  /\ defer_start' = defer_start \ {n}
  /\ UNCHANGED <<world, homes, prog, pc, add_req, lnlist, update_req, defer_stop, delete_now,
                 cur, complete, history>>

DeferStop(n) ==
  /\ pc = "mod" /\ DOMAIN update_req = {} /\ defer_start = {} /\ n \in defer_stop
  /\ Store([db EXCEPT ![n].vs_defer = 0])
  /\ defer_stop' = defer_stop \ {n}
  /\ UNCHANGED <<world, homes, prog, pc, add_req, lnlist, update_req, defer_start, delete_now,
                 cur, complete, history>>

ModEnd ==
  /\ pc = "mod" /\ defer_start \cup defer_stop = {} /\ DOMAIN update_req = {}
  /\ pc' = After("mod")
  /\ UNCHANGED <<world, file, db, homes, prog, work, cur, complete, history>>

\* mdsync_del(): HX_rrmdir() before vxdb_userdel()
Rrmdir(n) ==
  /\ pc = "del" /\ n \in delete_now
  /\ pc' = "userdel" /\ cur' = n
  /\ homes' = homes \ {n}
  /\ delete_now' = delete_now \ {n}
  /\ UNCHANGED <<world, file, db, prog, add_req, lnlist, update_req, defer_start, defer_stop,
                 complete, history>>

Userdel ==
  /\ pc = "userdel" /\ pc' = "del"
  /\ Store([db EXCEPT ![cur] = None])
  /\ cur' = None
  /\ UNCHANGED <<world, homes, prog, work, complete, history>>

DelEnd ==
  /\ pc = "del" /\ delete_now = {}
  /\ pc' = After("del")
  /\ UNCHANGED <<world, file, db, homes, prog, work, cur, complete, history>>

\* sync_cleanup(), single_cleanup() and release_priv()
Close ==
  /\ pc = "close" /\ file' = db /\ Exit
  /\ done_on' = [u \in Uuid |-> IF complete /\ input[u] # None THEN today ELSE done_on[u]]
  /\ UNCHANGED <<world, db, homes>>

\* The process is killed: what was not flushed is lost.
Crash ==
  /\ "crash" \in Faults
  /\ pc # "idle" /\ Exit
  /\ db' = file
  /\ UNCHANGED <<world, file, homes, done_on>>

-----------------------------------------------------------------------------
Next ==
  \/ \E u \in Uuid, g \in Pvgrp \cup {None} : EdsChange(u, g)
  \/ NewDay
  \/ (\E program \in Programs : BeginSync(program)) \/ (\E u \in Uuid, g \in Pvgrp : BeginSingle(u, g))
  \/ mdsync_compare \/ mdsync_compare_simple \/ mdsync_fixup
  \/ Continue \/ (\E part \in DOMAIN Ask : sync_part(part)) \/ Fail
  \/ (\E u \in Uuid : Useradd(u)) \/ UseraddFlush \/ create_home \/ AddEnd
  \/ (\E n \in Name : Update(n) \/ DeferStart(n) \/ DeferStop(n)) \/ ModEnd
  \/ (\E n \in Name : Rrmdir(n)) \/ Userdel \/ DelEnd
  \/ Close \/ Crash

Spec == Init /\ [][Next]_vars

-----------------------------------------------------------------------------
(* Nobody gets a second account, however often a run is broken off and       *)
(* repeated.                                                                 *)
UuidOnce == Once(db) /\ Once(file)

(* The names that mdsync_fixup() gives are free, and no two are the same:    *)
(* vxdb_useradd() does not meet an account of that name.                     *)
NewNamesFree ==
  pc \in {"add", "flush", "home"} =>
    /\ \A u \in DOMAIN add_req : db[add_req[u].username] = None
    /\ \A u, v \in DOMAIN add_req : add_req[u].username = add_req[v].username => u = v

(* Accounts outside the group keep all they have, home directory included.   *)
OutsidersUntouched ==
  \A n \in Name : InitAccounts[n] # None /\ ~InitAccounts[n].grp =>
    db[n] = InitAccounts[n] /\ file[n] = InitAccounts[n] /\ n \in homes

(* After a run in which nothing failed or was left out, everyone listed (or  *)
(* added by newuser) has one account, with no timer, and after a             *)
(* synchronization every other account of the group has a timer that had not *)
(* expired on the day of the comparison.                                     *)
SyncComplete ==
  pc = "close" /\ complete =>
    /\ \A u \in Uuid : input[u] # None =>
         Cardinality({n \in Members(db) : db[n].uuid = u /\ db[n].vs_defer = 0}) = 1
    /\ prog # "newuser" =>
         \A n \in Members(db) : db[n].uuid = None \/ input[db[n].uuid] = None =>
           Defer # 0 /\ db[n].vs_defer # 0 /\ begun_on < db[n].vs_defer + Defer

(* An account is not deleted before Defer days have passed since a completed *)
(* run found its owner listed or newuser added it, whichever programs ran,   *)
(* failed or were killed in between and however long they waited for answers.*)
KeptSinceDone ==
  [][\A n \in Name : Rrmdir(n) /\ db[n].uuid # None =>
       today >= done_on[db[n].uuid] + Defer]_vars
=============================================================================
