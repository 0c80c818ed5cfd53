------------------------------ MODULE SerialDb ------------------------------
(***************************************************************************)
(* What the users of the shadow driver rely on: the database has at most   *)
(* one owner at a time; the owner gets a whole copy, works on it, and puts *)
(* it back in one step; an owner that goes away without being killed has   *)
(* put back all it did; nothing else changes the database.                 *)
(***************************************************************************)
EXTENDS ShadowFiles

CONSTANTS Proc, NoProc, HasVx, InitDisks, AddRq, ModRq, GroupAddRq, GroupModRq,
          Killable        \* whether owners may be killed

VARIABLES
  db,       \* the four files, as a whole
  owner,    \* who holds the database
  work,     \* the owner's copy
  changed   \* whether the copy has changes that are not in db

vars == <<db, owner, work, changed>>

NoWork == [users |-> <<>>, groups |-> <<>>]

Init == db \in InitDisks /\ owner = NoProc /\ work = NoWork /\ changed = FALSE

Begin(p) ==
  /\ owner = NoProc
  /\ owner' = p
  /\ work' = [users |-> ReadUsers(db, HasVx), groups |-> db.group]
  /\ UNCHANGED <<db, changed>>

UserResults(us) ==
  UNION ({useradd(us, rq) : rq \in AddRq}
         \cup {usermod(us, n, rq) : n \in UserName, rq \in ModRq}
         \cup {userdel(us, n) : n \in UserName})

GroupResults(gs) ==
  UNION ({groupadd(gs, rq) : rq \in GroupAddRq}
         \cup {groupmod(gs, n, rq) : n \in GroupName, rq \in GroupModRq}
         \cup {groupdel(gs, n) : n \in GroupName})

Operate(p) ==
  /\ owner = p
  /\ \/ \E us \in UserResults(work.users) : work' = [work EXCEPT !.users = us]
     \/ \E gs \in GroupResults(work.groups) : work' = [work EXCEPT !.groups = gs]
  /\ changed' = TRUE
  /\ UNCHANGED <<db, owner>>

Commit(p) ==
  /\ owner = p
  /\ LET img == WriteImage(work.users, work.groups)
     IN  db' = IF HasVx THEN img ELSE [img EXCEPT !.vxshadow = db.vxshadow]
  /\ changed' = FALSE
  /\ UNCHANGED <<owner, work>>

Leave == owner' = NoProc /\ work' = NoWork /\ changed' = FALSE /\ UNCHANGED db

End(p)  == owner = p /\ ~changed /\ Leave
Kill(p) == Killable /\ owner = p /\ Leave

Next == \E p \in Proc : Begin(p) \/ Operate(p) \/ Commit(p) \/ End(p) \/ Kill(p)

Spec == Init /\ [][Next]_vars
=============================================================================
