-------------------------------- MODULE Mmd --------------------------------
(***************************************************************************)
(* The mmd driver: one database made of several.  It loads and opens the   *)
(* modules named by RD_MODULES and WR_MODULE, sends every change to the    *)
(* write module, looks names and ids up in the write module first and then *)
(* in the others, and walks the lists of all of them one after the other.  *)
(* The modules are other drivers: ordered lists of users and groups and a  *)
(* relation between them, opened for reading or writing, with traversers   *)
(* of their own.                                                           *)
(***************************************************************************)
EXTENDS Integers, Sequences, FiniteSets

CONSTANTS
  Readers,      \* RD_MODULES, in their order
  Writer,       \* WR_MODULE
  None,         \* no entry, no traverser; Writer when WR_MODULE is empty
  Name,         \* the names of each kind
  InitDb,       \* the users and the groups of every module at the start
  InitSg,       \* the memberships of every module at the start
  Wanted,       \* ids that callers ask for, AutoId's two numbers among them
  AutoRange,       \* UID_MIN to UID_MAX and GID_MIN to GID_MAX
  M, ENOSPC, LongIsInt,   \* as in AutoId
  MaxEntries    \* bound: users, groups and memberships of the write module

Kinds == {"user", "group"}

Modules == {Readers[i] : i \in DOMAIN Readers} \cup ({Writer} \ {None})

Entry(kind) == [name : Name[kind], id : 0 .. M - 1]

\* A traverser of a module: the next entry it gives, and whether it is still
\* allocated.
Iter == [mod : Modules, pos : Nat \ {0}, live : BOOLEAN]

\* struct vxmmd_trav: the lists to be walked, the traverser of the module at
\* hand, the read module that is next, and whether the write module is.
Trav == [kind : Kinds, itrav : Iter \cup {None}, rd_mod : 1 .. Len(Readers) + 1, wr_mod : BOOLEAN]

\* A module holds no name twice.
Unique(list) == \A i, j \in DOMAIN list : list[i].name = list[j].name => i = j

ASSUME MmdAssumption ==
  /\ Readers \in Seq(Modules)
  /\ \A i, j \in DOMAIN Readers : Readers[i] = Readers[j] => i = j
  /\ \A i \in DOMAIN Readers : Readers[i] # Writer /\ Readers[i] # None
  /\ None \notin Iter /\ None \notin Trav
  /\ DOMAIN InitDb = Kinds
  /\ \A k \in Kinds :
       /\ DOMAIN InitDb[k] = Modules
       /\ \A m \in Modules : InitDb[k][m] \in Seq(Entry(k)) /\ Unique(InitDb[k][m])
  /\ InitSg \in [Modules -> SUBSET (Name["user"] \X Name["group"])]
  /\ M \in Nat /\ M % 2 = 0 /\ ENOSPC \in 3 .. M /\ LongIsInt \in BOOLEAN
  /\ Wanted \subseteq 0 .. M - 1
  /\ \A k \in Kinds :
       /\ AutoRange[k].max \in Nat /\ AutoRange[k].max < M - ENOSPC
       /\ AutoRange[k].min \in 1 .. AutoRange[k].max

VARIABLES
  phase,     \* of the mmd handle: "out", "loaded", "open", or on its way
  at,        \* the module that a loop over all of them has come to
  inst,      \* of each module, what vxdb_load(), open, close and unload made of it
  mh_state,  \* of each module, what the handle has on record
  writable,  \* modules opened with VXDB_WRLOCK, or locked since
  db,        \* the users and the groups of each module
  sg,        \* the memberships of each module: pairs of a user and a group
  trav,      \* struct vxmmd_trav of the traversal in progress, or None
  ret,       \* of vxmmd_usertrav_walk(), or its like: "running" before it returns
  skipped,   \* history: modules that gave the traversal no traverser
  due,       \* history: the entries there were when the traversal began
  seen       \* history: the entries it has returned

module == <<phase, at, inst, mh_state, writable>>
data   == <<db, sg>>
walk   == <<trav, ret, skipped, due, seen>>
vars   == <<module, data, walk>>

Init ==
  /\ phase = "out" /\ at = 1
  /\ inst = [m \in Modules |-> "out"] /\ mh_state = inst
  /\ writable = {}
  /\ db = InitDb /\ sg = InitSg
  /\ trav = None /\ ret = "none" /\ skipped = {} /\ due = <<>> /\ seen = <<>>

-----------------------------------------------------------------------------
(* Loading and opening, one module at a time; any of them may fail.         *)

Order == Append(Readers, Writer)

\* The end of a turn of a loop over list; phase is next after the last one.
Turn(list, next) ==
  /\ at' = IF at < Len(list) THEN at + 1 ELSE 1
  /\ phase' = IF at < Len(list) THEN phase ELSE next

Begin(from, to) == phase = from /\ phase' = to /\ at' = 1

Becomes(m, state) ==
  /\ inst' = [inst EXCEPT ![m] = state]
  /\ mh_state' = [mh_state EXCEPT ![m] = state]

vxmmd_init ==
  Begin("out", "loading") /\ UNCHANGED <<inst, mh_state, writable, data, walk>>

\* An empty WR_MODULE is a bad name for vxdb_load().
modules_construct(ok) ==
  /\ phase = "loading"
  /\ IF ok /\ Order[at] # None
       THEN Becomes(Order[at], "loaded") /\ Turn(Order, "loaded")
       ELSE Begin("loading", "unloading") /\ UNCHANGED <<inst, mh_state>>
  /\ UNCHANGED <<writable, data, walk>>

modules_destruct ==
  /\ phase = "unloading"
  /\ LET m == Order[at]
     IN  IF m # None /\ mh_state[m] = "loaded"
           THEN Becomes(m, "out")
           ELSE UNCHANGED <<inst, mh_state>>
  /\ Turn(Order, "out")
  /\ UNCHANGED <<writable, data, walk>>

\* modules_open() opens the write module first, with the caller's flags ...
vxmmd_open(write, ok) ==
  /\ phase = "loaded"
  /\ IF ok
       THEN /\ Becomes(Writer, "open")
            /\ writable' = IF write THEN {Writer} ELSE {}
            /\ Begin("loaded", IF Readers = <<>> THEN "open" ELSE "opening")
       ELSE UNCHANGED module
  /\ UNCHANGED <<data, walk>>

\* mutant: when one fails to open, the others are left as they are
modules_open_NoClose(ok) ==
  /\ phase = "opening"
  /\ IF ok THEN Becomes(Readers[at], "open") /\ Turn(Readers, "open")
           ELSE Begin("opening", "loaded") /\ UNCHANGED <<inst, mh_state>>
  /\ UNCHANGED <<writable, data, walk>>

\* ... and then the readers, without VXDB_WRLOCK.
modules_open(ok) ==
  /\ phase = "opening"
  /\ IF ok THEN Becomes(Readers[at], "open") /\ Turn(Readers, "open")
           ELSE Begin("opening", "closing") /\ UNCHANGED <<inst, mh_state>>
  /\ UNCHANGED <<writable, data, walk>>

modules_close ==
  /\ phase = "closing"
  /\ LET m == Order[at]
     IN  /\ mh_state' = [mh_state EXCEPT ![m] = "loaded"]
         /\ IF mh_state[m] = "open"
              THEN inst' = [inst EXCEPT ![m] = "loaded"] /\ writable' = writable \ {m}
              ELSE UNCHANGED <<inst, writable>>
  /\ Turn(Order, "loaded")
  /\ UNCHANGED <<data, walk>>

vxmmd_close ==
  /\ trav = None
  /\ Begin("open", "closing") /\ UNCHANGED <<inst, mh_state, writable, data, walk>>

vxmmd_exit ==
  Begin("loaded", "unloading") /\ UNCHANGED <<inst, mh_state, writable, data, walk>>

\* The write module may refuse either.
vxmmd_lock ==
  /\ phase = "open" /\ trav = None
  /\ writable' \in {writable, writable \cup {Writer}}
  /\ UNCHANGED <<phase, at, inst, mh_state, data, walk>>

vxmmd_unlock ==
  /\ phase = "open" /\ trav = None
  /\ writable' \in {writable, writable \ {Writer}}
  /\ UNCHANGED <<phase, at, inst, mh_state, data, walk>>

-----------------------------------------------------------------------------
(* Changes: all of them go to the write module, which refuses them unless   *)
(* it may be written.                                                       *)

Names(kind, m) == {db[kind][m][i].name : i \in DOMAIN db[kind][m]}
Ids(kind, m)   == {db[kind][m][i].id : i \in DOMAIN db[kind][m]}

\* mutant: the read modules are asked first
Asked_ReadersFirst == Append(Readers, Writer)

\* Lookups, counts and traversals begin with the write module.
Asked == <<Writer>> \o Readers

\* One list after the other
Joined(lists) ==
  LET upto[i \in 0 .. Len(lists)] == IF i = 0 THEN <<>> ELSE upto[i - 1] \o lists[i]
  IN  upto[Len(lists)]

\* The entries of those of the first n modules that are in ok
Combined(kind, ok, n) ==
  Joined([j \in 1 .. n |-> IF Asked[j] \in ok THEN db[kind][Asked[j]] ELSE <<>>])

\* What a walk of the whole list may give when the modules in out give no
\* traverser and those in bad may fail: it ends with the first one that does.
\* With two readers and more it may also stop early: see WalkReader.
WalkOf(kind, out, bad) ==
  {Combined(kind, Modules \ out, n) : n \in {Len(Asked)} \cup 2 .. Len(Asked)}
  \cup UNION {{Combined(kind, Modules \ out, n - 1) \o SubSeq(db[kind][Asked[n]], 1, p) :
                 p \in 0 .. Len(db[kind][Asked[n]])} : n \in {j \in DOMAIN Asked : Asked[j] \in bad}}

Walks(kind, bad) == UNION {WalkOf(kind, out, bad) : out \in SUBSET bad}

A(kind) ==
  INSTANCE AutoId WITH ids <- <<>>, given <- 0,
                       driver <- "mmd", wide <- ~LongIsInt, Explicit <- {}, MaxUsers <- 0,
                       IdMin <- AutoRange[kind].min, IdMax <- AutoRange[kind].max

IdsIn(list) == [i \in DOMAIN list |-> list[i].id]

\* The ids that AutoId's search may come to when each of its passes walks one
\* of lists.
ChosenFrom(lists, kind, wanted) ==
  LET r       == A(kind)!Limits(wanted)
      high(l) == A(kind)!Highest(IdsIn(l), r)
      next(l) == 0 <= high(l) /\ high(l) < r.max
      has(l, a) == \E i \in DOMAIN l : l[i].id = a
      used(a) == \E l \in lists : has(l, a)
      free(a) == \E l \in lists : ~has(l, a)
  IN  IF wanted \notin {A(kind)!AUTOID, A(kind)!AUTOID_SYS} THEN {wanted}
      ELSE {A(kind)!Unsigned(high(l) + 1) : l \in {k \in lists : next(k)}}
           \cup {a \in r.min .. r.max :
                   (\E l \in lists : ~next(l)) /\ free(a) /\ \A b \in r.min .. a - 1 : used(b)}
           \cup {a \in {A(kind)!Full} :
                   (\E l \in lists : ~next(l)) /\ \A b \in r.min .. r.max : used(b)}

\* mutant: only the write module is searched for ids in use
autoid_WriterOnly(kind, bad, wanted) == ChosenFrom({db[kind][Writer]}, kind, wanted)

\* A walk that fails is taken for one that has ended.
autoid(kind, bad, wanted) == ChosenFrom(Walks(kind, bad), kind, wanted)

vxmmd_autouid(bad, wanted) == autoid("user", bad, wanted)
vxmmd_autogid(bad, wanted) == autoid("group", bad, wanted)

Refused(id) == id = (-ENOSPC) % M /\ LongIsInt

Change == phase = "open" /\ Writer \in writable /\ ret # "running"

Room ==
  Len(db["user"][Writer]) + Len(db["group"][Writer]) + Cardinality(sg[Writer]) < MaxEntries

Addable(kind, n) == n \notin Names(kind, Writer) /\ Room

Add(kind, n, id) ==
  /\ ~Refused(id)
  /\ db' = [db EXCEPT ![kind][Writer] = Append(@, [name |-> n, id |-> id])]

vxmmd_useradd(n, wanted, bad) ==
  /\ Change /\ Addable("user", n)
  /\ \E id \in vxmmd_autouid(bad, wanted) : Add("user", n, id)
  /\ UNCHANGED <<module, sg, walk>>

vxmmd_groupadd(n, wanted, bad) ==
  /\ Change /\ Addable("group", n)
  /\ \E id \in vxmmd_autogid(bad, wanted) : Add("group", n, id)
  /\ UNCHANGED <<module, sg, walk>>

\* The callers give a new name that is free (vxusermod -l apart, for which see
\* AccountTools), or none.
Modify(kind, n, new, id) ==
  /\ new = n \/ new \notin Names(kind, Writer)
  /\ \E i \in DOMAIN db[kind][Writer] :
       /\ db[kind][Writer][i].name = n
       /\ db' = [db EXCEPT ![kind][Writer][i] = [name |-> new, id |-> id]]

\* Whether the memberships follow a new name is up to the write module.
Follow(members) == sg' \in {sg, [sg EXCEPT ![Writer] = members]}

vxmmd_usermod(n, new, id) ==
  /\ Change /\ Modify("user", n, new, id)
  /\ Follow({<<IF p[1] = n THEN new ELSE p[1], p[2]>> : p \in sg[Writer]})
  /\ UNCHANGED <<module, walk>>

vxmmd_groupmod(n, new, id) ==
  /\ Change /\ Modify("group", n, new, id)
  /\ Follow({<<p[1], IF p[2] = n THEN new ELSE p[2]>> : p \in sg[Writer]})
  /\ UNCHANGED <<module, walk>>

Remove(kind, n) ==
  \E i \in DOMAIN db[kind][Writer] :
    /\ db[kind][Writer][i].name = n
    /\ db' = [db EXCEPT ![kind][Writer] = SubSeq(@, 1, i - 1) \o SubSeq(@, i + 1, Len(@))]

\* No program deletes while it traverses the list.
vxmmd_userdel(n) ==
  Change /\ trav = None /\ Remove("user", n) /\ UNCHANGED <<module, sg, walk>>

vxmmd_groupdel(n) ==
  Change /\ trav = None /\ Remove("group", n) /\ UNCHANGED <<module, sg, walk>>

vxmmd_sgmapadd(u, g) ==
  /\ Change /\ Room
  /\ sg' = [sg EXCEPT ![Writer] = @ \cup {<<u, g>>}]
  /\ UNCHANGED <<module, db, walk>>

vxmmd_sgmapdel(u, g) ==
  /\ Change /\ <<u, g>> \in sg[Writer]
  /\ sg' = [sg EXCEPT ![Writer] = @ \ {<<u, g>>}]
  /\ UNCHANGED <<module, db, walk>>

-----------------------------------------------------------------------------
(* Looking up.  A module whose answer is an error, one that is not in ok,  *)
(* counts as one that has no such entry.                                   *)

\* The entry that the first module to have one with this name or id gives.
Lookup(kind, ok, field, value) ==
  LET has(m) == {i \in DOMAIN db[kind][m] : db[kind][m][i][field] = value}
      hit    == {j \in DOMAIN Asked : Asked[j] \in ok /\ has(Asked[j]) # {}}
      least(S) == CHOOSE i \in S : \A j \in S : i <= j
      m      == Asked[least(hit)]
  IN  IF hit = {} THEN None ELSE db[kind][m][least(has(m))]

vxmmd_getpwnam(n, ok)  == Lookup("user", ok, "name", n)
vxmmd_getpwuid(id, ok) == Lookup("user", ok, "id", id)
vxmmd_getgrnam(n, ok)  == Lookup("group", ok, "name", n)
vxmmd_getgrgid(id, ok) == Lookup("group", ok, "id", id)

\* mutant: the write module is not counted
vxmmd_modctl_count_ReadersOnly(kind, ok) ==
  LET upto[i \in 0 .. Len(Readers)] ==
        IF i = 0 THEN 0
        ELSE upto[i - 1] + IF Readers[i] \in ok THEN Len(db[kind][Readers[i]]) ELSE 0
  IN  upto[Len(Readers)]

\* What VXDB_COUNT_USERS and VXDB_COUNT_GROUPS give; a module that fails counts
\* nothing.
vxmmd_modctl_count(kind, ok) ==
  LET upto[i \in 0 .. Len(Asked)] ==
        IF i = 0 THEN 0
        ELSE upto[i - 1] + IF Asked[i] \in ok THEN Len(db[kind][Asked[i]]) ELSE 0
  IN  upto[Len(Asked)]

\* The list for a user: each module's groups, one list after the other, so
\* that a group that two modules have comes twice.
vxmmd_sgmapget(u, ok) == {p \in ok \X Name["group"] : <<u, p[2]>> \in sg[p[1]]}

-----------------------------------------------------------------------------
(* Traversal *)

NewTraverser(m) == [mod |-> m, pos |-> 1, live |-> TRUE]
Freed(it) == [it EXCEPT !.live = FALSE]
Exhausted(it) == it.pos > Len(db[trav.kind][it.mod])
Current(it) == db[trav.kind][it.mod][it.pos]
Advanced(it) == [it EXCEPT !.pos = @ + 1]

Places(kind, m) ==
  [i \in DOMAIN db[kind][m] |-> [mod |-> m, pos |-> i, name |-> db[kind][m][i].name]]

Entries(kind, ok) ==
  Joined([j \in DOMAIN Asked |-> IF Asked[j] \in ok THEN Places(kind, Asked[j]) ELSE <<>>])

\* The write module is left out if it gives no traverser.
TravInit(kind, ok) ==
  /\ phase = "open" /\ trav = None
  /\ trav' = [kind |-> kind, itrav |-> IF ok THEN NewTraverser(Writer) ELSE None,
              rd_mod |-> 1, wr_mod |-> ok]
  /\ ret' = "none"
  /\ skipped' = IF ok THEN {} ELSE {Writer}
  /\ due' = Entries(kind, Modules) /\ seen' = <<>>
  /\ UNCHANGED <<module, data>>

vxmmd_usertrav_init(ok)  == TravInit("user", ok)
vxmmd_grouptrav_init(ok) == TravInit("group", ok)

\* A call of the walk function; the steps up to its return are below.  The
\* callers stop at the end and at the first error.
TravWalk(kind) ==
  /\ trav # None /\ trav.kind = kind
  /\ ret \in {"none", "entry"}
  /\ ret' = "running"
  /\ UNCHANGED <<module, data, trav, skipped, due, seen>>

vxmmd_usertrav_walk  == TravWalk("user")
vxmmd_grouptrav_walk == TravWalk("group")

Return(it) ==
  /\ trav' = [trav EXCEPT !.itrav = Advanced(it)]
  /\ seen' = Append(seen, [mod |-> it.mod, pos |-> it.pos, name |-> Current(it).name])
  /\ ret' = "entry"

AtReader == ret = "running" /\ ~trav.wr_mod /\ trav.rd_mod <= Len(Readers)

\* mutant: the traverser of the write module is not reset
WalkWriter_NoReset ==
  /\ ret = "running" /\ trav.wr_mod
  /\ LET it == trav.itrav
     IN  IF Exhausted(it)
           THEN /\ trav' = [trav EXCEPT !.wr_mod = FALSE, !.itrav = Freed(it)]
                /\ UNCHANGED <<seen, ret>>
           ELSE Return(it)
  /\ UNCHANGED <<module, data, skipped, due>>

WalkWriter ==
  /\ ret = "running" /\ trav.wr_mod
  /\ LET it == trav.itrav
     IN  IF Exhausted(it)
           THEN /\ trav' = [trav EXCEPT !.wr_mod = FALSE, !.itrav = None]
                /\ UNCHANGED <<seen, ret>>
           ELSE Return(it)
  /\ UNCHANGED <<module, data, skipped, due>>

\* The traverser for a turn of the loop over the readers.  At the end of a
\* reader's list its traverser is freed, but itrav still points to it when the
\* next reader's turn comes.
Traverser == IF trav.itrav = None THEN NewTraverser(Readers[trav.rd_mod]) ELSE trav.itrav

\* What a reader does with a freed traverser is undefined; here it finds
\* nothing, and frees it again.
WalkReader ==
  /\ AtReader
  /\ IF Traverser.live /\ ~Exhausted(Traverser)
       THEN Return(Traverser)
       ELSE /\ trav' = [trav EXCEPT !.itrav = Freed(Traverser), !.rd_mod = @ + 1]
            /\ UNCHANGED <<seen, ret>>
  /\ UNCHANGED <<module, data, skipped, due>>

\* A reader that gives no traverser is left out.
SkipReader ==
  /\ AtReader /\ trav.itrav = None
  /\ trav' = [trav EXCEPT !.rd_mod = @ + 1]
  /\ skipped' = skipped \cup {Readers[trav.rd_mod]}
  /\ UNCHANGED <<module, data, ret, due, seen>>

\* The error of a module is the caller's.
WalkFails ==
  /\ AtReader \/ (ret = "running" /\ trav.wr_mod)
  /\ trav' = [trav EXCEPT !.itrav = Traverser]
  /\ ret' = "error"
  /\ UNCHANGED <<module, data, skipped, due, seen>>

WalkEnd ==
  /\ ret = "running" /\ ~trav.wr_mod /\ trav.rd_mod > Len(Readers)
  /\ ret' = "end"
  /\ UNCHANGED <<module, data, trav, skipped, due, seen>>

TravFree(kind) ==
  /\ trav # None /\ trav.kind = kind
  /\ ret # "running"
  /\ trav' = None
  /\ ret' = "none" /\ skipped' = {} /\ due' = <<>> /\ seen' = <<>>
  /\ UNCHANGED <<module, data>>

vxmmd_usertrav_free  == TravFree("user")
vxmmd_grouptrav_free == TravFree("group")

-----------------------------------------------------------------------------
UserName  == Name["user"]
GroupName == Name["group"]
NewId == Wanted \cap (0 .. M - ENOSPC - 1)

Next ==
  \/ vxmmd_init \/ vxmmd_exit \/ vxmmd_close \/ modules_destruct \/ modules_close
  \/ \E ok \in BOOLEAN : modules_construct(ok) \/ modules_open(ok)
  \/ \E write, ok \in BOOLEAN : vxmmd_open(write, ok)
  \/ vxmmd_lock \/ vxmmd_unlock
  \/ \E n \in UserName, wanted \in Wanted, bad \in SUBSET Modules : vxmmd_useradd(n, wanted, bad)
  \/ \E n \in GroupName, wanted \in Wanted, bad \in SUBSET Modules : vxmmd_groupadd(n, wanted, bad)
  \/ \E n, new \in UserName, id \in NewId : vxmmd_usermod(n, new, id)
  \/ \E n, new \in GroupName, id \in NewId : vxmmd_groupmod(n, new, id)
  \/ \E n \in UserName : vxmmd_userdel(n)
  \/ \E n \in GroupName : vxmmd_groupdel(n)
  \/ \E u \in UserName, g \in GroupName : vxmmd_sgmapadd(u, g) \/ vxmmd_sgmapdel(u, g)
  \/ \E ok \in BOOLEAN : vxmmd_usertrav_init(ok) \/ vxmmd_grouptrav_init(ok)
  \/ vxmmd_usertrav_walk \/ vxmmd_usertrav_free
  \/ vxmmd_grouptrav_walk \/ vxmmd_grouptrav_free
  \/ WalkWriter \/ WalkReader \/ SkipReader \/ WalkFails \/ WalkEnd

Spec == Init /\ [][Next]_vars

-----------------------------------------------------------------------------
(* All or nothing: whichever module fails to load or to open, once the loops *)
(* and their clean-up are through the modules are all unloaded, all loaded   *)
(* or all open, as the handle is: none is left behind loaded or open, none   *)
(* is missing, and none is closed or unloaded that was not open or loaded.   *)
(* Only the write module is ever open for writing.                           *)
AllOrNothing ==
  /\ phase \in {"out", "loaded", "open"} => \A m \in Modules : inst[m] = phase
  /\ \A m \in writable : m = Writer /\ inst[m] = "open"

At(e) == <<e.mod, e.pos>>

(* A traversal that has come to its end, without an error, has returned      *)
(* every user of every module that was there when it began, in order, and no *)
(* entry twice, also when the caller has added, renamed or changed users on  *)
(* the way; the users of a module that gave no traverser are the only ones   *)
(* left out.                                                                 *)
TraversalComplete ==
  ret = "end" =>
    /\ \A i, j \in DOMAIN seen : At(seen[i]) = At(seen[j]) => i = j
    /\ \A i, j \in DOMAIN due : i <= j /\ due[i].mod \notin skipped /\ due[j].mod \notin skipped =>
         \E x, y \in DOMAIN seen : x <= y /\ At(seen[x]) = At(due[i]) /\ At(seen[y]) = At(due[j])

Held(kind) == {db[kind][Writer][i] : i \in DOMAIN db[kind][Writer]}

(* What a caller has just written through the handle it can read back      *)
(* through the handle, by name and by id, whatever the read modules say of   *)
(* the same name or number, and also when they cannot be asked: the change   *)
(* went to the write module, and that is the module asked first.             *)
ChangesVisible ==
  [][\A ok \in SUBSET Modules : Writer \in ok =>
       /\ \A e \in Held("user")' \ Held("user") :
            vxmmd_getpwnam(e.name, ok)' = e /\ vxmmd_getpwuid(e.id, ok)' \in Held("user")'
       /\ \A e \in Held("group")' \ Held("group") :
            vxmmd_getgrnam(e.name, ok)' = e /\ vxmmd_getgrgid(e.id, ok)' \in Held("group")'
       /\ \A p \in sg'[Writer] \ sg[Writer] : <<Writer, p[2]>> \in vxmmd_sgmapget(p[1], ok)']_vars

(* The three ways of reading the combined database agree, also when some     *)
(* modules fail, as long as these are the same ones: the lookup by name      *)
(* gives the first entry of that name that a traversal returns which nothing *)
(* has crossed, and VXDB_COUNT_USERS and VXDB_COUNT_GROUPS count what it     *)
(* returns.                                                                  *)
ReadsAgree ==
  LET ok == Modules \ skipped
  IN  ret = "end" /\ seen = Entries(trav.kind, ok) =>
        /\ vxmmd_modctl_count(trav.kind, ok) = Len(seen)
        /\ \A n \in Name[trav.kind] :
             LET e == IF trav.kind = "user" THEN vxmmd_getpwnam(n, ok) ELSE vxmmd_getgrnam(n, ok)
                 here == {i \in DOMAIN seen : seen[i].name = n}
             IN  IF here = {} THEN e = None
                 ELSE \E i \in here : /\ \A j \in here : i <= j
                                      /\ e = Combined(trav.kind, ok, Len(Asked))[i]

AutoAsked == {M - 1, M - 2} \cap Wanted
Pool(kind, wanted) ==
  IF wanted = M - 2 THEN 1 .. (AutoRange[kind].min - 1) ELSE AutoRange[kind].min .. AutoRange[kind].max
Free(kind, wanted) == Pool(kind, wanted) \ UNION {Ids(kind, m) : m \in Modules}

\* The modules that are asked before any that may fail
Sound(bad) == {Asked[j] : j \in {i \in DOMAIN Asked : \A k \in 1 .. i : Asked[k] \notin bad}}

Longer(kind) == Len(db'[kind][Writer]) > Len(db[kind][Writer])

New(kind, wanted, bad) ==
  LET id == db'[kind][Writer][Len(db'[kind][Writer])].id
  IN  id \in Pool(kind, wanted) /\ \A m \in Sound(bad) : id \notin Ids(kind, m)

(* An id chosen automatically is within the limits, and one that no entry of *)
(* any module has; when modules fail during the search, none of any module   *)
(* that is asked before the first of them.  That is as long as the range has *)
(* free ids left and its last one is not above INT_MAX (see AutoId).         *)
AutoIdIsNew ==
  [][\A wanted \in AutoAsked, bad \in SUBSET Modules :
       /\ \A n \in UserName :
            Longer("user") /\ vxmmd_useradd(n, wanted, bad)
            /\ AutoRange["user"].max < M \div 2 /\ Free("user", wanted) # {} => New("user", wanted, bad)
       /\ \A n \in GroupName :
            Longer("group") /\ vxmmd_groupadd(n, wanted, bad)
            /\ AutoRange["group"].max < M \div 2 /\ Free("group", wanted) # {} => New("group", wanted, bad)]_vars
=============================================================================
