------------------------------- MODULE NssDb -------------------------------
(***************************************************************************)
(* The two NSS drivers, used through several handles of one process, while *)
(* somebody else changes the system's account files.  "nss" reads all of   *)
(* passwd, shadow and group into lists when a handle is opened; "nss1"     *)
(* passes every call on to the C library, whose getpwent() and getgrent()  *)
(* streams belong to the process.  Neither driver can write.               *)
(***************************************************************************)
EXTENDS Libvxdb, Sequences, Functions

CONSTANTS
  Start,     \* the first of Hosts
  Hosts,     \* contents of the account files: passwd, shadow and group
  Bare,      \* names without a leading plus or minus sign
  Ids,       \* the ids in Hosts
  Password   \* the passwords in Hosts

Kind == {"user", "group"}

\* Lines of passwd or group, and of shadow; a long one has more than 1024 bytes.
Line       == [name : DOMAIN Bare, id : Ids, long : BOOLEAN]
ShadowLine == [name : DOMAIN Bare, pw : Password, long : BOOLEAN]

ASSUME NssAssumption ==
  /\ Start \in Hosts
  /\ \A f \in Hosts : f.passwd \in Seq(Line) /\ f.group \in Seq(Line) /\ f.shadow \in Seq(ShadowLine)
  /\ Bare \in [DOMAIN Bare -> DOMAIN Bare]
  /\ None \notin [kind : Kind, wp : Nat]

VARIABLES
  host,      \* the account files
  opened,    \* handles that are open
  opening,   \* vxnss_open() in progress: how many files have been read
  dq,        \* dq_user and dq_group of the open nss handles
  stream,    \* the C library's position in passwd and group
  trav,      \* traverser of each handle
  dest,      \* what the caller's struct vxdb_user or vxdb_group holds
  due, seen, \* history: the list at the start of the traversal; what came of it
  disturbed, \* history: nss1 traversals whose stream another call has used
  kept       \* history: structs whose password the last answer of nss1 left alone

libvxdb == <<drv, dl>>
walks   == <<trav, dest, due, seen, disturbed, kept>>
vars    == <<libvxdb, host, opened, opening, dq, stream, walks>>

Nothing == [user |-> <<>>, group |-> <<>>]
Closed  == [list |-> <<>>, pos |-> -1]    \* a stream that is not open

Init ==
  /\ LoadInit
  /\ host = Start
  /\ opened = {} /\ opening = [h \in Handle |-> 0]
  /\ dq = [h \in Handle |-> Nothing]
  /\ stream = [k \in Kind |-> Closed]
  /\ trav = [h \in Handle |-> None]
  /\ dest = [h \in Handle |-> None]
  /\ due = [h \in Handle |-> <<>>] /\ seen = [h \in Handle |-> <<>>]
  /\ disturbed = {} /\ kept = {}

Idle == \A h \in Handle : opening[h] = 0   \* the process does one call at a time
Usable(h) == h \in opened /\ Idle
Nss(h)   == Has(h, "open")                     \* the driver keeps lists

\* Another program replaces the account files.
HostChange ==
  /\ host' \in Hosts \ {host}
  /\ UNCHANGED <<libvxdb, opened, opening, dq, stream, walks>>

-----------------------------------------------------------------------------
(* Loading, opening and closing *)

Load(h, name, stage) ==
  /\ Idle /\ vxdb_load(h, name, stage)
  /\ UNCHANGED <<host, opened, opening, dq, stream, walks>>

Unload(h) ==
  /\ Idle /\ h \notin opened /\ vxdb_unload(h)
  /\ UNCHANGED <<host, opened, opening, dq, stream, walks>>

\* A call of handle h that moves the streams of some kinds gets in the way of
\* the nss1 traversals of these.
Disturbed(h, kinds) ==
  disturbed \cup {g \in Handle \ {h} : trav[g] # None /\ ~Nss(g) /\ trav[g].kind \in kinds}

\* vxdb_open(): nothing to do for nss1; db_open() reads the files one by one.
Open(h) ==
  /\ drv[h] # None /\ h \notin opened /\ Idle
  /\ IF Nss(h) THEN opening' = [opening EXCEPT ![h] = 1] /\ UNCHANGED opened
               ELSE opened' = opened \cup {h} /\ UNCHANGED opening
  /\ UNCHANGED <<libvxdb, host, dq, stream, walks>>

Plain(e) == [name |-> e.name, id |-> e.id]

\* A name that starts with a plus or minus sign loses it.
Stripped(e) == [e EXCEPT !.name = Bare[@]]

EndEnt(k) == stream' = [stream EXCEPT ![k] = Closed]

\* getpwent_r() and its like fail at a line that is too long for nss_buffer, and
\* the loops that read take that for the end.
Readable(list) ==
  LET long == {i \in DOMAIN list : list[i].long}
  IN  IF long = {} THEN list
      ELSE SubSeq(list, 1, (CHOOSE i \in long : \A j \in long : i <= j) - 1)

\* From setpwent() to endpwent().
db_read_passwd(h) ==
  /\ opening[h] = 1
  /\ LET lines == Readable(host.passwd)
     IN  dq' = [dq EXCEPT ![h].user = [i \in DOMAIN lines |->
                 [name |-> Bare[lines[i].name], id |-> lines[i].id, pw |-> None]]]
  /\ EndEnt("user") /\ disturbed' = Disturbed(h, {"user"})
  /\ opening' = [opening EXCEPT ![h] = 2]
  /\ UNCHANGED <<libvxdb, host, opened, trav, dest, due, seen, kept>>

\* The first of the entries that have this value in a field, if there is one
First(list, field, value) ==
  {i \in DOMAIN list : list[i][field] = value /\ \A j \in 1 .. (i - 1) : list[j][field] # value}

\* A shadow line goes to the first user of its name, if there is one.
db_read_shadow(h) ==
  /\ opening[h] = 2
  /\ LET users   == dq[h].user
         lines   == Readable(host.shadow)
         mine(i) == {k \in DOMAIN lines : i \in First(users, "name", Bare[lines[k].name])}
         last(i) == CHOOSE k \in mine(i) : \A j \in mine(i) : j <= k
     IN  dq' = [dq EXCEPT ![h].user = [i \in DOMAIN users |->
                 IF mine(i) = {} THEN users[i]
                 ELSE [users[i] EXCEPT !.pw = lines[last(i)].pw]]]
  /\ opening' = [opening EXCEPT ![h] = 3]
  /\ UNCHANGED <<libvxdb, host, opened, stream, walks>>

db_read_groups(h) ==
  /\ opening[h] = 3
  /\ LET lines == Readable(host.group)
     IN  dq' = [dq EXCEPT ![h].group = [i \in DOMAIN lines |-> Stripped(Plain(lines[i]))]]
  /\ EndEnt("group") /\ disturbed' = Disturbed(h, {"group"})
  /\ opening' = [opening EXCEPT ![h] = 0]
  /\ opened' = opened \cup {h}
  /\ UNCHANGED <<libvxdb, host, trav, dest, due, seen, kept>>

\* mutant: free_data() keeps the lists
Close_KeepsLists(h) ==
  /\ Usable(h) /\ trav[h] = None
  /\ opened' = opened \ {h}
  /\ dest' = [dest EXCEPT ![h] = None] /\ kept' = kept \ {h}
  /\ UNCHANGED <<libvxdb, host, opening, dq, stream, trav, due, seen, disturbed>>

\* vxnss_close(), free_data(); a caller frees its traverser and struct first.
Close(h) ==
  /\ Usable(h) /\ trav[h] = None
  /\ opened' = opened \ {h}
  /\ dq' = [dq EXCEPT ![h] = Nothing]
  /\ dest' = [dest EXCEPT ![h] = None] /\ kept' = kept \ {h}
  /\ UNCHANGED <<libvxdb, host, opening, stream, trav, due, seen, disturbed>>

-----------------------------------------------------------------------------
(* Lookups *)

\* getpwent() and getgrent() give the lines of these; getspnam() one of shadow,
\* if there is one.
System(k) == IF k = "user" THEN host.passwd ELSE host.group

getspnam(n) == First(host.shadow, "name", n)

List(h, k) == IF Nss(h) THEN dq[h][k] ELSE System(k)

\* vxdb_user_clean(); so does the struct of a caller who has none to use again.
Clean     == [name |-> None, id |-> None, pw |-> None]
Struct(h) == IF dest[h] # None /\ "pw" \in DOMAIN dest[h] THEN dest[h] ELSE Clean

\* mutant: a password that is not there is not copied
vxdb_user_copy_Partial(u, src) ==
  [u EXCEPT !.name = src.name, !.id = src.id, !.pw = IF src.pw = None THEN @ ELSE src.pw]

\* Every field is replaced, be it by nothing.
vxdb_user_copy(u, src) == [u EXCEPT !.name = src.name, !.id = src.id, !.pw = src.pw]

\* The shadow fields are left alone if there is no shadow line.
nssuser_copy(u, pe, se) ==
  [u EXCEPT !.name = pe.name, !.id = pe.id,
            !.pw = IF se = {} THEN @ ELSE host.shadow[CHOOSE i \in se : TRUE].pw]

Answer(h, k, e) ==
  IF k = "group" THEN Plain(e)
  ELSE IF Nss(h) THEN vxdb_user_copy(Struct(h), e)
  ELSE nssuser_copy(Struct(h), e, getspnam(e.name))

Found(h, k, field, value) ==
  /\ Usable(h)
  /\ \E i \in First(List(h, k), field, value) :
       LET e == List(h, k)[i]
       IN  /\ dest' = [dest EXCEPT ![h] = Answer(h, k, e)]
           /\ kept' = IF ~Nss(h) /\ k = "user" /\ getspnam(e.name) = {}
                        THEN kept \cup {h} ELSE kept \ {h}
  /\ UNCHANGED <<libvxdb, host, opened, opening, dq, stream, trav, due, seen, disturbed>>

getpwnam(h, n)  == Found(h, "user", "name", n)
getpwuid(h, id) == Found(h, "user", "id", id)
getgrnam(h, n)  == Found(h, "group", "name", n)
getgrgid(h, id) == Found(h, "group", "id", id)

-----------------------------------------------------------------------------
(* Counting and traversing *)

\* VXDB_COUNT_USERS, VXDB_COUNT_GROUPS.  For nss1 the stream is walked to its
\* end; both count_users() and count_groups() then call endpwent().
modctl(h, k) ==
  /\ Usable(h)
  /\ IF Nss(h) THEN UNCHANGED <<stream, disturbed>>
     ELSE /\ stream' = [stream EXCEPT
                !["user"] = Closed,
                !["group"] = IF k = "group"
                               THEN [list |-> host.group, pos |-> Len(host.group)] ELSE @]
          /\ disturbed' = disturbed \cup
               {g \in Handle : /\ trav[g] # None /\ ~Nss(g)
                              /\ (k = "group" \/ trav[g].kind = "user")}
  /\ UNCHANGED <<libvxdb, host, opened, opening, dq, trav, dest, due, seen, kept>>

\* mutant: the stream is not rewound
TravInit_NoRewind(h, k) ==
  /\ Usable(h) /\ trav[h] = None
  /\ trav' = [trav EXCEPT ![h] = [kind |-> k, wp |-> 1]]
  /\ due' = [due EXCEPT ![h] = [i \in DOMAIN List(h, k) |-> Plain(List(h, k)[i])]]
  /\ seen' = [seen EXCEPT ![h] = <<>>]
  /\ UNCHANGED <<libvxdb, host, opened, opening, dq, dest, stream, disturbed, kept>>

\* vxnss_usertrav_init() and vxnss_grouptrav_init(), or setpwent() and setgrent()
TravInit(h, k) ==
  /\ Usable(h) /\ trav[h] = None
  /\ trav' = [trav EXCEPT ![h] = [kind |-> k, wp |-> 1]]
  /\ due' = [due EXCEPT ![h] = [i \in DOMAIN List(h, k) |-> Plain(List(h, k)[i])]]
  /\ seen' = [seen EXCEPT ![h] = <<>>]
  /\ IF Nss(h) THEN UNCHANGED <<stream, disturbed>>
     ELSE /\ stream' = [stream EXCEPT ![k] = [list |-> System(k), pos |-> 0]]
          /\ disturbed' = Disturbed(h, {k})
  /\ UNCHANGED <<libvxdb, host, opened, opening, dq, dest, kept>>

\* getpwent() opens a stream that is not open.
Current(k) == IF stream[k] = Closed THEN [list |-> System(k), pos |-> 0] ELSE stream[k]

AtEnd(h) ==
  LET k == trav[h].kind
  IN  IF Nss(h) THEN trav[h].wp > Len(dq[h][k]) ELSE Current(k).pos = Len(Current(k).list)

Entry(h) ==
  LET k == trav[h].kind
      e == Current(k).list[Current(k).pos + 1]
  IN  IF Nss(h) THEN Answer(h, k, dq[h][k][trav[h].wp])
      ELSE IF k = "group" THEN Plain(e)
      ELSE nssuser_copy(Clean, Stripped(e), getspnam(Bare[e.name]))

Advance(h) ==
  LET k == trav[h].kind
  IN  IF Nss(h)
        THEN trav' = [trav EXCEPT ![h].wp = @ + 1] /\ UNCHANGED <<stream, disturbed>>
        ELSE /\ stream' = [stream EXCEPT ![k] = [Current(k) EXCEPT !.pos = @ + 1]]
             /\ disturbed' = Disturbed(h, {k})
             /\ UNCHANGED trav

\* The walk functions; the one of nss1 clears the caller's struct first.
Walk(h) ==
  /\ Usable(h) /\ trav[h] # None /\ ~AtEnd(h)
  /\ dest' = [dest EXCEPT ![h] = Entry(h)] /\ kept' = kept \ {h}
  /\ seen' = IF h \in disturbed THEN seen ELSE [seen EXCEPT ![h] = Append(@, Plain(Entry(h)))]
  /\ Advance(h)
  /\ UNCHANGED <<libvxdb, host, opened, opening, dq, due>>

\* vxnss_usertrav_free(); endpwent() or endgrent()
TravFree(h) ==
  /\ Usable(h) /\ trav[h] # None
  /\ trav' = [trav EXCEPT ![h] = None]
  /\ IF Nss(h) THEN UNCHANGED <<stream, disturbed>>
     ELSE EndEnt(trav[h].kind) /\ disturbed' = Disturbed(h, {trav[h].kind}) \ {h}
  /\ due' = [due EXCEPT ![h] = <<>>] /\ seen' = [seen EXCEPT ![h] = <<>>]
  /\ UNCHANGED <<libvxdb, host, opened, opening, dq, dest, kept>>

-----------------------------------------------------------------------------
Next ==
  \/ HostChange
  \/ \E h \in Handle :
       \/ \E name \in Database, stage \in Stage : Load(h, name, stage)
       \/ Unload(h) \/ Open(h) \/ Close(h)
       \/ db_read_passwd(h) \/ db_read_shadow(h) \/ db_read_groups(h)
       \/ \E n \in DOMAIN Bare : getpwnam(h, n) \/ getgrnam(h, n)
       \/ \E id \in Ids : getpwuid(h, id) \/ getgrgid(h, id)
       \/ \E k \in Kind : modctl(h, k) \/ TravInit(h, k)
       \/ Walk(h) \/ TravFree(h)

Spec == Init /\ [][Next]_vars

-----------------------------------------------------------------------------
(* The handles are in step: what is open is loaded, and a handle that is not *)
(* open has no lists, no traverser and no answers left.                      *)
TypeOK ==
  /\ drv \in [Handle -> Driver \cup {None}] /\ dl \in [Driver -> Nat]
  /\ host \in Hosts
  /\ opening \in [Handle -> 0 .. 3]
  /\ opened \subseteq Handle /\ \A h \in opened : drv[h] # None /\ opening[h] = 0
  /\ \A h \in Handle \ opened :
       trav[h] = None /\ dest[h] = None /\ (opening[h] = 0 => dq[h] = Nothing)
  /\ disturbed \subseteq {h \in Handle : trav[h] # None} /\ kept \subseteq opened

(* A traversal returns what was there when it began, from the first entry to *)
(* the last: one of nss whatever the other handles of the process and other  *)
(* programs do, one of nss1 as long as no other call in the process uses the *)
(* same list (or counts the groups).                                         *)
WalkRight ==
  \A h \in Handle : trav[h] # None /\ h \notin disturbed =>
    LET bare(e) == IF Nss(h) \/ trav[h].kind = "group" THEN e ELSE Stripped(e)
    IN  /\ Len(seen[h]) <= Len(due[h])
        /\ \A i \in DOMAIN seen[h] : seen[h][i] = bare(due[h][i])
        /\ AtEnd(h) => Len(seen[h]) = Len(due[h])

\* The passwords that the lines of shadow hold for a name
Passwords(h, f, n) ==
  IF Nss(h) THEN {e.pw : e \in {l \in Range(Readable(f.shadow)) : Bare[l.name] = n}}
            ELSE {e.pw : e \in {l \in Range(f.shadow) : l.name = n}}

\* Whether two lines of passwd have one name, apart from their signs
Twice(f) == \E i, j \in DOMAIN f.passwd : i # j /\ Bare[f.passwd[i].name] = Bare[f.passwd[j].name]

Of(e, l) == e.name \in {l.name, Bare[l.name]} /\ e.id = l.id

(* What is in a caller's struct is one account, whole: name and id are those *)
(* of one line, and the password is one that shadow has for this name, or    *)
(* nothing if it has none; never the password of an account that the struct  *)
(* held before.  (nss gives nothing to all but the first of two lines with   *)
(* one name.  A lookup of nss1 leaves the password alone if there is no      *)
(* shadow line; what a traversal of nss1 returns is whole.)                  *)
AnswerWhole ==
  \A h \in opened : dest[h] # None =>
    IF "pw" \notin DOMAIN dest[h]
      THEN \E f \in Hosts : \E i \in DOMAIN f.group : Of(dest[h], f.group[i])
      ELSE \E f, g \in Hosts :
             /\ \E i \in DOMAIN f.passwd : Of(dest[h], f.passwd[i])
             /\ LET own == Passwords(h, g, dest[h].name)
                IN  \/ h \in kept \/ dest[h].pw \in own
                    \/ dest[h].pw = None /\ (own = {} \/ (Nss(h) /\ Twice(f)))
=============================================================================
