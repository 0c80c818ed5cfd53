---------------------------- MODULE NssDb_proofs ----------------------------
(***************************************************************************)
(* Proofs about libvxdb's handles and the two NSS drivers, for any number  *)
(* of handles, any drivers and any contents of the account files.          *)
(***************************************************************************)
EXTENDS NssDb, SequenceTheorems, FiniteSetTheorems, WellFoundedInduction, TLAPS

-----------------------------------------------------------------------------
(* The inductive invariant *)

\* Entries of the lists, and a caller's struct vxdb_user
User  == [name : DOMAIN Bare, id : Ids, pw : Password \cup {None}]
Group == [name : DOMAIN Bare, id : Ids]
UserStruct == [name : DOMAIN Bare \cup {None}, id : Ids \cup {None}, pw : Password \cup {None}]

DqOK ==
  /\ dq = [h \in Handle |-> [user |-> dq[h].user, group |-> dq[h].group]]
  /\ \A h \in Handle : dq[h].user \in Seq(User) /\ dq[h].group \in Seq(Group)

Stream == [list : Seq(Line), pos : Int]

WalksOK ==
  /\ stream \in [Kind -> Stream]
  /\ trav \in [Handle -> [kind : Kind, wp : Nat] \cup {None}]
  /\ dest \in [Handle -> User \cup Group \cup {None}]
  /\ due \in [Handle -> Seq(Group)] /\ seen \in [Handle -> Seq(Group)]
  /\ \A h \in disturbed : ~Nss(h)

\* The C library's streams give lines that the files have had.
Known(k, l) ==
  \E f \in Hosts : \E i \in DOMAIN (IF k = "user" THEN f.passwd ELSE f.group) :
    l = (IF k = "user" THEN f.passwd ELSE f.group)[i]

StreamOK(k, st) ==
  /\ \A i \in 1 .. Len(st.list) : Known(k, st.list[i])
  /\ st # Closed => st.pos \in 0 .. Len(st.list)

StreamsOK == \A k \in Kind : StreamOK(k, stream[k])

\* Whether a user's name and id are of one line, and the password is that account's
Account(f, e) == \E i \in DOMAIN f.passwd : Of(e, f.passwd[i])

NssPasswords(g, n) == {e.pw : e \in {l \in Range(Readable(g.shadow)) : Bare[l.name] = n}}

UserOK(e) ==
  \E f, g \in Hosts :
    /\ Account(f, e)
    /\ \/ e.pw \in NssPasswords(g, e.name)
       \/ e.pw = None /\ (NssPasswords(g, e.name) = {} \/ Twice(f))

GroupOK(e) == \E f \in Hosts : \E i \in DOMAIN f.group : Of(e, f.group[i])

\* What db_read_passwd() makes of passwd, db_read_groups() of group
Passwd(f) ==
  [i \in DOMAIN Readable(f.passwd) |->
     [name |-> Bare[Readable(f.passwd)[i].name], id |-> Readable(f.passwd)[i].id, pw |-> None]]

Groups(f) == [i \in DOMAIN Readable(f.group) |-> Stripped(Plain(Readable(f.group)[i]))]

\* Between passwd and shadow the users have no passwords.
ListOK(h) ==
  /\ IF opening[h] = 2 THEN \E f \in Hosts : dq[h].user = Passwd(f)
     ELSE \A i \in DOMAIN dq[h].user : UserOK(dq[h].user[i])
  /\ \A i \in DOMAIN dq[h].group : GroupOK(dq[h].group[i])

\* The answer that a handle has given
AnswerOK(h) ==
  h \in opened /\ dest[h] # None =>
    IF "pw" \notin DOMAIN dest[h] THEN GroupOK(dest[h])
    ELSE \E f, g \in Hosts :
           /\ Account(f, dest[h])
           /\ \/ h \in kept \/ dest[h].pw \in Passwords(h, g, dest[h].name)
              \/ /\ dest[h].pw = None
                 /\ Passwords(h, g, dest[h].name) = {} \/ (Nss(h) /\ Twice(f))

\* The list that a traversal goes through, and its position there
Walked(h) == IF Nss(h) THEN dq[h][trav[h].kind] ELSE stream[trav[h].kind].list
Position(h) == IF Nss(h) THEN trav[h].wp - 1 ELSE stream[trav[h].kind].pos

\* What is returned for a line of passwd or group, or for an entry of a list
bare(h, e) == IF Nss(h) \/ trav[h].kind = "group" THEN e ELSE Stripped(e)

WalkOK(h) ==
  trav[h] # None /\ h \notin disturbed =>
    /\ Len(due[h]) = Len(Walked(h))
    /\ \A i \in 1 .. Len(due[h]) : due[h][i] = Plain(Walked(h)[i])
    /\ Position(h) = Len(seen[h]) /\ Len(seen[h]) <= Len(due[h])
    /\ \A i \in 1 .. Len(seen[h]) : seen[h][i] = bare(h, due[h][i])

\* A handle that is being opened is loaded.
OpeningOK == \A h \in Handle : opening[h] # 0 => drv[h] # None

IInv ==
  /\ TypeOK /\ NoLeak /\ OpeningOK /\ DqOK /\ WalksOK /\ StreamsOK
  /\ \A h \in Handle : WalkOK(h) /\ ListOK(h) /\ AnswerOK(h)

-----------------------------------------------------------------------------
(* Lemmas *)

(* A set of natural numbers that is not empty has a least one. *)
LEMMA LeastNat ==
  ASSUME NEW I, I \subseteq Nat, I # {}
  PROVE  \E i \in I : \A j \in I : i <= j
<1>1. PICK i \in I : \A j \in I : ~ (<<j, i>> \in OpToRel(<, Nat))
  BY WFMin, NatLessThanWellFounded, Zenon
<1>2. \A j \in I : i <= j
  <2> TAKE j \in I
  <2>1. ~ (j < i)
    BY <1>1 DEF OpToRel
  <2> QED
    BY <2>1
<1> QED
  BY <1>2

(* One that has a bound has a greatest one. *)
LEMMA GreatestNat ==
  ASSUME NEW n \in Nat, NEW I, I \subseteq 1 .. n, I # {}
  PROVE  \E i \in I : \A j \in I : j <= i
<1> DEFINE J == {n - i : i \in I}
<1>1. J \subseteq Nat /\ J # {}
  OBVIOUS
<1>2. PICK m \in J : \A j \in J : m <= j
  BY <1>1, LeastNat
<1>3. PICK i \in I : m = n - i
  OBVIOUS
<1>4. \A j \in I : j <= i
  <2> TAKE j \in I
  <2>1. n - i <= n - j /\ i \in Nat /\ j \in Nat
    BY <1>2, <1>3
  <2> QED
    BY <2>1
<1> QED
  BY <1>4

(* What has lines in a list with this value has a first one there. *)
LEMMA FirstExists ==
  ASSUME NEW S, NEW list \in Seq(S), NEW field, NEW value,
         NEW i \in DOMAIN list, list[i][field] = value
  PROVE  First(list, field, value) # {}
<1> DEFINE I == {j \in DOMAIN list : list[j][field] = value}
<1>1. DOMAIN list = 1 .. Len(list) /\ Len(list) \in Nat
  BY LenProperties
<1>2. I \subseteq Nat /\ I # {}
  BY <1>1
<1>3. PICK m \in I : \A j \in I : m <= j
  BY <1>2, LeastNat
<1>4. \A j \in 1 .. (m - 1) : list[j][field] # value
  BY <1>1, <1>3
<1> QED
  BY <1>3, <1>4 DEF First

(* What can be read of a list is the beginning of it. *)
LEMMA ReadableIs ==
  ASSUME NEW S, NEW list \in Seq(S)
  PROVE  /\ Readable(list) \in Seq(S) /\ Len(Readable(list)) \in Nat
         /\ DOMAIN Readable(list) = 1 .. Len(Readable(list))
         /\ \A i \in DOMAIN Readable(list) : i \in DOMAIN list /\ Readable(list)[i] = list[i]
<1> DEFINE long == {i \in DOMAIN list : list[i].long}
           m    == CHOOSE i \in long : \A j \in long : i <= j
<1>1. DOMAIN list = 1 .. Len(list) /\ Len(list) \in Nat
  BY LenProperties
<1>2. CASE long = {}
  <2>1. Readable(list) = list
    BY <1>2 DEF Readable
  <2> QED
    BY <1>1, <2>1
<1>3. CASE long # {}
  <2>1. m \in long
    <3>1. long \subseteq Nat
      BY <1>1
    <3>2. \E i \in long : \A j \in long : i <= j
      BY <1>3, <3>1, LeastNat
    <3> QED
      BY <3>2
  <2>2. Readable(list) = SubSeq(list, 1, m - 1)
    BY <1>3 DEF Readable
  <2> HIDE DEF m
  <2>3. m \in 1 .. Len(list)
    BY <1>1, <2>1
  <2>4. /\ SubSeq(list, 1, m - 1) \in Seq(S)
        /\ Len(SubSeq(list, 1, m - 1)) = m - 1
        /\ \A i \in 1 .. (m - 1) : SubSeq(list, 1, m - 1)[i] = list[i]
    BY <1>1, <2>3, SubSeqProperties
  <2>5. DOMAIN SubSeq(list, 1, m - 1) = 1 .. (m - 1) /\ m - 1 \in Nat
    BY <2>3, <2>4, LenProperties
  <2>6. \A i \in 1 .. (m - 1) : i \in DOMAIN list
    BY <1>1, <2>3
  <2> QED
    BY <2>2, <2>4, <2>5, <2>6
<1> QED
  BY <1>2, <1>3

(* What a struct is after the copy *)
LEMMA StructIs ==
  ASSUME WalksOK, NEW h \in Handle
  PROVE  Struct(h) \in UserStruct
<1>1. CASE dest[h] # None /\ "pw" \in DOMAIN dest[h]
  <2>1. dest[h] \in User \cup Group
    BY <1>1 DEF WalksOK
  <2>2. dest[h] \in User
    BY <1>1, <2>1 DEF Group
  <2> QED
    BY <1>1, <2>2 DEF Struct, User, UserStruct
<1>2. CASE ~(dest[h] # None /\ "pw" \in DOMAIN dest[h])
  BY <1>2 DEF Struct, Clean, UserStruct
<1> QED
  BY <1>1, <1>2

LEMMA CopyIs ==
  ASSUME NEW u \in UserStruct, NEW e \in User
  PROVE  vxdb_user_copy(u, e) = e
  BY DEF vxdb_user_copy, UserStruct, User

(* What nss1 makes of a line of passwd: the password of the first line of   *)
(* shadow with this name, or what was there.                                *)
LEMMA SystemCopyIs ==
  ASSUME TypeOK, NEW u \in UserStruct, NEW pe, pe.name \in DOMAIN Bare, pe.id \in Ids
  PROVE  LET d == nssuser_copy(u, pe, getspnam(pe.name))
         IN  /\ d \in User /\ d.name = pe.name /\ d.id = pe.id
             /\ IF getspnam(pe.name) = {} THEN d.pw = u.pw
                ELSE d.pw \in {e.pw : e \in {l \in Range(host.shadow) : l.name = pe.name}}
<1> DEFINE se == getspnam(pe.name)
           d  == nssuser_copy(u, pe, se)
           q  == host.shadow[CHOOSE i \in se : TRUE].pw
<1>1. host.shadow \in Seq(ShadowLine)
  BY NssAssumption DEF TypeOK
<1>2. CASE se = {}
  <2>1. d = [u EXCEPT !.name = pe.name, !.id = pe.id, !.pw = u.pw]
    BY <1>2 DEF nssuser_copy
  <2>2. d = [name |-> pe.name, id |-> pe.id, pw |-> u.pw] /\ u.pw \in Password \cup {None}
    BY <2>1 DEF UserStruct
  <2> QED
    BY <1>2, <2>2 DEF User
<1>3. CASE se # {}
  <2>1. PICK i \in se : q = host.shadow[i].pw
    BY <1>3
  <2>2. i \in DOMAIN host.shadow /\ host.shadow[i].name = pe.name
    BY <2>1 DEF getspnam, First
  <2>3. host.shadow[i] \in ShadowLine /\ host.shadow[i] \in Range(host.shadow)
    BY <1>1, <2>2, ElementOfSeq, LenProperties DEF Range
  <2>4. d = [u EXCEPT !.name = pe.name, !.id = pe.id, !.pw = q]
    BY <1>3 DEF nssuser_copy
  <2> HIDE DEF q
  <2>5. d = [name |-> pe.name, id |-> pe.id, pw |-> q] /\ q \in Password
    BY <2>1, <2>3, <2>4 DEF UserStruct, ShadowLine
  <2>6. q \in {e.pw : e \in {l \in Range(host.shadow) : l.name = pe.name}}
    BY <2>1, <2>2, <2>3
  <2> HIDE DEF d
  <2>7. d \in User /\ d.name = pe.name /\ d.id = pe.id /\ d.pw = q
    BY <2>5 DEF User
  <2> QED
    BY <1>3, <2>6, <2>7 DEF d
<1> QED
  BY <1>2, <1>3

(* A name for which getspnam() finds nothing has no password. *)
LEMMA NoPassword ==
  ASSUME TypeOK, NEW n, getspnam(n) = {}
  PROVE  {e.pw : e \in {l \in Range(host.shadow) : l.name = n}} = {}
<1>1. host.shadow \in Seq(ShadowLine)
  BY NssAssumption DEF TypeOK
<1>2. \A i \in DOMAIN host.shadow : host.shadow[i].name # n
  <2> SUFFICES ASSUME NEW i \in DOMAIN host.shadow, host.shadow[i].name = n PROVE FALSE
    OBVIOUS
  <2>1. host.shadow[i]["name"] = n
    OBVIOUS
  <2>2. First(host.shadow, "name", n) # {}
    BY <1>1, <2>1, FirstExists
  <2> QED
    BY <2>2 DEF getspnam
<1> QED
  BY <1>2 DEF Range

(* The lines of a file that is there are known. *)
LEMMA SystemKnown ==
  ASSUME TypeOK, NEW k \in Kind
  PROVE  /\ System(k) \in Seq(Line) /\ Len(System(k)) \in Nat
         /\ DOMAIN System(k) = 1 .. Len(System(k))
         /\ \A i \in 1 .. Len(System(k)) : Known(k, System(k)[i]) /\ System(k)[i] \in Line
<1>1. host \in Hosts /\ host.passwd \in Seq(Line) /\ host.group \in Seq(Line)
  BY NssAssumption DEF TypeOK
<1>2. System(k) \in Seq(Line)
  BY <1>1 DEF System
<1>3. /\ Len(System(k)) \in Nat /\ DOMAIN System(k) = 1 .. Len(System(k))
      /\ \A i \in 1 .. Len(System(k)) : System(k)[i] \in Line
  BY <1>2, LenProperties, ElementOfSeq
<1>4. \A i \in DOMAIN System(k) : Known(k, System(k)[i])
  BY <1>1 DEF Known, System
<1> QED
  BY <1>2, <1>3, <1>4

(* A line of either file gives an entry like it. *)
LEMMA KnownGives ==
  ASSUME NEW l
  PROVE  /\ Known("user", l) => \E f \in Hosts : \A e : Of(e, l) => Account(f, e)
         /\ Known("group", l) => \A e : Of(e, l) => GroupOK(e)
  BY DEF Known, Account, GroupOK

(* An answer stays right as long as the handle and its struct do. *)
LEMMA AnswerKept ==
  ASSUME NEW h, AnswerOK(h), h \in opened' => h \in opened, dest'[h] = dest[h],
         h \in opened => (Nss(h)' <=> Nss(h)), h \in kept => h \in kept'
  PROVE  AnswerOK(h)'
<1> SUFFICES ASSUME h \in opened, dest[h] # None PROVE AnswerOK(h)'
  BY DEF AnswerOK
<1>2. CASE "pw" \notin DOMAIN dest[h]
  BY <1>2 DEF AnswerOK
<1>3. CASE "pw" \in DOMAIN dest[h]
  <2>1. PICK f \in Hosts, g \in Hosts :
           /\ Account(f, dest[h])
           /\ \/ h \in kept \/ dest[h].pw \in Passwords(h, g, dest[h].name)
              \/ /\ dest[h].pw = None
                 /\ Passwords(h, g, dest[h].name) = {} \/ (Nss(h) /\ Twice(f))
    BY <1>3 DEF AnswerOK
  <2> DEFINE n == dest[h].name
  <2>2. Passwords(h, g, n)' = Passwords(h, g, n)
    BY DEF Passwords
  <2>3. /\ Account(f, dest[h])'
        /\ \/ h \in kept' \/ dest'[h].pw \in Passwords(h, g, n)'
           \/ /\ dest'[h].pw = None
              /\ Passwords(h, g, n)' = {} \/ (Nss(h)' /\ Twice(f))
    BY <2>1, <2>2 DEF Account
  <2>4. dest'[h] # None /\ "pw" \in DOMAIN dest'[h]
    BY <1>3
  <2> QED
    BY <2>3, <2>4 DEF AnswerOK
<1> QED
  BY <1>2, <1>3

(* A function on 1 .. n is a sequence. *)
LEMMA SeqOfFunction ==
  ASSUME NEW S, NEW n \in Nat, NEW f \in [1 .. n -> S]
  PROVE  f \in Seq(S) /\ Len(f) = n /\ DOMAIN f = 1 .. n
  BY SMT

(* A configured name gives a driver or nothing. *)
LEMMA ConfigIsDriver ==
  ASSUME NEW name \in Database
  PROVE  vxdb_config(name) \in Driver \cup {None}
  BY LoaderAssumption DEF vxdb_config

(* A library is opened and closed together with the handle. *)
LEMMA LoadStep ==
  ASSUME TypeOK, NoLeak, NEW h \in Handle, NEW name \in Database, NEW stage \in Stage,
         vxdb_load(h, name, stage)
  PROVE  /\ drv[h] = None /\ drv' \in [Handle -> Driver \cup {None}] /\ dl' \in [Driver -> Nat]
         /\ \A g \in Handle \ {h} : drv'[g] = drv[g]
         /\ NoLeak'
<1> DEFINE d == vxdb_config(name)
           Users(f, e) == {g \in Handle : f[g] = e}
<1>1. d \in Driver \cup {None} /\ None \notin Driver
  BY ConfigIsDriver, LoaderAssumption
<1>2. drv \in [Handle -> Driver \cup {None}] /\ dl \in [Driver -> Nat]
  BY DEF TypeOK
<1>3. (d = None) <=> (stage = "config")
  BY DEF vxdb_load
<1>4. \A e \in Driver : dl[e] = Cardinality(Users(drv, e))
  BY DEF NoLeak
<1>5. CASE stage = "done"
  <2>1. d \in Driver /\ drv[h] = None /\ drv' = [drv EXCEPT ![h] = d] /\ dl' = [dl EXCEPT ![d] = @ + 1]
    BY <1>1, <1>3, <1>5 DEF vxdb_load
  <2>2. \A e \in Driver \ {d} : Users(drv', e) = Users(drv, e)
    BY <1>1, <1>2, <2>1
  <2>3. Users(drv', d) = Users(drv, d) \cup {h} /\ h \notin Users(drv, d)
    BY <1>1, <1>2, <2>1
  <2>4. IsFiniteSet(Users(drv, d))
    <3>1. Users(drv, d) \in SUBSET Handle
      OBVIOUS
    <3> QED
      BY <3>1, LoaderAssumption, FS_Subset
  <2> HIDE DEF Users, d
  <2>5. Cardinality(Users(drv', d)) = Cardinality(Users(drv, d)) + 1
    BY <2>3, <2>4, FS_AddElement
  <2>6. \A e \in Driver : dl'[e] = Cardinality(Users(drv', e))
    BY <1>2, <1>4, <2>1, <2>2, <2>5
  <2>7. NoLeak'
    BY <2>6 DEF NoLeak, Users
  <2> QED
    BY <1>2, <2>1, <2>7
<1>6. CASE stage # "done"
  <2>1. drv[h] = None /\ drv' = drv
    BY <1>6 DEF vxdb_load
  <2>2. dl' = dl
    BY <1>6 DEF vxdb_load, vxdb_cleanup
  <2> QED
    BY <1>2, <2>1, <2>2 DEF NoLeak
<1> QED
  BY <1>5, <1>6

LEMMA UnloadStep ==
  ASSUME TypeOK, NoLeak, NEW h \in Handle, vxdb_unload(h)
  PROVE  /\ drv' \in [Handle -> Driver \cup {None}] /\ dl' \in [Driver -> Nat]
         /\ \A g \in Handle \ {h} : drv'[g] = drv[g]
         /\ NoLeak'
<1> DEFINE d == drv[h]
           Users(f, e) == {g \in Handle : f[g] = e}
<1>1. drv \in [Handle -> Driver \cup {None}] /\ dl \in [Driver -> Nat] /\ None \notin Driver
  BY LoaderAssumption DEF TypeOK
<1>2. d \in Driver /\ drv' = [drv EXCEPT ![h] = None] /\ dl' = [dl EXCEPT ![d] = @ - 1]
  BY <1>1 DEF vxdb_unload
<1>3. \A e \in Driver : dl[e] = Cardinality(Users(drv, e))
  BY DEF NoLeak
<1>4. \A e \in Driver \ {d} : Users(drv', e) = Users(drv, e)
  BY <1>1, <1>2
<1>5. Users(drv', d) = Users(drv, d) \ {h} /\ h \in Users(drv, d)
  BY <1>1, <1>2
<1>6. IsFiniteSet(Users(drv, d))
  <2>1. Users(drv, d) \in SUBSET Handle
    OBVIOUS
  <2> QED
    BY <2>1, LoaderAssumption, FS_Subset
<1> HIDE DEF Users, d
<1>7. /\ Cardinality(Users(drv', d)) = Cardinality(Users(drv, d)) - 1
      /\ Cardinality(Users(drv', d)) \in Nat
  BY <1>5, <1>6, FS_RemoveElement, FS_CardinalityType
<1>8. \A e \in Driver : dl'[e] = Cardinality(Users(drv', e))
  BY <1>1, <1>2, <1>3, <1>4, <1>7
<1>9. NoLeak'
  BY <1>8 DEF NoLeak, Users
<1>10. dl' \in [Driver -> Nat]
  <2>1. dl'[d] \in Nat
    BY <1>2, <1>7, <1>8
  <2> QED
    BY <1>1, <1>2, <2>1
<1> QED
  BY <1>1, <1>2, <1>9, <1>10 DEF d

(* What a step that leaves a handle alone leaves of its traversal *)
LEMMA WalkKept ==
  ASSUME NEW h \in Handle, WalkOK(h), trav'[h] = trav[h], drv'[h] = drv[h],
         due'[h] = due[h], seen'[h] = seen[h], dq'[h] = dq[h],
         h \in disturbed => h \in disturbed',
         trav[h] # None /\ ~Nss(h) /\ h \notin disturbed' =>
           stream'[trav[h].kind] = stream[trav[h].kind]
  PROVE  WalkOK(h)'
<1>1. Nss(h)' <=> Nss(h)
  BY DEF Nss, Has
<1> SUFFICES ASSUME trav[h] # None, h \notin disturbed' PROVE WalkOK(h)'
  BY DEF WalkOK
<1>2. Walked(h)' = Walked(h) /\ Position(h)' = Position(h)
  BY <1>1 DEF Walked, Position
<1>3. \A e : bare(h, e)' = bare(h, e)
  BY <1>1 DEF bare
<1> QED
  BY <1>2, <1>3 DEF WalkOK

(* A call that moves a stream disturbs the traversals of the others on it. *)
LEMMA OthersKept ==
  ASSUME WalksOK, NEW h, NEW k \in Kind, \A j \in Kind \ {k} : stream'[j] = stream[j],
         NEW g \in Handle \ {h}, g \in Disturbed(h, {k}) => g \in disturbed'
  PROVE  /\ g \in disturbed => g \in disturbed'
         /\ trav[g] # None /\ ~Nss(g) /\ g \notin disturbed' =>
              stream'[trav[g].kind] = stream[trav[g].kind]
<1>1. g \in disturbed => g \in disturbed'
  BY DEF Disturbed
<1>2. ASSUME trav[g] # None, ~Nss(g), g \notin disturbed'
      PROVE  stream'[trav[g].kind] = stream[trav[g].kind]
  <2>1. trav[g].kind # k /\ trav[g].kind \in Kind
    BY <1>2 DEF Disturbed, WalksOK
  <2> QED
    BY <2>1
<1> QED
  BY <1>1, <1>2

(* endpwent() and endgrent() leave the other stream alone. *)
LEMMA StreamClosed ==
  ASSUME WalksOK, NEW k \in Kind, EndEnt(k)
  PROVE  /\ stream' \in [Kind -> Stream] /\ StreamOK(k, stream'[k])
         /\ \A j \in Kind \ {k} : stream'[j] = stream[j]
<1>1. Closed \in Stream /\ StreamOK(k, Closed)
  BY DEF Closed, Stream, StreamOK
<1>2. stream'[k] = Closed
  BY DEF WalksOK, EndEnt
<1> QED
  BY <1>1, <1>2 DEF WalksOK, EndEnt

(* A step that changes what is loaded or the account files only *)
LEMMA QuietStep ==
  ASSUME IInv, TypeOK', NoLeak', OpeningOK', UNCHANGED <<dq, stream, walks>>,
         \A g \in opened : drv'[g] = drv[g],
         \A g \in opened' \ opened : dest[g] = None,
         \A g \in Handle : opening'[g] = 2 <=> opening[g] = 2
  PROVE  IInv'
<1>1. \A g \in Handle : trav[g] # None => g \in opened
  BY DEF IInv, TypeOK
<1>3. \A g \in opened : Nss(g)' <=> Nss(g)
  BY DEF Nss, Has
<1>4. DqOK'
  BY DEF IInv, DqOK
<1>5. WalksOK' /\ StreamsOK'
  <2>1. \A g \in disturbed : g \in opened
    BY <1>1 DEF IInv, TypeOK
  <2>2. WalksOK'
    BY <1>3, <2>1 DEF IInv, WalksOK, walks, Stream
  <2>3. StreamsOK'
    BY DEF IInv, StreamsOK, walks
  <2> QED
    BY <2>2, <2>3
<1>6. ASSUME NEW g \in Handle PROVE AnswerOK(g)' /\ ListOK(g)'
  <2>1. ListOK(g)'
    BY DEF IInv, ListOK
  <2>2. dest'[g] = dest[g] /\ kept' = kept /\ AnswerOK(g)
    BY DEF IInv, walks
  <2>3. ASSUME g \in opened', g \notin opened PROVE AnswerOK(g)'
    BY <2>2, <2>3 DEF AnswerOK
  <2>4. ASSUME g \in opened' => g \in opened PROVE AnswerOK(g)'
    BY <1>3, <2>2, <2>4, AnswerKept
  <2> QED
    BY <2>1, <2>3, <2>4
<1>7. ASSUME NEW g \in Handle PROVE WalkOK(g)'
  <2>1. CASE trav[g] = None
    BY <2>1 DEF WalkOK, walks
  <2>2. CASE trav[g] # None
    <3>1. drv'[g] = drv[g]
      BY <1>1, <2>2
    <3> QED
      BY <3>1, WalkKept DEF IInv, walks
  <2> QED
    BY <2>1, <2>2
<1> QED
  BY <1>4, <1>5, <1>6, <1>7 DEF IInv

\* A call of another handle leaves this one alone.
Alone(g) ==
  /\ g \in opened' <=> g \in opened
  /\ opening'[g] = opening[g] /\ dq'[g] = dq[g] /\ trav'[g] = trav[g]
  /\ dest'[g] = dest[g] /\ due'[g] = due[g] /\ seen'[g] = seen[g]
  /\ g \in kept <=> g \in kept'
  /\ g \in disturbed => g \in disturbed'
  /\ trav[g] # None /\ ~Nss(g) /\ g \notin disturbed' =>
       stream'[trav[g].kind] = stream[trav[g].kind]

(* A step of one open or opening handle: the others are left alone. *)
LEMMA HandleStep ==
  ASSUME IInv, NEW h \in Handle, UNCHANGED <<libvxdb, host>>, \A g \in Handle \ {h} : Alone(g),
         opened' \subseteq Handle, disturbed' \subseteq {g \in Handle : trav'[g] # None},
         kept' \subseteq kept \cup {h}, h \in kept' => h \in opened',
         opening' \in [Handle -> 0 .. 3], h \in opened' => drv[h] # None /\ opening'[h] = 0,
         opening'[h] # 0 => drv[h] # None,
         h \notin opened' => /\ trav'[h] = None /\ dest'[h] = None
                             /\ opening'[h] = 0 => dq'[h] = Nothing,
         DqOK', WalksOK', StreamsOK', AnswerOK(h)', WalkOK(h)', ListOK(h)'
  PROVE  IInv'
<1> drv' = drv /\ dl' = dl /\ host' = host
  BY DEF libvxdb
<1>1. TypeOK'
  <2>1. \A g \in opened' : drv[g] # None /\ opening'[g] = 0
    BY DEF IInv, TypeOK, Alone
  <2>2. \A g \in Handle \ opened' : /\ trav'[g] = None /\ dest'[g] = None
                                    /\ opening'[g] = 0 => dq'[g] = Nothing
    BY DEF IInv, TypeOK, Alone
  <2>3. kept' \subseteq opened'
    BY DEF IInv, TypeOK, Alone
  <2> QED
    BY <2>1, <2>2, <2>3 DEF IInv, TypeOK
<1>2. NoLeak' /\ OpeningOK'
  BY DEF IInv, NoLeak, OpeningOK, Alone
<1>3. \A g \in Handle : Nss(g)' <=> Nss(g)
  BY DEF Nss, Has
<1>4. ASSUME NEW g \in Handle \ {h} PROVE AnswerOK(g)' /\ WalkOK(g)' /\ ListOK(g)'
  <2>1. AnswerOK(g)'
    BY <1>3, <1>4, AnswerKept DEF IInv, Alone
  <2>2. WalkOK(g)'
    BY <1>4, WalkKept DEF IInv, Alone
  <2>3. ListOK(g)'
    BY <1>4 DEF IInv, ListOK, Alone
  <2> QED
    BY <2>1, <2>2, <2>3
<1> QED
  BY <1>1, <1>2, <1>4 DEF IInv

-----------------------------------------------------------------------------
(* Loading, opening and closing *)

(* What other programs write is not seen before it is read. *)
LEMMA HostStep == ASSUME IInv, HostChange PROVE IInv'
<1>1. TypeOK' /\ NoLeak' /\ OpeningOK'
  BY DEF IInv, TypeOK, NoLeak, OpeningOK, HostChange, walks, libvxdb
<1> QED
  BY <1>1, QuietStep DEF HostChange, libvxdb

(* A step of one handle that is not open, between other calls *)
LEMMA LoadingStep ==
  ASSUME IInv, NEW h \in Handle, h \notin opened, Idle,
         UNCHANGED <<host, opened, opening, dq, stream, walks>>,
         drv' \in [Handle -> Driver \cup {None}], dl' \in [Driver -> Nat], NoLeak',
         \A g \in Handle \ {h} : drv'[g] = drv[g]
  PROVE  IInv'
<1>1. \A g \in opened : drv'[g] = drv[g]
  BY DEF IInv, TypeOK
<1>2. OpeningOK'
  BY DEF IInv, OpeningOK, Idle
<1>3. TypeOK'
  BY <1>1 DEF IInv, TypeOK, walks
<1> QED
  BY <1>1, <1>2, <1>3, QuietStep

(* vxdb_load() and vxdb_unload() concern no open handle. *)
LEMMA LoadUnloadStep ==
  ASSUME IInv, NEW h \in Handle,
         Unload(h) \/ \E name \in Database, stage \in Stage : Load(h, name, stage)
  PROVE  IInv'
<1>1. CASE Unload(h)
  BY <1>1, UnloadStep, LoadingStep DEF Unload, IInv
<1>2. ASSUME NEW name \in Database, NEW stage \in Stage, Load(h, name, stage) PROVE IInv'
  <2>1. drv[h] = None
    BY <1>2 DEF Load, vxdb_load
  <2>2. h \notin opened
    BY <2>1 DEF IInv, TypeOK
  <2> QED
    BY <1>2, <2>2, LoadStep, LoadingStep DEF Load, IInv
<1> QED
  BY <1>1, <1>2

(* Opening begins with nothing but a mark. *)
LEMMA OpenStep == ASSUME IInv, NEW h \in Handle, Open(h) PROVE IInv'
<1>1. /\ drv' = drv /\ dl' = dl /\ host' = host /\ UNCHANGED <<dq, stream, walks>>
      /\ drv[h] # None /\ h \notin opened /\ Idle
  BY DEF Open, libvxdb
<1>2. opening \in [Handle -> 0 .. 3] /\ opening[h] = 0
  BY <1>1 DEF IInv, TypeOK, Idle
<1>3. \/ opening' = [opening EXCEPT ![h] = 1] /\ opened' = opened
      \/ opening' = opening /\ opened' = opened \cup {h}
  BY DEF Open
<1>4. TypeOK'
  BY <1>1, <1>2, <1>3 DEF IInv, TypeOK, walks
<1>5. NoLeak' /\ OpeningOK'
  BY <1>1, <1>2, <1>3 DEF IInv, NoLeak, OpeningOK
<1>6. /\ \A g \in opened' \ opened : dest[g] = None
      /\ \A g \in Handle : opening'[g] = 2 <=> opening[g] = 2
  BY <1>1, <1>2, <1>3 DEF IInv, TypeOK
<1> QED
  BY <1>1, <1>4, <1>5, <1>6, QuietStep

(* Reading replaces one list of one handle. *)
LEMMA DqUser ==
  ASSUME DqOK, NEW h \in Handle, NEW l \in Seq(User), dq' = [dq EXCEPT ![h].user = l]
  PROVE  DqOK' /\ (\A g \in Handle \ {h} : dq'[g] = dq[g])
         /\ dq'[h] = [user |-> l, group |-> dq[h].group]
<1>1. dq[h] = [user |-> dq[h].user, group |-> dq[h].group]
  BY DEF DqOK
<1>2. dq'[h] = [user |-> l, group |-> dq[h].group]
  BY <1>1 DEF DqOK
<1>3. \A g \in Handle \ {h} : dq'[g] = dq[g]
  BY DEF DqOK
<1>4. dq' = [g \in Handle |-> [user |-> dq'[g].user, group |-> dq'[g].group]]
  BY <1>2, <1>3 DEF DqOK
<1>5. \A g \in Handle : dq'[g].user \in Seq(User) /\ dq'[g].group \in Seq(Group)
  BY <1>2, <1>3 DEF DqOK
<1> QED
  BY <1>2, <1>3, <1>4, <1>5 DEF DqOK

LEMMA DqGroup ==
  ASSUME DqOK, NEW h \in Handle, NEW l \in Seq(Group), dq' = [dq EXCEPT ![h].group = l]
  PROVE  DqOK' /\ (\A g \in Handle \ {h} : dq'[g] = dq[g])
         /\ dq'[h] = [user |-> dq[h].user, group |-> l]
<1>1. dq[h] = [user |-> dq[h].user, group |-> dq[h].group]
  BY DEF DqOK
<1>2. dq'[h] = [user |-> dq[h].user, group |-> l]
  BY <1>1 DEF DqOK
<1>3. \A g \in Handle \ {h} : dq'[g] = dq[g]
  BY DEF DqOK
<1>4. dq' = [g \in Handle |-> [user |-> dq'[g].user, group |-> dq'[g].group]]
  BY <1>2, <1>3 DEF DqOK
<1>5. \A g \in Handle : dq'[g].user \in Seq(User) /\ dq'[g].group \in Seq(Group)
  BY <1>2, <1>3 DEF DqOK
<1> QED
  BY <1>2, <1>3, <1>4, <1>5 DEF DqOK

(* The lists that are read *)
LEMMA PasswdRead ==
  ASSUME NEW f \in Hosts
  PROVE  /\ Passwd(f) \in Seq(User) /\ DOMAIN Passwd(f) = 1 .. Len(Passwd(f)) /\ Len(Passwd(f)) \in Nat
         /\ \A i \in DOMAIN Passwd(f) :
              /\ i \in DOMAIN f.passwd /\ f.passwd[i] \in Line
              /\ Passwd(f)[i] = [name |-> Bare[f.passwd[i].name], id |-> f.passwd[i].id, pw |-> None]
<1> DEFINE lines == Readable(f.passwd)
           n == Len(lines)
<1>1. f.passwd \in Seq(Line)
  BY NssAssumption
<1>2. /\ n \in Nat /\ DOMAIN lines = 1 .. n
      /\ \A i \in 1 .. n : i \in DOMAIN f.passwd /\ lines[i] = f.passwd[i]
  BY <1>1, ReadableIs
<1>3. \A i \in 1 .. n : f.passwd[i] \in Line
  BY <1>1, <1>2, ElementOfSeq, LenProperties
<1> HIDE DEF lines, n
<1>4. Passwd(f) = [i \in 1 .. n |-> [name |-> Bare[lines[i].name], id |-> lines[i].id, pw |-> None]]
  BY <1>2 DEF Passwd, lines
<1>5. \A i \in 1 .. n : Passwd(f)[i] =
        [name |-> Bare[f.passwd[i].name], id |-> f.passwd[i].id, pw |-> None]
  BY <1>2, <1>4
<1>6. ASSUME NEW i \in 1 .. n PROVE Passwd(f)[i] \in User
  <2>1. f.passwd[i].name \in DOMAIN Bare /\ f.passwd[i].id \in Ids
    BY <1>3 DEF Line
  <2>2. Bare[f.passwd[i].name] \in DOMAIN Bare
    BY <2>1, NssAssumption
  <2>3. Passwd(f)[i] = [name |-> Bare[f.passwd[i].name], id |-> f.passwd[i].id, pw |-> None]
    BY <1>5, Zenon
  <2> QED
    BY <2>1, <2>2, <2>3 DEF User
<1>7. Passwd(f) \in [1 .. n -> User]
  BY <1>4, <1>6
<1>8. Passwd(f) \in Seq(User) /\ Len(Passwd(f)) = n /\ DOMAIN Passwd(f) = 1 .. n
  BY <1>2, <1>7, SeqOfFunction
<1> QED
  BY <1>2, <1>3, <1>5, <1>8

LEMMA GroupsRead ==
  ASSUME NEW f \in Hosts
  PROVE  Groups(f) \in Seq(Group) /\ \A i \in DOMAIN Groups(f) : GroupOK(Groups(f)[i])
<1> DEFINE lines == Readable(f.group)
           n == Len(lines)
<1>1. f.group \in Seq(Line)
  BY NssAssumption
<1>2. /\ n \in Nat /\ DOMAIN lines = 1 .. n
      /\ \A i \in 1 .. n : i \in DOMAIN f.group /\ lines[i] = f.group[i]
  BY <1>1, ReadableIs
<1>3. \A i \in 1 .. n : f.group[i] \in Line
  BY <1>1, <1>2, ElementOfSeq, LenProperties
<1> HIDE DEF lines, n
<1>4. Groups(f) = [i \in 1 .. n |-> Stripped(Plain(lines[i]))]
  BY <1>2 DEF Groups, lines
<1>5. \A i \in 1 .. n : Groups(f)[i] = [name |-> Bare[f.group[i].name], id |-> f.group[i].id]
  BY <1>2, <1>4 DEF Stripped, Plain
<1>6. ASSUME NEW i \in 1 .. n PROVE Groups(f)[i] \in Group
  <2>1. f.group[i].name \in DOMAIN Bare /\ f.group[i].id \in Ids
    BY <1>3 DEF Line
  <2>2. Bare[f.group[i].name] \in DOMAIN Bare
    BY <2>1, NssAssumption
  <2>3. Groups(f)[i] = [name |-> Bare[f.group[i].name], id |-> f.group[i].id]
    BY <1>5, Zenon
  <2> QED
    BY <2>1, <2>2, <2>3 DEF Group
<1>7. ASSUME NEW i \in 1 .. n PROVE Of(Groups(f)[i], f.group[i])
  <2>1. Groups(f)[i].name = Bare[f.group[i].name] /\ Groups(f)[i].id = f.group[i].id
    <3>1. Groups(f)[i] = [name |-> Bare[f.group[i].name], id |-> f.group[i].id]
      BY <1>5, Zenon
    <3> QED
      BY <3>1
  <2> QED
    BY <2>1 DEF Of
<1>8. Groups(f) \in [1 .. n -> Group]
  BY <1>4, <1>6
<1>9. Groups(f) \in Seq(Group) /\ DOMAIN Groups(f) = 1 .. n
  BY <1>2, <1>8, SeqOfFunction
<1> QED
  BY <1>2, <1>7, <1>9 DEF GroupOK

\* What db_read_shadow() makes of the users, given the file g
Mine(users, g, i) ==
  {k \in DOMAIN Readable(g.shadow) : i \in First(users, "name", Bare[Readable(g.shadow)[k].name])}

WithPasswords(users, g) ==
  [i \in DOMAIN users |->
     IF Mine(users, g, i) = {} THEN users[i]
     ELSE [users[i] EXCEPT !.pw = Readable(g.shadow)[CHOOSE k \in Mine(users, g, i) :
                                    \A j \in Mine(users, g, i) : j <= k].pw]]

(* Each user gets a password of his own, or has none, or is the second of   *)
(* his name.                                                                *)
LEMMA ShadowRead ==
  ASSUME NEW f \in Hosts, NEW g \in Hosts, NEW users, users = Passwd(f)
  PROVE  /\ WithPasswords(users, g) \in Seq(User)
         /\ \A i \in DOMAIN WithPasswords(users, g) : UserOK(WithPasswords(users, g)[i])
<1> DEFINE n == Len(users)
           lines == Readable(g.shadow)
           new == WithPasswords(users, g)
<1>1. /\ n \in Nat /\ DOMAIN users = 1 .. n
      /\ \A i \in 1 .. n : /\ i \in DOMAIN f.passwd /\ f.passwd[i] \in Line
                            /\ users[i] = [name |-> Bare[f.passwd[i].name],
                                           id |-> f.passwd[i].id, pw |-> None]
  BY PasswdRead
<1>2. g.shadow \in Seq(ShadowLine)
  BY NssAssumption
<1>3. Len(lines) \in Nat /\ DOMAIN lines = 1 .. Len(lines) /\ lines \in Seq(ShadowLine)
      /\ \A k \in DOMAIN lines : lines[k] \in ShadowLine
  <2>1. Len(lines) \in Nat /\ DOMAIN lines = 1 .. Len(lines) /\ lines \in Seq(ShadowLine)
    BY <1>2, ReadableIs
  <2>2. \A k \in 1 .. Len(lines) : lines[k] \in ShadowLine
    BY <2>1, ElementOfSeq
  <2> QED
    BY <2>1, <2>2
<1>4. ASSUME NEW i \in 1 .. n PROVE new[i] \in User /\ UserOK(new[i])
  <2> DEFINE u == users[i]
             mine == Mine(users, g, i)
             last == CHOOSE k \in mine : \A j \in mine : j <= k
  <2>1. u = [name |-> Bare[f.passwd[i].name], id |-> f.passwd[i].id, pw |-> None]
        /\ u.name \in DOMAIN Bare /\ u.id \in Ids
    BY <1>1, NssAssumption DEF Line
  <2>2. new[i] = IF mine = {} THEN u ELSE [u EXCEPT !.pw = lines[last].pw]
    BY <1>1 DEF WithPasswords
  <2>3. CASE mine = {}
    <3>1. new[i] = u /\ u \in User /\ Account(f, u) /\ u.pw = None
      BY <1>1, <2>1, <2>2, <2>3 DEF User, Account, Of
    <3>2. CASE NssPasswords(g, u.name) = {}
      BY <3>1, <3>2 DEF UserOK
    <3>3. CASE NssPasswords(g, u.name) # {}
      <4>1. PICK l \in Range(lines) : Bare[l.name] = u.name
        BY <3>3 DEF NssPasswords
      <4>2. PICK k \in DOMAIN lines : l = lines[k]
        BY <4>1 DEF Range
      <4>3. i \notin First(users, "name", u.name)
        BY <2>3, <4>1, <4>2 DEF Mine
      <4>4. users[i]["name"] = u.name
        OBVIOUS
      <4>5. PICK j \in 1 .. (i - 1) : users[j]["name"] = u.name
        BY <1>1, <4>3, <4>4 DEF First
      <4>6. j \in 1 .. n /\ i # j
        BY <1>1
      <4>7. Bare[f.passwd[j].name] = Bare[f.passwd[i].name]
        BY <1>1, <2>1, <4>5, <4>6
      <4>8. Twice(f)
        BY <1>1, <4>6, <4>7 DEF Twice
      <4> QED
        BY <3>1, <4>8 DEF UserOK
    <3> QED
      BY <3>1, <3>2, <3>3
  <2>4. CASE mine # {}
    <3>1. last \in mine
      <4>1. mine \subseteq 1 .. Len(lines)
        BY <1>3 DEF Mine
      <4>2. \E k \in mine : \A j \in mine : j <= k
        BY <1>3, <2>4, <4>1, GreatestNat
      <4> QED
        BY <4>2
    <3> HIDE DEF last
    <3>2. last \in DOMAIN lines /\ i \in First(users, "name", Bare[lines[last].name])
      BY <3>1 DEF Mine
    <3>3. u.name = Bare[lines[last].name]
      BY <3>2 DEF First
    <3>4. lines[last] \in Range(lines) /\ lines[last].pw \in Password
      BY <1>3, <3>2 DEF Range, ShadowLine
    <3>5. new[i] = [name |-> u.name, id |-> u.id, pw |-> lines[last].pw]
      BY <2>1, <2>2, <2>4
    <3>6. lines[last].pw \in NssPasswords(g, u.name)
      BY <3>3, <3>4 DEF NssPasswords
    <3>7. Account(f, [name |-> u.name, id |-> u.id, pw |-> lines[last].pw])
      BY <1>1, <2>1 DEF Account, Of
    <3> HIDE DEF u, lines, new
    <3>8. new[i] \in User
      BY <2>1, <3>4, <3>5 DEF User
    <3>9. UserOK(new[i])
      <4>1. new[i].name = u.name /\ new[i].pw = lines[last].pw
        BY <3>5
      <4> QED
        BY <3>5, <3>6, <3>7, <4>1 DEF UserOK
    <3> QED
      BY <3>8, <3>9
  <2> QED
    BY <2>3, <2>4
<1>5. DOMAIN new = 1 .. n /\ new = [i \in 1 .. n |-> new[i]]
  BY <1>1 DEF WithPasswords
<1> HIDE DEF new, n
<1>6. new \in [1 .. n -> User]
  BY <1>4, <1>5
<1>7. new \in Seq(User)
  BY <1>1, <1>6, SeqOfFunction
<1> QED
  BY <1>4, <1>5, <1>7 DEF new

(* The three files that vxnss_open() reads *)
LEMMA ReadSteps ==
  ASSUME IInv, NEW h \in Handle, db_read_passwd(h) \/ db_read_shadow(h) \/ db_read_groups(h)
  PROVE  IInv'
<1>1. /\ UNCHANGED <<libvxdb, host, trav, dest, due, seen, kept>>
      /\ drv[h] # None /\ h \notin opened /\ trav[h] = None /\ dest[h] = None
  <2>1. UNCHANGED <<libvxdb, host, trav, dest, due, seen, kept>>
    BY DEF db_read_passwd, db_read_shadow, db_read_groups, walks
  <2>2. opening[h] # 0
    BY DEF db_read_passwd, db_read_shadow, db_read_groups
  <2>3. drv[h] # None
    BY <2>2 DEF IInv, OpeningOK
  <2>4. h \notin opened
    BY <2>2 DEF IInv, TypeOK
  <2>5. trav[h] = None /\ dest[h] = None
    BY <2>4 DEF IInv, TypeOK
  <2> QED
    BY <2>1, <2>3, <2>4, <2>5
<1>2. DqOK /\ WalksOK /\ StreamsOK /\ ListOK(h) /\ host \in Hosts /\ h \notin kept
      /\ opening \in [Handle -> 0 .. 3] /\ opened \subseteq Handle
      /\ disturbed \subseteq {g \in Handle : trav[g] # None}
  BY <1>1 DEF IInv, TypeOK
<1>3. \A g \in Handle : Nss(g)' <=> Nss(g)
  BY <1>1 DEF Nss, Has, libvxdb
<1>4. CASE db_read_passwd(h)
  <2>1. PICK f, l : f \in Hosts /\ l = Passwd(f) /\ dq' = [dq EXCEPT ![h].user = l]
    BY <1>2, <1>4 DEF db_read_passwd, Passwd
  <2>2. EndEnt("user") /\ disturbed' = Disturbed(h, {"user"}) /\ opening[h] = 1
        /\ opening' = [opening EXCEPT ![h] = 2] /\ opened' = opened
    BY <1>4 DEF db_read_passwd
  <2>3. l \in Seq(User)
    BY <2>1, PasswdRead
  <2>4. DqOK' /\ (\A g \in Handle \ {h} : dq'[g] = dq[g])
        /\ dq'[h] = [user |-> l, group |-> dq[h].group]
    BY <1>2, <2>1, <2>3, DqUser
  <2>5. "user" \in Kind
    BY DEF Kind
  <2>6. /\ stream' \in [Kind -> Stream] /\ StreamOK("user", stream'["user"])
        /\ \A j \in Kind \ {"user"} : stream'[j] = stream[j]
    BY <1>2, <2>2, <2>5, StreamClosed
  <2>7. disturbed' \subseteq {g \in Handle : trav[g] # None} /\ disturbed \subseteq disturbed'
        /\ \A g \in disturbed' : ~Nss(g)
    BY <1>2, <2>2 DEF Disturbed, WalksOK
  <2>8. WalksOK' /\ StreamsOK'
    <3>1. WalksOK'
      BY <1>1, <1>2, <1>3, <2>6, <2>7 DEF WalksOK, Stream
    <3>2. StreamsOK'
      BY <1>2, <2>6 DEF StreamsOK
    <3> QED
      BY <3>1, <3>2
  <2>9. ASSUME NEW g \in Handle \ {h} PROVE Alone(g)
    BY <1>1, <1>2, <2>4, <2>2, <2>5, <2>6, OthersKept DEF Alone
  <2>10. AnswerOK(h)' /\ WalkOK(h)' /\ ListOK(h)'
    <3>1. AnswerOK(h)' /\ WalkOK(h)'
      BY <1>1, <2>2 DEF AnswerOK, WalkOK
    <3>2. opening'[h] = 2 /\ dq'[h].user = Passwd(f) /\ dq'[h].group = dq[h].group
      BY <1>2, <2>4, <2>1, <2>2
    <3>3. ListOK(h)'
      BY <1>2, <2>1, <3>2 DEF ListOK
    <3> QED
      BY <3>1, <3>3
  <2>11. /\ h \in opened' => drv[h] # None /\ opening'[h] = 0
         /\ opening' \in [Handle -> 0 .. 3] /\ opening'[h] = 2
         /\ kept' \subseteq kept \cup {h} /\ h \notin kept'
    BY <1>1, <1>2, <2>2
  <2> QED
    BY <1>1, <1>2, <2>4, <2>2, <2>7, <2>8, <2>9, <2>10, <2>11, HandleStep
<1>5. CASE db_read_shadow(h)
  <2>1. PICK f \in Hosts : dq[h].user = Passwd(f)
    BY <1>2, <1>5 DEF ListOK, db_read_shadow
  <2>2. PICK g, users, l :
           g \in Hosts /\ users = Passwd(f) /\ l = WithPasswords(users, g) /\ dq' = [dq EXCEPT ![h].user = l]
    <3>1. dq' = [dq EXCEPT ![h].user = WithPasswords(dq[h].user, host)]
      BY <1>5 DEF db_read_shadow, WithPasswords, Mine
    <3> QED
      BY <1>2, <2>1, <3>1, Zenon
  <2>3. opening' = [opening EXCEPT ![h] = 3] /\ UNCHANGED <<opened, stream, disturbed>>
    BY <1>5 DEF db_read_shadow, walks
  <2>4. l \in Seq(User) /\ \A i \in DOMAIN l : UserOK(l[i])
    BY <2>2, ShadowRead
  <2>5. DqOK' /\ (\A e \in Handle \ {h} : dq'[e] = dq[e])
        /\ dq'[h] = [user |-> l, group |-> dq[h].group]
    BY <1>2, <2>2, <2>4, DqUser
  <2>6. WalksOK' /\ StreamsOK'
    <3>1. WalksOK'
      BY <1>1, <1>2, <1>3, <2>3 DEF WalksOK, Stream
    <3>2. StreamsOK'
      BY <1>2, <2>3 DEF StreamsOK
    <3> QED
      BY <3>1, <3>2
  <2>7. \A e \in Handle \ {h} : Alone(e)
    BY <1>1, <1>2, <2>3, <2>5 DEF Alone
  <2>8. AnswerOK(h)' /\ WalkOK(h)'
    BY <1>1, <2>3 DEF AnswerOK, WalkOK
  <2>9. ListOK(h)'
    <3>1. opening'[h] = 3 /\ dq'[h].user = l /\ dq'[h].group = dq[h].group
      BY <1>2, <2>3, <2>5
    <3> QED
      BY <1>2, <2>4, <3>1 DEF ListOK
  <2>10. /\ h \in opened' => drv[h] # None /\ opening'[h] = 0
         /\ opening' \in [Handle -> 0 .. 3] /\ opening'[h] = 3
         /\ kept' \subseteq kept \cup {h} /\ h \notin kept'
    BY <1>1, <1>2, <2>3
  <2> QED
    BY <1>1, <1>2, <2>3, <2>5, <2>6, <2>7, <2>8, <2>9, <2>10, HandleStep
<1>6. CASE db_read_groups(h)
  <2>1. PICK f, l : f \in Hosts /\ l = Groups(f) /\ dq' = [dq EXCEPT ![h].group = l]
    BY <1>2, <1>6 DEF db_read_groups, Groups
  <2>2. EndEnt("group") /\ disturbed' = Disturbed(h, {"group"}) /\ opening[h] = 3
        /\ opening' = [opening EXCEPT ![h] = 0] /\ opened' = opened \cup {h}
    BY <1>6 DEF db_read_groups
  <2>3. l \in Seq(Group) /\ \A i \in DOMAIN l : GroupOK(l[i])
    BY <2>1, GroupsRead
  <2>4. DqOK' /\ (\A g \in Handle \ {h} : dq'[g] = dq[g])
        /\ dq'[h] = [user |-> dq[h].user, group |-> l]
    BY <1>2, <2>1, <2>3, DqGroup
  <2>5. "group" \in Kind
    BY DEF Kind
  <2>6. /\ stream' \in [Kind -> Stream] /\ StreamOK("group", stream'["group"])
        /\ \A j \in Kind \ {"group"} : stream'[j] = stream[j]
    BY <1>2, <2>2, <2>5, StreamClosed
  <2>7. disturbed' \subseteq {g \in Handle : trav[g] # None} /\ disturbed \subseteq disturbed'
        /\ \A g \in disturbed' : ~Nss(g)
    BY <1>2, <2>2 DEF Disturbed, WalksOK
  <2>8. WalksOK' /\ StreamsOK'
    <3>1. WalksOK'
      BY <1>1, <1>2, <1>3, <2>6, <2>7 DEF WalksOK, Stream
    <3>2. StreamsOK'
      BY <1>2, <2>6 DEF StreamsOK
    <3> QED
      BY <3>1, <3>2
  <2>9. ASSUME NEW g \in Handle \ {h} PROVE Alone(g)
    BY <1>1, <1>2, <2>4, <2>2, <2>5, <2>6, OthersKept DEF Alone
  <2>10. AnswerOK(h)' /\ WalkOK(h)' /\ ListOK(h)'
    <3>1. AnswerOK(h)' /\ WalkOK(h)'
      BY <1>1, <2>2 DEF AnswerOK, WalkOK
    <3>2. opening'[h] = 0 /\ dq'[h].user = dq[h].user /\ dq'[h].group = l
      BY <1>2, <2>4, <2>2
    <3>3. ListOK(h)'
      BY <1>2, <2>2, <2>3, <3>2 DEF ListOK
    <3> QED
      BY <3>1, <3>3
  <2>11. /\ h \in opened' => drv[h] # None /\ opening'[h] = 0
         /\ opening' \in [Handle -> 0 .. 3] /\ opening'[h] = 0 /\ h \in opened'
         /\ opened' \subseteq Handle
         /\ kept' \subseteq kept \cup {h} /\ h \notin kept'
    BY <1>1, <1>2, <2>2
  <2> QED
    BY <1>1, <1>2, <2>4, <2>2, <2>7, <2>8, <2>9, <2>10, <2>11, HandleStep
<1> QED
  BY <1>4, <1>5, <1>6

(* Closing drops the lists; the handle has no traversal and no answer then. *)
LEMMA CloseStep == ASSUME IInv, NEW h \in Handle, Close(h) PROVE IInv'
<1>1. /\ UNCHANGED <<libvxdb, host, opening, stream, trav, due, seen, disturbed>>
      /\ h \in opened /\ trav[h] = None /\ opened' = opened \ {h}
      /\ dq' = [dq EXCEPT ![h] = Nothing] /\ dest' = [dest EXCEPT ![h] = None]
      /\ kept' = kept \ {h}
  BY DEF Close, Usable
<1>2. DqOK /\ WalksOK /\ StreamsOK /\ opening \in [Handle -> 0 .. 3] /\ opening[h] = 0
      /\ opened \subseteq Handle /\ disturbed \subseteq {g \in Handle : trav[g] # None}
  BY <1>1 DEF IInv, TypeOK
<1>3. \A g \in Handle : Nss(g)' <=> Nss(g)
  BY <1>1 DEF Nss, Has, libvxdb
<1>4. dq'[h] = Nothing /\ dest'[h] = None
      /\ \A g \in Handle \ {h} : dq'[g] = dq[g] /\ dest'[g] = dest[g]
  BY <1>1, <1>2 DEF DqOK, WalksOK
<1>5. DqOK'
  <2>1. <<>> \in Seq(User) /\ <<>> \in Seq(Group)
    BY EmptySeq
  <2>2. \A g \in Handle : dq'[g].user \in Seq(User) /\ dq'[g].group \in Seq(Group)
    <3>1. dq'[h].user = <<>> /\ dq'[h].group = <<>>
      BY <1>4 DEF Nothing
    <3>2. \A g \in Handle \ {h} : dq'[g].user \in Seq(User) /\ dq'[g].group \in Seq(Group)
      BY <1>2, <1>4 DEF DqOK
    <3> QED
      BY <2>1, <3>1, <3>2
  <2>3. dq' = [g \in Handle |-> [user |-> dq'[g].user, group |-> dq'[g].group]]
    BY <1>1, <1>2, <1>4 DEF DqOK, Nothing
  <2> QED
    BY <2>2, <2>3 DEF DqOK
<1>6. WalksOK' /\ StreamsOK'
  <2>1. WalksOK'
    BY <1>1, <1>2, <1>3 DEF WalksOK, Stream
  <2>2. StreamsOK'
    BY <1>1, <1>2 DEF StreamsOK
  <2> QED
    BY <2>1, <2>2
<1>7. \A g \in Handle \ {h} : Alone(g)
  BY <1>1, <1>2, <1>4 DEF Alone
<1>8. AnswerOK(h)' /\ WalkOK(h)'
  BY <1>1 DEF AnswerOK, WalkOK
<1>9. ListOK(h)'
  <2>1. opening'[h] = 0 /\ dq'[h].user = <<>> /\ dq'[h].group = <<>>
    BY <1>1, <1>2, <1>4 DEF Nothing
  <2> QED
    BY <2>1 DEF ListOK
<1> QED
  BY <1>1, <1>2, <1>4, <1>5, <1>6, <1>7, <1>8, <1>9, HandleStep

-----------------------------------------------------------------------------
(* Lookups *)

\* An entry of a list, without its password, is like a line.
LEMMA PlainEntry ==
  ASSUME DqOK, TypeOK, NEW h \in Handle, NEW k \in Kind
  PROVE  /\ Len(List(h, k)) \in Nat /\ DOMAIN List(h, k) = 1 .. Len(List(h, k))
         /\ \A i \in 1 .. Len(List(h, k)) :
              /\ Plain(List(h, k)[i]) \in Group
              /\ Nss(h) => List(h, k)[i] \in (IF k = "user" THEN User ELSE Group)
              /\ ~Nss(h) => List(h, k)[i] \in Line /\ Known(k, List(h, k)[i])
<1>1. CASE Nss(h) /\ k = "user"
  <2>1. List(h, k) = dq[h].user /\ dq[h].user \in Seq(User)
    BY <1>1 DEF List, DqOK
  <2>2. \A i \in 1 .. Len(dq[h].user) : dq[h].user[i] \in User
    BY <2>1, ElementOfSeq
  <2>3. Len(dq[h].user) \in Nat /\ DOMAIN dq[h].user = 1 .. Len(dq[h].user)
    BY <2>1, LenProperties
  <2>4. \A e \in User : Plain(e) \in Group
    BY DEF Plain, User, Group
  <2> QED
    BY <1>1, <2>1, <2>2, <2>3, <2>4
<1>2. CASE Nss(h) /\ k = "group"
  <2>1. List(h, k) = dq[h].group /\ dq[h].group \in Seq(Group)
    BY <1>2 DEF List, DqOK
  <2>2. \A i \in 1 .. Len(dq[h].group) : dq[h].group[i] \in Group
    BY <2>1, ElementOfSeq
  <2>3. Len(dq[h].group) \in Nat /\ DOMAIN dq[h].group = 1 .. Len(dq[h].group)
    BY <2>1, LenProperties
  <2>4. \A e \in Group : Plain(e) \in Group
    BY DEF Plain, Group
  <2> QED
    BY <1>2, <2>1, <2>2, <2>3, <2>4
<1>3. CASE ~Nss(h)
  <2>1. List(h, k) = System(k)
    BY <1>3 DEF List
  <2>2. \A e \in Line : Plain(e) \in Group
    BY DEF Plain, Line, Group
  <2> QED
    BY <1>3, <2>1, <2>2, SystemKnown
<1> QED
  BY <1>1, <1>2, <1>3 DEF Kind

(* An entry of a list of an open nss handle is an account, or a group. *)
LEMMA EntryIsRight ==
  ASSUME IInv, NEW h \in opened, Nss(h), NEW k \in Kind, NEW i \in DOMAIN dq[h][k]
  PROVE  LET e == dq[h][k][i]
         IN  /\ Answer(h, k, e) = e
             /\ IF k = "group" THEN e \in Group /\ GroupOK(e) ELSE e \in User /\ UserOK(e)
<1> DEFINE e == dq[h][k][i]
<1>1. DqOK /\ WalksOK /\ TypeOK /\ ListOK(h) /\ h \in Handle /\ opening[h] = 0
  BY DEF IInv, TypeOK
<1>2. e \in IF k = "user" THEN User ELSE Group
  <2>1. List(h, k) = dq[h][k]
    BY DEF List
  <2> QED
    BY <1>1, <2>1, PlainEntry
<1>3. CASE k = "group"
  <2>1. e \in Group /\ GroupOK(e)
    BY <1>1, <1>2, <1>3 DEF ListOK
  <2>2. Plain(e) = e
    BY <2>1 DEF Plain, Group
  <2> QED
    BY <1>3, <2>1, <2>2 DEF Answer
<1>4. CASE k = "user"
  <2>1. e \in User /\ UserOK(e)
    BY <1>1, <1>2, <1>4 DEF ListOK
  <2>2. vxdb_user_copy(Struct(h), e) = e
    BY <1>1, <2>1, StructIs, CopyIs
  <2> QED
    BY <1>4, <2>1, <2>2 DEF Answer
<1> QED
  BY <1>3, <1>4 DEF Kind

(* What makes an answer right *)
LEMMA RightGroup ==
  ASSUME NEW h, NEW e \in Group, GroupOK(e), dest'[h] = e
  PROVE  AnswerOK(h)'
<1>1. "pw" \notin DOMAIN dest'[h] /\ GroupOK(dest'[h])
  BY DEF Group
<1> QED
  BY <1>1 DEF AnswerOK

LEMMA RightUser ==
  ASSUME NEW h, NEW e \in User, UserOK(e), Nss(h)', dest'[h] = e
  PROVE  AnswerOK(h)'
<1>1. PICK f \in Hosts, g \in Hosts :
         /\ Account(f, e)
         /\ \/ e.pw \in NssPasswords(g, e.name)
            \/ e.pw = None /\ (NssPasswords(g, e.name) = {} \/ Twice(f))
  BY DEF UserOK
<1>2. Passwords(h, g, e.name)' = NssPasswords(g, e.name)
  BY DEF Passwords, NssPasswords
<1>3. "pw" \in DOMAIN e
  BY DEF User
<1>4. AnswerOK(h)' <=>
        (h \in opened' /\ dest'[h] # None =>
          IF "pw" \notin DOMAIN dest'[h] THEN GroupOK(dest'[h])
          ELSE \E a, b \in Hosts :
                 /\ Account(a, dest'[h])
                 /\ \/ h \in kept' \/ dest'[h].pw \in Passwords(h, b, dest[h].name)'
                    \/ /\ dest'[h].pw = None
                       /\ Passwords(h, b, dest[h].name)' = {} \/ (Nss(h)' /\ Twice(a)))
  BY DEF AnswerOK
<1>5. Passwords(h, g, dest[h].name)' = Passwords(h, g, e.name)'
  BY DEF Passwords
<1> QED
  BY <1>1, <1>2, <1>3, <1>4, <1>5

(* An answer of nss1: the line is known, and the password is of that name.  *)
LEMMA RightSystemUser ==
  ASSUME TypeOK, NEW h, NEW u \in UserStruct, NEW l \in Line, Known("user", l),
         NEW n \in {l.name, Bare[l.name]}, NEW pe, pe.name = n, pe.id = l.id,
         ~Nss(h)', dest'[h] = nssuser_copy(u, pe, getspnam(n)),
         getspnam(n) = {} => h \in kept' \/ u.pw = None
  PROVE  AnswerOK(h)' /\ dest'[h] \in User
<1> DEFINE q == {e.pw : e \in {x \in Range(host.shadow) : x.name = n}}
<1>1. n \in DOMAIN Bare /\ l.id \in Ids
  BY NssAssumption DEF Line
<1>2. PICK d : d = nssuser_copy(u, pe, getspnam(n))
  OBVIOUS
<1>3. /\ d \in User /\ d.name = n /\ d.id = l.id
      /\ IF getspnam(n) = {} THEN d.pw = u.pw ELSE d.pw \in q
  BY <1>1, <1>2, SystemCopyIs
<1>4. getspnam(n) = {} => q = {}
  BY NoPassword
<1>5. Of(d, l)
  BY <1>3 DEF Of
<1>6. PICK f \in Hosts : Account(f, d)
  BY <1>5, KnownGives
<1>7. host \in Hosts
  BY DEF TypeOK
<1>8. PICK g \in Hosts : g = host
  BY <1>7
<1>9. Passwords(h, g, n)' = q
  BY <1>8 DEF Passwords
<1> HIDE DEF q
<1>10. h \in kept' \/ d.pw \in Passwords(h, g, n)'
       \/ (d.pw = None /\ Passwords(h, g, n)' = {})
  BY <1>3, <1>4, <1>9
<1>11. "pw" \in DOMAIN d /\ dest'[h] = d
  BY <1>2, <1>3 DEF User
<1>12. Passwords(h, g, dest[h].name)' = Passwords(h, g, n)'
  BY <1>3, <1>11 DEF Passwords
<1>13. AnswerOK(h)'
  BY <1>6, <1>10, <1>11, <1>12 DEF AnswerOK
<1> QED
  BY <1>3, <1>11, <1>13

(* A lookup gives an account of the handle's list. *)
LEMMA FoundStep ==
  ASSUME IInv, NEW h \in Handle, NEW k \in Kind, NEW field, NEW value, Found(h, k, field, value)
  PROVE  IInv'
<1>1. /\ UNCHANGED <<libvxdb, host, opened, opening, dq, stream, trav, due, seen, disturbed>>
      /\ h \in opened
  BY DEF Found, Usable
<1>2. PICK i, e :
         /\ i \in First(List(h, k), field, value)
         /\ e = List(h, k)[i] /\ dest' = [dest EXCEPT ![h] = Answer(h, k, e)]
         /\ kept' = IF ~Nss(h) /\ k = "user" /\ getspnam(e.name) = {}
                      THEN kept \cup {h} ELSE kept \ {h}
  BY DEF Found
<1>3. DqOK /\ WalksOK /\ TypeOK /\ StreamsOK /\ ListOK(h)
  BY DEF IInv
<1>4. \A g \in Handle : Nss(g)' <=> Nss(g)
  BY <1>1 DEF Nss, Has, libvxdb
<1>5. dest'[h] = Answer(h, k, e) /\ \A g \in Handle \ {h} : dest'[g] = dest[g]
  BY <1>2, <1>3 DEF WalksOK
<1>6. i \in DOMAIN List(h, k)
  BY <1>2 DEF First
<1>7. AnswerOK(h)' /\ dest'[h] \in User \cup Group
  <2>1. CASE Nss(h)
    <3>1. i \in DOMAIN dq[h][k] /\ e = dq[h][k][i]
      BY <1>2, <1>6, <2>1 DEF List
    <3>2. dest'[h] = e /\ IF k = "group" THEN e \in Group /\ GroupOK(e) ELSE e \in User /\ UserOK(e)
      BY <1>1, <1>5, <2>1, <3>1, EntryIsRight
    <3>3. CASE k = "group"
      BY <3>2, <3>3, RightGroup
    <3>4. CASE k # "group"
      BY <1>4, <2>1, <3>2, <3>4, RightUser
    <3> QED
      BY <3>3, <3>4
  <2>2. CASE ~Nss(h)
    <3>1. e \in Line /\ Known(k, e) /\ Plain(e) \in Group
      BY <1>2, <1>3, <1>6, <2>2, PlainEntry
    <3>2. CASE k = "group"
      <4>1. dest'[h] = Plain(e) /\ Of(Plain(e), e)
        BY <1>5, <3>2 DEF Answer, Of, Plain
      <4>2. GroupOK(Plain(e))
        BY <3>1, <3>2, <4>1, KnownGives
      <4> QED
        BY <3>1, <4>1, <4>2, RightGroup
    <3>3. CASE k = "user"
      <4>1. PICK u \in UserStruct : u = Struct(h)
        BY <1>3, StructIs
      <4>2. dest'[h] = nssuser_copy(u, e, getspnam(e.name))
        BY <1>5, <2>2, <3>3, <4>1 DEF Answer
      <4>3. getspnam(e.name) = {} => h \in kept'
        BY <1>2, <2>2, <3>3
      <4> QED
        BY <1>3, <1>4, <2>2, <3>1, <3>3, <4>2, <4>3, RightSystemUser
    <3> QED
      BY <3>2, <3>3 DEF Kind
  <2> QED
    BY <2>1, <2>2
<1>8. WalkOK(h)' /\ ListOK(h)'
  <2>1. WalkOK(h)'
    BY <1>1, WalkKept DEF IInv, libvxdb
  <2>2. ListOK(h)'
    BY <1>1, <1>3 DEF ListOK
  <2> QED
    BY <2>1, <2>2
<1>9. DqOK' /\ WalksOK' /\ StreamsOK'
  <2>1. DqOK'
    BY <1>1, <1>3 DEF DqOK
  <2>2. dest' \in [Handle -> User \cup Group \cup {None}]
    BY <1>2, <1>3, <1>5, <1>7 DEF WalksOK
  <2>3. WalksOK'
    BY <1>1, <1>3, <1>4, <2>2 DEF WalksOK, Stream, TypeOK
  <2>4. StreamsOK'
    BY <1>1, <1>3 DEF StreamsOK
  <2> QED
    BY <2>1, <2>3, <2>4
<1>10. \A g \in Handle \ {h} : Alone(g)
  BY <1>1, <1>2, <1>5 DEF Alone
<1>11. kept' \subseteq kept \cup {h}
  BY <1>2
<1>12. opening[h] = 0 /\ drv[h] # None
  BY <1>1, <1>3 DEF TypeOK
<1> QED
  BY <1>1, <1>3, <1>7, <1>8, <1>9, <1>10, <1>11, <1>12, HandleStep DEF TypeOK

-----------------------------------------------------------------------------
(* Counting and traversing *)

(* Counting moves only streams whose traversals it disturbs. *)
LEMMA modctlStep == ASSUME IInv, NEW h \in Handle, NEW k \in Kind, modctl(h, k) PROVE IInv'
<1>1. UNCHANGED <<libvxdb, host, opened, opening, dq, trav, dest, due, seen, kept>> /\ h \in opened
  BY DEF modctl, Usable
<1>2. DqOK /\ WalksOK /\ TypeOK /\ StreamsOK /\ ListOK(h) /\ AnswerOK(h)
  BY DEF IInv
<1>3. \A g \in Handle : Nss(g)' <=> Nss(g)
  BY <1>1 DEF Nss, Has, libvxdb
<1>4. /\ stream' \in [Kind -> Stream] /\ StreamsOK'
      /\ disturbed \subseteq disturbed' /\ disturbed' \subseteq {g \in Handle : trav[g] # None /\ ~Nss(g)}
      /\ \A g \in Handle : trav[g] # None /\ ~Nss(g) /\ g \notin disturbed' =>
           stream'[trav[g].kind] = stream[trav[g].kind]
  <2>1. disturbed \subseteq {g \in Handle : trav[g] # None /\ ~Nss(g)}
    BY <1>2 DEF TypeOK, WalksOK
  <2>2. \A g \in Handle : trav[g] # None => trav[g].kind \in Kind
    BY <1>2 DEF WalksOK
  <2>3. CASE Nss(h)
    <3>1. stream' = stream /\ disturbed' = disturbed
      BY <2>3 DEF modctl
    <3> QED
      BY <1>2, <2>1, <3>1 DEF WalksOK, StreamsOK
  <2>4. CASE ~Nss(h)
    <3> DEFINE s == IF k = "group" THEN [list |-> host.group, pos |-> Len(host.group)]
                    ELSE stream["group"]
    <3>1. stream' = [stream EXCEPT !["user"] = Closed, !["group"] = s]
          /\ disturbed' = disturbed \cup
               {g \in Handle : trav[g] # None /\ ~Nss(g) /\ (k = "group" \/ trav[g].kind = "user")}
      BY <1>2, <2>4 DEF modctl, WalksOK, Kind
    <3>2. s \in Stream /\ Closed \in Stream /\ StreamOK("group", s) /\ StreamOK("user", Closed)
      <4>1. /\ host.group \in Seq(Line) /\ Len(host.group) \in Nat
            /\ \A i \in 1 .. Len(host.group) : Known("group", host.group[i])
        <5>1. System("group") = host.group
          BY DEF System
        <5> QED
          BY <1>2, <5>1, SystemKnown DEF Kind
      <4>2. Closed \in Stream /\ StreamOK("user", Closed)
        BY DEF Stream, Closed, StreamOK
      <4>3. CASE k = "group"
        <5>1. s = [list |-> host.group, pos |-> Len(host.group)]
          BY <4>3
        <5>2. s \in Stream /\ StreamOK("group", s)
          BY <4>1, <5>1 DEF Stream, StreamOK
        <5> QED
          BY <4>2, <5>2
      <4>4. CASE k # "group"
        <5>1. s = stream["group"]
          BY <4>4
        <5>2. s \in Stream /\ StreamOK("group", s)
          BY <1>2, <5>1 DEF WalksOK, StreamsOK, Kind
        <5> QED
          BY <4>2, <5>2
      <4> QED
        BY <4>3, <4>4
    <3>3. stream' \in [Kind -> Stream] /\ StreamsOK'
      <4>1. stream' \in [Kind -> Stream] /\ stream'["user"] = Closed /\ stream'["group"] = s
        BY <1>2, <3>1, <3>2 DEF WalksOK, Kind
      <4> QED
        BY <3>2, <4>1 DEF StreamsOK, Kind
    <3>4. k # "group" => stream'["group"] = stream["group"]
      BY <1>2, <3>1 DEF WalksOK, Kind
    <3> QED
      BY <2>1, <2>2, <3>1, <3>3, <3>4 DEF Kind
  <2> QED
    BY <2>3, <2>4
<1>5. DqOK' /\ WalksOK'
  BY <1>1, <1>2, <1>3, <1>4 DEF DqOK, WalksOK, Stream
<1>6. AnswerOK(h)' /\ ListOK(h)'
  <2>1. AnswerOK(h)'
    BY <1>1, <1>2, <1>3, AnswerKept
  <2>2. ListOK(h)'
    BY <1>1, <1>2 DEF ListOK
  <2> QED
    BY <2>1, <2>2
<1>7. WalkOK(h)'
  BY <1>1, <1>4, WalkKept DEF IInv, libvxdb
<1>8. \A g \in Handle \ {h} : Alone(g)
  BY <1>1, <1>4 DEF Alone
<1>9. opening[h] = 0 /\ drv[h] # None /\ kept' \subseteq kept \cup {h}
  BY <1>1, <1>2 DEF TypeOK
<1> QED
  BY <1>1, <1>2, <1>4, <1>5, <1>6, <1>7, <1>8, <1>9, HandleStep DEF TypeOK

(* A traversal begins at the start of the list that is due. *)
LEMMA TravInitStep == ASSUME IInv, NEW h \in Handle, NEW k \in Kind, TravInit(h, k) PROVE IInv'
<1> DEFINE l == [i \in DOMAIN List(h, k) |-> Plain(List(h, k)[i])]
           n == Len(List(h, k))
<1>1. /\ UNCHANGED <<libvxdb, host, opened, opening, dq, dest, kept>> /\ h \in opened /\ trav[h] = None
      /\ trav' = [trav EXCEPT ![h] = [kind |-> k, wp |-> 1]]
      /\ due' = [due EXCEPT ![h] = l] /\ seen' = [seen EXCEPT ![h] = <<>>]
  BY DEF TravInit, Usable
<1>2. DqOK /\ WalksOK /\ TypeOK /\ StreamsOK /\ ListOK(h) /\ AnswerOK(h)
  BY DEF IInv
<1>3. \A g \in Handle : Nss(g)' <=> Nss(g)
  BY <1>1 DEF Nss, Has, libvxdb
<1>4. l \in Seq(Group) /\ Len(l) = n /\ n \in Nat /\ \A i \in 1 .. n : l[i] = Plain(List(h, k)[i])
  <2>1. n \in Nat /\ DOMAIN List(h, k) = 1 .. n /\ \A i \in 1 .. n : Plain(List(h, k)[i]) \in Group
    BY <1>2, PlainEntry
  <2>2. l \in [1 .. n -> Group]
    BY <2>1
  <2> QED
    BY <2>1, <2>2, SeqOfFunction
<1> HIDE DEF l, n
<1>5. /\ trav' \in [Handle -> [kind : Kind, wp : Nat] \cup {None}] /\ trav'[h] = [kind |-> k, wp |-> 1]
      /\ due' \in [Handle -> Seq(Group)] /\ due'[h] = l
      /\ seen' \in [Handle -> Seq(Group)] /\ seen'[h] = <<>>
      /\ \A g \in Handle \ {h} : trav'[g] = trav[g] /\ due'[g] = due[g] /\ seen'[g] = seen[g]
  <2>1. <<>> \in Seq(Group)
    BY EmptySeq
  <2>2. [kind |-> k, wp |-> 1] \in [kind : Kind, wp : Nat]
    OBVIOUS
  <2>3. trav \in [Handle -> [kind : Kind, wp : Nat] \cup {None}]
        /\ due \in [Handle -> Seq(Group)] /\ seen \in [Handle -> Seq(Group)]
    BY <1>2 DEF WalksOK
  <2> QED
    BY <1>1, <1>4, <2>1, <2>2, <2>3
<1>6. [kind |-> k, wp |-> 1] # None
  BY NssAssumption
<1>7. /\ stream' \in [Kind -> Stream] /\ StreamsOK' /\ \A j \in Kind \ {k} : stream'[j] = stream[j]
      /\ Nss(h) => UNCHANGED <<stream, disturbed>>
      /\ ~Nss(h) => stream'[k] = [list |-> List(h, k), pos |-> 0] /\ disturbed' = Disturbed(h, {k})
  <2>1. CASE Nss(h)
    <3>1. stream' = stream /\ disturbed' = disturbed
      BY <2>1 DEF TravInit
    <3> QED
      BY <1>2, <2>1, <3>1 DEF WalksOK, StreamsOK
  <2>2. CASE ~Nss(h)
    <3>1. stream' = [stream EXCEPT ![k] = [list |-> List(h, k), pos |-> 0]]
          /\ disturbed' = Disturbed(h, {k})
      BY <2>2 DEF TravInit, List
    <3>2. /\ List(h, k) \in Seq(Line) /\ Len(List(h, k)) \in Nat
          /\ \A i \in 1 .. Len(List(h, k)) : Known(k, List(h, k)[i])
      <4>1. List(h, k) = System(k)
        BY <2>2 DEF List
      <4> QED
        BY <1>2, <4>1, SystemKnown
    <3> DEFINE st == [list |-> List(h, k), pos |-> 0]
    <3>3. st \in Stream /\ StreamOK(k, st)
      BY <3>2 DEF Stream, StreamOK
    <3>4. stream' \in [Kind -> Stream] /\ stream'[k] = st /\ \A j \in Kind \ {k} : stream'[j] = stream[j]
      BY <1>2, <3>1, <3>3 DEF WalksOK
    <3>5. StreamsOK'
      BY <1>2, <3>3, <3>4 DEF StreamsOK
    <3> QED
      BY <2>2, <3>1, <3>4, <3>5
  <2> QED
    BY <2>1, <2>2
<1>8. /\ disturbed' \subseteq {g \in Handle : trav[g] # None /\ ~Nss(g)} /\ h \notin disturbed'
      /\ \A g \in Handle \ {h} : Alone(g)
  <2>1. disturbed \subseteq {g \in Handle : trav[g] # None /\ ~Nss(g)}
    BY <1>2 DEF TypeOK, WalksOK
  <2>2. disturbed' \subseteq {g \in Handle : trav[g] # None /\ ~Nss(g)} /\ h \notin disturbed'
    BY <1>1, <1>7, <2>1 DEF Disturbed
  <2>3. ASSUME NEW g \in Handle \ {h} PROVE Alone(g)
    <3>1. /\ opened' = opened /\ opening' = opening /\ dq' = dq /\ dest' = dest /\ kept' = kept
          /\ trav'[g] = trav[g] /\ due'[g] = due[g] /\ seen'[g] = seen[g]
      BY <1>1, <1>5
    <3>2. CASE Nss(h)
      <4>1. stream' = stream /\ disturbed' = disturbed
        BY <1>7, <3>2
      <4> QED
        BY <3>1, <4>1 DEF Alone
    <3>3. CASE ~Nss(h)
      <4>1. /\ g \in disturbed => g \in disturbed'
            /\ trav[g] # None /\ ~Nss(g) /\ g \notin disturbed' =>
                 stream'[trav[g].kind] = stream[trav[g].kind]
        BY <1>2, <1>7, <3>3, OthersKept
      <4> QED
        BY <3>1, <4>1 DEF Alone
    <3> QED
      BY <3>2, <3>3
  <2> QED
    BY <2>2, <2>3
<1>9. DqOK' /\ WalksOK'
  <2>1. DqOK'
    BY <1>1, <1>2 DEF DqOK
  <2>2. WalksOK'
    BY <1>1, <1>2, <1>3, <1>5, <1>7, <1>8 DEF WalksOK, Stream
  <2> QED
    BY <2>1, <2>2
<1>10. AnswerOK(h)' /\ ListOK(h)'
  <2>1. AnswerOK(h)'
    BY <1>1, <1>2, <1>3, AnswerKept
  <2>2. ListOK(h)'
    BY <1>1, <1>2 DEF ListOK
  <2> QED
    BY <2>1, <2>2
<1>11. WalkOK(h)'
  <2>1. Walked(h)' = List(h, k) /\ Position(h)' = 0
    <3>1. trav'[h].kind = k /\ trav'[h].wp = 1
      BY <1>5
    <3>2. CASE Nss(h)
      BY <1>1, <1>3, <3>1, <3>2 DEF Walked, Position, List
    <3>3. CASE ~Nss(h)
      <4>1. stream'[k].list = List(h, k) /\ stream'[k].pos = 0
        BY <1>7, <3>3
      <4> QED
        BY <1>3, <3>1, <3>3, <4>1 DEF Walked, Position
    <3> QED
      BY <3>2, <3>3
  <2>2. Len(seen'[h]) = 0
    BY <1>5, EmptySeq
  <2>3. Len(due'[h]) = n /\ n \in Nat /\ \A i \in 1 .. n : due'[h][i] = Plain(List(h, k)[i])
    BY <1>4, <1>5
  <2>4. Len(Walked(h)') = n /\ \A i \in 1 .. n : due'[h][i] = Plain(Walked(h)'[i])
    BY <2>1, <2>3 DEF n
  <2>5. Len(seen'[h]) <= n /\ 1 .. Len(seen'[h]) = {}
    BY <2>2, <2>3
  <2> QED
    BY <2>1, <2>2, <2>3, <2>4, <2>5 DEF WalkOK, Plain
<1>12. /\ h \in opened' => drv[h] # None /\ opening'[h] = 0
       /\ opening'[h] # 0 => drv[h] # None /\ opening' \in [Handle -> 0 .. 3]
       /\ opening' \in [Handle -> 0 .. 3] /\ opened' \subseteq Handle
       /\ disturbed' \subseteq {g \in Handle : trav'[g] # None}
       /\ kept' \subseteq kept \cup {h}
  BY <1>1, <1>2, <1>5, <1>8 DEF TypeOK
<1> QED
  BY <1>1, <1>7, <1>8, <1>9, <1>10, <1>11, <1>12, HandleStep

(* What ends a traversal moves its own stream only. *)
LEMMA TravFreeStep == ASSUME IInv, NEW h \in Handle, TravFree(h) PROVE IInv'
<1>1. /\ UNCHANGED <<libvxdb, host, opened, opening, dq, dest, kept>> /\ h \in opened /\ trav[h] # None
      /\ trav' = [trav EXCEPT ![h] = None]
      /\ due' = [due EXCEPT ![h] = <<>>] /\ seen' = [seen EXCEPT ![h] = <<>>]
  BY DEF TravFree, Usable
<1>2. DqOK /\ WalksOK /\ TypeOK /\ StreamsOK /\ ListOK(h) /\ AnswerOK(h)
  BY DEF IInv
<1>3. \A g \in Handle : Nss(g)' <=> Nss(g)
  BY <1>1 DEF Nss, Has, libvxdb
<1>4. /\ trav' \in [Handle -> [kind : Kind, wp : Nat] \cup {None}] /\ trav'[h] = None
      /\ due' \in [Handle -> Seq(Group)] /\ seen' \in [Handle -> Seq(Group)]
      /\ \A g \in Handle \ {h} : trav'[g] = trav[g] /\ due'[g] = due[g] /\ seen'[g] = seen[g]
  <2>1. <<>> \in Seq(Group)
    BY EmptySeq
  <2>2. trav \in [Handle -> [kind : Kind, wp : Nat] \cup {None}]
        /\ due \in [Handle -> Seq(Group)] /\ seen \in [Handle -> Seq(Group)]
    BY <1>2 DEF WalksOK
  <2> QED
    BY <1>1, <2>1, <2>2
<1> DEFINE k == trav[h].kind
<1>5. k \in Kind
  BY <1>1, <1>2 DEF WalksOK
<1>6. /\ Nss(h) => UNCHANGED <<stream, disturbed>>
      /\ ~Nss(h) => EndEnt(k) /\ disturbed' = Disturbed(h, {k}) \ {h}
  BY DEF TravFree
<1> HIDE DEF k
<1>7. stream' \in [Kind -> Stream] /\ StreamsOK' /\ \A j \in Kind \ {k} : stream'[j] = stream[j]
  <2>1. CASE Nss(h)
    BY <1>2, <1>6, <2>1 DEF WalksOK, StreamsOK
  <2>2. CASE ~Nss(h)
    <3>1. /\ stream' \in [Kind -> Stream] /\ StreamOK(k, stream'[k])
          /\ \A j \in Kind \ {k} : stream'[j] = stream[j]
      BY <1>2, <1>5, <1>6, <2>2, StreamClosed
    <3>2. StreamsOK'
      BY <1>2, <1>5, <3>1 DEF StreamsOK
    <3> QED
      BY <3>1, <3>2
  <2> QED
    BY <2>1, <2>2
<1>8. /\ disturbed' \subseteq {g \in Handle : trav[g] # None /\ ~Nss(g)} /\ h \notin disturbed'
      /\ \A g \in Handle \ {h} : Alone(g)
  <2>1. disturbed \subseteq {g \in Handle : trav[g] # None /\ ~Nss(g)}
    BY <1>2 DEF TypeOK, WalksOK
  <2>2. disturbed' \subseteq {g \in Handle : trav[g] # None /\ ~Nss(g)} /\ h \notin disturbed'
    BY <1>6, <2>1 DEF Disturbed
  <2>3. ASSUME NEW g \in Handle \ {h} PROVE Alone(g)
    <3>1. /\ opened' = opened /\ opening' = opening /\ dq' = dq /\ dest' = dest /\ kept' = kept
          /\ trav'[g] = trav[g] /\ due'[g] = due[g] /\ seen'[g] = seen[g]
      BY <1>1, <1>4
    <3>2. CASE Nss(h)
      <4>1. stream' = stream /\ disturbed' = disturbed
        BY <1>6, <3>2
      <4> QED
        BY <3>1, <4>1 DEF Alone
    <3>3. CASE ~Nss(h)
      <4>1. g \in Disturbed(h, {k}) => g \in disturbed'
        BY <1>6, <3>3
      <4>2. /\ g \in disturbed => g \in disturbed'
            /\ trav[g] # None /\ ~Nss(g) /\ g \notin disturbed' =>
                 stream'[trav[g].kind] = stream[trav[g].kind]
        BY <1>2, <1>5, <1>7, <4>1, OthersKept
      <4> QED
        BY <3>1, <4>2 DEF Alone
    <3> QED
      BY <3>2, <3>3
  <2> QED
    BY <2>2, <2>3
<1>9. DqOK'
  BY <1>1, <1>2 DEF DqOK
<1>10. WalksOK'
  BY <1>1, <1>2, <1>3, <1>4, <1>7, <1>8 DEF WalksOK, Stream
<1>11. AnswerOK(h)' /\ ListOK(h)'
  <2>1. AnswerOK(h)'
    BY <1>1, <1>2, <1>3, AnswerKept
  <2>2. ListOK(h)'
    BY <1>1, <1>2 DEF ListOK
  <2> QED
    BY <2>1, <2>2
<1>12. WalkOK(h)'
  BY <1>4 DEF WalkOK
<1>13. /\ h \in opened' => drv[h] # None /\ opening'[h] = 0
       /\ opening'[h] # 0 => drv[h] # None
       /\ opening' \in [Handle -> 0 .. 3] /\ opened' \subseteq Handle /\ h \in opened'
       /\ disturbed' \subseteq {g \in Handle : trav'[g] # None}
       /\ kept' \subseteq kept \cup {h}
  BY <1>1, <1>2, <1>4, <1>8 DEF TypeOK
<1> QED
  BY <1>1, <1>7, <1>8, <1>9, <1>10, <1>11, <1>12, <1>13, HandleStep

(* What a traversal of nss returns, before it is at its end *)
LEMMA NssEntry ==
  ASSUME IInv, NEW h \in opened, trav[h] # None, ~AtEnd(h), Nss(h)
  PROVE  LET k == trav[h].kind
         IN  /\ k \in Kind /\ trav[h].wp \in DOMAIN dq[h][k]
             /\ Entry(h) = dq[h][k][trav[h].wp]
             /\ IF k = "group" THEN Entry(h) \in Group /\ GroupOK(Entry(h))
                ELSE Entry(h) \in User /\ UserOK(Entry(h))
<1> DEFINE k == trav[h].kind
           wp == trav[h].wp
<1>1. DqOK /\ WalksOK /\ TypeOK /\ WalkOK(h) /\ h \in Handle
  BY DEF IInv, TypeOK
<1>2. k \in Kind /\ wp \in Nat /\ h \notin disturbed /\ seen[h] \in Seq(Group)
  BY <1>1 DEF WalksOK
<1>3. wp >= 1
  <2>1. Position(h) = Len(seen[h]) /\ Position(h) = wp - 1
    BY <1>1, <1>2 DEF WalkOK, Position
  <2>2. Len(seen[h]) \in Nat
    BY <1>2, LenProperties
  <2> QED
    BY <1>2, <2>1, <2>2
<1>4. wp \in DOMAIN dq[h][k]
  <2>1. ~(wp > Len(dq[h][k]))
    BY DEF AtEnd
  <2>2. List(h, k) = dq[h][k]
    BY DEF List
  <2>3. Len(dq[h][k]) \in Nat /\ DOMAIN dq[h][k] = 1 .. Len(dq[h][k])
    BY <1>1, <1>2, <2>2, PlainEntry
  <2> QED
    BY <1>2, <1>3, <2>1, <2>3
<1>5. PICK i \in DOMAIN dq[h][k] : i = wp
  BY <1>4
<1>6. /\ Answer(h, k, dq[h][k][i]) = dq[h][k][i]
      /\ IF k = "group" THEN dq[h][k][i] \in Group /\ GroupOK(dq[h][k][i])
         ELSE dq[h][k][i] \in User /\ UserOK(dq[h][k][i])
  BY <1>2, EntryIsRight
<1>7. Entry(h) = dq[h][k][i]
  BY <1>5, <1>6 DEF Entry
<1> QED
  BY <1>2, <1>4, <1>5, <1>6, <1>7

(* What a traversal of nss1 returns is of a line of the stream. *)
LEMMA SystemEntry ==
  ASSUME IInv, NEW h \in opened, trav[h] # None, ~AtEnd(h), ~Nss(h)
  PROVE  LET k == trav[h].kind
             e == Current(k).list[Current(k).pos + 1]
         IN  /\ k \in Kind /\ Current(k) \in Stream
             /\ Current(k).pos \in 0 .. (Len(Current(k).list) - 1)
             /\ \A i \in 1 .. Len(Current(k).list) : Known(k, Current(k).list[i])
             /\ e \in Line /\ Known(k, e)
             /\ k = "group" => Entry(h) = Plain(e)
             /\ k = "user" => Entry(h) = nssuser_copy(Clean, Stripped(e), getspnam(Bare[e.name]))
<1> DEFINE k == trav[h].kind
           st == Current(k)
<1>1. WalksOK /\ TypeOK /\ StreamsOK /\ h \in Handle
  BY DEF IInv, TypeOK
<1>2. k \in Kind
  BY <1>1 DEF WalksOK
<1>3. st \in Stream /\ (\A i \in 1 .. Len(st.list) : Known(k, st.list[i]))
      /\ st.pos \in 0 .. Len(st.list)
  <2>1. CASE stream[k] = Closed
    <3>1. st = [list |-> System(k), pos |-> 0]
      BY <2>1 DEF Current
    <3>2. /\ System(k) \in Seq(Line) /\ Len(System(k)) \in Nat
          /\ \A i \in 1 .. Len(System(k)) : Known(k, System(k)[i])
      BY <1>1, <1>2, SystemKnown
    <3> QED
      BY <3>1, <3>2 DEF Stream
  <2>2. CASE stream[k] # Closed
    <3>1. st = stream[k]
      BY <2>2 DEF Current
    <3>2. stream[k] \in Stream /\ StreamOK(k, stream[k])
      BY <1>1, <1>2 DEF WalksOK, StreamsOK
    <3> QED
      BY <2>2, <3>1, <3>2 DEF StreamOK
  <2> QED
    BY <2>1, <2>2
<1>4. st.pos # Len(st.list)
  BY DEF AtEnd
<1> HIDE DEF st
<1>5. st.list \in Seq(Line) /\ Len(st.list) \in Nat /\ st.pos \in 0 .. (Len(st.list) - 1)
  <2>1. st.list \in Seq(Line)
    BY <1>3 DEF Stream
  <2>2. Len(st.list) \in Nat
    BY <2>1, LenProperties
  <2> QED
    BY <1>3, <1>4, <2>1, <2>2
<1>6. st.pos + 1 \in 1 .. Len(st.list)
  BY <1>5
<1>7. st.list[st.pos + 1] \in Line /\ Known(k, st.list[st.pos + 1])
  BY <1>3, <1>5, <1>6, ElementOfSeq
<1>8. /\ k = "group" => Entry(h) = Plain(st.list[st.pos + 1])
      /\ k = "user" => Entry(h) = nssuser_copy(Clean, Stripped(st.list[st.pos + 1]),
                                                getspnam(Bare[st.list[st.pos + 1].name]))
  BY DEF Entry, st
<1> QED
  BY <1>2, <1>3, <1>5, <1>7, <1>8 DEF st

LEMMA SystemPlain ==
  ASSUME IInv, NEW h \in opened, trav[h] # None, ~AtEnd(h), ~Nss(h), trav[h].kind = "user"
  PROVE  LET e == Current("user").list[Current("user").pos + 1]
         IN  Plain(Entry(h)) = [name |-> Bare[e.name], id |-> e.id]
<1> DEFINE e == Current("user").list[Current("user").pos + 1]
           pe == Stripped(e)
<1>1. e \in Line /\ Entry(h) = nssuser_copy(Clean, pe, getspnam(Bare[e.name]))
  BY SystemEntry
<1> HIDE DEF e
<1>2. pe.name = Bare[e.name] /\ pe.id = e.id /\ pe.name \in DOMAIN Bare /\ pe.id \in Ids
  BY <1>1, NssAssumption DEF Stripped, Line
<1>3. Clean \in UserStruct /\ TypeOK
  BY DEF Clean, UserStruct, IInv
<1> HIDE DEF pe
<1>4. Entry(h) = nssuser_copy(Clean, pe, getspnam(pe.name))
  BY <1>1, <1>2
<1>5. Entry(h).name = pe.name /\ Entry(h).id = pe.id
  BY <1>2, <1>3, <1>4, SystemCopyIs
<1> QED
  BY <1>2, <1>5 DEF Plain, e

(* An undisturbed traversal that is not at its end returns the next one due. *)
LEMMA NextDue ==
  ASSUME IInv, NEW h \in opened, trav[h] # None, ~AtEnd(h), h \notin disturbed
  PROVE  /\ Len(seen[h]) < Len(due[h])
         /\ Plain(Entry(h)) = bare(h, due[h][Len(seen[h]) + 1])
         /\ Plain(Entry(h)) \in Group
         /\ Nss(h) => trav[h].wp = Len(seen[h]) + 1
         /\ ~Nss(h) => Current(trav[h].kind) = stream[trav[h].kind]
<1> DEFINE k == trav[h].kind
           n == Len(seen[h])
           m == Len(due[h])
<1>1. n \in Nat /\ m \in Nat /\ k \in Kind /\ trav[h].wp \in Nat /\ stream[k].pos \in Int
      /\ h \in Handle /\ \A i \in 1 .. m : due[h][i] \in Group
  <2>0. h \in Handle
    BY DEF IInv, TypeOK
  <2>1. due[h] \in Seq(Group) /\ seen[h] \in Seq(Group)
    BY <2>0 DEF IInv, WalksOK
  <2>2. k \in Kind /\ trav[h].wp \in Nat
    BY <2>0 DEF IInv, WalksOK
  <2>3. stream[k].pos \in Int
    BY <2>2 DEF IInv, WalksOK, Stream
  <2> QED
    BY <2>0, <2>1, <2>2, <2>3, LenProperties, ElementOfSeq
<1>2. /\ m = Len(Walked(h)) /\ Position(h) = n /\ n <= m
      /\ \A i \in 1 .. m : due[h][i] = Plain(Walked(h)[i])
  BY <1>1 DEF IInv, WalkOK
<1>3. ASSUME NEW e \in Group PROVE bare(h, e) \in Group
  BY <1>3, NssAssumption DEF bare, Stripped, Group
<1>4. CASE Nss(h)
  <2>1. Walked(h) = dq[h][k] /\ trav[h].wp = n + 1
    BY <1>1, <1>2, <1>4 DEF Walked, Position
  <2>2. ~(trav[h].wp > Len(dq[h][k]))
    BY <1>4 DEF AtEnd
  <2>3. n < m
    BY <1>1, <1>2, <2>1, <2>2
  <2>4. Entry(h) = Walked(h)[n + 1]
    BY <1>4, <2>1, NssEntry
  <2>5. due[h][n + 1] = Plain(Walked(h)[n + 1]) /\ due[h][n + 1] \in Group
    BY <1>1, <1>2, <2>3
  <2>6. bare(h, due[h][n + 1]) = due[h][n + 1]
    BY <1>4 DEF bare
  <2> QED
    BY <1>4, <2>1, <2>3, <2>4, <2>5, <2>6
<1>5. CASE ~Nss(h)
  <2>1. Walked(h) = stream[k].list /\ stream[k].pos = n
    BY <1>2, <1>5 DEF Walked, Position
  <2>2. Current(k) = stream[k]
    <3>1. stream[k] # Closed
      BY <1>1, <2>1 DEF Closed
    <3> QED
      BY <3>1 DEF Current
  <2>3. stream[k].pos # Len(stream[k].list)
    BY <1>5, <2>2 DEF AtEnd
  <2>4. n < m
    BY <1>1, <1>2, <2>1, <2>3
  <2> DEFINE e == Walked(h)[n + 1]
  <2>5. due[h][n + 1] = [name |-> e.name, id |-> e.id] /\ due[h][n + 1] \in Group
    <3>1. n + 1 \in 1 .. m
      BY <1>1, <2>4
    <3>2. due[h][n + 1] = Plain(e) /\ due[h][n + 1] \in Group
      BY <1>1, <1>2, <3>1
    <3> QED
      BY <3>2 DEF Plain
  <2>6. CASE k = "user"
    <3>1. Plain(Entry(h)) = [name |-> Bare[e.name], id |-> e.id]
      BY <1>5, <2>1, <2>2, <2>6, SystemPlain
    <3>2. bare(h, due[h][n + 1]) = [name |-> Bare[e.name], id |-> e.id]
      BY <1>5, <2>5, <2>6 DEF bare, Stripped
    <3>3. bare(h, due[h][n + 1]) \in Group
      BY <1>3, <2>5
    <3> QED
      BY <1>5, <2>2, <2>4, <3>1, <3>2, <3>3
  <2>7. CASE k = "group"
    <3>1. Entry(h) = Plain(e)
      BY <1>5, <2>1, <2>2, <2>7, SystemEntry
    <3>2. bare(h, due[h][n + 1]) = due[h][n + 1]
      BY <2>7 DEF bare
    <3> QED
      BY <1>5, <2>2, <2>4, <2>5, <3>1, <3>2 DEF Plain
  <2> QED
    BY <1>1, <2>6, <2>7 DEF Kind
<1> QED
  BY <1>4, <1>5

(* A step of a traversal adds to what has been seen the next one due. *)
LEMMA WalkStep == ASSUME IInv, NEW h \in Handle, Walk(h) PROVE IInv'
<1> DEFINE k == trav[h].kind
           n == Len(seen[h])
<1>1. /\ UNCHANGED <<libvxdb, host, opened, opening, dq, due>> /\ kept' = kept \ {h}
      /\ h \in opened /\ trav[h] # None /\ ~AtEnd(h)
      /\ dest' = [dest EXCEPT ![h] = Entry(h)]
      /\ seen' = IF h \in disturbed THEN seen ELSE [seen EXCEPT ![h] = Append(@, Plain(Entry(h)))]
  BY DEF Walk, Usable
<1>2. DqOK /\ WalksOK /\ TypeOK /\ StreamsOK /\ ListOK(h) /\ AnswerOK(h)
  BY DEF IInv
<1>3. \A g \in Handle : Nss(g)' <=> Nss(g)
  BY <1>1 DEF Nss, Has, libvxdb
<1>4. k \in Kind /\ trav[h].wp \in Nat /\ trav[h] = [kind |-> k, wp |-> trav[h].wp]
  BY <1>1, <1>2 DEF WalksOK
<1>5. /\ Nss(h) => trav' = [trav EXCEPT ![h].wp = @ + 1] /\ UNCHANGED <<stream, disturbed>>
      /\ ~Nss(h) => /\ stream' = [stream EXCEPT ![k] = [Current(k) EXCEPT !.pos = @ + 1]]
                    /\ disturbed' = Disturbed(h, {k}) /\ trav' = trav
  BY DEF Walk, Advance
<1>6. /\ trav' \in [Handle -> [kind : Kind, wp : Nat] \cup {None}]
      /\ trav'[h] # None /\ trav'[h].kind = k /\ (Nss(h) => trav'[h].wp = trav[h].wp + 1)
      /\ \A g \in Handle \ {h} : trav'[g] = trav[g]
  <2>1. trav \in [Handle -> [kind : Kind, wp : Nat] \cup {None}]
    BY <1>2 DEF WalksOK
  <2>2. CASE Nss(h)
    <3> DEFINE t == [kind |-> k, wp |-> trav[h].wp + 1]
    <3>1. t \in [kind : Kind, wp : Nat] /\ t # None
      BY <1>4, NssAssumption
    <3>2. trav' = [trav EXCEPT ![h] = t]
      BY <1>4, <1>5, <2>1, <2>2
    <3> QED
      BY <2>1, <2>2, <3>1, <3>2
  <2>3. CASE ~Nss(h)
    BY <1>1, <1>5, <2>1, <2>3
  <2> QED
    BY <2>2, <2>3
<1>7. /\ stream' \in [Kind -> Stream] /\ StreamsOK' /\ \A j \in Kind \ {k} : stream'[j] = stream[j]
      /\ ~Nss(h) => stream'[k] = [list |-> Current(k).list, pos |-> Current(k).pos + 1]
  <2>1. stream \in [Kind -> Stream]
    BY <1>2 DEF WalksOK
  <2>2. CASE Nss(h)
    <3>1. stream' = stream
      BY <1>5, <2>2
    <3> QED
      BY <1>2, <2>1, <2>2, <3>1 DEF StreamsOK
  <2>3. CASE ~Nss(h)
    <3> DEFINE c == Current(k)
               s == [list |-> c.list, pos |-> c.pos + 1]
    <3>1. c \in Stream /\ c.pos \in 0 .. (Len(c.list) - 1)
          /\ \A i \in 1 .. Len(c.list) : Known(k, c.list[i])
      BY <1>1, <2>3, SystemEntry
    <3> HIDE DEF c
    <3>2. s \in Stream /\ [c EXCEPT !.pos = @ + 1] = s
      BY <3>1 DEF Stream
    <3>3. StreamOK(k, s)
      <4>1. c.pos + 1 \in 0 .. Len(c.list)
        <5>1. Len(c.list) \in Nat
          BY <3>1, LenProperties DEF Stream
        <5> QED
          BY <3>1, <5>1
      <4> QED
        BY <3>1, <4>1 DEF StreamOK
    <3>4. stream' = [stream EXCEPT ![k] = s]
      BY <1>5, <2>3, <3>2 DEF c
    <3>5. stream' \in [Kind -> Stream] /\ stream'[k] = s /\ \A j \in Kind \ {k} : stream'[j] = stream[j]
      BY <1>4, <2>1, <3>2, <3>4
    <3>6. StreamsOK'
      BY <1>2, <3>3, <3>5 DEF StreamsOK
    <3> QED
      BY <2>3, <3>5, <3>6 DEF c
  <2> QED
    BY <2>2, <2>3
<1>8. /\ disturbed' \subseteq {g \in Handle : trav[g] # None /\ ~Nss(g)}
      /\ h \in disturbed' <=> h \in disturbed
  <2>1. disturbed \subseteq {g \in Handle : trav[g] # None /\ ~Nss(g)}
    BY <1>2 DEF TypeOK, WalksOK
  <2> QED
    BY <1>5, <2>1 DEF Disturbed
<1>9. h \notin disturbed =>
        /\ n < Len(due[h]) /\ Plain(Entry(h)) = bare(h, due[h][n + 1]) /\ Plain(Entry(h)) \in Group
        /\ Nss(h) => trav[h].wp = n + 1
        /\ ~Nss(h) => Current(k) = stream[k]
  BY <1>1, NextDue
<1>10. /\ seen' \in [Handle -> Seq(Group)] /\ \A g \in Handle \ {h} : seen'[g] = seen[g]
       /\ h \notin disturbed => seen'[h] = Append(seen[h], Plain(Entry(h)))
  <2>1. seen \in [Handle -> Seq(Group)]
    BY <1>2 DEF WalksOK
  <2>2. h \notin disturbed => Append(seen[h], Plain(Entry(h))) \in Seq(Group)
    BY <1>9, <2>1, AppendProperties
  <2> QED
    BY <1>1, <2>1, <2>2
<1>11. /\ dest'[h] = Entry(h) /\ AnswerOK(h)' /\ \A g \in Handle \ {h} : dest'[g] = dest[g]
       /\ dest' \in [Handle -> User \cup Group \cup {None}]
  <2>1. dest'[h] = Entry(h) /\ \A g \in Handle \ {h} : dest'[g] = dest[g]
    BY <1>1, <1>2 DEF WalksOK
  <2>2. AnswerOK(h)' /\ dest'[h] \in User \cup Group
    <3>1. CASE Nss(h)
      <4>1. PICK e : e = Entry(h) /\ IF k = "group" THEN e \in Group /\ GroupOK(e)
                                     ELSE e \in User /\ UserOK(e)
        BY <1>1, <3>1, NssEntry
      <4>2. CASE k = "group"
        BY <2>1, <4>1, <4>2, RightGroup
      <4>3. CASE k # "group"
        BY <1>3, <2>1, <3>1, <4>1, <4>3, RightUser
      <4> QED
        BY <4>2, <4>3
    <3>2. CASE ~Nss(h)
      <4>1. PICK e \in Line : /\ Known(k, e)
                              /\ k = "group" => Entry(h) = Plain(e)
                              /\ k = "user" => Entry(h) = nssuser_copy(Clean, Stripped(e), getspnam(Bare[e.name]))
        BY <1>1, <3>2, SystemEntry
      <4>2. CASE k = "group"
        <5>1. Plain(e) \in Group /\ Of(Plain(e), e) /\ dest'[h] = Plain(e)
          BY <2>1, <4>1, <4>2 DEF Plain, Group, Line, Of
        <5>2. GroupOK(Plain(e))
          BY <4>1, <4>2, <5>1, KnownGives
        <5>3. PICK x \in Group : x = Plain(e)
          BY <5>1
        <5> QED
          BY <5>1, <5>2, <5>3, RightGroup
      <4>3. CASE k = "user"
        <5>1. PICK m, pe : m = Bare[e.name] /\ pe = Stripped(e)
          OBVIOUS
        <5>2. PICK u \in UserStruct : u = Clean /\ u.pw = None
          <6>1. Clean \in UserStruct /\ Clean.pw = None
            BY DEF Clean, UserStruct
          <6> QED
            BY <6>1
        <5>3. pe.name = m /\ pe.id = e.id /\ m \in {e.name, Bare[e.name]}
          BY <5>1, NssAssumption DEF Stripped, Line
        <5>4. dest'[h] = nssuser_copy(u, pe, getspnam(m))
          BY <2>1, <4>1, <4>3, <5>1, <5>2
        <5> QED
          BY <1>2, <1>3, <3>2, <4>1, <4>3, <5>2, <5>3, <5>4, RightSystemUser
      <4> QED
        BY <1>4, <4>2, <4>3 DEF Kind
    <3> QED
      BY <3>1, <3>2
  <2>3. dest' \in [Handle -> User \cup Group \cup {None}]
    BY <1>1, <1>2, <2>1, <2>2 DEF WalksOK
  <2> QED
    BY <2>1, <2>2, <2>3
<1>12. ASSUME NEW g \in Handle \ {h} PROVE Alone(g)
  <2>1. /\ opened' = opened /\ opening' = opening /\ dq' = dq /\ dest'[g] = dest[g]
        /\ trav'[g] = trav[g] /\ due' = due /\ seen'[g] = seen[g] /\ (g \in kept' <=> g \in kept)
    BY <1>1, <1>6, <1>10, <1>11
  <2>2. CASE Nss(h)
    <3>1. stream' = stream /\ disturbed' = disturbed
      BY <1>5, <2>2
    <3> QED
      BY <2>1, <3>1 DEF Alone
  <2>3. CASE ~Nss(h)
    <3>1. /\ g \in disturbed => g \in disturbed'
          /\ trav[g] # None /\ ~Nss(g) /\ g \notin disturbed' =>
               stream'[trav[g].kind] = stream[trav[g].kind]
      BY <1>2, <1>4, <1>5, <1>7, <2>3, OthersKept
    <3> QED
      BY <2>1, <3>1 DEF Alone
  <2> QED
    BY <2>2, <2>3
<1>13. DqOK'
  BY <1>1, <1>2 DEF DqOK
<1>14. WalksOK'
  BY <1>1, <1>2, <1>3, <1>6, <1>7, <1>8, <1>10, <1>11 DEF WalksOK, Stream
<1>15. WalkOK(h)'
  <2> SUFFICES ASSUME h \notin disturbed PROVE WalkOK(h)'
    BY <1>8 DEF WalkOK
  <2>1. /\ Len(due[h]) = Len(Walked(h)) /\ Position(h) = n /\ n <= Len(due[h])
        /\ \A i \in 1 .. Len(due[h]) : due[h][i] = Plain(Walked(h)[i])
        /\ \A i \in 1 .. n : seen[h][i] = bare(h, due[h][i])
    BY <1>1 DEF IInv, WalkOK
  <2>2. seen[h] \in Seq(Group) /\ due'[h] = due[h] /\ n \in Nat /\ Len(due[h]) \in Nat
    <3>1. seen[h] \in Seq(Group) /\ due[h] \in Seq(Group)
      BY <1>2 DEF WalksOK
    <3> QED
      BY <1>1, <3>1, LenProperties
  <2>3. /\ Len(seen'[h]) = n + 1 /\ seen'[h][n + 1] = Plain(Entry(h))
        /\ \A i \in 1 .. n : seen'[h][i] = seen[h][i]
    BY <1>9, <1>10, <2>2, AppendProperties
  <2>4. \A e : bare(h, e)' = bare(h, e)
    BY <1>3, <1>6 DEF bare
  <2>5. Walked(h)' = Walked(h) /\ Position(h)' = n + 1
    <3>1. CASE Nss(h)
      BY <1>1, <1>3, <1>6, <1>9, <3>1 DEF Walked, Position
    <3>2. CASE ~Nss(h)
      <4>1. stream'[k].list = stream[k].list /\ stream'[k].pos = stream[k].pos + 1
        BY <1>7, <1>9, <3>2
      <4>2. stream[k].pos = n
        BY <2>1, <3>2 DEF Position
      <4> QED
        BY <1>3, <1>6, <3>2, <4>1, <4>2 DEF Walked, Position
    <3> QED
      BY <3>1, <3>2
  <2>6. \A i \in 1 .. (n + 1) : seen'[h][i] = bare(h, due[h][i])
    BY <1>9, <2>1, <2>2, <2>3
  <2>7. n + 1 <= Len(due[h])
    BY <1>9, <2>2
  <2> QED
    BY <2>1, <2>2, <2>3, <2>4, <2>5, <2>6, <2>7 DEF WalkOK, Plain
<1>16. ListOK(h)'
  BY <1>1, <1>2 DEF ListOK
<1>17. /\ h \in opened' => drv[h] # None /\ opening'[h] = 0
       /\ opening'[h] # 0 => drv[h] # None
       /\ opening' \in [Handle -> 0 .. 3] /\ opened' \subseteq Handle /\ h \in opened'
       /\ disturbed' \subseteq {g \in Handle : trav'[g] # None}
       /\ kept' \subseteq kept \cup {h}
  BY <1>1, <1>2, <1>6, <1>8 DEF TypeOK
<1> QED
  BY <1>1, <1>7, <1>11, <1>12, <1>13, <1>14, <1>15, <1>16, <1>17, HandleStep

-----------------------------------------------------------------------------
(* The invariant *)

(* No handle is loaded at first. *)
LEMMA InitInv == Init => IInv
<1> SUFFICES ASSUME Init PROVE IInv
  OBVIOUS
<1>1. /\ drv = [h \in Handle |-> None] /\ dl = [d \in Driver |-> 0] /\ None \notin Driver
      /\ host = Start /\ opened = {} /\ opening = [h \in Handle |-> 0]
      /\ dq = [h \in Handle |-> Nothing] /\ stream = [k \in Kind |-> Closed]
      /\ trav = [h \in Handle |-> None] /\ dest = [h \in Handle |-> None]
      /\ due = [h \in Handle |-> <<>>] /\ seen = [h \in Handle |-> <<>>] /\ disturbed = {} /\ kept = {}
  BY LoaderAssumption DEF Init, LoadInit
<1>2. <<>> \in Seq(User) /\ <<>> \in Seq(Group) /\ <<>> \in Seq(Line)
  BY EmptySeq
<1>3. TypeOK
  BY <1>1, NssAssumption DEF TypeOK
<1>4. NoLeak
  <2>1. \A d \in Driver : {h \in Handle : drv[h] = d} = {}
    BY <1>1
  <2> QED
    BY <1>1, <2>1, FS_EmptySet DEF NoLeak
<1>5. DqOK
  <2>1. \A h \in Handle : dq[h].user = <<>> /\ dq[h].group = <<>>
    BY <1>1 DEF Nothing
  <2>2. dq = [h \in Handle |-> [user |-> dq[h].user, group |-> dq[h].group]]
    BY <1>1 DEF Nothing
  <2> QED
    BY <1>2, <2>1, <2>2 DEF DqOK
<1>6. WalksOK /\ StreamsOK
  <2>1. Closed \in Stream /\ \A k \in Kind : StreamOK(k, Closed)
    BY <1>2 DEF Closed, Stream, StreamOK
  <2>2. WalksOK
    BY <1>1, <1>2, <2>1 DEF WalksOK
  <2>3. StreamsOK
    BY <1>1, <2>1 DEF StreamsOK
  <2> QED
    BY <2>2, <2>3
<1>7. ASSUME NEW h \in Handle PROVE ListOK(h)
  <2>1. opening[h] = 0 /\ dq[h].user = <<>> /\ dq[h].group = <<>>
    BY <1>1 DEF Nothing
  <2> QED
    BY <2>1 DEF ListOK
<1> QED
  BY <1>1, <1>3, <1>4, <1>5, <1>6, <1>7 DEF IInv, OpeningOK, AnswerOK, WalkOK

(* Every step keeps the invariant. *)
LEMMA StepInv == IInv /\ [Next]_vars => IInv'
<1> SUFFICES ASSUME IInv, [Next]_vars PROVE IInv'
  OBVIOUS
<1>1. CASE UNCHANGED vars
  <2>1. TypeOK' /\ NoLeak' /\ OpeningOK'
    BY <1>1 DEF IInv, TypeOK, NoLeak, OpeningOK, vars, libvxdb, walks
  <2> QED
    BY <1>1, <2>1, QuietStep DEF vars, libvxdb
<1>2. CASE HostChange
  BY <1>2, HostStep
<1>3. ASSUME NEW h \in Handle,
             Unload(h) \/ \E name \in Database, stage \in Stage : Load(h, name, stage)
      PROVE  IInv'
  BY <1>3, LoadUnloadStep
<1>4. ASSUME NEW h \in Handle, Open(h) PROVE IInv'
  BY <1>4, OpenStep
<1>5. ASSUME NEW h \in Handle, Close(h) PROVE IInv'
  BY <1>5, CloseStep
<1>6. ASSUME NEW h \in Handle, db_read_passwd(h) \/ db_read_shadow(h) \/ db_read_groups(h)
      PROVE  IInv'
  BY <1>6, ReadSteps
<1>7. ASSUME NEW h \in Handle,
             \/ \E name \in DOMAIN Bare : getpwnam(h, name) \/ getgrnam(h, name)
             \/ \E id \in Ids : getpwuid(h, id) \/ getgrgid(h, id)
      PROVE  IInv'
  BY <1>7, FoundStep DEF getpwnam, getgrnam, getpwuid, getgrgid, Kind
<1>8. ASSUME NEW h \in Handle, NEW k \in Kind, modctl(h, k) \/ TravInit(h, k) PROVE IInv'
  BY <1>8, modctlStep, TravInitStep
<1>9. ASSUME NEW h \in Handle, Walk(h) \/ TravFree(h) PROVE IInv'
  BY <1>9, WalkStep, TravFreeStep
<1> QED
  BY <1>1, <1>2, <1>3, <1>4, <1>5, <1>6, <1>7, <1>8, <1>9 DEF Next

(* IInv is inductive: it holds of every state that the handles can reach. *)
THEOREM Invariance == Spec => []IInv
  BY InitInv, StepInv, PTL DEF Spec

-----------------------------------------------------------------------------
(* What follows from it *)

(* The handles of a process stay in step: what is open is loaded, and what *)
(* is not open keeps nothing, for any handles, drivers and account files.  *)
THEOREM HandlesInStep == Spec => []TypeOK
<1>1. IInv => TypeOK
  BY DEF IInv
<1> QED
  BY <1>1, Invariance, PTL

(* vxdb_load() and vxdb_unload() open and close each library once per      *)
(* handle, and a load that fails at any point leaves none open.            *)
THEOREM LibrariesBalanced == Spec => []NoLeak
<1>1. IInv => NoLeak
  BY DEF IInv
<1> QED
  BY <1>1, Invariance, PTL

(* Neither driver mixes two accounts in the caller's struct, but for the   *)
(* password that a lookup of nss1 leaves there.                             *)
THEOREM AnswersAreWhole == Spec => []AnswerWhole
<1>1. IInv => AnswerWhole
  <2> SUFFICES ASSUME IInv, NEW h \in opened, dest[h] # None
               PROVE  IF "pw" \notin DOMAIN dest[h]
                        THEN \E f \in Hosts : \E i \in DOMAIN f.group : Of(dest[h], f.group[i])
                        ELSE \E f, g \in Hosts :
                               /\ \E i \in DOMAIN f.passwd : Of(dest[h], f.passwd[i])
                               /\ LET own == Passwords(h, g, dest[h].name)
                                  IN  \/ h \in kept \/ dest[h].pw \in own
                                      \/ dest[h].pw = None /\ (own = {} \/ (Nss(h) /\ Twice(f)))
    BY DEF AnswerWhole
  <2>1. AnswerOK(h)
    BY DEF IInv, TypeOK
  <2> QED
    BY <2>1 DEF AnswerOK, GroupOK, Account
<1> QED
  BY <1>1, Invariance, PTL

(* A traversal goes through the list as it was at its start: the walk      *)
(* functions of nss always, those of nss1 unless another call of the       *)
(* process got in the way.                                                 *)
THEOREM TraversalsRight == Spec => []WalkRight
<1>1. IInv => WalkRight
  <2> SUFFICES ASSUME IInv, NEW h \in Handle, trav[h] # None, h \notin disturbed
               PROVE  /\ Len(seen[h]) <= Len(due[h])
                      /\ \A i \in DOMAIN seen[h] : seen[h][i] = bare(h, due[h][i])
                      /\ AtEnd(h) => Len(seen[h]) = Len(due[h])
    BY DEF WalkRight, bare
  <2>1. seen[h] \in Seq(Group) /\ due[h] \in Seq(Group)
    BY DEF IInv, WalksOK
  <2>2. DOMAIN seen[h] = 1 .. Len(seen[h]) /\ Len(seen[h]) \in Nat /\ Len(due[h]) \in Nat
    BY <2>1, LenProperties
  <2>3. Len(seen[h]) <= Len(due[h]) /\ \A i \in 1 .. Len(seen[h]) : seen[h][i] = bare(h, due[h][i])
    BY DEF IInv, WalkOK
  <2>4. ASSUME AtEnd(h) PROVE Len(seen[h]) = Len(due[h])
    <3>1. ~(Len(seen[h]) < Len(due[h]))
      <4> SUFFICES ASSUME Len(seen[h]) < Len(due[h]) PROVE FALSE
        OBVIOUS
      <4> DEFINE k == trav[h].kind
      <4>1. /\ Len(due[h]) = Len(Walked(h)) /\ Position(h) = Len(seen[h])
        BY DEF IInv, WalkOK
      <4>2. k \in Kind /\ trav[h].wp \in Nat /\ stream[k].pos \in Int
        <5>1. k \in Kind /\ trav[h].wp \in Nat
          BY DEF IInv, WalksOK
        <5> QED
          BY <5>1 DEF IInv, WalksOK, Stream
      <4>3. CASE Nss(h)
        <5>1. trav[h].wp > Len(dq[h][k])
          BY <2>4, <4>3 DEF AtEnd
        <5> QED
          BY <2>2, <4>1, <4>2, <4>3, <5>1 DEF Walked, Position
      <4>4. CASE ~Nss(h)
        <5>1. stream[k].pos = Len(seen[h]) /\ Len(due[h]) = Len(stream[k].list)
          BY <4>1, <4>4 DEF Walked, Position
        <5>2. stream[k] # Closed
          BY <2>2, <5>1 DEF Closed
        <5>3. Current(k) = stream[k]
          BY <5>2 DEF Current
        <5> QED
          BY <2>2, <2>4, <4>4, <5>1, <5>3 DEF AtEnd
      <4> QED
        BY <4>3, <4>4
    <3> QED
      BY <2>2, <2>3, <3>1
  <2> QED
    BY <2>2, <2>3, <2>4
<1> QED
  BY <1>1, Invariance, PTL
=============================================================================
