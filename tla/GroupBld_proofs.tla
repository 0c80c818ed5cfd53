--------------------------- MODULE GroupBld_proofs ---------------------------
(***************************************************************************)
(* Proofs about the LDAP driver with vxgroupbld, for any number of clients *)
(* and calls, any accounts and groups: attributes keep one value unless    *)
(* two calls overlap on one account, renames of groups lose no gid unless  *)
(* two of them overlap, and an undisturbed run of vxgroupbld puts all      *)
(* accounts into their groups and nobody into two.                         *)
(***************************************************************************)
EXTENDS GroupBld, FiniteSetTheorems, TLAPS

-----------------------------------------------------------------------------
(* The inductive invariant *)

LdapTypeOK ==
  /\ users \in [Name -> Account \cup {None}]
  /\ groups \in [Group -> PosixGroup \cup {None}]
  /\ pc \in [Client -> Step]
  /\ rq \in [Client -> Requests \cup {None}]
  /\ seen \in [Client -> Account \cup PosixGroup \cup {None}]

\* What the step that a call has reached says about its request and about what
\* it has read
CallOK(c) ==
  /\ pc[c] # "idle" => rq[c] \in Requests
  /\ pc[c] = "search" /\ rq[c].op = "groupmod" => rq[c].newname \in Group
  /\ pc[c] = "modify" /\ rq[c].op = "usermod" => seen[c] \in Account
  /\ pc[c] = "rename" => rq[c].op = "usermod" /\ rq[c].newname \in Name
  /\ pc[c] \in {"add", "delete"} /\ rq[c].op = "groupmod" =>
       rq[c].newname \in Group /\ seen[c] \in PosixGroup

\* What a vxldap_usermod() has read is still so.
SeenCurrent(c) ==
  pc[c] = "modify" /\ rq[c].op = "usermod" /\ rq[c].name \notin raced
  /\ users[rq[c].name] # None
  => users[rq[c].name].attr = seen[c].attr

AtMostOne(S) == \A x, y \in S : x = y

OneEach ==
  \A n \in Name \ raced : users[n] # None =>
    \A a \in Attr \ {"cn"} : AtMostOne(users[n].attr[a])

\* The gid of a group that is being renamed is that of another group already,
\* unless a call has given it up.
GidHeld(c) ==
  pc[c] = "delete" /\ rq[c].op = "groupmod" /\ ~crossed
  /\ rq[c].gid = AUTOID /\ rq[c].newname # rq[c].group
  => \/ seen[c].gid \in dropped
     \/ \E g \in Group \ {rq[c].group} : groups[g] # None /\ groups[g].gid = seen[c].gid

CrossingSeen == Cardinality(Renaming) > 1 => crossed

BldTypeOK ==
  /\ todo \subseteq User
  /\ bpc \in {"getgrnam", "groupadd", "sgmapget", "move", "verify", "sgmapadd"} =>
       cur \in User /\ cur.vs_pvgrp # None

IInv ==
  /\ LdapTypeOK /\ BldTypeOK
  /\ \A c \in Client : CallOK(c) /\ SeenCurrent(c) /\ GidHeld(c)
  /\ OneEach /\ CrossingSeen

-----------------------------------------------------------------------------
(* Lemmas *)

LEMMA RequestKinds ==
  ASSUME NEW r \in Requests
  PROVE  /\ r.op = "useradd" => r \in UseraddRq
         /\ r.op = "usermod" => r \in UsermodRq
         /\ r.op = "userdel" => r.name \in Name
         /\ r.op = "groupdel" => r.group \in Group
         /\ r.op = "groupadd" => r \in GroupaddRq
         /\ r.op = "groupmod" => r \in GroupmodRq
         /\ r.op \in {"sgmapadd", "sgmapdel"} => r \in SgmapRq
<1>1. r \in UNION {UseraddRq, UsermodRq, NameRq, GroupaddRq, GroupmodRq, SgmapRq}
  BY LdapAssumption
<1>2. CASE r \in UseraddRq
  BY <1>2 DEF UseraddRq
<1>3. CASE r \in UsermodRq
  BY <1>3 DEF UsermodRq
<1>4. CASE r \in NameRq
  BY <1>4 DEF NameRq
<1>5. CASE r \in GroupaddRq
  BY <1>5 DEF GroupaddRq
<1>6. CASE r \in GroupmodRq
  BY <1>6 DEF GroupmodRq
<1>7. CASE r \in SgmapRq
  BY <1>7 DEF SgmapRq
<1> QED
  BY <1>1, <1>2, <1>3, <1>4, <1>5, <1>6, <1>7

LEMMA AtMostOneCounts ==
  ASSUME NEW S, AtMostOne(S)
  PROVE  Cardinality(S) <= 1
<1>1. CASE S = {}
  BY <1>1, FS_EmptySet
<1>2. CASE S # {}
  <2>1. PICK x : S = {x}
    BY <1>2 DEF AtMostOne
  <2>2. Cardinality(S) = 1
    BY <2>1, FS_Singleton, Zenon
  <2> QED
    BY <2>2
<1> QED
  BY <1>1, <1>2

LEMMA FewIsAtMostOne ==
  ASSUME NEW S, IsFiniteSet(S), Cardinality(S) <= 1
  PROVE  AtMostOne(S)
<1>1. Cardinality(S) = 0 \/ Cardinality(S) = 1
  BY FS_CardinalityType
<1>2. S = {} \/ \E x : S = {x}
  BY <1>1, FS_EmptySet, FS_Singleton
<1> QED
  BY <1>2 DEF AtMostOne

LEMMA OneOfOne == ASSUME NEW v PROVE AtMostOne(OneOf(v))
  BY DEF AtMostOne, OneOf

(* The other clients do not notice a step. *)
Alone(c) ==
  \A d \in Client \ {c} : pc'[d] = pc[d] /\ rq'[d] = rq[d] /\ seen'[d] = seen[d]

LEMMA StepAlone ==
  ASSUME LdapTypeOK, NEW c \in Client, ClientStep(c)
  PROVE  Alone(c)
<1>1. CASE Call(c)
  BY <1>1 DEF LdapTypeOK, Alone, Call
<1>2. CASE Refused(c) \/ useradd(c) \/ getattr(c) \/ usermod(c) \/ usermod2(c) \/ userdel(c)
  BY <1>2 DEF LdapTypeOK, Alone, Refused, useradd, getattr, usermod, usermod2, userdel,
              Return, Continue
<1>3. CASE groupadd(c) \/ groupdel(c) \/ groupmod(c) \/ groupmov(c) \/ groupmov_add(c)
           \/ groupmov_del(c)
  BY <1>3 DEF LdapTypeOK, Alone, groupadd, groupdel, groupmod, groupmov, groupmov_add, groupmov_del,
              Return, Continue
<1>4. CASE sgmapadd_verify(c) \/ sgmapadd(c) \/ sgmapdel(c)
  BY <1>4 DEF LdapTypeOK, Alone, sgmapadd_verify, sgmapadd, sgmapdel, Return, Continue
<1> QED
  BY <1>1, <1>2, <1>3, <1>4 DEF ClientStep

-----------------------------------------------------------------------------
(* Types *)

LEMMA CallsOK ==
  ASSUME LdapTypeOK, \A c \in Client : CallOK(c), NEW c \in Client, ClientStep(c)
  PROVE  /\ pc' \in [Client -> Step]
         /\ rq' \in [Client -> Requests \cup {None}]
         /\ seen' \in [Client -> Account \cup PosixGroup \cup {None}]
         /\ \A d \in Client : CallOK(d)'
<1> DEFINE Good == /\ pc' \in [Client -> Step]
                   /\ rq' \in [Client -> Requests \cup {None}]
                   /\ seen' \in [Client -> Account \cup PosixGroup \cup {None}]
                   /\ CallOK(c)'
<1>1. \A d \in Client \ {c} : CallOK(d)'
  BY StepAlone DEF Alone, CallOK
<1>2. \A r : Return(c, r) => Good
  BY DEF LdapTypeOK, Step, Return, CallOK
<1>3. ASSUME NEW step \in {"modify", "rename", "add", "delete"},
             NEW read \in Account \cup PosixGroup, Continue(c, step, read), pc[c] # "idle",
             step = "modify" /\ rq[c].op = "usermod" => read \in Account,
             step = "rename" => rq[c].op = "usermod" /\ rq[c].newname \in Name,
             step \in {"add", "delete"} /\ rq[c].op = "groupmod" =>
               rq[c].newname \in Group /\ read \in PosixGroup
      PROVE  Good
  BY <1>3 DEF LdapTypeOK, Step, Continue, CallOK
<1>4. ASSUME Call(c) PROVE Good
  <2>1. PICK r \in Requests : rq' = [rq EXCEPT ![c] = r] /\ pc' = [pc EXCEPT ![c] = First(r)]
    BY <1>4 DEF Call
  <2>2. First(r) \in {"add", "delete", "modify", "search"}
    BY DEF First
  <2>3. First(r) = "search" /\ r.op = "groupmod" => r.newname \in Group
    BY RequestKinds DEF First, GroupmodRq, Given
  <2>4. First(r) = "modify" => r.op # "usermod"
    BY DEF First
  <2>5. First(r) \in {"add", "delete"} => r.op # "groupmod"
    BY DEF First
  <2>6. UNCHANGED seen
    BY <1>4 DEF Call
  <2> QED
    BY <2>1, <2>2, <2>3, <2>4, <2>5, <2>6 DEF LdapTypeOK, Step, CallOK
<1> HIDE DEF Good
<1>5. \A step, op : At(c, step, op) /\ step # "idle" =>
        rq[c] \in Requests /\ rq[c].op = op /\ pc[c] = step
  BY DEF At, CallOK
<1>6. Refused(c) \/ useradd(c) \/ userdel(c) => Good
  BY <1>2 DEF Refused, useradd, userdel
<1>7. groupadd(c) \/ groupdel(c) \/ groupmod(c) => Good
  BY <1>2 DEF groupadd, groupdel, groupmod
<1>8. sgmapadd(c) \/ sgmapdel(c) => Good
  BY <1>2 DEF sgmapadd, sgmapdel
<1>9. ASSUME getattr(c) PROVE Good
  <2>1. rq[c] \in UsermodRq /\ rq[c].op = "usermod" /\ pc[c] = "search"
    BY <1>9, <1>5, RequestKinds DEF getattr
  <2>2. users[rq[c].name] \in Account \cup {None}
    BY <2>1 DEF LdapTypeOK, UsermodRq
  <2> QED
    BY <1>9, <1>2, <1>3, <2>1, <2>2 DEF getattr
<1>10. ASSUME sgmapadd_verify(c) PROVE Good
  <2>1. rq[c] \in SgmapRq /\ rq[c].op = "sgmapadd" /\ pc[c] = "search"
    BY <1>10, <1>5, RequestKinds DEF sgmapadd_verify
  <2>2. users[rq[c].name] \in Account \cup {None}
    BY <2>1 DEF LdapTypeOK, SgmapRq
  <2> QED
    BY <1>10, <1>2, <1>3, <2>1, <2>2 DEF sgmapadd_verify
<1>11. ASSUME usermod(c) PROVE Good
  <2>1. rq[c] \in UsermodRq /\ pc[c] = "modify" /\ rq[c].op = "usermod" /\ seen[c] \in Account
    BY <1>11, <1>5, RequestKinds DEF usermod, CallOK
  <2>2. rq[c].newname \in Name \cup {None}
    BY <2>1 DEF UsermodRq, Given
  <2>3. Continue(c, "rename", seen[c]) /\ rq[c].newname # None => Good
    BY <1>3, <2>1, <2>2
  <2> QED
    BY <1>11, <1>2, <2>3 DEF usermod
<1>12. usermod2(c) => Good
  BY <1>2 DEF usermod2
<1>13. ASSUME groupmov(c) PROVE Good
  <2>1. rq[c] \in GroupmodRq /\ pc[c] = "search" /\ rq[c].op = "groupmod" /\ rq[c].newname \in Group
    BY <1>13, <1>5, RequestKinds DEF groupmov, CallOK
  <2>2. groups[rq[c].group] \in PosixGroup \cup {None}
    BY <2>1 DEF LdapTypeOK, GroupmodRq
  <2>3. \A g \in Garbage : [gid |-> g, member |-> {}] \in PosixGroup
    BY LdapAssumption DEF PosixGroup
  <2>4. PICK read \in PosixGroup : Continue(c, "add", read)
    BY <1>13, <2>2, <2>3 DEF groupmov
  <2> QED
    BY <1>3, <2>1, <2>4
<1>14. ASSUME groupmov_add(c) PROVE Good
  <2>1. rq[c].op = "groupmod" /\ pc[c] = "add" /\ rq[c].newname \in Group /\ seen[c] \in PosixGroup
    BY <1>14, <1>5 DEF groupmov_add, CallOK
  <2>2. Continue(c, "delete", seen[c]) => Good
    BY <1>3, <2>1
  <2> QED
    BY <1>14, <1>2, <2>2 DEF groupmov_add
<1>15. groupmov_del(c) => Good
  BY <1>2 DEF groupmov_del
<1>16. Good
  BY <1>4, <1>6, <1>7, <1>8, <1>9, <1>10, <1>11, <1>12, <1>13, <1>14, <1>15 DEF ClientStep
<1> QED
  BY <1>1, <1>16 DEF Good

(* A request that is being carried out is of the kind the step is for. *)
LEMMA RequestAt ==
  ASSUME NEW c \in Client, CallOK(c), NEW step, NEW op, At(c, step, op), step # "idle"
  PROVE  rq[c] \in Requests /\ rq[c].op = op /\ pc[c] = step
  BY DEF At, CallOK

-----------------------------------------------------------------------------
(* Accounts *)

OneEachOf(entry) == \A a \in Attr \ {"cn"} : AtMostOne(entry.attr[a])

LEMMA NewUserIsOne ==
  ASSUME NEW r \in UseraddRq
  PROVE  NewUser(r) \in Account /\ OneEachOf(NewUser(r))
<1>1. NewUser(r) \in Account
  <2>1. /\ r.name \in Name /\ r.uid \in Id \cup {AUTOID} /\ r.gid \in Id
        /\ OneOf(r.real) \in SUBSET Text /\ OneOf(r.pvgrp) \in SUBSET Text
        /\ OneOf(r.name) \in SUBSET Text
    BY LdapAssumption DEF UseraddRq, OneOf, Given
  <2> HIDE DEF UseraddRq
  <2>2. NewUser(r).attr \in [Attr -> SUBSET Text]
    BY <2>1 DEF NewUser
  <2> QED
    BY <2>1, <2>2 DEF NewUser, Account
<1>2. \A a \in Attr : \E v : NewUser(r).attr[a] = OneOf(v)
  BY DEF NewUser
<1> QED
  BY <1>1, <1>2, OneOfOne DEF OneEachOf

LEMMA ModifiedTyped ==
  ASSUME NEW r \in UsermodRq, NEW entry \in Account, NEW now \in Account
  PROVE  /\ Modified(r, entry, now) \in Account
         /\ \A a \in Attr :
              IF NewValue(r, a) # {} /\ replaces(entry, a)
              THEN Modified(r, entry, now).attr[a] = NewValue(r, a)
              ELSE Modified(r, entry, now).attr[a] = now.attr[a] \cup NewValue(r, a)
<1>1. \A a \in Attr : NewValue(r, a) \in SUBSET Text
  BY DEF NewValue, OneOf, UsermodRq, Given
<1>2. r.gid \in Id \cup {None}
  BY DEF UsermodRq, Given
<1> HIDE DEF UsermodRq
<1> QED
  BY <1>1, <1>2 DEF Modified, Account

(* The modification of what was read keeps to one value. *)
LEMMA ModifiedIsOne ==
  ASSUME NEW r \in UsermodRq, NEW entry \in Account, NEW now \in Account,
         entry.attr = now.attr, OneEachOf(now)
  PROVE  OneEachOf(Modified(r, entry, now))
<1> SUFFICES ASSUME NEW a \in Attr \ {"cn"}
             PROVE  AtMostOne(Modified(r, entry, now).attr[a])
  BY DEF OneEachOf
<1>1. AtMostOne(NewValue(r, a))
  BY OneOfOne DEF NewValue
<1>2. CASE NewValue(r, a) # {} /\ replaces(entry, a)
  BY <1>1, <1>2, ModifiedTyped
<1>3. CASE ~(NewValue(r, a) # {} /\ replaces(entry, a))
  <2>1. Modified(r, entry, now).attr[a] = now.attr[a] \cup NewValue(r, a)
    BY <1>3, ModifiedTyped
  <2>2. NewValue(r, a) = {} \/ now.attr[a] = {}
    BY <1>3 DEF replaces
  <2>3. AtMostOne(now.attr[a])
    BY DEF OneEachOf
  <2> QED
    BY <1>1, <2>1, <2>2, <2>3 DEF AtMostOne
<1> QED
  BY <1>2, <1>3

(* What the step of a client does to the accounts: nothing, or it writes one *)
(* of them, or it gives one of them another name.                            *)
Written(c, n, entry) ==
  /\ users' = [users EXCEPT ![n] = entry]
  /\ raced' = IF Disturbed(c, n) THEN raced \cup {n} ELSE raced
  /\ entry # None => entry \in Account /\ (n \notin raced => OneEachOf(entry))

Renamed(c, n, m) ==
  /\ users[n] \in Account
  /\ users' = [users EXCEPT ![n] = None, ![m] = [users[n] EXCEPT !.uid = @ \cup {m}]]
  /\ raced' = raced \cup {k \in {n, m} : Disturbed(c, k)} \cup (IF n \in raced THEN {m} ELSE {})

UserStep(c) ==
  \/ UNCHANGED <<users, raced>>
  \/ \E n \in Name, entry \in Account \cup {None} : Written(c, n, entry)
  \/ \E n \in Name, m \in Name : Renamed(c, n, m)

LEMMA UserSteps ==
  ASSUME LdapTypeOK, OneEach, \A c \in Client : CallOK(c) /\ SeenCurrent(c),
         NEW c \in Client, ClientStep(c)
  PROVE  UserStep(c)
<1>1. Call(c) \/ Refused(c) \/ getattr(c) => UserStep(c)
  BY DEF Call, Refused, getattr, UserStep
<1>2. groupadd(c) \/ groupdel(c) \/ groupmod(c) => UserStep(c)
  BY DEF groupadd, groupdel, groupmod, SetGroup, UserStep
<1>3. groupmov(c) \/ groupmov_add(c) \/ groupmov_del(c) => UserStep(c)
  BY DEF groupmov, groupmov_add, groupmov_del, SetGroup, UserStep
<1>4. sgmapadd_verify(c) \/ sgmapadd(c) \/ sgmapdel(c) => UserStep(c)
  BY DEF sgmapadd_verify, sgmapadd, sgmapdel, Without, SetGroup, UserStep
<1>5. ASSUME useradd(c) PROVE UserStep(c)
  <2>1. rq[c] \in UseraddRq
    BY <1>5, RequestAt, RequestKinds DEF useradd
  <2>2. rq[c].name \in Name
    BY <2>1 DEF UseraddRq
  <2>3. NewUser(rq[c]) \in Account /\ OneEachOf(NewUser(rq[c]))
    BY <2>1, NewUserIsOne
  <2> QED
    BY <1>5, <2>2, <2>3 DEF useradd, SetUser, UserStep, Written
<1>6. ASSUME userdel(c) PROVE UserStep(c)
  <2>1. rq[c].name \in Name
    BY <1>6, RequestAt, RequestKinds DEF userdel
  <2> QED
    BY <1>6, <2>1 DEF userdel, SetUser, UserStep, Written
<1>7. ASSUME usermod(c) PROVE UserStep(c)
  <2> DEFINE r   == rq[c]
             now == users[r.name]
             new == Modified(r, seen[c], now)
  <2>1. r \in UsermodRq /\ pc[c] = "modify" /\ r.op = "usermod" /\ seen[c] \in Account
    BY <1>7, RequestAt, RequestKinds DEF usermod, CallOK
  <2>2. r.name \in Name
    BY <2>1 DEF UsermodRq
  <2>3. now \in Account \cup {None}
    BY <2>2 DEF LdapTypeOK
  <2>4. CASE now # None /\ SetUser(c, r.name, new)
    <3>1. new \in Account
      BY <2>1, <2>3, <2>4, ModifiedTyped
    <3>2. ASSUME r.name \notin raced PROVE OneEachOf(new)
      <4>1. now.attr = seen[c].attr
        BY <2>1, <2>4, <3>2 DEF SeenCurrent
      <4>2. OneEachOf(now)
        BY <2>2, <2>4, <3>2 DEF OneEach, OneEachOf
      <4> QED
        BY <2>1, <2>3, <2>4, <4>1, <4>2, ModifiedIsOne
    <3> HIDE DEF new
    <3> QED
      BY <2>2, <2>4, <3>1, <3>2 DEF SetUser, UserStep, Written
  <2>5. CASE UNCHANGED <<users, raced>>
    BY <2>5 DEF UserStep
  <2> QED
    BY <1>7, <2>4, <2>5 DEF usermod
<1>8. ASSUME usermod2(c) PROVE UserStep(c)
  <2>1. rq[c] \in UsermodRq /\ rq[c].newname \in Name
    BY <1>8, RequestAt, RequestKinds DEF usermod2, CallOK
  <2>2. rq[c].name \in Name
    BY <2>1 DEF UsermodRq
  <2>3. users[rq[c].name] \in Account \cup {None}
    BY <2>2 DEF LdapTypeOK
  <2> QED
    BY <1>8, <2>1, <2>2, <2>3 DEF usermod2, UserStep, Renamed
<1> QED
  BY <1>1, <1>2, <1>3, <1>4, <1>5, <1>6, <1>7, <1>8 DEF ClientStep

LEMMA UsersOK ==
  ASSUME LdapTypeOK, OneEach, \A c \in Client : CallOK(c) /\ SeenCurrent(c),
         NEW c \in Client, ClientStep(c)
  PROVE  users' \in [Name -> Account \cup {None}] /\ OneEach'
<1>1. CASE UNCHANGED <<users, raced>>
  BY <1>1 DEF LdapTypeOK, OneEach
<1>2. ASSUME NEW n \in Name, NEW entry \in Account \cup {None}, Written(c, n, entry)
      PROVE  users' \in [Name -> Account \cup {None}] /\ OneEach'
  BY <1>2 DEF Written, LdapTypeOK, OneEach, OneEachOf
<1>3. ASSUME NEW n \in Name, NEW m \in Name, Renamed(c, n, m)
      PROVE  users' \in [Name -> Account \cup {None}] /\ OneEach'
  <2> DEFINE entry == [users[n] EXCEPT !.uid = @ \cup {m}]
  <2>1. entry \in Account /\ entry.attr = users[n].attr
    BY <1>3 DEF Renamed, Account
  <2>2. users' = [users EXCEPT ![n] = None, ![m] = entry]
    BY <1>3 DEF Renamed
  <2>3. raced \subseteq raced' /\ (n \in raced => m \in raced') /\ users[n] # None
    BY <1>3, LdapAssumption DEF Renamed
  <2> HIDE DEF entry
  <2>4. \A k \in Name : users'[k] = IF k = m THEN entry ELSE IF k = n THEN None ELSE users[k]
    BY <2>2 DEF LdapTypeOK
  <2>5. users' \in [Name -> Account \cup {None}]
    BY <2>1, <2>2 DEF LdapTypeOK
  <2> QED
    BY <2>1, <2>3, <2>4, <2>5 DEF OneEach
<1> QED
  BY <1>1, <1>2, <1>3, UserSteps DEF UserStep

(* A step of a client leaves what another one has read as it is, or the      *)
(* account is a raced one.                                                   *)
LEMMA OthersSeenCurrent ==
  ASSUME LdapTypeOK, OneEach, \A c \in Client : CallOK(c) /\ SeenCurrent(c),
         NEW c \in Client, ClientStep(c), NEW d \in Client \ {c}
  PROVE  SeenCurrent(d)'
<1> DEFINE k == rq[d].name
<1>1. pc'[d] = pc[d] /\ rq'[d] = rq[d] /\ seen'[d] = seen[d]
  BY StepAlone DEF Alone
<1> SUFFICES ASSUME pc[d] = "modify", rq[d].op = "usermod", k \notin raced', users'[k] # None
             PROVE  users'[k].attr = seen[d].attr
  BY <1>1 DEF SeenCurrent
<1>2. Disturbed(c, k)
  BY DEF Disturbed
<1>3. k \in Name
  BY RequestKinds DEF CallOK, UsermodRq
<1>4. k \notin raced /\ users'[k] = users[k]
  <2>1. CASE UNCHANGED <<users, raced>>
    BY <2>1
  <2>2. ASSUME NEW n \in Name, NEW entry, Written(c, n, entry) PROVE <1>4!:
    BY <1>2, <1>3, <2>2 DEF Written, LdapTypeOK
  <2>3. ASSUME NEW n \in Name, NEW m \in Name, Renamed(c, n, m) PROVE <1>4!:
    <3>1. k # n /\ k # m /\ k \notin raced
      BY <1>2, <2>3 DEF Renamed
    <3> HIDE DEF k
    <3> QED
      BY <1>3, <2>3, <3>1 DEF Renamed, LdapTypeOK
  <2> QED
    BY <2>1, <2>2, <2>3, UserSteps DEF UserStep
<1> QED
  BY <1>4 DEF SeenCurrent

LEMMA OwnSeenCurrent ==
  ASSUME LdapTypeOK, \A c \in Client : CallOK(c), NEW c \in Client, ClientStep(c)
  PROVE  SeenCurrent(c)'
<1>1. ASSUME pc'[c] # "modify" PROVE SeenCurrent(c)'
  BY <1>1 DEF SeenCurrent
<1>2. \A r : Return(c, r) => SeenCurrent(c)'
  BY <1>1 DEF Return, LdapTypeOK
<1>3. \A step, read : Continue(c, step, read) /\ step # "modify" => SeenCurrent(c)'
  BY <1>1 DEF Continue, LdapTypeOK
<1>4. ASSUME Call(c) PROVE SeenCurrent(c)'
  <2>1. PICK r \in Requests : rq' = [rq EXCEPT ![c] = r] /\ pc' = [pc EXCEPT ![c] = First(r)]
    BY <1>4 DEF Call
  <2>2. First(r) = "modify" => r.op # "usermod"
    BY DEF First
  <2> QED
    BY <2>1, <2>2 DEF LdapTypeOK, SeenCurrent
<1>5. ASSUME getattr(c) PROVE SeenCurrent(c)'
  <2>1. CASE Continue(c, "modify", users[rq[c].name]) /\ UNCHANGED users
    BY <2>1 DEF Continue, SeenCurrent, LdapTypeOK
  <2> QED
    BY <1>2, <1>5, <2>1 DEF getattr
<1>6. ASSUME sgmapadd_verify(c) PROVE SeenCurrent(c)'
  <2>1. CASE Continue(c, "modify", users[rq[c].name])
    BY <1>6, <2>1 DEF sgmapadd_verify, At, Continue, SeenCurrent, LdapTypeOK
  <2> QED
    BY <1>2, <1>6, <2>1 DEF sgmapadd_verify
<1>7. Refused(c) \/ useradd(c) \/ userdel(c) \/ usermod(c) \/ usermod2(c) => SeenCurrent(c)'
  BY <1>2, <1>3 DEF Refused, useradd, userdel, usermod, usermod2
<1>8. groupadd(c) \/ groupdel(c) \/ groupmod(c) \/ sgmapadd(c) \/ sgmapdel(c) => SeenCurrent(c)'
  BY <1>2 DEF groupadd, groupdel, groupmod, sgmapadd, sgmapdel
<1>9. groupmov(c) \/ groupmov_add(c) \/ groupmov_del(c) => SeenCurrent(c)'
  BY <1>2, <1>3 DEF groupmov, groupmov_add, groupmov_del
<1> QED
  BY <1>4, <1>5, <1>6, <1>7, <1>8, <1>9 DEF ClientStep

-----------------------------------------------------------------------------
(* Groups *)

(* Every gid stays with the group that has it, or is given up. *)
GidsStay ==
  /\ dropped \subseteq dropped'
  /\ \A g \in Group : groups[g] # None =>
       \/ groups[g].gid \in dropped'
       \/ groups'[g] # None /\ groups'[g].gid = groups[g].gid

GroupsGood == groups' \in [Group -> PosixGroup \cup {None}] /\ GidsStay

LEMMA SetGroupGood ==
  ASSUME LdapTypeOK, NEW g \in Group, NEW entry \in PosixGroup \cup {None}, NEW giveUp,
         SetGroup(g, entry, giveUp),
         groups[g] # None /\ groups[g].gid \notin giveUp => entry # None /\ entry.gid = groups[g].gid
  PROVE  GroupsGood
  BY DEF SetGroup, LdapTypeOK, GroupsGood, GidsStay

LEMMA GroupsSame ==
  ASSUME LdapTypeOK, UNCHANGED <<groups, dropped>> PROVE GroupsGood
  BY DEF LdapTypeOK, GroupsGood, GidsStay

LEMMA WithoutGood ==
  ASSUME LdapTypeOK, NEW r, IsMember(r), Without(r) PROVE GroupsGood
<1> DEFINE g == sgmapdel_target(r)
           entry == [groups[g] EXCEPT !.member = @ \ {r.name}]
<1>1. g \in Group /\ groups[g] \in PosixGroup
  BY DEF IsMember, LdapTypeOK
<1>2. entry \in PosixGroup /\ entry.gid = groups[g].gid
  BY <1>1 DEF PosixGroup
<1>3. SetGroup(g, entry, {})
  BY DEF Without
<1> HIDE DEF g, entry
<1> QED
  BY <1>1, <1>2, <1>3, SetGroupGood, LdapAssumption

LEMMA AddedMemberGood ==
  ASSUME LdapTypeOK, NEW g \in Group, groups[g] # None, NEW n \in Name,
         SetGroup(g, [groups[g] EXCEPT !.member = @ \cup {n}], {})
  PROVE  GroupsGood
<1> DEFINE entry == [groups[g] EXCEPT !.member = @ \cup {n}]
<1>1. groups[g] \in PosixGroup
  BY DEF LdapTypeOK
<1>2. entry \in PosixGroup /\ entry.gid = groups[g].gid
  BY <1>1 DEF PosixGroup
<1>3. SetGroup(g, entry, {})
  OBVIOUS
<1> HIDE DEF entry
<1> QED
  BY <1>2, <1>3, SetGroupGood, LdapAssumption

LEMMA NewGroupGood ==
  ASSUME LdapTypeOK, NEW g \in Group, groups[g] = None, NEW id \in Id \cup {AUTOID},
         SetGroup(g, [gid |-> id, member |-> {}], {})
  PROVE  GroupsGood
<1> DEFINE entry == [gid |-> id, member |-> {}]
<1>1. entry \in PosixGroup
  BY DEF PosixGroup
<1> HIDE DEF entry
<1>2. SetGroup(g, entry, {})
  BY DEF entry
<1> QED
  BY <1>1, <1>2, SetGroupGood

(* Of the steps of a client only the last one of vxldap_groupmov() takes a   *)
(* gid away that nobody gave up.                                             *)
LEMMA GroupSteps ==
  ASSUME LdapTypeOK, \A c \in Client : CallOK(c), NEW c \in Client, ClientStep(c),
         ~groupmov_del(c)
  PROVE  GroupsGood
<1>1. Call(c) \/ Refused(c) \/ getattr(c) => GroupsGood
  BY GroupsSame DEF Call, Refused, getattr
<1>2. useradd(c) \/ userdel(c) \/ usermod(c) \/ usermod2(c) => GroupsGood
  BY GroupsSame DEF useradd, userdel, usermod, usermod2, SetUser
<1>3. groupmov(c) \/ sgmapadd_verify(c) => GroupsGood
  BY GroupsSame DEF groupmov, sgmapadd_verify
<1>4. ASSUME groupadd(c) PROVE GroupsGood
  <2>1. rq[c] \in GroupaddRq
    BY <1>4, RequestAt, RequestKinds DEF groupadd
  <2>2. rq[c].group \in Group /\ rq[c].gid \in Id \cup {AUTOID}
    BY <2>1 DEF GroupaddRq
  <2> QED
    BY <1>4, <2>2, NewGroupGood, GroupsSame DEF groupadd
<1>5. ASSUME groupdel(c) PROVE GroupsGood
  <2>1. rq[c].group \in Group
    BY <1>5, RequestAt, RequestKinds DEF groupdel
  <2> QED
    BY <1>5, <2>1, SetGroupGood DEF groupdel, Gids
<1>6. ASSUME groupmod(c) PROVE GroupsGood
  <2> DEFINE g == rq[c].group
             entry == [groups[g] EXCEPT !.gid = rq[c].gid]
  <2>1. rq[c] \in GroupmodRq
    BY <1>6, RequestAt, RequestKinds DEF groupmod
  <2>2. g \in Group /\ rq[c].gid \in Id \cup {AUTOID}
    BY <2>1 DEF GroupmodRq
  <2>3. CASE groups[g] # None /\ SetGroup(g, entry, Gids(g))
    <3>1. groups[g] \in PosixGroup
      BY <2>2, <2>3 DEF LdapTypeOK
    <3>2. entry \in PosixGroup
      BY <2>2, <3>1 DEF PosixGroup
    <3>3. groups[g].gid \in Gids(g)
      BY <2>3 DEF Gids
    <3> HIDE DEF g, entry
    <3> QED
      BY <2>2, <2>3, <3>2, <3>3, SetGroupGood
  <2> QED
    BY <1>6, <2>3, GroupsSame DEF groupmod
<1>7. ASSUME groupmov_add(c) PROVE GroupsGood
  <2> DEFINE id == IF rq[c].gid = AUTOID THEN seen[c].gid ELSE rq[c].gid
  <2>1. rq[c] \in GroupmodRq /\ rq[c].newname \in Group /\ seen[c] \in PosixGroup
    BY <1>7, RequestAt, RequestKinds DEF groupmov_add, CallOK
  <2>2. id \in Id \cup {AUTOID}
    BY <2>1 DEF GroupmodRq, PosixGroup
  <2>3. CASE groups[rq[c].newname] = None /\ SetGroup(rq[c].newname, [gid |-> id, member |-> {}], {})
    <3> HIDE DEF id
    <3> QED
      BY <2>1, <2>2, <2>3, NewGroupGood
  <2> QED
    BY <1>7, <2>3, GroupsSame DEF groupmov_add
<1>8. ASSUME sgmapadd(c) PROVE GroupsGood
  <2>1. rq[c] \in SgmapRq
    BY <1>8, RequestAt, RequestKinds DEF sgmapadd
  <2>2. rq[c].group \in Group /\ rq[c].name \in Name
    BY <2>1 DEF SgmapRq
  <2> QED
    BY <1>8, <2>2, AddedMemberGood, GroupsSame DEF sgmapadd
<1>9. sgmapdel(c) => GroupsGood
  BY WithoutGood, GroupsSame DEF sgmapdel
<1> QED
  BY <1>1, <1>2, <1>3, <1>4, <1>5, <1>6, <1>7, <1>8, <1>9 DEF ClientStep

LEMMA RenamingTwo ==
  ASSUME NEW c \in Client, NEW d \in Client \ {c}, c \in Renaming, d \in Renaming
  PROVE  Cardinality(Renaming) > 1
<1>1. IsFiniteSet(Renaming)
  BY FS_Subset, LdapAssumption DEF Renaming
<1>2. Cardinality(Renaming) \in Nat /\ Cardinality(Renaming) # 0 /\ Cardinality(Renaming) # 1
  <2>1. Cardinality(Renaming) \in Nat
    BY <1>1, FS_CardinalityType
  <2>2. Cardinality(Renaming) # 0
    BY <1>1, FS_EmptySet
  <2>3. ~\E x : Renaming = {x}
    OBVIOUS
  <2>4. Cardinality(Renaming) # 1
    BY <1>1, <2>3, FS_Singleton
  <2> QED
    BY <2>1, <2>2, <2>4
<1> QED
  BY <1>2

(* The rest of the invariant that a step which leaves gids alone keeps *)
LEMMA GidHeldStays ==
  ASSUME NEW d \in Client, CallOK(d), GidHeld(d), GidsStay, crossed => crossed',
         pc'[d] = pc[d], rq'[d] = rq[d], seen'[d] = seen[d]
  PROVE  GidHeld(d)'
  BY DEF GidHeld, GidsStay

LEMMA OwnGidHeld ==
  ASSUME LdapTypeOK, \A c \in Client : CallOK(c), NEW c \in Client, ClientStep(c)
  PROVE  GidHeld(c)'
<1>1. ASSUME pc'[c] # "delete" PROVE GidHeld(c)'
  BY <1>1 DEF GidHeld
<1>2. \A r : Return(c, r) => GidHeld(c)'
  BY <1>1 DEF Return, LdapTypeOK
<1>3. \A step, read : Continue(c, step, read) /\ step # "delete" => GidHeld(c)'
  BY <1>1 DEF Continue, LdapTypeOK
<1>4. ASSUME Call(c) PROVE GidHeld(c)'
  <2>1. PICK r \in Requests : rq' = [rq EXCEPT ![c] = r] /\ pc' = [pc EXCEPT ![c] = First(r)]
    BY <1>4 DEF Call
  <2>2. First(r) = "delete" => r.op # "groupmod"
    BY DEF First
  <2> QED
    BY <2>1, <2>2 DEF LdapTypeOK, GidHeld
<1>5. ASSUME groupmov_add(c) PROVE GidHeld(c)'
  <2> DEFINE r == rq[c]
             entry == [gid |-> IF r.gid = AUTOID THEN seen[c].gid ELSE r.gid, member |-> {}]
  <2>1. r.newname \in Group /\ seen[c] \in PosixGroup
    BY <1>5, RequestAt DEF groupmov_add, CallOK
  <2>2. CASE SetGroup(r.newname, entry, {}) /\ Continue(c, "delete", seen[c])
    <3>1. rq'[c] = r /\ seen'[c] = seen[c]
      BY <2>2 DEF Continue, LdapTypeOK
    <3>2. entry # None
      BY <1>5, <2>1, RequestAt, RequestKinds, LdapAssumption DEF groupmov_add, PosixGroup, GroupmodRq
    <3>3. groups'[r.newname] = entry
      BY <2>1, <2>2 DEF SetGroup, LdapTypeOK
    <3>4. r.gid = AUTOID => entry.gid = seen[c].gid
      OBVIOUS
    <3> HIDE DEF entry
    <3> QED
      BY <2>1, <3>1, <3>2, <3>3, <3>4 DEF GidHeld
  <2> QED
    BY <1>2, <1>5, <2>2 DEF groupmov_add
<1>6. Refused(c) \/ useradd(c) \/ userdel(c) \/ usermod(c) \/ usermod2(c) \/ getattr(c) => GidHeld(c)'
  BY <1>2, <1>3 DEF Refused, useradd, userdel, usermod, usermod2, getattr
<1>7. groupadd(c) \/ groupdel(c) \/ groupmod(c) \/ groupmov(c) \/ groupmov_del(c) => GidHeld(c)'
  BY <1>2, <1>3 DEF groupadd, groupdel, groupmod, groupmov, groupmov_del
<1>8. sgmapadd_verify(c) \/ sgmapadd(c) \/ sgmapdel(c) => GidHeld(c)'
  BY <1>2, <1>3 DEF sgmapadd_verify, sgmapadd, sgmapdel
<1> QED
  BY <1>4, <1>5, <1>6, <1>7, <1>8 DEF ClientStep

(* vxldap_groupmov() takes away the gid of the old group, which the new one  *)
(* has by then, unless two clients are renaming.                             *)
LEMMA RenameDone ==
  ASSUME LdapTypeOK, NEW c \in Client, CallOK(c), GidHeld(c), groupmov_del(c), Cross
  PROVE  /\ groups' \in [Group -> PosixGroup \cup {None}]
         /\ ~crossed' => Held(groups) \ Held(groups') \subseteq dropped'
<1> DEFINE r == rq[c]
           giveUp == IF r.gid = AUTOID /\ r.newname # r.group THEN Gids(r.group) \ {seen[c].gid}
                                                               ELSE Gids(r.group)
<1>1. r \in GroupmodRq /\ r.op = "groupmod" /\ pc[c] = "delete"
  BY RequestAt, RequestKinds DEF groupmov_del
<1>2. r.group \in Group
  BY <1>1 DEF GroupmodRq
<1>3. groups' = [groups EXCEPT ![r.group] = None] /\ dropped' = dropped \cup giveUp
  BY DEF groupmov_del, SetGroup
<1>4. groups' \in [Group -> PosixGroup \cup {None}]
  BY <1>3 DEF LdapTypeOK
<1>5. ASSUME ~crossed', NEW g \in Group, groups[g] # None, groups[g].gid \notin dropped'
      PROVE  \E h \in Group : groups'[h] # None /\ groups'[h].gid = groups[g].gid
  <2>1. CASE g # r.group
    BY <1>3, <1>5, <2>1 DEF LdapTypeOK
  <2>2. CASE g = r.group
    <3>1. groups[g].gid \in Gids(r.group)
      BY <1>5, <2>2 DEF Gids
    <3>2. r.gid = AUTOID /\ r.newname # r.group /\ groups[g].gid = seen[c].gid
      BY <1>3, <1>5, <3>1
    <3>3. ~crossed
      BY <1>5 DEF Cross
    <3>4. PICK h \in Group \ {r.group} : groups[h] # None /\ groups[h].gid = seen[c].gid
      BY <1>1, <1>3, <1>5, <3>2, <3>3 DEF GidHeld
    <3> QED
      BY <1>2, <1>3, <3>2, <3>4 DEF LdapTypeOK
  <2> QED
    BY <2>1, <2>2
<1> QED
  BY <1>4, <1>5 DEF Held

LEMMA GidsStayKept == GidsStay => Held(groups) \ Held(groups') \subseteq dropped'
  BY DEF GidsStay, Held

-----------------------------------------------------------------------------
(* A step of a client *)

LEMMA OtherStep ==
  ASSUME IInv, Other
  PROVE  IInv' /\ (~crossed' => Held(groups) \ Held(groups') \subseteq dropped')
<1>1. PICK c \in Client : ClientStep(c)
  BY DEF Other, ClientNext
<1> USE <1>1
<1>2. LdapTypeOK'
  <2>1. groups' \in [Group -> PosixGroup \cup {None}]
    BY GroupSteps, RenameDone DEF IInv, GroupsGood, Other
  <2> QED
    BY <2>1, CallsOK, UsersOK DEF IInv, LdapTypeOK
<1>3. BldTypeOK'
  BY DEF IInv, BldTypeOK, Other
<1>4. \A d \in Client : CallOK(d)'
  BY CallsOK DEF IInv
<1>5. \A d \in Client : SeenCurrent(d)'
  BY OthersSeenCurrent, OwnSeenCurrent DEF IInv
<1>6. CrossingSeen' /\ (crossed => crossed')
  BY DEF CrossingSeen, Other, Cross
<1>7. ASSUME NEW d \in Client PROVE GidHeld(d)'
  <2>1. CASE d = c
    BY <2>1, OwnGidHeld DEF IInv
  <2>2. CASE d # c /\ ~groupmov_del(c)
    BY <1>6, <2>2, GroupSteps, GidHeldStays, StepAlone DEF IInv, GroupsGood, Alone
  <2>3. CASE d # c /\ groupmov_del(c)
    <3>1. pc[c] = "delete" /\ rq[c].op = "groupmod"
      BY <2>3, RequestAt DEF groupmov_del, IInv
    <3>2. pc'[d] = pc[d] /\ rq'[d] = rq[d]
      BY <2>3, StepAlone DEF Alone, IInv
    <3>3. ASSUME pc'[d] = "delete", rq'[d].op = "groupmod" PROVE crossed'
      BY <1>6, <2>3, <3>1, <3>2, <3>3, RenamingTwo DEF IInv, CrossingSeen, Renaming
    <3> QED
      BY <3>3 DEF GidHeld
  <2> QED
    BY <2>1, <2>2, <2>3
<1>8. OneEach'
  BY UsersOK DEF IInv
<1>9. ~crossed' => Held(groups) \ Held(groups') \subseteq dropped'
  BY GroupSteps, GidsStayKept, RenameDone DEF IInv, GroupsGood, Other
<1> QED
  BY <1>2, <1>3, <1>4, <1>5, <1>6, <1>7, <1>8, <1>9 DEF IInv

-----------------------------------------------------------------------------
(* A step of vxgroupbld *)

LEMMA InHand ==
  ASSUME cur \in User, cur.vs_pvgrp # None
  PROVE  vgname \in Group /\ cur.pw_name \in Name
  BY GroupBldAssumption DEF vgname, User, Given

LEMMA BldTyped ==
  ASSUME BldTypeOK, Bld PROVE BldTypeOK'
<1>1. select_group => BldTypeOK'
  BY DEF select_group, BldTypeOK
<1>2. ASSUME usertrav_init PROVE BldTypeOK'
  <2>1. todo' \subseteq User /\ bpc' = "loop"
    BY <1>2 DEF usertrav_init
  <2> QED
    BY <2>1 DEF BldTypeOK
<1>3. loop => BldTypeOK'
  BY DEF loop, AtBld, Chosen, BldTypeOK
<1>4. create \/ create_groupadd \/ move \/ move_group \/ move_add => BldTypeOK'
  BY DEF create, create_groupadd, move, move_group, move_add, AtBld, BldTypeOK
<1>5. move_verify \/ move_sgmapadd \/ BldRefused => BldTypeOK'
  BY DEF move_verify, move_sgmapadd, BldRefused, AtBld, BldTypeOK
<1> QED
  BY <1>1, <1>2, <1>3, <1>4, <1>5 DEF Bld

LEMMA BldGroups ==
  ASSUME LdapTypeOK, BldTypeOK, Bld
  PROVE  GroupsGood /\ UNCHANGED <<users, raced, pc, rq, seen, crossed>>
<1> DEFINE Good == GroupsGood /\ UNCHANGED <<users, raced, pc, rq, seen, crossed>>
<1>1. select_group \/ usertrav_init \/ loop \/ create \/ move \/ move_add \/ move_verify => Good
  BY GroupsSame DEF select_group, usertrav_init, loop, create, move, move_add, move_verify, AtBld, Reads
<1>2. BldRefused => Good
  BY GroupsSame DEF BldRefused, Reads
<1>3. ASSUME create_groupadd PROVE Good
  <2>1. vgname \in Group
    BY <1>3, InHand DEF create_groupadd, AtBld, BldTypeOK
  <2> QED
    BY <1>3, <2>1, NewGroupGood, GroupsSame DEF create_groupadd, AtBld, SetGroup, Reads
<1>4. move_group => Good
  BY WithoutGood, GroupsSame DEF move_group, AtBld, Without, SetGroup, Reads
<1>5. ASSUME move_sgmapadd PROVE Good
  <2>1. vgname \in Group /\ cur.pw_name \in Name
    BY <1>5, InHand DEF move_sgmapadd, AtBld, BldTypeOK
  <2> QED
    BY <1>5, <2>1, AddedMemberGood, GroupsSame DEF move_sgmapadd, AtBld, SetGroup, Reads
<1> QED
  BY <1>1, <1>2, <1>3, <1>4, <1>5 DEF Bld

LEMMA BldStep ==
  ASSUME IInv, Bld
  PROVE  IInv' /\ Held(groups) \ Held(groups') \subseteq dropped'
<1>1. GroupsGood /\ UNCHANGED <<users, raced, pc, rq, seen, crossed>>
  BY BldGroups DEF IInv
<1>2. LdapTypeOK' /\ BldTypeOK'
  BY <1>1, BldTyped DEF IInv, LdapTypeOK, GroupsGood
<1>3. OneEach' /\ CrossingSeen'
  BY <1>1 DEF IInv, OneEach, CrossingSeen, Renaming
<1>4. \A c \in Client : CallOK(c)' /\ SeenCurrent(c)'
  BY <1>1 DEF IInv, CallOK, SeenCurrent
<1>5. \A c \in Client : GidHeld(c)'
  BY <1>1, GidHeldStays DEF IInv, GroupsGood
<1> QED
  BY <1>1, <1>2, <1>3, <1>4, <1>5, GidsStayKept DEF IInv, GroupsGood

-----------------------------------------------------------------------------
(* The specification *)

LEMMA InitInv == Init => IInv
<1> SUFFICES ASSUME Init PROVE IInv
  OBVIOUS
<1>1. LdapTypeOK /\ BldTypeOK
  BY LdapAssumption DEF Init, LdapInit, LdapTypeOK, BldTypeOK, Step
<1>2. \A c \in Client : CallOK(c) /\ SeenCurrent(c) /\ GidHeld(c)
  BY DEF Init, LdapInit, CallOK, SeenCurrent, GidHeld
<1>3. OneEach
  <2> SUFFICES ASSUME NEW n \in Name, users[n] # None, NEW a \in Attr \ {"cn"}
               PROVE  AtMostOne(users[n].attr[a])
    BY DEF OneEach
  <2>1. Cardinality(users[n].attr[a]) <= 1
    BY LdapAssumption DEF Init, LdapInit
  <2>2. IsFiniteSet(users[n].attr[a])
    BY LdapAssumption DEF Init, LdapInit
  <2> QED
    BY <2>1, <2>2, FewIsAtMostOne
<1>4. CrossingSeen
  <2>1. Renaming = {}
    BY DEF Init, LdapInit, Renaming
  <2> QED
    BY <2>1, FS_EmptySet DEF CrossingSeen
<1> QED
  BY <1>1, <1>2, <1>3, <1>4 DEF IInv

LEMMA StepInv ==
  ASSUME IInv, [Next]_allVars
  PROVE  IInv' /\ [~crossed' => Held(groups) \ Held(groups') \subseteq dropped']_ldapVars
<1>1. CASE Bld
  BY <1>1, BldStep
<1>2. CASE Other
  BY <1>2, OtherStep
<1>3. CASE UNCHANGED allVars
  BY <1>3 DEF allVars, bldVars, ldapVars, IInv, LdapTypeOK, BldTypeOK, CallOK, SeenCurrent, GidHeld, OneEach,
              CrossingSeen, Renaming
<1> QED
  BY <1>1, <1>2, <1>3 DEF Next

(* However many processes modify accounts while vxgroupbld runs, and        *)
(* whatever the server refuses, an attribute other than cn has more than one *)
(* value only in an account that two vxldap_usermod() were in at once.       *)
THEOREM ValuesReplaced == BldSpec => []OneValue
<1>1. IInv => OneValue
  <2> SUFFICES ASSUME IInv, NEW n \in Name \ raced, users[n] # None, NEW a \in Attr \ {"cn"}
               PROVE  Cardinality(users[n].attr[a]) <= 1
    BY DEF OneValue
  <2>1. AtMostOne(users[n].attr[a])
    BY DEF IInv, OneEach
  <2> QED
    BY <2>1, AtMostOneCounts
<1> QED
  BY <1>1, InitInv, StepInv, PTL DEF BldSpec

(* Renaming a group is not atomic, and anything may come between its two     *)
(* halves, or nothing any more: unless two clients are renaming at once, the *)
(* gid stays with some group until a call gives it up.                       *)
THEOREM GidsKept == BldSpec => GidKept
  BY InitInv, StepInv, PTL DEF BldSpec, GidKept

-----------------------------------------------------------------------------
(* What vxgroupbld has done when nobody disturbs it *)

Working == bpc \in {"getgrnam", "groupadd", "sgmapget", "move", "verify", "sgmapadd"}

\* The accounts that it is not done with
Left == todo \cup (IF Working THEN {cur} ELSE {})

Done(u) ==
  Chosen(u) => LET g == Transform[u.vs_pvgrp] IN g = u.pw_name \/ g \in Groups(groups, u.pw_name)

\* The groups that vxldap_sgmapget() has returned and that are still to come
Ahead == {sgrp[i] : i \in DOMAIN sgrp}

\* Of an account that is not left over one copy is done.  An account that is
\* taken to be in its group already is.
CompleteOK ==
  bpc \notin {"start", "trav", "failure"} =>
    /\ bpc = "success" => todo = {}
    /\ ~others =>
         /\ bpc = "move" /\ (added \/ vgname \in Ahead) => Done(cur)
         /\ \A n \in Name : db0.users[n] # None /\ Left \cap Copies(db0.users[n]) = {} =>
              \E u \in Copies(db0.users[n]) : Done(u)

\* How a step changes who is in which group
Joined(n, g) == \A m : Groups(groups', m) = Groups(groups, m) \cup (IF m = n THEN {g} ELSE {})
Parted(n) == \A m : Groups(groups', m) = IF m = n THEN Groups(groups, m) \ {n} ELSE Groups(groups, m)
Stayed == \A m : Groups(groups', m) = Groups(groups, m)

(* A new group has no members. *)
LEMMA NewGroupStays ==
  ASSUME LdapTypeOK, NEW g \in Group, groups[g] = None,
         SetGroup(g, [gid |-> AUTOID, member |-> {}], {})
  PROVE  Stayed
<1> DEFINE entry == [gid |-> AUTOID, member |-> {}]
<1>1. groups' = [groups EXCEPT ![g] = entry] /\ entry.member = {}
  BY DEF SetGroup
<1> HIDE DEF entry
<1> QED
  BY <1>1 DEF Stayed, Groups, LdapTypeOK

(* vxldap_sgmapdel() takes the account out of the group of its own name. *)
LEMMA RemovalParts ==
  ASSUME LdapTypeOK, NEW r, IsMember(r), Without(r)
  PROVE  Parted(r.name) /\ r.name \in Groups(groups, r.name)
<1> DEFINE n == r.name
           entry == [groups[n] EXCEPT !.member = @ \ {n}]
<1>1. n \in Group /\ groups[n] # None /\ n \in groups[n].member
  BY DEF IsMember, sgmapdel_target
<1>2. groups[n] \in PosixGroup
  BY <1>1 DEF LdapTypeOK
<1>3. groups' = [groups EXCEPT ![n] = entry]
  BY DEF Without, SetGroup, sgmapdel_target
<1>4. entry.member = groups[n].member \ {n} /\ entry \in PosixGroup
  BY <1>2 DEF PosixGroup
<1>5. entry # None
  BY <1>4, LdapAssumption
<1> HIDE DEF entry
<1> QED
  BY <1>1, <1>3, <1>4, <1>5 DEF Parted, Groups, LdapTypeOK

(* vxldap_sgmapadd() puts it into the group. *)
LEMMA AdditionJoins ==
  ASSUME LdapTypeOK, NEW n \in Name, NEW g \in Group, groups[g] # None,
         SetGroup(g, [groups[g] EXCEPT !.member = @ \cup {n}], {})
  PROVE  Joined(n, g)
<1> DEFINE entry == [groups[g] EXCEPT !.member = @ \cup {n}]
<1>1. groups[g] \in PosixGroup
  BY DEF LdapTypeOK
<1>2. groups' = [groups EXCEPT ![g] = entry]
  BY DEF SetGroup
<1>3. entry.member = groups[g].member \cup {n} /\ entry \in PosixGroup
  BY <1>1 DEF PosixGroup
<1>4. entry # None
  BY <1>3, LdapAssumption
<1> HIDE DEF entry
<1> QED
  BY <1>2, <1>3, <1>4 DEF Joined, Groups, LdapTypeOK

(* What vxldap_sgmapget() returns are groups of the account; and of two      *)
(* different ones it returns at least two.                                   *)
LEMMA GroupsRead ==
  ASSUME NEW n, NEW s \in sgmapget(n)
  PROVE  /\ s \in Seq(Group)
         /\ \A i \in DOMAIN s : s[i] \in Groups(groups, n)
         /\ \A g \in Groups(groups, n) :
              \/ \E i \in DOMAIN s : s[i] = g
              \/ \E i, j \in DOMAIN s : s[i] # s[j]
<1> DEFINE in == Groups(groups, n)
           k == Cardinality(in)
<1>1. IsFiniteSet(in) /\ in \subseteq Group
  <2>1. in \subseteq Group
    BY DEF Groups
  <2> QED
    BY <2>1, FS_Subset, GroupBldAssumption
<1>2. k \in Nat
  BY <1>1, FS_CardinalityType
<1>3. PICK f \in SetToSeqs(in) : s = [i \in DOMAIN f |-> f[IF i = 1 THEN 1 ELSE 2]]
  BY DEF sgmapget, Groups
<1>4. f \in [1 .. k -> in] /\ \A i, j \in 1 .. k : i # j => f[i] # f[j]
  BY <1>3 DEF SetToSeqs
<1>5. k = 0 => in = {}
  BY <1>1, FS_EmptySet
<1>6. k = 1 => \E x : in = {x}
  BY <1>1, FS_Singleton
<1> HIDE DEF in, k
<1>7. DOMAIN s = 1 .. k /\ \A i \in 1 .. k : s[i] = f[IF i = 1 THEN 1 ELSE 2]
  BY <1>3, <1>4
<1>8. \A i \in 1 .. k : s[i] \in in
  BY <1>2, <1>4, <1>7
<1>9. s \in Seq(Group)
  <2>1. s \in [1 .. k -> Group]
    BY <1>1, <1>3, <1>4, <1>7, <1>8
  <2> QED
    BY <1>2, <2>1
<1>10. ASSUME NEW g \in in PROVE \/ \E i \in DOMAIN s : s[i] = g
                                \/ \E i, j \in DOMAIN s : s[i] # s[j]
  <2>1. CASE k = 1
    <3>1. 1 \in DOMAIN s /\ s[1] \in in
      BY <1>7, <1>8, <2>1
    <3>2. s[1] = g
      BY <1>6, <2>1, <3>1
    <3> QED
      BY <3>1, <3>2
  <2>2. CASE k # 1
    <3>1. k >= 2
      BY <1>2, <1>5, <2>2
    <3>2. 1 \in 1 .. k /\ 2 \in 1 .. k /\ s[1] = f[1] /\ s[2] = f[2]
      BY <1>2, <1>7, <3>1
    <3>3. s[1] # s[2]
      BY <1>4, <3>2
    <3> QED
      BY <1>7, <3>2, <3>3
  <2> QED
    BY <2>1, <2>2
<1> QED
  BY <1>7, <1>8, <1>9, <1>10 DEF in

(* Each step of vxgroupbld changes the memberships in one of these ways. *)
Memberships == Stayed \/ (\E n : Parted(n)) \/ (\E n, g : Joined(n, g))

(* Who is done with stays so: removals are from the group of his own name. *)
LEMMA DoneStays ==
  ASSUME Memberships, gid' = gid, NEW u, Done(u)
  PROVE  Done(u)'
<1> DEFINE g == Transform[u.vs_pvgrp]
<1>1. g \in Groups(groups, u.pw_name) => g = u.pw_name \/ g \in Groups(groups', u.pw_name)
  BY DEF Memberships, Stayed, Parted, Joined
<1>2. Chosen(u)' => Chosen(u)
  BY DEF Chosen
<1> QED
  BY <1>1, <1>2 DEF Done

(* An account goes only when it is done. *)
LEMMA CopiesDone ==
  ASSUME CompleteOK, bpc \notin {"start", "trav", "failure"}, UNCHANGED <<gid, db0, others>>,
         Memberships, \A u \in Left : u \in Left' \/ Done(u)',
         NEW n \in Name, ~others', db0'.users[n] # None, Left' \cap Copies(db0'.users[n]) = {}
  PROVE  \E u \in Copies(db0'.users[n]) : Done(u)'
<1>1. CASE Left \cap Copies(db0.users[n]) = {}
  <2>1. PICK u \in Copies(db0.users[n]) : Done(u)
    BY <1>1 DEF CompleteOK
  <2> QED
    BY <2>1, DoneStays
<1>2. CASE Left \cap Copies(db0.users[n]) # {}
  BY <1>2
<1> QED
  BY <1>1, <1>2

(* Reading changes no memberships. *)
LEMMA ReadsStayed == Reads => Memberships
  BY DEF Reads, Memberships, Stayed

(* groupbld_loop() passes by those that have no Vitalnix group. *)
LEMMA LoopComplete ==
  ASSUME BldTypeOK, CompleteOK, loop
  PROVE  CompleteOK'
<1>1. UNCHANGED <<gid, db0, others>> /\ Memberships /\ bpc = "loop"
  BY ReadsStayed DEF loop, AtBld
<1>2. \A u \in Left : u \in Left' \/ Done(u)'
  <2>1. Left = todo
    BY <1>1 DEF Left, Working
  <2>2. ASSUME NEW u \in todo, todo' = todo \ {u},
               IF Chosen(u) THEN bpc' = "getgrnam" /\ cur' = u ELSE UNCHANGED <<bpc, cur>>
        PROVE  u \in Left' \/ Done(u)'
    <3>1. CASE Chosen(u)
      BY <2>2, <3>1 DEF Left, Working
    <3>2. CASE ~Chosen(u)
      BY <1>1, <3>2 DEF Done, Chosen
    <3> QED
      BY <3>1, <3>2
  <2> QED
    BY <2>1, <2>2 DEF loop, Left
<1>3. bpc' = "success" => todo' = {}
  BY <1>1 DEF loop
<1>4. bpc' # "move"
  BY <1>1 DEF loop
<1> QED
  BY <1>1, <1>2, <1>3, <1>4, CopiesDone DEF CompleteOK

(* Steps with an account in hand: it remains so, or it is done. *)
LEMMA HandComplete ==
  ASSUME CompleteOK, Working, UNCHANGED <<gid, todo, cur, db0, others>>, Memberships,
         Working' \/ (bpc' = "loop" /\ (~others => Done(cur)')) \/ bpc' = "failure",
         bpc' = "move" /\ (added' \/ vgname \in Ahead') /\ ~others => Done(cur)'
  PROVE  CompleteOK'
<1>1. CASE bpc' = "failure"
  BY <1>1 DEF CompleteOK
<1>2. CASE Working' \/ (bpc' = "loop" /\ (~others => Done(cur)'))
  <2>1. ~others => \A u \in Left : u \in Left' \/ Done(u)'
    BY <1>2 DEF Left
  <2>2. bpc \notin {"start", "trav", "failure"}
    BY DEF Working
  <2>3. bpc' # "success"
    BY <1>2 DEF Working
  <2>4. vgname' = vgname
    BY DEF vgname
  <2>5. ~others' => \A n \in Name : db0'.users[n] # None /\ Left' \cap Copies(db0'.users[n]) = {} =>
          \E u \in Copies(db0'.users[n]) : Done(u)'
    BY <2>1, <2>2, CopiesDone
  <2> QED
    BY <2>3, <2>4, <2>5 DEF CompleteOK
<1> QED
  BY <1>1, <1>2

(* groupbld_move() *)
LEMMA MoveComplete ==
  ASSUME LdapTypeOK, BldTypeOK, sgrp \in Seq(Group), CompleteOK,
         move \/ move_group \/ move_add
  PROVE  CompleteOK'
<1>1. Working /\ cur \in User /\ cur.vs_pvgrp # None
  BY DEF move, move_group, move_add, AtBld, Working, BldTypeOK
<1>2. UNCHANGED <<gid, todo, cur, db0, others>>
  BY DEF move, move_group, move_add, AtBld
<1>3. ASSUME move PROVE CompleteOK'
  <2>1. bpc' = "move" /\ ~added' /\ Memberships /\ groups' = groups
    BY <1>3, ReadsStayed DEF move, Reads
  <2>2. sgrp' \in sgmapget(cur.pw_name)
    BY <1>3 DEF move
  <2>3. vgname \in Ahead' => vgname \in Groups(groups, cur.pw_name)
    BY <2>2, GroupsRead DEF Ahead
  <2>4. vgname \in Ahead' => Done(cur)'
    BY <1>2, <2>1, <2>3 DEF Done, vgname
  <2> QED
    BY <1>1, <1>2, <2>1, <2>4, HandComplete DEF Working
<1>4. ASSUME move_group PROVE CompleteOK'
  <2> DEFINE g == Head(sgrp)
             r == [op |-> "sgmapdel", name |-> cur.pw_name, group |-> g]
  <2>1. bpc = "move" /\ sgrp # <<>> /\ sgrp' = Tail(sgrp)
    BY <1>4 DEF move_group, AtBld
  <2>2. Ahead' \subseteq Ahead /\ g \in Ahead
    BY <2>1 DEF Ahead
  <2>3. added' => added \/ g = vgname
    BY <1>4 DEF move_group, kept
  <2>4. Memberships
    <3>1. IsMember(r) /\ Without(r) => Memberships
      BY RemovalParts DEF Memberships
    <3> QED
      BY <1>4, <3>1, ReadsStayed DEF move_group
  <2>5. bpc' \in {"move", "failure"}
    BY <1>4, <2>1 DEF move_group
  <2>6. (added' \/ vgname \in Ahead') /\ ~others => Done(cur)
    BY <2>1, <2>2, <2>3 DEF CompleteOK
  <2>7. (added' \/ vgname \in Ahead') /\ ~others => Done(cur)'
    BY <1>2, <2>4, <2>6, DoneStays DEF Done
  <2> HIDE DEF g, r
  <2> QED
    BY <1>1, <1>2, <2>4, <2>5, <2>7, HandComplete DEF Working
<1>5. ASSUME move_add PROVE CompleteOK'
  <2>1. bpc = "move" /\ Memberships /\ groups' = groups /\ bpc' \in {"loop", "verify"}
        /\ (bpc' = "loop" => added)
    BY <1>5, ReadsStayed DEF move_add, AtBld, Reads
  <2>2. bpc' = "loop" /\ ~others => Done(cur)
    BY <2>1 DEF CompleteOK
  <2>3. bpc' = "loop" /\ ~others => Done(cur)'
    BY <1>2, <2>1, <2>2 DEF Done, Chosen
  <2> QED
    BY <1>1, <1>2, <2>1, <2>3, HandComplete DEF Working
<1> QED
  BY <1>3, <1>4, <1>5

(* The other steps of vxgroupbld with an account in hand *)
LEMMA CreateComplete ==
  ASSUME LdapTypeOK, BldTypeOK, CompleteOK, create \/ create_groupadd \/ move_verify \/ move_sgmapadd
  PROVE  CompleteOK'
<1>1. Working /\ cur \in User /\ cur.vs_pvgrp # None
  BY DEF create, create_groupadd, move_verify, move_sgmapadd, AtBld, Working, BldTypeOK
<1>2. UNCHANGED <<gid, todo, cur, db0, others>> /\ bpc' # "move"
  BY DEF create, create_groupadd, move_verify, move_sgmapadd, AtBld
<1>3. vgname \in Group /\ cur.pw_name \in Name
  BY <1>1, InHand
<1>4. ASSUME create \/ create_groupadd \/ move_verify PROVE CompleteOK'
  <2>1. Working' \/ bpc' = "failure"
    BY <1>4 DEF create, create_groupadd, move_verify, Working
  <2>2. Memberships
    BY <1>3, <1>4, ReadsStayed, NewGroupStays DEF create, create_groupadd, move_verify, Memberships
  <2> QED
    BY <1>1, <1>2, <2>1, <2>2, HandComplete
<1>5. ASSUME move_sgmapadd PROVE CompleteOK'
  <2> DEFINE ok == groups[vgname] # None /\ cur.pw_name \notin groups[vgname].member
  <2>1. CASE ok
    <3>1. bpc' = "loop" /\ Joined(cur.pw_name, vgname)
      BY <1>3, <1>5, <2>1, AdditionJoins DEF move_sgmapadd
    <3>2. vgname \in Groups(groups', cur.pw_name)
      BY <3>1 DEF Joined
    <3>3. Done(cur)'
      BY <1>2, <3>2 DEF Done, vgname
    <3> QED
      BY <1>1, <1>2, <3>1, <3>3, HandComplete DEF Memberships
  <2>2. CASE ~ok
    <3>1. bpc' = "failure" /\ Memberships
      BY <1>5, <2>2, ReadsStayed DEF move_sgmapadd
    <3> QED
      BY <3>1 DEF CompleteOK
  <2> QED
    BY <2>1, <2>2
<1> QED
  BY <1>4, <1>5

(* Each step keeps what vxgroupbld has done. *)
LEMMA CompleteStep ==
  ASSUME LdapTypeOK, BldTypeOK, sgrp \in Seq(Group), CompleteOK, [Next]_allVars
  PROVE  CompleteOK'
<1>1. select_group \/ BldRefused => CompleteOK'
  BY DEF select_group, BldRefused, CompleteOK
<1>2. ASSUME usertrav_init PROVE CompleteOK'
  <2> DEFINE there == {n \in Name : users[n] # None}
  <2>1. PICK read \in [there -> User] : /\ \A n \in there : read[n] \in Copies(users[n])
                                        /\ todo' = {read[n] : n \in there}
    BY <1>2 DEF usertrav_init
  <2>2. bpc' = "loop" /\ db0'.users = users
    BY <1>2 DEF usertrav_init
  <2>3. ASSUME NEW n \in Name, users[n] # None PROVE Left' \cap Copies(users[n]) # {}
    <3>1. read[n] \in todo' /\ read[n] \in Copies(users[n])
      BY <2>1, <2>3
    <3> QED
      BY <3>1 DEF Left
  <2> QED
    BY <2>2, <2>3 DEF CompleteOK
<1>3. loop => CompleteOK'
  BY LoopComplete
<1>4. create \/ create_groupadd \/ move_verify \/ move_sgmapadd => CompleteOK'
  BY CreateComplete
<1>5. move \/ move_group \/ move_add => CompleteOK'
  BY MoveComplete
<1>6. ASSUME Other \/ UNCHANGED allVars PROVE CompleteOK'
  <2>1. UNCHANGED <<bpc, gid, todo, cur, sgrp, added, db0>>
    BY <1>6 DEF Other, allVars, bldVars
  <2>2. bpc \notin {"start", "trav"} /\ ~others' => ~others /\ groups' = groups
    BY <1>6 DEF Other, allVars, bldVars, ldapVars
  <2>3. Left' = Left /\ Ahead' = Ahead /\ vgname' = vgname
    BY <2>1 DEF Left, Working, Ahead, vgname
  <2>4. bpc \notin {"start", "trav"} /\ ~others' => Done(cur)' = Done(cur)
    BY <2>1, <2>2 DEF Done, Chosen
  <2>5. bpc \notin {"start", "trav"} /\ ~others' => \A u : Done(u)' = Done(u)
    BY <2>1, <2>2 DEF Done, Chosen
  <2> QED
    BY <2>1, <2>2, <2>3, <2>4, <2>5 DEF CompleteOK
<1> QED
  BY <1>1, <1>2, <1>3, <1>4, <1>5, <1>6 DEF Next, Bld

-----------------------------------------------------------------------------
(* No second group with the prefix *)

\* The account may get another one: see NoSecondVUG.
Exempt(n) ==
  \/ n \in Groups(db0.groups, n)
  \/ \E g, h \in Groups(db0.groups, n) \ Prefixed : g # h

\* Of the groups of an account that is not exempt: it comes into the group of its
\* own name only as its group with the prefix, and into no other without.
OwnOK(n) ==
  /\ n \in Groups(groups, n) => n \in Prefixed /\ VUGs(groups, n) \subseteq {n}
  /\ AtMostOne(Groups(groups, n) \ Prefixed)

FewVUGs(n) ==
  AtMostOne(VUGs(groups, n)) \/ VUGs(groups, n) \subseteq VUGs(db0.groups, n)

\* As long as it is not found to be in the wanted group, one of the groups to come
\* has the prefix, or it is in none of these.
MoveOK(n) ==
  cur.pw_name = n =>
    /\ bpc = "move" /\ ~added => VUGs(groups, n) = {} \/ Ahead \cap Prefixed # {}
    /\ bpc \in {"verify", "sgmapadd"} => VUGs(groups, n) = {}

SecondOK ==
  ~others =>
    \A n \in Name : ~Exempt(n) => OwnOK(n) /\ FewVUGs(n) /\ MoveOK(n)

(* Steps that add the account to no group keep the first two. *)
LEMMA FewerGroups ==
  ASSUME NEW n, Groups(groups', n) \subseteq Groups(groups, n), db0' = db0, OwnOK(n), FewVUGs(n)
  PROVE  OwnOK(n)' /\ FewVUGs(n)'
<1>1. VUGs(groups', n) \subseteq VUGs(groups, n)
  BY DEF VUGs
<1>2. OwnOK(n)'
  BY <1>1 DEF OwnOK, AtMostOne
<1>3. FewVUGs(n)'
  BY <1>1 DEF FewVUGs, AtMostOne
<1> QED
  BY <1>2, <1>3

(* A step with an account in hand that adds it to no group *)
LEMMA HandSecond ==
  ASSUME SecondOK, UNCHANGED <<db0, others>>, Stayed \/ \E m : Parted(m),
         \A n \in Name : ~others /\ ~Exempt(n) => MoveOK(n)'
  PROVE  SecondOK'
<1> SUFFICES ASSUME ~others', NEW n \in Name, ~Exempt(n)'
             PROVE  OwnOK(n)' /\ FewVUGs(n)' /\ MoveOK(n)'
  BY DEF SecondOK
<1>1. ~Exempt(n)
  BY DEF Exempt
<1>2. OwnOK(n) /\ FewVUGs(n)
  BY <1>1 DEF SecondOK
<1>3. Groups(groups', n) \subseteq Groups(groups, n)
  BY DEF Stayed, Parted
<1>4. MoveOK(n)'
  BY <1>1
<1> QED
  BY <1>2, <1>3, <1>4, FewerGroups

(* Reading changes no memberships. *)
LEMMA ReadsStay == Reads => Stayed
  BY DEF Reads, Stayed

(* groupbld_move() *)
LEMMA MoveSecond ==
  ASSUME LdapTypeOK, BldTypeOK, sgrp \in Seq(Group), SecondOK, move \/ move_group \/ move_add
  PROVE  SecondOK'
<1>1. UNCHANGED <<cur, db0, others>>
  BY DEF move, move_group, move_add, AtBld
<1>2. ASSUME move, NEW n \in Name, ~others, ~Exempt(n) PROVE MoveOK(n)'
  <2>1. bpc' = "move" /\ groups' = groups /\ sgrp' \in sgmapget(cur.pw_name)
    BY <1>2 DEF move, Reads
  <2>2. AtMostOne(Groups(groups, n) \ Prefixed)
    BY <1>1, <1>2 DEF SecondOK, OwnOK
  <2>3. ASSUME cur.pw_name = n, NEW g \in VUGs(groups, n) PROVE Ahead' \cap Prefixed # {}
    <3>1. /\ \A i \in DOMAIN sgrp' : sgrp'[i] \in Groups(groups, n)
          /\ \/ \E i \in DOMAIN sgrp' : sgrp'[i] = g
             \/ \E i, j \in DOMAIN sgrp' : sgrp'[i] # sgrp'[j]
      BY <2>1, <2>3, GroupsRead DEF VUGs
    <3>2. \E i \in DOMAIN sgrp' : sgrp'[i] \in Prefixed
      BY <2>2, <3>1 DEF AtMostOne, VUGs
    <3> QED
      BY <3>2 DEF Ahead
  <2> QED
    BY <1>1, <2>1, <2>3 DEF MoveOK
<1>3. move => SecondOK'
  BY <1>1, <1>2, ReadsStay, HandSecond DEF move
<1>4. ASSUME move_group PROVE SecondOK'
  <2> DEFINE g == Head(sgrp)
             r == [op |-> "sgmapdel", name |-> cur.pw_name, group |-> g]
  <2>1. bpc = "move" /\ sgrp # <<>> /\ sgrp' = Tail(sgrp)
    BY <1>4 DEF move_group, AtBld
  <2>2. Ahead \subseteq Ahead' \cup {g}
    <3>1. ASSUME NEW i \in DOMAIN sgrp, i # 1 PROVE sgrp[i] \in Ahead'
      <4>1. i - 1 \in DOMAIN Tail(sgrp) /\ Tail(sgrp)[i - 1] = sgrp[i]
        BY <2>1, <3>1
      <4> QED
        BY <2>1, <4>1 DEF Ahead
    <3>2. g = sgrp[1]
      BY <2>1
    <3> QED
      BY <3>1, <3>2 DEF Ahead
  <2>3. bpc' \in {"move", "failure"}
    BY <1>4, <2>1 DEF move_group
  <2>4. CASE kept(g) /\ added' = TRUE /\ Reads
    <3>1. \A n \in Name : MoveOK(n)'
      BY <2>3, <2>4 DEF MoveOK
    <3> QED
      BY <1>1, <2>4, <3>1, ReadsStay, HandSecond
  <2>5. CASE g \notin Prefixed /\ Reads /\ UNCHANGED <<bpc, added>>
    <3>1. ASSUME NEW n \in Name, ~others, ~Exempt(n) PROVE MoveOK(n)'
      <4>1. MoveOK(n)
        BY <1>1, <3>1 DEF SecondOK
      <4> QED
        BY <1>1, <2>1, <2>2, <2>5, <4>1 DEF MoveOK, Reads
    <3> QED
      BY <1>1, <2>5, <3>1, ReadsStay, HandSecond
  <2>6. CASE g \in Prefixed /\ IsMember(r) /\ Without(r)
    <3>1. Parted(cur.pw_name) /\ cur.pw_name \in Groups(groups, cur.pw_name)
      BY <2>6, RemovalParts
    <3>2. ASSUME NEW n \in Name, ~others, ~Exempt(n) PROVE MoveOK(n)'
      <4>1. OwnOK(n)
        BY <1>1, <3>2 DEF SecondOK
      <4>2. cur.pw_name = n => VUGs(groups', n) = {}
        BY <3>1, <4>1 DEF OwnOK, Parted, VUGs
      <4> QED
        BY <1>1, <4>2 DEF MoveOK
    <3> HIDE DEF r
    <3> QED
      BY <1>1, <3>1, <3>2, HandSecond
  <2>7. CASE bpc' = "failure" /\ Reads
    <3>1. \A n \in Name : MoveOK(n)'
      BY <2>7 DEF MoveOK
    <3> QED
      BY <1>1, <2>7, <3>1, ReadsStay, HandSecond
  <2> QED
    BY <1>4, <2>4, <2>5, <2>6, <2>7 DEF move_group, abort
<1>5. ASSUME move_add PROVE SecondOK'
  <2>1. bpc = "move" /\ sgrp = <<>> /\ groups' = groups
        /\ (bpc' = "loop" \/ (bpc' = "verify" /\ ~added))
    BY <1>5 DEF move_add, AtBld, Reads
  <2>2. Ahead = {}
    BY <2>1 DEF Ahead
  <2>3. ASSUME NEW n \in Name, ~others, ~Exempt(n) PROVE MoveOK(n)'
    <3>1. MoveOK(n)
      BY <1>1, <2>3 DEF SecondOK
    <3> QED
      BY <1>1, <2>1, <2>2, <3>1 DEF MoveOK
  <2> QED
    BY <1>1, <1>5, <2>3, ReadsStay, HandSecond DEF move_add
<1> QED
  BY <1>3, <1>4, <1>5

(* The other steps of vxgroupbld with an account in hand *)
LEMMA CreateSecond ==
  ASSUME LdapTypeOK, BldTypeOK, SecondOK, create \/ create_groupadd \/ move_verify \/ move_sgmapadd
  PROVE  SecondOK'
<1>1. /\ UNCHANGED <<cur, db0, others>>
      /\ cur \in User /\ cur.vs_pvgrp # None
  BY DEF create, create_groupadd, move_verify, move_sgmapadd, AtBld, BldTypeOK
<1>2. vgname \in Group /\ cur.pw_name \in Name /\ vgname \in Prefixed
  BY <1>1, InHand, GroupBldAssumption DEF vgname, User, Given
<1>3. ASSUME create \/ create_groupadd PROVE SecondOK'
  <2>1. Stayed
    BY <1>2, <1>3, ReadsStay, NewGroupStays DEF create, create_groupadd
  <2>2. \A n \in Name : MoveOK(n)'
    BY <1>3 DEF create, create_groupadd, MoveOK
  <2> QED
    BY <1>1, <2>1, <2>2, HandSecond
<1>4. ASSUME move_verify PROVE SecondOK'
  <2>1. bpc = "verify" /\ bpc' \in {"sgmapadd", "failure"} /\ groups' = groups
    BY <1>4 DEF move_verify, AtBld, Reads
  <2>2. ASSUME NEW n \in Name, ~others, ~Exempt(n) PROVE MoveOK(n)'
    <3>1. MoveOK(n)
      BY <1>1, <2>2 DEF SecondOK
    <3> QED
      BY <1>1, <2>1, <3>1 DEF MoveOK
  <2> QED
    BY <1>1, <1>4, <2>2, ReadsStay, HandSecond DEF move_verify
<1>5. ASSUME move_sgmapadd PROVE SecondOK'
  <2> DEFINE k == cur.pw_name
  <2>1. bpc = "sgmapadd" /\ bpc' \in {"loop", "failure"}
    BY <1>5 DEF move_sgmapadd, AtBld
  <2>2. \A n \in Name : MoveOK(n)'
    BY <2>1 DEF MoveOK
  <2>3. CASE Reads
    BY <1>1, <2>2, <2>3, ReadsStay, HandSecond
  <2>4. CASE ~Reads
    <3>1. Joined(k, vgname)
      BY <1>2, <1>5, <2>4, AdditionJoins DEF move_sgmapadd
    <3>2. ASSUME ~others, NEW n \in Name, ~Exempt(n) PROVE OwnOK(n)' /\ FewVUGs(n)'
      <4>1. OwnOK(n) /\ FewVUGs(n) /\ MoveOK(n)
        BY <1>1, <3>2 DEF SecondOK
      <4>2. CASE n # k
        BY <1>1, <3>1, <4>1, <4>2, FewerGroups DEF Joined
      <4>3. CASE n = k
        <5>1. VUGs(groups, n) = {}
          BY <2>1, <4>1, <4>3 DEF MoveOK
        <5>2. Groups(groups', n) = Groups(groups, n) \cup {vgname}
          BY <3>1, <4>3 DEF Joined
        <5>3. VUGs(groups', n) = {vgname}
          BY <1>2, <5>1, <5>2 DEF VUGs
        <5>4. FewVUGs(n)'
          BY <5>3 DEF FewVUGs, AtMostOne
        <5>5. n \notin Groups(groups, n)
          BY <4>1, <5>1 DEF OwnOK, VUGs
        <5>6. n \in Groups(groups', n) => n = vgname
          BY <5>2, <5>5
        <5>7. Groups(groups', n) \ Prefixed = Groups(groups, n) \ Prefixed
          BY <1>2, <5>2
        <5>8. OwnOK(n)'
          BY <1>2, <4>1, <5>3, <5>6, <5>7 DEF OwnOK, AtMostOne
        <5> QED
          BY <5>4, <5>8
      <4> QED
        BY <4>2, <4>3
    <3> QED
      BY <1>1, <2>2, <3>2 DEF SecondOK, Exempt
  <2> QED
    BY <2>3, <2>4
<1> QED
  BY <1>3, <1>4, <1>5

(* Each step keeps the accounts in few groups with the prefix. *)
LEMMA SecondStep ==
  ASSUME LdapTypeOK, BldTypeOK, sgrp \in Seq(Group), SecondOK, [Next]_allVars
  PROVE  SecondOK'
<1>1. ASSUME select_group \/ loop \/ BldRefused PROVE SecondOK'
  <2>1. /\ UNCHANGED <<db0, others>> /\ Reads
        /\ bpc' \in {"trav", "getgrnam", "loop", "success", "failure"}
    BY <1>1 DEF select_group, loop, AtBld, BldRefused
  <2>2. \A n \in Name : MoveOK(n)'
    BY <2>1 DEF MoveOK
  <2> QED
    BY <2>1, <2>2, ReadsStay, HandSecond
<1>2. ASSUME usertrav_init PROVE SecondOK'
  <2>1. bpc' = "loop" /\ db0'.groups = groups /\ groups' = groups
    BY <1>2 DEF usertrav_init, Reads
  <2>2. ASSUME NEW n \in Name, ~Exempt(n)' PROVE OwnOK(n)' /\ FewVUGs(n)' /\ MoveOK(n)'
    BY <2>1, <2>2 DEF Exempt, OwnOK, AtMostOne, FewVUGs, MoveOK
  <2> QED
    BY <2>2 DEF SecondOK
<1>3. create \/ create_groupadd \/ move_verify \/ move_sgmapadd => SecondOK'
  BY CreateSecond
<1>4. move \/ move_group \/ move_add => SecondOK'
  BY MoveSecond
<1>5. ASSUME Other \/ UNCHANGED allVars PROVE SecondOK'
  <2>1. UNCHANGED <<bpc, gid, todo, cur, sgrp, added, db0>>
    BY <1>5 DEF Other, allVars, bldVars
  <2>2. ~others' => ~others /\ groups' = groups
    BY <1>5 DEF Other, allVars, bldVars, ldapVars
  <2>3. ASSUME ~others', NEW n \in Name, ~Exempt(n)'
        PROVE  OwnOK(n)' /\ FewVUGs(n)' /\ MoveOK(n)'
    <3>1. groups' = groups /\ ~Exempt(n)
      BY <2>1, <2>2, <2>3 DEF Exempt
    <3>2. OwnOK(n) /\ FewVUGs(n) /\ MoveOK(n)
      BY <2>2, <2>3, <3>1 DEF SecondOK
    <3>3. OwnOK(n)'
      BY <3>1, <3>2 DEF OwnOK
    <3>4. FewVUGs(n)'
      BY <2>1, <3>1, <3>2 DEF FewVUGs
    <3>5. MoveOK(n)'
      BY <2>1, <3>1, <3>2 DEF MoveOK, Ahead
    <3> QED
      BY <3>3, <3>4, <3>5
  <2> QED
    BY <2>3 DEF SecondOK
<1> QED
  BY <1>1, <1>2, <1>3, <1>4, <1>5 DEF Next, Bld

-----------------------------------------------------------------------------
(* The run of vxgroupbld *)

RunInv == IInv /\ sgrp \in Seq(Group) /\ CompleteOK /\ SecondOK

(* The invariant of the run holds at the start and is kept. *)
LEMMA InitRun == Init => RunInv
<1> SUFFICES ASSUME Init PROVE RunInv
  OBVIOUS
<1>1. IInv /\ bpc = "start" /\ sgrp = <<>> /\ others = TRUE
  BY InitInv DEF Init
<1>2. CompleteOK /\ SecondOK
  BY <1>1 DEF CompleteOK, SecondOK
<1> QED
  BY <1>1, <1>2 DEF RunInv

LEMMA RunStep == RunInv /\ [Next]_allVars => RunInv'
<1> SUFFICES ASSUME RunInv, [Next]_allVars PROVE RunInv'
  OBVIOUS
<1>1. LdapTypeOK /\ BldTypeOK /\ IInv'
  BY StepInv DEF RunInv, IInv
<1>2. sgrp' \in Seq(Group)
  <2>1. CASE move
    BY <2>1, GroupsRead DEF move
  <2>2. CASE move_group
    <3>1. sgrp \in Seq(Group) /\ sgrp # <<>> /\ sgrp' = Tail(sgrp)
      BY <2>2 DEF move_group, RunInv
    <3> QED
      BY <3>1
  <2>3. CASE ~move /\ ~move_group
    <3>1. sgrp' = sgrp
      BY <2>3 DEF Next, Bld, Other, allVars, bldVars, select_group, usertrav_init, loop, create,
                  create_groupadd, move_add, move_verify, move_sgmapadd, BldRefused
    <3> QED
      BY <3>1 DEF RunInv
  <2> QED
    BY <2>1, <2>2, <2>3
<1>3. CompleteOK' /\ SecondOK'
  BY <1>1, CompleteStep, SecondStep DEF RunInv
<1> QED
  BY <1>1, <1>2, <1>3 DEF RunInv

(* After an undisturbed run that succeeds, every account with a Vitalnix     *)
(* group is in the UNIX group of that under a name that the search returned, *)
(* unless the group has the name of the account.                             *)
THEOREM RunCompletes == BldSpec => []BuildComplete
<1>1. RunInv => BuildComplete
  <2> SUFFICES ASSUME RunInv, bpc = "success", ~others, NEW n \in Name, db0.users[n] # None
               PROVE  \E u \in Copies(db0.users[n]) : Done(u)
    BY DEF BuildComplete, Done
  <2>1. Left = {}
    BY DEF RunInv, CompleteOK, Left, Working
  <2> QED
    BY <2>1 DEF RunInv, CompleteOK
<1> QED
  BY <1>1, InitRun, RunStep, PTL DEF BldSpec

(* However an undisturbed run ends or is cut off, nobody comes into a second *)
(* group with the prefix, but for those with a group of their own name and   *)
(* those in two other groups.                                                *)
THEOREM NoneAddedTwice == BldSpec => []NoSecondVUG
<1>1. RunInv => NoSecondVUG
  <2> SUFFICES ASSUME RunInv, ~others, NEW n \in Name, ~Exempt(n)
               PROVE  \/ Cardinality(VUGs(groups, n)) <= 1
                      \/ VUGs(groups, n) \subseteq VUGs(db0.groups, n)
    BY DEF NoSecondVUG, Exempt
  <2>1. FewVUGs(n)
    BY DEF RunInv, SecondOK
  <2> QED
    BY <2>1, AtMostOneCounts DEF FewVUGs
<1> QED
  BY <1>1, InitRun, RunStep, PTL DEF BldSpec
=============================================================================
