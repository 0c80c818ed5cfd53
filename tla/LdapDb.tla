------------------------------- MODULE LdapDb -------------------------------
(***************************************************************************)
(* The LDAP driver.  Several processes call it; a call is a sequence of    *)
(* requests, each of which the directory server carries out at once or     *)
(* refuses, and requests of other processes come between them: the driver  *)
(* takes no lock, VXDB_WRLOCK only makes it bind as administrator.         *)
(*                                                                         *)
(* Of the optional attributes of an account three stand for all: cn, which *)
(* has any number of values and which vxldap_getattr() does not ask for;   *)
(* gecos, of which the server allows one value; and vitalnixGroup, which   *)
(* may have several values and needs an object class.                      *)
(***************************************************************************)
EXTENDS Integers, FiniteSets, SequencesExt

CONSTANTS
  Client,
  Requests,     \* the calls that clients make
  Name, Group,  \* names of accounts and of groups
  Id,           \* a set of numbers, for uidNumber and gidNumber
  Text,         \* values of the optional attributes, login names among them
  None,         \* what is not given, not there, not read
  AUTOID,       \* VXDB_AUTOUID, VXDB_AUTOGID and VXDB_NOGID
  Garbage,      \* what gr_gid of a record that is not initialized may hold
  InitUsers, InitGroups,
  MaxCalls      \* bound on the number of calls

Attr   == {"cn", "gecos", "vitalnixGroup"}
Single == {"gecos"}

Given(S) == S \cup {None}
UseraddRq == [op : {"useradd"}, name : Name, uid : Id \cup {AUTOID}, gid : Id,
              real : Given(Text), pvgrp : Given(Text)]
UsermodRq == [op : {"usermod"}, name : Name, newname : Given(Name), gid : Given(Id),
              real : Given(Text), pvgrp : Given(Text)]
NameRq    == [op : {"userdel"}, name : Name] \cup [op : {"groupdel"}, group : Group]
GroupaddRq == [op : {"groupadd"}, group : Group, gid : Id \cup {AUTOID}]
GroupmodRq == [op : {"groupmod"}, group : Group, newname : Given(Group), gid : Id \cup {AUTOID}]
SgmapRq   == [op : {"sgmapadd", "sgmapdel"}, name : Name, group : Group]

\* uid: the values of that attribute; managed: has class vitalnixManagedAccount
Account == [uid : SUBSET Name, uidNumber : Id \cup {AUTOID}, gidNumber : Id,
            attr : [Attr -> SUBSET Text], managed : BOOLEAN]

\* member: the names in the DNs of the accounts in it.  The group itself, which
\* vxldap_groupadd() makes a member, is left out.
PosixGroup == [gid : Id \cup {AUTOID}, member : SUBSET Name]

ASSUME LdapAssumption ==
  /\ Requests \subseteq UNION {UseraddRq, UsermodRq, NameRq, GroupaddRq, GroupmodRq, SgmapRq}
  /\ Name \subseteq Text /\ AUTOID \notin Id /\ Garbage \subseteq Id /\ MaxCalls \in Nat
  /\ IsFiniteSet(Client) /\ None \notin Name \cup Group \cup Account \cup PosixGroup
  /\ InitUsers \in [Name -> Account \cup {None}] /\ InitGroups \in [Group -> PosixGroup \cup {None}]
  /\ \A n \in Name : InitUsers[n] # None =>
       \A a \in Attr \ {"cn"} :
         IsFiniteSet(InitUsers[n].attr[a]) /\ Cardinality(InitUsers[n].attr[a]) <= 1

VARIABLES
  users,    \* the entry uid=name,USER_SUFFIX of each name
  groups,   \* the entry cn=group,GROUP_SUFFIX of each group
  pc, rq,   \* of each client: the next request, and the call it belongs to
  seen,     \* of each client: the entry that the call has read
  ret,      \* of each client: what its last call returned
  calls,
  raced,    \* history: accounts that another client changed in the middle of a usermod
  dropped,  \* history: group ids that a call has given up
  crossed   \* history: whether two clients were renaming groups at once

ldapVars == <<users, groups, pc, rq, seen, ret, calls, raced, dropped, crossed>>

Step == {"idle", "search", "modify", "rename", "add", "delete"}

LdapInit ==
  /\ users = InitUsers /\ groups = InitGroups
  /\ pc = [c \in Client |-> "idle"] /\ rq = [c \in Client |-> None]
  /\ seen = [c \in Client |-> None] /\ ret = [c \in Client |-> "none"]
  /\ calls = 0 /\ raced = {} /\ dropped = {} /\ crossed = FALSE

-----------------------------------------------------------------------------
(* The calls of a client *)

\* The first request of a call
First(r) == CASE r.op \in {"useradd", "groupadd"} -> "add"
              [] r.op \in {"userdel", "groupdel"} -> "delete"
              [] r.op = "sgmapdel"                -> "modify"
              [] r.op = "groupmod" /\ r.newname = None -> "modify"
              [] OTHER                            -> "search"

Call(c) ==
  /\ pc[c] = "idle" /\ calls < MaxCalls
  /\ \E r \in Requests : rq' = [rq EXCEPT ![c] = r] /\ pc' = [pc EXCEPT ![c] = First(r)]
  /\ calls' = calls + 1
  /\ UNCHANGED <<users, groups, seen, ret, raced, dropped>>

\* c is about to send a request of this kind.
At(c, step, op) == pc[c] = step /\ rq[c].op = op /\ UNCHANGED calls

\* The call of c goes on with another request, or returns.
Continue(c, step, read) ==
  /\ pc' = [pc EXCEPT ![c] = step] /\ seen' = [seen EXCEPT ![c] = read]
  /\ UNCHANGED <<rq, ret>>

Return(c, r) ==
  /\ pc' = [pc EXCEPT ![c] = "idle"] /\ rq' = [rq EXCEPT ![c] = None]
  /\ seen' = [seen EXCEPT ![c] = None]
  /\ ret' = [ret EXCEPT ![c] = r]

\* The server refuses the request, whatever the reason.
Refused(c) ==
  /\ pc[c] # "idle" /\ Return(c, "error")
  /\ UNCHANGED <<users, groups, calls, raced, dropped>>

\* History: a usermod of a client other than c is in the middle of account n.
Disturbed(c, n) ==
  \E d \in Client \ {c} :
    pc[d] \in {"modify", "rename"} /\ rq[d].op = "usermod" /\ rq[d].name = n

SetUser(c, n, entry) ==
  /\ users' = [users EXCEPT ![n] = entry]
  /\ raced' = IF Disturbed(c, n) THEN raced \cup {n} ELSE raced
  /\ UNCHANGED <<groups, dropped>>

\* giveUp: the ids that the change takes away from the group, as it is meant to
SetGroup(g, entry, giveUp) ==
  /\ groups' = [groups EXCEPT ![g] = entry]
  /\ dropped' = dropped \cup giveUp
  /\ UNCHANGED <<users, raced>>

-----------------------------------------------------------------------------
(* Accounts *)

OneOf(value) == {value} \ {None}

\* VXDB_AUTOUID is written as it is.  cn is the real name or else the login name.
NewUser(r) ==
  [uid |-> {r.name}, uidNumber |-> r.uid, gidNumber |-> r.gid,
   attr |-> [a \in Attr |->
     CASE a = "vitalnixGroup"           -> OneOf(r.pvgrp)
       [] a = "cn" /\ r.real = None     -> OneOf(r.name)
       [] OTHER                         -> OneOf(r.real)],
   managed |-> r.pvgrp # None]

useradd(c) ==
  LET r == rq[c]
  IN  /\ At(c, "add", "useradd")
      /\ \/ /\ users[r.name] = None
            /\ SetUser(c, r.name, NewUser(r)) /\ Return(c, "1")
         \/ /\ users[r.name] # None /\ Return(c, "error")
            /\ UNCHANGED <<users, groups, raced, dropped>>

\* vxldap_getattr()
getattr(c) ==
  LET r == rq[c]
  IN  /\ At(c, "search", "usermod")
      /\ IF users[r.name] = None THEN Return(c, "ENOENT")
         ELSE Continue(c, "modify", users[r.name])
      /\ UNCHANGED <<users, groups, raced, dropped>>

\* mutant: vitalnixGroup is not asked for either
replaces_NoGroup(entry, a) == a = "gecos" /\ entry.attr[a] # {}

\* repl_add(): an attribute that the account was seen to have is replaced, any
\* other gets one more value.
replaces(entry, a) == a # "cn" /\ entry.attr[a] # {}

\* The values that the modify request carries for an attribute
NewValue(r, a) == OneOf(IF a = "vitalnixGroup" THEN r.pvgrp ELSE r.real)

\* The server refuses a value that is there already, a second value of a
\* single-valued attribute and a class that the account has, and then it
\* carries out nothing of the request.
ModifyOK(r, entry, now) ==
  /\ \A a \in Attr : NewValue(r, a) # {} /\ ~replaces(entry, a) =>
       /\ NewValue(r, a) \cap now.attr[a] = {}
       /\ a \in Single => now.attr[a] = {}
  /\ r.pvgrp # None /\ ~entry.managed => ~now.managed

Modified(r, entry, now) ==
  [now EXCEPT
     !.gidNumber = IF r.gid = None THEN @ ELSE r.gid,
     !.attr = [a \in Attr |-> IF NewValue(r, a) # {} /\ replaces(entry, a) THEN NewValue(r, a)
                              ELSE @[a] \cup NewValue(r, a)],
     !.managed = @ \/ r.pvgrp # None]

usermod(c) ==
  LET r   == rq[c]
      now == users[r.name]
  IN  /\ At(c, "modify", "usermod")
      /\ \/ /\ now = None /\ Return(c, "ENOENT")
            /\ UNCHANGED <<users, groups, raced, dropped>>
         \/ /\ now # None /\ ~ModifyOK(r, seen[c], now) /\ Return(c, "error")
            /\ UNCHANGED <<users, groups, raced, dropped>>
         \/ /\ now # None /\ ModifyOK(r, seen[c], now)
            /\ SetUser(c, r.name, Modified(r, seen[c], now))
            /\ IF r.newname = None THEN Return(c, "1") ELSE Continue(c, "rename", seen[c])

\* vxldap_usermod2(): the entry keeps its old value of uid (deleteoldrdn is
\* false), and groups keep the old DN.  A failure leaves the modification.
usermod2(c) ==
  LET r   == rq[c]
      now == users[r.name]
  IN  /\ At(c, "rename", "usermod")
      /\ \/ /\ now # None /\ users[r.newname] = None
            /\ users' = [users EXCEPT ![r.name] = None,
                                      ![r.newname] = [now EXCEPT !.uid = @ \cup {r.newname}]]
            /\ raced' = raced \cup {n \in {r.name, r.newname} : Disturbed(c, n)}
                             \cup (IF r.name \in raced THEN {r.newname} ELSE {})
            /\ Return(c, "1")
         \/ /\ now = None \/ users[r.newname] # None
            /\ Return(c, "error") /\ UNCHANGED <<users, raced>>
      /\ UNCHANGED <<groups, dropped>>

\* An account that is not there is none that failed: 0.  The groups keep the DN.
userdel(c) ==
  LET r == rq[c]
  IN  /\ At(c, "delete", "userdel")
      /\ SetUser(c, r.name, None)
      /\ Return(c, IF users[r.name] = None THEN "0" ELSE "1")

-----------------------------------------------------------------------------
(* Groups *)

groupadd(c) ==
  LET r == rq[c]
  IN  /\ At(c, "add", "groupadd")
      /\ \/ /\ groups[r.group] = None
            /\ SetGroup(r.group, [gid |-> r.gid, member |-> {}], {}) /\ Return(c, "1")
         \/ /\ groups[r.group] # None /\ Return(c, "error")
            /\ UNCHANGED <<users, groups, raced, dropped>>

Gids(g) == IF groups[g] = None THEN {} ELSE {groups[g].gid}

groupdel(c) ==
  LET g == rq[c].group
  IN  /\ At(c, "delete", "groupdel")
      /\ SetGroup(g, None, Gids(g))
      /\ Return(c, IF groups[g] = None THEN "0" ELSE "1")

groupmod(c) ==
  LET r == rq[c]
  IN  /\ At(c, "modify", "groupmod")
      /\ \/ /\ groups[r.group] # None
            /\ IF r.gid = AUTOID THEN UNCHANGED <<users, groups, raced, dropped>>
               ELSE SetGroup(r.group, [groups[r.group] EXCEPT !.gid = r.gid], Gids(r.group))
            /\ Return(c, "1")
         \/ /\ groups[r.group] = None /\ Return(c, "error")
            /\ UNCHANGED <<users, groups, raced, dropped>>

\* mutant: the old group goes when its record has been read
groupmov_Early(c) ==
  LET r == rq[c]
  IN  /\ At(c, "search", "groupmod")
      /\ groups[r.group] # None /\ Continue(c, "add", groups[r.group])
      /\ SetGroup(r.group, None, IF r.gid = AUTOID THEN {} ELSE Gids(r.group))

\* vxldap_groupmov(), first: vxldap_getgrnam().  When it finds no group it
\* returns 0, with which the caller goes on with a record that was never
\* initialized; its gr_gid is anything.
groupmov(c) ==
  LET r == rq[c]
  IN  /\ At(c, "search", "groupmod")
      /\ IF groups[r.group] # None THEN Continue(c, "add", groups[r.group])
         ELSE \E gid \in Garbage : Continue(c, "add", [gid |-> gid, member |-> {}])
      /\ UNCHANGED <<users, groups, raced, dropped>>

\* Then vxldap_groupadd() of the new group, without the members ...
groupmov_add(c) ==
  LET r == rq[c]
  IN  /\ At(c, "add", "groupmod")
      /\ \/ /\ groups[r.newname] = None
            /\ SetGroup(r.newname, [gid |-> IF r.gid = AUTOID THEN seen[c].gid ELSE r.gid,
                                    member |-> {}], {})
            /\ Continue(c, "delete", seen[c])
         \/ /\ groups[r.newname] # None /\ Return(c, "error")
            /\ UNCHANGED <<users, groups, raced, dropped>>

\* ... and vxldap_groupdel() of the old one.  A gid that another client has
\* given it since it was read is lost.
groupmov_del(c) ==
  LET r == rq[c]
  IN  /\ At(c, "delete", "groupmod")
      /\ SetGroup(r.group, None,
                  IF r.gid = AUTOID /\ r.newname # r.group THEN Gids(r.group) \ {seen[c].gid}
                                                          ELSE Gids(r.group))
      /\ Return(c, IF groups[r.group] = None THEN "0" ELSE "1")

-----------------------------------------------------------------------------
(* Secondary groups *)

\* vxldap_sgmapadd(): the account must be there when it is looked for.
sgmapadd_verify(c) ==
  LET r == rq[c]
  IN  /\ At(c, "search", "sgmapadd")
      /\ IF users[r.name] = None THEN Return(c, "ENOENT")
         ELSE Continue(c, "modify", users[r.name])
      /\ UNCHANGED <<users, groups, raced, dropped>>

sgmapadd(c) ==
  LET r == rq[c]
  IN  /\ At(c, "modify", "sgmapadd")
      /\ IF groups[r.group] # None /\ r.name \notin groups[r.group].member
         THEN /\ SetGroup(r.group, [groups[r.group] EXCEPT !.member = @ \cup {r.name}], {})
              /\ Return(c, "1")
         ELSE /\ Return(c, "error") /\ UNCHANGED <<users, groups, raced, dropped>>

\* The group that vxldap_sgmapdel() sends the request for: dn_group() is given
\* the name of the user.
sgmapdel_target(r) == r.name

\* The request finds a value to delete
IsMember(r) ==
  LET g == sgmapdel_target(r)
  IN  g \in Group /\ groups[g] # None /\ r.name \in groups[g].member

Without(r) ==
  LET g == sgmapdel_target(r)
  IN  SetGroup(g, [groups[g] EXCEPT !.member = @ \ {r.name}], {})

sgmapdel(c) ==
  LET r == rq[c]
  IN  /\ At(c, "modify", "sgmapdel")
      /\ \/ /\ IsMember(r) /\ Without(r) /\ Return(c, "1")
         \/ /\ ~IsMember(r) /\ Return(c, "ENOENT")
            /\ UNCHANGED <<users, groups, raced, dropped>>

\* What vxldap_sgmapget() may return: vxldap_sgmapget2() goes on from the whole
\* result each time, so that every name after the first is that of the second
\* entry.
sgmapget(n) ==
  LET in == {g \in Group : groups[g] # None /\ n \in groups[g].member}
  IN  {[i \in DOMAIN s |-> s[IF i = 1 THEN 1 ELSE 2]] : s \in SetToSeqs(in)}

-----------------------------------------------------------------------------
ClientStep(c) ==
  \/ Call(c) \/ Refused(c)
  \/ useradd(c) \/ getattr(c) \/ usermod(c) \/ usermod2(c) \/ userdel(c)
  \/ groupadd(c) \/ groupdel(c) \/ groupmod(c)
  \/ groupmov(c) \/ groupmov_add(c) \/ groupmov_del(c)
  \/ sgmapadd_verify(c) \/ sgmapadd(c) \/ sgmapdel(c)

ClientNext == \E c \in Client : ClientStep(c)

\* History
Renaming == {c \in Client : pc[c] \in {"add", "delete"} /\ rq[c].op = "groupmod"}
Cross == crossed' = (crossed \/ Cardinality(Renaming') > 1)

Spec == LdapInit /\ [][ClientNext /\ Cross]_ldapVars

-----------------------------------------------------------------------------
(* vxldap_usermod() decides between replacing a value and adding one before  *)
(* it sends the request.  Nevertheless an account gets a second value of an  *)
(* attribute that has one, as of its Vitalnix group, only when two usermods  *)
(* of it overlap; of cn, which is not asked for, it collects values.         *)
OneValue ==
  \A n \in Name \ raced : users[n] # None =>
    \A a \in Attr \ {"cn"} : Cardinality(users[n].attr[a]) <= 1

(* vxldap_groupmov() renames a group by adding and deleting, and may be cut  *)
(* short between the two: files never belong to a gid without a group, as    *)
(* some group has the gid until a call deletes the group or changes the gid, *)
(* or two renames at once lose both groups.                                  *)
Held(db) == {db[g].gid : g \in {h \in Group : db[h] # None}}
GidKept == [][~crossed' => Held(groups) \ Held(groups') \subseteq dropped']_ldapVars
=============================================================================
