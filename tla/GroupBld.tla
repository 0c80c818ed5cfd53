------------------------------ MODULE GroupBld ------------------------------
(***************************************************************************)
(* vxgroupbld, which gives every account that has a Vitalnix group the     *)
(* UNIX group of that name and takes it out of the other groups with the   *)
(* prefix, on the LDAP driver, beside the clients of LdapDb.               *)
(***************************************************************************)
EXTENDS LdapDb

CONSTANTS
  Transform,    \* groupbld_transform(): the UNIX group of a Vitalnix group
  Prefixed,     \* the groups whose names begin with the prefix
  Limit_group   \* what option -G may be: a group, a number, or None if it is not given

ASSUME GroupBldAssumption ==
  /\ Transform \in [Text -> Group] /\ {Transform[t] : t \in Text} \subseteq Prefixed
  /\ Prefixed \subseteq Group /\ IsFiniteSet(Group)
  /\ Limit_group \subseteq Group \cup Id \cup {AUTOID, None}

VARIABLES
  bpc,      \* the next request of vxgroupbld, or how it ended
  gid,      \* Limit_gid
  todo,     \* the accounts still to come, as vxldap_usertrav_init() read them
  cur,      \* the one in hand
  sgrp,     \* its secondary groups still to be looked at
  added,
  db0,      \* history: the accounts and groups when they were read
  others    \* history: whether they may have been changed by a client since

bldVars == <<bpc, gid, todo, cur, sgrp, added, db0, others>>
allVars == <<ldapVars, bldVars>>

User == [pw_name : Name, pw_gid : Id, vs_pvgrp : Given(Text)]

Init ==
  /\ LdapInit
  /\ bpc = "start" /\ gid = AUTOID /\ todo = {} /\ cur = None /\ sgrp = <<>> /\ added = FALSE
  /\ db0 = [users |-> InitUsers, groups |-> InitGroups] /\ others = TRUE

vgname == Transform[cur.vs_pvgrp]

-----------------------------------------------------------------------------
(* Requests of vxgroupbld.  Where they only read, nothing of the server      *)
(* changes.                                                                  *)

AtBld(step) == bpc = step /\ UNCHANGED <<pc, rq, seen, ret, calls, crossed, others>>
Reads == UNCHANGED <<users, groups, raced, dropped>>

\* A number stands for itself.
Limit_gid(limit) ==
  IF limit \in Id \cup {AUTOID} THEN limit
  ELSE IF groups[limit] = None THEN AUTOID ELSE groups[limit].gid

select_group ==
  /\ AtBld("start") /\ Reads
  /\ \E limit \in Limit_group :
       \/ limit = None /\ bpc' = "trav" /\ gid' = AUTOID
       \/ /\ limit # None /\ gid' = Limit_gid(limit)
          /\ bpc' = IF gid' = AUTOID THEN "failure" ELSE "trav"
  /\ UNCHANGED <<todo, cur, sgrp, added, db0>>

\* vxldap_copy_user() takes the first value of each attribute, and the server
\* returns them in any order.
Copies(entry) ==
  {u \in User : /\ u.pw_name \in entry.uid /\ u.pw_gid = entry.gidNumber
                /\ IF entry.attr["vitalnixGroup"] = {} THEN u.vs_pvgrp = None
                   ELSE u.vs_pvgrp \in entry.attr["vitalnixGroup"]}

\* vxldap_usertrav_init(): one search for all accounts
usertrav_init ==
  LET there == {n \in Name : users[n] # None}
  IN  /\ bpc = "trav" /\ Reads /\ UNCHANGED <<pc, rq, seen, ret, calls, crossed>>
      /\ \E read \in [there -> User] :
           /\ \A n \in there : read[n] \in Copies(users[n])
           /\ todo' = {read[n] : n \in there}
      /\ db0' = [users |-> users, groups |-> groups] /\ others' = FALSE
      /\ bpc' = "loop"
      /\ UNCHANGED <<gid, cur, sgrp, added>>

\* groupbld_loop()
Chosen(u) == u.vs_pvgrp # None /\ (gid # AUTOID => u.pw_gid = gid)

loop ==
  /\ AtBld("loop") /\ Reads
  /\ \/ \E u \in todo :
          /\ todo' = todo \ {u}
          /\ IF Chosen(u) THEN bpc' = "getgrnam" /\ cur' = u ELSE UNCHANGED <<bpc, cur>>
     \/ todo = {} /\ bpc' = "success" /\ cur' = None /\ UNCHANGED todo
  /\ UNCHANGED <<gid, sgrp, added, db0>>

\* groupbld_create()
create ==
  /\ AtBld("getgrnam") /\ Reads
  /\ bpc' = IF groups[vgname] # None THEN "sgmapget" ELSE "groupadd"
  /\ UNCHANGED <<gid, todo, cur, sgrp, added, db0>>

\* VXDB_AUTOGID is written as it is.
create_groupadd ==
  /\ AtBld("groupadd")
  /\ \/ /\ groups[vgname] = None /\ bpc' = "sgmapget"
        /\ SetGroup(vgname, [gid |-> AUTOID, member |-> {}], {})
     \/ groups[vgname] # None /\ bpc' = "failure" /\ Reads
  /\ UNCHANGED <<gid, todo, cur, sgrp, added, db0>>

\* groupbld_move()
move ==
  /\ AtBld("sgmapget") /\ Reads
  /\ sgrp' \in sgmapget(cur.pw_name)
  /\ added' = FALSE /\ bpc' = "move"
  /\ UNCHANGED <<gid, todo, cur, db0>>

\* mutant: any group with the prefix is taken for the one that is wanted
kept_Prefixed(g) == g \in Prefixed

\* The group is the one that the account should be in
kept(g) == g = vgname

\* mutant: a removal that failed is only reported
abort_Never(deleted) == FALSE

abort(deleted) == ~deleted

move_group ==
  LET g == Head(sgrp)
      r == [op |-> "sgmapdel", name |-> cur.pw_name, group |-> g]
  IN  /\ AtBld("move") /\ sgrp # <<>>
      /\ sgrp' = Tail(sgrp)
      /\ \/ kept(g) /\ added' = TRUE /\ Reads /\ UNCHANGED bpc
         \/ ~kept(g) /\ g \notin Prefixed /\ Reads /\ UNCHANGED <<bpc, added>>
         \/ /\ ~kept(g) /\ g \in Prefixed
            /\ IF IsMember(r) THEN Without(r) ELSE Reads
            /\ bpc' = IF abort(IsMember(r)) THEN "failure" ELSE bpc
            /\ UNCHANGED added
      /\ UNCHANGED <<gid, todo, cur, db0>>

move_add ==
  /\ AtBld("move") /\ sgrp = <<>> /\ Reads
  /\ bpc' = IF added THEN "loop" ELSE "verify"
  /\ UNCHANGED <<gid, todo, cur, sgrp, added, db0>>

\* The two requests of vxldap_sgmapadd()
move_verify ==
  /\ AtBld("verify") /\ Reads
  /\ bpc' = IF users[cur.pw_name] # None THEN "sgmapadd" ELSE "failure"
  /\ UNCHANGED <<gid, todo, cur, sgrp, added, db0>>

move_sgmapadd ==
  LET ok == groups[vgname] # None /\ cur.pw_name \notin groups[vgname].member
  IN  /\ AtBld("sgmapadd")
      /\ IF ok THEN SetGroup(vgname, [groups[vgname] EXCEPT !.member = @ \cup {cur.pw_name}], {})
               ELSE Reads
      /\ bpc' = IF ok THEN "loop" ELSE "failure"
      /\ UNCHANGED <<gid, todo, cur, sgrp, added, db0>>

\* The server refuses a request: vxgroupbld aborts.
BldRefused ==
  /\ \/ bpc \in {"trav", "getgrnam", "groupadd", "sgmapget", "verify", "sgmapadd"}
     \/ bpc = "start" /\ Limit_group \cap Group # {}
     \/ bpc = "move" /\ sgrp # <<>> /\ ~kept(Head(sgrp)) /\ Head(sgrp) \in Prefixed
  /\ bpc' = "failure" /\ Reads
  /\ UNCHANGED <<gid, todo, cur, sgrp, added, db0, pc, rq, seen, ret, calls, crossed, others>>

Bld ==
  \/ select_group \/ usertrav_init \/ loop
  \/ create \/ create_groupadd
  \/ move \/ move_group \/ move_add \/ move_verify \/ move_sgmapadd
  \/ BldRefused

\* A client of LdapDb makes a step.
Other ==
  /\ ClientNext /\ Cross
  /\ others' = (others \/ users' # users \/ groups' # groups)
  /\ UNCHANGED <<bpc, gid, todo, cur, sgrp, added, db0>>

Next == Bld \/ Other

BldSpec == Init /\ [][Next]_allVars

-----------------------------------------------------------------------------
Groups(db, n) == {g \in Group : db[g] # None /\ n \in db[g].member}
VUGs(db, n) == Groups(db, n) \cap Prefixed

(* After a run that succeeds and that nobody else disturbed, every account   *)
(* with a Vitalnix group is in the UNIX group of that, under a name that the *)
(* search returned, unless the group has the name of the account: from that  *)
(* the removals take the account out (see OneVUG).                           *)
BuildComplete ==
  bpc = "success" /\ ~others =>
    \A n \in Name : db0.users[n] # None =>
      \E u \in Copies(db0.users[n]) : Chosen(u) =>
        LET g == Transform[u.vs_pvgrp] IN g = u.pw_name \/ g \in Groups(groups, u.pw_name)

(* vxgroupbld aborts before it adds an account to a second group with the    *)
(* prefix.  When it is stopped half-way, or the removal from the old group   *)
(* fails, nobody is in more groups with the prefix than before, unless the   *)
(* removal took him out of the group of his own name (see OneVUG), or he is  *)
(* in two other groups, and vxldap_sgmapget() returned one of them twice     *)
(* instead of the one with the prefix.                                       *)
NoSecondVUG ==
  ~others =>
    \A n \in Name :
      \/ Cardinality(VUGs(groups, n)) <= 1
      \/ VUGs(groups, n) \subseteq VUGs(db0.groups, n)
      \/ n \in Groups(db0.groups, n)
      \/ \E g, h \in Groups(db0.groups, n) \ Prefixed : g # h

(* vxgroupbld.8: it "moves them from their current Vitalnix-UNIX-Group       *)
(* (VUG) to the new VUG that matches the Vitalnix group tag": after a run    *)
(* that succeeds every account with a Vitalnix group is in that group only.  *)
OneVUG ==
  bpc = "success" /\ ~others =>
    \A n \in Name : db0.users[n] # None /\ db0.users[n].uid = {n} =>
      \A u \in Copies(db0.users[n]) : Chosen(u) => Cardinality(VUGs(groups, n)) <= 1
=============================================================================
