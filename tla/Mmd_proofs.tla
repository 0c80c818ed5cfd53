----------------------------- MODULE Mmd_proofs -----------------------------
(***************************************************************************)
(* Proofs about Mmd, for any modules with any lists in them.  What is said *)
(* of traversals and of automatic ids is proved for one read module or     *)
(* none: with two, a traversal may stop early (see WalkReader).            *)
(***************************************************************************)
EXTENDS Mmd, SequenceTheorems, WellFoundedInduction, TLAPS

-----------------------------------------------------------------------------
(* Lists *)

\* Records with a name and whatever ids the list has
EntryIn(list, kind) == [name : Name[kind], id : {list[i].id : i \in DOMAIN list}]

ListOK(list, kind) == list \in Seq(EntryIn(list, kind)) /\ Unique(list)

LEMMA EntriesAre ==
  ASSUME NEW kind, NEW list, ListOK(list, kind)
  PROVE  /\ Len(list) \in Nat /\ DOMAIN list = 1 .. Len(list)
         /\ \A i \in 1 .. Len(list) :
              /\ list[i] = [name |-> list[i].name, id |-> list[i].id]
              /\ list[i].name \in Name[kind]
<1>1. Len(list) \in Nat /\ DOMAIN list = 1 .. Len(list)
  BY DEF ListOK
<1>2. ASSUME NEW i \in 1 .. Len(list)
      PROVE  list[i] = [name |-> list[i].name, id |-> list[i].id] /\ list[i].name \in Name[kind]
  <2>1. list[i] \in EntryIn(list, kind)
    BY <1>1 DEF ListOK
  <2> QED
    BY <2>1 DEF EntryIn
<1> QED
  BY <1>1, <1>2

LEMMA ListIs ==
  ASSUME NEW kind, NEW S, NEW list \in Seq(S), Unique(list),
         \A i \in 1 .. Len(list) : /\ list[i] = [name |-> list[i].name, id |-> list[i].id]
                                   /\ list[i].name \in Name[kind]
  PROVE  ListOK(list, kind)
<1>1. Len(list) \in Nat /\ list = [i \in 1 .. Len(list) |-> list[i]]
  OBVIOUS
<1>2. \A i \in 1 .. Len(list) : list[i].id \in {list[j].id : j \in DOMAIN list}
  BY <1>1
<1>3. ASSUME NEW i \in 1 .. Len(list) PROVE list[i] \in EntryIn(list, kind)
  <2>1. list[i].id \in {list[j].id : j \in DOMAIN list} /\ list[i].name \in Name[kind]
    BY <1>2
  <2>2. [name |-> list[i].name, id |-> list[i].id] \in EntryIn(list, kind)
    BY <2>1 DEF EntryIn
  <2> QED
    BY <2>2
<1>4. list \in Seq(EntryIn(list, kind))
  <2> DEFINE T == EntryIn(list, kind)
  <2>1. \A i \in 1 .. Len(list) : list[i] \in T
    BY <1>3
  <2> HIDE DEF T
  <2>2. [i \in 1 .. Len(list) |-> list[i]] \in Seq(T)
    BY <1>1, <2>1
  <2>3. list \in Seq(T)
    BY <1>1, <2>2
  <2> QED
    BY <2>3 DEF T
<1> QED
  BY <1>4 DEF ListOK

\* Where an entry was before another one was taken out
LEMMA TakenOut ==
  ASSUME NEW S, NEW s \in Seq(S), NEW i \in 1 .. Len(s)
  PROVE  LET t == SubSeq(s, 1, i - 1) \o SubSeq(s, i + 1, Len(s))
         IN  /\ t \in Seq(S) /\ Len(t) = Len(s) - 1
             /\ \A j \in 1 .. Len(s) - 1 : t[j] = s[IF j < i THEN j ELSE j + 1]
<1>1. Len(s) \in Nat /\ \A j \in 1 .. Len(s) : s[j] \in S
  OBVIOUS
<1> DEFINE front == SubSeq(s, 1, i - 1)
           back  == SubSeq(s, i + 1, Len(s))
<1>2. front \in Seq(S) /\ Len(front) = i - 1 /\ \A j \in 1 .. i - 1 : front[j] = s[j]
  BY <1>1
<1>3. /\ back \in Seq(S) /\ Len(back) = Len(s) - i
      /\ \A j \in 1 .. Len(s) - i : back[j] = s[i + j]
  <2>1. /\ back \in Seq(S)
        /\ Len(back) = IF i + 1 <= Len(s) THEN Len(s) - (i + 1) + 1 ELSE 0
        /\ \A j \in 1 .. Len(s) - (i + 1) + 1 : back[j] = s[i + 1 + j - 1]
    BY <1>1, SubSeqProperties
  <2> HIDE DEF back
  <2>2. i \in Nat /\ 1 <= i /\ i <= Len(s)
    BY <1>1
  <2>3. Len(back) = Len(s) - i
    BY <1>1, <2>1, <2>2
  <2>4. ASSUME NEW j \in 1 .. Len(s) - i PROVE back[j] = s[i + j]
    <3>1. j \in 1 .. Len(s) - (i + 1) + 1 /\ i + 1 + j - 1 = i + j
      BY <1>1, <2>2
    <3> QED
      BY <2>1, <3>1
  <2> QED
    BY <2>1, <2>3, <2>4
<1> HIDE DEF front, back
<1>4. /\ front \o back \in Seq(S) /\ Len(front \o back) = Len(s) - 1
      /\ \A j \in 1 .. Len(s) - 1 : (front \o back)[j] = IF j < i THEN front[j] ELSE back[j - (i - 1)]
  <2>1. /\ front \o back \in Seq(S) /\ Len(front \o back) = Len(front) + Len(back)
        /\ \A j \in 1 .. Len(front) + Len(back) :
             (front \o back)[j] = IF j <= Len(front) THEN front[j] ELSE back[j - Len(front)]
    BY <1>2, <1>3, ConcatProperties
  <2>2. Len(front) + Len(back) = Len(s) - 1 /\ \A j \in Nat : j <= Len(front) <=> j < i
    BY <1>1, <1>2, <1>3
  <2> QED
    BY <1>2, <2>1, <2>2
<1>5. \A j \in 1 .. Len(s) - 1 : (front \o back)[j] = s[IF j < i THEN j ELSE j + 1]
  BY <1>1, <1>2, <1>3, <1>4
<1> QED
  BY <1>4, <1>5 DEF front, back

LEMMA ListAdded ==
  ASSUME NEW kind, NEW list, ListOK(list, kind), NEW n \in Name[kind], NEW x,
         \A i \in DOMAIN list : list[i].name # n
  PROVE  LET new == Append(list, [name |-> n, id |-> x])
         IN  /\ ListOK(new, kind) /\ Len(new) = Len(list) + 1
             /\ \A i \in 1 .. Len(list) : new[i] = list[i]
             /\ new[Len(list) + 1] = [name |-> n, id |-> x]
<1> DEFINE e   == [name |-> n, id |-> x]
           S   == EntryIn(list, kind) \cup {e}
           new == Append(list, e)
<1>1. list \in Seq(S)
  <2>1. EntryIn(list, kind) \subseteq S
    OBVIOUS
  <2> HIDE DEF S
  <2> QED
    BY <2>1, SeqMonotonic DEF ListOK
<1>2. e \in S /\ e.name = n
  OBVIOUS
<1>3. /\ Len(list) \in Nat /\ DOMAIN list = 1 .. Len(list)
      /\ \A i \in 1 .. Len(list) :
              /\ list[i] = [name |-> list[i].name, id |-> list[i].id]
              /\ list[i].name \in Name[kind]
  BY EntriesAre
<1>a. e = [name |-> e.name, id |-> e.id]
  OBVIOUS
<1> HIDE DEF e, S
<1>4. /\ new \in Seq(S) /\ Len(new) = Len(list) + 1
      /\ \A i \in 1 .. Len(list) : new[i] = list[i]
      /\ new[Len(list) + 1] = e
  BY <1>1, <1>2, AppendProperties
<1> HIDE DEF new
<1>5. DOMAIN new = 1 .. Len(list) + 1
  BY <1>4, <1>3
<1>6. Unique(new)
  BY <1>2, <1>3, <1>4, <1>5 DEF Unique, ListOK
<1>7. ListOK(new, kind)
  <2>1. ASSUME NEW i \in 1 .. Len(new)
        PROVE  new[i] = [name |-> new[i].name, id |-> new[i].id] /\ new[i].name \in Name[kind]
    <3>1. CASE i <= Len(list)
      BY <1>3, <1>4, <3>1
    <3>2. CASE i = Len(list) + 1
      BY <1>2, <1>a, <1>4, <3>2
    <3> QED
      BY <1>3, <1>4, <3>1, <3>2
  <2> QED
    BY <1>4, <1>6, <2>1, ListIs
<1> QED
  BY <1>4, <1>7 DEF new, e

LEMMA ListChanged ==
  ASSUME NEW kind, NEW list, ListOK(list, kind), NEW i \in DOMAIN list, NEW n \in Name[kind], NEW x,
         n = list[i].name \/ \A j \in DOMAIN list : list[j].name # n
  PROVE  LET new == [list EXCEPT ![i] = [name |-> n, id |-> x]]
         IN  /\ ListOK(new, kind) /\ Len(new) = Len(list)
             /\ \A j \in 1 .. Len(list) : j # i => new[j] = list[j]
             /\ new[i] = [name |-> n, id |-> x]
<1> DEFINE e   == [name |-> n, id |-> x]
           S   == EntryIn(list, kind) \cup {e}
           new == [list EXCEPT ![i] = e]
<1>1. list \in Seq(S)
  <2>1. EntryIn(list, kind) \subseteq S
    OBVIOUS
  <2> HIDE DEF S
  <2> QED
    BY <2>1, SeqMonotonic DEF ListOK
<1>2. e \in S /\ e.name = n /\ e = [name |-> e.name, id |-> e.id]
  OBVIOUS
<1>3. /\ Len(list) \in Nat /\ DOMAIN list = 1 .. Len(list)
      /\ \A j \in 1 .. Len(list) :
              /\ list[j] = [name |-> list[j].name, id |-> list[j].id]
              /\ list[j].name \in Name[kind]
  BY EntriesAre
<1> HIDE DEF e, S
<1>4. /\ new \in Seq(S) /\ Len(new) = Len(list)
      /\ \A j \in 1 .. Len(list) : new[j] = IF j = i THEN e ELSE list[j]
  BY <1>1, <1>2, <1>3, ExceptSeq
<1> HIDE DEF new
<1>5. ASSUME NEW j \in 1 .. Len(list), NEW k \in 1 .. Len(list), new[j].name = new[k].name
      PROVE  j = k
  <2>1. Unique(list)
    BY DEF ListOK
  <2>2. CASE j # i /\ k # i
    BY <1>3, <1>4, <1>5, <2>1, <2>2 DEF Unique
  <2>3. CASE j = i /\ k # i
    <3>1. list[k].name = n /\ k \in DOMAIN list
      BY <1>2, <1>3, <1>4, <1>5, <2>3
    <3>2. list[k].name = list[i].name
      BY <3>1
    <3> QED
      BY <2>1, <2>3, <3>1, <3>2 DEF Unique
  <2>4. CASE j # i /\ k = i
    <3>1. list[j].name = n /\ j \in DOMAIN list
      BY <1>2, <1>3, <1>4, <1>5, <2>4
    <3>2. list[j].name = list[i].name
      BY <3>1
    <3> QED
      BY <2>1, <2>4, <3>1, <3>2 DEF Unique
  <2> QED
    BY <2>2, <2>3, <2>4
<1>6. DOMAIN new = 1 .. Len(list)
  BY <1>4
<1>7. Unique(new)
  BY <1>5, <1>6 DEF Unique
<1>8. ListOK(new, kind)
  <2>1. ASSUME NEW j \in 1 .. Len(new)
        PROVE  new[j] = [name |-> new[j].name, id |-> new[j].id] /\ new[j].name \in Name[kind]
    <3>1. CASE j = i
      BY <1>2, <1>3, <1>4, <3>1
    <3>2. CASE j # i
      BY <1>3, <1>4, <3>2
    <3> QED
      BY <3>1, <3>2
  <2> QED
    BY <1>4, <1>7, <2>1, ListIs
<1>9. new[i] = e /\ \A j \in 1 .. Len(list) : j # i => new[j] = list[j]
  BY <1>3, <1>4
<1> QED
  BY <1>4, <1>8, <1>9 DEF new, e

LEMMA ListShortened ==
  ASSUME NEW kind, NEW list, ListOK(list, kind), NEW i \in DOMAIN list
  PROVE  LET new == SubSeq(list, 1, i - 1) \o SubSeq(list, i + 1, Len(list))
         IN  /\ ListOK(new, kind)
             /\ \A j \in DOMAIN new : \E k \in DOMAIN list : new[j] = list[k]
<1> DEFINE new == SubSeq(list, 1, i - 1) \o SubSeq(list, i + 1, Len(list))
           S   == EntryIn(list, kind)
           was(j) == IF j < i THEN j ELSE j + 1
<1>1. /\ Len(list) \in Nat /\ DOMAIN list = 1 .. Len(list)
      /\ \A j \in 1 .. Len(list) :
              /\ list[j] = [name |-> list[j].name, id |-> list[j].id]
              /\ list[j].name \in Name[kind]
  BY EntriesAre
<1>2. list \in Seq(S) /\ Unique(list)
  BY DEF ListOK
<1> HIDE DEF S
<1>3. /\ new \in Seq(S) /\ Len(new) = Len(list) - 1
      /\ \A j \in 1 .. Len(list) - 1 : new[j] = list[IF j < i THEN j ELSE j + 1]
  BY <1>1, <1>2, TakenOut
<1> HIDE DEF new
<1>4. DOMAIN new = 1 .. Len(list) - 1
  BY <1>1, <1>3
<1>5. \A j \in 1 .. Len(list) - 1 : was(j) \in 1 .. Len(list) /\ new[j] = list[was(j)]
  BY <1>1, <1>3
<1>6. \A j, k \in 1 .. Len(list) - 1 : was(j) = was(k) => j = k
  BY <1>1
<1> HIDE DEF was
<1>7. Unique(new)
  BY <1>1, <1>2, <1>4, <1>5, <1>6 DEF Unique
<1>8. ListOK(new, kind)
  BY <1>1, <1>3, <1>5, <1>7, ListIs
<1>9. \A j \in DOMAIN new : \E k \in DOMAIN list : new[j] = list[k]
  BY <1>1, <1>4, <1>5
<1> QED
  BY <1>8, <1>9 DEF new

-----------------------------------------------------------------------------
(* The modules *)

States == {"out", "loaded", "open"}

\* The modules that a loop over list has passed are in this state.
Passed(list, state) == \A j \in 1 .. at - 1 : list[j] \in Modules => inst[list[j]] = state

Each(states) == \A m \in Modules : inst[m] \in states

\* Loading stops with some modules loaded, opening with some open; unloading
\* and closing begin like that.
ModulesOK ==
  /\ inst \in [Modules -> States] /\ mh_state = inst /\ at \in Nat \ {0}
  /\ phase \in States \cup {"loading", "unloading", "opening", "closing"}
  /\ phase \in {"loaded", "open", "opening", "closing"} => Writer \in Modules
  /\ phase \in States => Each({phase})
  /\ phase = "loading" =>
       at <= Len(Order) /\ Passed(Order, "loaded") /\ Each({"out", "loaded"})
  /\ phase = "unloading" =>
       at <= Len(Order) /\ Passed(Order, "out") /\ Each({"out", "loaded"})
  /\ phase = "opening" =>
       /\ at <= Len(Readers) /\ Passed(Readers, "open") /\ inst[Writer] = "open"
       /\ Each({"loaded", "open"})
  /\ phase = "closing" =>
       at <= Len(Order) /\ Passed(Order, "loaded") /\ Each({"loaded", "open"})
  /\ \A m \in writable : m = Writer /\ m \in Modules /\ inst[m] = "open"

\* What leaves the modules as they are
Using ==
  \/ \E n \in UserName, wanted \in Wanted, bad \in SUBSET Modules : vxmmd_useradd(n, wanted, bad)
  \/ \E n \in GroupName, wanted \in Wanted, bad \in SUBSET Modules : vxmmd_groupadd(n, wanted, bad)
  \/ \E n, new \in UserName, id \in NewId : vxmmd_usermod(n, new, id)
  \/ \E n, new \in GroupName, id \in NewId : vxmmd_groupmod(n, new, id)
  \/ \E n \in UserName : vxmmd_userdel(n)
  \/ \E n \in GroupName : vxmmd_groupdel(n)
  \/ \E u \in UserName, g \in GroupName : vxmmd_sgmapadd(u, g) \/ vxmmd_sgmapdel(u, g)
  \/ \E ok \in BOOLEAN : vxmmd_usertrav_init(ok) \/ vxmmd_grouptrav_init(ok)
  \/ vxmmd_usertrav_walk \/ vxmmd_usertrav_free
  \/ vxmmd_grouptrav_walk \/ vxmmd_grouptrav_free
  \/ WalkWriter \/ WalkReader \/ SkipReader \/ WalkFails \/ WalkEnd

Managing ==
  \/ vxmmd_init \/ vxmmd_exit \/ vxmmd_close \/ modules_destruct \/ modules_close
  \/ \E ok \in BOOLEAN : modules_construct(ok) \/ modules_open(ok)
  \/ \E write, ok \in BOOLEAN : vxmmd_open(write, ok)
  \/ vxmmd_lock \/ vxmmd_unlock

LEMMA NextIs == Next <=> Managing \/ Using
  BY DEF Next, Managing, Using

LEMMA UsingKeeps == Using => UNCHANGED module
<1> SUFFICES ASSUME Using PROVE UNCHANGED module
  OBVIOUS
<1>1. ASSUME NEW n \in UserName, NEW wanted \in Wanted, NEW bad \in SUBSET Modules,
             vxmmd_useradd(n, wanted, bad)
      PROVE  UNCHANGED module
  BY <1>1 DEF vxmmd_useradd
<1>2. ASSUME NEW n \in GroupName, NEW wanted \in Wanted, NEW bad \in SUBSET Modules,
             vxmmd_groupadd(n, wanted, bad)
      PROVE  UNCHANGED module
  BY <1>2 DEF vxmmd_groupadd
<1>3. ASSUME NEW n \in UserName, NEW new \in UserName, NEW id \in NewId, vxmmd_usermod(n, new, id)
      PROVE  UNCHANGED module
  BY <1>3 DEF vxmmd_usermod
<1>4. ASSUME NEW n \in GroupName, NEW new \in GroupName, NEW id \in NewId, vxmmd_groupmod(n, new, id)
      PROVE  UNCHANGED module
  BY <1>4 DEF vxmmd_groupmod
<1>5. ASSUME NEW n \in UserName, vxmmd_userdel(n) PROVE UNCHANGED module
  BY <1>5 DEF vxmmd_userdel
<1>6. ASSUME NEW n \in GroupName, vxmmd_groupdel(n) PROVE UNCHANGED module
  BY <1>6 DEF vxmmd_groupdel
<1>7. ASSUME NEW u \in UserName, NEW g \in GroupName, vxmmd_sgmapadd(u, g) \/ vxmmd_sgmapdel(u, g)
      PROVE  UNCHANGED module
  BY <1>7 DEF vxmmd_sgmapadd, vxmmd_sgmapdel
<1>8. CASE \/ \E ok \in BOOLEAN : vxmmd_usertrav_init(ok) \/ vxmmd_grouptrav_init(ok)
           \/ vxmmd_usertrav_walk \/ vxmmd_usertrav_free
           \/ vxmmd_grouptrav_walk \/ vxmmd_grouptrav_free
  BY <1>8 DEF vxmmd_usertrav_init, vxmmd_usertrav_walk, vxmmd_usertrav_free,
     vxmmd_grouptrav_init, vxmmd_grouptrav_walk, vxmmd_grouptrav_free, TravInit, TravWalk, TravFree
<1>9. CASE WalkWriter \/ WalkReader \/ SkipReader \/ WalkFails \/ WalkEnd
  BY <1>9 DEF WalkWriter, WalkReader, SkipReader, WalkFails, WalkEnd
<1> QED
  BY <1>1, <1>2, <1>3, <1>4, <1>5, <1>6, <1>7, <1>8, <1>9 DEF Using

LEMMA ManagingKeeps == Managing => UNCHANGED <<data, walk>>
  BY DEF Managing, vxmmd_init, vxmmd_open, vxmmd_close, vxmmd_exit, vxmmd_lock, vxmmd_unlock,
     modules_construct, modules_destruct, modules_open, modules_close

LEMMA OrderIs ==
  /\ Len(Readers) \in Nat /\ Len(Order) = Len(Readers) + 1
  /\ \A i \in 1 .. Len(Readers) : Readers[i] \in Modules /\ Order[i] = Readers[i]
  /\ Order[Len(Order)] = Writer /\ (Writer \in Modules <=> Writer # None) /\ None \notin Modules
  /\ \A i \in 1 .. Len(Order) : Order[i] # None => Order[i] \in Modules
  /\ \A m \in Modules : m = Writer \/ \E i \in 1 .. Len(Readers) : m = Readers[i]
  /\ \A m \in Modules : \E i \in 1 .. Len(Order) : m = Order[i]
<1> DEFINE T == Modules \cup {Writer}
<1>1. Readers \in Seq(Modules) /\ Readers \in Seq(T) /\ Writer \in T
  BY MmdAssumption, SeqMonotonic
<1>2. Len(Readers) \in Nat /\ DOMAIN Readers = 1 .. Len(Readers)
  BY <1>1
<1>3. \A i \in 1 .. Len(Readers) : Readers[i] \in Modules /\ Readers[i] # None
  BY <1>1, <1>2, MmdAssumption
<1>4. /\ Len(Order) = Len(Readers) + 1 /\ Order[Len(Readers) + 1] = Writer
      /\ \A i \in 1 .. Len(Readers) : Order[i] = Readers[i]
  <2> HIDE DEF T
  <2> QED
    BY <1>1, AppendProperties DEF Order
<1>5. /\ Writer \in Modules <=> Writer # None
      /\ None \notin Modules
      /\ \A m \in Modules : m = Writer \/ \E i \in 1 .. Len(Readers) : m = Readers[i]
  BY <1>2, <1>3 DEF Modules
<1>6. \A i \in 1 .. Len(Order) : i \in 1 .. Len(Readers) \/ i = Len(Readers) + 1
  BY <1>2, <1>4
<1>7. \A i \in 1 .. Len(Order) : Order[i] # None => Order[i] \in Modules
  <2> HIDE DEF Modules
  <2> QED
    BY <1>3, <1>4, <1>5, <1>6
<1>8. \A m \in Modules : \E i \in 1 .. Len(Order) : m = Order[i]
  <2>1. Len(Readers) + 1 \in 1 .. Len(Order) /\ \A i \in 1 .. Len(Readers) : i \in 1 .. Len(Order)
    BY <1>2, <1>4
  <2> HIDE DEF Modules
  <2> QED
    BY <1>4, <1>5, <2>1
<1> QED
  BY <1>2, <1>3, <1>4, <1>5, <1>7, <1>8

LEMMA ModulesStart == Init => ModulesOK
  BY DEF Init, ModulesOK, States, Each

\* The end of a turn: the module at hand is in the state that the loop brings
\* about, and so are those before it; after the last turn all of them are.
LEMMA TurnIs ==
  ASSUME NEW list, NEW state, NEW next, Len(list) \in Nat, at \in Nat \ {0}, at <= Len(list),
         Passed(list, state), Turn(list, next), NEW m, list[at] = m,
         inst' = inst \/ inst' = [inst EXCEPT ![m] = state],
         inst \in [Modules -> States], m \in Modules => inst'[m] = state
  PROVE  /\ at' \in Nat \ {0}
         /\ \/ phase' = phase /\ at' <= Len(list) /\ Passed(list, state)'
            \/ phase' = next /\ \A j \in 1 .. Len(list) : list[j] \in Modules => inst'[list[j]] = state
<1>1. \A k \in Modules : inst'[k] = inst[k] \/ (k = m /\ inst'[k] = state)
  OBVIOUS
<1>2. ASSUME NEW j \in 1 .. at, list[j] \in Modules PROVE inst'[list[j]] = state
  <2>1. CASE j = at
    BY <1>2, <2>1
  <2>2. CASE j # at
    <3>1. j \in 1 .. at - 1
      BY <2>2
    <3>2. inst[list[j]] = state
      BY <1>2, <3>1 DEF Passed
    <3> QED
      BY <1>1, <1>2, <3>2
  <2> QED
    BY <2>1, <2>2
<1>3. CASE at < Len(list)
  <2>1. at' = at + 1 /\ phase' = phase
    BY <1>3 DEF Turn
  <2>2. at' - 1 = at
    BY <2>1
  <2> QED
    BY <1>2, <1>3, <2>1, <2>2 DEF Passed
<1>4. CASE ~(at < Len(list))
  <2>1. at' = 1 /\ phase' = next /\ at = Len(list)
    BY <1>4 DEF Turn
  <2> QED
    BY <1>2, <2>1
<1> QED
  BY <1>3, <1>4

LEMMA ConstructStep ==
  ASSUME ModulesOK, NEW ok \in BOOLEAN, modules_construct(ok)
  PROVE  ModulesOK'
<1> DEFINE m == Order[at]
<1>1. /\ inst \in [Modules -> States] /\ mh_state = inst /\ at \in Nat \ {0} /\ phase = "loading"
      /\ at <= Len(Order) /\ Passed(Order, "loaded") /\ Each({"out", "loaded"})
      /\ writable' = writable /\ \A w \in writable : w = Writer /\ w \in Modules /\ inst[w] = "open"
  BY DEF modules_construct, ModulesOK
<1>2. writable = {}
  BY <1>1 DEF Each
<1>3. Len(Order) \in Nat /\ Len(Order) > 0 /\ at \in 1 .. Len(Order)
  BY <1>1, OrderIs
<1>4. CASE ok /\ m # None
  <2>1. m \in Modules
    BY <1>3, <1>4, OrderIs
  <2>2. Becomes(m, "loaded") /\ Turn(Order, "loaded")
    BY <1>4 DEF modules_construct
  <2>3. inst' = [inst EXCEPT ![m] = "loaded"] /\ mh_state' = inst' /\ inst'[m] = "loaded"
    BY <1>1, <2>1, <2>2 DEF Becomes
  <2>4. inst' \in [Modules -> States] /\ \A k \in Modules : inst'[k] \in {"out", "loaded"}
    BY <1>1, <2>1, <2>3 DEF States, Each
  <2> HIDE DEF m
  <2>5. /\ at' \in Nat \ {0}
        /\ \/ phase' = "loading" /\ at' <= Len(Order) /\ Passed(Order, "loaded")'
           \/ phase' = "loaded" /\ \A j \in 1 .. Len(Order) : Order[j] \in Modules => inst'[Order[j]] = "loaded"
    BY <1>1, <1>3, <2>2, <2>3, TurnIs DEF m
  <2>6. CASE phase' = "loading" /\ at' <= Len(Order) /\ Passed(Order, "loaded")'
    BY <1>1, <1>2, <2>3, <2>4, <2>5, <2>6 DEF ModulesOK, Each, States
  <2>7. CASE phase' = "loaded" /\ \A j \in 1 .. Len(Order) : Order[j] \in Modules => inst'[Order[j]] = "loaded"
    <3>1. Each({"loaded"})'
      BY <2>7, OrderIs DEF Each
    <3>2. Writer \in Modules
      <4>1. at = Len(Order)
        BY <1>1, <1>3, <2>2, <2>7 DEF Turn
      <4> QED
        BY <1>4, <4>1, OrderIs DEF m
    <3> QED
      BY <1>1, <1>2, <2>3, <2>4, <2>5, <2>7, <3>1, <3>2 DEF ModulesOK, States
  <2> QED
    BY <2>5, <2>6, <2>7
<1>5. CASE ~(ok /\ m # None)
  <2>1. phase' = "unloading" /\ at' = 1 /\ UNCHANGED <<inst, mh_state>>
    BY <1>5 DEF modules_construct, Begin
  <2>2. Passed(Order, "out")'
    BY <2>1 DEF Passed
  <2> QED
    BY <1>1, <1>2, <1>3, <2>1, <2>2 DEF ModulesOK, Each, States
<1> QED
  BY <1>4, <1>5

LEMMA DestructStep ==
  ASSUME ModulesOK, modules_destruct
  PROVE  ModulesOK'
<1> DEFINE m == Order[at]
<1>1. /\ inst \in [Modules -> States] /\ mh_state = inst /\ at \in Nat \ {0} /\ phase = "unloading"
      /\ at <= Len(Order) /\ Passed(Order, "out") /\ Each({"out", "loaded"})
      /\ writable' = writable /\ \A w \in writable : w = Writer /\ w \in Modules /\ inst[w] = "open"
  BY DEF modules_destruct, ModulesOK
<1>2. writable = {}
  BY <1>1 DEF Each
<1>3. Len(Order) \in Nat /\ at \in 1 .. Len(Order) /\ (m \in Modules <=> m # None)
  BY <1>1, OrderIs
<1>4. /\ inst' = inst \/ inst' = [inst EXCEPT ![m] = "out"]
      /\ mh_state' = inst' /\ (m \in Modules => inst'[m] = "out")
      /\ Turn(Order, "out")
  <2>1. CASE m # None /\ mh_state[m] = "loaded"
    <3>1. Becomes(m, "out") /\ Turn(Order, "out")
      BY <2>1 DEF modules_destruct
    <3> QED
      BY <1>1, <1>3, <3>1 DEF Becomes
  <2>2. CASE ~(m # None /\ mh_state[m] = "loaded")
    <3>1. UNCHANGED <<inst, mh_state>> /\ Turn(Order, "out")
      BY <2>2 DEF modules_destruct
    <3> QED
      BY <1>1, <1>3, <2>2, <3>1 DEF Each
  <2> QED
    BY <2>1, <2>2
<1> HIDE DEF m
<1>5. inst' \in [Modules -> States] /\ \A k \in Modules : inst'[k] \in {"out", "loaded"}
  BY <1>1, <1>3, <1>4 DEF States, Each
<1>6. /\ at' \in Nat \ {0}
      /\ \/ phase' = "unloading" /\ at' <= Len(Order) /\ Passed(Order, "out")'
         \/ phase' = "out" /\ \A j \in 1 .. Len(Order) : Order[j] \in Modules => inst'[Order[j]] = "out"
  BY <1>1, <1>3, <1>4, TurnIs DEF m
<1>7. CASE phase' = "unloading" /\ at' <= Len(Order) /\ Passed(Order, "out")'
  BY <1>1, <1>2, <1>4, <1>5, <1>6, <1>7 DEF ModulesOK, Each, States
<1>8. CASE phase' = "out" /\ \A j \in 1 .. Len(Order) : Order[j] \in Modules => inst'[Order[j]] = "out"
  <2>1. Each({"out"})'
    BY <1>8, OrderIs DEF Each
  <2> QED
    BY <1>1, <1>2, <1>4, <1>5, <1>6, <1>8, <2>1 DEF ModulesOK, States
<1> QED
  BY <1>6, <1>7, <1>8

LEMMA OpenStep ==
  ASSUME ModulesOK, NEW write \in BOOLEAN, NEW ok \in BOOLEAN, vxmmd_open(write, ok)
  PROVE  ModulesOK'
<1>1. /\ inst \in [Modules -> States] /\ mh_state = inst /\ at \in Nat \ {0} /\ phase = "loaded"
      /\ Writer \in Modules /\ Each({"loaded"})
  BY DEF vxmmd_open, ModulesOK, States
<1>2. CASE ~ok
  <2>1. UNCHANGED module
    BY <1>2 DEF vxmmd_open
  <2> QED
    BY <2>1 DEF module, ModulesOK, Each, Passed
<1>3. CASE ok
  <2>1. /\ inst' = [inst EXCEPT ![Writer] = "open"] /\ mh_state' = inst' /\ at' = 1
        /\ writable' \subseteq {Writer} /\ phase' = IF Readers = <<>> THEN "open" ELSE "opening"
    BY <1>1, <1>3 DEF vxmmd_open, Becomes, Begin
  <2>2. /\ inst' \in [Modules -> States] /\ inst'[Writer] = "open"
        /\ \A m \in Modules : inst'[m] \in {"loaded", "open"}
    BY <1>1, <2>1 DEF States, Each
  <2>3. CASE Readers = <<>>
    <3>1. \A m \in Modules : m = Writer
      BY <2>3, OrderIs
    <3> QED
      BY <1>1, <2>1, <2>2, <2>3, <3>1 DEF ModulesOK, Each, States
  <2>4. CASE Readers # <<>>
    <3>1. 1 <= Len(Readers)
      <4>1. Readers \in Seq(Modules)
        BY MmdAssumption
      <4> HIDE DEF Modules
      <4> QED
        BY <2>4, <4>1, EmptySeq
    <3>2. Passed(Readers, "open")'
      BY <2>1 DEF Passed
    <3> QED
      BY <1>1, <2>1, <2>2, <2>4, <3>1, <3>2 DEF ModulesOK, Each, States
  <2> QED
    BY <2>3, <2>4
<1> QED
  BY <1>2, <1>3

LEMMA OpeningStep ==
  ASSUME ModulesOK, NEW ok \in BOOLEAN, modules_open(ok)
  PROVE  ModulesOK'
<1> DEFINE m == Readers[at]
<1>1. /\ inst \in [Modules -> States] /\ mh_state = inst /\ at \in Nat \ {0} /\ phase = "opening"
      /\ at <= Len(Readers) /\ Passed(Readers, "open") /\ Each({"loaded", "open"})
      /\ Writer \in Modules /\ inst[Writer] = "open"
      /\ writable' = writable /\ \A w \in writable : w = Writer /\ w \in Modules /\ inst[w] = "open"
  BY DEF modules_open, ModulesOK
<1>2. Len(Readers) \in Nat /\ at \in 1 .. Len(Readers) /\ m \in Modules
  BY <1>1, OrderIs
<1>3. CASE ok
  <2>1. /\ inst' = [inst EXCEPT ![m] = "open"] /\ mh_state' = inst' /\ inst'[m] = "open"
        /\ Turn(Readers, "open")
    BY <1>1, <1>2, <1>3 DEF modules_open, Becomes
  <2>2. /\ inst' \in [Modules -> States] /\ inst'[Writer] = "open"
        /\ \A k \in Modules : inst'[k] \in {"loaded", "open"}
    BY <1>1, <1>2, <2>1 DEF States, Each
  <2> HIDE DEF m
  <2>3. /\ at' \in Nat \ {0}
        /\ \/ phase' = "opening" /\ at' <= Len(Readers) /\ Passed(Readers, "open")'
           \/ /\ phase' = "open"
              /\ \A j \in 1 .. Len(Readers) : Readers[j] \in Modules => inst'[Readers[j]] = "open"
    BY <1>1, <1>2, <2>1, TurnIs DEF m
  <2>4. CASE phase' = "opening" /\ at' <= Len(Readers) /\ Passed(Readers, "open")'
    BY <1>1, <2>1, <2>2, <2>3, <2>4 DEF ModulesOK, Each, States
  <2>5. CASE /\ phase' = "open"
             /\ \A j \in 1 .. Len(Readers) : Readers[j] \in Modules => inst'[Readers[j]] = "open"
    <3>1. Each({"open"})'
      BY <2>2, <2>5, OrderIs DEF Each
    <3> QED
      BY <1>1, <2>1, <2>2, <2>3, <2>5, <3>1 DEF ModulesOK, States
  <2> QED
    BY <2>3, <2>4, <2>5
<1>4. CASE ~ok
  <2>1. phase' = "closing" /\ at' = 1 /\ UNCHANGED <<inst, mh_state>>
    BY <1>4 DEF modules_open, Begin
  <2>2. Passed(Order, "loaded")' /\ 1 <= Len(Order)
    BY <2>1, OrderIs DEF Passed
  <2> QED
    BY <1>1, <2>1, <2>2 DEF ModulesOK, Each, States
<1> QED
  BY <1>3, <1>4

LEMMA ClosingStep ==
  ASSUME ModulesOK, modules_close
  PROVE  ModulesOK'
<1> DEFINE m == Order[at]
<1>1. /\ inst \in [Modules -> States] /\ mh_state = inst /\ at \in Nat \ {0} /\ phase = "closing"
      /\ at <= Len(Order) /\ Passed(Order, "loaded") /\ Each({"loaded", "open"})
      /\ Writer \in Modules /\ \A w \in writable : w = Writer /\ w \in Modules /\ inst[w] = "open"
  BY DEF modules_close, ModulesOK
<1>2. Len(Order) \in Nat /\ at \in 1 .. Len(Order) /\ m \in Modules
  <2>1. at \in 1 .. Len(Order)
    BY <1>1, OrderIs
  <2>2. at \in 1 .. Len(Readers) \/ at = Len(Order)
    BY <2>1, OrderIs
  <2> QED
    BY <1>1, <2>1, <2>2, OrderIs
<1>3. /\ inst' = [inst EXCEPT ![m] = "loaded"] /\ mh_state' = inst' /\ inst'[m] = "loaded"
      /\ writable' \subseteq writable /\ m \notin writable' /\ Turn(Order, "loaded")
  <2>1. mh_state' = [inst EXCEPT ![m] = "loaded"] /\ Turn(Order, "loaded")
    BY <1>1 DEF modules_close
  <2>2. CASE inst[m] = "open"
    BY <1>1, <1>2, <2>1, <2>2 DEF modules_close
  <2>3. CASE inst[m] # "open"
    <3>1. inst[m] = "loaded" /\ inst' = inst /\ writable' = writable
      BY <1>1, <1>2, <2>3 DEF modules_close, Each
    <3>2. [inst EXCEPT ![m] = "loaded"] = inst
      BY <1>1, <1>2, <3>1
    <3> QED
      BY <1>1, <1>2, <2>1, <3>1, <3>2
  <2> QED
    BY <2>2, <2>3
<1>4. /\ inst' \in [Modules -> States] /\ \A k \in Modules : inst'[k] \in {"loaded", "open"}
      /\ \A w \in writable' : w = Writer /\ w \in Modules /\ inst'[w] = "open"
  BY <1>1, <1>2, <1>3 DEF States, Each
<1> HIDE DEF m
<1>5. /\ at' \in Nat \ {0}
      /\ \/ phase' = "closing" /\ at' <= Len(Order) /\ Passed(Order, "loaded")'
         \/ phase' = "loaded" /\ \A j \in 1 .. Len(Order) : Order[j] \in Modules => inst'[Order[j]] = "loaded"
  BY <1>1, <1>2, <1>3, TurnIs DEF m
<1>6. CASE phase' = "closing" /\ at' <= Len(Order) /\ Passed(Order, "loaded")'
  BY <1>1, <1>3, <1>4, <1>5, <1>6 DEF ModulesOK, Each, States
<1>7. CASE phase' = "loaded" /\ \A j \in 1 .. Len(Order) : Order[j] \in Modules => inst'[Order[j]] = "loaded"
  <2>1. Each({"loaded"})'
    BY <1>7, OrderIs DEF Each
  <2> QED
    BY <1>1, <1>3, <1>4, <1>5, <1>7, <2>1 DEF ModulesOK, States
<1> QED
  BY <1>5, <1>6, <1>7

LEMMA ModulesStep == ModulesOK /\ [Next]_vars => ModulesOK'
<1> SUFFICES ASSUME ModulesOK, [Next]_vars PROVE ModulesOK'
  OBVIOUS
<1>0. 1 <= Len(Order)
  BY OrderIs
<1>1. CASE vxmmd_init \/ vxmmd_exit \/ vxmmd_close
  <2>1. /\ UNCHANGED <<inst, mh_state, writable>> /\ at' = 1
        /\ \/ phase = "out" /\ phase' = "loading"
           \/ phase = "loaded" /\ phase' = "unloading"
           \/ phase = "open" /\ phase' = "closing"
    BY <1>1 DEF vxmmd_init, vxmmd_exit, vxmmd_close, Begin
  <2>2. \A list, state : Passed(list, state)'
    BY <2>1 DEF Passed
  <2> QED
    BY <1>0, <2>1, <2>2 DEF ModulesOK, Each, States
<1>2. CASE vxmmd_lock \/ vxmmd_unlock
  <2>1. /\ UNCHANGED <<phase, at, inst, mh_state>> /\ phase = "open"
        /\ writable' \subseteq writable \cup {Writer}
    BY <1>2 DEF vxmmd_lock, vxmmd_unlock
  <2>2. Writer \in Modules /\ inst[Writer] = "open"
    BY <2>1 DEF ModulesOK, Each, States
  <2> QED
    BY <2>1, <2>2 DEF ModulesOK, Each, Passed, States
<1>3. CASE Using \/ UNCHANGED vars
  <2>1. UNCHANGED module
    BY <1>3, UsingKeeps DEF vars
  <2> QED
    BY <2>1 DEF module, ModulesOK, Each, Passed
<1> QED
  BY <1>1, <1>2, <1>3, NextIs, ConstructStep, DestructStep, OpenStep, OpeningStep, ClosingStep DEF Managing

LEMMA ModulesHold == Spec => []ModulesOK
  BY ModulesStart, ModulesStep, PTL DEF Spec

(* Whichever module fails to load or to open, and at whichever turn, the     *)
(* loops that clean up leave all modules unloaded or all of them loaded: in  *)
(* every order of steps the modules are as the handle is, and nothing but    *)
(* the write module is ever open for writing, for any list of read modules.  *)
THEOREM AllLoadedOrNone == Spec => []AllOrNothing
<1>1. ModulesOK => AllOrNothing
  BY DEF ModulesOK, AllOrNothing, Each, States
<1> QED
  BY <1>1, ModulesHold, PTL

-----------------------------------------------------------------------------
(* The lists *)

ListsOK ==
  /\ DOMAIN db = Kinds
  /\ \A k \in Kinds : DOMAIN db[k] = Modules /\ \A m \in Modules : ListOK(db[k][m], k)

\* The list of one kind in the write module is the only one to change.
OneChanged(kind, list) ==
  /\ DOMAIN db' = Kinds /\ \A k \in Kinds : DOMAIN db'[k] = Modules
  /\ db'[kind][Writer] = list
  /\ \A k \in Kinds, m \in Modules : k # kind \/ m # Writer => db'[k][m] = db[k][m]

LEMMA Updated ==
  ASSUME ListsOK, NEW kind \in Kinds, NEW list, Writer \in Modules,
         db' = [db EXCEPT ![kind][Writer] = list]
  PROVE  OneChanged(kind, list)
  BY DEF ListsOK, OneChanged

LEMMA OneChangedOK ==
  ASSUME ListsOK, NEW kind \in Kinds, NEW list, ListOK(list, kind), OneChanged(kind, list)
  PROVE  ListsOK'
  BY DEF ListsOK, OneChanged

\* The four ways in which the lists change
Added(kind, n, id) ==
  /\ n \in Name[kind] /\ n \notin Names(kind, Writer)
  /\ OneChanged(kind, Append(db[kind][Writer], [name |-> n, id |-> id]))

Changed(kind, n, new, id) ==
  /\ new = n \/ new \notin Names(kind, Writer)
  /\ \E i \in DOMAIN db[kind][Writer] :
       /\ db[kind][Writer][i].name = n
       /\ OneChanged(kind, [db[kind][Writer] EXCEPT ![i] = [name |-> new, id |-> id]])

Removed(kind) ==
  /\ trav = None
  /\ \E i \in DOMAIN db[kind][Writer] :
       LET list == db[kind][Writer]
       IN  OneChanged(kind, SubSeq(list, 1, i - 1) \o SubSeq(list, i + 1, Len(list)))

LEMMA AddIs ==
  ASSUME ListsOK, Writer \in Modules, NEW kind \in Kinds, NEW n \in Name[kind], NEW id,
         n \notin Names(kind, Writer), Add(kind, n, id)
  PROVE  Added(kind, n, id)
  BY Updated DEF Add, Added

LEMMA ModifyIs ==
  ASSUME ListsOK, Writer \in Modules, NEW kind \in Kinds, NEW n, NEW new, NEW id, Modify(kind, n, new, id)
  PROVE  Changed(kind, n, new, id)
<1>1. PICK i \in DOMAIN db[kind][Writer] :
        /\ db[kind][Writer][i].name = n
        /\ db' = [db EXCEPT ![kind][Writer][i] = [name |-> new, id |-> id]]
  BY DEF Modify
<1> DEFINE list == [db[kind][Writer] EXCEPT ![i] = [name |-> new, id |-> id]]
<1>2. db' = [db EXCEPT ![kind][Writer] = list]
  BY <1>1
<1> HIDE DEF list
<1>3. OneChanged(kind, list)
  BY <1>2, Updated
<1>4. new = n \/ new \notin Names(kind, Writer)
  BY DEF Modify
<1> QED
  BY <1>1, <1>3, <1>4 DEF Changed, list

LEMMA RemoveIs ==
  ASSUME ListsOK, Writer \in Modules, trav = None, NEW kind \in Kinds, NEW n, Remove(kind, n)
  PROVE  Removed(kind)
<1>1. PICK i \in DOMAIN db[kind][Writer] :
        db' = [db EXCEPT ![kind][Writer] = SubSeq(@, 1, i - 1) \o SubSeq(@, i + 1, Len(@))]
  BY DEF Remove
<1> DEFINE list == db[kind][Writer]
           new == SubSeq(list, 1, i - 1) \o SubSeq(list, i + 1, Len(list))
<1>2. db' = [db EXCEPT ![kind][Writer] = new]
  BY <1>1
<1> HIDE DEF new
<1>3. OneChanged(kind, new)
  BY <1>2, Updated
<1> QED
  BY <1>1, <1>3 DEF Removed, new

ChangeStep(kind) ==
  \/ \E n \in Name[kind], wanted \in Wanted, bad \in SUBSET Modules :
       \E id \in autoid(kind, bad, wanted) : Added(kind, n, id)
  \/ \E n, new \in Name[kind], id \in NewId : Changed(kind, n, new, id)
  \/ Removed(kind)

LEMMA ListsChange ==
  ASSUME ModulesOK, ListsOK, [Next]_vars
  PROVE  \/ UNCHANGED db
         \/ /\ Writer \in Modules /\ phase = "open" /\ ret # "running" /\ UNCHANGED <<module, walk>>
            /\ \E kind \in Kinds : ChangeStep(kind)
<1> DEFINE Goal == \/ UNCHANGED db
                   \/ /\ Writer \in Modules /\ phase = "open" /\ ret # "running"
                      /\ UNCHANGED <<module, walk>>
                      /\ \E kind \in Kinds : ChangeStep(kind)
<1>0. "user" \in Kinds /\ "group" \in Kinds /\ UserName = Name["user"] /\ GroupName = Name["group"]
  BY DEF Kinds, UserName, GroupName
<1>w. phase = "open" => Writer \in Modules
  BY DEF ModulesOK
<1>1. ASSUME NEW n \in UserName, NEW wanted \in Wanted, NEW bad \in SUBSET Modules,
             vxmmd_useradd(n, wanted, bad)
      PROVE  Goal
  <2>1. PICK id \in autoid("user", bad, wanted) : Add("user", n, id)
    BY <1>1 DEF vxmmd_useradd, vxmmd_autouid
  <2>2. /\ phase = "open" /\ ret # "running" /\ UNCHANGED <<module, walk>>
        /\ n \notin Names("user", Writer)
    BY <1>1 DEF vxmmd_useradd, Change, Addable
  <2>3. Added("user", n, id)
    BY <1>0, <1>w, <2>1, <2>2, AddIs
  <2>4. ChangeStep("user")
    BY <1>0, <2>3 DEF ChangeStep
  <2> QED
    BY <1>0, <1>w, <2>2, <2>4
<1>2. ASSUME NEW n \in GroupName, NEW wanted \in Wanted, NEW bad \in SUBSET Modules,
             vxmmd_groupadd(n, wanted, bad)
      PROVE  Goal
  <2>1. PICK id \in autoid("group", bad, wanted) : Add("group", n, id)
    BY <1>2 DEF vxmmd_groupadd, vxmmd_autogid
  <2>2. /\ phase = "open" /\ ret # "running" /\ UNCHANGED <<module, walk>>
        /\ n \notin Names("group", Writer)
    BY <1>2 DEF vxmmd_groupadd, Change, Addable
  <2>3. Added("group", n, id)
    BY <1>0, <1>w, <2>1, <2>2, AddIs
  <2>4. ChangeStep("group")
    BY <1>0, <2>3 DEF ChangeStep
  <2> QED
    BY <1>0, <1>w, <2>2, <2>4
<1>3. ASSUME NEW n \in UserName, NEW new \in UserName, NEW id \in NewId, vxmmd_usermod(n, new, id)
      PROVE  Goal
  <2>1. phase = "open" /\ ret # "running" /\ UNCHANGED <<module, walk>> /\ Modify("user", n, new, id)
    BY <1>3 DEF vxmmd_usermod, Change
  <2>2. Changed("user", n, new, id)
    BY <1>0, <1>w, <2>1, ModifyIs
  <2> QED
    BY <1>0, <1>w, <2>1, <2>2 DEF ChangeStep
<1>4. ASSUME NEW n \in GroupName, NEW new \in GroupName, NEW id \in NewId, vxmmd_groupmod(n, new, id)
      PROVE  Goal
  <2>1. phase = "open" /\ ret # "running" /\ UNCHANGED <<module, walk>> /\ Modify("group", n, new, id)
    BY <1>4 DEF vxmmd_groupmod, Change
  <2>2. Changed("group", n, new, id)
    BY <1>0, <1>w, <2>1, ModifyIs
  <2> QED
    BY <1>0, <1>w, <2>1, <2>2 DEF ChangeStep
<1>5. ASSUME NEW n \in UserName, vxmmd_userdel(n) PROVE Goal
  <2>1. phase = "open" /\ ret # "running" /\ UNCHANGED <<module, walk>> /\ trav = None /\ Remove("user", n)
    BY <1>5 DEF vxmmd_userdel, Change
  <2>2. Removed("user")
    BY <1>0, <1>w, <2>1, RemoveIs
  <2> QED
    BY <1>0, <1>w, <2>1, <2>2 DEF ChangeStep
<1>6. ASSUME NEW n \in GroupName, vxmmd_groupdel(n) PROVE Goal
  <2>1. phase = "open" /\ ret # "running" /\ UNCHANGED <<module, walk>> /\ trav = None /\ Remove("group", n)
    BY <1>6 DEF vxmmd_groupdel, Change
  <2>2. Removed("group")
    BY <1>0, <1>w, <2>1, RemoveIs
  <2> QED
    BY <1>0, <1>w, <2>1, <2>2 DEF ChangeStep
<1>7. ASSUME NEW u \in UserName, NEW g \in GroupName, vxmmd_sgmapadd(u, g) \/ vxmmd_sgmapdel(u, g)
      PROVE  UNCHANGED db
  BY <1>7 DEF vxmmd_sgmapadd, vxmmd_sgmapdel
<1>8. CASE \/ \E ok \in BOOLEAN : vxmmd_usertrav_init(ok) \/ vxmmd_grouptrav_init(ok)
           \/ vxmmd_usertrav_walk \/ vxmmd_usertrav_free
           \/ vxmmd_grouptrav_walk \/ vxmmd_grouptrav_free
  BY <1>8 DEF vxmmd_usertrav_init, vxmmd_usertrav_walk, vxmmd_usertrav_free, data,
     vxmmd_grouptrav_init, vxmmd_grouptrav_walk, vxmmd_grouptrav_free, TravInit, TravWalk, TravFree
<1>9. CASE WalkWriter \/ WalkReader \/ SkipReader \/ WalkFails \/ WalkEnd
  BY <1>9 DEF WalkWriter, WalkReader, SkipReader, WalkFails, WalkEnd, data
<1>10. CASE Managing \/ UNCHANGED vars
  BY <1>10, ManagingKeeps DEF vars, data
<1> QED
  BY <1>1, <1>2, <1>3, <1>4, <1>5, <1>6, <1>7, <1>8, <1>9, <1>10, NextIs DEF Using

LEMMA ListsStart == Init => ListsOK
<1> SUFFICES ASSUME Init, NEW k \in Kinds, NEW m \in Modules PROVE ListOK(InitDb[k][m], k)
  BY MmdAssumption DEF Init, ListsOK
<1>1. InitDb[k][m] \in Seq(Entry(k)) /\ Unique(InitDb[k][m])
  BY MmdAssumption
<1> DEFINE list == InitDb[k][m]
<1>2. \A i \in 1 .. Len(list) : list[i] \in Entry(k)
  BY <1>1
<1>3. \A i \in 1 .. Len(list) : /\ list[i] = [name |-> list[i].name, id |-> list[i].id]
                                /\ list[i].name \in Name[k]
  BY <1>2 DEF Entry
<1> QED
  BY <1>1, <1>3, ListIs

LEMMA ChangeStepOK ==
  ASSUME ListsOK, Writer \in Modules, NEW kind \in Kinds, ChangeStep(kind)
  PROVE  ListsOK'
<1> DEFINE list == db[kind][Writer]
<1>1. ListOK(list, kind)
  BY DEF ListsOK
<1>2. DOMAIN list = 1 .. Len(list)
  BY <1>1, EntriesAre
<1>3. ASSUME NEW n \in Name[kind], NEW id, Added(kind, n, id) PROVE ListsOK'
  <2> DEFINE new == Append(list, [name |-> n, id |-> id])
  <2>1. n \in Name[kind] /\ \A i \in DOMAIN list : list[i].name # n
    BY <1>3 DEF Added, Names
  <2>2. OneChanged(kind, new)
    BY <1>3 DEF Added
  <2>3. ListOK(new, kind)
    BY <1>1, <2>1, ListAdded
  <2> HIDE DEF new
  <2> QED
    BY <2>2, <2>3, OneChangedOK
<1>4. ASSUME NEW n \in Name[kind], NEW nn \in Name[kind], NEW id \in NewId, Changed(kind, n, nn, id)
      PROVE  ListsOK'
  <2>1. PICK i \in DOMAIN list : /\ list[i].name = n
                                 /\ OneChanged(kind, [list EXCEPT ![i] = [name |-> nn, id |-> id]])
    BY <1>4 DEF Changed
  <2> DEFINE new == [list EXCEPT ![i] = [name |-> nn, id |-> id]]
  <2>2. nn = list[i].name \/ \A j \in DOMAIN list : list[j].name # nn
    BY <1>4, <2>1 DEF Changed, Names
  <2>3. ListOK(new, kind)
    BY <1>1, <2>2, ListChanged
  <2> HIDE DEF new
  <2>4. OneChanged(kind, new)
    BY <2>1 DEF new
  <2> QED
    BY <2>3, <2>4, OneChangedOK
<1>5. CASE Removed(kind)
  <2>1. PICK i \in DOMAIN list : OneChanged(kind, SubSeq(list, 1, i - 1) \o SubSeq(list, i + 1, Len(list)))
    BY <1>5 DEF Removed
  <2> DEFINE new == SubSeq(list, 1, i - 1) \o SubSeq(list, i + 1, Len(list))
  <2>2. ListOK(new, kind)
    BY <1>1, <2>1, ListShortened
  <2> HIDE DEF new
  <2>3. OneChanged(kind, new)
    BY <2>1 DEF new
  <2> QED
    BY <2>2, <2>3, OneChangedOK
<1> QED
  BY <1>3, <1>4, <1>5 DEF ChangeStep

LEMMA ListsStep == ModulesOK /\ ListsOK /\ [Next]_vars => ListsOK'
<1> SUFFICES ASSUME ModulesOK, ListsOK, [Next]_vars PROVE ListsOK'
  OBVIOUS
<1>1. CASE UNCHANGED db
  BY <1>1 DEF ListsOK
<1>2. ASSUME Writer \in Modules, NEW kind \in Kinds, ChangeStep(kind) PROVE ListsOK'
  BY <1>2, ChangeStepOK
<1> QED
  BY <1>1, <1>2, ListsChange

LEMMA ListsHold == Spec => []ListsOK
  BY ListsStart, ListsStep, ModulesHold, PTL DEF Spec
-----------------------------------------------------------------------------
(* Looking up *)

LEMMA AskedIs ==
  /\ Len(Readers) \in Nat /\ DOMAIN Readers = 1 .. Len(Readers)
  /\ Len(Asked) = Len(Readers) + 1 /\ DOMAIN Asked = 1 .. Len(Readers) + 1
  /\ Asked[1] = Writer /\ \A i \in 1 .. Len(Readers) : Asked[i + 1] = Readers[i]
<1>1. Readers \in Seq(Modules \cup {Writer}) /\ <<Writer>> \in Seq(Modules \cup {Writer})
  BY MmdAssumption, SeqMonotonic
<1> HIDE DEF Modules
<1>2. Len(Readers) \in Nat /\ DOMAIN Readers = 1 .. Len(Readers) /\ Len(<<Writer>>) = 1 /\ <<Writer>>[1] = Writer
  BY <1>1
<1>3. /\ Asked \in Seq(Modules \cup {Writer}) /\ Len(Asked) = 1 + Len(Readers)
      /\ \A i \in 1 .. 1 + Len(Readers) : Asked[i] = IF i <= 1 THEN <<Writer>>[i] ELSE Readers[i - 1]
  BY <1>1, <1>2, ConcatProperties DEF Asked
<1>4. DOMAIN Asked = 1 .. Len(Readers) + 1 /\ Asked[1] = Writer
  BY <1>2, <1>3
<1>5. ASSUME NEW i \in 1 .. Len(Readers) PROVE Asked[i + 1] = Readers[i]
  <2>1. i + 1 \in 1 .. 1 + Len(Readers) /\ ~(i + 1 <= 1) /\ i + 1 - 1 = i
    BY <1>2
  <2> QED
    BY <1>3, <2>1
<1> QED
  BY <1>2, <1>3, <1>4, <1>5

\* A set of natural numbers that is not empty has a least one.
LEMMA LeastNat ==
  ASSUME NEW I, I \subseteq Nat, I # {}
  PROVE  \E i \in I : \A j \in I : i <= j
<1>1. PICK i \in I : \A j \in I : ~ (<<j, i>> \in OpToRel(<, Nat))
  BY WFMin, NatLessThanWellFounded, Zenon
<1>2. \A j \in I : i <= j
  <2> TAKE j \in I
  <2>1. ~ (j < i)
    BY <1>1 DEF OpToRel
  <2> QED
    BY <2>1
<1> QED
  BY <1>2

LEMMA LeastIs ==
  ASSUME NEW I, I \subseteq Nat, I # {}
  PROVE  LET l == CHOOSE i \in I : \A j \in I : i <= j IN l \in I /\ \A j \in I : l <= j
  BY LeastNat

Having(kind, m, field, value) == {i \in DOMAIN db[kind][m] : db[kind][m][i][field] = value}

Hits(kind, ok, field, value) ==
  {j \in DOMAIN Asked : Asked[j] \in ok /\ Having(kind, Asked[j], field, value) # {}}

LEMMA HavingNat ==
  ASSUME ListsOK, NEW kind \in Kinds, NEW m \in Modules, NEW field, NEW value
  PROVE  Having(kind, m, field, value) \subseteq Nat
<1>1. ListOK(db[kind][m], kind)
  BY DEF ListsOK
<1>2. DOMAIN db[kind][m] \subseteq Nat
  BY <1>1, EntriesAre
<1> QED
  BY <1>2 DEF Having

\* The answer comes from the first module that has such an entry.
LEMMA LookupIs ==
  ASSUME ListsOK, NEW kind \in Kinds, NEW ok \in SUBSET Modules, NEW field, NEW value
  PROVE  /\ Hits(kind, ok, field, value) = {} => Lookup(kind, ok, field, value) = None
         /\ Hits(kind, ok, field, value) # {} =>
              \E j \in Hits(kind, ok, field, value) :
                  /\ \A h \in Hits(kind, ok, field, value) : j <= h
                  /\ \E i \in Having(kind, Asked[j], field, value) :
                       /\ \A h \in Having(kind, Asked[j], field, value) : i <= h
                       /\ Lookup(kind, ok, field, value) = db[kind][Asked[j]][i]
<1> DEFINE hit == Hits(kind, ok, field, value)
           least(S) == CHOOSE i \in S : \A j \in S : i <= j
           first == least(hit)
<1>1. Lookup(kind, ok, field, value) =
        IF hit = {} THEN None ELSE db[kind][Asked[first]][least(Having(kind, Asked[first], field, value))]
  BY DEF Lookup, Having, Hits
<1>2. hit \subseteq Nat
  BY AskedIs DEF Hits
<1> SUFFICES ASSUME hit # {}
             PROVE  \E j \in hit :
                  /\ \A h \in hit : j <= h
                  /\ \E i \in Having(kind, Asked[j], field, value) :
                       /\ \A h \in Having(kind, Asked[j], field, value) : i <= h
                       /\ Lookup(kind, ok, field, value) = db[kind][Asked[j]][i]
  BY <1>1
<1>3. first \in hit /\ \A h \in hit : first <= h
  <2> HIDE DEF hit
  <2> QED
    BY <1>2, LeastIs
<1>4. Asked[first] \in Modules /\ Having(kind, Asked[first], field, value) # {}
  BY <1>3 DEF Hits
<1>5. Having(kind, Asked[first], field, value) \subseteq Nat
  <2> HIDE DEF first
  <2> QED
    BY <1>4, HavingNat
<1> DEFINE H == Having(kind, Asked[first], field, value)
<1>6. least(H) \in H /\ \A h \in H : least(H) <= h
  <2> HIDE DEF H
  <2> QED
    BY <1>4, <1>5, LeastIs DEF H
<1> HIDE DEF hit, first, least
<1> QED
  BY <1>1, <1>3, <1>6

\* What the write module holds is found by its name, and an entry of it by
\* its id.
WrittenFound ==
  \A kind \in Kinds, ok \in SUBSET Modules : Writer \in ok =>
    \A e \in Held(kind) : /\ Lookup(kind, ok, "name", e.name) = e
                          /\ Lookup(kind, ok, "id", e.id) \in Held(kind)

LEMMA WriterFirst ==
  ASSUME ListsOK, NEW kind \in Kinds, NEW ok \in SUBSET Modules, Writer \in ok,
         NEW field, NEW i \in DOMAIN db[kind][Writer]
  PROVE  \E h \in DOMAIN db[kind][Writer] :
           /\ db[kind][Writer][h][field] = db[kind][Writer][i][field]
           /\ Lookup(kind, ok, field, db[kind][Writer][i][field]) = db[kind][Writer][h]
<1> DEFINE value == db[kind][Writer][i][field]
           hit == Hits(kind, ok, field, value)
<1>1. 1 \in hit /\ hit \subseteq 1 .. Len(Readers) + 1 /\ Len(Readers) \in Nat
  BY AskedIs DEF Having, Hits
<1>2. PICK j \in hit :
        /\ \A h \in hit : j <= h
        /\ \E h \in Having(kind, Asked[j], field, value) :
             Lookup(kind, ok, field, value) = db[kind][Asked[j]][h]
  <2>1. hit # {}
    BY <1>1
  <2> HIDE DEF value
  <2> QED
    BY <2>1, LookupIs
<1>3. j = 1
  <2> HIDE DEF hit
  <2> QED
    BY <1>1, <1>2
<1> QED
  BY <1>2, <1>3, AskedIs DEF Having

LEMMA WrittenIsFound == ListsOK => WrittenFound
<1> SUFFICES ASSUME ListsOK, NEW kind \in Kinds, NEW ok \in SUBSET Modules, Writer \in ok, NEW e \in Held(kind)
             PROVE  /\ Lookup(kind, ok, "name", e.name) = e
                    /\ Lookup(kind, ok, "id", e.id) \in Held(kind)
  BY DEF WrittenFound
<1>1. PICK i \in DOMAIN db[kind][Writer] : e = db[kind][Writer][i]
  BY DEF Held
<1>2. Unique(db[kind][Writer])
  BY DEF ListsOK, ListOK
<1>3. PICK h \in DOMAIN db[kind][Writer] :
        /\ db[kind][Writer][h]["name"] = db[kind][Writer][i]["name"]
        /\ Lookup(kind, ok, "name", db[kind][Writer][i]["name"]) = db[kind][Writer][h]
  BY WriterFirst
<1>4. h = i
  BY <1>2, <1>3 DEF Unique
<1>5. \E j \in DOMAIN db[kind][Writer] :
        Lookup(kind, ok, "id", db[kind][Writer][i]["id"]) = db[kind][Writer][j]
  BY WriterFirst
<1> QED
  BY <1>1, <1>3, <1>4, <1>5 DEF Held

MembersOK == sg \in [Modules -> SUBSET (Name["user"] \X Name["group"])]

\* The memberships follow a user or a group that has a new name, or they do not.
LEMMA FollowOK ==
  ASSUME MembersOK, NEW members \in SUBSET (Name["user"] \X Name["group"]), Follow(members)
  PROVE  MembersOK'
<1> DEFINE Pairs == Name["user"] \X Name["group"]
<1>1. members \in SUBSET Pairs /\ sg \in [Modules -> SUBSET Pairs]
  BY DEF MembersOK
<1>2. sg' = sg \/ sg' = [sg EXCEPT ![Writer] = members]
  BY DEF Follow
<1> HIDE DEF Pairs
<1>3. sg' \in [Modules -> SUBSET Pairs]
  BY <1>1, <1>2
<1> QED
  BY <1>3 DEF MembersOK, Pairs

LEMMA MembersHold == Spec => []MembersOK
<1>1. Init => MembersOK
  BY MmdAssumption DEF Init, MembersOK
<1>2. ModulesOK /\ MembersOK /\ [Next]_vars => MembersOK'
  <2> SUFFICES ASSUME ModulesOK, MembersOK, [Next]_vars PROVE MembersOK'
    OBVIOUS
  <2>0. phase = "open" => Writer \in Modules
    BY DEF ModulesOK
  <2>1. ASSUME NEW u \in UserName, NEW g \in GroupName, vxmmd_sgmapadd(u, g) PROVE MembersOK'
    <3> DEFINE Pairs == Name["user"] \X Name["group"]
    <3>1. <<u, g>> \in Pairs /\ sg \in [Modules -> SUBSET Pairs]
      BY DEF UserName, GroupName, MembersOK
    <3>2. sg' = [sg EXCEPT ![Writer] = @ \cup {<<u, g>>}]
      BY <2>1 DEF vxmmd_sgmapadd
    <3> HIDE DEF Pairs
    <3>3. sg' \in [Modules -> SUBSET Pairs]
      BY <3>1, <3>2
    <3> QED
      BY <3>3 DEF MembersOK, Pairs
  <2>2. ASSUME NEW u \in UserName, NEW g \in GroupName, vxmmd_sgmapdel(u, g) PROVE MembersOK'
    BY <2>2 DEF vxmmd_sgmapdel, MembersOK
  <2>3. ASSUME NEW n \in UserName, NEW wanted \in Wanted, NEW bad \in SUBSET Modules,
               vxmmd_useradd(n, wanted, bad)
        PROVE  MembersOK'
    BY <2>3 DEF vxmmd_useradd, MembersOK
  <2>4. ASSUME NEW n \in GroupName, NEW wanted \in Wanted, NEW bad \in SUBSET Modules,
               vxmmd_groupadd(n, wanted, bad)
        PROVE  MembersOK'
    BY <2>4 DEF vxmmd_groupadd, MembersOK
  <2>5. ASSUME NEW n \in UserName, NEW new \in UserName, NEW id \in NewId, vxmmd_usermod(n, new, id)
        PROVE  MembersOK'
    <3>1. Follow({<<IF p[1] = n THEN new ELSE p[1], p[2]>> : p \in sg[Writer]}) /\ Writer \in Modules
      BY <2>0, <2>5 DEF vxmmd_usermod, Change
    <3>2. {<<IF p[1] = n THEN new ELSE p[1], p[2]>> : p \in sg[Writer]}
            \in SUBSET (Name["user"] \X Name["group"])
      BY <3>1 DEF MembersOK, UserName
    <3> QED
      BY <3>1, <3>2, FollowOK
  <2>6. ASSUME NEW n \in GroupName, NEW new \in GroupName, NEW id \in NewId, vxmmd_groupmod(n, new, id)
        PROVE  MembersOK'
    <3>1. Follow({<<p[1], IF p[2] = n THEN new ELSE p[2]>> : p \in sg[Writer]}) /\ Writer \in Modules
      BY <2>0, <2>6 DEF vxmmd_groupmod, Change
    <3>2. {<<p[1], IF p[2] = n THEN new ELSE p[2]>> : p \in sg[Writer]}
            \in SUBSET (Name["user"] \X Name["group"])
      BY <3>1 DEF MembersOK, GroupName
    <3> QED
      BY <3>1, <3>2, FollowOK
  <2>7. ASSUME NEW n \in UserName, vxmmd_userdel(n) PROVE MembersOK'
    BY <2>7 DEF vxmmd_userdel, MembersOK
  <2>8. ASSUME NEW n \in GroupName, vxmmd_groupdel(n) PROVE MembersOK'
    BY <2>8 DEF vxmmd_groupdel, MembersOK
  <2>9. CASE \/ \E ok \in BOOLEAN : vxmmd_usertrav_init(ok) \/ vxmmd_grouptrav_init(ok)
             \/ vxmmd_usertrav_walk \/ vxmmd_usertrav_free
             \/ vxmmd_grouptrav_walk \/ vxmmd_grouptrav_free
    BY <2>9 DEF vxmmd_usertrav_init, vxmmd_usertrav_walk, vxmmd_usertrav_free, data, MembersOK,
       vxmmd_grouptrav_init, vxmmd_grouptrav_walk, vxmmd_grouptrav_free, TravInit, TravWalk, TravFree
  <2>10. CASE WalkWriter \/ WalkReader \/ SkipReader \/ WalkFails \/ WalkEnd
    BY <2>10 DEF WalkWriter, WalkReader, SkipReader, WalkFails, WalkEnd, data, MembersOK
  <2>11. CASE Managing \/ UNCHANGED vars
    BY <2>11, ManagingKeeps DEF vars, data, MembersOK
  <2> QED
    BY <2>1, <2>2, <2>3, <2>4, <2>5, <2>6, <2>7, <2>8, <2>9, <2>10, <2>11, NextIs DEF Using
<1> QED
  BY <1>1, <1>2, ModulesHold, PTL DEF Spec

(* What a caller has just added, renamed or changed it reads back at once, by *)
(* name, by id and as a member of a group, whatever the read modules hold    *)
(* and whichever of them fail.                                               *)
THEOREM WritesVisible == Spec => ChangesVisible
<1> DEFINE Shown == \A ok \in SUBSET Modules : Writer \in ok =>
       /\ \A e \in Held("user")' \ Held("user") :
            vxmmd_getpwnam(e.name, ok)' = e /\ vxmmd_getpwuid(e.id, ok)' \in Held("user")'
       /\ \A e \in Held("group")' \ Held("group") :
            vxmmd_getgrnam(e.name, ok)' = e /\ vxmmd_getgrgid(e.id, ok)' \in Held("group")'
       /\ \A p \in sg'[Writer] \ sg[Writer] : <<Writer, p[2]>> \in vxmmd_sgmapget(p[1], ok)'
<1>1. ListsOK' => WrittenFound'
  BY WrittenIsFound, PTL
<1>2. WrittenFound' /\ MembersOK' => [Shown]_vars
  <2> SUFFICES ASSUME WrittenFound', MembersOK', NEW ok \in SUBSET Modules, Writer \in ok
               PROVE  /\ \A e \in Held("user")' : /\ vxmmd_getpwnam(e.name, ok)' = e
                                                  /\ vxmmd_getpwuid(e.id, ok)' \in Held("user")'
                      /\ \A e \in Held("group")' : /\ vxmmd_getgrnam(e.name, ok)' = e
                                                   /\ vxmmd_getgrgid(e.id, ok)' \in Held("group")'
                      /\ \A p \in sg'[Writer] : <<Writer, p[2]>> \in vxmmd_sgmapget(p[1], ok)'
    OBVIOUS
  <2>1. "user" \in Kinds /\ "group" \in Kinds
    BY DEF Kinds
  <2>2. ASSUME NEW e \in Held("user")'
        PROVE  vxmmd_getpwnam(e.name, ok)' = e /\ vxmmd_getpwuid(e.id, ok)' \in Held("user")'
    BY <2>1 DEF WrittenFound, vxmmd_getpwnam, vxmmd_getpwuid
  <2>3. ASSUME NEW e \in Held("group")'
        PROVE  vxmmd_getgrnam(e.name, ok)' = e /\ vxmmd_getgrgid(e.id, ok)' \in Held("group")'
    BY <2>1 DEF WrittenFound, vxmmd_getgrnam, vxmmd_getgrgid
  <2>4. ASSUME NEW p \in sg'[Writer] PROVE <<Writer, p[2]>> \in vxmmd_sgmapget(p[1], ok)'
    <3>1. p \in Name["user"] \X Name["group"]
      BY DEF MembersOK
    <3>2. p = <<p[1], p[2]>> /\ p[2] \in Name["group"]
      BY <3>1
    <3> QED
      BY <3>2 DEF vxmmd_sgmapget
  <2> QED
    BY <2>2, <2>3, <2>4
<1>3. ListsOK' /\ MembersOK' => [Shown]_vars
  BY <1>1, <1>2
<1> QED
  BY <1>3, ListsHold, MembersHold, PTL DEF ChangesVisible, Spec
-----------------------------------------------------------------------------
(* Traversals *)

WalkOK ==
  /\ trav # None => /\ phase = "open" /\ trav \in Trav
                    /\ trav.wr_mod => /\ trav.itrav \in Iter /\ trav.itrav.live
                                      /\ trav.itrav.mod = Writer
  /\ ret \in {"none", "running", "entry", "end", "error"}
  /\ ret = "running" => trav # None
  /\ ret = "end" => trav # None /\ ~trav.wr_mod /\ trav.rd_mod > Len(Readers)

LEMMA IterUpdated ==
  ASSUME NEW it \in Iter
  PROVE  /\ Advanced(it) = [mod |-> it.mod, pos |-> it.pos + 1, live |-> it.live]
         /\ Freed(it) = [mod |-> it.mod, pos |-> it.pos, live |-> FALSE]
         /\ Advanced(it) \in Iter /\ Freed(it) \in Iter
         /\ Advanced(it).mod = it.mod /\ Advanced(it).live = it.live /\ Advanced(it).pos = it.pos + 1
         /\ ~Freed(it).live
<1>1. /\ it = [mod |-> it.mod, pos |-> it.pos, live |-> it.live]
      /\ it.mod \in Modules /\ it.pos \in Nat \ {0} /\ it.live \in BOOLEAN
  BY DEF Iter
<1>2. Advanced(it) = [mod |-> it.mod, pos |-> it.pos + 1, live |-> it.live]
  BY <1>1 DEF Advanced
<1>3. Freed(it) = [mod |-> it.mod, pos |-> it.pos, live |-> FALSE]
  <2>1. Freed(it).mod = it.mod /\ Freed(it).pos = it.pos /\ Freed(it).live = FALSE
    BY DEF Freed, Iter
  <2>2. Freed(it) \in Iter
    BY DEF Freed, Iter
  <2> QED
    BY <2>1, <2>2 DEF Iter
<1>4. it.pos + 1 \in Nat \ {0} /\ FALSE \in BOOLEAN
  BY <1>1
<1>5. Advanced(it).mod = it.mod /\ Advanced(it).live = it.live /\ Advanced(it).pos = it.pos + 1
  BY DEF Advanced, Iter
<1>6. ~Freed(it).live
  BY DEF Freed, Iter
<1>7. Advanced(it) \in Iter /\ Freed(it) \in Iter
  BY <1>1, <1>2, <1>3, <1>4 DEF Iter
<1> QED
  BY <1>2, <1>3, <1>5, <1>6, <1>7

LEMMA NewIter ==
  ASSUME NEW m \in Modules
  PROVE  NewTraverser(m) \in Iter
  BY DEF NewTraverser, Iter

LEMMA TravUpdated ==
  ASSUME NEW t \in Trav, NEW it \in Iter \cup {None}, NEW r \in 1 .. Len(Readers) + 1
  PROVE  /\ [t EXCEPT !.itrav = it] = [kind |-> t.kind, itrav |-> it, rd_mod |-> t.rd_mod, wr_mod |-> t.wr_mod]
         /\ [t EXCEPT !.wr_mod = FALSE, !.itrav = it] =
              [kind |-> t.kind, itrav |-> it, rd_mod |-> t.rd_mod, wr_mod |-> FALSE]
         /\ [t EXCEPT !.itrav = it, !.rd_mod = r] =
              [kind |-> t.kind, itrav |-> it, rd_mod |-> r, wr_mod |-> t.wr_mod]
         /\ [t EXCEPT !.itrav = it] \in Trav
         /\ [t EXCEPT !.wr_mod = FALSE, !.itrav = it] \in Trav
         /\ [t EXCEPT !.itrav = it, !.rd_mod = r] \in Trav
<1>1. /\ t = [kind |-> t.kind, itrav |-> t.itrav, rd_mod |-> t.rd_mod, wr_mod |-> t.wr_mod]
      /\ t.kind \in Kinds /\ t.rd_mod \in 1 .. Len(Readers) + 1 /\ t.wr_mod \in BOOLEAN
  BY DEF Trav
<1>2. ASSUME NEW u \in Trav
      PROVE  [u EXCEPT !.itrav = it] =
               [kind |-> u.kind, itrav |-> it, rd_mod |-> u.rd_mod, wr_mod |-> u.wr_mod]
  <2>1. u = [kind |-> u.kind, itrav |-> u.itrav, rd_mod |-> u.rd_mod, wr_mod |-> u.wr_mod]
    BY DEF Trav
  <2> QED
    BY <2>1
<1>3. ASSUME NEW u \in Trav
      PROVE  [u EXCEPT !.wr_mod = FALSE] =
               [kind |-> u.kind, itrav |-> u.itrav, rd_mod |-> u.rd_mod, wr_mod |-> FALSE]
  <2> DEFINE w == [u EXCEPT !.wr_mod = FALSE]
  <2>1. w.kind = u.kind /\ w.itrav = u.itrav /\ w.rd_mod = u.rd_mod /\ w.wr_mod = FALSE
    BY DEF Trav
  <2>2. w \in Trav
    BY DEF Trav
  <2> HIDE DEF w
  <2>3. w = [kind |-> w.kind, itrav |-> w.itrav, rd_mod |-> w.rd_mod, wr_mod |-> w.wr_mod]
    BY <2>2 DEF Trav
  <2> QED
    BY <2>1, <2>3 DEF w
<1>4. [t EXCEPT !.wr_mod = FALSE, !.itrav = it] =
        [kind |-> t.kind, itrav |-> it, rd_mod |-> t.rd_mod, wr_mod |-> FALSE]
  <2> DEFINE u == [t EXCEPT !.wr_mod = FALSE]
  <2>1. u = [kind |-> t.kind, itrav |-> t.itrav, rd_mod |-> t.rd_mod, wr_mod |-> FALSE]
    BY <1>3
  <2>2. u \in Trav
    BY DEF Trav
  <2> HIDE DEF u
  <2>3. [u EXCEPT !.itrav = it] = [kind |-> u.kind, itrav |-> it, rd_mod |-> u.rd_mod, wr_mod |-> u.wr_mod]
    BY <1>2, <2>2
  <2>4. u.kind = t.kind /\ u.rd_mod = t.rd_mod /\ u.wr_mod = FALSE
    BY <2>1
  <2> QED
    BY <2>3, <2>4 DEF u
<1>5. [t EXCEPT !.itrav = it, !.rd_mod = r] =
        [kind |-> t.kind, itrav |-> it, rd_mod |-> r, wr_mod |-> t.wr_mod]
  <2> DEFINE u == [t EXCEPT !.itrav = it]
  <2>1. u = [kind |-> t.kind, itrav |-> it, rd_mod |-> t.rd_mod, wr_mod |-> t.wr_mod]
    BY <1>2
  <2> HIDE DEF u
  <2>2. [u EXCEPT !.rd_mod = r] = [kind |-> t.kind, itrav |-> it, rd_mod |-> r, wr_mod |-> t.wr_mod]
    BY <2>1
  <2> QED
    BY <2>2 DEF u
<1> QED
  BY <1>1, <1>2, <1>4, <1>5 DEF Trav

\* The steps of a traversal: it begins, a walk function is called, the call
\* returns an entry, finds the end of a list, skips a module, fails, finds the
\* end of the last list, and the traverser is freed.
Began(kind, ok) ==
  /\ phase = "open" /\ trav = None
  /\ trav' = [kind |-> kind, itrav |-> IF ok THEN NewTraverser(Writer) ELSE None,
              rd_mod |-> 1, wr_mod |-> ok]
  /\ ret' = "none" /\ skipped' = IF ok THEN {} ELSE {Writer}
  /\ due' = Entries(kind, Modules) /\ seen' = <<>> /\ UNCHANGED <<db, phase>>

Called ==
  /\ trav # None /\ ret \in {"none", "entry"} /\ ret' = "running"
  /\ UNCHANGED <<db, phase, trav, skipped, due, seen>>

Gives(it) ==
  /\ ret = "running" /\ it \in Iter /\ it.live /\ ~Exhausted(it)
  /\ trav' = [kind |-> trav.kind, itrav |-> Advanced(it), rd_mod |-> trav.rd_mod, wr_mod |-> trav.wr_mod]
  /\ seen' = Append(seen, [mod |-> it.mod, pos |-> it.pos, name |-> Current(it).name])
  /\ ret' = "entry"
  /\ UNCHANGED <<db, phase, skipped, due>>

WriterEnds ==
  /\ ret = "running" /\ trav.wr_mod /\ Exhausted(trav.itrav)
  /\ trav' = [kind |-> trav.kind, itrav |-> None, rd_mod |-> trav.rd_mod, wr_mod |-> FALSE]
  /\ UNCHANGED <<db, phase, ret, skipped, due, seen>>

ReaderEnds ==
  /\ AtReader /\ Traverser \in Iter
  /\ ~(Traverser.live /\ ~Exhausted(Traverser))
  /\ trav' = [kind |-> trav.kind, itrav |-> Freed(Traverser), rd_mod |-> trav.rd_mod + 1, wr_mod |-> FALSE]
  /\ UNCHANGED <<db, phase, ret, skipped, due, seen>>

Skips ==
  /\ AtReader /\ trav.itrav = None
  /\ trav' = [kind |-> trav.kind, itrav |-> None, rd_mod |-> trav.rd_mod + 1, wr_mod |-> FALSE]
  /\ skipped' = skipped \cup {Readers[trav.rd_mod]}
  /\ UNCHANGED <<db, phase, ret, due, seen>>

Fails ==
  /\ ret = "running" /\ ret' = "error"
  /\ \/ trav' = trav
     \/ /\ AtReader /\ Traverser \in Iter
        /\ trav' = [kind |-> trav.kind, itrav |-> Traverser, rd_mod |-> trav.rd_mod, wr_mod |-> FALSE]
  /\ UNCHANGED <<db, phase, skipped, due, seen>>

Ends ==
  /\ ret = "running" /\ ~trav.wr_mod /\ trav.rd_mod > Len(Readers) /\ ret' = "end"
  /\ UNCHANGED <<db, phase, trav, skipped, due, seen>>

Frees == trav' = None /\ ret' = "none" /\ UNCHANGED <<db, phase>>

WalkStep ==
  \/ UNCHANGED walk /\ (trav # None => UNCHANGED phase)
  \/ \E kind \in Kinds, ok \in BOOLEAN : Began(kind, ok)
  \/ Called
  \/ trav.wr_mod /\ Gives(trav.itrav)
  \/ AtReader /\ Gives(Traverser)
  \/ WriterEnds \/ ReaderEnds \/ Skips \/ Fails \/ Ends \/ Frees

LEMMA TraverserIs ==
  ASSUME WalkOK, trav # None, trav.rd_mod <= Len(Readers)
  PROVE  /\ Traverser \in Iter /\ trav.rd_mod \in 1 .. Len(Readers)
         /\ trav.itrav = None => Traverser = [mod |-> Readers[trav.rd_mod], pos |-> 1, live |-> TRUE]
         /\ trav.itrav # None => Traverser = trav.itrav
<1>1. trav.rd_mod \in 1 .. Len(Readers) /\ trav.itrav \in Iter \cup {None}
  BY AskedIs DEF WalkOK, Trav
<1>2. Readers[trav.rd_mod] \in Modules
  BY <1>1, MmdAssumption
<1>3. NewTraverser(Readers[trav.rd_mod]) \in Iter
  BY <1>2, NewIter
<1> QED
  BY <1>1, <1>3 DEF Traverser, NewTraverser

LEMMA WalkWriterIs ==
  ASSUME WalkOK, WalkWriter
  PROVE  WalkStep
<1>1. /\ trav # None /\ trav \in Trav /\ trav.wr_mod /\ ret = "running"
      /\ trav.itrav \in Iter /\ trav.itrav.live
  BY DEF WalkOK, WalkWriter
<1>2. UNCHANGED <<db, phase, skipped, due>>
  BY DEF WalkWriter, module, data
<1>3. CASE Exhausted(trav.itrav)
  <2>1. trav' = [trav EXCEPT !.wr_mod = FALSE, !.itrav = None] /\ UNCHANGED <<seen, ret>>
    BY <1>3 DEF WalkWriter
  <2>2. trav.rd_mod \in 1 .. Len(Readers) + 1
    BY <1>1 DEF Trav
  <2>3. trav' = [kind |-> trav.kind, itrav |-> None, rd_mod |-> trav.rd_mod, wr_mod |-> FALSE]
    BY <1>1, <2>1, <2>2, TravUpdated
  <2>4. WriterEnds
    BY <1>1, <1>2, <1>3, <2>1, <2>3 DEF WriterEnds
  <2> QED
    BY <2>4 DEF WalkStep
<1>4. CASE ~Exhausted(trav.itrav)
  <2>1. Return(trav.itrav)
    BY <1>4 DEF WalkWriter
  <2>2. trav.rd_mod \in 1 .. Len(Readers) + 1 /\ Advanced(trav.itrav) \in Iter \cup {None}
    BY <1>1, IterUpdated DEF Trav
  <2>3. trav' = [kind |-> trav.kind, itrav |-> Advanced(trav.itrav), rd_mod |-> trav.rd_mod,
                 wr_mod |-> trav.wr_mod]
    BY <1>1, <2>1, <2>2, TravUpdated DEF Return
  <2>4. Gives(trav.itrav)
    BY <1>1, <1>2, <1>4, <2>1, <2>3 DEF Gives, Return
  <2> QED
    BY <1>1, <2>4 DEF WalkStep
<1> QED
  BY <1>3, <1>4

\* What a step at a reader begins with
LEMMA AtReaderIs ==
  ASSUME WalkOK, AtReader
  PROVE  /\ trav # None /\ trav \in Trav /\ ret = "running" /\ trav.wr_mod = FALSE
         /\ Traverser \in Iter /\ trav.rd_mod \in 1 .. Len(Readers) /\ Len(Readers) \in Nat
         /\ trav.rd_mod + 1 \in 1 .. Len(Readers) + 1
<1>1. trav # None /\ trav \in Trav /\ ~trav.wr_mod /\ trav.rd_mod <= Len(Readers) /\ ret = "running"
  BY DEF WalkOK, AtReader
<1>2. trav.wr_mod = FALSE
  BY <1>1 DEF Trav
<1>3. Traverser \in Iter /\ trav.rd_mod \in 1 .. Len(Readers)
  BY <1>1, TraverserIs
<1> QED
  BY <1>1, <1>2, <1>3, AskedIs

LEMMA WalkReaderIs ==
  ASSUME WalkOK, WalkReader
  PROVE  WalkStep
<1>0. AtReader
  BY DEF WalkReader
<1>1. /\ trav \in Trav /\ ret = "running" /\ trav.wr_mod = FALSE
      /\ Traverser \in Iter /\ trav.rd_mod \in 1 .. Len(Readers)
      /\ trav.rd_mod + 1 \in 1 .. Len(Readers) + 1
  BY <1>0, AtReaderIs
<1>2. UNCHANGED <<db, phase, skipped, due>>
  BY DEF WalkReader, module, data
<1>3. CASE ~(Traverser.live /\ ~Exhausted(Traverser))
  <2>1. /\ trav' = [trav EXCEPT !.itrav = Freed(Traverser), !.rd_mod = trav.rd_mod + 1]
        /\ UNCHANGED <<seen, ret>>
    BY <1>3 DEF WalkReader
  <2>2. Freed(Traverser) \in Iter \cup {None}
    BY <1>1, IterUpdated
  <2>3. trav' = [kind |-> trav.kind, itrav |-> Freed(Traverser), rd_mod |-> trav.rd_mod + 1,
                 wr_mod |-> trav.wr_mod]
    BY <1>1, <2>1, <2>2, TravUpdated
  <2>4. ReaderEnds
    BY <1>0, <1>1, <1>2, <1>3, <2>1, <2>3 DEF ReaderEnds
  <2> QED
    BY <2>4 DEF WalkStep
<1>4. CASE Traverser.live /\ ~Exhausted(Traverser)
  <2>1. Return(Traverser)
    BY <1>4 DEF WalkReader
  <2>2. trav.rd_mod \in 1 .. Len(Readers) + 1 /\ Advanced(Traverser) \in Iter \cup {None}
    BY <1>1, IterUpdated DEF Trav
  <2>3. trav' = [kind |-> trav.kind, itrav |-> Advanced(Traverser), rd_mod |-> trav.rd_mod,
                 wr_mod |-> trav.wr_mod]
    BY <1>1, <2>1, <2>2, TravUpdated DEF Return
  <2>4. Gives(Traverser)
    BY <1>1, <1>2, <1>4, <2>1, <2>3 DEF Gives, Return
  <2> QED
    BY <1>0, <2>4 DEF WalkStep
<1> QED
  BY <1>3, <1>4

LEMMA SkipReaderIs ==
  ASSUME WalkOK, SkipReader
  PROVE  WalkStep
<1>0. AtReader /\ trav.itrav = None /\ trav' = [trav EXCEPT !.rd_mod = trav.rd_mod + 1]
  BY DEF SkipReader
<1>1. trav \in Trav /\ trav.wr_mod = FALSE
  BY <1>0, AtReaderIs
<1>2. trav = [kind |-> trav.kind, itrav |-> trav.itrav, rd_mod |-> trav.rd_mod, wr_mod |-> trav.wr_mod]
  BY <1>1 DEF Trav
<1> DEFINE r == trav.rd_mod + 1
<1>3. trav' = [kind |-> trav.kind, itrav |-> trav.itrav, rd_mod |-> r, wr_mod |-> trav.wr_mod]
  <2>1. trav' = [trav EXCEPT !.rd_mod = r]
    BY <1>0
  <2> HIDE DEF r
  <2> QED
    BY <1>2, <2>1
<1>4. trav' = [kind |-> trav.kind, itrav |-> None, rd_mod |-> trav.rd_mod + 1, wr_mod |-> FALSE]
  BY <1>0, <1>1, <1>3
<1>5. Skips
  BY <1>0, <1>4 DEF SkipReader, Skips, module, data
<1> QED
  BY <1>5 DEF WalkStep

LEMMA WalkFailsIs ==
  ASSUME WalkOK, WalkFails
  PROVE  WalkStep
<1>1. /\ AtReader \/ (ret = "running" /\ trav.wr_mod)
      /\ trav' = [trav EXCEPT !.itrav = Traverser] /\ ret' = "error"
      /\ UNCHANGED <<db, phase, skipped, due, seen>>
  BY DEF WalkFails, module, data
<1>2. CASE AtReader
  <2>1. /\ trav \in Trav /\ ret = "running" /\ trav.wr_mod = FALSE
        /\ Traverser \in Iter /\ trav.rd_mod \in 1 .. Len(Readers) + 1
    BY <1>2, AtReaderIs DEF Trav
  <2>2. trav' = [kind |-> trav.kind, itrav |-> Traverser, rd_mod |-> trav.rd_mod, wr_mod |-> trav.wr_mod]
    BY <1>1, <2>1, TravUpdated
  <2>3. Fails
    BY <1>1, <1>2, <2>1, <2>2 DEF Fails
  <2> QED
    BY <2>3 DEF WalkStep
<1>3. CASE ret = "running" /\ trav.wr_mod
  <2>1. /\ trav \in Trav /\ trav.itrav \in Iter
    BY <1>3 DEF WalkOK
  <2>2. trav.itrav # None
    BY <2>1, MmdAssumption
  <2>3. Traverser = trav.itrav
    BY <2>2 DEF Traverser
  <2>4. trav' = trav
    BY <1>1, <2>1, <2>3 DEF Trav
  <2>5. Fails
    BY <1>1, <1>3, <2>4 DEF Fails
  <2> QED
    BY <2>5 DEF WalkStep
<1> QED
  BY <1>1, <1>2, <1>3

LEMMA WalkCases ==
  ASSUME ModulesOK, ListsOK, WalkOK, [Next]_vars
  PROVE  WalkStep
<1>1. ASSUME NEW ok \in BOOLEAN, vxmmd_usertrav_init(ok) \/ vxmmd_grouptrav_init(ok) PROVE WalkStep
  <2>1. PICK kind \in Kinds : TravInit(kind, ok)
    BY <1>1 DEF vxmmd_usertrav_init, vxmmd_grouptrav_init, Kinds
  <2>2. Began(kind, ok)
    BY <2>1 DEF TravInit, Began, data, module
  <2> QED
    BY <2>2 DEF WalkStep
<1>2. CASE vxmmd_usertrav_walk \/ vxmmd_grouptrav_walk
  BY <1>2 DEF vxmmd_usertrav_walk, vxmmd_grouptrav_walk, TravWalk, WalkStep, Called, data, module
<1>3. CASE vxmmd_usertrav_free \/ vxmmd_grouptrav_free
  BY <1>3 DEF vxmmd_usertrav_free, vxmmd_grouptrav_free, TravFree, WalkStep, Frees, data, module
<1>4. CASE WalkWriter \/ WalkReader \/ SkipReader \/ WalkFails
  BY <1>4, WalkWriterIs, WalkReaderIs, SkipReaderIs, WalkFailsIs
<1>5. CASE WalkEnd
  BY <1>5 DEF WalkEnd, WalkStep, Ends, data, module
<1>6. CASE Managing
  <2>1. UNCHANGED walk
    BY <1>6, ManagingKeeps
  <2>2. trav # None => UNCHANGED phase
    BY <1>6 DEF Managing, vxmmd_init, vxmmd_open, vxmmd_close, vxmmd_exit, vxmmd_lock, vxmmd_unlock,
       modules_construct, modules_destruct, modules_open, modules_close, Begin, WalkOK
  <2> QED
    BY <2>1, <2>2 DEF WalkStep
<1>7. CASE UNCHANGED vars
  BY <1>7 DEF vars, module, walk, WalkStep
<1>8. ASSUME UNCHANGED <<module, walk>> PROVE WalkStep
  BY <1>8 DEF module, WalkStep
<1>9. ASSUME NEW n \in UserName, NEW wanted \in Wanted, NEW bad \in SUBSET Modules,
             vxmmd_useradd(n, wanted, bad)
      PROVE  WalkStep
  BY <1>8, <1>9 DEF vxmmd_useradd
<1>10. ASSUME NEW n \in GroupName, NEW wanted \in Wanted, NEW bad \in SUBSET Modules,
              vxmmd_groupadd(n, wanted, bad)
       PROVE  WalkStep
  BY <1>8, <1>10 DEF vxmmd_groupadd
<1>11. ASSUME NEW n \in UserName, NEW new \in UserName, NEW id \in NewId, vxmmd_usermod(n, new, id)
       PROVE  WalkStep
  BY <1>8, <1>11 DEF vxmmd_usermod
<1>12. ASSUME NEW n \in GroupName, NEW new \in GroupName, NEW id \in NewId, vxmmd_groupmod(n, new, id)
       PROVE  WalkStep
  BY <1>8, <1>12 DEF vxmmd_groupmod
<1>13. ASSUME NEW n \in UserName, vxmmd_userdel(n) PROVE WalkStep
  BY <1>8, <1>13 DEF vxmmd_userdel
<1>14. ASSUME NEW n \in GroupName, vxmmd_groupdel(n) PROVE WalkStep
  BY <1>8, <1>14 DEF vxmmd_groupdel
<1>15. ASSUME NEW u \in UserName, NEW g \in GroupName, vxmmd_sgmapadd(u, g) \/ vxmmd_sgmapdel(u, g)
       PROVE  WalkStep
  BY <1>8, <1>15 DEF vxmmd_sgmapadd, vxmmd_sgmapdel
<1> QED
  BY <1>1, <1>2, <1>3, <1>4, <1>5, <1>6, <1>7, <1>9, <1>10, <1>11, <1>12, <1>13, <1>14, <1>15,
     NextIs DEF Using

LEMMA WalkHolds == Spec => []WalkOK
<1>1. Init => WalkOK
  BY DEF Init, WalkOK
<1>2. ModulesOK /\ ListsOK /\ WalkOK /\ [Next]_vars => WalkOK'
  <2> SUFFICES ASSUME ModulesOK, ListsOK, WalkOK, [Next]_vars PROVE WalkOK'
    OBVIOUS
  <2>1. CASE UNCHANGED walk /\ (trav # None => UNCHANGED phase)
    BY <2>1 DEF walk, WalkOK
  <2>2. ASSUME NEW kind \in Kinds, NEW ok \in BOOLEAN, Began(kind, ok) PROVE WalkOK'
    <3>1. Writer \in Modules
      BY <2>2 DEF Began, ModulesOK
    <3>2. NewTraverser(Writer) \in Iter /\ NewTraverser(Writer).live /\ NewTraverser(Writer).mod = Writer
      BY <3>1, NewIter DEF NewTraverser
    <3>3. 1 \in 1 .. Len(Readers) + 1
      BY AskedIs
    <3>4. trav' \in Trav
      BY <2>2, <3>2, <3>3 DEF Began, Trav
    <3>5. trav'.wr_mod = ok /\ trav'.itrav = IF ok THEN NewTraverser(Writer) ELSE None
      BY <2>2 DEF Began
    <3>6. phase' = "open" /\ ret' = "none"
      BY <2>2 DEF Began
    <3> QED
      BY <3>2, <3>4, <3>5, <3>6 DEF WalkOK
  <2>3. CASE Called
    BY <2>3 DEF Called, WalkOK
  <2>4. CASE trav.wr_mod /\ Gives(trav.itrav)
    <3>1. trav # None /\ trav \in Trav /\ trav.itrav \in Iter /\ trav.itrav.live /\ trav.itrav.mod = Writer
      BY <2>4 DEF WalkOK, Gives
    <3>2. /\ Advanced(trav.itrav) \in Iter /\ Advanced(trav.itrav).live
          /\ Advanced(trav.itrav).mod = Writer
      BY <3>1, IterUpdated
    <3> QED
      BY <2>4, <3>1, <3>2 DEF Gives, WalkOK, Trav
  <2>5. CASE AtReader /\ Gives(Traverser)
    <3>1. trav # None /\ trav \in Trav /\ Traverser \in Iter /\ trav.wr_mod = FALSE
      BY <2>5, AtReaderIs
    <3>2. Advanced(Traverser) \in Iter
      BY <3>1, IterUpdated
    <3> QED
      BY <2>5, <3>1, <3>2 DEF Gives, WalkOK, Trav
  <2>6. ASSUME trav \in Trav, NEW it \in Iter \cup {None}, NEW r \in 1 .. Len(Readers) + 1,
               trav' = [kind |-> trav.kind, itrav |-> it, rd_mod |-> r, wr_mod |-> FALSE],
               trav # None, phase' = phase, ret = "running", ret' \in {"running", "error"}
        PROVE  WalkOK'
    <3>1. trav' \in Trav /\ ~trav'.wr_mod
      BY <2>6 DEF Trav
    <3>2. trav' # None
      BY <3>1, MmdAssumption
    <3> QED
      BY <2>6, <3>1, <3>2 DEF WalkOK
  <2>7. CASE WriterEnds
    <3>1. trav # None /\ trav \in Trav /\ trav.rd_mod \in 1 .. Len(Readers) + 1
      BY <2>7 DEF WriterEnds, WalkOK, Trav
    <3> QED
      BY <2>6, <2>7, <3>1 DEF WriterEnds
  <2>8. CASE ReaderEnds
    <3>1. trav # None /\ trav \in Trav /\ Traverser \in Iter /\ trav.rd_mod + 1 \in 1 .. Len(Readers) + 1
      BY <2>8, AtReaderIs DEF ReaderEnds
    <3>2. Freed(Traverser) \in Iter
      BY <3>1, IterUpdated
    <3> QED
      BY <2>6, <2>8, <3>1, <3>2 DEF ReaderEnds, AtReader
  <2>9. CASE Skips
    <3>1. trav # None /\ trav \in Trav /\ trav.rd_mod + 1 \in 1 .. Len(Readers) + 1
      BY <2>9, AtReaderIs DEF Skips
    <3> QED
      BY <2>6, <2>9, <3>1 DEF Skips, AtReader
  <2>10. CASE Fails
    <3>1. CASE trav' = trav
      BY <2>10, <3>1 DEF Fails, WalkOK
    <3>2. CASE trav' # trav
      <4>1. /\ AtReader /\ Traverser \in Iter
            /\ trav' = [kind |-> trav.kind, itrav |-> Traverser, rd_mod |-> trav.rd_mod, wr_mod |-> FALSE]
        BY <2>10, <3>2 DEF Fails
      <4>2. trav # None /\ trav \in Trav /\ trav.rd_mod \in 1 .. Len(Readers) + 1
        BY <4>1, AtReaderIs DEF Trav
      <4> QED
        BY <2>6, <2>10, <4>1, <4>2 DEF Fails
    <3> QED
      BY <3>1, <3>2
  <2>11. CASE Ends
    BY <2>11 DEF Ends, WalkOK
  <2>12. CASE Frees
    BY <2>12 DEF Frees, WalkOK
  <2> QED
    BY <2>1, <2>2, <2>3, <2>4, <2>5, <2>7, <2>8, <2>9, <2>10, <2>11, <2>12, WalkCases DEF WalkStep
<1> QED
  BY <1>1, <1>2, ModulesHold, ListsHold, PTL DEF Spec

-----------------------------------------------------------------------------
(* One list after the other *)

\* h[i]: the first i of the lists b
Concats(h, b, n) == h = [i \in 0 .. n |-> IF i = 0 THEN <<>> ELSE h[i - 1] \o b[i]]

LEMMA ConcatsExist == ASSUME NEW b, NEW n \in Nat PROVE \E h : Concats(h, b, n)
<1> DEFINE next(i, list) == list \o b[i]
           bad == {k \in Nat : ~ \E h : Concats(h, b, k)}
<1> SUFFICES ASSUME bad # {} PROVE FALSE
  OBVIOUS
<1>1. PICK k \in bad : \A j \in bad : k <= j
  <2>1. bad \subseteq Nat
    OBVIOUS
  <2> HIDE DEF bad
  <2> QED
    BY <2>1, LeastNat
<1>2. k \in Nat /\ ~ \E h : Concats(h, b, k)
  OBVIOUS
<1>3. k # 0
  <2> SUFFICES ASSUME k = 0 PROVE FALSE
    OBVIOUS
  <2> DEFINE h == [i \in 0 .. 0 |-> <<>>]
  <2>1. \A i \in 0 .. 0 : i = 0
    OBVIOUS
  <2>2. h = [i \in 0 .. 0 |-> IF i = 0 THEN <<>> ELSE next(i, h[i - 1])]
    BY <2>1
  <2>3. Concats(h, b, 0)
    BY <2>2 DEF Concats
  <2> QED
    BY <1>2, <2>3
<1>4. k - 1 \in Nat /\ k - 1 \notin bad
  BY <1>1, <1>2, <1>3
<1>5. PICK h : Concats(h, b, k - 1)
  BY <1>4
<1>6. \A i \in 0 .. k - 1 : h[i] = IF i = 0 THEN <<>> ELSE next(i, h[i - 1])
  BY <1>5 DEF Concats
<1> HIDE DEF next
<1> DEFINE f == [i \in 0 .. k |-> IF i = k THEN next(k, h[k - 1]) ELSE h[i]]
<1>7. ASSUME NEW i \in 0 .. k
      PROVE  f[i] = IF i = 0 THEN <<>> ELSE next(i, f[i - 1])
  <2>1. CASE i = k
    <3>1. k - 1 \in 0 .. k /\ k - 1 # k
      BY <1>2, <1>3
    <3>2. f[k - 1] = h[k - 1]
      BY <3>1
    <3> QED
      BY <1>3, <2>1, <3>2
  <2>2. CASE i # k
    <3>1. i \in 0 .. k - 1
      BY <1>2, <2>2
    <3>2. h[i] = IF i = 0 THEN <<>> ELSE next(i, h[i - 1])
      BY <1>6, <3>1
    <3>3. i # 0 => i - 1 \in 0 .. k /\ i - 1 # k
      BY <1>2, <3>1
    <3>4. f[i] = h[i] /\ (i # 0 => f[i - 1] = h[i - 1])
      BY <2>2, <3>3
    <3> QED
      BY <3>2, <3>4
  <2> QED
    BY <2>1, <2>2
<1>8. f = [i \in 0 .. k |-> f[i]]
  OBVIOUS
<1> HIDE DEF f
<1>9. f = [i \in 0 .. k |-> IF i = 0 THEN <<>> ELSE next(i, f[i - 1])]
  BY <1>7, <1>8
<1>10. Concats(f, b, k)
  BY <1>9 DEF Concats, next
<1> QED
  BY <1>2, <1>10

\* h[i]: the sum of the first i of the numbers b
Sums(h, b, n) == h = [i \in 0 .. n |-> IF i = 0 THEN 0 ELSE h[i - 1] + b[i]]

LEMMA SumsExist == ASSUME NEW b, NEW n \in Nat PROVE \E h : Sums(h, b, n)
<1> DEFINE next(i, sum) == sum + b[i]
           bad == {k \in Nat : ~ \E h : Sums(h, b, k)}
<1> SUFFICES ASSUME bad # {} PROVE FALSE
  OBVIOUS
<1>1. PICK k \in bad : \A j \in bad : k <= j
  <2>1. bad \subseteq Nat
    OBVIOUS
  <2> HIDE DEF bad
  <2> QED
    BY <2>1, LeastNat
<1>2. k \in Nat /\ ~ \E h : Sums(h, b, k)
  OBVIOUS
<1>3. k # 0
  <2> SUFFICES ASSUME k = 0 PROVE FALSE
    OBVIOUS
  <2> DEFINE h == [i \in 0 .. 0 |-> 0]
  <2>1. \A i \in 0 .. 0 : i = 0
    OBVIOUS
  <2>2. h = [i \in 0 .. 0 |-> IF i = 0 THEN 0 ELSE next(i, h[i - 1])]
    BY <2>1
  <2>3. Sums(h, b, 0)
    BY <2>2 DEF Sums
  <2> QED
    BY <1>2, <2>3
<1>4. k - 1 \in Nat /\ k - 1 \notin bad
  BY <1>1, <1>2, <1>3
<1>5. PICK h : Sums(h, b, k - 1)
  BY <1>4
<1>6. \A i \in 0 .. k - 1 : h[i] = IF i = 0 THEN 0 ELSE next(i, h[i - 1])
  BY <1>5 DEF Sums
<1> HIDE DEF next
<1> DEFINE f == [i \in 0 .. k |-> IF i = k THEN next(k, h[k - 1]) ELSE h[i]]
<1>7. ASSUME NEW i \in 0 .. k
      PROVE  f[i] = IF i = 0 THEN 0 ELSE next(i, f[i - 1])
  <2>1. CASE i = k
    <3>1. k - 1 \in 0 .. k /\ k - 1 # k
      BY <1>2, <1>3
    <3>2. f[k - 1] = h[k - 1]
      BY <3>1
    <3> QED
      BY <1>3, <2>1, <3>2
  <2>2. CASE i # k
    <3>1. i \in 0 .. k - 1
      BY <1>2, <2>2
    <3>2. h[i] = IF i = 0 THEN 0 ELSE next(i, h[i - 1])
      BY <1>6, <3>1
    <3>3. i # 0 => i - 1 \in 0 .. k /\ i - 1 # k
      BY <1>2, <3>1
    <3>4. f[i] = h[i] /\ (i # 0 => f[i - 1] = h[i - 1])
      BY <2>2, <3>3
    <3> QED
      BY <3>2, <3>4
  <2> QED
    BY <2>1, <2>2
<1>8. f = [i \in 0 .. k |-> f[i]]
  OBVIOUS
<1> HIDE DEF f
<1>9. f = [i \in 0 .. k |-> IF i = 0 THEN 0 ELSE next(i, f[i - 1])]
  BY <1>7, <1>8
<1>10. Sums(f, b, k)
  BY <1>9 DEF Sums, next
<1> QED
  BY <1>2, <1>10

LEMMA JoinedIs ==
  ASSUME NEW b, Len(b) \in Nat
  PROVE  \E c : Concats(c, b, Len(b)) /\ Joined(b) = c[Len(b)]
<1> DEFINE n == Len(b)
           c == CHOOSE f : f = [i \in 0 .. n |-> IF i = 0 THEN <<>> ELSE f[i - 1] \o b[i]]
<1>1. \E h : h = [i \in 0 .. n |-> IF i = 0 THEN <<>> ELSE h[i - 1] \o b[i]]
  <2> HIDE DEF n
  <2> QED
    BY ConcatsExist DEF Concats, n
<1>2. c = [i \in 0 .. n |-> IF i = 0 THEN <<>> ELSE c[i - 1] \o b[i]]
  BY <1>1
<1>3. Joined(b) = c[n]
  BY DEF Joined
<1> HIDE DEF c
<1>4. Concats(c, b, n)
  BY <1>2 DEF Concats
<1> QED
  BY <1>3, <1>4

LEMMA ConcatsSteps ==
  ASSUME NEW b, NEW n \in Nat, NEW c, Concats(c, b, n)
  PROVE  c[0] = <<>> /\ \A i \in 1 .. n : c[i] = c[i - 1] \o b[i]
<1>1. c = [i \in 0 .. n |-> IF i = 0 THEN <<>> ELSE c[i - 1] \o b[i]]
  BY DEF Concats
<1>2. 0 \in 0 .. n /\ \A i \in 1 .. n : i \in 0 .. n /\ i # 0
  OBVIOUS
<1>3. c[0] = <<>>
  BY <1>1, <1>2
<1>4. \A i \in 1 .. n : c[i] = c[i - 1] \o b[i]
  BY <1>1, <1>2
<1> QED
  BY <1>3, <1>4

\* Every entry of list is one of s.
Includes(s, list) == \A j \in DOMAIN list : \E i \in DOMAIN s : s[i] = list[j]

LEMMA ConcatIncludes ==
  ASSUME NEW S, NEW s \in Seq(S), NEW t \in Seq(S)
  PROVE  /\ s \o t \in Seq(S)
         /\ \A list : Includes(s, list) \/ Includes(t, list) => Includes(s \o t, list)
         /\ Includes(t, t)
<1> DEFINE u == s \o t
<1>1. Len(s) \in Nat /\ Len(t) \in Nat /\ DOMAIN s = 1 .. Len(s) /\ DOMAIN t = 1 .. Len(t)
  OBVIOUS
<1>2. /\ u \in Seq(S) /\ Len(u) = Len(s) + Len(t) /\ DOMAIN u = 1 .. Len(s) + Len(t)
      /\ \A i \in 1 .. Len(s) + Len(t) : u[i] = IF i <= Len(s) THEN s[i] ELSE t[i - Len(s)]
  BY ConcatProperties
<1> HIDE DEF u
<1>3. \A i \in DOMAIN s : i \in DOMAIN u /\ u[i] = s[i]
  BY <1>1, <1>2
<1>4. ASSUME NEW i \in DOMAIN t PROVE Len(s) + i \in DOMAIN u /\ u[Len(s) + i] = t[i]
  <2>1. Len(s) + i \in 1 .. Len(s) + Len(t) /\ ~(Len(s) + i <= Len(s)) /\ Len(s) + i - Len(s) = i
    BY <1>1
  <2> QED
    BY <1>2, <2>1
<1>5. ASSUME NEW list, Includes(s, list) \/ Includes(t, list) PROVE Includes(u, list)
  BY <1>3, <1>4, <1>5 DEF Includes
<1> QED
  BY <1>2, <1>5 DEF u, Includes

LEMMA JoinedHas ==
  ASSUME NEW S, NEW b, Len(b) \in Nat, \A j \in 1 .. Len(b) : b[j] \in Seq(S)
  PROVE  Joined(b) \in Seq(S) /\ \A j \in 1 .. Len(b) : Includes(Joined(b), b[j])
<1> DEFINE N == Len(b)
<1>1. PICK c : Concats(c, b, N) /\ Joined(b) = c[N]
  BY JoinedIs
<1>2. c[0] = <<>> /\ \A i \in 1 .. N : c[i] = c[i - 1] \o b[i]
  BY <1>1, ConcatsSteps
<1> DEFINE Good(n) == c[n] \in Seq(S) /\ \A j \in 1 .. n : Includes(c[n], b[j])
           bad == {n \in 0 .. N : ~Good(n)}
<1>3. ASSUME bad # {} PROVE FALSE
  <2>1. PICK n \in bad : \A j \in bad : n <= j
    <3>1. bad \subseteq Nat
      OBVIOUS
    <3> HIDE DEF bad
    <3> QED
      BY <1>3, <3>1, LeastNat
  <2>2. n \in 0 .. N /\ ~Good(n)
    OBVIOUS
  <2>3. n # 0
    <3>1. Good(0)
      BY <1>2
    <3> HIDE DEF Good
    <3> QED
      BY <2>2, <3>1
  <2>4. n - 1 \in 0 .. N /\ n \in 1 .. N /\ n - 1 < n
    BY <2>2, <2>3
  <2>5. Good(n - 1)
    <3>1. n - 1 \notin bad
      BY <2>1, <2>4
    <3> HIDE DEF Good
    <3> QED
      BY <2>4, <3>1
  <2> DEFINE s == c[n - 1]
             t == b[n]
  <2>6. s \in Seq(S) /\ t \in Seq(S) /\ c[n] = s \o t
    BY <1>2, <2>4, <2>5
  <2>7. \A j \in 1 .. n : (j = n /\ b[j] = t) \/ Includes(s, b[j])
    <3>1. \A j \in 1 .. n : j = n \/ j \in 1 .. n - 1
      BY <2>4
    <3> QED
      BY <2>5, <3>1
  <2> HIDE DEF s, t
  <2>8. s \o t \in Seq(S) /\ \A j \in 1 .. n : Includes(s \o t, b[j])
    BY <2>6, <2>7, ConcatIncludes
  <2> QED
    BY <2>2, <2>6, <2>8
<1>4. N \in 0 .. N
  OBVIOUS
<1> HIDE DEF N
<1>5. Good(N)
  BY <1>3, <1>4
<1> QED
  BY <1>1, <1>5 DEF N

LEMMA JoinedShort ==
  ASSUME NEW S, NEW b, \A j \in 1 .. Len(b) : b[j] \in Seq(S)
  PROVE  /\ Len(b) = 1 => Joined(b) = b[1]
         /\ Len(b) = 2 => Joined(b) = b[1] \o b[2]
<1>1. ASSUME Len(b) \in {1, 2}
      PROVE  \E c : c[1] = b[1] /\ Joined(b) = c[Len(b)] /\ (Len(b) = 2 => c[2] = c[1] \o b[2])
  <2>0. Len(b) \in Nat
    BY <1>1
  <2>1. PICK c : Concats(c, b, Len(b)) /\ Joined(b) = c[Len(b)]
    BY <2>0, JoinedIs
  <2>2. c[0] = <<>> /\ \A i \in 1 .. Len(b) : c[i] = c[i - 1] \o b[i]
    BY <2>0, <2>1, ConcatsSteps
  <2>3. 1 \in 1 .. Len(b) /\ 1 - 1 = 0 /\ 2 - 1 = 1
    BY <1>1
  <2>4. c[1] = <<>> \o b[1] /\ b[1] \in Seq(S)
    BY <2>2, <2>3
  <2>5. c[1] = b[1]
    BY <2>4, ConcatEmptySeq
  <2>6. Len(b) = 2 => c[2] = c[1] \o b[2]
    BY <2>2, <2>3
  <2> QED
    BY <2>1, <2>5, <2>6
<1> QED
  BY <1>1

\* What each module adds to the combined list, to what a traversal returns and
\* to the count, if it is in ok
Given(kind, ok)   == [j \in 1 .. Len(Readers) + 1 |-> IF Asked[j] \in ok THEN db[kind][Asked[j]] ELSE <<>>]
Shown(kind, ok)   == [j \in 1 .. Len(Readers) + 1 |-> IF Asked[j] \in ok THEN Places(kind, Asked[j]) ELSE <<>>]
Counted(kind, ok) == [j \in 1 .. Len(Readers) + 1 |-> IF Asked[j] \in ok THEN Len(db[kind][Asked[j]]) ELSE 0]

LEMMA CombinedIs ==
  ASSUME NEW kind, NEW ok
  PROVE  /\ Combined(kind, ok, Len(Asked)) = Joined(Given(kind, ok))
         /\ Entries(kind, ok) = Joined(Shown(kind, ok))
         /\ Len(Given(kind, ok)) = Len(Readers) + 1 /\ Len(Shown(kind, ok)) = Len(Readers) + 1
<1>1. Combined(kind, ok, Len(Asked)) = Joined(Given(kind, ok))
  BY AskedIs DEF Combined, Given
<1>2. Entries(kind, ok) = Joined(Shown(kind, ok))
  BY AskedIs DEF Entries, Shown
<1>3. Len(Readers) + 1 \in Nat
  BY AskedIs
<1>4. Len(Given(kind, ok)) = Len(Readers) + 1
  BY <1>3 DEF Given
<1>5. Len(Shown(kind, ok)) = Len(Readers) + 1
  BY <1>3 DEF Shown
<1> QED
  BY <1>1, <1>2, <1>4, <1>5

LEMMA CountIs ==
  ASSUME NEW kind, NEW ok
  PROVE  \E t : /\ Sums(t, Counted(kind, ok), Len(Readers) + 1)
                /\ vxmmd_modctl_count(kind, ok) = t[Len(Readers) + 1]
<1> DEFINE n == Len(Readers) + 1
           b == Counted(kind, ok)
           t == CHOOSE f : f = [i \in 0 .. n |-> IF i = 0 THEN 0
                                  ELSE f[i - 1] + IF Asked[i] \in ok THEN Len(db[kind][Asked[i]]) ELSE 0]
<1>0. n \in Nat /\ Len(Asked) = n
  BY AskedIs
<1>1. PICK h : Sums(h, b, n)
  BY <1>0, SumsExist
<1>2. \A i \in 0 .. n : i = 0 \/ b[i] = IF Asked[i] \in ok THEN Len(db[kind][Asked[i]]) ELSE 0
  <2>1. \A i \in 0 .. n : i = 0 \/ i \in 1 .. n
    BY <1>0
  <2> QED
    BY <2>1 DEF Counted
<1> HIDE DEF b
<1>3. h = [i \in 0 .. n |-> IF i = 0 THEN 0 ELSE h[i - 1] + b[i]]
  BY <1>1 DEF Sums
<1>4. h = [i \in 0 .. n |-> IF i = 0 THEN 0
                            ELSE h[i - 1] + IF Asked[i] \in ok THEN Len(db[kind][Asked[i]]) ELSE 0]
  BY <1>2, <1>3
<1>5. t = [i \in 0 .. n |-> IF i = 0 THEN 0
                            ELSE t[i - 1] + IF Asked[i] \in ok THEN Len(db[kind][Asked[i]]) ELSE 0]
  BY <1>4
<1>6. vxmmd_modctl_count(kind, ok) = t[n]
  BY <1>0 DEF vxmmd_modctl_count
<1> HIDE DEF t
<1>7. t = [i \in 0 .. n |-> IF i = 0 THEN 0 ELSE t[i - 1] + b[i]]
  BY <1>2, <1>5
<1> QED
  BY <1>6, <1>7 DEF Sums, b

-----------------------------------------------------------------------------
(* The three ways of reading *)

Where(s, x) == {i \in DOMAIN s : s[i].name = x}

\* v is the first entry of that name.
First(s, x, v) == \E p \in Where(s, x) : s[p] = v /\ \A q \in Where(s, x) : p <= q

LEMMA FirstOfConcat ==
  ASSUME NEW S, NEW s \in Seq(S), NEW t \in Seq(S), NEW x
  PROVE  /\ \A v : First(s, x, v) => First(s \o t, x, v)
         /\ Where(s, x) = {} => \A v : First(t, x, v) => First(s \o t, x, v)
         /\ Where(s, x) = {} /\ Where(t, x) = {} => Where(s \o t, x) = {}
<1> DEFINE u == s \o t
<1>1. /\ Len(s) \in Nat /\ Len(t) \in Nat /\ DOMAIN s = 1 .. Len(s) /\ DOMAIN t = 1 .. Len(t)
  OBVIOUS
<1>2. /\ Len(u) = Len(s) + Len(t) /\ DOMAIN u = 1 .. Len(s) + Len(t)
      /\ \A i \in 1 .. Len(s) + Len(t) : u[i] = IF i <= Len(s) THEN s[i] ELSE t[i - Len(s)]
  BY ConcatProperties
<1> HIDE DEF u
<1>3. \A i \in Where(u, x) : i \in Where(s, x) \/ (i > Len(s) /\ i - Len(s) \in Where(t, x))
  <2> SUFFICES ASSUME NEW i \in Where(u, x)
               PROVE  i \in Where(s, x) \/ (i > Len(s) /\ i - Len(s) \in Where(t, x))
    OBVIOUS
  <2>1. i \in 1 .. Len(s) + Len(t) /\ u[i].name = x
    BY <1>2 DEF Where
  <2>2. CASE i <= Len(s)
    BY <1>1, <1>2, <2>1, <2>2 DEF Where
  <2>3. CASE i > Len(s)
    <3>1. i - Len(s) \in 1 .. Len(t) /\ u[i] = t[i - Len(s)]
      BY <1>1, <1>2, <2>1, <2>3
    <3> QED
      BY <1>1, <2>1, <2>3, <3>1 DEF Where
  <2> QED
    BY <1>1, <2>1, <2>2, <2>3
<1>4. \A i \in Where(s, x) : i \in Where(u, x) /\ u[i] = s[i] /\ i <= Len(s) /\ i \in Nat
  BY <1>1, <1>2 DEF Where
<1>5. \A i \in Where(t, x) : Len(s) + i \in Where(u, x) /\ u[Len(s) + i] = t[i] /\ i \in Nat
  <2> SUFFICES ASSUME NEW i \in Where(t, x)
               PROVE  Len(s) + i \in Where(u, x) /\ u[Len(s) + i] = t[i] /\ i \in Nat
    OBVIOUS
  <2>1. i \in 1 .. Len(t) /\ t[i].name = x
    BY <1>1 DEF Where
  <2>2. Len(s) + i \in 1 .. Len(s) + Len(t) /\ ~(Len(s) + i <= Len(s)) /\ Len(s) + i - Len(s) = i
    BY <1>1, <2>1
  <2> DEFINE k == Len(s) + i
  <2>3. k \in 1 .. Len(s) + Len(t) /\ ~(k <= Len(s)) /\ k - Len(s) = i /\ i \in Nat
    BY <2>1, <2>2
  <2> HIDE DEF k
  <2>4. u[k] = t[i]
    BY <1>2, <2>3
  <2>5. k \in Where(u, x)
    BY <1>2, <2>1, <2>3, <2>4 DEF Where
  <2> QED
    BY <2>3, <2>4, <2>5 DEF k
<1>6. ASSUME NEW v, First(s, x, v) PROVE First(u, x, v)
  <2>1. PICK p \in Where(s, x) : s[p] = v /\ \A q \in Where(s, x) : p <= q
    BY <1>6 DEF First
  <2>2. ASSUME NEW q \in Where(u, x) PROVE p <= q
    <3>1. q \in Nat /\ p \in Nat /\ p <= Len(s)
      BY <1>2, <1>4, <2>1 DEF Where
    <3>2. q \in Where(s, x) \/ q > Len(s)
      BY <1>3
    <3> QED
      BY <1>1, <2>1, <3>1, <3>2
  <2> QED
    BY <1>4, <2>1, <2>2 DEF First
<1>7. ASSUME Where(s, x) = {}, NEW v, First(t, x, v) PROVE First(u, x, v)
  <2>1. PICK p \in Where(t, x) : t[p] = v /\ \A q \in Where(t, x) : p <= q
    BY <1>7 DEF First
  <2>2. ASSUME NEW q \in Where(u, x) PROVE Len(s) + p <= q
    <3>1. q > Len(s) /\ q - Len(s) \in Where(t, x)
      BY <1>3, <1>7
    <3>2. q \in Nat /\ p \in Nat
      BY <1>2, <1>5 DEF Where
    <3>3. p <= q - Len(s)
      BY <2>1, <3>1
    <3> QED
      BY <1>1, <3>2, <3>3
  <2> QED
    BY <1>5, <2>1, <2>2 DEF First
<1>8. Where(s, x) = {} /\ Where(t, x) = {} => Where(u, x) = {}
  BY <1>3
<1> QED
  BY <1>6, <1>7, <1>8 DEF u

LEMMA WhereFirst ==
  ASSUME NEW S, NEW s \in Seq(S), NEW x, Where(s, x) # {}
  PROVE  \E v : First(s, x, v)
<1>1. Where(s, x) \subseteq Nat
  BY DEF Where
<1>2. PICK p \in Where(s, x) : \A q \in Where(s, x) : p <= q
  BY <1>1, LeastNat
<1> QED
  BY <1>2 DEF First

\* The entries of all modules, and what a traversal may return
All(kind) == UNION {{db[kind][m][j] : j \in DOMAIN db[kind][m]} : m \in Modules}
Place == [mod : Modules, pos : Nat \ {0}, name : UNION {Name[k] : k \in Kinds}]

LEMMA ListTypes ==
  ASSUME ListsOK, NEW kind \in Kinds, NEW m \in Modules
  PROVE  /\ db[kind][m] \in Seq(All(kind))
         /\ Len(db[kind][m]) \in Nat /\ DOMAIN db[kind][m] = 1 .. Len(db[kind][m])
         /\ Places(kind, m) \in Seq(Place) /\ Len(Places(kind, m)) = Len(db[kind][m])
         /\ \A i \in 1 .. Len(db[kind][m]) :
              /\ Places(kind, m)[i].mod = m /\ Places(kind, m)[i].pos = i
              /\ Places(kind, m)[i].name = db[kind][m][i].name
<1> DEFINE list == db[kind][m]
           places == Places(kind, m)
<1>1. ListOK(list, kind)
  BY DEF ListsOK
<1>2. /\ Len(list) \in Nat /\ DOMAIN list = 1 .. Len(list)
      /\ \A i \in 1 .. Len(list) : list[i].name \in Name[kind]
  BY <1>1, EntriesAre
<1>3. list \in Seq(All(kind))
  <2>1. \A i \in 1 .. Len(list) : list[i] \in All(kind)
    BY <1>2 DEF All
  <2>2. list = [i \in 1 .. Len(list) |-> list[i]]
    BY <1>1 DEF ListOK
  <2> DEFINE T == All(kind)
  <2> HIDE DEF T, list
  <2>3. \A i \in 1 .. Len(list) : list[i] \in T
    BY <2>1 DEF T
  <2>4. [i \in 1 .. Len(list) |-> list[i]] \in Seq(T)
    BY <1>2, <2>3
  <2> QED
    BY <2>2, <2>4 DEF T
<1>4. \A i \in 1 .. Len(list) : [mod |-> m, pos |-> i, name |-> list[i].name] \in Place
  BY <1>2 DEF Place
<1>5. places = [i \in 1 .. Len(list) |-> [mod |-> m, pos |-> i, name |-> list[i].name]]
  BY <1>2 DEF Places
<1>6. places \in Seq(Place) /\ Len(places) = Len(list)
  <2>1. \A i \in 1 .. Len(list) : places[i] \in Place
    BY <1>4, <1>5
  <2>2. places \in [1 .. Len(list) -> Place]
    BY <1>5, <2>1
  <2> HIDE DEF places
  <2> QED
    BY <1>2, <2>2
<1>7. \A i \in 1 .. Len(list) : places[i].mod = m /\ places[i].pos = i /\ places[i].name = list[i].name
  BY <1>5
<1> QED
  BY <1>2, <1>3, <1>6, <1>7

\* Two lists of lists with the same names at the same places, and a list of
\* their lengths: put together, the first n of each are as long as each other,
\* with the same names, ...
Alike(S, T, c, e, t, n) ==
  /\ c[n] \in Seq(S) /\ e[n] \in Seq(T)
  /\ Len(e[n]) = Len(c[n]) /\ t[n] = Len(c[n])
  /\ \A i \in 1 .. Len(c[n]) : e[n][i].name = c[n][i].name

\* ... and a name is first where the first list has it.
FirstOf(b, c, n) ==
  \A x :
    /\ (\A j \in 1 .. n : Where(b[j], x) = {}) => Where(c[n], x) = {}
    /\ \A v : \A j \in 1 .. n :
         (\A h \in 1 .. j - 1 : Where(b[h], x) = {}) /\ First(b[j], x, v) => First(c[n], x, v)

LEMMA SumsSteps ==
  ASSUME NEW b, NEW n \in Nat, NEW t, Sums(t, b, n)
  PROVE  t[0] = 0 /\ \A i \in 1 .. n : t[i] = t[i - 1] + b[i]
<1>1. t = [i \in 0 .. n |-> IF i = 0 THEN 0 ELSE t[i - 1] + b[i]]
  BY DEF Sums
<1>2. 0 \in 0 .. n /\ \A i \in 1 .. n : i \in 0 .. n /\ i # 0
  OBVIOUS
<1>3. t[0] = 0
  BY <1>1, <1>2
<1>4. \A i \in 1 .. n : t[i] = t[i - 1] + b[i]
  BY <1>1, <1>2
<1> QED
  BY <1>3, <1>4

LEMMA AlikeNext ==
  ASSUME NEW S, NEW T, NEW b, NEW d, NEW l, NEW c, NEW e, NEW t, NEW m \in Nat,
         Alike(S, T, c, e, t, m), b \in Seq(S), d \in Seq(T), Len(d) = Len(b), l = Len(b),
         \A i \in 1 .. Len(b) : d[i].name = b[i].name,
         c[m + 1] = c[m] \o b, e[m + 1] = e[m] \o d, t[m + 1] = t[m] + l
  PROVE  Alike(S, T, c, e, t, m + 1)
<1> DEFINE x == c[m]
           y == e[m]
           u == c[m + 1]
           v == e[m + 1]
<1>1. /\ x \in Seq(S) /\ y \in Seq(T) /\ Len(y) = Len(x) /\ t[m] = Len(x)
      /\ \A i \in 1 .. Len(x) : y[i].name = x[i].name
  BY DEF Alike
<1>2. u = x \o b /\ v = y \o d
  OBVIOUS
<1>3. t[m + 1] = Len(x) + Len(b) /\ Len(x) \in Nat /\ Len(b) \in Nat
  BY <1>1
<1> HIDE DEF x, y, u, v
<1>4. /\ u \in Seq(S) /\ Len(u) = Len(x) + Len(b)
      /\ \A i \in 1 .. Len(x) + Len(b) : u[i] = IF i <= Len(x) THEN x[i] ELSE b[i - Len(x)]
  BY <1>1, <1>2, ConcatProperties
<1>5. /\ v \in Seq(T) /\ Len(v) = Len(x) + Len(b)
      /\ \A i \in 1 .. Len(x) + Len(b) : v[i] = IF i <= Len(x) THEN y[i] ELSE d[i - Len(x)]
  BY <1>1, <1>2, ConcatProperties
<1>6. ASSUME NEW i \in 1 .. Len(u) PROVE v[i].name = u[i].name
  <2>1. CASE i <= Len(x)
    <3>1. i \in 1 .. Len(x) /\ i \in 1 .. Len(x) + Len(b)
      BY <1>3, <1>4, <2>1
    <3> QED
      BY <1>1, <1>4, <1>5, <2>1, <3>1
  <2>2. CASE ~(i <= Len(x))
    <3>1. i - Len(x) \in 1 .. Len(b) /\ i \in 1 .. Len(x) + Len(b)
      BY <1>3, <1>4, <2>2
    <3> QED
      BY <1>4, <1>5, <2>2, <3>1
  <2> QED
    BY <2>1, <2>2
<1> QED
  BY <1>3, <1>4, <1>5, <1>6 DEF Alike, u, v

LEMMA FirstNext ==
  ASSUME NEW S, NEW b, NEW c, NEW m \in Nat, FirstOf(b, c, m), c[m] \in Seq(S), b[m + 1] \in Seq(S),
         c[m + 1] = c[m] \o b[m + 1]
  PROVE  FirstOf(b, c, m + 1)
<1> DEFINE list == b[m + 1]
<1>0. \A j \in 1 .. m + 1 : j = m + 1 \/ j \in 1 .. m
  OBVIOUS
<1>1. m + 1 \in 1 .. m + 1 /\ \A j \in 1 .. m : j \in 1 .. m + 1
  OBVIOUS
<1>2. ASSUME NEW x, \A j \in 1 .. m + 1 : Where(b[j], x) = {} PROVE Where(c[m + 1], x) = {}
  <2>1. Where(list, x) = {} /\ \A j \in 1 .. m : Where(b[j], x) = {}
    BY <1>1, <1>2
  <2>2. Where(c[m], x) = {}
    BY <2>1 DEF FirstOf
  <2> QED
    BY <2>1, <2>2, FirstOfConcat
<1>3. ASSUME NEW x, NEW v, NEW j \in 1 .. m + 1, \A h \in 1 .. j - 1 : Where(b[h], x) = {},
             First(b[j], x, v)
      PROVE  First(c[m + 1], x, v)
  <2>1. CASE j \in 1 .. m
    <3>1. First(c[m], x, v)
      <4> HIDE DEF Where, First
      <4> QED
        BY <1>3, <2>1 DEF FirstOf
    <3> QED
      BY <3>1, FirstOfConcat
  <2>2. CASE j = m + 1
    <3>1. \A h \in 1 .. m : Where(b[h], x) = {}
      <4>1. 1 .. j - 1 = 1 .. m
        BY <2>2
      <4> QED
        BY <1>3, <4>1
    <3>2. Where(c[m], x) = {}
      BY <3>1 DEF FirstOf
    <3> QED
      BY <1>3, <2>2, <3>2, FirstOfConcat
  <2> QED
    BY <1>0, <2>1, <2>2
<1> QED
  BY <1>2, <1>3 DEF FirstOf

LEMMA AlikeFrom ==
  ASSUME NEW S, NEW T, NEW N \in Nat, NEW b, NEW d, NEW l, NEW c, NEW e, NEW t,
         Concats(c, b, N), Concats(e, d, N), Sums(t, l, N),
         \A j \in 1 .. N : /\ b[j] \in Seq(S) /\ d[j] \in Seq(T)
                           /\ Len(d[j]) = Len(b[j]) /\ l[j] = Len(b[j])
                           /\ \A i \in 1 .. Len(b[j]) : d[j][i].name = b[j][i].name
  PROVE  Alike(S, T, c, e, t, N) /\ FirstOf(b, c, N)
<1> DEFINE bad == {n \in 0 .. N : ~(Alike(S, T, c, e, t, n) /\ FirstOf(b, c, n))}
<1>1. /\ c[0] = <<>> /\ \A i \in 1 .. N : c[i] = c[i - 1] \o b[i]
      /\ e[0] = <<>> /\ \A i \in 1 .. N : e[i] = e[i - 1] \o d[i]
      /\ t[0] = 0 /\ \A i \in 1 .. N : t[i] = t[i - 1] + l[i]
  BY ConcatsSteps, SumsSteps
<1>2. ASSUME bad # {} PROVE FALSE
  <2>1. PICK n \in bad : \A j \in bad : n <= j
    <3>1. bad \subseteq Nat
      OBVIOUS
    <3> HIDE DEF bad
    <3> QED
      BY <1>2, <3>1, LeastNat
  <2>2. n \in 0 .. N /\ ~(Alike(S, T, c, e, t, n) /\ FirstOf(b, c, n))
    OBVIOUS
  <2>3. n # 0
    <3>1. Alike(S, T, c, e, t, 0)
      BY <1>1 DEF Alike
    <3>2. Where(c[0], 0) = {} /\ \A x : Where(c[0], x) = {}
      BY <1>1 DEF Where
    <3>3. FirstOf(b, c, 0)
      BY <3>2 DEF FirstOf
    <3> QED
      BY <2>2, <3>1, <3>3
  <2> DEFINE m == n - 1
  <2>4. n \in 1 .. N /\ m \in Nat /\ m \in 0 .. N /\ m < n /\ m + 1 = n
    BY <2>2, <2>3
  <2>5. Alike(S, T, c, e, t, m) /\ FirstOf(b, c, m)
    <3>1. m \notin bad
      BY <2>1, <2>4
    <3> QED
      BY <2>4, <3>1
  <2>6. c[m + 1] = c[m] \o b[n] /\ e[m + 1] = e[m] \o d[n] /\ t[m + 1] = t[m] + l[n]
    BY <1>1, <2>4
  <2> HIDE DEF m
  <2>7. Alike(S, T, c, e, t, m + 1)
    BY <2>4, <2>5, <2>6, AlikeNext
  <2>8. c[m] \in Seq(S) /\ b[m + 1] \in Seq(S) /\ c[m + 1] = c[m] \o b[m + 1]
    BY <2>4, <2>5, <2>6 DEF Alike
  <2>9. FirstOf(b, c, m + 1)
    BY <2>4, <2>5, <2>8, FirstNext
  <2> QED
    BY <2>2, <2>4, <2>7, <2>9
<1>3. N \in 0 .. N
  OBVIOUS
<1> QED
  BY <1>2, <1>3

LEMMA AskedModule ==
  ASSUME NEW j \in 1 .. Len(Readers) + 1, Writer \in Modules
  PROVE  Asked[j] \in Modules
<1>1. CASE j = 1
  BY <1>1, AskedIs
<1>2. CASE j # 1
  <2> DEFINE i == j - 1
  <2>1. i \in 1 .. Len(Readers) /\ i + 1 = j
    BY <1>2, AskedIs
  <2>2. Readers \in Seq(Modules)
    BY MmdAssumption
  <2> HIDE DEF i, Modules
  <2>3. Asked[i + 1] \in Modules
    BY <2>1, <2>2, AskedIs
  <2> QED
    BY <2>1, <2>3
<1> QED
  BY <1>1, <1>2

LEMMA LookupIsFirst ==
  ASSUME ListsOK, Writer \in Modules, NEW kind \in Kinds, NEW ok \in SUBSET Modules, NEW x
  PROVE  \/ /\ Lookup(kind, ok, "name", x) = None
            /\ \A j \in 1 .. Len(Readers) + 1 : Where(Given(kind, ok)[j], x) = {}
         \/ \E j \in 1 .. Len(Readers) + 1 :
              /\ \A h \in 1 .. j - 1 : Where(Given(kind, ok)[h], x) = {}
              /\ First(Given(kind, ok)[j], x, Lookup(kind, ok, "name", x))
<1> DEFINE v    == Lookup(kind, ok, "name", x)
           hits == Hits(kind, ok, "name", x)
           N    == Len(Readers) + 1
           b    == Given(kind, ok)
<1>1. \A m : Having(kind, m, "name", x) = Where(db[kind][m], x)
  BY DEF Having, Where
<1>2. ASSUME NEW j \in 1 .. N
      PROVE  /\ Asked[j] \in ok => b[j] = db[kind][Asked[j]]
             /\ j \in hits <=> Where(b[j], x) # {}
  <2>1. b[j] = IF Asked[j] \in ok THEN db[kind][Asked[j]] ELSE <<>>
    BY DEF Given
  <2>2. Asked[j] \notin ok => Where(b[j], x) = {}
    BY <2>1 DEF Where
  <2>3. j \in DOMAIN Asked
    BY AskedIs
  <2> HIDE DEF b
  <2> QED
    BY <1>1, <2>1, <2>2, <2>3 DEF Hits
<1>3. hits \subseteq 1 .. N
  BY AskedIs DEF Hits
<1>4. CASE hits = {}
  <2>1. v = None
    BY <1>4, LookupIs
  <2> HIDE DEF v, hits, b
  <2>2. \A j \in 1 .. N : Where(b[j], x) = {}
    BY <1>2, <1>4
  <2> QED
    BY <2>1, <2>2 DEF v, b
<1>5. CASE hits # {}
  <2>1. PICK j \in hits :
          /\ \A h \in hits : j <= h
          /\ \E i \in Having(kind, Asked[j], "name", x) :
               /\ \A h \in Having(kind, Asked[j], "name", x) : i <= h
               /\ v = db[kind][Asked[j]][i]
    BY <1>5, LookupIs
  <2>2. j \in 1 .. N /\ Asked[j] \in ok
    BY <1>3 DEF Hits
  <2> HIDE DEF v, hits, b
  <2>3. ASSUME NEW h \in 1 .. j - 1 PROVE Where(b[h], x) = {}
    <3>1. h \in 1 .. N /\ ~(j <= h)
      BY <2>2, AskedIs
    <3> QED
      BY <1>2, <2>1, <3>1
  <2>4. First(b[j], x, v)
    <3>1. b[j] = db[kind][Asked[j]]
      BY <1>2, <2>2
    <3> QED
      BY <1>1, <2>1, <3>1 DEF First
  <2> QED
    BY <2>2, <2>3, <2>4 DEF v, b
<1> QED
  BY <1>4, <1>5

LEMMA GivenAlike ==
  ASSUME ListsOK, Writer \in Modules, NEW kind \in Kinds, NEW ok, NEW j \in 1 .. Len(Readers) + 1
  PROVE  LET b == Given(kind, ok)
             d == Shown(kind, ok)
         IN  /\ b[j] \in Seq(All(kind)) /\ d[j] \in Seq(Place)
             /\ Len(d[j]) = Len(b[j]) /\ Counted(kind, ok)[j] = Len(b[j])
             /\ \A i \in 1 .. Len(b[j]) : d[j][i].name = b[j][i].name
<1> DEFINE m == Asked[j]
<1>1. m \in Modules
  BY AskedModule
<1>2. /\ Given(kind, ok)[j] = IF m \in ok THEN db[kind][m] ELSE <<>>
      /\ Shown(kind, ok)[j] = IF m \in ok THEN Places(kind, m) ELSE <<>>
      /\ Counted(kind, ok)[j] = IF m \in ok THEN Len(db[kind][m]) ELSE 0
  BY DEF Given, Shown, Counted
<1> HIDE DEF m
<1>3. CASE m \in ok
  BY <1>1, <1>2, <1>3, ListTypes
<1>4. CASE m \notin ok
  <2>1. Given(kind, ok)[j] = <<>> /\ Shown(kind, ok)[j] = <<>> /\ Counted(kind, ok)[j] = 0
    BY <1>2, <1>4
  <2> QED
    BY <2>1
<1> QED
  BY <1>3, <1>4

LEMMA Agreed == ModulesOK /\ ListsOK /\ WalkOK => ReadsAgree
<1> DEFINE ok == Modules \ skipped
<1> SUFFICES ASSUME ModulesOK, ListsOK, WalkOK, ret = "end", seen = Entries(trav.kind, ok)
             PROVE  /\ vxmmd_modctl_count(trav.kind, ok) = Len(seen)
                    /\ \A n \in Name[trav.kind] :
                         LET e == IF trav.kind = "user" THEN vxmmd_getpwnam(n, ok)
                                                        ELSE vxmmd_getgrnam(n, ok)
                             here == {i \in DOMAIN seen : seen[i].name = n}
                         IN  IF here = {} THEN e = None
                             ELSE \E i \in here : /\ \A j \in here : i <= j
                                                  /\ e = Combined(trav.kind, ok, Len(Asked))[i]
  BY DEF ReadsAgree
<1> DEFINE kind == trav.kind
           N    == Len(Readers) + 1
           b    == Given(kind, ok)
           d    == Shown(kind, ok)
           l    == Counted(kind, ok)
           S    == All(kind)
<1>1. kind \in Kinds /\ Writer \in Modules /\ N \in Nat /\ ok \in SUBSET Modules
  BY AskedIs DEF WalkOK, Trav, ModulesOK
<1> HIDE DEF kind, ok
<1>2. PICK c : Concats(c, b, N) /\ Combined(kind, ok, Len(Asked)) = c[N]
  BY <1>1, CombinedIs, JoinedIs
<1>3. PICK e : Concats(e, d, N) /\ Entries(kind, ok) = e[N]
  BY <1>1, CombinedIs, JoinedIs
<1>4. PICK t : Sums(t, l, N) /\ vxmmd_modctl_count(kind, ok) = t[N]
  BY CountIs
<1>5. Alike(S, Place, c, e, t, N) /\ FirstOf(b, c, N)
  <2>1. \A j \in 1 .. N : /\ b[j] \in Seq(S) /\ d[j] \in Seq(Place)
                          /\ Len(d[j]) = Len(b[j]) /\ l[j] = Len(b[j])
                          /\ \A i \in 1 .. Len(b[j]) : d[j][i].name = b[j][i].name
    BY <1>1, GivenAlike
  <2> HIDE DEF b, d, l, N, S
  <2> QED
    BY <1>1, <1>2, <1>3, <1>4, <2>1, AlikeFrom
<1>6. seen = e[N]
  BY <1>3 DEF kind
<1>7. vxmmd_modctl_count(kind, ok) = Len(seen)
  BY <1>4, <1>5, <1>6 DEF Alike
<1>8. ASSUME NEW n \in Name[kind]
      PROVE  LET f    == IF kind = "user" THEN vxmmd_getpwnam(n, ok) ELSE vxmmd_getgrnam(n, ok)
                 here == {i \in DOMAIN seen : seen[i].name = n}
             IN  IF here = {} THEN f = None
                 ELSE \E i \in here : (\A j \in here : i <= j) /\ f = Combined(kind, ok, Len(Asked))[i]
  <2> DEFINE f    == Lookup(kind, ok, "name", n)
             here == {i \in DOMAIN seen : seen[i].name = n}
             all  == Combined(kind, ok, Len(Asked))
  <2>1. f = IF kind = "user" THEN vxmmd_getpwnam(n, ok) ELSE vxmmd_getgrnam(n, ok)
    BY <1>1 DEF vxmmd_getpwnam, vxmmd_getgrnam, Kinds
  <2>2. here = Where(c[N], n)
    <3>1. /\ DOMAIN c[N] = 1 .. Len(c[N]) /\ DOMAIN e[N] = 1 .. Len(c[N])
          /\ \A i \in 1 .. Len(c[N]) : e[N][i].name = c[N][i].name
      BY <1>5 DEF Alike
    <3> QED
      BY <1>6, <3>1 DEF Where
  <2>3. all = c[N]
    BY <1>2
  <2> HIDE DEF f, here, all, b
  <2>4. ASSUME NEW j \in 1 .. N, \A h \in 1 .. j - 1 : Where(b[h], n) = {}, First(b[j], n, f)
        PROVE  here # {} /\ \E i \in here : (\A k \in here : i <= k) /\ f = all[i]
    <3>1. First(c[N], n, f)
      <4> HIDE DEF Where, First
      <4> QED
        BY <1>5, <2>4 DEF FirstOf
    <3> QED
      BY <2>2, <2>3, <3>1 DEF First
  <2>5. \/ here # {} /\ \E i \in here : (\A k \in here : i <= k) /\ f = all[i]
        \/ here = {} /\ f = None
    <3>1. CASE f = None /\ \A j \in 1 .. N : Where(b[j], n) = {}
      BY <1>5, <2>2, <3>1 DEF FirstOf
    <3>2. CASE \E j \in 1 .. N : /\ \A h \in 1 .. j - 1 : Where(b[h], n) = {}
                                 /\ First(b[j], n, f)
      BY <2>4, <3>2
    <3> QED
      BY <1>1, <3>1, <3>2, LookupIsFirst DEF f, b
  <2> QED
    BY <2>1, <2>5 DEF here, all
<1> QED
  BY <1>7, <1>8 DEF kind, ok

(* The lookup by name, the traversal and the count agree on the combined     *)
(* database, for any number of read modules and any lists in them, and also  *)
(* when some of the modules fail, as long as these are the same ones.        *)
THEOREM AllReadsAgree == Spec => []ReadsAgree
  BY Agreed, ModulesHold, ListsHold, WalkHolds, PTL

-----------------------------------------------------------------------------
(* Traversals with one read module or none *)

ReadLen(kind) == IF Len(Readers) = 0 THEN 0 ELSE Len(db[kind][Readers[1]])

\* s has the first p places of the write module and then the first q of the
\* read module.
Part(s, p, q) ==
  /\ s \in Seq(Place) /\ Len(s) = p + q
  /\ q = 0 \/ Len(Readers) = 1
  /\ \A i \in 1 .. p : s[i].mod = Writer /\ s[i].pos = i
  /\ \A i \in 1 .. q : s[p + i].mod = Readers[1] /\ s[p + i].pos = i

\* The read module has returned q entries and is at the next one, or it is done.
AtList(q) ==
  \/ trav.rd_mod = 1 /\ trav.itrav = None /\ q = 0
  \/ /\ trav.rd_mod = 1 /\ Len(Readers) = 1
     /\ trav.itrav # None /\ trav.itrav.mod = Readers[1] /\ trav.itrav.live /\ trav.itrav.pos = q + 1
  \/ /\ trav.rd_mod = Len(Readers) + 1
     /\ q >= ReadLen(trav.kind) \/ (Len(Readers) = 1 /\ Readers[1] \in skipped)

\* A traversal that began with n entries of the write module has come to p of
\* them, no less than n before it turns to the read module, and to q of the
\* read module.
Come(n, p, q) ==
  /\ n <= Len(db[trav.kind][Writer])
  /\ Part(due, n, ReadLen(trav.kind)) /\ Part(seen, p, q)
  /\ IF trav.wr_mod THEN trav.rd_mod = 1 /\ trav.itrav.pos = p + 1 /\ q = 0
                    ELSE (n <= p \/ Writer \in skipped) /\ AtList(q)

Progress == trav # None => \E n, p, q \in Nat : Come(n, p, q)

LEMMA FirstReader ==
  ASSUME Len(Readers) = 1
  PROVE  Readers[1] \in Modules /\ Readers[1] # Writer
<1>1. 1 \in DOMAIN Readers
  BY AskedIs
<1>2. Readers[1] # Writer
  BY <1>1, MmdAssumption
<1>3. Readers \in Seq(Modules)
  BY MmdAssumption
<1> HIDE DEF Modules
<1>4. Readers[1] \in Modules
  BY <1>1, <1>3
<1> QED
  BY <1>2, <1>4

LEMMA ReadLenIs ==
  ASSUME ListsOK, Len(Readers) <= 1, NEW kind \in Kinds
  PROVE  /\ ReadLen(kind) \in Nat
         /\ Len(Readers) = 1 => ReadLen(kind) = Len(db[kind][Readers[1]])
         /\ Len(Readers) = 0 => ReadLen(kind) = 0
<1>1. CASE Len(Readers) = 0
  BY <1>1 DEF ReadLen
<1>2. CASE Len(Readers) = 1
  <2>1. Len(db[kind][Readers[1]]) \in Nat
    BY <1>2, FirstReader, ListTypes
  <2> QED
    BY <1>2, <2>1 DEF ReadLen
<1> QED
  BY <1>1, <1>2, AskedIs

LEMMA PartNext ==
  ASSUME NEW s, NEW p \in Nat, NEW q \in Nat, NEW e \in Place, Part(s, p, q)
  PROVE  /\ q = 0 /\ e.mod = Writer /\ e.pos = p + 1 => Part(Append(s, e), p + 1, 0)
         /\ Len(Readers) = 1 /\ e.mod = Readers[1] /\ e.pos = q + 1 => Part(Append(s, e), p, q + 1)
<1> DEFINE u == Append(s, e)
<1>1. /\ s \in Seq(Place) /\ Len(s) = p + q
      /\ \A i \in 1 .. p : s[i].mod = Writer /\ s[i].pos = i
      /\ \A i \in 1 .. q : s[p + i].mod = Readers[1] /\ s[p + i].pos = i
  BY DEF Part
<1>2. u \in Seq(Place) /\ Len(u) = p + q + 1 /\ (\A i \in 1 .. p + q : u[i] = s[i]) /\ u[p + q + 1] = e
  BY <1>1, AppendProperties
<1> HIDE DEF u
<1>3. \A i \in 1 .. p : u[i].mod = Writer /\ u[i].pos = i
  <2>1. \A i \in 1 .. p : i \in 1 .. p + q
    OBVIOUS
  <2> QED
    BY <1>1, <1>2, <2>1
<1>4. \A i \in 1 .. q : u[p + i].mod = Readers[1] /\ u[p + i].pos = i
  <2>1. \A i \in 1 .. q : p + i \in 1 .. p + q
    OBVIOUS
  <2> QED
    BY <1>1, <1>2, <2>1
<1>5. ASSUME q = 0, e.mod = Writer, e.pos = p + 1 PROVE Part(u, p + 1, 0)
  <2>1. \A i \in 1 .. p + 1 : i \in 1 .. p \/ i = p + 1
    OBVIOUS
  <2>2. u[p + 1] = e /\ Len(u) = p + 1 + 0
    BY <1>2, <1>5
  <2>3. \A i \in 1 .. p + 1 : u[i].mod = Writer /\ u[i].pos = i
    BY <1>3, <1>5, <2>1, <2>2
  <2> QED
    BY <1>2, <2>2, <2>3 DEF Part
<1>6. ASSUME Len(Readers) = 1, e.mod = Readers[1], e.pos = q + 1 PROVE Part(u, p, q + 1)
  <2>1. \A i \in 1 .. q + 1 : i \in 1 .. q \/ (i = q + 1 /\ p + i = p + q + 1)
    OBVIOUS
  <2>2. \A i \in 1 .. q + 1 : u[p + i].mod = Readers[1] /\ u[p + i].pos = i
    BY <1>2, <1>4, <1>6, <2>1
  <2>3. Len(u) = p + (q + 1)
    BY <1>2
  <2> QED
    BY <1>2, <1>3, <1>6, <2>2, <2>3 DEF Part
<1> QED
  BY <1>5, <1>6 DEF u

LEMMA EntriesPart ==
  ASSUME ListsOK, Len(Readers) <= 1, Writer \in Modules, NEW kind \in Kinds
  PROVE  Part(Entries(kind, Modules), Len(db[kind][Writer]), ReadLen(kind))
<1> DEFINE W == db[kind][Writer]
           N == Len(Readers)
           d == Shown(kind, Modules)
           u == Places(kind, Writer)
<1>1. N \in Nat /\ (N = 0 \/ N = 1)
  BY AskedIs
<1>2. Entries(kind, Modules) = Joined(d) /\ Len(d) = N + 1
  BY CombinedIs
<1>3. \A j \in 1 .. N + 1 : d[j] = Places(kind, Asked[j]) /\ d[j] \in Seq(Place)
  BY AskedModule, ListTypes DEF Shown
<1>4. d[1] = u
  BY <1>1, <1>3, AskedIs
<1>5. /\ u \in Seq(Place) /\ Len(u) = Len(W) /\ Len(W) \in Nat
      /\ \A i \in 1 .. Len(W) : u[i].mod = Writer /\ u[i].pos = i
  BY ListTypes
<1>8. \A j \in 1 .. Len(d) : d[j] \in Seq(Place)
  BY <1>2, <1>3
<1>9. /\ Len(d) = 1 => Joined(d) = d[1]
      /\ Len(d) = 2 => Joined(d) = d[1] \o d[2]
  <2> HIDE DEF d
  <2> QED
    BY <1>8, JoinedShort
<1> HIDE DEF d, u
<1>6. CASE N = 0
  <2>1. Entries(kind, Modules) = u
    BY <1>2, <1>4, <1>6, <1>9
  <2>2. ReadLen(kind) = 0
    BY <1>6, ReadLenIs
  <2> QED
    BY <1>5, <2>1, <2>2 DEF Part
<1>7. CASE N = 1
  <2> DEFINE R == db[kind][Readers[1]]
             v == Places(kind, Readers[1])
             s == u \o v
  <2>1. d[2] = v
    <3>1. 2 \in 1 .. N + 1 /\ Asked[1 + 1] = Readers[1] /\ 1 + 1 = 2
      BY <1>7, AskedIs
    <3> QED
      BY <1>3, <3>1
  <2>2. Entries(kind, Modules) = s
    BY <1>2, <1>4, <1>7, <1>9, <2>1
  <2>3. /\ v \in Seq(Place) /\ Len(v) = Len(R) /\ Len(R) \in Nat
        /\ \A i \in 1 .. Len(R) : v[i].mod = Readers[1] /\ v[i].pos = i
    BY <1>7, FirstReader, ListTypes
  <2>4. ReadLen(kind) = Len(R)
    BY <1>7, ReadLenIs
  <2> HIDE DEF v, R, W
  <2>5. /\ s \in Seq(Place) /\ Len(s) = Len(W) + Len(R)
        /\ \A i \in 1 .. Len(W) + Len(R) : s[i] = IF i <= Len(W) THEN u[i] ELSE v[i - Len(W)]
    <3>1. /\ s \in Seq(Place) /\ Len(s) = Len(u) + Len(v)
          /\ \A i \in 1 .. Len(u) + Len(v) : s[i] = IF i <= Len(u) THEN u[i] ELSE v[i - Len(u)]
      <4>1. u \in Seq(Place) /\ v \in Seq(Place)
        BY <1>5, <2>3
      <4> QED
        BY <4>1, ConcatProperties
    <3>2. Len(u) = Len(W) /\ Len(v) = Len(R)
      BY <1>5, <2>3 DEF W
    <3> HIDE DEF s
    <3> QED
      BY <3>1, <3>2
  <2> HIDE DEF s
  <2>6. \A i \in 1 .. Len(W) : s[i].mod = Writer /\ s[i].pos = i
    <3>1. \A i \in 1 .. Len(W) : i \in 1 .. Len(W) + Len(R) /\ i <= Len(W)
      BY <1>5, <2>3
    <3> QED
      BY <1>5, <2>5, <3>1
  <2>7. ASSUME NEW i \in 1 .. Len(R) PROVE s[Len(W) + i].mod = Readers[1] /\ s[Len(W) + i].pos = i
    <3>1. Len(W) + i \in 1 .. Len(W) + Len(R) /\ ~(Len(W) + i <= Len(W)) /\ Len(W) + i - Len(W) = i
      BY <1>5, <2>3
    <3>2. s[Len(W) + i] = v[i]
      BY <2>5, <3>1
    <3> QED
      BY <2>3, <3>2
  <2>8. Part(s, Len(W), Len(R))
    BY <1>7, <2>5, <2>6, <2>7 DEF Part
  <2> QED
    BY <2>2, <2>4, <2>8 DEF W
<1> QED
  BY <1>1, <1>6, <1>7

\* The write module's list does not get shorter during a traversal, and the
\* read modules' lists stay as they are.
LEMMA ListsStay ==
  ASSUME ModulesOK, ListsOK, WalkOK, trav # None, [Next]_vars, NEW kind \in Kinds
  PROVE  /\ Len(db[kind][Writer]) \in Nat
         /\ Len(db'[kind][Writer]) \in Nat
         /\ Len(db[kind][Writer]) <= Len(db'[kind][Writer])
         /\ \A m \in Modules : m # Writer => db'[kind][m] = db[kind][m]
<1> DEFINE Goal == /\ Len(db'[kind][Writer]) \in Nat
                   /\ Len(db[kind][Writer]) <= Len(db'[kind][Writer])
                   /\ \A m \in Modules : m # Writer => db'[kind][m] = db[kind][m]
<1>1. Writer \in Modules
  BY DEF WalkOK, ModulesOK
<1>2. Len(db[kind][Writer]) \in Nat
  BY <1>1, ListTypes
<1>3. CASE UNCHANGED db
  BY <1>2, <1>3
<1>4. ASSUME NEW k \in Kinds, ChangeStep(k) PROVE Goal
  <2> DEFINE list == db[k][Writer]
  <2>1. ListOK(list, k) /\ Len(list) \in Nat
    BY <1>1, ListTypes DEF ListsOK
  <2>2. \E new : OneChanged(k, new) /\ Len(new) \in Nat /\ Len(list) <= Len(new)
    <3>1. ASSUME NEW n \in Name[k], NEW id, Added(k, n, id)
          PROVE  \E new : OneChanged(k, new) /\ Len(new) \in Nat /\ Len(list) <= Len(new)
      <4> DEFINE new == Append(list, [name |-> n, id |-> id])
      <4>1. \A i \in DOMAIN list : list[i].name # n
        BY <3>1 DEF Added, Names
      <4>2. OneChanged(k, new)
        BY <3>1 DEF Added
      <4>3. Len(new) = Len(list) + 1
        BY <2>1, <4>1, ListAdded
      <4> HIDE DEF new, list
      <4> QED
        BY <2>1, <4>2, <4>3
    <3>2. ASSUME NEW n \in Name[k], NEW nn \in Name[k], NEW id \in NewId, Changed(k, n, nn, id)
          PROVE  \E new : OneChanged(k, new) /\ Len(new) \in Nat /\ Len(list) <= Len(new)
      <4>1. PICK i \in DOMAIN list : /\ list[i].name = n
                                     /\ OneChanged(k, [list EXCEPT ![i] = [name |-> nn, id |-> id]])
        BY <3>2 DEF Changed
      <4> DEFINE new == [list EXCEPT ![i] = [name |-> nn, id |-> id]]
      <4>2. nn = list[i].name \/ \A j \in DOMAIN list : list[j].name # nn
        BY <3>2, <4>1 DEF Changed, Names
      <4>3. Len(new) = Len(list)
        BY <2>1, <4>2, ListChanged
      <4>4. OneChanged(k, new)
        BY <4>1
      <4> HIDE DEF new, list
      <4> QED
        BY <2>1, <4>3, <4>4
    <3> QED
      BY <1>4, <3>1, <3>2 DEF ChangeStep, Removed
  <2>3. PICK new : OneChanged(k, new) /\ Len(new) \in Nat /\ Len(list) <= Len(new)
    BY <2>2
  <2> QED
    BY <1>1, <1>2, <2>3 DEF OneChanged
<1> QED
  BY <1>2, <1>3, <1>4, ListsChange

\* A step that leaves the traversal where it is
LEMMA ComeStays ==
  ASSUME NEW n \in Nat, NEW p \in Nat, NEW q \in Nat, Come(n, p, q),
         UNCHANGED <<trav, skipped, due, seen>>, ReadLen(trav.kind)' = ReadLen(trav.kind),
         Len(db[trav.kind][Writer]) \in Nat, Len(db'[trav.kind][Writer]) \in Nat,
         Len(db[trav.kind][Writer]) <= Len(db'[trav.kind][Writer])
  PROVE  Come(n, p, q)'
<1>1. n <= Len(db'[trav'.kind][Writer])
  BY DEF Come
<1>2. Part(due, n, ReadLen(trav.kind))' /\ Part(seen, p, q)'
  BY DEF Come, Part, Place
<1>3. AtList(q) => AtList(q)'
  BY DEF AtList
<1> QED
  BY <1>1, <1>2, <1>3 DEF Come

LEMMA ComeTo ==
  ASSUME NEW n \in Nat, NEW p \in Nat, NEW q \in Nat,
         n <= Len(db'[trav'.kind][Writer]), Part(due', n, ReadLen(trav.kind)'), Part(seen', p, q),
         \/ trav'.wr_mod /\ trav'.rd_mod = 1 /\ trav'.itrav.pos = p + 1 /\ q = 0
         \/ ~trav'.wr_mod /\ (n <= p \/ Writer \in skipped') /\ AtList(q)'
  PROVE  Progress'
<1>1. Part(due, n, ReadLen(trav.kind))' /\ Part(seen, p, q)'
  BY DEF Part, Place
<1>2. Come(n, p, q)'
  BY <1>1 DEF Come
<1> QED
  BY <1>2 DEF Progress

\* A step of the traversal itself, which leaves the lists
LEMMA ComeOn ==
  ASSUME NEW n \in Nat, NEW p \in Nat, NEW q \in Nat, UNCHANGED <<db, due>>, trav'.kind = trav.kind,
         n <= Len(db[trav.kind][Writer]), Part(due, n, ReadLen(trav.kind)), Part(seen', p, q),
         \/ trav'.wr_mod /\ trav'.rd_mod = 1 /\ trav'.itrav.pos = p + 1 /\ q = 0
         \/ ~trav'.wr_mod /\ (n <= p \/ Writer \in skipped') /\ AtList(q)'
  PROVE  Progress'
<1>1. ReadLen(trav.kind)' = ReadLen(trav.kind) /\ db'[trav'.kind][Writer] = db[trav.kind][Writer]
  BY DEF ReadLen
<1>2. Part(due', n, ReadLen(trav.kind)') /\ n <= Len(db'[trav'.kind][Writer])
  BY <1>1
<1> QED
  BY <1>2, ComeTo

\* A traversal that finds the write module's next entry, or none
LEMMA WriterStep ==
  ASSUME ListsOK, Writer \in Modules, Len(Readers) <= 1, trav \in Trav, trav.wr_mod,
         trav.itrav \in Iter, trav.itrav.live, trav.itrav.mod = Writer,
         NEW n \in Nat, NEW p \in Nat, NEW q \in Nat, Come(n, p, q), Gives(trav.itrav) \/ WriterEnds
  PROVE  Progress'
<1> DEFINE kind == trav.kind
           it   == trav.itrav
<1>1. /\ n <= Len(db[kind][Writer]) /\ Part(due, n, ReadLen(kind)) /\ Part(seen, p, q)
      /\ trav.rd_mod = 1 /\ it.pos = p + 1 /\ q = 0
  BY DEF Come
<1>2. kind \in Kinds
  BY DEF Trav
<1>3. /\ Len(db[kind][Writer]) \in Nat /\ DOMAIN db[kind][Writer] = 1 .. Len(db[kind][Writer])
      /\ \A i \in 1 .. Len(db[kind][Writer]) : db[kind][Writer][i].name \in Name[kind]
  <2>1. ListOK(db[kind][Writer], kind)
    BY <1>2 DEF ListsOK
  <2> QED
    BY <2>1, EntriesAre
<1>4. UNCHANGED <<db, due>> /\ trav'.kind = kind /\ trav'.rd_mod = 1
  BY <1>1 DEF Gives, WriterEnds
<1>5. CASE Gives(it)
  <2>1. ~(p + 1 > Len(db[kind][Writer]))
    BY <1>1, <1>5 DEF Gives, Exhausted
  <2>2. p + 1 \in 1 .. Len(db[kind][Writer])
    BY <1>3, <2>1
  <2> DEFINE e == [mod |-> it.mod, pos |-> it.pos, name |-> Current(it).name]
  <2>3. e.mod = Writer /\ e.pos = p + 1
    BY <1>1
  <2>4. Current(it) = db[kind][Writer][p + 1]
    BY <1>1 DEF Current
  <2>5. e \in Place
    BY <1>1, <1>2, <1>3, <2>2, <2>4 DEF Place
  <2>6. seen' = Append(seen, e)
    BY <1>5 DEF Gives
  <2> HIDE DEF e
  <2>7. Part(seen', p + 1, 0)
    BY <1>1, <2>3, <2>5, <2>6, PartNext
  <2>8. trav'.wr_mod /\ trav'.itrav = Advanced(it)
    BY <1>5 DEF Gives
  <2>9. trav'.itrav.pos = p + 1 + 1
    <3>1. Advanced(it).pos = it.pos + 1
      BY IterUpdated
    <3> HIDE DEF it
    <3> QED
      BY <1>1, <2>8, <3>1
  <2> HIDE DEF it, kind
  <2> QED
    BY <1>1, <1>4, <2>7, <2>8, <2>9, ComeOn DEF kind
<1>6. CASE WriterEnds
  <2>1. p + 1 > Len(db[kind][Writer])
    BY <1>1, <1>6 DEF WriterEnds, Exhausted
  <2>2. n <= p
    BY <1>1, <1>3, <2>1
  <2>3. trav'.itrav = None /\ ~trav'.wr_mod /\ seen' = seen
    BY <1>6 DEF WriterEnds
  <2>4. AtList(q)'
    BY <1>1, <1>4, <2>3 DEF AtList
  <2>5. Part(seen', p, q)
    BY <1>1, <2>3
  <2> QED
    BY <1>1, <1>4, <2>2, <2>3, <2>4, <2>5, ComeOn
<1> QED
  BY <1>5, <1>6

\* A traversal that is at the read module
LEMMA ReaderStep ==
  ASSUME ListsOK, WalkOK, Len(Readers) <= 1, AtReader,
         NEW n \in Nat, NEW p \in Nat, NEW q \in Nat, Come(n, p, q),
         Gives(Traverser) \/ ReaderEnds \/ Skips \/ Fails
  PROVE  Progress'
<1> DEFINE kind == trav.kind
           r    == Readers[1]
           R    == db[kind][r]
<1>1. /\ trav # None /\ trav \in Trav /\ trav.wr_mod = FALSE /\ Len(Readers) \in Nat
      /\ Traverser \in Iter /\ trav.rd_mod \in 1 .. Len(Readers)
  BY AtReaderIs
<1>2. Len(Readers) = 1 /\ trav.rd_mod = 1 /\ kind \in Kinds
  <2>1. kind \in Kinds
    BY <1>1 DEF Trav
  <2>2. Len(Readers) = 1
    <3>1. Len(Readers) = 0 \/ Len(Readers) = 1
      BY AskedIs
    <3> QED
      BY <1>1, <3>1
  <2>3. trav.rd_mod = 1
    BY <1>1, <2>2
  <2> QED
    BY <2>1, <2>2, <2>3
<1>3. /\ n <= Len(db[kind][Writer]) /\ Part(due, n, ReadLen(kind)) /\ Part(seen, p, q)
      /\ n <= p \/ Writer \in skipped
      /\ AtList(q)
  BY <1>1 DEF Come
<1>4. Traverser.mod = r /\ Traverser.live /\ Traverser.pos = q + 1
  <2>1. /\ trav.itrav = None => Traverser = [mod |-> r, pos |-> 1, live |-> TRUE]
        /\ trav.itrav # None => Traverser = trav.itrav
    BY <1>1, <1>2, TraverserIs
  <2>2. \/ trav.itrav = None /\ q = 0
        \/ trav.itrav # None /\ trav.itrav.mod = r /\ trav.itrav.live /\ trav.itrav.pos = q + 1
    BY <1>2, <1>3 DEF AtList
  <2> QED
    BY <2>1, <2>2
<1>5. /\ Len(R) \in Nat /\ ReadLen(kind) = Len(R) /\ r \in Modules
      /\ \A i \in 1 .. Len(R) : R[i].name \in Name[kind]
  <2>1. r \in Modules
    BY <1>2, FirstReader
  <2>2. ListOK(R, kind)
    BY <1>2, <2>1 DEF ListsOK
  <2> QED
    BY <1>2, <2>1, <2>2, EntriesAre, ReadLenIs
<1>6. UNCHANGED <<db, due>> /\ skipped \subseteq skipped'
  BY DEF Gives, ReaderEnds, Skips, Fails
<1>7. n <= p \/ Writer \in skipped'
  BY <1>3, <1>6
<1>8. ReadLen(kind)' = ReadLen(kind)
  <2>1. trav'.kind = kind
    BY DEF Gives, ReaderEnds, Skips, Fails
  <2> QED
    BY <1>6, <2>1 DEF ReadLen
<1>9. CASE Gives(Traverser)
  <2>1. ~(q + 1 > Len(R))
    BY <1>4, <1>9 DEF Gives, Exhausted
  <2>2. q + 1 \in 1 .. Len(R)
    BY <1>5, <2>1
  <2> DEFINE e == [mod |-> Traverser.mod, pos |-> Traverser.pos, name |-> Current(Traverser).name]
  <2>3. e.mod = r /\ e.pos = q + 1
    BY <1>4
  <2>4. Current(Traverser) = R[q + 1]
    BY <1>4 DEF Current
  <2>5. e \in Place
    BY <1>2, <1>4, <1>5, <2>2, <2>4 DEF Place
  <2>6. seen' = Append(seen, e)
    BY <1>9 DEF Gives
  <2> HIDE DEF e
  <2>7. Part(seen', p, q + 1)
    BY <1>2, <1>3, <2>3, <2>5, <2>6, PartNext
  <2>8. /\ trav'.kind = kind /\ trav'.rd_mod = 1 /\ ~trav'.wr_mod /\ trav'.itrav = Advanced(Traverser)
    BY <1>1, <1>2, <1>9 DEF Gives
  <2>9. /\ trav'.itrav \in Iter /\ trav'.itrav.mod = r /\ trav'.itrav.live
        /\ trav'.itrav.pos = q + 1 + 1
    BY <1>1, <1>4, <2>8, IterUpdated
  <2>10. trav'.itrav # None
    BY <2>9, MmdAssumption
  <2>11. AtList(q + 1)'
    BY <1>2, <2>8, <2>9, <2>10 DEF AtList
  <2> HIDE DEF kind
  <2>12. q + 1 \in Nat
    OBVIOUS
  <2> QED
    BY <1>3, <1>6, <1>7, <2>7, <2>8, <2>11, <2>12, ComeOn DEF kind
<1>10. CASE ReaderEnds
  <2>1. q + 1 > Len(R)
    BY <1>4, <1>10 DEF ReaderEnds, Exhausted
  <2>2. q >= ReadLen(kind)
    BY <1>5, <2>1
  <2>3. trav'.kind = kind /\ trav'.rd_mod = 2 /\ ~trav'.wr_mod /\ seen' = seen
    BY <1>2, <1>10 DEF ReaderEnds
  <2>4. AtList(q)'
    BY <1>2, <1>8, <2>2, <2>3 DEF AtList
  <2>5. Part(seen', p, q)
    BY <1>3, <2>3
  <2> QED
    BY <1>3, <1>6, <1>7, <2>3, <2>4, <2>5, ComeOn
<1>11. CASE Skips
  <2>1. trav'.kind = kind /\ trav'.rd_mod = 2 /\ ~trav'.wr_mod /\ seen' = seen /\ r \in skipped'
    BY <1>2, <1>11 DEF Skips
  <2>2. AtList(q)'
    BY <1>2, <2>1 DEF AtList
  <2>3. Part(seen', p, q)
    BY <1>3, <2>1
  <2> QED
    BY <1>3, <1>6, <1>7, <2>1, <2>2, <2>3, ComeOn
<1>12. CASE Fails
  <2>1. seen' = seen /\ skipped' = skipped
    BY <1>12 DEF Fails
  <2>2. Part(seen', p, q)
    BY <1>3, <2>1
  <2>3. trav'.kind = kind /\ ~trav'.wr_mod /\ AtList(q)'
    <3>1. CASE trav' = trav
      BY <1>1, <1>3, <1>8, <2>1, <3>1 DEF AtList
    <3>2. CASE trav' # trav
      <4>1. trav' = [kind |-> kind, itrav |-> Traverser, rd_mod |-> 1, wr_mod |-> FALSE]
        BY <1>2, <1>12, <3>2 DEF Fails
      <4>2. trav'.kind = kind /\ trav'.itrav = Traverser /\ trav'.rd_mod = 1 /\ ~trav'.wr_mod
        BY <4>1
      <4>3. Traverser # None
        BY <1>1, MmdAssumption
      <4>4. AtList(q)'
        BY <1>2, <1>4, <4>2, <4>3 DEF AtList
      <4> QED
        BY <4>2, <4>4
    <3> QED
      BY <3>1, <3>2
  <2> QED
    BY <1>3, <1>6, <1>7, <2>2, <2>3, ComeOn
<1> QED
  BY <1>9, <1>10, <1>11, <1>12

LEMMA ProgressStep ==
  ASSUME ModulesOK, ListsOK, WalkOK, Progress, [Next]_vars, Len(Readers) <= 1
  PROVE  Progress'
<1>1. ASSUME UNCHANGED <<trav, skipped, due, seen>> PROVE Progress'
  <2> SUFFICES ASSUME trav # None PROVE Progress'
    BY <1>1 DEF Progress
  <2>1. PICK n, p, q \in Nat : Come(n, p, q)
    BY DEF Progress
  <2> DEFINE kind == trav.kind
  <2>2. kind \in Kinds
    BY DEF WalkOK, Trav
  <2>3. /\ Len(db[kind][Writer]) \in Nat
        /\ Len(db'[kind][Writer]) \in Nat
        /\ Len(db[kind][Writer]) <= Len(db'[kind][Writer])
        /\ \A m \in Modules : m # Writer => db'[kind][m] = db[kind][m]
    BY <2>2, ListsStay
  <2>4. ReadLen(kind)' = ReadLen(kind)
    <3>1. Len(Readers) = 0 \/ db'[kind][Readers[1]] = db[kind][Readers[1]]
      BY <2>3, FirstReader, AskedIs
    <3>2. trav' = trav
      BY <1>1
    <3> QED
      BY <3>1, <3>2 DEF ReadLen
  <2>5. Come(n, p, q)'
    BY <1>1, <2>1, <2>3, <2>4, ComeStays
  <2> QED
    BY <2>5 DEF Progress
<1>2. ASSUME NEW kind \in Kinds, NEW ok \in BOOLEAN, Began(kind, ok) PROVE Progress'
  <2>1. /\ trav'.kind = kind /\ trav'.rd_mod = 1 /\ trav'.wr_mod = ok
        /\ trav'.itrav = IF ok THEN NewTraverser(Writer) ELSE None
        /\ skipped' = IF ok THEN {} ELSE {Writer}
        /\ due' = Entries(kind, Modules) /\ seen' = <<>> /\ db' = db
    BY <1>2 DEF Began
  <2>2. Writer \in Modules
    BY <1>2 DEF Began, ModulesOK
  <2>3. Len(db[kind][Writer]) \in Nat
    BY <2>2, ListTypes
  <2>4. PICK n \in Nat : n = Len(db[kind][Writer])
    BY <2>3
  <2>5. Part(Entries(kind, Modules), n, ReadLen(kind))
    BY <2>2, <2>4, EntriesPart
  <2>6. Part(<<>>, 0, 0)
    BY DEF Part
  <2>7. ReadLen(trav.kind)' = ReadLen(kind)
    BY <2>1 DEF ReadLen
  <2>8. Part(due', n, ReadLen(trav.kind)') /\ Part(seen', 0, 0)
    BY <2>1, <2>5, <2>6, <2>7
  <2>9. n <= Len(db'[trav'.kind][Writer])
    BY <2>1, <2>4
  <2>10. \/ trav'.wr_mod /\ trav'.rd_mod = 1 /\ trav'.itrav.pos = 0 + 1
         \/ ~trav'.wr_mod /\ Writer \in skipped' /\ AtList(0)'
    BY <2>1 DEF AtList, NewTraverser
  <2> QED
    BY <2>8, <2>9, <2>10, ComeTo
<1>3. ASSUME trav # None PROVE \E n, p, q \in Nat : Come(n, p, q)
  BY <1>3 DEF Progress
<1>4. CASE trav.wr_mod /\ (Gives(trav.itrav) \/ WriterEnds)
  <2>1. /\ trav # None /\ trav \in Trav /\ Writer \in Modules
        /\ trav.itrav \in Iter /\ trav.itrav.live /\ trav.itrav.mod = Writer
    BY <1>4 DEF Gives, WriterEnds, WalkOK, ModulesOK
  <2>2. PICK n, p, q \in Nat : Come(n, p, q)
    BY <1>3, <2>1
  <2> QED
    BY <1>4, <2>1, <2>2, WriterStep
<1>5. CASE AtReader /\ (Gives(Traverser) \/ ReaderEnds \/ Skips \/ Fails)
  <2>1. trav # None
    BY <1>5, AtReaderIs
  <2>2. PICK n, p, q \in Nat : Come(n, p, q)
    BY <1>3, <2>1
  <2> QED
    BY <1>5, <2>2, ReaderStep
<1>6. CASE Frees
  BY <1>6 DEF Frees, Progress
<1>7. CASE Fails /\ ~AtReader
  BY <1>1, <1>7 DEF Fails
<1>8. CASE UNCHANGED walk \/ Called \/ Ends
  BY <1>1, <1>8 DEF walk, Called, Ends
<1> QED
  BY <1>2, <1>4, <1>5, <1>6, <1>7, <1>8, WalkCases DEF WalkStep, WriterEnds, ReaderEnds, Skips

LEMMA Complete ==
  ASSUME ModulesOK, ListsOK, WalkOK, Progress, Len(Readers) <= 1
  PROVE  TraversalComplete
<1> SUFFICES ASSUME ret = "end"
             PROVE  /\ \A i, j \in DOMAIN seen : At(seen[i]) = At(seen[j]) => i = j
                    /\ \A i, j \in DOMAIN due :
                         i <= j /\ due[i].mod \notin skipped /\ due[j].mod \notin skipped =>
                         \E x, y \in DOMAIN seen :
                           x <= y /\ At(seen[x]) = At(due[i]) /\ At(seen[y]) = At(due[j])
  BY DEF TraversalComplete
<1> DEFINE kind == trav.kind
           r    == ReadLen(kind)
<1>1. trav # None /\ trav \in Trav /\ ~trav.wr_mod /\ trav.rd_mod > Len(Readers)
  BY DEF WalkOK
<1>2. kind \in Kinds
  BY <1>1 DEF Trav
<1>3. PICK n, p, q \in Nat : Come(n, p, q)
  BY <1>1 DEF Progress
<1>4. Part(due, n, r) /\ Part(seen, p, q) /\ (n <= p \/ Writer \in skipped) /\ AtList(q)
  BY <1>1, <1>3 DEF Come
<1>5. r \in Nat /\ (Len(Readers) = 0 \/ Len(Readers) = 1) /\ (Len(Readers) = 0 => r = 0)
  BY <1>2, ReadLenIs, AskedIs
<1>6. q >= r \/ (Len(Readers) = 1 /\ Readers[1] \in skipped)
  BY <1>1, <1>4, <1>5 DEF AtList
<1>7. Len(Readers) = 1 => Readers[1] # Writer
  BY FirstReader
<1> HIDE DEF r
<1>8. /\ DOMAIN seen = 1 .. p + q /\ (q = 0 \/ Len(Readers) = 1)
      /\ \A i \in 1 .. p : At(seen[i]) = <<Writer, i>>
      /\ \A i \in 1 .. q : At(seen[p + i]) = <<Readers[1], i>>
  BY <1>4 DEF Part, At
<1>9. /\ DOMAIN due = 1 .. n + r /\ (r = 0 \/ Len(Readers) = 1)
      /\ \A i \in 1 .. n : At(due[i]) = <<Writer, i>> /\ due[i].mod = Writer
      /\ \A i \in 1 .. r : At(due[n + i]) = <<Readers[1], i>> /\ due[n + i].mod = Readers[1]
  BY <1>4 DEF Part, At
<1>10. ASSUME NEW i \in DOMAIN seen
       PROVE  \/ i \in 1 .. p /\ At(seen[i]) = <<Writer, i>>
              \/ i - p \in 1 .. q /\ At(seen[i]) = <<Readers[1], i - p>> /\ Len(Readers) = 1
  <2>1. i \in 1 .. p + q
    BY <1>8
  <2>2. CASE i <= p
    BY <1>8, <2>1, <2>2
  <2>3. CASE ~(i <= p)
    <3>1. i - p \in 1 .. q /\ p + (i - p) = i
      BY <2>1, <2>3
    <3>2. At(seen[p + (i - p)]) = <<Readers[1], i - p>>
      BY <1>8, <3>1
    <3> QED
      BY <1>8, <3>1, <3>2
  <2> QED
    BY <2>2, <2>3
<1>11. ASSUME NEW i \in DOMAIN seen, NEW j \in DOMAIN seen, At(seen[i]) = At(seen[j]) PROVE i = j
  <2>1. i \in Nat /\ j \in Nat
    BY <1>8
  <2>3. CASE i \in 1 .. p /\ At(seen[i]) = <<Writer, i>>
    <3>1. CASE j \in 1 .. p /\ At(seen[j]) = <<Writer, j>>
      <4>1. <<Writer, i>> = <<Writer, j>>
        BY <1>11, <2>3, <3>1, Zenon
      <4> QED
        BY <4>1
    <3>2. CASE At(seen[j]) = <<Readers[1], j - p>> /\ Len(Readers) = 1
      <4>1. <<Writer, i>> = <<Readers[1], j - p>>
        BY <1>11, <2>3, <3>2, Zenon
      <4>2. Writer = Readers[1]
        BY <4>1
      <4> QED
        BY <1>7, <3>2, <4>2
    <3> QED
      BY <1>10, <3>1, <3>2
  <2>4. CASE i - p \in 1 .. q /\ At(seen[i]) = <<Readers[1], i - p>> /\ Len(Readers) = 1
    <3>1. At(seen[j]) = <<Readers[1], j - p>>
      <4>1. CASE At(seen[j]) = <<Writer, j>>
        <5>1. <<Writer, j>> = <<Readers[1], i - p>>
          BY <1>11, <2>4, <4>1, Zenon
        <5>2. Writer = Readers[1]
          BY <5>1
        <5> QED
          BY <1>7, <2>4, <5>2
      <4> QED
        BY <1>10, <4>1
    <3>2. <<Readers[1], i - p>> = <<Readers[1], j - p>>
      BY <1>11, <2>4, <3>1, Zenon
    <3>3. i - p = j - p
      BY <3>2
    <3> QED
      BY <2>1, <3>3
  <2> QED
    BY <1>10, <2>3, <2>4
<1> DEFINE where(i) == IF i <= n THEN i ELSE i - n + p
<1>12. ASSUME NEW i \in DOMAIN due, due[i].mod \notin skipped
       PROVE  where(i) \in DOMAIN seen /\ At(seen[where(i)]) = At(due[i]) /\ (i <= n => i <= p)
  <2>1. i \in 1 .. n + r
    BY <1>9
  <2>2. CASE i <= n
    <3>1. i \in 1 .. n
      BY <2>1, <2>2
    <3>2. n <= p
      BY <1>4, <1>9, <1>12, <3>1
    <3>3. i \in 1 .. p /\ i \in 1 .. p + q
      BY <3>1, <3>2
    <3>4. At(seen[i]) = At(due[i]) /\ i \in DOMAIN seen /\ i <= p
      BY <1>8, <1>9, <3>1, <3>3
    <3> QED
      BY <2>2, <3>4
  <2>3. CASE ~(i <= n)
    <3> DEFINE h == i - n
    <3>1. h \in 1 .. r /\ where(i) = p + h /\ i = n + h
      BY <1>5, <2>1, <2>3
    <3> HIDE DEF h, where
    <3>2. due[i].mod = Readers[1] /\ At(due[i]) = <<Readers[1], h>>
      BY <1>9, <3>1
    <3>3. q >= r
      BY <1>6, <1>12, <3>2
    <3>4. h \in 1 .. q /\ p + h \in 1 .. p + q
      BY <1>5, <3>1, <3>3
    <3> QED
      BY <1>8, <2>3, <3>1, <3>2, <3>4
  <2> QED
    BY <2>2, <2>3
<1>13. ASSUME NEW i \in DOMAIN due, NEW j \in DOMAIN due, i <= j,
              due[i].mod \notin skipped, due[j].mod \notin skipped
       PROVE  \E x, y \in DOMAIN seen :
                x <= y /\ At(seen[x]) = At(due[i]) /\ At(seen[y]) = At(due[j])
  <2>1. where(i) \in DOMAIN seen /\ At(seen[where(i)]) = At(due[i]) /\ (i <= n => i <= p)
    BY <1>12, <1>13
  <2>2. where(j) \in DOMAIN seen /\ At(seen[where(j)]) = At(due[j])
    BY <1>12, <1>13
  <2>3. i \in Nat /\ j \in Nat
    BY <1>5, <1>9
  <2>4. where(i) <= where(j)
    BY <1>13, <2>1, <2>3
  <2> HIDE DEF where
  <2> QED
    BY <2>1, <2>2, <2>4
<1> QED
  BY <1>11, <1>13

(* With one read module or none, a traversal that comes to its end has       *)
(* returned every entry that was there when it began, in order, and none     *)
(* twice, but for those of a module that gave no traverser; however the      *)
(* lists are changed through the handle on the way, and at whichever turn a  *)
(* module fails.                                                             *)
THEOREM TraversalIsComplete == ASSUME Len(Readers) <= 1 PROVE Spec => []TraversalComplete
<1>1. Init => Progress
  BY DEF Init, Progress
<1>2. ModulesOK /\ ListsOK /\ WalkOK /\ Progress /\ [Next]_vars => Progress'
  BY ProgressStep
<1>3. ModulesOK /\ ListsOK /\ WalkOK /\ Progress => TraversalComplete
  BY Complete
<1> QED
  BY <1>1, <1>2, <1>3, ModulesHold, ListsHold, WalkHolds, PTL DEF Spec

-----------------------------------------------------------------------------
(* Automatic ids, with one read module or none *)

AllIds(kind) == UNION {Ids(kind, m) : m \in Modules}

IdsOK == \A k \in Kinds : \A m \in Modules : Ids(k, m) \subseteq Nat

\* AutoId_proofs, for what it says of the search for the highest id of a list,
\* which does not depend on the limits it is given here
U == INSTANCE AutoId_proofs WITH
       ids <- <<>>, given <- 0, driver <- "mmd", wide <- ~LongIsInt, Explicit <- {},
       MaxUsers <- 0, IdMin <- AutoRange["user"].min, IdMax <- AutoRange["user"].max

LEMMA NumbersAre ==
  /\ M \in Nat /\ M > 3 /\ ENOSPC \in Nat /\ ENOSPC > 2 /\ ENOSPC <= M
  /\ (-1) % M = M - 1 /\ (-2) % M = M - 2 /\ (-ENOSPC) % M \in Nat
  /\ \A i \in Nat : i < M => i % M = i
<1>1. M \in Nat /\ M % 2 = 0 /\ ENOSPC \in 3 .. M
  BY MmdAssumption
<1>2. M \in Nat /\ ENOSPC \in Nat /\ ENOSPC > 2 /\ ENOSPC <= M /\ M > 3
  BY <1>1
<1>3. (-1) % M = M - 1
  BY <1>2
<1>4. (-2) % M = M - 2
  BY <1>2
<1>5. (-ENOSPC) % M \in Nat
  BY <1>2
<1>6. \A i \in Nat : i < M => i % M = i
  BY <1>2
<1> QED
  BY <1>2, <1>3, <1>4, <1>5, <1>6

\* The numbers that ask for an automatic id, and the limits for them
LEMMA LimitsAre ==
  ASSUME NEW kind \in Kinds, NEW wanted \in {M - 1, M - 2}
  PROVE  LET r == A(kind)!Limits(wanted)
         IN  /\ r.min \in Nat /\ r.max \in Nat /\ 1 <= r.min /\ r.max < M
             /\ r.max <= AutoRange[kind].max
             /\ r.min .. r.max = Pool(kind, wanted)
<1> DEFINE range == AutoRange[kind]
<1>1. /\ range.max \in Nat /\ range.max < M - ENOSPC /\ range.min \in 1 .. range.max
  BY MmdAssumption
<1> HIDE DEF range
<1>2. (range.min - 1) % M = range.min - 1
  BY <1>1, NumbersAre
<1>3. CASE wanted = M - 2
  <2>1. A(kind)!Limits(wanted) = [min |-> 1, max |-> range.min - 1]
    BY <1>2, <1>3, NumbersAre DEF A!Limits, A!AUTOID_SYS, A!Unsigned, range
  <2>2. Pool(kind, wanted) = 1 .. (range.min - 1)
    BY <1>3 DEF Pool, range
  <2>3. range.min - 1 \in Nat /\ range.min - 1 <= range.max /\ range.min - 1 < M
    BY <1>1, NumbersAre
  <2> QED
    BY <2>1, <2>2, <2>3 DEF range
<1>4. CASE wanted = M - 1
  <2>1. wanted # M - 2
    BY <1>4, NumbersAre
  <2>2. A(kind)!Limits(wanted) = [min |-> range.min, max |-> range.max]
    BY <2>1, NumbersAre DEF A!Limits, A!AUTOID_SYS, A!Unsigned, range
  <2> QED
    BY <1>1, <2>1, <2>2, NumbersAre DEF Pool, range
<1> QED
  BY <1>3, <1>4

\* The highest id of the range in a list, if it is not negative
LEMMA HighIs ==
  ASSUME NEW kind \in Kinds, NEW list \in Seq(Nat), NEW r, r.min \in Nat, r.max \in Nat, r.max < M
  PROVE  LET high == A(kind)!Highest(list, r)
         IN  /\ high \in Int /\ (high >= 0 => high \in r.min .. r.max)
             /\ r.max < M \div 2 => \A i \in 1 .. Len(list) : list[i] \in r.min .. r.max => list[i] <= high
<1> DEFINE high == U!Highest(list, r)
<1>1. A(kind)!Highest(list, r) = high
  BY DEF A!Highest, A!Exceeds, A!Signed, A!Unsigned, U!Highest, U!Exceeds, U!Signed, U!Unsigned
<1>2. U!WidthAssumption
  BY MmdAssumption DEF U!WidthAssumption, Kinds
<1>3. /\ high = -1 \/ \E x \in U!Taken(list, r, Len(list)) : high = U!Signed(x)
      /\ r.max < M \div 2 => \A x \in U!Taken(list, r, Len(list)) : x <= high
  BY <1>2, U!HighestIs
<1> HIDE DEF high
<1>4. M \in Nat /\ M > 3
  BY NumbersAre
<1>5. ASSUME NEW x \in U!Taken(list, r, Len(list)), high = U!Signed(x)
      PROVE  high \in Int /\ (high >= 0 => high \in r.min .. r.max)
  <2>1. x \in r.min .. r.max
    BY DEF U!Taken
  <2>2. x \in Nat /\ x < M
    BY <1>4, <2>1
  <2>3. M \div 2 \in Nat /\ M \div 2 <= M
    BY <1>4
  <2>4. high = x \/ (high = x - M /\ high < 0)
    BY <1>4, <1>5, <2>2, <2>3 DEF U!Signed
  <2> QED
    BY <1>4, <2>1, <2>2, <2>4
<1>6. high \in Int /\ (high >= 0 => high \in r.min .. r.max)
  BY <1>3, <1>5
<1>7. \A i \in 1 .. Len(list) : list[i] \in r.min .. r.max => list[i] \in U!Taken(list, r, Len(list))
  BY DEF U!Taken
<1> QED
  BY <1>1, <1>3, <1>6, <1>7

LEMMA CombinedHas ==
  ASSUME ListsOK, Writer \in Modules, NEW kind \in Kinds, NEW ok, NEW n \in 0 .. Len(Asked)
  PROVE  /\ Combined(kind, ok, n) \in Seq(All(kind))
         /\ \A j \in 1 .. n : Asked[j] \in ok => Includes(Combined(kind, ok, n), db[kind][Asked[j]])
<1> DEFINE b == [j \in 1 .. n |-> IF Asked[j] \in ok THEN db[kind][Asked[j]] ELSE <<>>]
<1>1. Combined(kind, ok, n) = Joined(b)
  BY DEF Combined
<1>2. Len(b) = n /\ n \in Nat
  BY AskedIs
<1>3. \A j \in 1 .. n : b[j] \in Seq(All(kind))
  <2> SUFFICES ASSUME NEW j \in 1 .. n PROVE b[j] \in Seq(All(kind))
    OBVIOUS
  <2>1. j \in 1 .. Len(Readers) + 1
    BY AskedIs
  <2>2. Asked[j] \in Modules
    BY <2>1, AskedModule
  <2>3. db[kind][Asked[j]] \in Seq(All(kind))
    BY <2>2, ListTypes
  <2>4. <<>> \in Seq(All(kind))
    OBVIOUS
  <2> QED
    BY <2>3, <2>4
<1>4. \A j \in 1 .. n : Asked[j] \in ok => b[j] = db[kind][Asked[j]]
  OBVIOUS
<1> HIDE DEF b
<1>5. Joined(b) \in Seq(All(kind)) /\ \A j \in 1 .. n : Includes(Joined(b), b[j])
  BY <1>2, <1>3, JoinedHas
<1> QED
  BY <1>1, <1>4, <1>5

\* A walk finds the entries of every module that is asked before the first one
\* that may fail.
LEMMA WalkHas ==
  ASSUME ListsOK, Len(Readers) <= 1, Writer \in Modules, NEW kind \in Kinds, NEW bad,
         NEW l \in Walks(kind, bad)
  PROVE  l \in Seq(All(kind)) /\ \A m \in Sound(bad) : Includes(l, db[kind][m])
<1> DEFINE N == Len(Asked)
<1>1. N \in {1, 2} /\ N = Len(Readers) + 1 /\ DOMAIN Asked = 1 .. N
  BY AskedIs
<1>2. \A m \in Sound(bad) : \E j \in 1 .. N : /\ m = Asked[j] /\ m \in Modules
                                              /\ \A k \in 1 .. j : Asked[k] \notin bad
  BY <1>1, AskedModule DEF Sound
<1>3. ASSUME NEW out \in SUBSET bad, NEW n \in {N} \cup 2 .. N, l = Combined(kind, Modules \ out, n)
      PROVE  l \in Seq(All(kind)) /\ \A m \in Sound(bad) : Includes(l, db[kind][m])
  <2>1. n = N /\ n \in 0 .. N
    BY <1>1
  <2>2. /\ l \in Seq(All(kind))
        /\ \A j \in 1 .. n : Asked[j] \in Modules \ out => Includes(l, db[kind][Asked[j]])
    BY <1>3, <2>1, CombinedHas
  <2>3. ASSUME NEW m \in Sound(bad) PROVE Includes(l, db[kind][m])
    <3>1. PICK j \in 1 .. N : m = Asked[j] /\ m \in Modules /\ \A k \in 1 .. j : Asked[k] \notin bad
      BY <1>2
    <3>2. j \in 1 .. n /\ j \in 1 .. j
      BY <2>1
    <3>3. Asked[j] \in Modules \ out
      BY <3>1, <3>2
    <3> QED
      BY <2>2, <3>1, <3>2, <3>3
  <2> QED
    BY <2>2, <2>3
<1>4. ASSUME NEW n \in {j \in DOMAIN Asked : Asked[j] \in bad}, NEW out \in SUBSET bad,
             NEW p \in 0 .. Len(db[kind][Asked[n]]),
             l = Combined(kind, Modules \ out, n - 1) \o SubSeq(db[kind][Asked[n]], 1, p)
      PROVE  l \in Seq(All(kind)) /\ \A m \in Sound(bad) : Includes(l, db[kind][m])
  <2> DEFINE s == Combined(kind, Modules \ out, n - 1)
             t == SubSeq(db[kind][Asked[n]], 1, p)
             S == All(kind)
  <2>1. n \in 1 .. N /\ Asked[n] \in bad /\ n - 1 \in 0 .. N
    BY <1>1
  <2>2. /\ s \in Seq(S)
        /\ \A j \in 1 .. n - 1 : Asked[j] \in Modules \ out => Includes(s, db[kind][Asked[j]])
    BY <2>1, CombinedHas
  <2>3. t \in Seq(S)
    <3> DEFINE list == db[kind][Asked[n]]
    <3>1. list \in Seq(S) /\ Len(list) \in Nat
      BY <1>1, <2>1, AskedModule, ListTypes
    <3> HIDE DEF list, S
    <3>2. SubSeq(list, 1, p) \in Seq(S)
      BY <3>1 DEF list
    <3> QED
      BY <3>2 DEF list
  <2>4. l = s \o t
    BY <1>4
  <2>5. ASSUME NEW m \in Sound(bad) PROVE Includes(s, db[kind][m])
    <3>1. PICK j \in 1 .. N : m = Asked[j] /\ m \in Modules /\ \A k \in 1 .. j : Asked[k] \notin bad
      BY <1>2
    <3>2. j < n
      BY <1>1, <2>1, <3>1
    <3>3. j \in 1 .. n - 1 /\ j \in 1 .. j
      BY <1>1, <2>1, <3>2
    <3>4. Asked[j] \in Modules \ out
      BY <3>1, <3>3
    <3> QED
      BY <2>2, <3>1, <3>3, <3>4
  <2> HIDE DEF s, t, S
  <2>6. l \in Seq(S) /\ \A m \in Sound(bad) : Includes(l, db[kind][m])
    BY <2>2, <2>3, <2>4, <2>5, ConcatIncludes
  <2> QED
    BY <2>6 DEF S
<1>5. PICK out \in SUBSET bad : l \in WalkOf(kind, out, bad)
  BY DEF Walks
<1> DEFINE whole  == {Combined(kind, Modules \ out, n) : n \in {N} \cup 2 .. N}
           cut(n) == {Combined(kind, Modules \ out, n - 1) \o SubSeq(db[kind][Asked[n]], 1, p) :
                        p \in 0 .. Len(db[kind][Asked[n]])}
           D      == {j \in DOMAIN Asked : Asked[j] \in bad}
<1>6. l \in whole \/ \E n \in D : l \in cut(n)
  BY <1>5 DEF WalkOf
<1>7. ASSUME l \in whole PROVE l \in Seq(All(kind)) /\ \A m \in Sound(bad) : Includes(l, db[kind][m])
  BY <1>3, <1>7
<1>8. ASSUME NEW n \in D, l \in cut(n)
      PROVE  l \in Seq(All(kind)) /\ \A m \in Sound(bad) : Includes(l, db[kind][m])
  BY <1>4, <1>8
<1> HIDE DEF whole, cut, D
<1> QED
  BY <1>6, <1>7, <1>8

\* The ids in a walk
LEMMA WalkIds ==
  ASSUME ListsOK, IdsOK, Len(Readers) <= 1, Writer \in Modules, NEW kind \in Kinds, NEW bad,
         NEW l \in Walks(kind, bad)
  PROVE  /\ IdsIn(l) \in Seq(Nat)
         /\ \A i \in DOMAIN l : i \in 1 .. Len(IdsIn(l)) /\ IdsIn(l)[i] = l[i].id /\ l[i].id \in AllIds(kind)
         /\ \A m \in Sound(bad) : \A id \in Ids(kind, m) : \E i \in DOMAIN l : l[i].id = id
<1> DEFINE S == All(kind)
<1>1. l \in Seq(S) /\ \A m \in Sound(bad) : Includes(l, db[kind][m])
  BY WalkHas
<1>2. \A e \in S : e.id \in AllIds(kind)
  BY DEF All, AllIds, Ids
<1>3. AllIds(kind) \subseteq Nat
  BY DEF AllIds, IdsOK
<1> HIDE DEF S
<1>4. Len(l) \in Nat /\ DOMAIN l = 1 .. Len(l) /\ \A i \in 1 .. Len(l) : l[i] \in S
  BY <1>1
<1>5. \A i \in DOMAIN l : l[i].id \in AllIds(kind) /\ l[i].id \in Nat
  BY <1>2, <1>3, <1>4
<1>6. IdsIn(l) = [i \in 1 .. Len(l) |-> l[i].id]
  BY <1>4 DEF IdsIn
<1>7. IdsIn(l) \in Seq(Nat) /\ Len(IdsIn(l)) = Len(l)
  BY <1>4, <1>5, <1>6
<1>8. \A i \in DOMAIN l : i \in 1 .. Len(IdsIn(l)) /\ IdsIn(l)[i] = l[i].id
  BY <1>4, <1>6, <1>7
<1>9. ASSUME NEW m \in Sound(bad), NEW id \in Ids(kind, m) PROVE \E i \in DOMAIN l : l[i].id = id
  <2>1. PICK j \in DOMAIN db[kind][m] : db[kind][m][j].id = id
    BY DEF Ids
  <2>2. PICK i \in DOMAIN l : l[i] = db[kind][m][j]
    BY <1>1 DEF Includes
  <2> QED
    BY <2>1, <2>2
<1> QED
  BY <1>5, <1>7, <1>8, <1>9

\* What vxmmd_autouid() and vxmmd_autogid() may return
LEMMA ChosenIs ==
  ASSUME ListsOK, IdsOK, Len(Readers) <= 1, Writer \in Modules, NEW kind \in Kinds,
         NEW wanted \in Wanted, NEW bad, NEW id \in autoid(kind, bad, wanted)
  PROVE  /\ id \in Nat
         /\ wanted \in AutoAsked /\ AutoRange[kind].max < M \div 2 /\ Free(kind, wanted) # {} =>
              id \in Pool(kind, wanted) /\ \A m \in Sound(bad) : id \notin Ids(kind, m)
<1> DEFINE Goal == /\ id \in Nat
                   /\ wanted \in AutoAsked /\ AutoRange[kind].max < M \div 2 /\ Free(kind, wanted) # {} =>
                        id \in Pool(kind, wanted) /\ \A m \in Sound(bad) : id \notin Ids(kind, m)
           r       == A(kind)!Limits(wanted)
           high(l) == A(kind)!Highest(IdsIn(l), r)
           has(l, a) == \E i \in DOMAIN l : l[i].id = a
           lists   == Walks(kind, bad)
<1>1. /\ A(kind)!AUTOID = M - 1 /\ A(kind)!AUTOID_SYS = M - 2 /\ A(kind)!Full \in Nat
      /\ \A i \in Nat : i < M => A(kind)!Unsigned(i) = i
  BY NumbersAre DEF A!AUTOID, A!AUTOID_SYS, A!Full, A!Unsigned
<1>2. CASE wanted \notin {M - 1, M - 2}
  <2>1. id = wanted
    BY <1>1, <1>2 DEF autoid, ChosenFrom
  <2>2. wanted \in Nat
    BY MmdAssumption
  <2> QED
    BY <1>2, <2>1, <2>2 DEF AutoAsked
<1>3. CASE wanted \in {M - 1, M - 2}
  <2>1. \/ \E l \in lists : 0 <= high(l) /\ high(l) < r.max /\ id = A(kind)!Unsigned(high(l) + 1)
        \/ id \in r.min .. r.max /\ \E l \in lists : ~has(l, id)
        \/ id = A(kind)!Full /\ \A b \in r.min .. r.max : \E l \in lists : has(l, b)
    BY <1>1, <1>3 DEF autoid, ChosenFrom
  <2>2. /\ r.min \in Nat /\ r.max \in Nat /\ 1 <= r.min /\ r.max < M /\ r.max <= AutoRange[kind].max
        /\ r.min .. r.max = Pool(kind, wanted)
    BY <1>3, LimitsAre
  <2>3. \A l \in lists :
          /\ \A i \in DOMAIN l : l[i].id \in AllIds(kind)
          /\ \A m \in Sound(bad) : \A a \in Ids(kind, m) : has(l, a)
    BY WalkIds
  <2>4. ASSUME NEW l \in lists
        PROVE  /\ high(l) \in Int /\ (high(l) >= 0 => high(l) \in r.min .. r.max)
               /\ r.max < M \div 2 => \A a \in r.min .. r.max : has(l, a) => a <= high(l)
    <3>1. /\ IdsIn(l) \in Seq(Nat)
          /\ \A i \in DOMAIN l : i \in 1 .. Len(IdsIn(l)) /\ IdsIn(l)[i] = l[i].id
      BY WalkIds
    <3> HIDE DEF r
    <3>2. /\ high(l) \in Int /\ (high(l) >= 0 => high(l) \in r.min .. r.max)
          /\ r.max < M \div 2 =>
               \A i \in 1 .. Len(IdsIn(l)) : IdsIn(l)[i] \in r.min .. r.max => IdsIn(l)[i] <= high(l)
      BY <2>2, <3>1, HighIs
    <3> HIDE DEF high
    <3> QED
      BY <3>1, <3>2
  <2>5. AutoRange[kind].max < M \div 2 => r.max < M \div 2
    <3>1. AutoRange[kind].max \in Nat /\ M \div 2 \in Nat
      BY MmdAssumption
    <3> HIDE DEF r
    <3> QED
      BY <2>2, <3>1
  <2> HIDE DEF r, high, lists
  <2>6. ASSUME NEW l \in lists, 0 <= high(l), high(l) < r.max, id = A(kind)!Unsigned(high(l) + 1)
        PROVE  Goal
    <3>0. high(l) \in Int /\ high(l) \in r.min .. r.max
      BY <2>4, <2>6
    <3>1. high(l) + 1 \in r.min .. r.max /\ high(l) + 1 \in Nat /\ high(l) + 1 < M
      BY <2>2, <2>6, <3>0, NumbersAre
    <3>2. id = high(l) + 1
      BY <1>1, <2>6, <3>1
    <3>3. ASSUME r.max < M \div 2, NEW m \in Sound(bad), id \in Ids(kind, m) PROVE FALSE
      <4>1. has(l, id)
        BY <2>3, <3>3
      <4> HIDE DEF has
      <4>2. id <= high(l)
        BY <2>4, <3>1, <3>2, <3>3, <4>1
      <4> QED
        BY <2>4, <3>2, <4>2
    <3> QED
      BY <2>2, <2>5, <3>1, <3>2, <3>3
  <2>7. ASSUME id \in r.min .. r.max, NEW l \in lists, ~has(l, id) PROVE Goal
    <3>1. id \in Nat /\ id \in Pool(kind, wanted)
      BY <2>2, <2>7
    <3>2. \A m \in Sound(bad) : id \notin Ids(kind, m)
      BY <2>3, <2>7
    <3> QED
      BY <3>1, <3>2
  <2>8. ASSUME id = A(kind)!Full, \A b \in r.min .. r.max : \E l \in lists : has(l, b) PROVE Goal
    <3>1. \A b \in Pool(kind, wanted) : b \in AllIds(kind)
      BY <2>2, <2>3, <2>8
    <3>2. Free(kind, wanted) = {}
      BY <3>1 DEF Free, AllIds
    <3> QED
      BY <1>1, <2>8, <3>2
  <2> QED
    BY <2>1, <2>6, <2>7, <2>8
<1> QED
  BY <1>2, <1>3

LEMMA IdsStart == Init => IdsOK
<1> SUFFICES ASSUME Init, NEW k \in Kinds, NEW m \in Modules PROVE Ids(k, m) \subseteq Nat
  BY DEF IdsOK
<1>1. db[k][m] \in Seq(Entry(k))
  BY MmdAssumption DEF Init
<1>2. M \in Nat
  BY MmdAssumption
<1> DEFINE list == db[k][m]
<1> HIDE DEF list
<1>3. \A i \in DOMAIN list : list[i] \in Entry(k)
  BY <1>1 DEF list
<1>4. \A i \in DOMAIN list : list[i].id \in Nat
  BY <1>2, <1>3 DEF Entry
<1> QED
  BY <1>4 DEF Ids, list

LEMMA OneChangedIds ==
  ASSUME IdsOK, NEW kind \in Kinds, NEW list, OneChanged(kind, list),
         \A i \in DOMAIN list : list[i].id \in Nat
  PROVE  IdsOK'
  BY DEF IdsOK, OneChanged, Ids

LEMMA IdsStep ==
  ASSUME ModulesOK, ListsOK, IdsOK, Len(Readers) <= 1, [Next]_vars
  PROVE  IdsOK'
<1>1. CASE UNCHANGED db
  BY <1>1 DEF IdsOK, Ids
<1>2. ASSUME Writer \in Modules, NEW kind \in Kinds, ChangeStep(kind) PROVE IdsOK'
  <2> DEFINE list == db[kind][Writer]
             S    == All(kind)
  <2>1. /\ Len(list) \in Nat /\ DOMAIN list = 1 .. Len(list) /\ list \in Seq(S)
        /\ \A i \in 1 .. Len(list) : list[i].id \in Nat
    BY <1>2, ListTypes DEF IdsOK, Ids
  <2> HIDE DEF list, S
  <2>2. ASSUME NEW n \in Name[kind], NEW id \in Nat, Added(kind, n, id) PROVE IdsOK'
    <3> DEFINE new == Append(list, [name |-> n, id |-> id])
    <3>1. \A i \in DOMAIN new : new[i].id \in Nat
      BY <2>1
    <3>2. OneChanged(kind, new)
      BY <2>2 DEF Added, list
    <3> HIDE DEF new
    <3> QED
      BY <3>1, <3>2, OneChangedIds
  <2>3. ASSUME NEW n \in Name[kind], NEW wanted \in Wanted, NEW bad \in SUBSET Modules,
               NEW id \in autoid(kind, bad, wanted), Added(kind, n, id)
        PROVE  IdsOK'
    <3>1. id \in Nat
      BY <1>2, ChosenIs
    <3> QED
      BY <2>2, <2>3, <3>1
  <2>4. ASSUME NEW n \in Name[kind], NEW nn \in Name[kind], NEW id \in NewId, Changed(kind, n, nn, id)
        PROVE  IdsOK'
    <3>1. PICK i \in DOMAIN list : OneChanged(kind, [list EXCEPT ![i] = [name |-> nn, id |-> id]])
      BY <2>4 DEF Changed, list
    <3> DEFINE new == [list EXCEPT ![i] = [name |-> nn, id |-> id]]
    <3>2. id \in Nat
      BY MmdAssumption DEF NewId
    <3>3. \A j \in DOMAIN new : new[j].id \in Nat
      BY <2>1, <3>2
    <3>4. OneChanged(kind, new)
      BY <3>1
    <3> HIDE DEF new
    <3> QED
      BY <3>3, <3>4, OneChangedIds
  <2>5. CASE Removed(kind)
    <3>1. PICK i \in DOMAIN list : OneChanged(kind, SubSeq(list, 1, i - 1) \o SubSeq(list, i + 1, Len(list)))
      BY <2>5 DEF Removed, list
    <3> DEFINE x == SubSeq(list, 1, i - 1)
               y == SubSeq(list, i + 1, Len(list))
    <3>2. i \in 1 .. Len(list)
      BY <2>1
    <3>3. /\ x \in Seq(S) /\ \A j \in DOMAIN x : x[j].id \in Nat
      BY <2>1, <3>2
    <3>4. /\ y \in Seq(S) /\ \A j \in DOMAIN y : y[j].id \in Nat
      BY <2>1, <3>2
    <3> HIDE DEF x, y
    <3>5. \A j \in DOMAIN (x \o y) : (x \o y)[j].id \in Nat
      BY <3>3, <3>4
    <3>6. OneChanged(kind, x \o y)
      BY <3>1 DEF x, y
    <3> QED
      BY <3>5, <3>6, OneChangedIds
  <2> QED
    BY <1>2, <2>3, <2>4, <2>5 DEF ChangeStep
<1> QED
  BY <1>1, <1>2, ListsChange

\* The new entry is the last one.
LEMMA LastIs ==
  ASSUME ListsOK, Writer \in Modules, NEW kind \in Kinds, NEW n \in Name[kind], NEW id,
         n \notin Names(kind, Writer), Add(kind, n, id)
  PROVE  /\ db'[kind][Writer][Len(db'[kind][Writer])].id = id
         /\ \A m \in Modules : m # Writer => db'[kind][m] = db[kind][m]
<1> DEFINE list == db[kind][Writer]
           e == [name |-> n, id |-> id]
<1>1. Len(list) \in Nat /\ list \in Seq(All(kind))
  BY ListTypes
<1>2. db'[kind][Writer] = Append(list, e) /\ \A m \in Modules : m # Writer => db'[kind][m] = db[kind][m]
  BY AddIs DEF Added, OneChanged
<1> HIDE DEF list, e
<1>3. Len(Append(list, e)) = Len(list) + 1 /\ Append(list, e)[Len(list) + 1] = e
  BY <1>1
<1> QED
  BY <1>2, <1>3 DEF e

LEMMA AutoStep ==
  ASSUME ModulesOK, ListsOK, IdsOK, Len(Readers) <= 1, NEW wanted \in AutoAsked,
         NEW bad \in SUBSET Modules
  PROVE  /\ \A n \in UserName :
              vxmmd_useradd(n, wanted, bad)
              /\ AutoRange["user"].max < M \div 2 /\ Free("user", wanted) # {} => New("user", wanted, bad)
         /\ \A n \in GroupName :
              vxmmd_groupadd(n, wanted, bad)
              /\ AutoRange["group"].max < M \div 2 /\ Free("group", wanted) # {} => New("group", wanted, bad)
<1>1. phase = "open" => Writer \in Modules
  BY DEF ModulesOK
<1>2. "user" \in Kinds /\ "group" \in Kinds /\ UserName = Name["user"] /\ GroupName = Name["group"]
  BY DEF Kinds, UserName, GroupName
<1>3. wanted \in Wanted
  BY DEF AutoAsked
<1>4. ASSUME NEW kind \in Kinds, NEW n \in Name[kind], Writer \in Modules, n \notin Names(kind, Writer),
             NEW id \in autoid(kind, bad, wanted), Add(kind, n, id),
             AutoRange[kind].max < M \div 2, Free(kind, wanted) # {}
      PROVE  New(kind, wanted, bad)
  <2>1. id \in Pool(kind, wanted) /\ \A m \in Sound(bad) : id \notin Ids(kind, m)
    BY <1>3, <1>4, ChosenIs
  <2>2. db'[kind][Writer][Len(db'[kind][Writer])].id = id
    BY <1>4, LastIs
  <2> QED
    BY <2>1, <2>2 DEF New
<1>5. ASSUME NEW n \in UserName, vxmmd_useradd(n, wanted, bad), AutoRange["user"].max < M \div 2,
             Free("user", wanted) # {}
      PROVE  New("user", wanted, bad)
  <2>1. Writer \in Modules /\ n \notin Names("user", Writer)
    BY <1>1, <1>5 DEF vxmmd_useradd, Change, Addable
  <2>2. PICK id \in autoid("user", bad, wanted) : Add("user", n, id)
    BY <1>5 DEF vxmmd_useradd, vxmmd_autouid
  <2> QED
    BY <1>2, <1>4, <1>5, <2>1, <2>2
<1>6. ASSUME NEW n \in GroupName, vxmmd_groupadd(n, wanted, bad), AutoRange["group"].max < M \div 2,
             Free("group", wanted) # {}
      PROVE  New("group", wanted, bad)
  <2>1. Writer \in Modules /\ n \notin Names("group", Writer)
    BY <1>1, <1>6 DEF vxmmd_groupadd, Change, Addable
  <2>2. PICK id \in autoid("group", bad, wanted) : Add("group", n, id)
    BY <1>6 DEF vxmmd_groupadd, vxmmd_autogid
  <2> QED
    BY <1>2, <1>4, <1>6, <2>1, <2>2
<1> QED
  BY <1>5, <1>6

(* With one read module or none, an id chosen automatically, for a user or   *)
(* for a group, is one that no entry of any module has, in any width of the  *)
(* integers and with ids in any order, as long as there is one and the range *)
(* fits into an int.  When modules give no traverser or fail during the      *)
(* search, which walks the lists again for each candidate and takes a failed *)
(* walk for a complete one, this is so of the modules that come before the   *)
(* first of them.                                                            *)
THEOREM AutoIdsAreNew == ASSUME Len(Readers) <= 1 PROVE Spec => AutoIdIsNew
<1>1. Init => IdsOK
  BY IdsStart
<1>2. ModulesOK /\ ListsOK /\ IdsOK /\ [Next]_vars => IdsOK'
  BY IdsStep
<1> DEFINE Step ==
      \A wanted \in AutoAsked, bad \in SUBSET Modules :
        /\ \A n \in UserName :
             Longer("user") /\ vxmmd_useradd(n, wanted, bad)
             /\ AutoRange["user"].max < M \div 2 /\ Free("user", wanted) # {} => New("user", wanted, bad)
        /\ \A n \in GroupName :
             Longer("group") /\ vxmmd_groupadd(n, wanted, bad)
             /\ AutoRange["group"].max < M \div 2 /\ Free("group", wanted) # {} => New("group", wanted, bad)
<1>3. ModulesOK /\ ListsOK /\ IdsOK => Step
  BY AutoStep
<1> HIDE DEF Step
<1>4. Spec => [][Step]_vars
  BY <1>1, <1>2, <1>3, ModulesHold, ListsHold, PTL DEF Spec
<1> QED
  BY <1>4 DEF AutoIdIsNew, Step
=============================================================================
