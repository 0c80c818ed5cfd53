-------------------------- MODULE ShadowDb_proofs --------------------------
(***************************************************************************)
(* Proofs about ShadowDb, for any number of processes, any accounts, any   *)
(* callers' arguments, and with crashes anywhere: the state is typed, and, *)
(* when the programs use the handle in the ways SafeCallers names, a       *)
(* flushing process owns the lock, no update is lost, the owner's copy and *)
(* the files are in step, and passwd and shadow agree.  Without crashes in *)
(* the middle of a flush the processes implement SerialDb.                 *)
(***************************************************************************)
EXTENDS ShadowDb, SequenceTheorems, WellFoundedInduction, TLAPS

-----------------------------------------------------------------------------
(* What the operators of ShadowFiles return and preserve, for any lists:     *)
(* the types of their results, and what writing and reading back keeps.      *)

(* A non-empty set of indices has a largest one, hence the "last line" of    *)
(* db_read_shadow() and db_read_vxshadow() exists.                           *)
LEMMA LargestIndex ==
  ASSUME NEW n \in Nat, NEW S \in SUBSET (1 .. n), S # {}
  PROVE  \E i \in S : \A j \in S : j <= i
<1> DEFINE T == {m \in Nat : n - m \in S}
<1>1. T \subseteq Nat /\ T # {}
  <2>1. PICK i \in S : TRUE
    OBVIOUS
  <2>2. i \in 1 .. n
    OBVIOUS
  <2>3. n - i \in Nat /\ n - (n - i) = i
    BY <2>2
  <2>4. n - i \in T
    BY <2>1, <2>3
  <2> QED
    BY <2>4
<1>2. PICK t \in T : \A y \in T : ~ (<<y, t>> \in OpToRel(<, Nat))
  <2> HIDE DEF T
  <2> QED
    BY <1>1, WFMin, NatLessThanWellFounded, Zenon
<1>3. \A y \in T : ~ (y < t)
  BY <1>2 DEF OpToRel
<1>4. n - t \in S /\ t \in Nat
  OBVIOUS
<1>5. \A j \in S : j <= n - t
  <2> TAKE j \in S
  <2>1. j \in 1 .. n
    OBVIOUS
  <2>2. n - j \in Nat /\ n - (n - j) = j
    BY <2>1
  <2>3. n - j \in T
    BY <2>2
  <2>4. ~ (n - j < t)
    BY <1>3, <2>3
  <2> QED
    BY <1>4, <2>1, <2>4
<1> QED
  BY <1>4, <1>5

(* A list made index by index is a sequence (the function form of IsASeq).   *)
LEMMA SeqOfFunction ==
  ASSUME NEW S, NEW n \in Nat, NEW f \in [1 .. n -> S]
  PROVE  f \in Seq(S) /\ Len(f) = n /\ DOMAIN f = 1 .. n
BY SMT

(* The chosen last line is a line of the set, and the last one of it.        *)
LEMMA LastProperties ==
  ASSUME NEW T, NEW lines \in Seq(T), NEW S \in SUBSET DOMAIN lines, S # {}
  PROVE  /\ Last(lines, S) \in T
         /\ \E i \in S : Last(lines, S) = lines[i] /\ \A j \in S : j <= i
<1>1. DOMAIN lines = 1 .. Len(lines) /\ Len(lines) \in Nat
  BY LenProperties
<1>2. \E i \in S : \A j \in S : j <= i
  BY <1>1, LargestIndex
<1> DEFINE k == CHOOSE i \in S : \A j \in S : j <= i
<1>3. k \in S /\ \A j \in S : j <= k
  BY <1>2
<1>4. Last(lines, S) = lines[k]
  BY DEF Last
<1>5. lines[k] \in T
  BY <1>1, <1>3, ElementOfSeq
<1> QED
  BY <1>3, <1>4, <1>5

-----------------------------------------------------------------------------
(* Types of what is read and written *)

(* Every passwd line yields one user. *)
LEMMA ReadPasswdType ==
  ASSUME NEW lines \in Seq(PasswdLine)
  PROVE  /\ db_read_passwd(lines) \in Seq(User)
         /\ Len(db_read_passwd(lines)) = Len(lines)
<1>1. DOMAIN lines = 1 .. Len(lines) /\ Len(lines) \in Nat
  BY LenProperties
<1>2. \A i \in 1 .. Len(lines) : lines[i] \in PasswdLine
  BY ElementOfSeq
<1>3. db_read_passwd(lines) \in [1 .. Len(lines) -> User]
  BY <1>1, <1>2 DEF db_read_passwd, User, PasswdLine
<1> QED
  BY <1>1, <1>3, SeqOfFunction

(* The shadow and vxshadow lines fill in fields and leave the list as long.  *)
LEMMA ReadShadowType ==
  ASSUME NEW us \in Seq(User), NEW lines \in Seq(ShadowLine)
  PROVE  db_read_shadow(lines, us) \in Seq(User)
<1>1. DOMAIN us = 1 .. Len(us) /\ Len(us) \in Nat
  BY LenProperties
<1>2. \A i \in 1 .. Len(us) : us[i] \in User
  BY ElementOfSeq
<1> DEFINE mine(i) == {k \in DOMAIN lines : lines[k].name = us[i].name}
<1>3. \A i \in 1 .. Len(us) : mine(i) # {} => Last(lines, mine(i)) \in ShadowLine
  BY LastProperties
<1>4. \A i \in 1 .. Len(us) : mine(i) # {} =>
        [us[i] EXCEPT !.pw = Last(lines, mine(i)).pw] \in User
  BY <1>2, <1>3 DEF User, ShadowLine
<1>5. db_read_shadow(lines, us) \in [1 .. Len(us) -> User]
  BY <1>1, <1>2, <1>4 DEF db_read_shadow
<1> QED
  BY <1>1, <1>5, SeqOfFunction

LEMMA ReadVxshadowType ==
  ASSUME NEW us \in Seq(User), NEW lines \in Seq(VxLine)
  PROVE  db_read_vxshadow(lines, us) \in Seq(User)
<1>1. DOMAIN us = 1 .. Len(us) /\ Len(us) \in Nat
  BY LenProperties
<1>2. \A i \in 1 .. Len(us) : us[i] \in User
  BY ElementOfSeq
<1> DEFINE mine(i) == {k \in DOMAIN lines : /\ lines[k].name = us[i].name
                                            /\ lines[k].uuid # NULL}
<1>3. \A i \in 1 .. Len(us) : mine(i) # {} => Last(lines, mine(i)) \in VxLine
  BY LastProperties
<1>4. \A i \in 1 .. Len(us) : mine(i) # {} =>
        [us[i] EXCEPT !.uuid = Last(lines, mine(i)).uuid] \in User
  BY <1>2, <1>3 DEF User, VxLine
<1>5. db_read_vxshadow(lines, us) \in [1 .. Len(us) -> User]
  BY <1>1, <1>2, <1>4 DEF db_read_vxshadow
<1> QED
  BY <1>1, <1>5, SeqOfFunction

(* A list of users and groups is written as four well-formed files: the      *)
(* shadow file never gets a user without a password field.                   *)
LEMMA WriteImageType ==
  ASSUME NEW us \in Seq(User), NEW gs \in Seq(Group)
  PROVE  WriteImage(us, gs) \in Image
<1>1. DOMAIN us = 1 .. Len(us) /\ Len(us) \in Nat
  BY LenProperties
<1>2. \A i \in 1 .. Len(us) : us[i] \in User
  BY ElementOfSeq
<1> DEFINE W == WriteImage(us, gs)
<1>3. W.passwd \in [1 .. Len(us) -> PasswdLine]
  BY <1>1, <1>2 DEF WriteImage, User, PasswdLine
<1>4. W.shadow \in [1 .. Len(us) -> ShadowLine]
  BY <1>1, <1>2, DataAssumption DEF WriteImage, User, ShadowLine
<1>5. W.vxshadow \in [1 .. Len(us) -> VxLine]
  BY <1>1, <1>2 DEF WriteImage, User, VxLine
<1>6. /\ W.passwd \in Seq(PasswdLine) /\ W.shadow \in Seq(ShadowLine)
      /\ W.vxshadow \in Seq(VxLine)
  BY <1>1, <1>3, <1>4, <1>5, SeqOfFunction
<1>7. W.group = gs
  BY DEF WriteImage
<1>8. W = [passwd |-> W.passwd, shadow |-> W.shadow,
           vxshadow |-> W.vxshadow, group |-> W.group]
  BY DEF WriteImage
<1> HIDE DEF W
<1>9. W \in Image
  BY <1>6, <1>7, <1>8 DEF Image
<1> QED
  BY <1>9 DEF W

(* A file is a sequence of lines of its type at every step of its rewriting. *)
LEMMA RewrittenType ==
  ASSUME NEW f, NEW T, NEW old \in Seq(T), NEW new \in Seq(T)
  PROVE  Overwritten(f, old, new) \in Seq(T) /\ Truncated(f, old, new) \in Seq(T)
<1>1. Len(old) \in Nat /\ Len(new) \in Nat
  BY LenProperties
<1>2. \A i \in 1 .. Len(old) : old[i] \in T
  BY ElementOfSeq
<1>3. SubSeq(old, Len(new) + 1, Len(old)) \in Seq(T)
  BY <1>1, <1>2, SubSeqProperties
<1>4. new \o SubSeq(old, Len(new) + 1, Len(old)) \in Seq(T)
  BY <1>3, ConcatProperties
<1>5. Len(new) < Len(old) => SubSeq(old, 1, Len(new)) \in Seq(T)
  BY <1>1, <1>2, SubSeqProperties
<1>6. << >> \in Seq(T)
  BY EmptySeq
<1> QED
  BY <1>1, <1>4, <1>5, <1>6 DEF Overwritten, Truncated

(* Once written over and truncated, a file that nobody else touched holds    *)
(* the new lines and nothing else.                                           *)
LEMMA RewrittenIsNew ==
  ASSUME NEW f, NEW T, NEW old \in Seq(T), NEW new \in Seq(T)
  PROVE  Truncated(f, Overwritten(f, old, new), new) = new
<1>1. CASE f = "vxshadow"
  BY <1>1 DEF Truncated
<1>2. CASE f # "vxshadow"
  <2> DEFINE rest == SubSeq(old, Len(new) + 1, Len(old))
  <2>1. Len(old) \in Nat /\ Len(new) \in Nat
    BY LenProperties
  <2>2. \A i \in 1 .. Len(old) : old[i] \in T
    BY ElementOfSeq
  <2>3. rest \in Seq(T) /\ Len(rest) \in Nat
    BY <2>1, <2>2, SubSeqProperties, LenProperties
  <2> HIDE DEF rest
  <2>4. /\ new \o rest \in Seq(T)
        /\ Len(new \o rest) = Len(new) + Len(rest)
        /\ \A i \in 1 .. Len(new) + Len(rest) :
             (new \o rest)[i] = IF i <= Len(new) THEN new[i] ELSE rest[i - Len(new)]
    BY <2>3, ConcatProperties
  <2>5. CASE Len(new \o rest) <= Len(new)
    <3>1. Len(new \o rest) = Len(new)
      BY <2>1, <2>3, <2>4, <2>5
    <3>2. \A i \in 1 .. Len(new) : (new \o rest)[i] = new[i]
      BY <2>1, <2>3, <2>4
    <3>3. new \o rest = new
      BY <2>4, <3>1, <3>2, SeqEqual
    <3> QED
      BY <1>2, <2>5, <3>3 DEF Truncated, Overwritten, rest
  <2>6. CASE ~ (Len(new \o rest) <= Len(new))
    <3> DEFINE cut == SubSeq(new \o rest, 1, Len(new))
    <3>1. \A i \in 1 .. Len(new) : (new \o rest)[i] = new[i] /\ new[i] \in T
      BY <2>1, <2>3, <2>4, ElementOfSeq
    <3>2. \A i \in 1 .. Len(new) : (new \o rest)[i] \in T
      BY <3>1
    <3>3. /\ cut \in Seq(T) /\ Len(cut) = IF 1 <= Len(new) THEN Len(new) - 1 + 1 ELSE 0
          /\ \A i \in 1 .. Len(new) - 1 + 1 : cut[i] = (new \o rest)[1 + i - 1]
      BY <2>1, <3>2, SubSeqProperties
    <3> HIDE DEF cut
    <3>4. Len(cut) = Len(new) /\ \A i \in 1 .. Len(cut) : cut[i] = new[i]
      BY <2>1, <3>1, <3>3
    <3>5. cut = new
      BY <3>3, <3>4, SeqEqual
    <3> QED
      BY <1>2, <2>6, <3>5 DEF Truncated, Overwritten, rest, cut
  <2> QED
    BY <2>5, <2>6
<1> QED
  BY <1>1, <1>2

-----------------------------------------------------------------------------
(* Writing a list and reading it back *)

(* A user with two fields replaced, field by field. *)
LEMMA PwReplaced ==
  ASSUME NEW u \in User, NEW a
  PROVE  [u EXCEPT !.pw = a] = [name |-> u.name, uid |-> u.uid, gid |-> u.gid,
                                pw |-> a, uuid |-> u.uuid]
BY DEF User

LEMMA UuidReplaced ==
  ASSUME NEW n, NEW u, NEW g, NEW p, NEW x, NEW y
  PROVE  [[name |-> n, uid |-> u, gid |-> g, pw |-> p, uuid |-> x] EXCEPT !.uuid = y] =
         [name |-> n, uid |-> u, gid |-> g, pw |-> p, uuid |-> y]
OBVIOUS

LEMMA PwUuidReplaced ==
  ASSUME NEW u \in User, NEW a, NEW b
  PROVE  [u EXCEPT !.pw = a, !.uuid = b] =
         [name |-> u.name, uid |-> u.uid, gid |-> u.gid, pw |-> a, uuid |-> b]
<1> DEFINE r == [u EXCEPT !.pw = a]
<1>1. r = [name |-> u.name, uid |-> u.uid, gid |-> u.gid, pw |-> a, uuid |-> u.uuid]
  BY PwReplaced
<1>2. [u EXCEPT !.pw = a, !.uuid = b] = [r EXCEPT !.uuid = b]
  OBVIOUS
<1> HIDE DEF r
<1> QED
  BY <1>1, <1>2, UuidReplaced

(* What survives of a list, user by user. *)
LEMMA StoredIs ==
  ASSUME NEW us \in Seq(User), NEW hasVx
  PROVE  Stored(us, hasVx) =
         [i \in DOMAIN us |->
            [name |-> us[i].name, uid |-> us[i].uid, gid |-> us[i].gid,
             pw |-> IF us[i].pw = NULL THEN LockedPw ELSE us[i].pw,
             uuid |-> IF hasVx THEN us[i].uuid ELSE NULL]]
<1>1. \A i \in DOMAIN us : us[i] \in User
  BY ElementOfSeq, LenProperties
<1>2. \A i \in DOMAIN us :
        [us[i] EXCEPT !.pw = IF @ = NULL THEN LockedPw ELSE @,
                      !.uuid = IF hasVx THEN @ ELSE NULL] =
        [name |-> us[i].name, uid |-> us[i].uid, gid |-> us[i].gid,
         pw |-> IF us[i].pw = NULL THEN LockedPw ELSE us[i].pw,
         uuid |-> IF hasVx THEN us[i].uuid ELSE NULL]
  <2> TAKE i \in DOMAIN us
  <2> QED
    BY <1>1, PwUuidReplaced
<1> QED
  BY <1>2, Zenon DEF Stored

(* With unique names every user is the first and only one of his name, and  *)
(* the only line of a file that bears it is his own.                        *)
LEMMA OnlyLine ==
  ASSUME NEW us \in Seq(User), UniqueNames(us), NEW i \in DOMAIN us,
         NEW T, NEW lines \in Seq(T), NEW S \in SUBSET DOMAIN lines, i \in S,
         \A k \in S : k \in DOMAIN us /\ us[k].name = us[i].name
  PROVE  Last(lines, S) = lines[i]
<1>1. \A k \in S : k = i
  BY DEF UniqueNames
<1>2. PICK k \in S : Last(lines, S) = lines[k]
  BY LastProperties
<1> QED
  BY <1>1, <1>2

LEMMA FirstOfName ==
  ASSUME NEW us \in Seq(User), UniqueNames(us), NEW list, DOMAIN list = DOMAIN us,
         \A k \in DOMAIN us : list[k].name = us[k].name,
         NEW i \in DOMAIN us
  PROVE  i \in lookup(list, us[i].name)
<1>1. DOMAIN us = 1 .. Len(us) /\ Len(us) \in Nat
  BY LenProperties
<1>2. ASSUME NEW j \in 1 .. (i - 1) PROVE list[j].name # us[i].name
  <2>1. j \in DOMAIN us /\ j # i
    BY <1>1
  <2> QED
    BY <2>1 DEF UniqueNames
<1> QED
  BY <1>2 DEF lookup

(* Reading the passwd and shadow files of a written list gives the list back *)
(* without uuids, and with "!" for a missing password.                       *)
LEMMA PasswdShadowRead ==
  ASSUME NEW us \in Seq(User), UniqueNames(us), NEW gs \in Seq(Group)
  PROVE  LET W == WriteImage(us, gs)
         IN  db_read_shadow(W.shadow, db_read_passwd(W.passwd)) =
             [i \in DOMAIN us |->
               [name |-> us[i].name, uid |-> us[i].uid, gid |-> us[i].gid,
                pw |-> IF us[i].pw = NULL THEN LockedPw ELSE us[i].pw,
                uuid |-> NULL]]
<1> DEFINE W == WriteImage(us, gs)
           L == W.shadow
           P == db_read_passwd(W.passwd)
           pw(i) == IF us[i].pw = NULL THEN LockedPw ELSE us[i].pw
<1>0. \A i \in DOMAIN us : us[i] \in User
  BY ElementOfSeq, LenProperties
<1>1. L \in Seq(ShadowLine)
  BY WriteImageType DEF Image
<1>2. /\ DOMAIN L = DOMAIN us
      /\ \A i \in DOMAIN us : L[i] = [name |-> us[i].name, pw |-> pw(i)]
  BY DEF WriteImage
<1>3. /\ DOMAIN P = DOMAIN us
      /\ \A i \in DOMAIN us :
           P[i] = [name |-> us[i].name, uid |-> us[i].uid, gid |-> us[i].gid,
                   pw |-> NULL, uuid |-> NULL]
  BY DEF WriteImage, db_read_passwd
<1> DEFINE mine(i) == {k \in DOMAIN L : L[k].name = P[i].name}
<1> HIDE DEF L, P
<1>4. \A i \in DOMAIN us : i \in lookup(P, P[i].name)
  BY <1>3, FirstOfName
<1>5. \A i \in DOMAIN us :
        i \in mine(i) /\ \A k \in mine(i) : k \in DOMAIN us /\ us[k].name = us[i].name
  BY <1>2, <1>3
<1>6. \A i \in DOMAIN us : mine(i) # {} /\ mine(i) \in SUBSET DOMAIN L
  <2> TAKE i \in DOMAIN us
  <2>1. mine(i) # {}
    BY <1>5
  <2>2. mine(i) \in SUBSET DOMAIN L
    OBVIOUS
  <2> QED
    BY <2>1, <2>2
<1> HIDE DEF mine
<1>7. \A i \in DOMAIN us : Last(L, mine(i)) = L[i]
  <2> TAKE i \in DOMAIN us
  <2>1. mine(i) \in SUBSET DOMAIN L /\ i \in mine(i)
    BY <1>5, <1>6
  <2>2. \A k \in mine(i) : k \in DOMAIN us /\ us[k].name = us[i].name
    BY <1>5
  <2> QED
    BY <1>1, <2>1, <2>2, OnlyLine
<1>8. db_read_shadow(L, P) =
        [i \in DOMAIN us |-> [P[i] EXCEPT !.pw = Last(L, mine(i)).pw]]
  <2> DEFINE new(i) == [P[i] EXCEPT !.pw = Last(L, mine(i)).pw]
             choice(i) == IF mine(i) # {} /\ i \in lookup(P, P[i].name)
                            THEN new(i) ELSE P[i]
  <2>1. db_read_shadow(L, P) = [i \in DOMAIN P |-> choice(i)]
    BY DEF db_read_shadow, mine
  <2> HIDE DEF new
  <2>2. \A i \in DOMAIN us : choice(i) = new(i)
    BY <1>4, <1>6
  <2> HIDE DEF choice
  <2>3. [i \in DOMAIN P |-> choice(i)] = [i \in DOMAIN us |-> new(i)]
    BY <1>3, <2>2
  <2> QED
    BY <2>1, <2>3 DEF new
<1>9. \A i \in DOMAIN us :
        [P[i] EXCEPT !.pw = Last(L, mine(i)).pw] =
        [name |-> us[i].name, uid |-> us[i].uid, gid |-> us[i].gid,
         pw |-> pw(i), uuid |-> NULL]
  <2> TAKE i \in DOMAIN us
  <2> HIDE DEF pw
  <2>1. Last(L, mine(i)).pw = pw(i)
    BY <1>2, <1>7
  <2>2. P[i] \in User
    BY <1>3, <1>0 DEF User
  <2>3. P[i].name = us[i].name /\ P[i].uid = us[i].uid /\ P[i].gid = us[i].gid
        /\ P[i].uuid = NULL
    BY <1>3
  <2> QED
    BY <2>1, <2>2, <2>3, PwReplaced
<1>10. db_read_shadow(L, P) =
         [i \in DOMAIN us |->
            [name |-> us[i].name, uid |-> us[i].uid, gid |-> us[i].gid,
             pw |-> pw(i), uuid |-> NULL]]
  <2> HIDE DEF pw
  <2> QED
    BY <1>8, <1>9
<1> QED
  BY <1>10 DEF L, P

(* A list with unique names that is written and read back is what Stored     *)
(* says: nothing is lost but the difference between no password and "!", and *)
(* the uuids when there is no vxshadow file.                                 *)
LEMMA WrittenIsRead ==
  ASSUME NEW us \in Seq(User), UniqueNames(us), NEW gs \in Seq(Group),
         NEW hasVx \in BOOLEAN, NEW img,
         img.passwd = WriteImage(us, gs).passwd,
         img.shadow = WriteImage(us, gs).shadow,
         hasVx => img.vxshadow = WriteImage(us, gs).vxshadow
  PROVE  Stored(ReadUsers(img, hasVx), hasVx) = Stored(us, hasVx)
<1> DEFINE W == WriteImage(us, gs)
           pw(i) == IF us[i].pw = NULL THEN LockedPw ELSE us[i].pw
           S == db_read_shadow(img.shadow, db_read_passwd(img.passwd))
<1>1. /\ S = [i \in DOMAIN us |->
                [name |-> us[i].name, uid |-> us[i].uid, gid |-> us[i].gid,
                 pw |-> pw(i), uuid |-> NULL]]
  BY PasswdShadowRead
<1>2. \A i \in DOMAIN us : us[i] \in User
  BY ElementOfSeq, LenProperties
<1>3. \A i \in DOMAIN us : pw(i) \in Password /\ pw(i) # NULL
  BY <1>2, DataAssumption DEF User
<1> HIDE DEF S, pw
<1> DEFINE uuid(i) == IF hasVx THEN us[i].uuid ELSE NULL
           full(i) == [name |-> us[i].name, uid |-> us[i].uid, gid |-> us[i].gid,
                       pw |-> pw(i), uuid |-> uuid(i)]
           R == [i \in DOMAIN us |-> full(i)]
<1>4. Stored(us, hasVx) = R
  BY StoredIs DEF pw
<1>5. Stored(R, hasVx) = R
  <2>1. R \in Seq(User) /\ DOMAIN R = DOMAIN us
    <3>1. \A i \in DOMAIN us : full(i) \in User
      BY <1>2, <1>3 DEF User
    <3> HIDE DEF full
    <3>2. DOMAIN us = 1 .. Len(us) /\ Len(us) \in Nat
      BY LenProperties
    <3>3. R \in [1 .. Len(us) -> User]
      BY <3>1, <3>2
    <3> QED
      BY <3>2, <3>3, SeqOfFunction
  <2> DEFINE kept(i) ==
               [name |-> R[i].name, uid |-> R[i].uid, gid |-> R[i].gid,
                pw |-> IF R[i].pw = NULL THEN LockedPw ELSE R[i].pw,
                uuid |-> IF hasVx THEN R[i].uuid ELSE NULL]
  <2>2. \A i \in DOMAIN us : kept(i) = full(i)
    <3> TAKE i \in DOMAIN us
    <3>1. R[i] = full(i)
      OBVIOUS
    <3>2. R[i].pw = pw(i) /\ R[i].uuid = uuid(i)
      BY <3>1
    <3> HIDE DEF R
    <3> QED
      BY <1>3, <3>1, <3>2
  <2> HIDE DEF R
  <2>3. Stored(R, hasVx) = [i \in DOMAIN us |-> kept(i)]
    BY <2>1, StoredIs
  <2> HIDE DEF full, kept
  <2> QED
    BY <2>2, <2>3 DEF R
<1>6. ReadUsers(img, hasVx) = R
  <2>1. CASE ~hasVx
    <3>1. ReadUsers(img, hasVx) = S
      BY <2>1 DEF ReadUsers, S
    <3> QED
      BY <1>1, <2>1, <3>1
  <2>2. CASE hasVx
    <3> DEFINE V == img.vxshadow
               mine(i) == {k \in DOMAIN V : V[k].name = S[i].name /\ V[k].uuid # NULL}
    <3>1. V \in Seq(VxLine)
      BY <2>2, WriteImageType DEF Image
    <3>2. /\ DOMAIN V = DOMAIN us
          /\ \A i \in DOMAIN us : V[i] = [name |-> us[i].name, uuid |-> us[i].uuid]
      BY <2>2 DEF WriteImage
    <3> HIDE DEF V
    <3>3. \A i \in DOMAIN us : i \in lookup(S, S[i].name)
      BY <1>1, FirstOfName
    <3>4. ASSUME NEW i \in DOMAIN us, us[i].uuid # NULL
          PROVE  mine(i) # {} /\ Last(V, mine(i)).uuid = us[i].uuid
      <4>1. i \in mine(i) /\ \A k \in mine(i) : k \in DOMAIN us /\ us[k].name = us[i].name
        BY <1>1, <3>2, <3>4
      <4>2. mine(i) \in SUBSET DOMAIN V
        OBVIOUS
      <4> HIDE DEF mine
      <4>3. Last(V, mine(i)) = V[i]
        BY <3>1, <4>1, <4>2, OnlyLine
      <4> QED
        BY <3>2, <4>1, <4>3
    <3>5. ASSUME NEW i \in DOMAIN us, us[i].uuid = NULL PROVE mine(i) = {}
      <4>1. ASSUME NEW k \in mine(i) PROVE FALSE
        <5>1. k \in DOMAIN us /\ us[k].name = us[i].name /\ us[k].uuid # NULL
          BY <1>1, <3>2, <4>1
        <5>2. k = i
          BY <5>1 DEF UniqueNames
        <5> QED
          BY <3>5, <5>1, <5>2
      <4> QED
        BY <4>1
    <3> DEFINE new(i) == IF mine(i) # {} /\ i \in lookup(S, S[i].name)
                           THEN [S[i] EXCEPT !.uuid = Last(V, mine(i)).uuid] ELSE S[i]
    <3>6. db_read_vxshadow(V, S) = [i \in DOMAIN us |-> new(i)]
      BY <1>1 DEF db_read_vxshadow
    <3> HIDE DEF mine
    <3>7. \A i \in DOMAIN us : new(i) = full(i)
      <4> TAKE i \in DOMAIN us
      <4>1. S[i] = [name |-> us[i].name, uid |-> us[i].uid, gid |-> us[i].gid,
                    pw |-> pw(i), uuid |-> NULL]
        BY <1>1
      <4>2. CASE us[i].uuid = NULL
        <5>1. new(i) = S[i]
          BY <3>5, <4>2
        <5> QED
          BY <4>1, <4>2, <5>1
      <4>3. CASE us[i].uuid # NULL
        <5>1. new(i) = [S[i] EXCEPT !.uuid = us[i].uuid]
          BY <3>3, <3>4, <4>3
        <5>2. uuid(i) = us[i].uuid
          BY <2>2
        <5> HIDE DEF new, uuid
        <5> QED
          BY <4>1, <5>1, <5>2, UuidReplaced
      <4> QED
        BY <4>2, <4>3
    <3> HIDE DEF new
    <3>8. ReadUsers(img, hasVx) = db_read_vxshadow(V, S)
      BY <2>2 DEF ReadUsers, S, V
    <3>9. [i \in DOMAIN us |-> new(i)] = R
      <4> HIDE DEF full
      <4> QED
        BY <3>7
    <3> QED
      BY <3>6, <3>8, <3>9
  <2> QED
    BY <2>1, <2>2
<1> QED
  BY <1>4, <1>5, <1>6

-----------------------------------------------------------------------------
(* Types of what the operations leave behind *)

\* The requests that the operations are called with
UserRq   == [name : UserName, uid : Id \cup {VXDB_AUTOUID, VXDB_AUTOUID_SYS},
             gid : Id, pw : Password \cup {NULL}, uuid : Uuid \cup {NULL}]
UserMask == [name : UserName \cup {NULL}, uid : Id \cup {VXDB_NO_CHANGE},
             gid : Id \cup {VXDB_NO_CHANGE}, pw : Password \cup {NULL},
             uuid : Uuid \cup {NULL}]
GroupRq   == [name : GroupName, gid : Id \cup {VXDB_AUTOGID, VXDB_AUTOGID_SYS}]
GroupMask == [name : GroupName \cup {NULL}, gid : Id \cup {VXDB_NOGID}]

LEMMA WithoutType ==
  ASSUME NEW T, NEW list \in Seq(T), NEW i \in DOMAIN list
  PROVE  Without(list, i) \in Seq(T)
<1>1. DOMAIN list = 1 .. Len(list) /\ Len(list) \in Nat
  BY LenProperties
<1>2. \A j \in 1 .. Len(list) : list[j] \in T
  BY ElementOfSeq
<1>3. SubSeq(list, 1, i - 1) \in Seq(T)
  BY <1>1, <1>2, SubSeqProperties
<1>4. SubSeq(list, i + 1, Len(list)) \in Seq(T)
  BY <1>1, <1>2, SubSeqProperties
<1> QED
  BY <1>3, <1>4, ConcatProperties DEF Without

(* An id that is given out automatically lies in the configured range and    *)
(* nobody has it; the only other answer is the id that was asked for.        *)
LEMMA AutomaticUid ==
  ASSUME NEW us \in Seq(User),
         NEW wanted \in Id \cup {VXDB_AUTOUID, VXDB_AUTOUID_SYS},
         NEW id \in automatic_uid(us, wanted)
  PROVE  /\ id \in Id
         /\ wanted = VXDB_AUTOUID => id \in UidMin .. UidMax /\ id \notin Uids(us)
         /\ wanted = VXDB_AUTOUID_SYS => id \in 1 .. (UidMin - 1) /\ id \notin Uids(us)
<1>1. CASE wanted = VXDB_AUTOUID_SYS
  BY <1>1, IdAssumption DEF automatic_uid, FirstFree, VXDB_AUTOUID, VXDB_AUTOUID_SYS
<1>2. CASE wanted = VXDB_AUTOUID
  BY <1>2, IdAssumption DEF automatic_uid, FirstFree, VXDB_AUTOUID, VXDB_AUTOUID_SYS
<1>3. CASE wanted \notin {VXDB_AUTOUID, VXDB_AUTOUID_SYS}
  BY <1>3 DEF automatic_uid
<1> QED
  BY <1>1, <1>2, <1>3

LEMMA AutomaticGid ==
  ASSUME NEW gs \in Seq(Group),
         NEW wanted \in Id \cup {VXDB_AUTOGID, VXDB_AUTOGID_SYS},
         NEW id \in automatic_gid(gs, wanted)
  PROVE  /\ id \in Id
         /\ wanted = VXDB_AUTOGID => id \in GidMin .. GidMax /\ id \notin Gids(gs)
         /\ wanted = VXDB_AUTOGID_SYS => id \in 1 .. (GidMin - 1) /\ id \notin Gids(gs)
<1>1. CASE wanted = VXDB_AUTOGID_SYS
  BY <1>1, IdAssumption DEF automatic_gid, FirstFree, VXDB_AUTOGID, VXDB_AUTOGID_SYS
<1>2. CASE wanted = VXDB_AUTOGID
  BY <1>2, IdAssumption DEF automatic_gid, FirstFree, VXDB_AUTOGID, VXDB_AUTOGID_SYS
<1>3. CASE wanted \notin {VXDB_AUTOGID, VXDB_AUTOGID_SYS}
  BY <1>3 DEF automatic_gid
<1> QED
  BY <1>1, <1>2, <1>3

LEMMA UserOpType ==
  ASSUME NEW us \in Seq(User)
  PROVE  /\ \A rq \in UserRq : useradd(us, rq) \subseteq Seq(User)
         /\ \A n \in UserName, m \in UserMask : usermod(us, n, m) \subseteq Seq(User)
         /\ \A n \in UserName : userdel(us, n) \subseteq Seq(User)
<1>1. ASSUME NEW rq \in UserRq, NEW r \in useradd(us, rq)
      PROVE  r \in Seq(User)
  <2>1. PICK id \in automatic_uid(us, rq.uid) : r = Append(us, [rq EXCEPT !.uid = id])
    BY <1>1 DEF useradd
  <2>2. id \in Id
    BY <2>1, AutomaticUid DEF UserRq
  <2>3. [rq EXCEPT !.uid = id] \in User
    BY <2>2 DEF UserRq, User
  <2> QED
    BY <2>1, <2>3, AppendProperties
<1>2. ASSUME NEW n \in UserName, NEW m \in UserMask, NEW r \in usermod(us, n, m)
      PROVE  r \in Seq(User)
  <2> DEFINE new(i) == [name |-> Keep(m.name, us[i].name, NULL),
                        uid  |-> Keep(m.uid, us[i].uid, VXDB_NO_CHANGE),
                        gid  |-> Keep(m.gid, us[i].gid, VXDB_NO_CHANGE),
                        pw   |-> Keep(m.pw, us[i].pw, NULL),
                        uuid |-> Keep(m.uuid, us[i].uuid, NULL)]
  <2>1. PICK i \in lookup(us, n) : r = [us EXCEPT ![i] = new(i)]
    BY <1>2 DEF usermod
  <2>2. i \in 1 .. Len(us)
    BY LenProperties DEF lookup
  <2>3. us[i] \in User
    BY <2>2, ElementOfSeq
  <2>4. new(i) \in User
    BY <2>3 DEF UserMask, User, Keep
  <2> HIDE DEF new
  <2> QED
    BY <2>1, <2>2, <2>4, ExceptSeq
<1>3. ASSUME NEW n \in UserName, NEW r \in userdel(us, n)
      PROVE  r \in Seq(User)
  BY <1>3, WithoutType DEF userdel, lookup
<1> QED
  BY <1>1, <1>2, <1>3

LEMMA GroupOpType ==
  ASSUME NEW gs \in Seq(Group)
  PROVE  /\ \A rq \in GroupRq : groupadd(gs, rq) \subseteq Seq(Group)
         /\ \A n \in GroupName, m \in GroupMask : groupmod(gs, n, m) \subseteq Seq(Group)
         /\ \A n \in GroupName : groupdel(gs, n) \subseteq Seq(Group)
<1>1. ASSUME NEW rq \in GroupRq, NEW r \in groupadd(gs, rq)
      PROVE  r \in Seq(Group)
  <2>1. PICK id \in automatic_gid(gs, rq.gid) : r = Append(gs, [rq EXCEPT !.gid = id])
    BY <1>1 DEF groupadd
  <2>2. id \in Id
    BY <2>1, AutomaticGid DEF GroupRq
  <2>3. [rq EXCEPT !.gid = id] \in Group
    BY <2>2 DEF GroupRq, Group
  <2> QED
    BY <2>1, <2>3, AppendProperties
<1>2. ASSUME NEW n \in GroupName, NEW m \in GroupMask, NEW r \in groupmod(gs, n, m)
      PROVE  r \in Seq(Group)
  <2> DEFINE new(i) == [name |-> Keep(m.name, gs[i].name, NULL),
                        gid  |-> Keep(m.gid, gs[i].gid, VXDB_NOGID)]
  <2>1. PICK i \in lookup(gs, n) : r = [gs EXCEPT ![i] = new(i)]
    BY <1>2 DEF groupmod
  <2>2. i \in 1 .. Len(gs)
    BY LenProperties DEF lookup
  <2>3. gs[i] \in Group
    BY <2>2, ElementOfSeq
  <2>4. new(i) \in Group
    BY <2>3 DEF GroupMask, Group, Keep
  <2> HIDE DEF new
  <2> QED
    BY <2>1, <2>2, <2>4, ExceptSeq
<1>3. ASSUME NEW n \in GroupName, NEW r \in groupdel(gs, n)
      PROVE  r \in Seq(Group)
  BY <1>3, WithoutType DEF groupdel, lookup
<1> QED
  BY <1>1, <1>2, <1>3

-----------------------------------------------------------------------------
(* The database and its processes                                            *)

(* How the programs must use the driver: nobody calls vxdb_unlock(), which  *)
(* keeps unwritten changes and forgets the flag; nobody opens with          *)
(* VXDB_ADMIN and VXDB_WRLOCK together, or calls vxdb_lock() on a handle    *)
(* opened with VXDB_ADMIN, which both yield a writable handle without lock. *)
SafeCallers ==
  /\ UnlockCallers = {}
  /\ \A f \in OpenFlags : "WRLOCK" \in f => f = {"WRLOCK"}
  /\ \A f \in OpenFlags : "ADMIN" \in f => LockCallers = {}

-----------------------------------------------------------------------------
(* The inductive invariant, for one process and then for all.               *)

PureFlags(p) ==
  /\ "WRLOCK" \in flags[p] => flags[p] = {"WRLOCK"}
  /\ "ADMIN" \in flags[p] => LockCallers = {}

LockGoal(p) ==
  pc[p] \in {"writing", "truncating", "releasing"} /\ goal[p] = "lock"
  => LockCallers # {}

Active(p) ==
  /\ pc[p] \in {"reading", "ready", "writing", "truncating", "releasing"}
  /\ "WRLOCK" \in flags[p]

HoldsLock(p) == Active(p) => lock = p

DirtyWritable(p) ==
  Dirty(p) => "WRLOCK" \in flags[p] /\ pc[p] \in {"ready", "writing", "truncating"}

FlushWritable(p) == Flushing(p) => "WRLOCK" \in flags[p]

FlushPosition(p) == Flushing(p) /\ at[p] = 4 => ~chgU[p]

BaseCurrent(p) ==
  "WRLOCK" \in flags[p] /\ pc[p] \in {"reading", "ready"} => disk = base[p]

ProcInv(p) ==
  /\ PureFlags(p) /\ LockGoal(p) /\ HoldsLock(p)
  /\ DirtyWritable(p) /\ FlushWritable(p) /\ FlushPosition(p) /\ BaseCurrent(p)

IInv == TypeOK /\ \A p \in Proc : ProcInv(p)

-----------------------------------------------------------------------------
(* Type correctness *)

LEMMA InitType == Init => TypeOK
<1> SUFFICES ASSUME Init PROVE TypeOK
  OBVIOUS
<1>1. disk \in Image
  BY InputAssumption DEF Init
<1>2. <<>> \in Seq(User) /\ <<>> \in Seq(Group)
  OBVIOUS
<1>3. users \in [Proc -> Seq(User)] /\ groups \in [Proc -> Seq(Group)]
  BY <1>2 DEF Init
<1>4. base \in [Proc -> Image \cup {NULL}]
  BY DEF Init
<1>5. /\ pc \in [Proc -> PC]
      /\ flags \in [Proc -> SUBSET {"WRLOCK", "ADMIN"}]
      /\ goal \in [Proc -> {"close", "lock", "flush"}]
      /\ at \in [Proc -> 1 .. 4]
  BY DEF Init, PC
<1>6. /\ chgU \in [Proc -> BOOLEAN] /\ chgG \in [Proc -> BOOLEAN]
      /\ ops \in [Proc -> Nat] /\ sessions \in [Proc -> Nat]
      /\ lock \in Proc \cup {NoProc} /\ torn \in BOOLEAN /\ crashes \in Nat
  BY DEF Init
<1> QED
  BY <1>1, <1>3, <1>4, <1>5, <1>6 DEF TypeOK

(* What one step of the operations may leave in users and groups. *)
LEMMA UserOperationType ==
  ASSUME TypeOK, NEW p \in Proc, UserAdd(p) \/ UserMod(p) \/ UserDel(p)
  PROVE  /\ Operation(p)
         /\ \E us \in Seq(User) : users' = [users EXCEPT ![p] = us]
         /\ chgU' = [chgU EXCEPT ![p] = TRUE] /\ UNCHANGED <<groups, chgG>>
<1>1. users[p] \in Seq(User)
  BY DEF TypeOK
<1>2. AddRq \subseteq UserRq /\ ModRq \subseteq UserMask
  BY InputAssumption DEF UserRq, UserMask
<1>3. CASE UserAdd(p)
  BY <1>1, <1>2, <1>3, UserOpType DEF UserAdd, UserOperation
<1>4. CASE UserMod(p)
  BY <1>1, <1>2, <1>4, UserOpType DEF UserMod, UserOperation
<1>5. CASE UserDel(p)
  BY <1>1, <1>5, UserOpType DEF UserDel, UserOperation
<1> QED
  BY <1>3, <1>4, <1>5

LEMMA GroupOperationType ==
  ASSUME TypeOK, NEW p \in Proc, GroupAdd(p) \/ GroupMod(p) \/ GroupDel(p)
  PROVE  /\ Operation(p)
         /\ \E gs \in Seq(Group) : groups' = [groups EXCEPT ![p] = gs]
         /\ chgG' = [chgG EXCEPT ![p] = TRUE] /\ UNCHANGED <<users, chgU>>
<1>1. groups[p] \in Seq(Group)
  BY DEF TypeOK
<1>2. GroupAddRq \subseteq GroupRq /\ GroupModRq \subseteq GroupMask
  BY InputAssumption DEF GroupRq, GroupMask
<1>3. CASE GroupAdd(p)
  BY <1>1, <1>2, <1>3, GroupOpType DEF GroupAdd, GroupOperation
<1>4. CASE GroupMod(p)
  BY <1>1, <1>2, <1>4, GroupOpType DEF GroupMod, GroupOperation
<1>5. CASE GroupDel(p)
  BY <1>1, <1>5, GroupOpType DEF GroupDel, GroupOperation
<1> QED
  BY <1>3, <1>4, <1>5

(* Writing over a file and truncating it leave well-formed lines. *)
LEMMA DiskType ==
  ASSUME TypeOK, NEW p \in Proc, NEW f \in File
  PROVE  /\ [disk EXCEPT ![f] = Overwritten(f, @, Target(p)[f])] \in Image
         /\ [disk EXCEPT ![f] = Truncated(f, @, Target(p)[f])] \in Image
<1>1. disk \in Image /\ Target(p) \in Image
  BY WriteImageType DEF TypeOK, Target
<1> HIDE DEF Target
<1>2. ASSUME NEW T, disk[f] \in Seq(T), Target(p)[f] \in Seq(T)
      PROVE  /\ Overwritten(f, disk[f], Target(p)[f]) \in Seq(T)
             /\ Truncated(f, disk[f], Target(p)[f]) \in Seq(T)
  BY <1>2, RewrittenType
<1>3. CASE f = "passwd"
  <2>1. disk[f] \in Seq(PasswdLine) /\ Target(p)[f] \in Seq(PasswdLine)
    BY <1>1, <1>3 DEF Image
  <2> QED
    BY <1>1, <1>2, <1>3, <2>1 DEF Image
<1>4. CASE f = "shadow"
  <2>1. disk[f] \in Seq(ShadowLine) /\ Target(p)[f] \in Seq(ShadowLine)
    BY <1>1, <1>4 DEF Image
  <2> QED
    BY <1>1, <1>2, <1>4, <2>1 DEF Image
<1>5. CASE f = "vxshadow"
  <2>1. disk[f] \in Seq(VxLine) /\ Target(p)[f] \in Seq(VxLine)
    BY <1>1, <1>5 DEF Image
  <2> QED
    BY <1>1, <1>2, <1>5, <2>1 DEF Image
<1>6. CASE f = "group"
  <2>1. disk[f] \in Seq(Group) /\ Target(p)[f] \in Seq(Group)
    BY <1>1, <1>6 DEF Image
  <2> QED
    BY <1>1, <1>2, <1>6, <2>1 DEF Image
<1> QED
  BY <1>3, <1>4, <1>5, <1>6 DEF File

LEMMA GotoType ==
  ASSUME TypeOK, NEW p \in Proc, NEW l \in PC, Goto(p, l)
  PROVE  pc' \in [Proc -> PC]
BY DEF TypeOK, Goto

LEMMA FlushOrderFile == \A i \in 1 .. 4 : FlushOrder[i] \in File
<1>1. /\ FlushOrder[1] \in File /\ FlushOrder[2] \in File
      /\ FlushOrder[3] \in File /\ FlushOrder[4] \in File
  BY DEF FlushOrder, File
<1>2. \A i \in 1 .. 4 : i = 1 \/ i = 2 \/ i = 3 \/ i = 4
  OBVIOUS
<1> QED
  BY <1>1, <1>2

LEMMA NextPosition ==
  ASSUME TypeOK, NEW p \in Proc, at[p] # 4
  PROVE  [at EXCEPT ![p] = @ + 1] \in [Proc -> 1 .. 4]
<1>1. at \in [Proc -> 1 .. 4]
  BY DEF TypeOK
<1>2. at[p] + 1 \in 1 .. 4
  BY <1>1
<1> QED
  BY <1>1, <1>2

LEMMA FirstPosition ==
  ASSUME TypeOK, NEW p \in Proc
  PROVE  [at EXCEPT ![p] = 1] \in [Proc -> 1 .. 4]
BY DEF TypeOK

LEMMA TypeStep == TypeOK /\ [Next]_vars => TypeOK'
<1> SUFFICES ASSUME TypeOK, [Next]_vars PROVE TypeOK'
  OBVIOUS
<1>1. ASSUME NEW p \in Proc, NEW f \in OpenFlags, Open(p, f) PROVE TypeOK'
  <2>1. f \in SUBSET {"WRLOCK", "ADMIN"}
    BY ProcAssumption
  <2>2. pc' \in [Proc -> PC] /\ base' \in [Proc -> Image \cup {NULL}]
    <3>1. "locking" \in PC /\ "reading" \in PC
      BY DEF PC
    <3>2. \/ Goto(p, "locking") /\ base' = base
          \/ Goto(p, "reading") /\ base' = [base EXCEPT ![p] = disk]
      BY <1>1 DEF Open, OpenFiles
    <3>3. pc' \in [Proc -> PC]
      BY <3>1, <3>2, GotoType
    <3>4. base' \in [Proc -> Image \cup {NULL}]
      BY <3>2 DEF TypeOK
    <3> QED
      BY <3>3, <3>4
  <2>3. /\ flags' \in [Proc -> SUBSET {"WRLOCK", "ADMIN"}]
        /\ at' \in [Proc -> 1 .. 4]
        /\ sessions' \in [Proc -> Nat] /\ ops' \in [Proc -> Nat]
    BY <1>1, <2>1 DEF TypeOK, Open, OpenFiles
  <2> QED
    BY <1>1, <2>2, <2>3 DEF TypeOK, Open
<1>2. ASSUME NEW p \in Proc, AcquireLock(p) PROVE TypeOK'
  BY <1>2 DEF TypeOK, AcquireLock, Goto, PC, counters
<1>3. ASSUME NEW p \in Proc, NEW f, Reading(p, f),
             users' \in [Proc -> Seq(User)], groups' \in [Proc -> Seq(Group)]
      PROVE  TypeOK'
  <2>1. pc' \in [Proc -> PC] /\ at' \in [Proc -> 1 .. 4]
    <3>1. "ready" \in PC
      BY DEF PC
    <3>2. CASE at[p] = 4
      BY <1>3, <3>1, <3>2, GotoType, FirstPosition DEF TypeOK, Reading
    <3>3. CASE at[p] # 4
      BY <1>3, <3>3, NextPosition DEF TypeOK, Reading
    <3> QED
      BY <3>2, <3>3
  <2> QED
    BY <1>3, <2>1 DEF TypeOK, Reading, counters
<1>4. ASSUME NEW p \in Proc, ReadPasswd(p) PROVE TypeOK'
  <2>1. db_read_passwd(disk.passwd) \in Seq(User)
    BY ReadPasswdType DEF TypeOK, Image
  <2>2. users' \in [Proc -> Seq(User)] /\ groups' \in [Proc -> Seq(Group)]
    BY <1>4, <2>1 DEF TypeOK, ReadPasswd
  <2> QED
    BY <1>3, <1>4, <2>2 DEF ReadPasswd
<1>5. ASSUME NEW p \in Proc, ReadGroup(p) PROVE TypeOK'
  <2>1. users' \in [Proc -> Seq(User)] /\ groups' \in [Proc -> Seq(Group)]
    BY <1>5 DEF TypeOK, ReadGroup, Image
  <2> QED
    BY <1>3, <1>5, <2>1 DEF ReadGroup
<1>6. ASSUME NEW p \in Proc, ReadShadow(p) PROVE TypeOK'
  <2>1. db_read_shadow(disk.shadow, users[p]) \in Seq(User)
    BY ReadShadowType DEF TypeOK, Image
  <2>2. users' \in [Proc -> Seq(User)] /\ groups' \in [Proc -> Seq(Group)]
    BY <1>6, <2>1 DEF TypeOK, ReadShadow
  <2> QED
    BY <1>3, <1>6, <2>2 DEF ReadShadow
<1>7. ASSUME NEW p \in Proc, ReadVxshadow(p) PROVE TypeOK'
  <2>1. db_read_vxshadow(disk.vxshadow, users[p]) \in Seq(User)
    BY ReadVxshadowType DEF TypeOK, Image
  <2>2. users' \in [Proc -> Seq(User)] /\ groups' \in [Proc -> Seq(Group)]
    BY <1>7, <2>1 DEF TypeOK, ReadVxshadow
  <2> QED
    BY <1>3, <1>7, <2>2 DEF ReadVxshadow
<1>8. ASSUME NEW p \in Proc, UserAdd(p) \/ UserMod(p) \/ UserDel(p) PROVE TypeOK'
  <2>1. users' \in [Proc -> Seq(User)]
    BY <1>8, UserOperationType DEF TypeOK
  <2>2. chgU' \in [Proc -> BOOLEAN] /\ UNCHANGED <<groups, chgG>>
    BY <1>8, UserOperationType DEF TypeOK
  <2>3. Operation(p)
    BY <1>8, UserOperationType
  <2> QED
    BY <2>1, <2>2, <2>3 DEF TypeOK, Operation
<1>9. ASSUME NEW p \in Proc, GroupAdd(p) \/ GroupMod(p) \/ GroupDel(p) PROVE TypeOK'
  <2>1. groups' \in [Proc -> Seq(Group)]
    BY <1>9, GroupOperationType DEF TypeOK
  <2>2. chgG' \in [Proc -> BOOLEAN] /\ UNCHANGED <<users, chgU>>
    BY <1>9, GroupOperationType DEF TypeOK
  <2>3. Operation(p)
    BY <1>9, GroupOperationType
  <2> QED
    BY <2>1, <2>2, <2>3 DEF TypeOK, Operation
<1>10. ASSUME NEW p \in Proc, ModctlFlush(p) PROVE TypeOK'
  BY <1>10 DEF TypeOK, ModctlFlush, StartFlush, Goto, PC
<1>11. ASSUME NEW p \in Proc, WriteFile(p) PROVE TypeOK'
  <2>1. FlushOrder[at[p]] \in File
    BY FlushOrderFile DEF TypeOK
  <2>2. disk' \in Image
    BY <1>11, <2>1, DiskType DEF TypeOK, WriteFile
  <2> QED
    BY <1>11, <2>2 DEF TypeOK, WriteFile, Goto, PC, counters
<1>12. ASSUME NEW p \in Proc, TruncateFile(p) PROVE TypeOK'
  <2>1. FlushOrder[at[p]] \in File
    BY FlushOrderFile DEF TypeOK
  <2>2. disk' \in Image
    BY <1>12, <2>1, DiskType DEF TypeOK, TruncateFile
  <2> QED
    <3>1. pc' \in [Proc -> PC] /\ at' \in [Proc -> 1 .. 4]
      <4>1. "writing" \in PC /\ AfterFlush(p) \in PC
        BY DEF PC, AfterFlush
      <4>2. CASE at[p] = 4
        BY <1>12, <4>1, <4>2, GotoType, FirstPosition DEF TruncateFile
      <4>3. CASE at[p] # 4
        BY <1>12, <4>1, <4>3, GotoType, NextPosition DEF TruncateFile
      <4> QED
        BY <4>2, <4>3
    <3>2. chgU' \in [Proc -> BOOLEAN] /\ chgG' \in [Proc -> BOOLEAN]
      BY <1>12 DEF TypeOK, TruncateFile
    <3>3. base' \in [Proc -> Image \cup {NULL}] /\ torn' \in BOOLEAN
      <4>1. CASE at[p] = 4
        <5>1. base' = [base EXCEPT ![p] = disk'] /\ torn' = FALSE
          BY <1>12, <4>1 DEF TruncateFile
        <5> QED
          BY <2>2, <5>1 DEF TypeOK
      <4>2. CASE at[p] # 4
        <5>1. UNCHANGED <<base, torn>>
          BY <1>12, <4>2 DEF TruncateFile
        <5> QED
          BY <5>1 DEF TypeOK
      <4> QED
        BY <4>1, <4>2
    <3> QED
      BY <1>12, <2>2, <3>1, <3>2, <3>3 DEF TypeOK, TruncateFile, counters
<1>13. ASSUME NEW p \in Proc, Close(p) \/ Lock(p) PROVE TypeOK'
  <2>1. PICK why \in {"close", "lock"} : CloseFor(p, why)
    BY <1>13 DEF Close, Lock
  <2>2. pc' \in [Proc -> PC] /\ at' \in [Proc -> 1 .. 4]
    <3>1. "writing" \in PC /\ "releasing" \in PC
      BY DEF PC
    <3>2. \/ Goto(p, "writing") /\ at' = [at EXCEPT ![p] = 1]
          \/ Goto(p, "releasing") /\ UNCHANGED at
      BY <2>1 DEF CloseFor, StartFlush
    <3>3. pc' \in [Proc -> PC]
      BY <3>1, <3>2, GotoType
    <3> QED
      BY <3>2, <3>3, FirstPosition DEF TypeOK
  <2>3. goal' \in [Proc -> {"close", "lock", "flush"}]
    BY <2>1 DEF TypeOK, CloseFor, StartFlush
  <2> QED
    BY <2>1, <2>2, <2>3 DEF TypeOK, CloseFor, StartFlush, counters
<1>14. ASSUME NEW p \in Proc, Release(p) PROVE TypeOK'
  <2>1. users' \in [Proc -> Seq(User)] /\ groups' \in [Proc -> Seq(Group)]
    BY <1>14 DEF TypeOK, Release
  <2> QED
    <3>1. pc' \in [Proc -> PC] /\ at' \in [Proc -> 1 .. 4]
      <4>1. "locking" \in PC /\ "reading" \in PC /\ "closed" \in PC
        BY DEF PC
      <4>2. \/ Goto(p, "locking") /\ at' = [at EXCEPT ![p] = 1]
            \/ Goto(p, "reading") /\ at' = [at EXCEPT ![p] = 1]
            \/ Goto(p, "closed") /\ UNCHANGED at
        BY <1>14 DEF Release, OpenFiles
      <4> QED
        BY <4>1, <4>2, GotoType, FirstPosition DEF TypeOK
    <3>2. flags' \in [Proc -> SUBSET {"WRLOCK", "ADMIN"}]
      <4>1. \/ flags' = [flags EXCEPT ![p] = flags[p] \cup {"WRLOCK"}]
            \/ flags' = flags
        BY <1>14 DEF Release, OpenFiles
      <4> QED
        <5>1. flags \in [Proc -> SUBSET {"WRLOCK", "ADMIN"}]
          BY DEF TypeOK
        <5>2. flags[p] \cup {"WRLOCK"} \in SUBSET {"WRLOCK", "ADMIN"}
          BY <5>1
        <5> QED
          BY <4>1, <5>1, <5>2
    <3>3. base' \in [Proc -> Image \cup {NULL}]
      BY <1>14 DEF TypeOK, Release, OpenFiles
    <3>4. lock' \in Proc \cup {NoProc} /\ sessions' \in [Proc -> Nat]
      BY <1>14 DEF TypeOK, Release, FreeLock, OpenFiles
    <3> QED
      BY <1>14, <2>1, <3>1, <3>2, <3>3, <3>4 DEF TypeOK, Release
<1>15. ASSUME NEW p \in Proc, Unlock(p) PROVE TypeOK'
  <2>1. flags' \in [Proc -> SUBSET {"WRLOCK", "ADMIN"}]
    BY <1>15 DEF TypeOK, Unlock
  <2>2. lock' \in Proc \cup {NoProc}
    BY <1>15 DEF TypeOK, Unlock, FreeLock
  <2> QED
    BY <1>15, <2>1, <2>2 DEF TypeOK, Unlock, counters
<1>16. ASSUME NEW p \in Proc, Crash(p) PROVE TypeOK'
  <2>1. users' \in [Proc -> Seq(User)] /\ groups' \in [Proc -> Seq(Group)]
    BY <1>16 DEF TypeOK, Crash
  <2> QED
    <3>1. /\ pc' \in [Proc -> PC] /\ at' \in [Proc -> 1 .. 4]
          /\ lock' \in Proc \cup {NoProc}
      BY <1>16 DEF TypeOK, Crash, FreeLock, Goto, PC
    <3>2. chgU' \in [Proc -> BOOLEAN] /\ chgG' \in [Proc -> BOOLEAN]
      BY <1>16 DEF TypeOK, Crash
    <3>3. base' \in [Proc -> Image \cup {NULL}] /\ torn' \in BOOLEAN
      BY <1>16 DEF TypeOK, Crash, Flushing
    <3> QED
      BY <1>16, <2>1, <3>1, <3>2, <3>3 DEF TypeOK, Crash
<1>17. CASE UNCHANGED vars
  BY <1>17 DEF TypeOK, vars
<1> QED
  BY <1>1, <1>2, <1>4, <1>5, <1>6, <1>7, <1>8, <1>9, <1>10, <1>11, <1>12,
     <1>13, <1>14, <1>15, <1>16, <1>17
     DEF Next, Progress, Request, Finished

(* The state variables keep their types, whatever the programs do: with     *)
(* unlock, with VXDB_ADMIN, with crashes.  In particular no operation and   *)
(* no torn file ever yields a record that is not an account.                *)
THEOREM TypeCorrect == Spec => []TypeOK
BY InitType, TypeStep, PTL DEF Spec

-----------------------------------------------------------------------------
(* The lock protocol *)

Same(q) ==
  /\ pc'[q] = pc[q] /\ at'[q] = at[q] /\ goal'[q] = goal[q]
  /\ flags'[q] = flags[q] /\ base'[q] = base[q]
  /\ chgU'[q] = chgU[q] /\ chgG'[q] = chgG[q]

(* What the others keep when p takes the free lock or gives its own back,   *)
(* and when p, holding the lock, writes the files.                          *)
LEMMA OthersKeep ==
  ASSUME IInv, NEW p \in Proc, NEW q \in Proc, q # p, Same(q),
         lock' = lock \/ lock \in {p, NoProc},
         disk' = disk \/ lock = p
  PROVE  ProcInv(q)'
<1>1. ProcInv(q)
  BY DEF IInv
<1>2. q # NoProc
  BY ProcAssumption
<1>3. PureFlags(q)' /\ LockGoal(q)' /\ DirtyWritable(q)'
      /\ FlushWritable(q)' /\ FlushPosition(q)'
  BY <1>1 DEF ProcInv, Same, PureFlags, LockGoal, DirtyWritable, Dirty,
              FlushWritable, Flushing, FlushPosition
<1>4. HoldsLock(q)'
  BY <1>1, <1>2 DEF ProcInv, Same, HoldsLock, Active
<1>5. BaseCurrent(q)'
  <2>1. CASE ~("WRLOCK" \in flags[q] /\ pc[q] \in {"reading", "ready"})
    BY <2>1 DEF Same, BaseCurrent
  <2>2. CASE "WRLOCK" \in flags[q] /\ pc[q] \in {"reading", "ready"}
    <3>1. lock = q
      BY <1>1, <2>2 DEF ProcInv, HoldsLock, Active
    <3>2. disk' = disk
      BY <3>1, <1>2
    <3> QED
      BY <1>1, <2>2, <3>2 DEF ProcInv, BaseCurrent, Same
  <2> QED
    BY <2>1, <2>2
<1> QED
  BY <1>3, <1>4, <1>5 DEF ProcInv

LEMMA InitInv == Init => IInv
<1> SUFFICES ASSUME Init PROVE \A p \in Proc : ProcInv(p)
  BY InitType DEF IInv
<1> TAKE p \in Proc
<1>1. pc[p] = "closed" /\ flags[p] = {} /\ ~chgU[p] /\ ~chgG[p]
  BY DEF Init
<1> QED
  BY <1>1 DEF ProcInv, PureFlags, LockGoal, HoldsLock, Active, DirtyWritable,
              Dirty, FlushWritable, Flushing, FlushPosition, BaseCurrent

(* A step of p is one that leaves the rest to OthersKeep. *)
StepOf(p) ==
  /\ \A q \in Proc \ {p} : Same(q)
  /\ lock' = lock \/ lock \in {p, NoProc}
  /\ disk' = disk \/ lock = p

LEMMA InvStep == SafeCallers /\ IInv /\ [Next]_vars => IInv'
<1> SUFFICES ASSUME SafeCallers, IInv, [Next]_vars PROVE IInv'
  OBVIOUS
<1> USE DEF ProcInv
<1>0. TypeOK /\ TypeOK'
  BY TypeStep DEF IInv
<1>a. ASSUME NEW p \in Proc, StepOf(p), ProcInv(p)' PROVE IInv'
  <2>1. ASSUME NEW q \in Proc PROVE ProcInv(q)'
    <3>1. CASE q = p
      BY <1>a, <3>1
    <3>2. CASE q # p
      BY <1>a, <3>2, OthersKeep DEF StepOf
    <3> QED
      BY <3>1, <3>2
  <2> QED
    BY <1>0, <2>1 DEF IInv
<1> DEFINE Step(p) == StepOf(p) /\ ProcInv(p)'
<1>1. ASSUME NEW p \in Proc, NEW f \in OpenFlags, Open(p, f) PROVE Step(p)
  <2>1. ProcInv(p) /\ f \in SUBSET {"WRLOCK", "ADMIN"}
    BY ProcAssumption DEF IInv
  <2>2. StepOf(p)
    BY <1>0, <1>1 DEF StepOf, Same, Open, OpenFiles, Goto, TypeOK
  <2>3. /\ flags'[p] = f /\ ~chgU'[p] /\ ~chgG'[p]
        /\ IF f = {"WRLOCK"} THEN pc'[p] = "locking" ELSE pc'[p] = "reading"
    BY <1>0, <1>1, <2>1 DEF Open, OpenFiles, Goto, TypeOK, DirtyWritable, Dirty
  <2>4. ProcInv(p)'
    BY <2>1, <2>3 DEF SafeCallers, PureFlags, LockGoal, HoldsLock, Active,
       DirtyWritable, Dirty, FlushWritable, Flushing, FlushPosition, BaseCurrent
  <2> QED
    BY <2>2, <2>4
<1>2. ASSUME NEW p \in Proc, AcquireLock(p) PROVE Step(p)
  <2>1. ProcInv(p)
    BY DEF IInv
  <2>2. StepOf(p)
    BY <1>0, <1>2 DEF StepOf, Same, AcquireLock, Goto, TypeOK, counters
  <2>3. /\ flags'[p] = flags[p] /\ chgU'[p] = chgU[p] /\ chgG'[p] = chgG[p]
        /\ pc[p] = "locking" /\ pc'[p] = "reading" /\ lock' = p
        /\ base'[p] = disk /\ disk' = disk
    BY <1>0, <1>2 DEF AcquireLock, Goto, TypeOK, counters
  <2>4. ProcInv(p)'
    BY <2>1, <2>3 DEF PureFlags, LockGoal, HoldsLock, Active,
       DirtyWritable, Dirty, FlushWritable, Flushing, FlushPosition, BaseCurrent
  <2> QED
    BY <2>2, <2>4
<1>3. ASSUME NEW p \in Proc, NEW f, Reading(p, f) PROVE Step(p)
  <2>1. ProcInv(p)
    BY DEF IInv
  <2>2. StepOf(p)
    BY <1>0, <1>3 DEF StepOf, Same, Reading, Goto, TypeOK, counters
  <2>3. /\ flags'[p] = flags[p] /\ chgU'[p] = chgU[p] /\ chgG'[p] = chgG[p]
        /\ pc[p] = "reading" /\ pc'[p] \in {"reading", "ready"} /\ lock' = lock
        /\ base'[p] = base[p] /\ disk' = disk
    BY <1>0, <1>3 DEF Reading, Goto, TypeOK, counters
  <2>4. ProcInv(p)'
    BY <2>1, <2>3 DEF PureFlags, LockGoal, HoldsLock, Active,
       DirtyWritable, Dirty, FlushWritable, Flushing, FlushPosition, BaseCurrent
  <2> QED
    BY <2>2, <2>4
<1>4. ASSUME NEW p \in Proc, Operation(p),
             \/ chgU' = [chgU EXCEPT ![p] = TRUE] /\ UNCHANGED chgG
             \/ chgG' = [chgG EXCEPT ![p] = TRUE] /\ UNCHANGED chgU
      PROVE  Step(p)
  <2>1. ProcInv(p)
    BY DEF IInv
  <2>2. StepOf(p)
    BY <1>0, <1>4 DEF StepOf, Same, Operation, TypeOK
  <2>3. ProcInv(p)'
    BY <1>4, <2>1 DEF Operation, PureFlags, LockGoal, HoldsLock, Active,
       DirtyWritable, Dirty, FlushWritable, Flushing, FlushPosition, BaseCurrent
  <2> QED
    BY <2>2, <2>3
<1>5. ASSUME NEW p \in Proc, UserAdd(p) \/ UserMod(p) \/ UserDel(p) PROVE Step(p)
  BY <1>0, <1>4, <1>5, UserOperationType
<1>6. ASSUME NEW p \in Proc, GroupAdd(p) \/ GroupMod(p) \/ GroupDel(p) PROVE Step(p)
  BY <1>0, <1>4, <1>6, GroupOperationType
<1>7. ASSUME NEW p \in Proc, NEW why \in {"close", "lock", "flush"},
             pc[p] = "ready", StartFlush(p, why), "WRLOCK" \in flags[p],
             why = "lock" => LockCallers # {}
      PROVE  Step(p)
  <2>1. ProcInv(p)
    BY DEF IInv
  <2>2. StepOf(p)
    BY <1>0, <1>7 DEF StepOf, Same, StartFlush, Goto, TypeOK
  <2>3. /\ pc'[p] = "writing" /\ at'[p] = 1 /\ goal'[p] = why
        /\ UNCHANGED <<disk, lock, flags, chgU, chgG, base>>
    BY <1>0, <1>7 DEF StartFlush, Goto, TypeOK
  <2>4. ProcInv(p)'
    BY <1>7, <2>1, <2>3 DEF PureFlags, LockGoal, HoldsLock, Active,
       DirtyWritable, Dirty, FlushWritable, Flushing, FlushPosition, BaseCurrent
  <2> QED
    BY <2>2, <2>4
<1>8. ASSUME NEW p \in Proc, ModctlFlush(p) PROVE Step(p)
  BY <1>7, <1>8 DEF ModctlFlush
<1>9. ASSUME NEW p \in Proc, WriteFile(p) PROVE Step(p)
  <2>1. ProcInv(p)
    BY DEF IInv
  <2>2. lock = p
    BY <1>9, <2>1 DEF WriteFile, HoldsLock, Active, FlushWritable, Flushing
  <2>3. StepOf(p)
    BY <1>0, <1>9, <2>2 DEF StepOf, Same, WriteFile, Goto, TypeOK, counters
  <2>4. /\ pc[p] = "writing" /\ pc'[p] = "truncating"
        /\ UNCHANGED <<lock, flags, chgU, chgG, at, goal>>
    BY <1>0, <1>9 DEF WriteFile, Goto, TypeOK, counters
  <2>5. ProcInv(p)'
    BY <2>1, <2>4 DEF PureFlags, LockGoal, HoldsLock, Active,
       DirtyWritable, Dirty, FlushWritable, Flushing, FlushPosition, BaseCurrent
  <2> QED
    BY <2>3, <2>5
<1>10. ASSUME NEW p \in Proc, TruncateFile(p) PROVE Step(p)
  <2>1. ProcInv(p)
    BY DEF IInv
  <2>2. lock = p
    BY <1>10, <2>1 DEF TruncateFile, HoldsLock, Active, FlushWritable, Flushing
  <2>3. StepOf(p)
    BY <1>0, <1>10, <2>2
    DEF StepOf, Same, TruncateFile, AfterFlush, Goto, TypeOK, counters
  <2>4. /\ pc[p] = "truncating" /\ UNCHANGED <<lock, flags, goal>>
        /\ chgU'[p] = (chgU[p] /\ at[p] # 3)
    BY <1>0, <1>10 DEF TruncateFile, TypeOK, counters
  <2>5. CASE at[p] = 4
    <3>1. /\ pc'[p] = AfterFlush(p) /\ at'[p] = 1
          /\ ~chgG'[p] /\ base'[p] = disk'
      BY <1>0, <1>10, <2>5 DEF TruncateFile, Goto, TypeOK
    <3> QED
      BY <2>1, <2>3, <2>4, <2>5, <3>1
      DEF AfterFlush, PureFlags, LockGoal, HoldsLock, Active, DirtyWritable, Dirty,
          FlushWritable, Flushing, FlushPosition, BaseCurrent
  <2>6. CASE at[p] # 4
    <3>1. pc'[p] = "writing" /\ at'[p] = at[p] + 1 /\ chgG'[p] = chgG[p]
      BY <1>0, <1>10, <2>6 DEF TruncateFile, Goto, TypeOK
    <3>2. at'[p] = 4 => at[p] = 3
      <4>1. at[p] \in 1 .. 4
        BY <1>0 DEF TypeOK
      <4> QED
        BY <3>1, <4>1
    <3> QED
      BY <2>1, <2>3, <2>4, <3>1, <3>2
      DEF PureFlags, LockGoal, HoldsLock, Active, DirtyWritable, Dirty,
          FlushWritable, Flushing, FlushPosition, BaseCurrent
  <2> QED
    BY <2>5, <2>6
<1>11. ASSUME NEW p \in Proc, Close(p) \/ Lock(p) PROVE Step(p)
  <2>1. ProcInv(p)
    BY DEF IInv
  <2>2. PICK why \in {"close", "lock"} : /\ CloseFor(p, why)
                                         /\ why = "lock" => LockCallers # {}
    BY <1>11 DEF Close, Lock
  <2>3. CASE Dirty(p)
    <3>1. "WRLOCK" \in flags[p]
      BY <2>1, <2>3 DEF DirtyWritable
    <3>2. pc[p] = "ready" /\ StartFlush(p, why)
      BY <2>2, <2>3 DEF CloseFor
    <3> QED
      BY <1>7, <2>2, <3>1, <3>2
  <2>4. CASE ~Dirty(p)
    <3>1. /\ pc'[p] = "releasing" /\ goal'[p] = why /\ pc[p] = "ready"
          /\ UNCHANGED <<disk, lock, at, flags, chgU, chgG, base>>
      BY <1>0, <2>2, <2>4 DEF CloseFor, Goto, TypeOK
    <3>2. StepOf(p)
      BY <1>0, <2>2, <2>4, <3>1 DEF StepOf, Same, CloseFor, Goto, TypeOK
    <3> QED
      BY <2>1, <2>2, <2>4, <3>1, <3>2
      DEF PureFlags, LockGoal, HoldsLock, Active, DirtyWritable, Dirty,
          FlushWritable, Flushing, FlushPosition, BaseCurrent
  <2> QED
    BY <2>3, <2>4
<1>12. ASSUME NEW p \in Proc, Release(p) PROVE Step(p)
  <2>1. ProcInv(p)
    BY DEF IInv
  <2>2. StepOf(p)
    <3>1. lock' = lock \/ lock = p
      BY <1>12 DEF Release, FreeLock
    <3>2. CASE goal[p] = "lock"
      <4>1. OpenFiles(p, flags[p] \cup {"WRLOCK"})
        BY <1>12, <3>2 DEF Release
      <4>2. \A q \in Proc \ {p} : pc'[q] = pc[q] /\ base'[q] = base[q]
        <5>1. \/ pc' = [pc EXCEPT ![p] = "locking"] /\ base' = base
              \/ /\ pc' = [pc EXCEPT ![p] = "reading"]
                 /\ base' = [base EXCEPT ![p] = disk]
          BY <4>1 DEF OpenFiles, Goto
        <5> QED
          BY <1>0, <5>1 DEF TypeOK
      <4>3. \A q \in Proc \ {p} : flags'[q] = flags[q] /\ at'[q] = at[q]
        <5>1. /\ flags' = [flags EXCEPT ![p] = flags[p] \cup {"WRLOCK"}]
              /\ at' = [at EXCEPT ![p] = 1]
          BY <4>1 DEF OpenFiles
        <5> QED
          BY <1>0, <5>1 DEF TypeOK
      <4>4. UNCHANGED <<disk, goal, chgU, chgG>>
        BY <1>12 DEF Release
      <4> QED
        BY <3>1, <4>2, <4>3, <4>4 DEF StepOf, Same
    <3>3. CASE goal[p] # "lock"
      <4>1. /\ pc' = [pc EXCEPT ![p] = "closed"]
            /\ base' = [base EXCEPT ![p] = NULL]
            /\ UNCHANGED <<disk, goal, flags, at, chgU, chgG>>
        BY <1>12, <3>3 DEF Release, Goto
      <4>2. \A q \in Proc \ {p} : pc'[q] = pc[q] /\ base'[q] = base[q]
        BY <1>0, <4>1 DEF TypeOK
      <4> QED
        BY <3>1, <4>1, <4>2 DEF StepOf, Same
    <3> QED
      BY <3>2, <3>3
  <2>3. pc[p] = "releasing" /\ UNCHANGED <<disk, goal, chgU, chgG>>
    BY <1>12 DEF Release
  <2>4. CASE goal[p] = "lock"
    <3>1. flags[p] = {} \/ flags[p] = {"WRLOCK"}
      <4>1. flags[p] \in SUBSET {"WRLOCK", "ADMIN"}
        BY <1>0 DEF TypeOK
      <4>2. "ADMIN" \notin flags[p]
        BY <2>1, <2>3, <2>4 DEF PureFlags, LockGoal
      <4> QED
        BY <4>1, <4>2
    <3>2. flags[p] \cup {"WRLOCK"} = {"WRLOCK"}
      BY <3>1
    <3>3. flags'[p] = {"WRLOCK"} /\ pc'[p] = "locking"
      BY <1>0, <1>12, <2>4, <3>2 DEF Release, OpenFiles, Goto, TypeOK
    <3> QED
      BY <2>1, <2>2, <2>3, <3>3
      DEF PureFlags, LockGoal, HoldsLock, Active, DirtyWritable, Dirty,
          FlushWritable, Flushing, FlushPosition, BaseCurrent
  <2>5. CASE goal[p] # "lock"
    <3>1. flags'[p] = flags[p] /\ pc'[p] = "closed"
      BY <1>0, <1>12, <2>5 DEF Release, Goto, TypeOK
    <3> QED
      BY <2>1, <2>2, <2>3, <3>1
      DEF PureFlags, LockGoal, HoldsLock, Active, DirtyWritable, Dirty,
          FlushWritable, Flushing, FlushPosition, BaseCurrent
  <2> QED
    BY <2>4, <2>5
<1>13. ASSUME NEW p \in Proc, Unlock(p) PROVE FALSE
  BY <1>13 DEF Unlock, SafeCallers
<1>14. ASSUME NEW p \in Proc, Crash(p) PROVE Step(p)
  <2>1. ProcInv(p)
    BY DEF IInv
  <2>2. StepOf(p)
    BY <1>0, <1>14 DEF StepOf, Same, Crash, FreeLock, Goto, TypeOK
  <2>3. /\ pc'[p] = "closed" /\ ~chgU'[p] /\ ~chgG'[p]
        /\ UNCHANGED <<disk, flags>>
    BY <1>0, <1>14 DEF Crash, Goto, TypeOK
  <2> QED
    BY <2>1, <2>2, <2>3
    DEF PureFlags, LockGoal, HoldsLock, Active, DirtyWritable, Dirty,
        FlushWritable, Flushing, FlushPosition, BaseCurrent
<1>15. CASE UNCHANGED vars
  BY <1>0, <1>15
  DEF IInv, vars, PureFlags, LockGoal, HoldsLock, Active, DirtyWritable, Dirty,
      FlushWritable, Flushing, FlushPosition, BaseCurrent
<1> HIDE DEF ProcInv, Step
<1>16. ASSUME NEW p \in Proc, Step(p) PROVE IInv'
  BY <1>a, <1>16 DEF Step
<1>17. ASSUME NEW p \in Proc, Progress(p) \/ Request(p) \/ Crash(p) PROVE IInv'
  <2>1. CASE Progress(p)
    BY <2>1, <1>2, <1>3, <1>9, <1>10, <1>11, <1>12, <1>16
    DEF Progress, ReadPasswd, ReadGroup, ReadShadow, ReadVxshadow
  <2>2. CASE Request(p)
    BY <2>2, <1>1, <1>5, <1>6, <1>8, <1>11, <1>13, <1>16 DEF Request
  <2>3. CASE Crash(p)
    BY <2>3, <1>14, <1>16
  <2> QED
    BY <1>17, <2>1, <2>2, <2>3
<1> QED
  BY <1>15, <1>17 DEF Next, Finished

LEMMA InvHolds == SafeCallers => (Spec => []IInv)
<1> SUFFICES ASSUME SafeCallers PROVE Spec => []IInv
  OBVIOUS
<1> QED
  BY InitInv, InvStep, PTL DEF Spec

(* Nobody writes the files without the fcntl lock, whatever the interleaving *)
(* of the processes and wherever they are killed.                            *)
THEOREM FlushUnderLock == SafeCallers => (Spec => []FlushHoldsLock)
<1>1. IInv => FlushHoldsLock
  BY DEF IInv, ProcInv, FlushHoldsLock, FlushWritable, HoldsLock, Active, Flushing
<1> QED
  BY <1>1, InvHolds, PTL

(* A handle with unwritten changes is one whose copy nobody has overtaken:   *)
(* what it will write over the files loses no other process's work.          *)
THEOREM UpdatesNotLost == SafeCallers => (Spec => []NoLostUpdate)
<1>1. IInv => NoLostUpdate
  BY DEF IInv, ProcInv, NoLostUpdate, DirtyWritable, BaseCurrent
<1> QED
  BY <1>1, InvHolds, PTL

(* The driver's "reopen with rwlock, reread": a handle that may write has    *)
(* kept everybody else out from before its first read to its release.        *)
THEOREM WritersExcluded == SafeCallers => (Spec => []WriterHoldsLock)
<1>1. IInv => WriterHoldsLock
  BY DEF IInv, ProcInv, WriterHoldsLock, HoldsLock, Active
<1> QED
  BY <1>1, InvHolds, PTL

-----------------------------------------------------------------------------
(* What the copy in memory and the files have to do with each other.        *)

\* The owner of the lock is in the middle of using it.
LockOwner(p) == lock = p => Active(p)

\* Who waits for the lock wants to write and has read nothing yet.
Waiting(p) == pc[p] = "locking" => "WRLOCK" \in flags[p] /\ at[p] = 1

\* Writers may read and write all four files.
WriterPrivileged(p) ==
  /\ pc[p] # "closed" /\ "WRLOCK" \in flags[p] => p \in Privileged
  /\ pc[p] \in {"writing", "truncating", "releasing"} /\ goal[p] = "lock"
     => p \in Privileged

\* Under the lock: what has been read so far is what the files say.
PartlyRead(p) ==
  pc[p] = "reading" /\ lock = p =>
    /\ at[p] \in {2, 3} => users[p] = db_read_passwd(disk.passwd)
    /\ at[p] = 4 => users[p] = db_read_shadow(disk.shadow, db_read_passwd(disk.passwd))
    /\ at[p] \in {3, 4} => groups[p] = disk.group

\* HolderInSync for one process; it needs the names to be unique, which they are
\* unless the files were not.
InSync(p) ==
  pc[p] = "ready" /\ lock = p =>
    /\ ~chgU[p] /\ UniqueNames(users[p])
       => Stored(ReadUsers(disk, HasVx), HasVx) = Stored(users[p], HasVx)
    /\ ~chgG[p] => disk.group = groups[p]

\* The files before the current one are written out, and the current one
\* needs only to be truncated.
Written(p, i) ==
  Skipped(FlushOrder[i]) \/ disk[FlushOrder[i]] = Target(p)[FlushOrder[i]]

\* The written file yields the new one when it is truncated.
Overlaid(p, i) ==
  LET f == FlushOrder[i]
  IN  Skipped(f) \/ Truncated(f, disk[f], Target(p)[f]) = Target(p)[f]

\* A flush leaves nothing out.
PartlyWritten(p) ==
  Flushing(p) =>
    /\ \A i \in 1 .. 4 : i < at[p] => Written(p, i)
    /\ pc[p] = "truncating" => Overlaid(p, at[p])

CopyInv(p) ==
  /\ LockOwner(p) /\ Waiting(p) /\ WriterPrivileged(p)
  /\ PartlyRead(p) /\ InSync(p) /\ PartlyWritten(p)

DInv == IInv /\ \A p \in Proc : CopyInv(p)

(* Initially nobody has a copy. *)
LEMMA InitCopy == Init => DInv
<1> SUFFICES ASSUME Init PROVE \A p \in Proc : CopyInv(p)
  BY InitInv DEF DInv
<1> TAKE p \in Proc
<1>1. pc[p] = "closed" /\ flags[p] = {} /\ lock # p
  BY ProcAssumption DEF Init
<1> QED
  BY <1>1 DEF CopyInv, LockOwner, Waiting, WriterPrivileged, PartlyRead,
              InSync, PartlyWritten, Flushing

(* A step of p touches its own part of the state, the lock only to take it  *)
(* or to give it back, and the files only while it flushes.                 *)
Untouched(q) == Same(q) /\ users'[q] = users[q] /\ groups'[q] = groups[q]

Local(p) ==
  /\ \A q \in Proc \ {p} : Untouched(q)
  /\ lock' = lock \/ (lock \in {p, NoProc} /\ lock' \in {p, NoProc})
  /\ disk' = disk \/ Flushing(p)

LEMMA StepLocal ==
  ASSUME TypeOK, NEW p \in Proc, Progress(p) \/ Request(p) \/ Crash(p)
  PROVE  Local(p)
<1> USE DEF Local, Untouched, Same
<1>1. ASSUME NEW f \in OpenFlags, Open(p, f) PROVE Local(p)
  BY <1>1 DEF Open, OpenFiles, Goto, TypeOK
<1>2. CASE AcquireLock(p)
  BY <1>2 DEF AcquireLock, Goto, TypeOK, counters
<1>3. CASE ReadPasswd(p) \/ ReadGroup(p)
  BY <1>3 DEF ReadPasswd, ReadGroup, Reading, Goto, TypeOK, counters
<1>4. CASE ReadShadow(p) \/ ReadVxshadow(p)
  BY <1>4 DEF ReadShadow, ReadVxshadow, Reading, Goto, TypeOK, counters
<1>5. CASE UserAdd(p) \/ UserMod(p) \/ UserDel(p)
  <2>1. PICK us \in Seq(User) : users' = [users EXCEPT ![p] = us]
    BY <1>5, UserOperationType
  <2>2. /\ Operation(p) /\ chgU' = [chgU EXCEPT ![p] = TRUE]
        /\ UNCHANGED <<groups, chgG>>
    BY <1>5, UserOperationType
  <2> QED
    BY <2>1, <2>2 DEF Operation, TypeOK
<1>6. CASE GroupAdd(p) \/ GroupMod(p) \/ GroupDel(p)
  <2>1. PICK gs \in Seq(Group) : groups' = [groups EXCEPT ![p] = gs]
    BY <1>6, GroupOperationType
  <2>2. /\ Operation(p) /\ chgG' = [chgG EXCEPT ![p] = TRUE]
        /\ UNCHANGED <<users, chgU>>
    BY <1>6, GroupOperationType
  <2> QED
    BY <2>1, <2>2 DEF Operation, TypeOK
<1>7. CASE ModctlFlush(p)
  BY <1>7 DEF ModctlFlush, StartFlush, Goto, TypeOK
<1>8. CASE WriteFile(p)
  BY <1>8 DEF WriteFile, Flushing, Goto, TypeOK, counters
<1>9. CASE TruncateFile(p)
  <2>1. Flushing(p) /\ UNCHANGED <<lock, goal, flags, users, groups>>
    BY <1>9 DEF TruncateFile, Flushing
  <2>2. \A q \in Proc \ {p} : pc'[q] = pc[q] /\ at'[q] = at[q]
    BY <1>9 DEF TruncateFile, Goto, TypeOK
  <2>3. \A q \in Proc \ {p} : chgU'[q] = chgU[q] /\ chgG'[q] = chgG[q]
    BY <1>9 DEF TruncateFile, TypeOK
  <2>4. \A q \in Proc \ {p} : base'[q] = base[q]
    BY <1>9 DEF TruncateFile, TypeOK
  <2> QED
    BY <2>1, <2>2, <2>3, <2>4
<1>10. CASE Close(p) \/ Lock(p)
  BY <1>10 DEF Close, Lock, CloseFor, StartFlush, Goto, TypeOK, counters
<1>11. CASE Release(p)
  <2>1. /\ pc' = [pc EXCEPT ![p] = "locking"] \/ pc' = [pc EXCEPT ![p] = "reading"]
           \/ pc' = [pc EXCEPT ![p] = "closed"]
        /\ base' = base \/ base' = [base EXCEPT ![p] = disk]
           \/ base' = [base EXCEPT ![p] = NULL]
        /\ flags' = flags \/ flags' = [flags EXCEPT ![p] = flags[p] \cup {"WRLOCK"}]
        /\ at' = at \/ at' = [at EXCEPT ![p] = 1]
    BY <1>11 DEF Release, OpenFiles, Goto
  <2>2. /\ lock' = lock \/ (lock = p /\ lock' = NoProc)
        /\ users' = [users EXCEPT ![p] = <<>>] /\ groups' = [groups EXCEPT ![p] = <<>>]
        /\ UNCHANGED <<disk, goal, chgU, chgG>>
    BY <1>11 DEF Release, FreeLock
  <2>3. \A q \in Proc \ {p} : pc'[q] = pc[q] /\ at'[q] = at[q]
    BY <2>1 DEF TypeOK
  <2>4. \A q \in Proc \ {p} : flags'[q] = flags[q] /\ base'[q] = base[q]
    BY <2>1 DEF TypeOK
  <2> QED
    BY <2>2, <2>3, <2>4 DEF TypeOK
<1>12. CASE Unlock(p)
  BY <1>12 DEF Unlock, FreeLock, TypeOK, counters
<1>13. CASE Crash(p)
  BY <1>13 DEF Crash, FreeLock, Goto, TypeOK
<1> HIDE DEF Local
<1> QED
  BY <1>1, <1>2, <1>3, <1>4, <1>5, <1>6, <1>7, <1>8, <1>9, <1>10, <1>11, <1>12,
     <1>13 DEF Progress, Request

(* What p does leaves the copies of the others alone: whoever does not hold *)
(* the lock promises nothing, and with a holder other than p the files stay *)
(* as they are.                                                             *)
LEMMA OthersCopy ==
  ASSUME DInv, NEW p \in Proc, NEW q \in Proc, q # p, Local(p)
  PROVE  CopyInv(q)'
<1>1. CopyInv(q) /\ ProcInv(q) /\ ProcInv(p) /\ Untouched(q)
  BY DEF DInv, IInv, Local
<1>2. lock' = q => lock = q
  BY ProcAssumption DEF Local
<1>3. LockOwner(q)' /\ Waiting(q)' /\ WriterPrivileged(q)'
  BY <1>1, <1>2 DEF CopyInv, Untouched, Same, LockOwner, Active, Waiting,
                    WriterPrivileged
<1>4. lock = q => disk' = disk
  BY <1>1 DEF Local, ProcInv, FlushWritable, HoldsLock, Active, Flushing
<1>5. PartlyRead(q)'
  BY <1>1, <1>2, <1>4 DEF CopyInv, Untouched, Same, PartlyRead
<1>6. InSync(q)'
  BY <1>1, <1>2, <1>4 DEF CopyInv, Untouched, Same, InSync
<1>7. PartlyWritten(q)'
  <2> SUFFICES ASSUME Flushing(q)' PROVE PartlyWritten(q)'
    BY DEF PartlyWritten
  <2>1. Flushing(q)
    BY <1>1 DEF Untouched, Same, Flushing
  <2>2. lock = q
    BY <1>1, <2>1 DEF ProcInv, FlushWritable, HoldsLock, Active, Flushing
  <2>3. Target(q)' = Target(q) /\ disk' = disk /\ pc'[q] = pc[q] /\ at'[q] = at[q]
    BY <1>1, <1>4, <2>2 DEF Untouched, Same, Target
  <2>4. \A i : Written(q, i)' = Written(q, i) /\ Overlaid(q, i)' = Overlaid(q, i)
    BY <2>3 DEF Written, Overlaid
  <2> QED
    BY <1>1, <2>1, <2>3, <2>4 DEF CopyInv, PartlyWritten
<1> QED
  BY <1>3, <1>5, <1>6, <1>7 DEF CopyInv

(* No file is written twice in a flush. *)
LEMMA FlushOrderDistinct ==
  \A i, j \in 1 .. 4 : i < j => FlushOrder[i] # FlushOrder[j]
<1>1. /\ FlushOrder[1] = "passwd" /\ FlushOrder[2] = "shadow"
      /\ FlushOrder[3] = "vxshadow" /\ FlushOrder[4] = "group"
  BY DEF FlushOrder
<1>2. \A i \in 1 .. 4 : i = 1 \/ i = 2 \/ i = 3 \/ i = 4
  OBVIOUS
<1> QED
  BY <1>1, <1>2

(* Writing one file over and truncating it leaves the new content.          *)
LEMMA OverlaidFile ==
  ASSUME TypeOK, NEW p \in Proc, NEW f \in File
  PROVE  Truncated(f, Overwritten(f, disk[f], Target(p)[f]), Target(p)[f]) = Target(p)[f]
<1>1. disk \in Image /\ Target(p) \in Image
  BY WriteImageType DEF TypeOK, Target
<1> HIDE DEF Target
<1>2. CASE f = "passwd"
  BY <1>1, <1>2, RewrittenIsNew DEF Image
<1>3. CASE f = "shadow"
  BY <1>1, <1>3, RewrittenIsNew DEF Image
<1>4. CASE f = "vxshadow"
  BY <1>1, <1>4, RewrittenIsNew DEF Image
<1>5. CASE f = "group"
  BY <1>1, <1>5, RewrittenIsNew DEF Image
<1> QED
  BY <1>2, <1>3, <1>4, <1>5 DEF File

(* What the two steps of rewriting a file do to the files.                  *)
LEMMA WriteEffect ==
  ASSUME DInv, NEW p \in Proc, WriteFile(p)
  PROVE  /\ Target(p)' = Target(p)
         /\ \A i \in 1 .. 4 : i < at[p] => Written(p, i)'
         /\ Overlaid(p, at[p])'
         /\ Skipped("vxshadow") => disk'.vxshadow = disk.vxshadow
<1>1. TypeOK /\ at[p] \in 1 .. 4 /\ disk \in Image
  BY DEF DInv, IInv, TypeOK
<1>2. PartlyWritten(p) /\ Flushing(p)
  BY DEF DInv, CopyInv, WriteFile, Flushing
<1> DEFINE f == FlushOrder[at[p]]
<1>3. f \in File
  BY <1>1, FlushOrderFile
<1>4. Target(p)' = Target(p)
  BY DEF WriteFile, Target
<1>5. disk' = IF Skipped(f) THEN disk
              ELSE [disk EXCEPT ![f] = Overwritten(f, disk[f], Target(p)[f])]
  BY DEF WriteFile
<1>6. DOMAIN disk = File
  BY <1>1 DEF Image, File
<1> HIDE DEF f
<1>7. \A g \in File : g # f => disk'[g] = disk[g]
  BY <1>5, <1>6
<1>8. ~Skipped(f) => disk'[f] = Overwritten(f, disk[f], Target(p)[f])
  BY <1>3, <1>5, <1>6
<1>9. \A i \in 1 .. 4 : i < at[p] => Written(p, i)'
  <2> TAKE i \in 1 .. 4
  <2> HAVE i < at[p]
  <2>1. FlushOrder[i] # f /\ FlushOrder[i] \in File
    BY <1>1, FlushOrderDistinct, FlushOrderFile DEF f
  <2>2. Written(p, i)
    BY <1>2 DEF PartlyWritten
  <2> QED
    BY <1>4, <1>7, <2>1, <2>2 DEF Written, Skipped
<1>10. Overlaid(p, at[p])'
  <2>1. ~Skipped(f) => Truncated(f, disk'[f], Target(p)[f]) = Target(p)[f]
    BY <1>1, <1>3, <1>8, OverlaidFile
  <2>2. at'[p] = at[p]
    BY DEF WriteFile
  <2> QED
    BY <1>4, <2>1, <2>2 DEF Overlaid, f, Skipped
<1>11. Skipped("vxshadow") => disk'.vxshadow = disk.vxshadow
  BY <1>5, <1>7 DEF File
<1> QED
  BY <1>4, <1>9, <1>10, <1>11

(* Truncating completes a file and leaves the earlier ones as they are. *)
LEMMA TruncateEffect ==
  ASSUME DInv, NEW p \in Proc, TruncateFile(p)
  PROVE  /\ Target(p)' = Target(p)
         /\ \A i \in 1 .. 4 : i <= at[p] => Written(p, i)'
         /\ Skipped("vxshadow") => disk'.vxshadow = disk.vxshadow
<1>1. TypeOK /\ at[p] \in 1 .. 4 /\ disk \in Image
  BY DEF DInv, IInv, TypeOK
<1>2. PartlyWritten(p) /\ Flushing(p)
  BY DEF DInv, CopyInv, TruncateFile, Flushing
<1> DEFINE f == FlushOrder[at[p]]
<1>3. f \in File
  BY <1>1, FlushOrderFile
<1>4. Target(p)' = Target(p)
  BY DEF TruncateFile, Target
<1>5. disk' = IF Skipped(f) THEN disk
              ELSE [disk EXCEPT ![f] = Truncated(f, disk[f], Target(p)[f])]
  BY DEF TruncateFile
<1>6. DOMAIN disk = File
  BY <1>1 DEF Image, File
<1>7. Skipped(f) \/ Truncated(f, disk[f], Target(p)[f]) = Target(p)[f]
  BY <1>2 DEF PartlyWritten, Overlaid, TruncateFile
<1> HIDE DEF f
<1>8. \A g \in File : g # f => disk'[g] = disk[g]
  BY <1>5, <1>6
<1>9. ~Skipped(f) => disk'[f] = Target(p)[f]
  BY <1>3, <1>5, <1>6, <1>7
<1>10. \A i \in 1 .. 4 : i <= at[p] => Written(p, i)'
  <2> TAKE i \in 1 .. 4
  <2> HAVE i <= at[p]
  <2>1. CASE i = at[p]
    BY <1>4, <1>9, <2>1 DEF Written, Skipped, f
  <2>2. CASE i < at[p]
    <3>1. FlushOrder[i] # f /\ FlushOrder[i] \in File
      BY <1>1, <2>2, FlushOrderDistinct, FlushOrderFile DEF f
    <3>2. Written(p, i)
      BY <1>2, <2>2 DEF PartlyWritten
    <3> QED
      BY <1>4, <1>8, <3>1, <3>2 DEF Written, Skipped
  <2> QED
    BY <1>1, <2>1, <2>2
<1>11. Skipped("vxshadow") => disk'.vxshadow = disk.vxshadow
  BY <1>5, <1>8 DEF File
<1> QED
  BY <1>4, <1>10, <1>11

(* After the last file the files are what the copy says.                    *)
LEMMA FlushComplete ==
  ASSUME DInv, NEW p \in Proc, TruncateFile(p), at[p] = 4
  PROVE  /\ disk'.passwd = Target(p).passwd /\ disk'.shadow = Target(p).shadow
         /\ disk'.vxshadow = IF HasVx THEN Target(p).vxshadow ELSE disk.vxshadow
         /\ disk'.group = Target(p).group
<1>1. /\ FlushOrder[1] = "passwd" /\ FlushOrder[2] = "shadow"
      /\ FlushOrder[3] = "vxshadow" /\ FlushOrder[4] = "group"
  BY DEF FlushOrder
<1>2. Written(p, 1)' /\ Written(p, 2)' /\ Written(p, 3)' /\ Written(p, 4)'
  BY TruncateEffect
<1>3. Target(p)' = Target(p)
  BY TruncateEffect
<1>4. ~HasVx => disk'.vxshadow = disk.vxshadow
  BY TruncateEffect DEF Skipped
<1> QED
  BY <1>1, <1>2, <1>3, <1>4 DEF Written, Skipped

(* What p does itself keeps its copy and the files in step.                  *)
LEMMA OwnCopy ==
  ASSUME SafeCallers, DInv, IInv', NEW p \in Proc, Progress(p) \/ Request(p) \/ Crash(p)
  PROVE  CopyInv(p)'
<1>0. /\ TypeOK /\ TypeOK' /\ ProcInv(p) /\ ProcInv(p)' /\ CopyInv(p) /\ p # NoProc
      /\ LockOwner(p) /\ Waiting(p) /\ WriterPrivileged(p)
      /\ PartlyRead(p) /\ InSync(p) /\ PartlyWritten(p)
  BY ProcAssumption DEF DInv, IInv, CopyInv
<1> DEFINE Idle == pc'[p] \in {"closed", "locking", "releasing"}
<1>i. Idle => PartlyRead(p)' /\ InSync(p)' /\ PartlyWritten(p)'
  BY DEF PartlyRead, InSync, PartlyWritten, Flushing
<1>1. ASSUME NEW f \in OpenFlags, Open(p, f) PROVE CopyInv(p)'
  <2>1. f \in SUBSET {"WRLOCK", "ADMIN"} /\ ("WRLOCK" \in f => f = {"WRLOCK"})
    BY ProcAssumption DEF SafeCallers
  <2>2. /\ flags'[p] = f /\ lock' = lock /\ pc[p] = "closed" /\ at'[p] = 1
        /\ IF f = {"WRLOCK"} THEN pc'[p] = "locking" ELSE pc'[p] = "reading"
        /\ f # {} => p \in Privileged
    BY <1>0, <1>1, <2>1 DEF Open, OpenFiles, Goto, TypeOK
  <2>3. lock # p
    BY <1>0, <2>2 DEF LockOwner, Active
  <2>4. LockOwner(p)' /\ Waiting(p)' /\ WriterPrivileged(p)'
    BY <2>1, <2>2, <2>3 DEF LockOwner, Waiting, WriterPrivileged
  <2>5. PartlyRead(p)' /\ InSync(p)' /\ PartlyWritten(p)'
    BY <2>2, <2>3 DEF PartlyRead, InSync, PartlyWritten, Flushing
  <2> QED
    BY <2>4, <2>5 DEF CopyInv
<1>2. CASE AcquireLock(p)
  <2>1. /\ flags'[p] = flags[p] /\ pc[p] = "locking" /\ pc'[p] = "reading"
        /\ lock' = p
    BY <1>0, <1>2 DEF AcquireLock, Goto, TypeOK, counters
  <2>2. at[p] = 1 /\ at'[p] = at[p]
    BY <1>0, <1>2, <2>1 DEF AcquireLock, Waiting
  <2> QED
    BY <1>0, <2>1, <2>2
    DEF CopyInv, LockOwner, Active, Waiting, WriterPrivileged,
        PartlyRead, InSync, PartlyWritten, Flushing
<1>3. ASSUME NEW f, Reading(p, f), f \in {"passwd", "group", "shadow", "vxshadow"}
      PROVE  /\ LockOwner(p)' /\ Waiting(p)' /\ WriterPrivileged(p)'
             /\ PartlyWritten(p)' /\ lock' = lock /\ disk' = disk
             /\ pc[p] = "reading" /\ at[p] \in 1 .. 4
             /\ f = "passwd" <=> at[p] = 1
             /\ f = "group" <=> at[p] = 2
             /\ f = "shadow" <=> at[p] = 3
             /\ f = "vxshadow" <=> at[p] = 4
             /\ IF at[p] = 4 THEN pc'[p] = "ready"
                ELSE pc'[p] = "reading" /\ at'[p] = at[p] + 1
  <2>1. /\ flags'[p] = flags[p] /\ lock' = lock /\ disk' = disk
        /\ pc[p] = "reading" /\ pc'[p] \in {"reading", "ready"} /\ at[p] \in 1 .. 4
        /\ goal' = goal
    BY <1>0, <1>3 DEF Reading, Goto, TypeOK, counters
  <2>2. IF at[p] = 4 THEN pc'[p] = "ready"
        ELSE pc'[p] = "reading" /\ at'[p] = at[p] + 1
    BY <1>0, <1>3 DEF Reading, Goto, TypeOK
  <2>3. /\ f = "passwd" <=> at[p] = 1
        /\ f = "group" <=> at[p] = 2
        /\ f = "shadow" <=> at[p] = 3
        /\ f = "vxshadow" <=> at[p] = 4
    <3>1. /\ ReadOrder[1] = "passwd" /\ ReadOrder[2] = "group"
          /\ ReadOrder[3] = "shadow" /\ ReadOrder[4] = "vxshadow"
      BY DEF ReadOrder
    <3>2. at[p] = 1 \/ at[p] = 2 \/ at[p] = 3 \/ at[p] = 4
      BY <2>1
    <3> QED
      BY <1>3, <3>1, <3>2 DEF Reading
  <2> QED
    BY <1>0, <2>1, <2>2, <2>3
    DEF LockOwner, Active, Waiting, WriterPrivileged, PartlyWritten, Flushing
<1>4. CASE ReadPasswd(p)
  <2>1. /\ users'[p] = db_read_passwd(disk.passwd)
        /\ Reading(p, "passwd") /\ groups' = groups
    BY <1>0, <1>4 DEF ReadPasswd, TypeOK
  <2>2. pc'[p] = "reading" /\ at'[p] = 2 /\ disk' = disk
    BY <1>3, <2>1
  <2>3. PartlyRead(p)' /\ InSync(p)'
    BY <2>1, <2>2 DEF PartlyRead, InSync
  <2> QED
    BY <1>3, <2>1, <2>3 DEF CopyInv
<1>5. CASE ReadGroup(p)
  <2>1. groups'[p] = disk.group /\ Reading(p, "group") /\ users' = users
    BY <1>0, <1>5 DEF ReadGroup, TypeOK
  <2>2. /\ pc'[p] = "reading" /\ at[p] = 2 /\ at'[p] = 3 /\ disk' = disk
        /\ pc[p] = "reading" /\ lock' = lock
    BY <1>3, <2>1
  <2>3. PartlyRead(p)' /\ InSync(p)'
    BY <1>0, <2>1, <2>2 DEF PartlyRead, InSync
  <2> QED
    BY <1>3, <2>1, <2>3 DEF CopyInv
<1>6. ASSUME lock = p PROVE "WRLOCK" \in flags[p] /\ (pc[p] # "closed" => p \in Privileged)
  BY <1>0, <1>6 DEF LockOwner, Active, WriterPrivileged
<1>7. CASE ReadShadow(p)
  <2>1. /\ Reading(p, "shadow") /\ groups' = groups
        /\ p \in Privileged => users'[p] = db_read_shadow(disk.shadow, users[p])
    BY <1>0, <1>7 DEF ReadShadow, TypeOK
  <2>2. /\ pc'[p] = "reading" /\ at[p] = 3 /\ at'[p] = 4 /\ disk' = disk
        /\ pc[p] = "reading" /\ lock' = lock
    BY <1>3, <2>1
  <2>3. PartlyRead(p)' /\ InSync(p)'
    BY <1>0, <1>6, <2>1, <2>2 DEF PartlyRead, InSync
  <2> QED
    BY <1>3, <2>1, <2>3 DEF CopyInv
<1>8. CASE ReadVxshadow(p)
  <2>1. /\ Reading(p, "vxshadow") /\ groups' = groups
        /\ p \in Privileged =>
             users'[p] = IF HasVx THEN db_read_vxshadow(disk.vxshadow, users[p])
                                  ELSE users[p]
    BY <1>0, <1>8 DEF ReadVxshadow, TypeOK
  <2>2. /\ pc'[p] = "ready" /\ at[p] = 4 /\ disk' = disk
        /\ pc[p] = "reading" /\ lock' = lock
    BY <1>3, <2>1
  <2>3. lock = p => users'[p] = ReadUsers(disk, HasVx) /\ groups'[p] = disk.group
    BY <1>0, <1>6, <2>1, <2>2 DEF PartlyRead, ReadUsers
  <2>4. PartlyRead(p)' /\ InSync(p)'
    BY <2>2, <2>3 DEF PartlyRead, InSync
  <2> QED
    BY <1>3, <2>1, <2>4 DEF CopyInv
<1>9. CASE UserAdd(p) \/ UserMod(p) \/ UserDel(p)
  <2>0. /\ Operation(p) /\ chgU' = [chgU EXCEPT ![p] = TRUE]
        /\ UNCHANGED <<groups, chgG>>
    BY <1>0, <1>9, UserOperationType
  <2>1. chgU'[p] = TRUE /\ groups' = groups /\ chgG' = chgG
    BY <1>0, <2>0 DEF TypeOK
  <2>2. /\ UNCHANGED <<disk, lock, pc, at, goal, flags>> /\ pc[p] = "ready"
    BY <2>0 DEF Operation
  <2>3. LockOwner(p)' /\ Waiting(p)' /\ WriterPrivileged(p)'
    BY <1>0, <2>2 DEF LockOwner, Active, Waiting, WriterPrivileged
  <2>4. PartlyRead(p)' /\ InSync(p)' /\ PartlyWritten(p)'
    BY <1>0, <2>1, <2>2 DEF PartlyRead, InSync, PartlyWritten, Flushing
  <2> QED
    BY <2>3, <2>4 DEF CopyInv
<1>10. CASE GroupAdd(p) \/ GroupMod(p) \/ GroupDel(p)
  <2>0. /\ Operation(p) /\ chgG' = [chgG EXCEPT ![p] = TRUE]
        /\ UNCHANGED <<users, chgU>>
    BY <1>0, <1>10, GroupOperationType
  <2>1. chgG'[p] = TRUE /\ users' = users /\ chgU' = chgU
    BY <1>0, <2>0 DEF TypeOK
  <2>2. /\ UNCHANGED <<disk, lock, pc, at, goal, flags>> /\ pc[p] = "ready"
    BY <2>0 DEF Operation
  <2>3. LockOwner(p)' /\ Waiting(p)' /\ WriterPrivileged(p)'
    BY <1>0, <2>2 DEF LockOwner, Active, Waiting, WriterPrivileged
  <2>4. PartlyRead(p)' /\ InSync(p)' /\ PartlyWritten(p)'
    BY <1>0, <2>1, <2>2 DEF PartlyRead, InSync, PartlyWritten, Flushing
  <2> QED
    BY <2>3, <2>4 DEF CopyInv
<1>11. ASSUME NEW why, StartFlush(p, why), pc[p] = "ready", why = "lock" => p \in Privileged
       PROVE  CopyInv(p)'
  <2>1. /\ pc'[p] = "writing" /\ at'[p] = 1 /\ goal'[p] = why
        /\ UNCHANGED <<lock, flags>>
    BY <1>0, <1>11 DEF StartFlush, Goto, TypeOK
  <2>2. LockOwner(p)' /\ Waiting(p)' /\ WriterPrivileged(p)'
    BY <1>0, <1>11, <2>1 DEF LockOwner, Active, Waiting, WriterPrivileged
  <2>3. PartlyRead(p)' /\ InSync(p)' /\ PartlyWritten(p)'
    BY <2>1 DEF PartlyRead, InSync, PartlyWritten, Flushing
  <2> QED
    BY <2>2, <2>3 DEF CopyInv
<1>12. CASE ModctlFlush(p)
  BY <1>11, <1>12 DEF ModctlFlush
<1>13. CASE WriteFile(p)
  <2>1. /\ pc[p] = "writing" /\ pc'[p] = "truncating" /\ at' = at
        /\ UNCHANGED <<lock, flags, goal>>
    BY <1>0, <1>13 DEF WriteFile, Goto, TypeOK, counters
  <2>2. LockOwner(p)' /\ Waiting(p)' /\ WriterPrivileged(p)'
    BY <1>0, <2>1 DEF LockOwner, Active, Waiting, WriterPrivileged
  <2>3. /\ \A i \in 1 .. 4 : i < at[p] => Written(p, i)'
        /\ Overlaid(p, at[p])'
    BY <1>13, WriteEffect
  <2>4. PartlyWritten(p)'
    <3>1. \A i \in 1 .. 4 : (i < at[p])' => Written(p, i)'
      BY <2>1, <2>3
    <3> QED
      BY <2>1, <2>3, <3>1 DEF PartlyWritten, Overlaid
  <2>5. PartlyRead(p)' /\ InSync(p)'
    BY <2>1 DEF PartlyRead, InSync
  <2> QED
    BY <2>2, <2>4, <2>5 DEF CopyInv
<1>14. CASE TruncateFile(p)
  <2>1. /\ pc[p] = "truncating" /\ at[p] \in 1 .. 4
        /\ UNCHANGED <<lock, flags, goal, users, groups>>
    BY <1>0, <1>14 DEF TruncateFile, TypeOK, counters
  <2>2. Flushing(p) /\ lock = p
    BY <1>0, <2>1 DEF ProcInv, FlushWritable, HoldsLock, Active, Flushing
  <2>3. CASE at[p] = 4
    <3>1. pc'[p] = IF goal[p] = "flush" THEN "ready" ELSE "releasing"
      BY <1>0, <1>14, <2>3 DEF TruncateFile, AfterFlush, Goto, TypeOK
    <3>2. LockOwner(p)' /\ Waiting(p)' /\ WriterPrivileged(p)'
      BY <1>0, <2>1, <3>1 DEF LockOwner, Active, Waiting, WriterPrivileged
    <3>3. PartlyRead(p)' /\ PartlyWritten(p)'
      BY <3>1 DEF PartlyRead, PartlyWritten, Flushing
    <3>4. InSync(p)'
      <4>1. /\ disk'.passwd = Target(p).passwd /\ disk'.shadow = Target(p).shadow
            /\ HasVx => disk'.vxshadow = Target(p).vxshadow
            /\ disk'.group = groups[p]
        BY <1>14, <2>3, FlushComplete DEF Target, WriteImage
      <4>2. users[p] \in Seq(User) /\ groups[p] \in Seq(Group) /\ HasVx \in BOOLEAN
        BY <1>0, BoundAssumption DEF TypeOK
      <4>3. UniqueNames(users[p])
            => Stored(ReadUsers(disk', HasVx), HasVx) = Stored(users[p], HasVx)
        BY <4>1, <4>2, WrittenIsRead DEF Target
      <4> QED
        BY <2>1, <4>1, <4>3 DEF InSync
    <3> QED
      BY <3>2, <3>3, <3>4 DEF CopyInv
  <2>4. CASE at[p] # 4
    <3>1. pc'[p] = "writing" /\ at'[p] = at[p] + 1
      BY <1>0, <1>14, <2>4 DEF TruncateFile, Goto, TypeOK
    <3>2. LockOwner(p)' /\ Waiting(p)' /\ WriterPrivileged(p)'
      BY <1>0, <2>1, <3>1 DEF LockOwner, Active, Waiting, WriterPrivileged
    <3>3. PartlyRead(p)' /\ InSync(p)'
      BY <3>1 DEF PartlyRead, InSync
    <3>4. \A i \in 1 .. 4 : i < at'[p] => Written(p, i)'
      <4>1. \A i \in 1 .. 4 : i <= at[p] => Written(p, i)'
        BY <1>14, TruncateEffect
      <4> QED
        BY <2>1, <3>1, <4>1
    <3> QED
      BY <3>1, <3>2, <3>3, <3>4 DEF CopyInv, PartlyWritten
  <2> QED
    BY <2>3, <2>4
<1>15. CASE Close(p) \/ Lock(p)
  <2>1. PICK why \in {"close", "lock"} : /\ CloseFor(p, why)
                                         /\ why = "lock" => p \in Privileged
    BY <1>15 DEF Close, Lock
  <2>2. CASE Dirty(p)
    BY <1>11, <2>1, <2>2 DEF CloseFor
  <2>3. CASE ~Dirty(p)
    <3>1. /\ pc[p] = "ready" /\ pc'[p] = "releasing" /\ goal'[p] = why
          /\ UNCHANGED <<lock, flags>>
      BY <1>0, <2>1, <2>3 DEF CloseFor, Goto, TypeOK
    <3>2. LockOwner(p)' /\ Waiting(p)' /\ WriterPrivileged(p)'
      BY <1>0, <2>1, <3>1 DEF LockOwner, Active, Waiting, WriterPrivileged
    <3> QED
      BY <1>i, <3>1, <3>2 DEF CopyInv
  <2> QED
    BY <2>2, <2>3
<1>16. CASE Release(p)
  <2>1. pc[p] = "releasing" /\ lock' # p /\ goal' = goal
    BY <1>0, <1>16 DEF Release, FreeLock
  <2>2. CASE goal[p] = "lock"
    <3>1. /\ flags'[p] = flags[p] \cup {"WRLOCK"} /\ at'[p] = 1
          /\ pc'[p] \in {"locking", "reading"} /\ p \in Privileged
      BY <1>0, <1>16, <2>1, <2>2
      DEF Release, OpenFiles, Goto, TypeOK, WriterPrivileged
    <3>2. LockOwner(p)' /\ Waiting(p)' /\ WriterPrivileged(p)'
      BY <2>1, <3>1 DEF LockOwner, Waiting, WriterPrivileged
    <3>3. PartlyRead(p)' /\ InSync(p)' /\ PartlyWritten(p)'
      BY <2>1, <3>1 DEF PartlyRead, InSync, PartlyWritten, Flushing
    <3> QED
      BY <3>2, <3>3 DEF CopyInv
  <2>3. CASE goal[p] # "lock"
    <3>1. pc'[p] = "closed"
      BY <1>0, <1>16, <2>3 DEF Release, Goto, TypeOK
    <3>2. LockOwner(p)' /\ Waiting(p)' /\ WriterPrivileged(p)'
      BY <2>1, <3>1 DEF LockOwner, Waiting, WriterPrivileged
    <3> QED
      BY <1>i, <3>1, <3>2 DEF CopyInv
  <2> QED
    BY <2>2, <2>3
<1>17. CASE Unlock(p)
  BY <1>17 DEF Unlock, SafeCallers
<1>18. CASE Crash(p)
  <2>1. pc'[p] = "closed" /\ lock' # p
    BY <1>0, <1>18 DEF Crash, FreeLock, Goto, TypeOK
  <2>2. LockOwner(p)' /\ Waiting(p)' /\ WriterPrivileged(p)'
    BY <2>1 DEF LockOwner, Waiting, WriterPrivileged
  <2> QED
    BY <1>i, <2>1, <2>2 DEF CopyInv
<1> HIDE DEF Idle
<1> QED
  BY <1>1, <1>2, <1>4, <1>5, <1>7, <1>8, <1>9, <1>10, <1>12, <1>13, <1>14, <1>15,
     <1>16, <1>17, <1>18 DEF Progress, Request

(* Every step keeps copies and files in step, for all processes. *)
LEMMA CopyStep == SafeCallers /\ DInv /\ [Next]_vars => DInv'
<1> SUFFICES ASSUME SafeCallers, DInv, [Next]_vars PROVE DInv'
  OBVIOUS
<1>1. IInv'
  BY InvStep DEF DInv
<1>2. ASSUME NEW p \in Proc, Progress(p) \/ Request(p) \/ Crash(p) PROVE DInv'
  <2>1. Local(p)
    BY <1>2, StepLocal DEF DInv, IInv
  <2>2. CopyInv(p)'
    BY <1>1, <1>2, OwnCopy
  <2>3. ASSUME NEW q \in Proc PROVE CopyInv(q)'
    BY <2>1, <2>2, OthersCopy
  <2> QED
    BY <1>1, <2>3 DEF DInv
<1>3. CASE UNCHANGED vars
  <2>1. ASSUME NEW p \in Proc PROVE CopyInv(p)'
    <3>1. CopyInv(p)
      BY DEF DInv
    <3>2. \A i : Written(p, i)' = Written(p, i) /\ Overlaid(p, i)' = Overlaid(p, i)
      BY <1>3 DEF Written, Overlaid, Target, vars
    <3> QED
      BY <1>3, <3>1, <3>2
      DEF CopyInv, LockOwner, Active, Waiting, WriterPrivileged, PartlyRead, InSync,
          PartlyWritten, Flushing, vars
  <2> QED
    BY <1>1, <2>1 DEF DInv
<1> QED
  BY <1>2, <1>3 DEF Next, Finished

(* Hence they are in every reachable state. *)
LEMMA CopyHolds == SafeCallers => (Spec => []DInv)
<1> SUFFICES ASSUME SafeCallers PROVE Spec => []DInv
  OBVIOUS
<1> QED
  BY InitCopy, CopyStep, PTL DEF Spec

(* What the lock owner works on is what the files say, in all four files,   *)
(* until an operation changes and marks it; and after its own flush again.  *)
(* Nothing that a user field needs is forgotten in writing or in reading.   *)
THEOREM HolderReadsAll == SafeCallers => (Spec => []HolderInSync)
<1>1. DInv => HolderInSync
  BY DEF DInv, CopyInv, InSync, HolderInSync
<1> QED
  BY <1>1, CopyHolds, PTL

-----------------------------------------------------------------------------
(* passwd and shadow *)

\* FilesAgree of one image of the files.
NamesAgree(img) ==
  /\ Len(img.passwd) = Len(img.shadow)
  /\ \A i \in DOMAIN img.passwd : img.passwd[i].name = img.shadow[i].name

\* The files as they are found list the same users in passwd and shadow.
InitAgree == \A img \in InitDisks : NamesAgree(img)

(* What a flush writes lists the same users in passwd and in shadow. *)
LEMMA WrittenAgree ==
  ASSUME NEW us \in Seq(User), NEW gs \in Seq(Group)
  PROVE  NamesAgree(WriteImage(us, gs))
<1> DEFINE W == WriteImage(us, gs)
<1>1. DOMAIN us = 1 .. Len(us) /\ Len(us) \in Nat
  BY LenProperties
<1>2. /\ DOMAIN W.passwd = DOMAIN us /\ DOMAIN W.shadow = DOMAIN us
      /\ \A i \in DOMAIN us : W.passwd[i].name = W.shadow[i].name
  BY DEF WriteImage
<1>3. W.passwd \in Seq(PasswdLine) /\ W.shadow \in Seq(ShadowLine)
  BY WriteImageType DEF Image
<1> HIDE DEF W
<1>4. Len(W.passwd) = Len(us) /\ Len(W.shadow) = Len(us)
  BY <1>1, <1>2, <1>3, LenProperties
<1>5. NamesAgree(W)
  BY <1>2, <1>4 DEF NamesAgree
<1> QED
  BY <1>5 DEF W

(* Only the end of a flush and a crash in its middle take the exception     *)
(* away: the first leaves two files that agree, the second is remembered.   *)
LEMMA AgreeStep ==
  SafeCallers /\ DInv /\ FilesAgree /\ [Next]_vars => FilesAgree'
<1> SUFFICES ASSUME SafeCallers, DInv, FilesAgree, [Next]_vars PROVE FilesAgree'
  OBVIOUS
<1> USE DEF FilesAgree
<1>0. TypeOK
  BY DEF DInv, IInv
<1>1. ASSUME NEW p \in Proc, Flushing(p)' PROVE FilesAgree'
  BY <1>1
<1>2. ASSUME NEW p \in Proc, Progress(p) \/ Request(p) \/ Crash(p), ~Flushing(p),
             torn => torn'
      PROVE  FilesAgree'
  <2>1. Local(p)
    BY <1>0, <1>2, StepLocal
  <2>2. \A q \in Proc : Flushing(q) => Flushing(q)'
    BY <1>2, <2>1 DEF Local, Untouched, Same, Flushing
  <2>3. disk' = disk
    BY <1>2, <2>1 DEF Local
  <2> QED
    BY <1>2, <2>2, <2>3
<1>3. ASSUME NEW p \in Proc, WriteFile(p) PROVE FilesAgree'
  <2>1. Flushing(p)'
    BY <1>0, <1>3 DEF WriteFile, Goto, Flushing, TypeOK
  <2> QED
    BY <1>1, <2>1
<1>4. ASSUME NEW p \in Proc, TruncateFile(p) PROVE FilesAgree'
  <2>1. CASE at[p] = 4
    <3>1. disk'.passwd = Target(p).passwd /\ disk'.shadow = Target(p).shadow
      BY <1>4, <2>1, FlushComplete
    <3>2. NamesAgree(Target(p))
      BY <1>0, WrittenAgree DEF Target, TypeOK
    <3> QED
      BY <3>1, <3>2 DEF NamesAgree
  <2>2. CASE at[p] # 4
    <3>1. Flushing(p)'
      BY <1>0, <1>4, <2>2 DEF TruncateFile, Goto, Flushing, TypeOK
    <3> QED
      BY <1>1, <3>1
  <2> QED
    BY <2>1, <2>2
<1>5. ASSUME NEW p \in Proc, Crash(p) PROVE FilesAgree'
  <2>1. torn' = (torn \/ Flushing(p))
    BY <1>5 DEF Crash
  <2>2. CASE Flushing(p)
    BY <2>1, <2>2
  <2>3. CASE ~Flushing(p)
    BY <1>2, <1>5, <2>1, <2>3
  <2> QED
    BY <2>2, <2>3
<1>6. ASSUME NEW p \in Proc, Progress(p) \/ Request(p), ~WriteFile(p), ~TruncateFile(p)
      PROVE  FilesAgree'
  <2>1. CASE AcquireLock(p) \/ Release(p)
    BY <1>2, <2>1 DEF AcquireLock, Release, Flushing, Progress
  <2>2. CASE ReadPasswd(p) \/ ReadGroup(p) \/ ReadShadow(p) \/ ReadVxshadow(p)
    BY <1>2, <2>2
    DEF ReadPasswd, ReadGroup, ReadShadow, ReadVxshadow, Reading, Flushing, Progress
  <2>3. CASE Close(p) \/ Lock(p)
    <3>1. PICK why : CloseFor(p, why)
      BY <2>3 DEF Close, Lock
    <3>2. ~Flushing(p) /\ torn' = torn
      BY <3>1 DEF CloseFor, StartFlush, Flushing
    <3> QED
      BY <1>2, <2>3, <3>2 DEF Progress, Request
  <2>4. CASE \E f \in OpenFlags : Open(p, f)
    <3>1. ~Flushing(p) /\ torn' = torn
      BY <2>4 DEF Open, Flushing
    <3>2. Request(p)
      BY <2>4 DEF Request
    <3> QED
      BY <1>2, <3>1, <3>2
  <2>5. CASE UserAdd(p) \/ UserMod(p) \/ UserDel(p)
    <3>1. Operation(p)
      BY <1>0, <2>5, UserOperationType
    <3> QED
      BY <1>2, <2>5, <3>1 DEF Operation, Flushing, Request
  <2>6. CASE GroupAdd(p) \/ GroupMod(p) \/ GroupDel(p)
    <3>1. Operation(p)
      BY <1>0, <2>6, GroupOperationType
    <3> QED
      BY <1>2, <2>6, <3>1 DEF Operation, Flushing, Request
  <2>7. CASE ModctlFlush(p) \/ Unlock(p)
    BY <1>2, <2>7 DEF ModctlFlush, StartFlush, Unlock, Flushing, Request
  <2> QED
    BY <1>6, <2>1, <2>2, <2>3, <2>4, <2>5, <2>6, <2>7 DEF Progress, Request
<1>7. CASE UNCHANGED vars
  BY <1>7 DEF vars, Flushing
<1> QED
  BY <1>3, <1>4, <1>5, <1>6, <1>7 DEF Next, Finished

(* passwd and shadow list the same users whenever no flush is under way and *)
(* none has been cut short by a crash; a complete flush repairs the damage. *)
THEOREM UserFilesAgree == SafeCallers /\ InitAgree => (Spec => []FilesAgree)
<1> SUFFICES ASSUME SafeCallers, InitAgree PROVE Spec => []FilesAgree
  OBVIOUS
<1>1. Init => FilesAgree
  BY DEF Init, InitAgree, NamesAgree, FilesAgree
<1> QED
  BY <1>1, CopyHolds, AgreeStep, PTL DEF Spec

-----------------------------------------------------------------------------
(* The refinement of SerialDb *)

(* SerialDb has its own instance of the operators of ShadowFiles.            *)
LEMMA SerialRead ==
  ASSUME NEW img, NEW hasVx
  PROVE  Serial!ReadUsers(img, hasVx) = ReadUsers(img, hasVx)
BY Zenon
   DEF Serial!ReadUsers, ReadUsers, Serial!db_read_vxshadow, db_read_vxshadow,
       Serial!db_read_shadow, db_read_shadow, Serial!db_read_passwd, db_read_passwd,
       Serial!lookup, lookup, Serial!Last, Last

(* The same for writing. *)
LEMMA SerialImage ==
  ASSUME NEW us, NEW gs
  PROVE  Serial!WriteImage(us, gs) = WriteImage(us, gs)
BY Zenon DEF Serial!WriteImage, WriteImage

(* The same for useradd(). *)
LEMMA SerialUseradd ==
  ASSUME NEW us, NEW rq
  PROVE  Serial!useradd(us, rq) = useradd(us, rq)
BY Zenon
   DEF Serial!useradd, useradd, Serial!lookup, lookup,
       Serial!automatic_uid, automatic_uid, Serial!FirstFree, FirstFree,
       Serial!Uids, Uids, Serial!VXDB_AUTOUID, VXDB_AUTOUID,
       Serial!VXDB_AUTOUID_SYS, VXDB_AUTOUID_SYS

(* The same for usermod(). *)
LEMMA SerialUsermod ==
  ASSUME NEW us, NEW n, NEW rq
  PROVE  Serial!usermod(us, n, rq) = usermod(us, n, rq)
BY Zenon
   DEF Serial!usermod, usermod, Serial!lookup, lookup, Serial!Keep, Keep,
       Serial!VXDB_NO_CHANGE, VXDB_NO_CHANGE

(* The same for userdel(). *)
LEMMA SerialUserdel ==
  ASSUME NEW us, NEW n
  PROVE  Serial!userdel(us, n) = userdel(us, n)
BY Zenon DEF Serial!userdel, userdel, Serial!lookup, lookup, Serial!Without, Without

(* The same for groupadd(). *)
LEMMA SerialGroupadd ==
  ASSUME NEW us, NEW rq
  PROVE  Serial!groupadd(us, rq) = groupadd(us, rq)
BY Zenon
   DEF Serial!groupadd, groupadd, Serial!lookup, lookup,
       Serial!automatic_gid, automatic_gid, Serial!FirstFree, FirstFree,
       Serial!Gids, Gids, Serial!VXDB_AUTOGID, VXDB_AUTOGID,
       Serial!VXDB_AUTOGID_SYS, VXDB_AUTOGID_SYS

(* The same for groupmod(). *)
LEMMA SerialGroupmod ==
  ASSUME NEW us, NEW n, NEW rq
  PROVE  Serial!groupmod(us, n, rq) = groupmod(us, n, rq)
BY Zenon
   DEF Serial!groupmod, groupmod, Serial!lookup, lookup, Serial!Keep, Keep,
       Serial!VXDB_NOGID, VXDB_NOGID

(* The same for groupdel(). *)
LEMMA SerialGroupdel ==
  ASSUME NEW us, NEW n
  PROVE  Serial!groupdel(us, n) = groupdel(us, n)
BY Zenon DEF Serial!groupdel, groupdel, Serial!lookup, lookup, Serial!Without, Without

-----------------------------------------------------------------------------
(* What SerialDb sees of a state: the process that owns the lock and has a  *)
(* complete copy, and the files as they will be once its flush is through.  *)
Content(p) ==
  IF HasVx THEN Target(p) ELSE [Target(p) EXCEPT !.vxshadow = disk.vxshadow]

View ==
  /\ \A p \in Proc : Owns(p) =>
       /\ Owner = p /\ Work = [users |-> users[p], groups |-> groups[p]]
       /\ Changed = (pc[p] = "ready" /\ Dirty(p))
  /\ (\A p \in Proc : ~Owns(p)) =>
       Owner = NoProc /\ Work = [users |-> <<>>, groups |-> <<>>] /\ Changed = FALSE
  /\ \A p \in Proc : Flushing(p) => Files = Content(p) /\ Owns(p)
  /\ (\A p \in Proc : ~Flushing(p)) => Files = disk

(* There is one owner at most, so that the choices in Files and Owner are   *)
(* determined.                                                              *)
LEMMA ViewHolds == DInv => View
<1> SUFFICES ASSUME DInv PROVE View
  OBVIOUS
<1>0. NoProc \notin Proc
  BY ProcAssumption
<1>1. ASSUME NEW p \in Proc, Flushing(p) PROVE lock = p /\ Owns(p)
  <2>1. ProcInv(p)
    BY DEF DInv, IInv
  <2> QED
    BY <1>1, <2>1 DEF ProcInv, FlushWritable, HoldsLock, Active, Flushing, Owns
<1>2. ASSUME NEW p \in Proc, Owns(p)
      PROVE  /\ Owner = p /\ Work = [users |-> users[p], groups |-> groups[p]]
             /\ Changed = (pc[p] = "ready" /\ Dirty(p))
  <2>1. \A q \in Proc : Owns(q) => q = p
    BY <1>2 DEF Owns
  <2>2. Owner = p
    BY <1>2, <2>1 DEF Owner
  <2> QED
    BY <1>0, <2>2 DEF Work, Changed
<1>3. ASSUME \A p \in Proc : ~Owns(p)
      PROVE  Owner = NoProc /\ Work = [users |-> <<>>, groups |-> <<>>] /\ Changed = FALSE
  BY <1>3 DEF Owner, Work, Changed
<1>4. ASSUME NEW p \in Proc, Flushing(p) PROVE Files = Content(p)
  <2>1. \A q \in Proc : Flushing(q) => q = p
    BY <1>1, <1>4
  <2>2. (CHOOSE q \in Proc : Flushing(q)) = p
    BY <1>4, <2>1
  <2> QED
    BY <1>4, <2>2 DEF Files, Content
<1>5. ASSUME \A p \in Proc : ~Flushing(p) PROVE Files = disk
  BY <1>5 DEF Files
<1> QED
  BY <1>1, <1>2, <1>3, <1>4, <1>5 DEF View

(* A process that is not the owner, before or after its step, is invisible. *)
LEMMA Quiet ==
  ASSUME View, View', NEW p \in Proc, Local(p), ~Owns(p), ~Owns(p)'
  PROVE  UNCHANGED <<Files, Owner, Work, Changed>>
<1>0. NoProc \notin Proc
  BY ProcAssumption
<1>1. ~Flushing(p) /\ ~Flushing(p)'
  BY DEF View
<1>2. disk' = disk
  BY <1>1 DEF Local
<1>3. ASSUME NEW q \in Proc \ {p}
      PROVE  /\ Owns(q)' <=> Owns(q)
             /\ Flushing(q)' <=> Flushing(q)
             /\ Content(q)' = Content(q)
             /\ users'[q] = users[q] /\ groups'[q] = groups[q] /\ pc'[q] = pc[q]
             /\ Dirty(q)' = Dirty(q)
  <2>1. Untouched(q)
    BY DEF Local
  <2>2. lock' = q <=> lock = q
    BY <1>0 DEF Local
  <2>3. Target(q)' = Target(q)
    BY <2>1 DEF Untouched, Target
  <2> QED
    BY <1>2, <2>1, <2>2, <2>3
    DEF Untouched, Same, Owns, Flushing, Content, Dirty
<1>4. UNCHANGED Files
  <2>1. CASE \E q \in Proc : Flushing(q)
    <3>1. PICK q \in Proc \ {p} : Flushing(q)
      BY <1>1, <2>1
    <3> QED
      BY <1>3, <3>1 DEF View
  <2>2. CASE \A q \in Proc : ~Flushing(q)
    <3>1. \A q \in Proc : ~Flushing(q)'
      BY <1>1, <1>3, <2>2
    <3> QED
      BY <1>2, <2>2, <3>1 DEF View
  <2> QED
    BY <2>1, <2>2
<1>5. UNCHANGED <<Owner, Work, Changed>>
  <2>1. CASE \E q \in Proc : Owns(q)
    <3>1. PICK q \in Proc \ {p} : Owns(q)
      BY <2>1
    <3> QED
      BY <1>3, <3>1 DEF View
  <2>2. CASE \A q \in Proc : ~Owns(q)
    <3>1. \A q \in Proc : ~Owns(q)'
      BY <1>3, <2>2
    <3> QED
      BY <2>2, <3>1 DEF View
  <2> QED
    BY <2>1, <2>2
<1> QED
  BY <1>4, <1>5

(* A step of the owner, seen from SerialDb: nobody else is in the way.       *)
LEMMA OwnerStep ==
  ASSUME DInv, View, View', NEW p \in Proc, Local(p), lock = p
  PROVE  /\ \A q \in Proc \ {p} : ~Owns(q) /\ ~Owns(q)' /\ ~Flushing(q) /\ ~Flushing(q)'
         /\ ~Flushing(p) => Files = disk
         /\ ~Flushing(p)' => Files' = disk'
         /\ ~Owns(p) => Owner = NoProc /\ Changed = FALSE
         /\ ~Owns(p)' => /\ Owner' = NoProc /\ Changed' = FALSE
                         /\ Work' = [users |-> <<>>, groups |-> <<>>]
<1>1. ASSUME NEW q \in Proc \ {p} PROVE ~Owns(q) /\ ~Owns(q)'
  <2>1. lock # q /\ lock' # q
    BY ProcAssumption DEF Local
  <2> QED
    BY <2>1 DEF Owns
<1> QED
  BY <1>1 DEF View

\* Nobody is killed in the middle of a flush.
WholeFlushes == CrashPoints \cap {"writing", "truncating"} = {}

Abstract == Serial!Next \/ UNCHANGED <<Files, Owner, Work, Changed>>

(* The whole flush becomes one step of SerialDb, taken when it starts.       *)
LEMMA FlushCommits ==
  ASSUME DInv, View, View', NEW p \in Proc, Local(p), NEW why,
         pc[p] = "ready", lock = p, StartFlush(p, why)
  PROVE  Abstract
<1>1. TypeOK
  BY DEF DInv, IInv
<1>2. /\ pc'[p] = "writing"
      /\ UNCHANGED <<disk, lock, users, groups>>
  BY <1>1 DEF StartFlush, Goto, TypeOK
<1>3. Owns(p) /\ Owns(p)' /\ Flushing(p)' /\ ~Flushing(p)
  BY <1>2 DEF Owns, Flushing
<1>4. /\ Owner = p /\ Owner' = p
      /\ Work = [users |-> users[p], groups |-> groups[p]]
      /\ Work' = Work /\ Changed' = FALSE
  BY <1>2, <1>3 DEF View
<1>5. Files = disk
  BY <1>3, OwnerStep
<1>6. Files' = Content(p)'
  BY <1>3 DEF View
<1>7. Files' = IF HasVx THEN Target(p) ELSE [Target(p) EXCEPT !.vxshadow = disk.vxshadow]
  BY <1>2, <1>6 DEF Content, Target
<1>8. Target(p) = Serial!WriteImage(Work.users, Work.groups)
  BY <1>4, SerialImage DEF Target
<1>9. Serial!Commit(p)
  BY <1>4, <1>5, <1>7, <1>8 DEF Serial!Commit
<1> QED
  BY <1>9 DEF Abstract, Serial!Next

(* Leaving without a kill: nothing is unsaved, and the files stay.           *)
LEMMA OwnerLeaves ==
  ASSUME View, View', NEW p \in Proc, Owns(p),
         \A q \in Proc : ~Owns(q)', Files' = Files, ~Changed \/ CrashPoints # {}
  PROVE  Abstract
<1>1. Owner = p
  BY DEF View
<1>2. Owner' = NoProc /\ Work' = [users |-> <<>>, groups |-> <<>>] /\ Changed' = FALSE
  BY DEF View
<1>3. Serial!Leave
  BY <1>2 DEF Serial!Leave, Serial!NoWork
<1>4. Serial!End(p) \/ Serial!Kill(p)
  BY <1>1, <1>3 DEF Serial!End, Serial!Kill
<1> QED
  BY <1>4 DEF Abstract, Serial!Next

(* An operation on the copy, whose result SerialDb allows, is SerialDb's.    *)
LEMMA OperateStep ==
  ASSUME DInv, View, View', NEW p \in Proc, Local(p), Operation(p),
         Dirty(p)',
         \/ /\ users'[p] \in Serial!UserResults(users[p])
            /\ groups'[p] = groups[p]
         \/ /\ groups'[p] \in Serial!GroupResults(groups[p])
            /\ users'[p] = users[p]
  PROVE  Abstract
<1>1. pc[p] = "ready" /\ "WRLOCK" \in flags[p] /\ UNCHANGED <<disk, lock, pc>>
  BY DEF Operation
<1>2. lock = p
  BY <1>1 DEF DInv, IInv, ProcInv, HoldsLock, Active
<1>3. Owns(p) /\ Owns(p)' /\ ~Flushing(p) /\ ~Flushing(p)'
  BY <1>1, <1>2 DEF Owns, Flushing
<1>4. Files' = Files
  BY <1>1, <1>2, <1>3, OwnerStep
<1>5. /\ Owner = p /\ Owner' = p
      /\ Work = [users |-> users[p], groups |-> groups[p]]
      /\ Work' = [users |-> users'[p], groups |-> groups'[p]]
  BY <1>3 DEF View
<1>6. Changed' = TRUE
  <2>1. Changed' = (pc'[p] = "ready" /\ Dirty(p)')
    BY <1>3 DEF View
  <2> QED
    BY <1>1, <2>1
<1>7. /\ Work.users = users[p] /\ Work.groups = groups[p]
      /\ \A us : [Work EXCEPT !.users = us] = [users |-> us, groups |-> groups[p]]
      /\ \A gs : [Work EXCEPT !.groups = gs] = [users |-> users[p], groups |-> gs]
  BY <1>5
<1>8. Serial!Operate(p)
  BY <1>4, <1>5, <1>6, <1>7 DEF Serial!Operate
<1> QED
  BY <1>8 DEF Abstract, Serial!Next

(* The user operations leave what SerialDb lets them leave. *)
LEMMA UserOperates ==
  ASSUME TypeOK, NEW p \in Proc, UserAdd(p) \/ UserMod(p) \/ UserDel(p)
  PROVE  users'[p] \in Serial!UserResults(users[p])
<1>1. ASSUME NEW results, UserOperation(p, results) PROVE users'[p] \in results
  BY <1>1 DEF UserOperation, TypeOK
<1>2. CASE UserAdd(p)
  <2>1. PICK rq \in AddRq : users'[p] \in Serial!useradd(users[p], rq)
    BY <1>1, <1>2, SerialUseradd DEF UserAdd
  <2> QED
    BY <2>1 DEF Serial!UserResults
<1>3. CASE UserMod(p)
  <2>1. PICK n \in UserName, rq \in ModRq : users'[p] \in Serial!usermod(users[p], n, rq)
    BY <1>1, <1>3, SerialUsermod DEF UserMod
  <2> QED
    BY <2>1 DEF Serial!UserResults
<1>4. CASE UserDel(p)
  <2>1. PICK n \in UserName : users'[p] \in Serial!userdel(users[p], n)
    BY <1>1, <1>4, SerialUserdel DEF UserDel
  <2> QED
    BY <2>1 DEF Serial!UserResults
<1> QED
  BY <1>2, <1>3, <1>4

(* So do the group operations. *)
LEMMA GroupOperates ==
  ASSUME TypeOK, NEW p \in Proc, GroupAdd(p) \/ GroupMod(p) \/ GroupDel(p)
  PROVE  groups'[p] \in Serial!GroupResults(groups[p])
<1>1. ASSUME NEW results, GroupOperation(p, results) PROVE groups'[p] \in results
  BY <1>1 DEF GroupOperation, TypeOK
<1>2. CASE GroupAdd(p)
  <2>1. PICK rq \in GroupAddRq : groups'[p] \in Serial!groupadd(groups[p], rq)
    BY <1>1, <1>2, SerialGroupadd DEF GroupAdd
  <2> QED
    BY <2>1 DEF Serial!GroupResults
<1>3. CASE GroupMod(p)
  <2>1. PICK n \in GroupName, rq \in GroupModRq :
          groups'[p] \in Serial!groupmod(groups[p], n, rq)
    BY <1>1, <1>3, SerialGroupmod DEF GroupMod
  <2> QED
    BY <2>1 DEF Serial!GroupResults
<1>4. CASE GroupDel(p)
  <2>1. PICK n \in GroupName : groups'[p] \in Serial!groupdel(groups[p], n)
    BY <1>1, <1>4, SerialGroupdel DEF GroupDel
  <2> QED
    BY <2>1 DEF Serial!GroupResults
<1> QED
  BY <1>2, <1>3, <1>4

(* The last step of the opening completes the owner's copy.                  *)
LEMMA ReadBegins ==
  ASSUME DInv, DInv', View, View', NEW p \in Proc, Local(p), ReadVxshadow(p)
  PROVE  Abstract
<1>1. /\ TypeOK /\ ProcInv(p) /\ LockOwner(p) /\ WriterPrivileged(p) /\ PartlyRead(p)
  BY DEF DInv, IInv, CopyInv
<1>2. /\ pc[p] = "reading" /\ at[p] = 4 /\ pc'[p] = "ready"
      /\ UNCHANGED <<disk, lock, groups, chgU, chgG>>
  <2>1. /\ ReadOrder[1] = "passwd" /\ ReadOrder[2] = "group" /\ ReadOrder[3] = "shadow"
    BY DEF ReadOrder
  <2>2. at[p] \in 1 .. 4 /\ ReadOrder[at[p]] = "vxshadow"
    BY <1>1 DEF ReadVxshadow, Reading, TypeOK
  <2>3. at[p] = 4
    BY <2>1, <2>2
  <2> QED
    BY <1>1, <2>3 DEF ReadVxshadow, Reading, Goto, TypeOK
<1>3. ~Owns(p)
  BY <1>2 DEF Owns
<1>4. CASE lock # p
  <2>1. ~Owns(p)'
    BY <1>2, <1>4 DEF Owns
  <2> QED
    BY <1>3, <2>1, Quiet DEF Abstract
<1>5. CASE lock = p
  <2>1. Owns(p)' /\ ~Flushing(p) /\ ~Flushing(p)'
    BY <1>2, <1>5 DEF Owns, Flushing
  <2>2. p \in Privileged
    BY <1>1, <1>2, <1>5 DEF LockOwner, Active, WriterPrivileged
  <2>3. users'[p] = ReadUsers(disk, HasVx) /\ groups'[p] = disk.group
    <3>1. /\ users[p] = db_read_shadow(disk.shadow, db_read_passwd(disk.passwd))
          /\ groups[p] = disk.group
      BY <1>1, <1>2, <1>5 DEF PartlyRead
    <3>2. users'[p] = IF HasVx THEN db_read_vxshadow(disk.vxshadow, users[p])
                               ELSE users[p]
      BY <1>1, <2>2 DEF ReadVxshadow, TypeOK
    <3> QED
      BY <1>2, <3>1, <3>2 DEF ReadUsers
  <2>4. ~Dirty(p) /\ ~Dirty(p)'
    BY <1>1, <1>2 DEF ProcInv, DirtyWritable, Dirty
  <2>5. Files = disk /\ Files' = disk /\ Owner = NoProc /\ Changed = FALSE
    BY <1>2, <1>3, <1>5, <2>1, OwnerStep
  <2>6. /\ Owner' = p /\ Work' = [users |-> users'[p], groups |-> groups'[p]]
        /\ Changed' = FALSE
    BY <2>1, <2>4 DEF View
  <2>7. Serial!Begin(p)
    BY <2>3, <2>5, <2>6, SerialRead DEF Serial!Begin
  <2> QED
    BY <2>7 DEF Abstract, Serial!Next
<1> QED
  BY <1>4, <1>5

(* Writing the files one after the other is invisible, up to the last one,  *)
(* after which the owner goes on or leaves.                                 *)
LEMMA FlushStutters ==
  ASSUME DInv, DInv', View, View', NEW p \in Proc, Local(p), WriteFile(p) \/ TruncateFile(p)
  PROVE  Abstract
<1>1. TypeOK /\ ProcInv(p)
  BY DEF DInv, IInv
<1>2. Flushing(p) /\ UNCHANGED <<lock, users, groups>>
  BY DEF WriteFile, TruncateFile, Flushing
<1>3. Owns(p) /\ lock = p
  BY <1>2 DEF View, Owns
<1>4. Files = Content(p) /\ Owner = p /\ Changed = FALSE
  BY <1>2, <1>3 DEF View, Flushing
<1>5. Target(p)' = Target(p) /\ (~HasVx => disk'.vxshadow = disk.vxshadow)
  BY WriteEffect, TruncateEffect DEF Skipped
<1>6. Content(p)' = Content(p)
  BY <1>5 DEF Content
<1>7. CASE Flushing(p)'
  <2>1. Owns(p)' /\ Files' = Content(p)'
    BY <1>7 DEF View
  <2>2. Owner' = p /\ Work' = Work /\ Changed' = FALSE
    BY <1>2, <1>3, <1>7, <2>1 DEF View, Flushing
  <2> QED
    BY <1>4, <1>6, <2>1, <2>2 DEF Abstract
<1>8. CASE ~Flushing(p)'
  <2>1. TruncateFile(p) /\ at[p] = 4
    <3>1. WriteFile(p) => Flushing(p)'
      BY <1>1 DEF WriteFile, Goto, Flushing, TypeOK
    <3>2. TruncateFile(p) /\ at[p] # 4 => Flushing(p)'
      BY <1>1 DEF TruncateFile, Goto, Flushing, TypeOK
    <3> QED
      BY <1>8, <3>1, <3>2
  <2>2. disk' = Content(p)
    <3>1. /\ disk'.passwd = Target(p).passwd /\ disk'.shadow = Target(p).shadow
          /\ disk'.vxshadow = IF HasVx THEN Target(p).vxshadow ELSE disk.vxshadow
          /\ disk'.group = Target(p).group
      BY <2>1, FlushComplete
    <3>2. disk' \in Image /\ Target(p) \in Image
      BY <1>1, WriteImageType DEF DInv, IInv, TypeOK, Target
    <3>3. disk' = [passwd |-> disk'.passwd, shadow |-> disk'.shadow,
                   vxshadow |-> disk'.vxshadow, group |-> disk'.group]
      BY <3>2 DEF Image
    <3> HIDE DEF Target
    <3>4. Content(p) =
            [passwd |-> Target(p).passwd, shadow |-> Target(p).shadow,
             vxshadow |-> IF HasVx THEN Target(p).vxshadow ELSE disk.vxshadow,
             group |-> Target(p).group]
      BY <3>2 DEF Image, Content
    <3> QED
      BY <3>1, <3>3, <3>4
  <2>3. Files' = Files
    BY <1>3, <1>4, <1>8, <2>2, OwnerStep
  <2>4. pc'[p] = AfterFlush(p) /\ ~Dirty(p)'
    <3>1. ~chgU[p]
      BY <1>1, <1>2, <2>1 DEF ProcInv, FlushPosition
    <3>2. chgU'[p] = chgU[p] /\ ~chgG'[p] /\ pc'[p] = AfterFlush(p)
      BY <1>1, <2>1 DEF TruncateFile, Goto, TypeOK
    <3> QED
      BY <3>1, <3>2 DEF Dirty
  <2>5. CASE Owns(p)'
    <3>1. Owner' = p /\ Work' = Work /\ Changed' = FALSE
      BY <1>2, <1>3, <2>4, <2>5 DEF View
    <3> QED
      BY <1>4, <2>3, <3>1 DEF Abstract
  <2>6. CASE ~Owns(p)'
    <3>1. \A q \in Proc : ~Owns(q)'
      BY <1>3, <2>6, OwnerStep
    <3> QED
      BY <1>3, <1>4, <2>3, <3>1, OwnerLeaves
  <2> QED
    BY <2>5, <2>6
<1> QED
  BY <1>7, <1>8

(* Every step of a process is a step of SerialDb or none.  The open, the    *)
(* waiting, the reads of others and the release are none; the last read     *)
(* begins, an operation operates, the start of a flush commits, the end of  *)
(* the last session with nothing left to save ends, a crash kills.          *)
LEMMA StepRefines ==
  ASSUME SafeCallers, WholeFlushes, DInv, DInv', View, View', NEW p \in Proc,
         Progress(p) \/ Request(p) \/ Crash(p)
  PROVE  Abstract
<1>0. TypeOK /\ Local(p) /\ ProcInv(p)
  BY StepLocal DEF DInv, IInv
<1>1. ASSUME ~Owns(p), ~Owns(p)' PROVE Abstract
  BY <1>0, <1>1, Quiet DEF Abstract
<1>2. CASE \E f \in OpenFlags : Open(p, f)
  <2>1. ~Owns(p) /\ ~Owns(p)'
    BY <1>0, <1>2 DEF Open, OpenFiles, Goto, Owns, TypeOK
  <2> QED
    BY <1>1, <2>1
<1>3. CASE AcquireLock(p)
  <2>1. ~Owns(p) /\ ~Owns(p)'
    BY <1>0, <1>3 DEF AcquireLock, Goto, Owns, TypeOK
  <2> QED
    BY <1>1, <2>1
<1>4. CASE ReadPasswd(p) \/ ReadGroup(p) \/ ReadShadow(p)
  <2>1. PICK f \in {"passwd", "group", "shadow"} : Reading(p, f)
    BY <1>4 DEF ReadPasswd, ReadGroup, ReadShadow
  <2>2. at[p] # 4
    BY <2>1 DEF Reading, ReadOrder
  <2>3. ~Owns(p) /\ ~Owns(p)'
    BY <2>1, <2>2 DEF Reading, Owns
  <2> QED
    BY <1>1, <2>3
<1>5. CASE ReadVxshadow(p)
  BY <1>0, <1>5, ReadBegins
<1>6. CASE UserAdd(p) \/ UserMod(p) \/ UserDel(p)
  <2>1. Operation(p) /\ chgU' = [chgU EXCEPT ![p] = TRUE] /\ UNCHANGED <<groups, chgG>>
    BY <1>0, <1>6, UserOperationType
  <2>2. Dirty(p)'
    BY <1>0, <2>1 DEF Dirty, TypeOK
  <2> QED
    BY <1>0, <1>6, <2>1, <2>2, UserOperates, OperateStep
<1>7. CASE GroupAdd(p) \/ GroupMod(p) \/ GroupDel(p)
  <2>1. Operation(p) /\ chgG' = [chgG EXCEPT ![p] = TRUE] /\ UNCHANGED <<users, chgU>>
    BY <1>0, <1>7, GroupOperationType
  <2>2. Dirty(p)'
    BY <1>0, <2>1 DEF Dirty, TypeOK
  <2> QED
    BY <1>0, <1>7, <2>1, <2>2, GroupOperates, OperateStep
<1>8. CASE ModctlFlush(p)
  <2>1. lock = p
    BY <1>0, <1>8 DEF ModctlFlush, ProcInv, HoldsLock, Active
  <2> QED
    BY <1>0, <1>8, <2>1, FlushCommits DEF ModctlFlush
<1>9. CASE WriteFile(p) \/ TruncateFile(p)
  BY <1>0, <1>9, FlushStutters
<1>10. CASE Close(p) \/ Lock(p)
  <2>1. PICK why : CloseFor(p, why)
    BY <1>10 DEF Close, Lock
  <2>2. pc[p] = "ready"
    BY <2>1 DEF CloseFor
  <2>3. CASE Dirty(p)
    <3>1. lock = p
      BY <1>0, <2>2, <2>3 DEF ProcInv, DirtyWritable, HoldsLock, Active
    <3> QED
      BY <1>0, <2>1, <2>2, <2>3, <3>1, FlushCommits DEF CloseFor
  <2>4. CASE ~Dirty(p)
    <3>1. pc'[p] = "releasing" /\ UNCHANGED <<disk, lock>>
      BY <1>0, <2>1, <2>4 DEF CloseFor, Goto, TypeOK
    <3>2. ~Owns(p)'
      BY <3>1 DEF Owns
    <3>3. CASE lock = p
      <4>1. Owns(p) /\ ~Flushing(p) /\ ~Flushing(p)'
        BY <2>2, <3>1, <3>3 DEF Owns, Flushing
      <4>2. ~Changed
        BY <2>4, <4>1 DEF View
      <4>3. Files' = Files /\ \A q \in Proc : ~Owns(q)'
        BY <1>0, <3>1, <3>2, <3>3, <4>1, OwnerStep
      <4> QED
        BY <4>1, <4>2, <4>3, OwnerLeaves
    <3>4. CASE lock # p
      BY <1>1, <3>2, <3>4 DEF Owns
    <3> QED
      BY <3>3, <3>4
  <2> QED
    BY <2>3, <2>4
<1>11. CASE Release(p)
  <2>1. pc[p] = "releasing" /\ lock' # p
    BY <1>0, <1>11, ProcAssumption DEF Release, FreeLock
  <2>2. ~Owns(p) /\ ~Owns(p)'
    BY <2>1 DEF Owns
  <2> QED
    BY <1>1, <2>2
<1>12. CASE Unlock(p)
  BY <1>12 DEF Unlock, SafeCallers
<1>13. CASE Crash(p)
  <2>1. pc'[p] = "closed" /\ UNCHANGED disk /\ pc[p] \in CrashPoints /\ ~Flushing(p)
    BY <1>0, <1>13 DEF Crash, Goto, TypeOK, WholeFlushes, Flushing
  <2>2. ~Owns(p)' /\ ~Flushing(p)'
    BY <2>1 DEF Owns, Flushing
  <2>3. CASE Owns(p)
    <3>1. lock = p
      BY <2>3 DEF Owns
    <3>2. Files' = Files /\ \A q \in Proc : ~Owns(q)'
      BY <1>0, <2>1, <2>2, <3>1, OwnerStep
    <3>3. CrashPoints # {}
      BY <2>1
    <3> QED
      BY <2>3, <3>2, <3>3, OwnerLeaves
  <2>4. CASE ~Owns(p)
    BY <1>1, <2>2, <2>4
  <2> QED
    BY <2>3, <2>4
<1> QED
  BY <1>2, <1>3, <1>4, <1>5, <1>6, <1>7, <1>8, <1>9, <1>10, <1>11, <1>12, <1>13
     DEF Progress, Request

(* The files as they are found, and no owner, are where SerialDb starts. *)
LEMMA InitRefines == Init => Serial!Init
<1> SUFFICES ASSUME Init PROVE Serial!Init
  OBVIOUS
<1>1. \A p \in Proc : ~Owns(p) /\ ~Flushing(p)
  BY DEF Init, Owns, Flushing
<1>2. /\ Owner = NoProc /\ Work = [users |-> <<>>, groups |-> <<>>]
      /\ Changed = FALSE /\ Files = disk
  BY <1>1 DEF Owner, Work, Changed, Files
<1>3. disk \in InitDisks
  BY DEF Init
<1> QED
  BY <1>2, <1>3 DEF Serial!Init, Serial!NoWork

(* The step simulation. *)
LEMMA NextRefines ==
  SafeCallers /\ WholeFlushes /\ DInv /\ DInv' /\ View /\ View' /\ [Next]_vars
  => [Serial!Next]_(Serial!vars)
<1> SUFFICES ASSUME SafeCallers, WholeFlushes, DInv, DInv', View, View', [Next]_vars
             PROVE  Abstract
  BY DEF Abstract, Serial!vars
<1>1. CASE UNCHANGED vars
  BY <1>1 DEF Abstract, vars, Files, Owner, Work, Changed, Owns, Flushing, Target, Dirty
<1>2. ASSUME NEW p \in Proc, Progress(p) \/ Request(p) \/ Crash(p) PROVE Abstract
  BY <1>2, StepRefines
<1> QED
  BY <1>1, <1>2 DEF Next, Finished

(* If nobody is killed in the middle of a flush, the processes together do  *)
(* what SerialDb says: as if one after the other had the database for       *)
(* itself and put its changes in place in one step.  Readers are not part   *)
(* of it: they take no lock and may see a mixture.                          *)
THEOREM Serializes == SafeCallers /\ WholeFlushes => (Spec => Serializable)
<1> SUFFICES ASSUME SafeCallers, WholeFlushes PROVE Spec => Serial!Spec
  BY DEF Serializable
<1>1. Init => Serial!Init
  BY InitRefines
<1>2. DInv /\ DInv' /\ View /\ View' /\ [Next]_vars => [Serial!Next]_(Serial!vars)
  BY NextRefines
<1> QED
  BY <1>1, <1>2, CopyHolds, ViewHolds, PTL DEF Spec, Serial!Spec
=============================================================================
