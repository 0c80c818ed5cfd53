------------------------------- MODULE AutoId -------------------------------
(***************************************************************************)
(* How the shadow driver (automatic_uid, automatic_gid) and the mmd driver *)
(* (vxmmd_autouid, vxmmd_autogid) choose the id of a new account.  Both    *)
(* have the same text but for one type: the ids are unsigned int, the      *)
(* highest one seen is an int that starts with -1, and the id compared     *)
(* with it is unsigned int in shadow and long in mmd.  Integers have their *)
(* C width here, scaled down: M stands for 2^32.                           *)
(***************************************************************************)
EXTENDS Integers, Sequences

CONSTANTS
  M,            \* number of values of an unsigned int
  ENOSPC,       \* the error number
  IdMin, IdMax, \* etc/autouid.conf: UID_MIN, UID_MAX or GID_MIN, GID_MAX
  Explicit,     \* ids that callers ask for by number
  MaxUsers      \* bound: accounts in the database

ASSUME WidthAssumption ==
  /\ M \in Nat /\ M % 2 = 0 /\ ENOSPC \in 3 .. M
  /\ IdMax \in Nat /\ IdMax < M - ENOSPC /\ IdMin \in 1 .. IdMax
  /\ Explicit \subseteq 0 .. (M - ENOSPC - 1)

VARIABLES
  driver, \* which driver it is
  wide,   \* whether a long is wider than an int
  ids,    \* the ids in the order of the user list
  given   \* what the last useradd() wanted and got

vars == <<driver, wide, ids, given>>

Unsigned(i) == i % M
Signed(u)   == IF u < M \div 2 THEN u ELSE u - M

AUTOID     == Unsigned(-1)
AUTOID_SYS == Unsigned(-2)
Full       == Unsigned(-ENOSPC)

Limits(wanted) ==
  IF wanted = AUTOID_SYS THEN [min |-> 1, max |-> Unsigned(IdMin - 1)]
                         ELSE [min |-> IdMin, max |-> IdMax]

Used == {ids[i] : i \in DOMAIN ids}

\* mutant: signed and unsigned the other way round
Exceeds_Swapped(uid, high) ==
  IF driver = "mmd" THEN uid > Unsigned(high)
  ELSE (IF wide THEN uid ELSE Signed(uid)) > high

\* uid > high: unsigned in shadow, where -1 is the largest number there is;
\* signed in mmd.
Exceeds(uid, high) ==
  IF driver = "shadow" THEN uid > Unsigned(high)
  ELSE (IF wide THEN uid ELSE Signed(uid)) > high

\* The highest id of the range among those in list
Highest(list, r) ==
  LET high[i \in 0 .. Len(list)] ==
        IF i = 0 THEN -1
        ELSE IF list[i] \in r.min .. r.max /\ Exceeds(list[i], high[i - 1])
               THEN Signed(list[i])
               ELSE high[i - 1]
  IN  high[Len(list)]

\* mutant: the scan stops before the last id
Scan_OffByOne(r) ==
  LET accept[a \in r.min .. r.max + 1] ==
        IF a >= r.max THEN Full ELSE IF a \in Used THEN accept[a + 1] ELSE a
  IN  accept[r.min]

Scan(r) ==
  LET accept[a \in r.min .. r.max + 1] ==
        IF a > r.max THEN Full ELSE IF a \in Used THEN accept[a + 1] ELSE a
  IN  accept[r.min]

automatic_id(wanted) ==
  IF wanted \notin {AUTOID, AUTOID_SYS} THEN wanted
  ELSE LET r    == Limits(wanted)
           high == Highest(ids, r)
       IN  IF high >= 0 /\ high < r.max THEN Unsigned(high + 1) ELSE Scan(r)

\* mutant: an unsigned result compared with a wider -ENOSPC everywhere
Refused_Never(id) == FALSE

\* uid == -ENOSPC, with an unsigned int in shadow and a long in mmd
Refused(id) == id = Full /\ (driver = "shadow" \/ ~wide)

-----------------------------------------------------------------------------
Init ==
  /\ driver \in {"shadow", "mmd"} /\ wide \in BOOLEAN
  /\ ids = <<>> /\ given = [wanted |-> 0, id |-> 0]

\* vxshadow_useradd(), vxmmd_useradd(); the names are all different
useradd(wanted) ==
  /\ Len(ids) < MaxUsers
  /\ ~Refused(automatic_id(wanted))
  /\ ids' = Append(ids, automatic_id(wanted))
  /\ given' = [wanted |-> wanted, id |-> automatic_id(wanted)]
  /\ UNCHANGED <<driver, wide>>

userdel(i) ==
  /\ ids' = SubSeq(ids, 1, i - 1) \o SubSeq(ids, i + 1, Len(ids))
  /\ UNCHANGED <<driver, wide, given>>

Next ==
  \/ \E wanted \in Explicit \cup {AUTOID, AUTOID_SYS} : useradd(wanted)
  \/ \E i \in DOMAIN ids : userdel(i)

Spec == Init /\ [][Next]_vars

-----------------------------------------------------------------------------
Free(r) == (r.min .. r.max) \ Used

(* Whatever ids are in use, and in whatever order, the id chosen is free and *)
(* within its limits, and it is refused only when none is left: in          *)
(* particular the ids above INT_MAX, which look negative on the way, do no   *)
(* harm, in mmd as long as UID_MAX is not above INT_MAX itself.              *)
ChosenIsFree ==
  driver = "shadow" \/ IdMax < M \div 2 =>
    \A wanted \in {AUTOID, AUTOID_SYS} :
      LET r == Limits(wanted)
          id == automatic_id(wanted)
      IN  IF Free(r) = {} THEN id = Full ELSE id \in Free(r)

(* The shadow driver takes the lowest free id, which is how ShadowFiles      *)
(* models it, as its search for the highest one never finds any; mmd takes   *)
(* the successor of the highest id in the range unless that is the last one. *)
LowestOrNext ==
  \A wanted \in {AUTOID, AUTOID_SYS} :
    LET r     == Limits(wanted)
        free  == Free(r)
        taken == Used \cap (r.min .. r.max)
        id    == automatic_id(wanted)
    IN  /\ driver = "shadow" /\ free # {} => \A i \in free : id <= i
        /\ driver = "mmd" /\ IdMax < M \div 2 /\ taken # {} /\ r.max \notin taken =>
             id - 1 \in taken /\ \A i \in taken : i < id

(* VXDB_NEXTUID: "the next free auto-UID within UID_MIN and UID_MAX": an      *)
(* account that was added with an automatic id has one within the limits.    *)
(* The one exception is mmd with a long that is wider than an int: it does   *)
(* not see the error of a full range, and the account gets its number.       *)
GivenWithinLimits ==
  given.wanted \in {AUTOID, AUTOID_SYS} =>
    \/ given.id \in Limits(given.wanted).min .. Limits(given.wanted).max
    \/ driver = "mmd" /\ wide /\ given.id = Full
=============================================================================
