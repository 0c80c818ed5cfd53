------------------------------- MODULE Genpw -------------------------------
(***************************************************************************)
(* vxutil_genpw(): pronounceable passwords from a table of Japanese or     *)
(* Chinese syllables, built from back to front, or random letters, built   *)
(* from front to back.  A pseudo-random number is a free choice; a draw    *)
(* that the code rejects is left out.  One call after the other.           *)
(***************************************************************************)
EXTENDS Integers, Sequences, FiniteSets

CONSTANTS
  Table,    \* jp_table and zh_table: [letter, len] of every syllable; N ends the first
  Vowel,    \* letters that are vowels
  MaxLen    \* bound: largest size of the buffer

Method == {"jp", "zh", "random"}
Digits == {"1DIGIT", "O1DIGIT"}
Cases  == {"1CASE", "O1CASE"}
Wishes == {d \cup c : d \in {{}, {"O1DIGIT"}, {"1DIGIT"}}, c \in {{}, {"O1CASE"}, {"1CASE"}}}
Must   == {"1DIGIT", "1CASE"}

\* Whatever comes behind, some syllable of one letter may be put before it.
ASSUME TableAssumption ==
  /\ MaxLen \in Nat
  /\ \A m \in {"jp", "zh"} :
       /\ Len(Table[m]) \in Nat /\ DOMAIN Table[m] = 1 .. Len(Table[m])
       /\ \A i \in DOMAIN Table[m] : Table[m][i].len \in Nat \ {0}
  /\ \E i, j \in DOMAIN Table["jp"] :
       i < j /\ j < Len(Table["jp"]) /\ Table["jp"][i].len = 1 /\ Table["jp"][j].len = 1
  /\ \E i, j \in DOMAIN Table["zh"] :
       /\ Table["zh"][i].len = 1 /\ Table["zh"][j].len = 1
       /\ Table["zh"][i].letter # Table["zh"][j].letter

VARIABLES
  phase,           \* "idle", "build" or "done"
  meth, len, want, \* the arguments of the call
  plain,           \* what is in the buffer
  size,            \* how many characters are still to be made
  flags,           \* characteristics not yet met
  prev             \* the syllable put in last, 0 if there is none

args == <<meth, len, want>>
genpw_vars == <<phase, args, plain, size, flags, prev>>

Digit            == [kind |-> "digit"]
Syllable(k, up)  == [kind |-> "key", knum |-> k, upper |-> up]
Letter           == [kind |-> "letter", upper |-> FALSE]

GenpwInit ==
  /\ phase = "idle"
  /\ meth = "random" /\ len = 0 /\ want = {}
  /\ plain = <<>> /\ size = 0 /\ flags = {} /\ prev = 0

\* Characters without the terminating zero.  genpw_random() does not count it.
Room(m, n) == IF m = "random" THEN n ELSE n - 1

\* A buffer of one character or less is not touched.
vxutil_genpw(m, n, fl) ==
  /\ phase = "idle"
  /\ meth' = m /\ len' = n /\ want' = fl
  /\ IF n <= 1
       THEN phase' = "done" /\ UNCHANGED <<plain, size, flags, prev>>
       ELSE /\ phase' = "build"
            /\ plain' = <<>> /\ size' = Room(m, n) /\ flags' = fl /\ prev' = 0

-----------------------------------------------------------------------------
Put(c, n) ==
  /\ plain' = IF meth = "random" THEN Append(plain, c) ELSE <<c>> \o plain
  /\ size' = size - n

\* mutant: the digit makes the code forget the syllable behind it
put_digit_Forgets ==
  /\ phase = "build" /\ size > 0
  /\ flags \cap Digits # {}
  /\ Put(Digit, 1)
  /\ flags' = flags \ Digits
  /\ prev' = 0
  /\ UNCHANGED <<phase, args>>

put_digit ==
  /\ phase = "build" /\ size > 0
  /\ flags \cap Digits # {}
  /\ Put(Digit, 1)
  /\ flags' = flags \ Digits
  /\ UNCHANGED <<phase, args, prev>>

\* The syllables to draw from
Syllables == IF meth = "random" THEN {} ELSE DOMAIN Table[meth]

fits(k) == Table[meth][k].len <= size

jp_vowel == plain # <<>> /\ plain[1].kind = "key" /\ Table["jp"][plain[1].knum].letter \in Vowel

\* A vowel follows an N; no two words begin with the same letter.
readable(k) ==
  /\ k # prev
  /\ meth = "jp" => (k = Len(Table["jp"]) => jp_vowel)
  /\ meth = "zh" => (prev # 0 => Table["zh"][k].letter # Table["zh"][prev].letter)

\* Upper case is drawn for only while it is still wanted.
drawn(up) == up => flags \cap Cases # {}

put_syllable(k, up) ==
  /\ phase = "build" /\ meth # "random" /\ size > 0
  /\ fits(k) /\ readable(k) /\ drawn(up)
  /\ Put(Syllable(k, up), Table[meth][k].len)
  /\ flags' = IF up THEN flags \ Cases ELSE flags
  /\ prev' = k
  /\ UNCHANGED <<phase, args>>

\* It is the character behind the letter that becomes upper case, and the next
\* letter, digit or zero that is written over it.
put_letter(up) ==
  /\ phase = "build" /\ meth = "random" /\ size > 0
  /\ drawn(up)
  /\ Put(Letter, 1)
  /\ flags' = IF up THEN flags \ Cases ELSE flags
  /\ UNCHANGED <<phase, args, prev>>

\* mutant: optional characteristics that are unmet count as well
unmet_Optional == flags # {}

unmet == flags \cap Must # {}

\* mutant: the second try has the flags that the first has left
redo_Flags ==
  /\ phase = "build" /\ size <= 0 /\ unmet
  /\ plain' = <<>> /\ size' = Room(meth, len) /\ prev' = 0
  /\ UNCHANGED <<phase, args, flags>>

redo ==
  /\ phase = "build" /\ size <= 0 /\ unmet
  /\ plain' = <<>> /\ size' = Room(meth, len) /\ flags' = want /\ prev' = 0
  /\ UNCHANGED <<phase, args>>

return ==
  /\ phase = "build" /\ size <= 0 /\ ~unmet
  /\ phase' = "done"
  /\ UNCHANGED <<args, plain, size, flags, prev>>

\* The caller hashes and prints the password before it asks for the next.
used ==
  /\ phase = "done"
  /\ phase' = "idle"
  /\ plain' = <<>> /\ size' = 0 /\ flags' = {} /\ prev' = 0
  /\ UNCHANGED args

Step ==
  \/ put_digit
  \/ \E up \in BOOLEAN :
       \/ put_letter(up)
       \/ \E k \in Syllables : put_syllable(k, up)
  \/ redo
  \/ return

GenpwNext ==
  \/ \E m \in Method, n \in 0 .. MaxLen, fl \in Wishes : vxutil_genpw(m, n, fl)
  \/ Step
  \/ used

\* Draws are independent: one with a chance at the start of every try, and one
\* with a chance whenever no digit is needed, come in the end.
Lucky == "1DIGIT" \notin flags /\ (put_letter(TRUE)
           \/ \E k \in Syllables : put_syllable(k, TRUE))

GenpwSpec ==
  /\ GenpwInit /\ [][GenpwNext]_genpw_vars
  /\ WF_genpw_vars(Step)
  /\ SF_genpw_vars(size = Room(meth, len) /\ put_digit)
  /\ SF_genpw_vars(Lucky)

-----------------------------------------------------------------------------
Made == phase = "done" /\ len > 1

digits   == {i \in DOMAIN plain : plain[i].kind = "digit"}
capitals == {i \in DOMAIN plain : plain[i].kind # "digit" /\ plain[i].upper}

\* The characters of a piece, and of the pieces together
Length(c) == IF c.kind = "key" THEN Table[meth][c.knum].len ELSE 1
Filled ==
  LET upto[i \in 0 .. Len(plain)] == IF i = 0 THEN 0 ELSE upto[i - 1] + Length(plain[i])
  IN  upto[Len(plain)]

\* The syllables of the password, and the letters they begin with
key(i)    == plain[i].kind = "key"
begins(i) == Table[meth][plain[i].knum].letter

\* Of two syllables with none between them, the second is another one.
Varied ==
  \A i, j \in DOMAIN plain :
    i < j /\ key(i) /\ key(j) /\ (\A k \in i + 1 .. j - 1 : ~key(k)) =>
      plain[i].knum # plain[j].knum /\ (meth = "zh" => begins(i) # begins(j))

VowelAfterN ==
  meth = "jp" => \A i \in DOMAIN plain :
    key(i) /\ plain[i].knum = Len(Table["jp"]) =>
      i < Len(plain) /\ key(i + 1) /\ begins(i + 1) \in Vowel

(* A password that is returned has the characteristics that were asked for,  *)
(* in the password itself and not in an abandoned try: one digit and, unless *)
(* it is random, one upper case syllable if they are a must, at most one if  *)
(* they may be, and none if they were not asked for.                         *)
Characteristics ==
  Made =>
    /\ Cardinality(digits) \in IF "1DIGIT" \in want THEN {1} ELSE IF "O1DIGIT" \in want THEN {0, 1} ELSE {0}
    /\ meth # "random" =>
         Cardinality(capitals) \in IF "1CASE" \in want THEN {1} ELSE IF "O1CASE" \in want THEN {0, 1} ELSE {0}

(* The password fills its buffer exactly, over all tries: len - 1 characters *)
(* with a method that pronounces, len with the random one.  It can be read   *)
(* out: after an N comes a vowel, in the same word or the next, no word is   *)
(* said twice in a row, and no two Chinese words that follow each other, be  *)
(* it with the digit between them, begin alike.                              *)
FullAndReadable == Made => Filled = Room(meth, len) /\ Varied /\ VowelAfterN

(* A call returns if the buffer has room for what must be in the password,   *)
(* however often it has to start again and whatever else may be in it.       *)
CallReturns ==
  (phase = "build" /\ Cardinality(want \cap Must) <= Room(meth, len)) ~> (phase = "done")
=============================================================================
