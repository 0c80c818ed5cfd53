------------------------------ MODULE MCGenpw ------------------------------
(* Small instances of Genpw: five syllables of each language, of one to    *)
(* three letters, in buffers of up to six characters.                     *)
EXTENDS Genpw

Tables ==
  [jp |-> <<[letter |-> "a", len |-> 1], [letter |-> "i", len |-> 1],
            [letter |-> "k", len |-> 2], [letter |-> "s", len |-> 3], [letter |-> "n", len |-> 1]>>,
   zh |-> <<[letter |-> "a", len |-> 1], [letter |-> "a", len |-> 2],
            [letter |-> "e", len |-> 1], [letter |-> "b", len |-> 2], [letter |-> "b", len |-> 3]>>]
=============================================================================
