------------------------------ MODULE MCNssDb ------------------------------
(* Small instances of NssDb: two handles, two contents of the account files: *)
(* with an NIS line and an account without a shadow line, and with lines that *)
(* are too long for the nss driver.                                          *)
EXTENDS NssDb, TLC

CONSTANTS p1, p2, x, y

Functions ==
  [d \in {"nss", "nss1"} |->
     {"modctl", "getpwuid", "getpwnam", "getgrgid", "getgrnam"} \cup UserTrav \cup GroupTrav
     \cup (IF d = "nss" THEN {"init", "open", "close", "exit"} ELSE {})]

Handles   == {p1, p2}
Symmetry  == Permutations(Handles)

Names     == {"*", "nss", "nss1", "none"}
Files     == [n \in Names \ {"*"} |-> IF n = "none" THEN None ELSE n]

BareNames == [n \in {"a", "b", "+b", "g"} |-> IF n = "+b" THEN "b" ELSE n]

Account(n, id, long) == [name |-> n, id |-> id, long |-> long]
Secret(n, pw, long) == [name |-> n, pw |-> pw, long |-> long]

Before == [passwd |-> <<Account("a", 1, FALSE), Account("+b", 2, FALSE)>>,
           shadow |-> <<Secret("a", x, FALSE)>>,
           group  |-> <<Account("g", 1, FALSE)>>]
After  == [passwd |-> <<Account("b", 2, TRUE)>>,
           shadow |-> <<Secret("b", y, FALSE), Secret("a", x, TRUE)>>,
           group  |-> <<Account("g", 1, TRUE)>>]
BothHosts == {Before, After}
=============================================================================
