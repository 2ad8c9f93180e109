----------------------------- MODULE MCSession -----------------------------
(* Two pages of one account, each with an id of its own, and in the second
   set-up three pages: two tabs of one browser and another account's page that
   asks for the same id.                                                   *)
EXTENDS Session, TLC
CONSTANTS u1, u2, p1, p2, p3, a, b, c, k1, k2, k3

OneAccount == [p \in {p1, p2} |-> u1]
OwnIds     == [p \in {p1, p2} |-> IF p = p1 THEN a ELSE b]

TwoAccounts == [p \in {p1, p2, p3} |-> IF p = p3 THEN u2 ELSE u1]
SameId      == [p \in {p1, p2, p3} |-> a]

\* Sockets are alike; so are two pages that each have an id of their own.
Sockets   == Permutations(Conns)
Swap      == [x \in {p1, p2, a, b} |-> CASE x = p1 -> p2 [] x = p2 -> p1
                                         [] x = a -> b [] x = b -> a]
Symmetric == Sockets \cup {Swap @@ f : f \in Sockets}
=============================================================================
