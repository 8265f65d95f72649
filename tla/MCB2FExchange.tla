----------------------------- MODULE MCB2FExchange -----------------------------
(***************************************************************************)
(* Instances of B2FExchange for TLC: up to three messages of one peer and  *)
(* one of the other, in blocks of two.                                     *)
(***************************************************************************)
EXTENDS B2FCustody

CONSTANTS m1, m2, m3, n1

MCOrigin == [m \in Mid |-> IF m = n1 THEN "b" ELSE "a"]
MCRank == [m \in Mid |-> CASE m = m1 -> 1 [] m = m2 -> 2 [] m = m3 -> 3
                           [] OTHER -> 4]
=============================================================================
