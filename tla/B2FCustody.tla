------------------------------ MODULE B2FCustody -------------------------------
(***************************************************************************)
(* The exchange as an implementation of Custody: the outboxes are what is  *)
(* pending, the inboxes what is stored, and /sent/ what is released.       *)
(***************************************************************************)
EXTENDS B2FInvariant

Abstract == INSTANCE Custody WITH
    pending  <- out["a"] \cup out["b"],
    stored   <- {m \in Mid : m \in inbox[Other(Origin[m])]},
    released <- sent["a"] \cup sent["b"]

(* Custody: no step of the two sessions loses a message or makes two of it, *)
(* and the sender gives a message up only after the recipient stored it.    *)
ImplementsCustody == Abstract!Spec
=============================================================================
