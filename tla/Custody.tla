-------------------------------- MODULE Custody --------------------------------
(***************************************************************************)
(* What an exchange promises for every message, whatever the protocol: the *)
(* sender keeps it until the recipient has stored it, and only then gives  *)
(* it up.  A message is therefore never lost and never becomes two.        *)
(***************************************************************************)
CONSTANTS Mid, Composed

VARIABLES
    pending,   \* messages that their sender still keeps for delivery
    stored,    \* messages that their recipient has on disk
    released   \* messages that their sender has marked as sent

custodyVars == <<pending, stored, released>>

Init == pending = Composed /\ stored = {} /\ released = {}

Compose(m) ==
    /\ m \notin pending \cup released
    /\ pending' = pending \cup {m}
    /\ UNCHANGED <<stored, released>>

Store(m) ==
    /\ m \in pending \ stored
    /\ stored' = stored \cup {m}
    /\ UNCHANGED <<pending, released>>

Release(m) ==
    /\ m \in pending \cap stored
    /\ pending' = pending \ {m}
    /\ released' = released \cup {m}
    /\ UNCHANGED stored

Next == \E m \in Mid : Compose(m) \/ Store(m) \/ Release(m)

Spec == Init /\ [][Next]_custodyVars
=============================================================================
