----------------------------- MODULE B2FInvariant ------------------------------
(***************************************************************************)
(* The inductive invariant of the exchange: how the units in flight relate *)
(* to where the two sessions are, and what the mailboxes and the session   *)
(* reports owe to them.  In each part q is the remote of p, and "alive"    *)
(* means that its Exchange has not returned.                               *)
(***************************************************************************)
EXTENDS B2FExchange

Alive(p) == pc[p] # "idle"

(* p has given up the turn, or has not had it yet, and writes nothing until *)
(* it has read something (or fails).                                        *)
Listening(p) ==
    \/ pc[p] \in {"confirm", "mark", "inbound", "answer"}
    \/ pc[p] = "send" /\ todo[p] = {} /\ acc[p] # {}
    \/ pc[p] = "handshake" /\ p = master

(* The files in /in/, complete or not: what GetInboundAnswer may reject. *)
Held(p) == inbox[p] \cup torn[p]

(* What p has stored and counted as received in this session. *)
Stored(p) == Held(p) \cap statReceived[p]

Distinct(b) == \A i, j \in DOMAIN b : b[i] = b[j] => i = j

(* The units on a wire, in whatever order. *)
Units(w) == {w[k] : k \in DOMAIN w}

IsData(w, k) == k \in DOMAIN w /\ w[k].type = "data"

(* The maps of sent messages are live only between the answer and the       *)
(* report, and a closed connection carries nothing.                         *)
FrameInv(p) ==
    /\ pc[p] \notin {"send", "confirm", "mark"} => acc[p] = {}
    /\ pc[p] # "send" => rej[p] = {}
    /\ pc[p] = "receive" => todo[p] # {} /\ Distinct(props[p])
    /\ pc[p] = "answer" => Distinct(props[p])
    /\ ~Alive(p) => wire[p] = <<>>

(* Handshake lines are the first thing on a wire, and the slave has read    *)
(* the master's before either goes on.                                      *)
HandshakeInv(p, q) ==
    /\ \A i \in DOMAIN wire[p] : wire[p][i].type = "handshake" =>
         /\ i = 1 /\ pc[p] \in {"start", "handshake"}
         /\ Alive(q) /\ p # master => Len(wire[p]) = 1 /\ pc[q] = "handshake"
    /\ Alive(p) /\ (pc[q] = "start" \/ (pc[q] = "handshake" /\ q # master)) =>
         wire[p] = <<>>
    /\ Alive(p) /\ pc[q] = "start" /\ q = master => pc[p] \in {"start", "handshake"}

(* Half duplex: what a live q has in flight to p determines where q is, and *)
(* while p has not read it nothing is in flight to q.                       *)
WireInv(p, q) ==
    \A i \in DOMAIN wire[p] : LET u == wire[p][i] IN
        Alive(q) /\ u.type # "handshake" =>
            /\ wire[q] = <<>>
            /\ u.type \in {"F>", "FF", "FS", "data"}
            /\ u.type = "F>" => /\ pc[q] = "answer" /\ props[q] = u.block
                                /\ i = Len(wire[p]) /\ Listening(p)
            /\ u.type = "FF" => /\ pc[q] = "confirm" /\ acc[q] = {}
                                /\ i = Len(wire[p]) /\ Listening(p)
            /\ u.type = "FS" => pc[q] \in {"inbound", "receive"}
            /\ u.type = "data" => pc[q] \in {"send", "confirm"} /\ u.mid \in acc[q]

(* When q is about to propose or to hand over, p listens and q has read     *)
(* everything.                                                              *)
TurnInv(p, q) ==
    /\ Alive(p)
    /\ \/ pc[q] \in {"outbound", "propose"}
       \/ pc[q] = "send" /\ todo[q] = {} /\ acc[q] = {}
    => wire[q] = <<>> /\ Listening(p)

(* An answer line belongs to the block p has proposed, position by          *)
(* position: what it rejects q has, what it accepts q waits for.            *)
AnswerInv(p, q) ==
    \A i \in DOMAIN wire[p] : LET u == wire[p][i] IN
        u.type = "FS" =>
            /\ i = 1 /\ pc[p] = "answer"
            /\ \A j \in DOMAIN wire[p] : j # 1 => wire[p][j].type = "***"
            /\ Len(u.answers) = Len(props[p])
            /\ \A k \in DOMAIN props[p] :
                 u.answers[k] = "Reject" => props[p][k] \in Held(q)
            /\ \/ ~Alive(q)
               \/ /\ pc[q] = "inbound"
                  /\ AnsweredWith(props[p], u.answers, "Accept") = {}
               \/ /\ pc[q] = "receive" /\ props[q] = props[p]
                  /\ todo[q] = AnsweredWith(props[p], u.answers, "Accept")

(* The data on the wire w are the first of the messages awaited, which are  *)
(* those of the block b at the indices t, in order and without repetition.  *)
InOrder(w, b, t) ==
    \A k \in DOMAIN w : IsData(w, k) =>
        /\ \A l \in DOMAIN w : IsData(w, l) /\ w[k].mid = w[l].mid => k = l
        /\ \E j \in t : /\ b[j] = w[k].mid
                        /\ \A i \in t : i < j =>
                             \E l \in 1..(k - 1) : IsData(w, l) /\ w[l].mid = b[i]

DataInv(p) ==
    /\ \A i \in DOMAIN wire[p] : wire[p][i].type = "F>" => Distinct(wire[p][i].block)
    /\ \A k \in DOMAIN wire[p] : IsData(wire[p], k) => pc[p] = "receive"
    /\ InOrder(wire[p], props[p], todo[p])

(* Every awaited index outside s has its message on the wire w. *)
AllSent(w, b, t, s) ==
    \A j \in t \ s : \E k \in DOMAIN w : IsData(w, k) /\ w[k].mid = b[j]

(* What is on the wire comes before the indices s that are still to come. *)
Before(w, b, t, s) ==
    \A k \in DOMAIN w, j \in t, i \in s : IsData(w, k) /\ w[k].mid = b[j] => j < i

(* While q still has messages to transmit, p waits for these and for those  *)
(* in flight, which come before them.                                       *)
SendInv(p, q) ==
    pc[q] = "send" /\ todo[q] # {} /\ Alive(p) =>
        /\ pc[p] = "receive" /\ props[p] = props[q] /\ todo[q] \subseteq todo[p]
        /\ wire[q] = <<>>
        /\ Before(wire[p], props[p], todo[p], todo[q])
        /\ up => AllSent(wire[p], props[p], todo[p], todo[q])

(* The messages of the current block that q has accepted. *)
Taken(p) == acc[p] \cup {props[p][i] : i \in todo[p]}

(* What p transmits is stored by q, or q still waits for it (or is gone)    *)
(* and has written nothing that p could take for a confirmation.            *)
OwedInv(p, q) ==
    /\ pc[p] \in {"send", "confirm"} => \A m \in Taken(p) :
         \/ m \in Stored(q)
         \/ /\ \A i \in DOMAIN wire[p] : wire[p][i].type \notin Confirming
            /\ \/ ~Alive(q)
               \/ pc[q] = "receive" /\ \E j \in todo[q] : props[q][j] = m
    /\ pc[p] = "mark" => acc[p] \subseteq Stored(q)
    /\ rej[p] \subseteq Held(q)

PairInv(p, q) ==
    /\ FrameInv(p)
    /\ HandshakeInv(p, q)
    /\ WireInv(p, q)
    /\ TurnInv(p, q)
    /\ AnswerInv(p, q)
    /\ DataInv(p)
    /\ SendInv(p, q)
    /\ OwedInv(p, q)

(* Half duplex, positional answers, data in order, and nothing confirmed    *)
(* before it is stored.                                                     *)
ProtocolInv == \A p \in Peer : PairInv(p, Other(p))

(* What p has given up has a file at the remote. *)
SentIsHeld == \A p \in Peer : sent[p] \subseteq Held(Other(p))

(* No file in /in/ is cut short. *)
Whole == \A p \in Peer : torn[p] = {}

(* The messages of the current block that are still to be transmitted. *)
Ahead(p) == IF pc[p] = "send" THEN {props[p][i] : i \in todo[p]} ELSE {}

(* A message is in one place of its sender's mailbox. *)
PlaceInv(p) ==
    /\ \A m \in out[p] \cup writing[p] \cup sent[p] : Origin[m] = p
    /\ out[p] \cap writing[p] = {} /\ out[p] \cap sent[p] = {}
    /\ writing[p] \cap sent[p] = {}

(* What is proposed, to be transmitted or to be reported is in the outbox,  *)
(* and is transmitted and reported once.                                    *)
ReportInv(p) ==
    /\ pc[p] = "answer" => \A i \in DOMAIN props[p] : props[p][i] \in out[p]
    /\ pc[p] = "send" /\ todo[p] # {} => Distinct(props[p])
    /\ acc[p] \cup rej[p] \cup Ahead(p) \subseteq out[p]
    /\ acc[p] \cap rej[p] = {} /\ Ahead(p) \cap (acc[p] \cup rej[p]) = {}

(* So is what p has in flight to q. *)
FlightInv(p, q) ==
    \A u \in Units(wire[q]) : u.type = "data" => u.mid \in out[p]

(* What p waits for it does not have, or cannot open. *)
WantInv(p) ==
    pc[p] = "receive" =>
        \A j \in todo[p] : props[p][j] \notin Held(p) \ unread[p]

(* What p reports as sent q reports as received, and p has reported, or is  *)
(* about to report, whatever q reports, unless its session has failed.      *)
StatInv(p, q) ==
    /\ statSent[p] \subseteq statReceived[q]
    /\ Alive(p) \/ result[p] = "ok" => statReceived[q] \subseteq statSent[p] \cup acc[p]
    /\ result[p] = "ok" => /\ ~Alive(p)
                           /\ \A u \in Units(wire[q]) : u.type # "data"

MailInv ==
    \A p \in Peer : /\ PlaceInv(p) /\ ReportInv(p) /\ WantInv(p)
                    /\ FlightInv(p, Other(p)) /\ StatInv(p, Other(p))

(* Every message is composed before the sessions start: no AddOut runs      *)
(* beside an Exchange.                                                      *)
ComposedBefore == Composed = Mid

(* Nothing for the remote is left in the outbox but what it deferred. *)
Drained(p) == out[p] \cap Addressed \subseteq deferred[p]

(* Without AddOut the outbox always loads, and so a block is never empty.   *)
LoadInv(p) ==
    /\ writing[p] = {}
    /\ \A m \in Mid : Origin[m] = p => m \in out[p] \cup sent[p]
    /\ due[p] \subseteq Addressed
    /\ pc[p] = "propose" => ~Drained(p)
    /\ pc[p] = "answer" => props[p] # <<>>

(* p says FF or FQ, and returns without an error, only when it is drained,  *)
(* and q says FQ only to a drained p.                                       *)
DrainInv(p, q) ==
    \/ remoteNoMsgs[q]
    \/ \E u \in Units(wire[q]) : u.type \in {"FF", "FQ"}
    \/ \E u \in Units(wire[p]) : u.type = "FQ"
    \/ result[p] = "ok"
    => Drained(p) /\ pc[p] # "start"

(* While p waits for an answer q listens, and has nothing else in flight. *)
WaitInv(p, q) ==
    pc[p] = "answer" /\ Alive(q) =>
        /\ \/ pc[q] \in {"confirm", "mark", "inbound", "receive"}
           \/ pc[q] = "send" /\ todo[q] = {} /\ acc[q] # {}
           \/ pc[q] = "handshake" /\ q = master
        /\ \A u \in Units(wire[p]) : u.type = "FS"

(* While nothing has failed the link is up, and a session that is over has  *)
(* left an FQ behind for a peer that is about to read a line.               *)
CauseInv(p, q) ==
    blame = {} =>
        /\ result[p] \notin {"error", "lost"}
        /\ Alive(p) => up
        /\ Alive(p) /\ ~Alive(q) =>
             /\ Listening(p) /\ pc[p] # "answer"
             /\ \E u \in Units(wire[p]) : u.type = "FQ"
             /\ \A u \in Units(wire[p]) : u.type \in {"handshake", "FQ"}

SessionInv ==
    \A p \in Peer : /\ LoadInv(p) /\ DrainInv(p, Other(p))
                    /\ WaitInv(p, Other(p)) /\ CauseInv(p, Other(p))

(* The inductive invariant: how the two sessions stay in step, what the     *)
(* mailboxes and reports owe to them and, when no message is composed       *)
(* meanwhile, why both end well, through every interleaving of the two      *)
(* sessions with crashes, link failures and disk errors.                    *)
ExchangeInv ==
    /\ ProtocolInv /\ SentIsHeld /\ MailInv
    /\ ~TornWrites => Whole
    /\ ComposedBefore => SessionInv
=============================================================================
