------------------------------ MODULE B2FExchange ------------------------------
(***************************************************************************)
(* Two wl2k-go peers exchanging messages with fbb.Session.Exchange over a  *)
(* connection that may break, each with a mailbox.DirHandler whose         *)
(* directories survive the session.  Sessions follow each other for ever:  *)
(* what the mailboxes hold after a broken session is what the next one     *)
(* starts from.                                                            *)
(*                                                                         *)
(* A unit on the wire is what one writer emits before the reader can act   *)
(* on it: the handshake lines, a whole proposal block (FC ... F>), one     *)
(* answer line (FS), one compressed message (SOH ... EOT), FF, FQ, or an   *)
(* echoed error line (***).  A unit cut by a broken link reaches the       *)
(* reader as an end of file inside it, which every reader of the code      *)
(* treats like an end of file in front of it.                              *)
(***************************************************************************)
EXTENDS Naturals, Sequences, FiniteSets

CONSTANTS
    Mid,           \* message identifiers
    Origin,        \* Origin[m]: the peer whose outbox m is composed into
    Addressed,     \* messages whose only receiver is the remote's ;FW address
    Rank,          \* Rank[m]: position of m in sortProposals' order
    MaxBlockSize,  \* fbb.MaxBlockSize: proposals per block
    SendOnly,      \* peers whose DirHandler has sendOnly set
    Composed,      \* messages already in the outboxes at the start
    TornWrites,    \* an interrupted ioutil.WriteFile leaves a file behind
    MaxFaults      \* bound on crashes, link failures and disk errors

Peer == {"a", "b"}
Other(p) == IF p = "a" THEN "b" ELSE "a"

ASSUME OriginAssumption == Origin \in [Mid -> Peer]
ASSUME RankAssumption ==
    /\ Rank \in [Mid -> Nat]
    /\ \A m, n \in Mid : Rank[m] = Rank[n] => m = n
ASSUME SetsAssumption ==
    /\ IsFiniteSet(Mid)
    /\ Addressed \subseteq Mid
    /\ Composed \subseteq Mid
    /\ SendOnly \subseteq Peer
ASSUME BoundsAssumption ==
    /\ MaxBlockSize \in Nat \ {0}
    /\ MaxFaults \in Nat
    /\ TornWrites \in BOOLEAN

VARIABLES
    (* DirHandler: the directories, and the map of deferred MIDs in memory *)
    out,          \* /out/: messages waiting to be sent
    writing,      \* /out/ files that AddOut has created but not filled yet
    sent,         \* /sent/
    inbox,        \* /in/: complete files
    torn,         \* /in/: files cut short by a failed write
    deferred,
    (* Session: fields, and the live local variables of its call frames *)
    pc,           \* where Exchange is ("idle": not running)
    props,        \* the proposal block being sent or received
    todo,         \* indices of accepted proposals not transferred yet
    acc,          \* map sent, entries with value false: transmitted
    rej,          \* map sent, entries with value true: rejected
    remoteNoMsgs,
    result,       \* what the last Exchange returned
    statSent,     \* trafficStats.Sent
    statReceived, \* trafficStats.Received
    (* the connection *)
    master,       \* the peer with IsMaster(true)
    wire,         \* wire[p]: units in flight to p
    up,           \* the link carries data
    (* history and faults *)
    due,          \* what the outbox offered when the session began
    blame,        \* kinds of fault met in this session
    faults,       \* faults so far
    unread        \* /in/ files that os.Open refuses to open in this session

mailbox == <<out, writing, sent, inbox, torn>>
frame   == <<props, todo, acc, rej>>
stats   == <<statSent, statReceived>>
history == <<due, blame, faults, unread>>
vars == <<out, writing, sent, inbox, torn, deferred, pc, props, todo, acc, rej,
          remoteNoMsgs, result, statSent, statReceived, master, wire, up,
          due, blame, faults, unread>>

Answer == {"Accept", "Reject", "Defer"}
PC == {"idle", "start", "handshake", "outbound", "propose", "answer", "send",
       "confirm", "mark", "inbound", "receive"}
Result == {"none", "ok", "lost", "error", "crashed"}
Fault == {"link", "crash", "disk"}

Line(t)    == [type |-> t]
Block(b)   == [type |-> "F>", block |-> b]
Answers(s) == [type |-> "FS", answers |-> s]
Data(m)    == [type |-> "data", mid |-> m]
Unit == [type : {"handshake", "FF", "FQ", "***"}]
        \cup [type : {"F>"}, block : Seq(Mid)]
        \cup [type : {"FS"}, answers : Seq(Answer)]
        \cup [type : {"data"}, mid : Mid]

(* Mutant: whatever follows the turnover is taken for a confirmation. *)
AnyLine == {"handshake", "F>", "FS", "FF", "FQ", "***"}

(* Units that begin with 'F' or ';', the bytes that confirm a block. *)
Confirming == {"handshake", "F>", "FS", "FF", "FQ"}

(* The indices that the loops over the proposals of a block range over. *)
Live(p) == IF pc[p] \in {"send", "receive"} THEN 1..Len(props[p]) ELSE {}

TypeOK ==
    /\ out \in [Peer -> SUBSET Mid]
    /\ writing \in [Peer -> SUBSET Mid]
    /\ sent \in [Peer -> SUBSET Mid]
    /\ inbox \in [Peer -> SUBSET Mid]
    /\ torn \in [Peer -> SUBSET Mid]
    /\ deferred \in [Peer -> SUBSET Mid]
    /\ pc \in [Peer -> PC]
    /\ props \in [Peer -> Seq(Mid)]
    /\ todo \in [Peer -> SUBSET Nat]
    /\ \A p \in Peer : todo[p] \subseteq Live(p)
    /\ acc \in [Peer -> SUBSET Mid]
    /\ rej \in [Peer -> SUBSET Mid]
    /\ remoteNoMsgs \in [Peer -> BOOLEAN]
    /\ result \in [Peer -> Result]
    /\ statSent \in [Peer -> SUBSET Mid]
    /\ statReceived \in [Peer -> SUBSET Mid]
    /\ master \in Peer
    /\ wire \in [Peer -> Seq(Unit)]
    /\ up \in BOOLEAN
    /\ due \in [Peer -> SUBSET Mid]
    /\ blame \in SUBSET Fault
    /\ faults \in 0..MaxFaults
    /\ unread \in [Peer -> SUBSET Mid]
-----------------------------------------------------------------------------
(***************************************************************************)
(* The mailbox.                                                            *)
(***************************************************************************)

(* LoadMessageDir gives up on the whole directory when one file does not   *)
(* parse, and a file that is being written does not.                       *)
LoadOutbox(p) == IF writing[p] # {} THEN {} ELSE out[p]

(* GetOutbound: the messages addressed to the remote only and not deferred. *)
Outbound(p) == (LoadOutbox(p) \cap Addressed) \ deferred[p]

(* Mutant: the check for an already received message is missing. *)
AcceptAnything(p, m) == IF p \in SendOnly THEN "Defer" ELSE "Accept"

(* GetInboundAnswer looks for a file of that name in /in/, complete or not, *)
(* and accepts when os.Open fails, for want of the file or for another      *)
(* reason.                                                                  *)
GetInboundAnswer(p, m) ==
    IF p \in SendOnly THEN "Defer"
    ELSE IF m \in (inbox[p] \cup torn[p]) \ unread[p] THEN "Reject"
    ELSE "Accept"

(* Mutant: the message is copied to /sent/ and stays in /out/. *)
CopyToSent(p, m) ==
    /\ sent' = [sent EXCEPT ![p] = @ \cup {m}]
    /\ UNCHANGED out

SetSent(p, m) ==
    /\ out' = [out EXCEPT ![p] = @ \ {m}]
    /\ sent' = [sent EXCEPT ![p] = @ \cup {m}]

(* AddOut runs on another goroutine, or in another process, than Exchange, *)
(* and ioutil.WriteFile creates the file before it writes the data.        *)
BeginAddOut(p) ==
    /\ \E m \in Mid :
         /\ Origin[m] = p
         /\ m \notin out[p] \cup writing[p] \cup sent[p]
         /\ writing' = [writing EXCEPT ![p] = @ \cup {m}]
    /\ UNCHANGED <<out, sent, inbox, torn, deferred, pc, frame, remoteNoMsgs,
                   result, stats, master, wire, up, history>>

EndAddOut(p) ==
    /\ \E m \in writing[p] :
         /\ writing' = [writing EXCEPT ![p] = @ \ {m}]
         /\ out' = [out EXCEPT ![p] = @ \cup {m}]
    /\ UNCHANGED <<sent, inbox, torn, deferred, pc, frame, remoteNoMsgs,
                   result, stats, master, wire, up, history>>
-----------------------------------------------------------------------------
(***************************************************************************)
(* The connection.                                                         *)
(***************************************************************************)
Reaches(p) == up /\ pc[Other(p)] # "idle"

(* A write that cannot reach the remote is lost.  Where the code looks at   *)
(* its error (the handshake, the block and its checksum, writeCompressed)   *)
(* Exchange returns then, where it does not at the read that follows.       *)
Put(w, p, u) ==
    IF Reaches(p) THEN [w EXCEPT ![Other(p)] = Append(@, u)] ELSE w

Take(p) == [wire EXCEPT ![p] = Tail(@)]

Receives(p, t) == wire[p] # <<>> /\ Head(wire[p]).type = t

(* Exchange returns: its frames are gone and the connection is closed. *)
Return(p, r, w) ==
    /\ pc' = [pc EXCEPT ![p] = "idle"]
    /\ result' = [result EXCEPT ![p] = r]
    /\ wire' = [w EXCEPT ![p] = <<>>]
    /\ props' = [props EXCEPT ![p] = <<>>]
    /\ todo' = [todo EXCEPT ![p] = {}]
    /\ acc' = [acc EXCEPT ![p] = {}]
    /\ rej' = [rej EXCEPT ![p] = {}]

Goto(p, l) == pc' = [pc EXCEPT ![p] = l]

(* i is the proposal whose turn it is in the loop over those of S. *)
IsNext(i, S) == i \in S /\ \A j \in S : i <= j

Blame(k) ==
    /\ faults < MaxFaults
    /\ faults' = faults + 1
    /\ blame' = blame \cup {k}
-----------------------------------------------------------------------------
(***************************************************************************)
(* Exchange and the handshake.                                             *)
(***************************************************************************)

(* A new connection between the two stations; either may have dialled. *)
Connect ==
    /\ \A p \in Peer : pc[p] = "idle"
    /\ pc' = [p \in Peer |-> "start"]
    /\ master' \in Peer
    /\ up' = TRUE
    /\ wire' = [p \in Peer |-> <<>>]
    /\ remoteNoMsgs' = [p \in Peer |-> FALSE]
    /\ result' = [p \in Peer |-> "none"]
    /\ statSent' = [p \in Peer |-> {}]
    /\ statReceived' = [p \in Peer |-> {}]
    /\ due' = [p \in Peer |-> {}]
    /\ blame' = {}
    /\ unread' = [p \in Peer |-> {}]
    /\ UNCHANGED <<mailbox, deferred, frame, faults>>

SendHandshake(w, p) == Put(w, p, Line("handshake"))

(* Prepare, then the master's half of the handshake is sent. *)
Start(p) ==
    /\ pc[p] = "start"
    /\ deferred' = [deferred EXCEPT ![p] = {}]
    /\ due' = [due EXCEPT ![p] = out[p] \cap Addressed]
    /\ Goto(p, "handshake")
    /\ wire' = IF p = master THEN SendHandshake(wire, p) ELSE wire
    /\ UNCHANGED <<mailbox, frame, remoteNoMsgs, result, stats, master, up,
                   blame, faults, unread>>

(* ensureDirStructure fails: the error goes to the remote, nothing else. *)
PrepareFails(p) ==
    /\ pc[p] = "start"
    /\ Blame("disk")
    /\ deferred' = [deferred EXCEPT ![p] = {}]
    /\ Return(p, "error", Put(wire, p, Line("***")))
    /\ UNCHANGED <<mailbox, remoteNoMsgs, stats, master, up, due, unread>>

(* The slave reads up to the prompt, answers, and has the first turn. *)
SlaveHandshake(p) ==
    /\ pc[p] = "handshake" /\ p # master
    /\ Receives(p, "handshake")
    /\ wire' = SendHandshake(Take(p), p)
    /\ Goto(p, "outbound")
    /\ UNCHANGED <<mailbox, deferred, frame, remoteNoMsgs, result, stats,
                   master, up, history>>

(* The master knows that the handshake is over when an 'F' follows it. *)
MasterHandshake(p) ==
    /\ pc[p] = "handshake" /\ p = master
    /\ Receives(p, "handshake")
    /\ Len(wire[p]) > 1 /\ wire[p][2].type \in Confirming \ {"handshake"}
    /\ wire' = Take(p)
    /\ Goto(p, "inbound")
    /\ UNCHANGED <<mailbox, deferred, frame, remoteNoMsgs, result, stats,
                   master, up, history>>

(* During the handshake a "***" line is not taken for an error. *)
SkipErrorLine(p) ==
    /\ pc[p] = "handshake"
    /\ Receives(p, "***")
    /\ wire' = Take(p)
    /\ UNCHANGED <<mailbox, deferred, pc, frame, remoteNoMsgs, result, stats,
                   master, up, history>>
-----------------------------------------------------------------------------
(***************************************************************************)
(* handleOutbound and sendOutbound.                                        *)
(***************************************************************************)

(* The first call of outbound() decides whether there is a block to send. *)
CheckOutbound(p) ==
    /\ pc[p] = "outbound"
    /\ Goto(p, IF Outbound(p) # {} THEN "propose" ELSE "send")
    /\ UNCHANGED <<mailbox, deferred, frame, remoteNoMsgs, result, stats,
                   master, wire, up, history>>

(* b is the head of the sorted proposals of S, cut at MaxBlockSize. *)
IsBlock(b, S) ==
    /\ \A i, j \in DOMAIN b : i < j => Rank[b[i]] < Rank[b[j]]
    /\ \A m \in S : \A i \in DOMAIN b :
         (\A j \in DOMAIN b : b[j] # m) => Rank[b[i]] < Rank[m]

(* The second call of outbound() fills the block, which is empty when the  *)
(* outbox does not load any more.                                          *)
Propose(p) ==
    /\ pc[p] = "propose"
    /\ LET S == Outbound(p)
           n == IF Cardinality(S) > MaxBlockSize THEN MaxBlockSize
                ELSE Cardinality(S)
       IN  \E b \in [1..n -> S] :
             /\ IsBlock(b, S)
             /\ props' = [props EXCEPT ![p] = b]
             /\ wire' = Put(wire, p, Block(b))
    /\ Goto(p, "answer")
    /\ UNCHANGED <<mailbox, deferred, todo, acc, rej, remoteNoMsgs, result,
                   stats, master, up, history>>

(* Mutants of the positions: answers counted from 0, shifted by one, and    *)
(* rejections taken for deferrals.                                         *)
FromZero(b, answers, k) ==
    {i + 1 : i \in {j \in DOMAIN b \cap DOMAIN answers : answers[j] = k}}
Shifted(b, answers, k) ==
    {i \in DOMAIN b : i + 1 \in DOMAIN answers /\ answers[i + 1] = k}
RejectIsDefer(b, answers, k) ==
    {i \in DOMAIN b \cap DOMAIN answers :
        k = IF answers[i] = "Reject" THEN "Defer" ELSE answers[i]}

(* parseProposalAnswer: the answers belong to the proposals by position; a *)
(* proposal without an answer keeps none.                                  *)
AnsweredWith(b, answers, k) ==
    {i \in DOMAIN b \cap DOMAIN answers : answers[i] = k}

(* The loop over the answered proposals defers and rejects in memory and   *)
(* transmits the accepted ones in order.                                   *)
ReadAnswer(p) ==
    /\ pc[p] = "answer"
    /\ Receives(p, "FS")
    /\ LET b == props[p]
           answers == Head(wire[p]).answers
       IN  /\ Len(answers) <= Len(b)
           /\ todo' = [todo EXCEPT ![p] = AnsweredWith(b, answers, "Accept")]
           /\ rej' = [rej EXCEPT ![p] =
                         {b[i] : i \in AnsweredWith(b, answers, "Reject")}]
           /\ deferred' = [deferred EXCEPT ![p] =
                         @ \cup {b[i] : i \in AnsweredWith(b, answers, "Defer")}]
    /\ wire' = Take(p)
    /\ Goto(p, "send")
    /\ UNCHANGED <<mailbox, props, acc, remoteNoMsgs, result, stats, master,
                   up, history>>

(* writeCompressed; on a dead link the data may still fit in a buffer. *)
WriteMessage(p) ==
    /\ pc[p] = "send" /\ todo[p] # {}
    /\ \E i \in todo[p] :
         /\ IsNext(i, todo[p])
         /\ wire' = Put(wire, p, Data(props[p][i]))
         /\ acc' = [acc EXCEPT ![p] = @ \cup {props[p][i]}]
         /\ todo' = [todo EXCEPT ![p] = @ \ {i}]
    /\ UNCHANGED <<mailbox, deferred, pc, props, rej, remoteNoMsgs, result,
                   stats, master, up, history>>

(* writeCompressed returns the error of a write on a dead link, which is   *)
(* neither an EOF nor net.ErrClosed.                                       *)
WriteFails(p) ==
    /\ pc[p] = "send" /\ todo[p] # {}
    /\ ~Reaches(p)
    /\ Return(p, "error", Put(wire, p, Line("***")))
    /\ UNCHANGED <<mailbox, deferred, remoteNoMsgs, stats, master, up, history>>

BlockSent(p) == pc[p] = "send" /\ todo[p] = {}

(* Mutant: the entry stays in the map of sent messages. *)
ReportRejectedAgain(p) ==
    /\ BlockSent(p)
    /\ \E m \in rej[p] : SetSent(p, m)
    /\ UNCHANGED <<writing, inbox, torn, deferred, pc, frame, remoteNoMsgs,
                   result, stats, master, wire, up, history>>

(* Rejected messages are moved to /sent/ before anything is confirmed. *)
ReportRejected(p) ==
    /\ BlockSent(p)
    /\ \E m \in rej[p] :
         /\ SetSent(p, m)
         /\ rej' = [rej EXCEPT ![p] = @ \ {m}]
    /\ UNCHANGED <<writing, inbox, torn, deferred, pc, props, todo, acc,
                   remoteNoMsgs, result, stats, master, wire, up, history>>

(* Mutants of the turnover: no second block, FF also after messages, never *)
(* a quit.                                                                 *)
NoSecondBlock(p) ==
    IF acc[p] # {} THEN "implied" ELSE IF remoteNoMsgs[p] THEN "FQ" ELSE "FF"
AlwaysAnnounced(p) ==
    IF acc[p] = {} /\ Outbound(p) # {} THEN "more"
    ELSE IF remoteNoMsgs[p] THEN "FQ" ELSE "FF"
NeverQuit(p) ==
    IF acc[p] # {} THEN "implied" ELSE IF Outbound(p) # {} THEN "more" ELSE "FF"

(* How the turn goes on once rejections are reported: the turnover is      *)
(* implied after messages, and handleOutbound calls itself if nothing was  *)
(* accepted and there is more.                                             *)
AfterBlock(p) ==
    IF acc[p] # {} THEN "implied"
    ELSE IF Outbound(p) # {} THEN "more"
    ELSE IF remoteNoMsgs[p] THEN "FQ" ELSE "FF"

ProposeMore(p) ==
    /\ BlockSent(p) /\ rej[p] = {} /\ AfterBlock(p) = "more"
    /\ props' = [props EXCEPT ![p] = <<>>]
    /\ Goto(p, "outbound")
    /\ UNCHANGED <<mailbox, deferred, todo, acc, rej, remoteNoMsgs, result,
                   stats, master, wire, up, history>>

Turnover(p) ==
    /\ BlockSent(p) /\ rej[p] = {}
    /\ \/ AfterBlock(p) = "implied" /\ wire' = wire
       \/ AfterBlock(p) = "FF" /\ wire' = Put(wire, p, Line("FF"))
    /\ props' = [props EXCEPT ![p] = <<>>]
    /\ Goto(p, "confirm")
    /\ UNCHANGED <<mailbox, deferred, todo, acc, rej, remoteNoMsgs, result,
                   stats, master, up, history>>

(* There is no error of the remote to wait for after an FQ. *)
Quit(p) ==
    /\ BlockSent(p) /\ rej[p] = {} /\ AfterBlock(p) = "FQ"
    /\ Return(p, "ok", Put(wire, p, Line("FQ")))
    /\ UNCHANGED <<mailbox, deferred, remoteNoMsgs, stats, master, up, history>>

(* Peek(1): the unit stays where it is. *)
Confirmed(p) ==
    /\ pc[p] = "confirm"
    /\ wire[p] # <<>> /\ Head(wire[p]).type \in Confirming
    /\ Goto(p, "mark")
    /\ UNCHANGED <<mailbox, deferred, frame, remoteNoMsgs, result, stats,
                   master, wire, up, history>>

ReportSent(p) ==
    /\ pc[p] = "mark"
    /\ \E m \in acc[p] :
         /\ SetSent(p, m)
         /\ acc' = [acc EXCEPT ![p] = @ \ {m}]
         /\ statSent' = [statSent EXCEPT ![p] = @ \cup {m}]
    /\ UNCHANGED <<writing, inbox, torn, deferred, pc, props, todo, rej,
                   remoteNoMsgs, result, statReceived, master, wire, up,
                   history>>

EndTurn(p) ==
    /\ pc[p] = "mark" /\ acc[p] = {}
    /\ Goto(p, "inbound")
    /\ UNCHANGED <<mailbox, deferred, frame, remoteNoMsgs, result, stats,
                   master, wire, up, history>>
-----------------------------------------------------------------------------
(***************************************************************************)
(* handleInbound.                                                          *)
(***************************************************************************)

(* An empty block ends the turn without an answer. *)
ReadEmptyBlock(p) ==
    /\ pc[p] = "inbound"
    /\ Receives(p, "F>") /\ Head(wire[p]).block = <<>>
    /\ wire' = Take(p)
    /\ Goto(p, "outbound")
    /\ UNCHANGED <<mailbox, deferred, frame, remoteNoMsgs, result, stats,
                   master, up, history>>

(* Mutant: the turn ends although nothing was accepted. *)
TurnEnds(accepted) == IF accepted # {} THEN "receive" ELSE "outbound"

(* If nothing was accepted handleInbound starts over. *)
AfterAnswer(accepted) == IF accepted # {} THEN "receive" ELSE "inbound"

(* writeProposalsAnswer: a second proposal of the same MID is deferred.    *)
ReadBlock(p) ==
    /\ pc[p] = "inbound"
    /\ Receives(p, "F>") /\ Head(wire[p]).block # <<>>
    /\ LET b == Head(wire[p]).block
           answers == [i \in 1..Len(b) |->
                          IF \E j \in 1..(i - 1) : b[j] = b[i] THEN "Defer"
                          ELSE GetInboundAnswer(p, b[i])]
           accepted == {i \in 1..Len(b) : answers[i] = "Accept"}
       IN  /\ wire' = Put(Take(p), p, Answers(answers))
           /\ todo' = [todo EXCEPT ![p] = accepted]
           /\ Goto(p, AfterAnswer(accepted))
           /\ props' = IF accepted = {} THEN props ELSE [props EXCEPT ![p] = b]
           /\ remoteNoMsgs' = [remoteNoMsgs EXCEPT ![p] = @ /\ accepted = {}]
    /\ UNCHANGED <<mailbox, deferred, acc, rej, result, stats, master, up,
                   history>>

ReadNoMore(p) ==
    /\ pc[p] = "inbound"
    /\ Receives(p, "FF")
    /\ wire' = Take(p)
    /\ remoteNoMsgs' = [remoteNoMsgs EXCEPT ![p] = TRUE]
    /\ Goto(p, "outbound")
    /\ UNCHANGED <<mailbox, deferred, frame, result, stats, master, up, history>>

ReadQuit(p) ==
    /\ pc[p] = "inbound"
    /\ Receives(p, "FQ")
    /\ remoteNoMsgs' = [remoteNoMsgs EXCEPT ![p] = TRUE]
    /\ Return(p, "ok", wire)
    /\ UNCHANGED <<mailbox, deferred, stats, master, up, history>>

(* A whole message is there to be read: header, chunks and checksum. *)
ReadCompressed(p) == pc[p] = "receive" /\ Receives(p, "data")

(* readCompressed and ProcessInbound: the file is named by the MID inside  *)
(* the message, the statistics by the MID of the proposal.                 *)
ReceiveMessage(p) ==
    /\ ReadCompressed(p)
    /\ inbox' = [inbox EXCEPT ![p] = @ \cup {Head(wire[p]).mid}]
    /\ torn' = [torn EXCEPT ![p] = @ \ {Head(wire[p]).mid}]
    /\ \E i \in todo[p] :
         /\ IsNext(i, todo[p])
         /\ statReceived' = [statReceived EXCEPT ![p] = @ \cup {props[p][i]}]
         /\ todo' = [todo EXCEPT ![p] = @ \ {i}]
         /\ IF todo[p] = {i}
            THEN /\ props' = [props EXCEPT ![p] = <<>>]
                 /\ Goto(p, "outbound")
            ELSE UNCHANGED <<props, pc>>
    /\ wire' = Take(p)
    /\ UNCHANGED <<out, writing, sent, deferred, acc, rej, remoteNoMsgs, result,
                   statSent, master, up, history>>

(* The file is created and truncated before its data is written. *)
Tear(p) ==
    /\ TornWrites /\ ReadCompressed(p)
    /\ inbox' = [inbox EXCEPT ![p] = @ \ {Head(wire[p]).mid}]
    /\ torn' = [torn EXCEPT ![p] = @ \cup {Head(wire[p]).mid}]

(* ProcessInbound fails (disk full, say); the error goes to the remote. *)
ReceiveFails(p) ==
    /\ ReadCompressed(p)
    /\ Blame("disk")
    /\ Tear(p) \/ UNCHANGED <<inbox, torn>>
    /\ Return(p, "error", Put(wire, p, Line("***")))
    /\ UNCHANGED <<out, writing, sent, deferred, remoteNoMsgs, stats, master,
                   up, due, unread>>
-----------------------------------------------------------------------------
(***************************************************************************)
(* How a session fails.                                                    *)
(***************************************************************************)

(* A unit that the reader does not expect, an error line among them. *)
Unexpected(p) ==
    /\ wire[p] # <<>>
    /\ LET u == Head(wire[p])
       IN  \/ pc[p] = "answer" /\ (u.type = "FS" => Len(u.answers) > Len(props[p]))
           \/ pc[p] = "confirm" /\ u.type \notin Confirming
           \/ pc[p] = "inbound" /\ u.type \notin {"F>", "FF", "FQ"}
           \/ pc[p] = "receive" /\ u.type # "data"

ProtocolError(p) ==
    /\ Unexpected(p)
    /\ Return(p, "error", Put(wire, p, Line("***")))
    /\ UNCHANGED <<mailbox, deferred, remoteNoMsgs, stats, master, up, history>>

(* An end of file where the reader waits for more. *)
ConnLost(p) ==
    /\ ~Reaches(p)
    /\ \/ pc[p] \in {"handshake", "answer", "confirm", "inbound", "receive"}
          /\ wire[p] = <<>>
       \/ /\ pc[p] = "handshake" /\ p = master
          /\ Receives(p, "handshake") /\ Len(wire[p]) = 1
    /\ Return(p, "lost", wire)
    /\ UNCHANGED <<mailbox, deferred, remoteNoMsgs, stats, master, up, history>>

(* The process dies: what was in memory is gone, the directories stay. *)
Crash(p) ==
    /\ pc[p] # "idle"
    /\ Blame("crash")
    /\ Tear(p) \/ UNCHANGED <<inbox, torn>>
    /\ Return(p, "crashed", wire)
    /\ UNCHANGED <<out, writing, sent, deferred, remoteNoMsgs, stats, master,
                   up, due, unread>>

(* The link breaks; of what is in flight each end still gets a beginning. *)
LinkFailure ==
    /\ up /\ \E p \in Peer : pc[p] # "idle"
    /\ Blame("link")
    /\ up' = FALSE
    /\ \E m \in 0..Len(wire["a"]), n \in 0..Len(wire["b"]) :
         wire' = [wire EXCEPT !["a"] = SubSeq(@, 1, m), !["b"] = SubSeq(@, 1, n)]
    /\ UNCHANGED <<mailbox, deferred, pc, frame, remoteNoMsgs, result, stats,
                   master, due, unread>>

(* From now on os.Open fails for a file that is there: the process is out   *)
(* of descriptors, or may not read it.                                      *)
OpenFails(p) ==
    /\ pc[p] # "idle"
    /\ faults < MaxFaults
    /\ faults' = faults + 1
    /\ \E m \in (inbox[p] \cup torn[p]) \ unread[p] :
         unread' = [unread EXCEPT ![p] = @ \cup {m}]
    /\ UNCHANGED <<mailbox, deferred, pc, frame, remoteNoMsgs, result, stats,
                   master, wire, up, due, blame>>
-----------------------------------------------------------------------------
Init ==
    /\ out = [p \in Peer |-> {m \in Composed : Origin[m] = p}]
    /\ writing = [p \in Peer |-> {}]
    /\ sent = [p \in Peer |-> {}]
    /\ inbox = [p \in Peer |-> {}]
    /\ torn = [p \in Peer |-> {}]
    /\ deferred = [p \in Peer |-> {}]
    /\ pc = [p \in Peer |-> "idle"]
    /\ props = [p \in Peer |-> <<>>]
    /\ todo = [p \in Peer |-> {}]
    /\ acc = [p \in Peer |-> {}]
    /\ rej = [p \in Peer |-> {}]
    /\ remoteNoMsgs = [p \in Peer |-> FALSE]
    /\ result = [p \in Peer |-> "none"]
    /\ statSent = [p \in Peer |-> {}]
    /\ statReceived = [p \in Peer |-> {}]
    /\ master \in Peer
    /\ wire = [p \in Peer |-> <<>>]
    /\ up = FALSE
    /\ due = [p \in Peer |-> {}]
    /\ blame = {}
    /\ faults = 0
    /\ unread = [p \in Peer |-> {}]

HandshakeStep(p) ==
    Start(p) \/ SlaveHandshake(p) \/ MasterHandshake(p) \/ SkipErrorLine(p)
OutboundStep(p) ==
    \/ CheckOutbound(p) \/ Propose(p) \/ ReadAnswer(p) \/ WriteMessage(p)
    \/ ReportRejected(p) \/ ProposeMore(p) \/ Turnover(p) \/ Quit(p)
    \/ Confirmed(p) \/ ReportSent(p) \/ EndTurn(p)
InboundStep(p) ==
    \/ ReadEmptyBlock(p) \/ ReadBlock(p) \/ ReadNoMore(p) \/ ReadQuit(p)
    \/ ReceiveMessage(p)
FailureStep(p) == WriteFails(p) \/ ProtocolError(p) \/ ConnLost(p)

(* What the goroutine running Exchange does by itself. *)
SessionStep(p) ==
    HandshakeStep(p) \/ OutboundStep(p) \/ InboundStep(p) \/ FailureStep(p)

FaultStep ==
    \/ \E p \in Peer :
         PrepareFails(p) \/ ReceiveFails(p) \/ Crash(p) \/ OpenFails(p)
    \/ LinkFailure

Next ==
    \/ Connect
    \/ \E p \in Peer : SessionStep(p) \/ BeginAddOut(p) \/ EndAddOut(p)
    \/ FaultStep

Spec == Init /\ [][Next]_vars

(* A running Exchange is scheduled, a WriteFile under way finishes, and the *)
(* operator connects again; faults and new messages need not happen.        *)
Fairness ==
    /\ WF_vars(Connect)
    /\ \A p \in Peer : WF_vars(SessionStep(p)) /\ WF_vars(EndAddOut(p))

FairSpec == Spec /\ Fairness
-----------------------------------------------------------------------------
(***************************************************************************)
(* Correctness.                                                            *)
(***************************************************************************)

(* A message in a /sent/ directory is a complete file in the remote's /in/, *)
(* whatever broke between the transfer and SetSent and however many         *)
(* sessions it took.                                                        *)
SentImpliesReceived ==
    \A p \in Peer : sent[p] \subseteq inbox[Other(p)]

(* A message that the remote already holds is never transmitted again, also *)
(* when the session in which it was received broke before the sender knew,  *)
(* unless the file of that message cannot be opened in this session.        *)
NoRedundantTransfer ==
    \A p \in Peer : \A i \in DOMAIN wire[p] :
        wire[p][i].type = "data" => wire[p][i].mid \notin inbox[p] \ unread[p]

(* SetSent ends the process when the file to move is not in /out/: what is  *)
(* going to be reported is there, and is reported once.                     *)
RenameHasSource ==
    \A p \in Peer : /\ acc[p] \cup rej[p] \subseteq out[p]
                    /\ acc[p] \cap rej[p] = {}

(* The data that arrives is that of the proposal handleInbound reads it     *)
(* for, although only the position ties an answer to its proposal.          *)
DataMatchesProposal ==
    \A p \in Peer : pc[p] = "receive" /\ Receives(p, "data") =>
        \A i \in todo[p] :
            IsNext(i, todo[p]) => Head(wire[p]).mid = props[p][i]

(* At most one peer is in a part of its turn in which it still writes. *)
HoldsTurn(p) ==
    \/ pc[p] \in {"outbound", "propose", "answer"}
    \/ pc[p] = "send" /\ (todo[p] # {} \/ acc[p] = {})
OneTurn == ~ \A p \in Peer : HoldsTurn(p)

(* When Exchange returns without an error, everything the outbox held for   *)
(* the remote at the start has left it, except what the remote deferred.    *)
CleanEndDrains ==
    \A p \in Peer : result[p] = "ok" => out[p] \cap due[p] \subseteq deferred[p]

(* Two peers that run this code never get each other's lines wrong: an      *)
(* Exchange returns an error only when the link, a process or a disk has    *)
(* failed during the session.                                               *)
ErrorsHaveCause ==
    \A p \in Peer : result[p] \in {"error", "lost"} => blame # {}

(* TrafficStats: what one end reports as sent the other end reports as      *)
(* received, and after a clean session the two reports are the same.        *)
StatsAgree ==
    /\ \A p \in Peer : statSent[p] \subseteq statReceived[Other(p)]
    /\ (\A p \in Peer : result[p] = "ok") =>
            \A p \in Peer : statSent[p] = statReceived[Other(p)]

(* Every session ends: the peers never wait for each other on a live link. *)
SessionEnds == \A p \in Peer : pc[p] # "idle" ~> pc[p] = "idle"

(* Once the faults are over, every message the remote would take reaches it *)
(* and is marked as sent.                                                   *)
Delivered ==
    \A m \in Addressed : Other(Origin[m]) \notin SendOnly =>
        (m \in out[Origin[m]] ~> m \in sent[Origin[m]] \cap inbox[Other(Origin[m])])
=============================================================================
