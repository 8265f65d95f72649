----------------------------- MODULE B2FMailProofs -----------------------------
(***************************************************************************)
(* What the exchange does to the mailboxes: nothing is reported that is    *)
(* not in the outbox, nothing is transmitted twice, the reports of the two *)
(* ends agree, and the whole implements Custody.                           *)
(***************************************************************************)
EXTENDS B2FCustody, B2FSafetyProofs

(***************************************************************************)
(* The units on a wire.                                                    *)
(***************************************************************************)

LEMMA UnitsAppend ==
    ASSUME NEW w \in Seq(Unit), NEW u \in Unit
    PROVE  Units(Append(w, u)) = Units(w) \cup {u}
<1> DEFINE x == Append(w, u)
<1>1. /\ DOMAIN x = 1..(Len(w) + 1) /\ DOMAIN w = 1..Len(w) /\ Len(w) \in Nat
      /\ \A i \in 1..Len(w) : x[i] = w[i]
      /\ x[Len(w) + 1] = u
    BY AppendFacts
<1> HIDE DEF x
<1>2. Units(x) = Units(w) \cup {u}
    BY <1>1 DEF Units
<1> QED
    BY <1>2 DEF x

LEMMA UnitsTail ==
    ASSUME NEW w \in Seq(Unit), w # <<>>
    PROVE  /\ Units(Tail(w)) \subseteq Units(w)
           /\ Head(w) \in Units(w)
           /\ \A u \in Units(w) : u = Head(w) \/ u \in Units(Tail(w))
<1> DEFINE x == Tail(w)
<1>1. /\ Head(w) = w[1] /\ 1 \in DOMAIN w /\ Len(w) \in Nat \ {0}
      /\ DOMAIN x = 1..(Len(w) - 1) /\ DOMAIN w = 1..Len(w)
      /\ \A i \in 1..(Len(w) - 1) : x[i] = w[i + 1]
    BY TailFacts
<1> HIDE DEF x
<1>2. ASSUME NEW u \in Units(w), u # Head(w) PROVE u \in Units(x)
    <2>1. PICK k \in DOMAIN w : u = w[k]
        BY DEF Units
    <2>2. k - 1 \in DOMAIN x /\ x[k - 1] = u
        BY <1>1, <1>2, <2>1
    <2> QED
        BY <2>2 DEF Units
<1>3. Units(x) \subseteq Units(w)
    BY <1>1 DEF Units
<1>4. Head(w) \in Units(w)
    BY <1>1 DEF Units
<1> QED
    BY <1>2, <1>3, <1>4 DEF x

LEMMA UnitsPrefix ==
    ASSUME NEW w \in Seq(Unit), NEW n \in 0..Len(w)
    PROVE  Units(SubSeq(w, 1, n)) \subseteq Units(w)
<1> DEFINE x == SubSeq(w, 1, n)
<1>1. DOMAIN x = 1..n /\ DOMAIN w = 1..Len(w) /\ \A i \in 1..n : x[i] = w[i]
    BY PrefixFacts
<1> HIDE DEF x
<1>2. Units(x) \subseteq Units(w)
    BY <1>1 DEF Units
<1> QED
    BY <1>2 DEF x

LEMMA UnitsEmpty ==
    /\ Units(<<>>) = {}
    /\ \A w \in Seq(Unit) : Units(w) = {} => w = <<>>
<1>1. Units(<<>>) = {}
    BY DEF Units
<1>2. ASSUME NEW w \in Seq(Unit), Units(w) = {} PROVE w = <<>>
    BY <1>2, UnitsTail
<1> QED
    BY <1>1, <1>2

(* What the protocol invariant says of a unit in flight to p. *)
LEMMA UnitFacts ==
    ASSUME ProtocolInv, NEW p \in Peer, NEW u \in Units(wire[p])
    PROVE  /\ Alive(p)
           /\ u.type = "handshake" => pc[p] \in {"start", "handshake"}
           /\ u.type = "data" => pc[p] = "receive"
           /\ u.type = "FS" => pc[p] = "answer" /\ Len(u.answers) = Len(props[p])
           /\ u.type # "handshake" /\ Alive(Other(p)) =>
                /\ wire[Other(p)] = <<>>
                /\ u.type \in {"F>", "FF", "FS", "data"}
                /\ u.type = "F>" => /\ pc[Other(p)] = "answer" /\ props[Other(p)] = u.block
                                    /\ Listening(p)
                /\ u.type = "FF" => pc[Other(p)] = "confirm" /\ Listening(p)
                /\ u.type = "FS" => pc[Other(p)] \in {"inbound", "receive"}
                /\ u.type = "data" => /\ pc[Other(p)] \in {"send", "confirm"}
                                      /\ u.mid \in acc[Other(p)]
<1>i. PairInv(p, Other(p))
    BY DEF ProtocolInv
<1>1. PICK k \in DOMAIN wire[p] : u = wire[p][k]
    BY DEF Units
<1>2. Alive(p)
    BY <1>1, <1>i DEF PairInv, FrameInv
<1>3. u.type = "handshake" => pc[p] \in {"start", "handshake"}
    BY <1>1, <1>i DEF PairInv, HandshakeInv
<1>4. u.type = "data" => pc[p] = "receive"
    BY <1>1, <1>i DEF PairInv, DataInv, IsData
<1>5. u.type = "FS" => pc[p] = "answer" /\ Len(u.answers) = Len(props[p])
    BY <1>1, <1>i DEF PairInv, AnswerInv
<1>6. u.type # "handshake" /\ Alive(Other(p)) =>
                /\ wire[Other(p)] = <<>>
                /\ u.type \in {"F>", "FF", "FS", "data"}
                /\ u.type = "F>" => /\ pc[Other(p)] = "answer" /\ props[Other(p)] = u.block
                                    /\ Listening(p)
                /\ u.type = "FF" => pc[Other(p)] = "confirm" /\ Listening(p)
                /\ u.type = "FS" => pc[Other(p)] \in {"inbound", "receive"}
                /\ u.type = "data" => /\ pc[Other(p)] \in {"send", "confirm"}
                                      /\ u.mid \in acc[Other(p)]
    BY <1>1, <1>i DEF PairInv, WireInv
<1> QED
    BY <1>2, <1>3, <1>4, <1>5, <1>6

(***************************************************************************)
(* What a step does to the wires and to the other peer.                    *)
(***************************************************************************)

(* The steps of p that write a unit, by what they write. *)
Writes(p, u) ==
    \/ u.type = "handshake" /\ ((Start(p) /\ p = master) \/ SlaveHandshake(p))
    \/ u.type = "F>" /\ Propose(p)
    \/ u.type = "FS" /\ ReadBlock(p)
    \/ u.type = "FF" /\ Turnover(p) /\ AfterBlock(p) = "FF"
    \/ u.type = "FQ" /\ Quit(p)
    \/ /\ u.type = "data" /\ WriteMessage(p)
       /\ \E i \in todo[p] : IsNext(i, todo[p]) /\ u.mid = props[p][i]
    \/ u.type = "***" /\ pc'[p] = "idle"

(* A step of p leaves q's wire alone, or appends to it what it writes. *)
Grows(p, q) ==
    \/ wire'[q] = wire[q]
    \/ \E u \in Unit : wire'[q] = Append(wire[q], u) /\ Alive(q) /\ up /\ Writes(p, u)

LEMMA PutGrows ==
    ASSUME TypeOK, NEW p \in Peer, NEW w \in Wires, NEW u \in Unit,
           w[Other(p)] = wire[Other(p)], wire'[Other(p)] = Put(w, p, u)[Other(p)],
           Writes(p, u)
    PROVE  Grows(p, Other(p))
<1>1. CASE Reaches(p)
    <2>1. wire'[Other(p)] = Append(wire[Other(p)], u)
        BY <1>1, PutFacts
    <2> QED
        BY <1>1, <2>1 DEF Grows, Reaches, Alive
<1>2. CASE ~Reaches(p)
    BY <1>2, PutFacts DEF Grows
<1> QED
    BY <1>1, <1>2

(* What the running session of p, or its end, writes. *)
LEMMA OwnWrites ==
    ASSUME TypeOK, TypeOK', NEW p \in Peer,
           SessionStep(p) \/ PrepareFails(p) \/ ReceiveFails(p) \/ Crash(p)
    PROVE  Grows(p, Other(p))
<1> DEFINE q == Other(p)
<1>p. q \in Peer /\ q # p
    BY OtherPeer
<1>w. wire \in Wires
    BY DEF TypeOK, Wires
<1>u. /\ \A t \in {"handshake", "FF", "FQ", "***"} : Line(t) \in Unit /\ Line(t).type = t
    BY UnitTypes DEF Line
<1>t. ASSUME wire[p] # <<>> PROVE Take(p) \in Wires /\ Take(p)[q] = wire[q]
    BY <1>t, TakeFacts
<1>1. CASE Start(p)
    <2>1. CASE p = master
        <3>1. wire' = Put(wire, p, Line("handshake"))
            BY <1>1, <2>1 DEF Start, SendHandshake
        <3>2. Writes(p, Line("handshake"))
            BY <1>1, <1>u, <2>1 DEF Writes
        <3> QED
            BY <1>u, <1>w, <3>1, <3>2, PutGrows
    <2>2. CASE p # master
        BY <1>1, <2>2 DEF Start, Grows
    <2> QED
        BY <2>1, <2>2
<1>2. CASE SlaveHandshake(p)
    <2>1. wire[p] # <<>> /\ wire' = Put(Take(p), p, Line("handshake"))
        BY <1>2 DEF SlaveHandshake, SendHandshake, Receives
    <2>2. Writes(p, Line("handshake"))
        BY <1>2, <1>u DEF Writes
    <2> QED
        BY <1>u, <1>t, <2>1, <2>2, PutGrows
<1>3. CASE Propose(p)
    <2>1. PICK b : wire' = Put(wire, p, Block(b)) /\ props' = [props EXCEPT ![p] = b]
        BY <1>3 DEF Propose
    <2>2. props'[p] = b /\ props'[p] \in Seq(Mid)
        BY <2>1 DEF TypeOK
    <2>3. Block(b) \in Unit /\ Block(b).type = "F>"
        BY <2>2, UnitTypes DEF Block
    <2>4. Writes(p, Block(b))
        BY <1>3, <2>3 DEF Writes
    <2> QED
        BY <1>w, <2>1, <2>3, <2>4, PutGrows
<1>4. CASE WriteMessage(p)
    <2>1. PICK i \in todo[p] : IsNext(i, todo[p]) /\ wire' = Put(wire, p, Data(props[p][i]))
        BY <1>4 DEF WriteMessage
    <2>2. props[p][i] \in Mid
        BY <2>1 DEF TypeOK, Live
    <2>3. /\ Data(props[p][i]) \in Unit /\ Data(props[p][i]).type = "data"
          /\ Data(props[p][i]).mid = props[p][i]
        BY <2>2, UnitTypes DEF Data
    <2>4. Writes(p, Data(props[p][i]))
        BY <1>4, <2>1, <2>3 DEF Writes
    <2> QED
        BY <1>w, <2>1, <2>3, <2>4, PutGrows
<1>5. CASE Turnover(p)
    <2>1. CASE AfterBlock(p) = "FF" /\ wire' = Put(wire, p, Line("FF"))
        <3>1. Writes(p, Line("FF"))
            BY <1>5, <1>u, <2>1 DEF Writes
        <3> QED
            BY <1>u, <1>w, <2>1, <3>1, PutGrows
    <2> QED
        BY <1>5, <2>1 DEF Turnover, Grows
<1>6. CASE Quit(p)
    <2>1. wire'[q] = Put(wire, p, Line("FQ"))[q]
        <3>1. Put(wire, p, Line("FQ")) \in Wires
            BY <1>u, <1>w, PutType
        <3> QED
            BY <1>6, <1>p, <3>1 DEF Quit, Return, Wires
    <2>2. Writes(p, Line("FQ"))
        BY <1>6, <1>u DEF Writes
    <2> QED
        BY <1>u, <1>w, <2>1, <2>2, PutGrows
<1>7. CASE ReadBlock(p)
    <2>1. PICK s : wire' = Put(Take(p), p, Answers(s))
        BY <1>7 DEF ReadBlock
    <2>2. wire[p] # <<>>
        BY <1>7 DEF ReadBlock, Receives
    <2>3. wire'[q] = Put(Take(p), p, Answers(s))[q] /\ Answers(s).type = "FS"
        BY <2>1 DEF Answers
    <2>4. CASE ~Reaches(p)
        BY <2>2, <2>3, <2>4, <1>t, PutFacts DEF Grows
    <2>5. CASE Reaches(p)
        <3>1. wire'[q] = Append(wire[q], Answers(s))
            BY <2>2, <2>3, <2>5, <1>t, PutFacts
        <3>2. Answers(s) \in Unit
            <4>1. /\ wire'[q] \in Seq(Unit) /\ wire[q] \in Seq(Unit)
                BY <1>p DEF TypeOK
            <4>2. Len(wire[q]) + 1 \in 1..Len(wire'[q])
                BY <3>1, <4>1
            <4>3. wire'[q][Len(wire[q]) + 1] = Answers(s)
                BY <3>1, <4>1
            <4> QED
                BY <4>1, <4>2, <4>3
        <3>3. Writes(p, Answers(s))
            BY <1>7, <2>3 DEF Writes
        <3> QED
            BY <2>5, <3>1, <3>2, <3>3 DEF Grows, Reaches, Alive
    <2> QED
        BY <2>4, <2>5
<1>8. CASE ReadQuit(p) \/ ConnLost(p) \/ Crash(p)
    <2>1. wire'[q] = wire[q]
        <3>1. CASE ReadQuit(p)
            BY <1>p, <3>1 DEF ReadQuit, Return, TypeOK
        <3>2. CASE ConnLost(p)
            BY <1>p, <3>2 DEF ConnLost, Return, TypeOK
        <3>3. CASE Crash(p)
            BY <1>p, <3>3 DEF Crash, Return, TypeOK
        <3> QED
            BY <1>8, <3>1, <3>2, <3>3
    <2> QED
        BY <2>1 DEF Grows
<1>9. CASE WriteFails(p) \/ ProtocolError(p) \/ PrepareFails(p) \/ ReceiveFails(p)
    <2>1. Return(p, "error", Put(wire, p, Line("***")))
        BY <1>9 DEF WriteFails, ProtocolError, PrepareFails, ReceiveFails
    <2>2. Put(wire, p, Line("***")) \in Wires
        BY <1>u, <1>w, PutType
    <2>3. wire'[q] = Put(wire, p, Line("***"))[q] /\ pc'[p] = "idle"
        BY <1>p, <2>1, <2>2 DEF Return, Wires, TypeOK
    <2>4. Writes(p, Line("***"))
        BY <1>u, <2>3 DEF Writes
    <2> QED
        BY <1>u, <1>w, <2>3, <2>4, PutGrows
<1>10. CASE MasterHandshake(p) \/ SkipErrorLine(p) \/ ReadAnswer(p) \/ ReadEmptyBlock(p)
            \/ ReadNoMore(p) \/ ReceiveMessage(p)
    <2>1. wire[p] # <<>> /\ wire' = Take(p)
        BY <1>10 DEF MasterHandshake, SkipErrorLine, ReadAnswer, ReadEmptyBlock,
                     ReadNoMore, ReceiveMessage, ReadCompressed, Receives
    <2> QED
        BY <1>t, <2>1 DEF Grows
<1>11. CASE CheckOutbound(p) \/ ReportRejected(p) \/ ProposeMore(p) \/ Confirmed(p)
            \/ ReportSent(p) \/ EndTurn(p)
    BY <1>11 DEF CheckOutbound, ReportRejected, ProposeMore, Confirmed, ReportSent, EndTurn,
                 Grows
<1> QED
    BY <1>1, <1>2, <1>3, <1>4, <1>5, <1>6, <1>7, <1>8, <1>9, <1>10, <1>11
       DEF SessionStep, HandshakeStep, OutboundStep, InboundStep, FailureStep

(* On its own wire a step of p leaves, at most, what was there. *)
LEMMA OwnReads ==
    ASSUME TypeOK, TypeOK', NEW p \in Peer,
           SessionStep(p) \/ PrepareFails(p) \/ ReceiveFails(p) \/ Crash(p)
    PROVE  Units(wire'[p]) \subseteq Units(wire[p])
<1>w. wire \in Wires /\ wire[p] \in Seq(Unit)
    BY DEF TypeOK, Wires
<1>t. ASSUME wire[p] # <<>>, wire'[p] = Take(p)[p] PROVE Units(wire'[p]) \subseteq Units(wire[p])
    BY <1>w, <1>t, TakeFacts, UnitsTail
<1>r. ASSUME NEW r, NEW w, Return(p, r, w), wire' \in Wires PROVE wire'[p] = <<>>
    <2>1. wire' = [w EXCEPT ![p] = <<>>]
        BY <1>r DEF Return
    <2> QED
        BY <1>r, <2>1 DEF Wires
<1>1. CASE SlaveHandshake(p) \/ ReadBlock(p)
    <2>1. wire[p] # <<>>
        BY <1>1 DEF SlaveHandshake, ReadBlock, Receives
    <2>2. PICK u : wire' = Put(Take(p), p, u)
        BY <1>1 DEF SlaveHandshake, SendHandshake, ReadBlock
    <2> QED
        BY <1>t, <2>1, <2>2, TakeFacts, PutFacts
<1>2. CASE Start(p) \/ Propose(p) \/ WriteMessage(p) \/ Turnover(p)
    <2>1. wire' = wire \/ \E u : wire' = Put(wire, p, u)
        BY <1>2 DEF Start, SendHandshake, Propose, WriteMessage, Turnover
    <2> QED
        BY <1>w, <2>1, PutFacts
<1>3. CASE Quit(p) \/ ReadQuit(p) \/ FailureStep(p) \/ PrepareFails(p) \/ ReceiveFails(p)
           \/ Crash(p)
    <2>1. \E r, w : Return(p, r, w)
        BY <1>3 DEF Quit, ReadQuit, FailureStep, WriteFails, ProtocolError, ConnLost,
                    PrepareFails, ReceiveFails, Crash
    <2>2. wire' \in Wires
        BY DEF TypeOK, Wires
    <2> QED
        BY <1>r, <2>1, <2>2, UnitsEmpty
<1>4. CASE MasterHandshake(p) \/ SkipErrorLine(p) \/ ReadAnswer(p) \/ ReadEmptyBlock(p)
            \/ ReadNoMore(p) \/ ReceiveMessage(p)
    <2>1. wire[p] # <<>> /\ wire' = Take(p)
        BY <1>4 DEF MasterHandshake, SkipErrorLine, ReadAnswer, ReadEmptyBlock,
                     ReadNoMore, ReceiveMessage, ReadCompressed, Receives
    <2> QED
        BY <1>t, <2>1
<1>5. CASE CheckOutbound(p) \/ ReportRejected(p) \/ ProposeMore(p) \/ Confirmed(p)
            \/ ReportSent(p) \/ EndTurn(p)
    BY <1>5 DEF CheckOutbound, ReportRejected, ProposeMore, Confirmed, ReportSent, EndTurn
<1> QED
    BY <1>1, <1>2, <1>3, <1>4, <1>5 DEF SessionStep, HandshakeStep, OutboundStep, InboundStep

(* What a step does to the variables of a peer that does not take it. *)
Same(p) ==
    /\ out'[p] = out[p] /\ writing'[p] = writing[p] /\ sent'[p] = sent[p]
    /\ inbox'[p] = inbox[p] /\ torn'[p] = torn[p] /\ deferred'[p] = deferred[p]
    /\ pc'[p] = pc[p] /\ props'[p] = props[p] /\ todo'[p] = todo[p]
    /\ acc'[p] = acc[p] /\ rej'[p] = rej[p] /\ remoteNoMsgs'[p] = remoteNoMsgs[p]
    /\ result'[p] = result[p] /\ due'[p] = due[p] /\ unread'[p] = unread[p]
    /\ statSent'[p] = statSent[p] /\ statReceived'[p] = statReceived[p]

LEMMA OthersSame ==
    ASSUME TypeOK, NEW p \in Peer, NEW q \in Peer, p # q,
           \/ SessionStep(p) \/ BeginAddOut(p) \/ EndAddOut(p)
           \/ PrepareFails(p) \/ ReceiveFails(p) \/ Crash(p)
    PROVE  Same(q) /\ master' = master /\ up' = up
<1> USE DEF Same, TypeOK, mailbox, frame, stats, history, Goto
<1>1. CASE HandshakeStep(p)
    BY <1>1 DEF HandshakeStep, Start, SlaveHandshake, MasterHandshake, SkipErrorLine
<1>2. CASE CheckOutbound(p) \/ Propose(p) \/ ReadAnswer(p) \/ WriteMessage(p)
    BY <1>2 DEF CheckOutbound, Propose, ReadAnswer, WriteMessage
<1>3. CASE ReportRejected(p) \/ ProposeMore(p) \/ Turnover(p)
    BY <1>3 DEF ReportRejected, SetSent, ProposeMore, Turnover
<1>4. CASE Quit(p) \/ Confirmed(p) \/ ReportSent(p) \/ EndTurn(p)
    BY <1>4 DEF Quit, Return, Confirmed, ReportSent, SetSent, EndTurn
<1>5. CASE ReadEmptyBlock(p) \/ ReadNoMore(p) \/ ReadQuit(p)
    BY <1>5 DEF ReadEmptyBlock, ReadNoMore, ReadQuit, Return
<1>10. CASE ReadBlock(p)
    <2>1. /\ \E x : todo' = [todo EXCEPT ![p] = x]
          /\ \E x : pc' = [pc EXCEPT ![p] = x]
          /\ props' = props \/ \E x : props' = [props EXCEPT ![p] = x]
          /\ \E x : remoteNoMsgs' = [remoteNoMsgs EXCEPT ![p] = x]
          /\ UNCHANGED <<mailbox, deferred, acc, rej, result, stats, master, up, history>>
        BY <1>10 DEF ReadBlock
    <2> QED
        BY <2>1
<1>6. CASE ReceiveMessage(p)
    BY <1>6 DEF ReceiveMessage
<1>7. CASE FailureStep(p) \/ PrepareFails(p)
    BY <1>7 DEF FailureStep, WriteFails, ProtocolError, ConnLost, PrepareFails, Return
<1>8. CASE ReceiveFails(p) \/ Crash(p)
    BY <1>8 DEF ReceiveFails, Crash, Tear, Return
<1>9. CASE BeginAddOut(p) \/ EndAddOut(p)
    BY <1>9 DEF BeginAddOut, EndAddOut
<1> QED
    BY <1>1, <1>2, <1>3, <1>4, <1>5, <1>6, <1>7, <1>8, <1>9, <1>10
       DEF SessionStep, OutboundStep, InboundStep

(***************************************************************************)
(* What a step of p does to p: it ends the session, or moves on without    *)
(* touching the mailbox or the maps, or is one of those treated singly.    *)
(***************************************************************************)

(* The outbox, /sent/ and the reports of p are left alone. *)
KeepsMail(p) ==
    /\ out'[p] = out[p] /\ writing'[p] = writing[p] /\ sent'[p] = sent[p]
    /\ statSent'[p] = statSent[p] /\ statReceived'[p] = statReceived[p]

Ended(p) ==
    /\ Alive(p) /\ pc'[p] = "idle"
    /\ acc'[p] = {} /\ rej'[p] = {} /\ todo'[p] = {}
    /\ result'[p] = "ok" => acc[p] = {}

Quiet(p) ==
    /\ Alive(p) /\ pc'[p] \notin {"idle", "answer", "receive"} /\ todo'[p] = {}
    /\ acc'[p] = acc[p] /\ rej'[p] = rej[p] /\ result'[p] = result[p]

LEMMA Returned ==
    ASSUME TypeOK, NEW p \in Peer, NEW r, NEW w, Return(p, r, w)
    PROVE  /\ pc'[p] = "idle" /\ result'[p] = r /\ props'[p] = <<>>
           /\ acc'[p] = {} /\ rej'[p] = {} /\ todo'[p] = {}
BY DEF Return, TypeOK

LEMMA StepKinds ==
    ASSUME TypeOK, TypeOK', ProtocolInv, NEW p \in Peer,
           SessionStep(p) \/ PrepareFails(p) \/ ReceiveFails(p) \/ Crash(p)
    PROVE  \/ ReportRejected(p) \/ ReportSent(p) \/ ReceiveMessage(p)
           \/ /\ KeepsMail(p)
              /\ \/ Ended(p) \/ Quiet(p) \/ Propose(p) \/ ReadAnswer(p) \/ WriteMessage(p)
                 \/ ReadBlock(p)
<1> USE DEF mailbox, frame, stats, history, KeepsMail
<1>f. FrameInv(p)
    BY DEF ProtocolInv, PairInv
<1>t. pc[p] \notin {"send", "receive"} => todo[p] = {}
    BY DEF TypeOK, Live
<1>1. CASE HandshakeStep(p)
    BY <1>1, <1>t DEF HandshakeStep, Start, SlaveHandshake, MasterHandshake, SkipErrorLine,
                      Goto, Quiet, Alive, TypeOK
<1>2. CASE CheckOutbound(p) \/ Confirmed(p) \/ EndTurn(p)
    BY <1>2, <1>t DEF CheckOutbound, Confirmed, EndTurn, Goto, Quiet, Alive, TypeOK
<1>3. CASE ProposeMore(p) \/ Turnover(p)
    BY <1>3 DEF ProposeMore, Turnover, BlockSent, Goto, Quiet, Alive, TypeOK
<1>4. CASE ReadEmptyBlock(p) \/ ReadNoMore(p)
    BY <1>4, <1>t DEF ReadEmptyBlock, ReadNoMore, Goto, Quiet, Alive, TypeOK
<1>5. CASE Propose(p) \/ ReadAnswer(p) \/ WriteMessage(p)
    BY <1>5 DEF Propose, ReadAnswer, WriteMessage
<1>6. CASE ReadBlock(p)
    <2>1. UNCHANGED <<mailbox, stats>>
        BY ZenonT(60), <1>6 DEF ReadBlock
    <2> QED
        BY <1>6, <2>1
<1>7. CASE Quit(p) \/ ReadQuit(p)
    <2>1. acc[p] = {} /\ Alive(p)
        BY <1>7, <1>f DEF Quit, AfterBlock, ReadQuit, FrameInv, BlockSent, Alive
    <2>2. UNCHANGED <<mailbox, stats>> /\ \E r, w : Return(p, r, w)
        BY <1>7 DEF Quit, ReadQuit
    <2> QED
        BY <2>1, <2>2, Returned DEF Ended
<1>8. CASE FailureStep(p) \/ PrepareFails(p) \/ ReceiveFails(p) \/ Crash(p)
    <2>1. /\ UNCHANGED <<out, writing, sent, stats>>
          /\ \E r \in {"error", "lost", "crashed"} : \E w : Return(p, r, w)
        BY <1>8 DEF FailureStep, WriteFails, ProtocolError, ConnLost, PrepareFails,
                    ReceiveFails, Crash
    <2>2. Alive(p)
        <3>1. FrameInv(p) /\ (wire[p] # <<>> => pc[p] # "idle")
            BY <1>f DEF FrameInv, Alive
        <3> QED
            BY <1>8, <3>1 DEF FailureStep, WriteFails, ProtocolError, Unexpected, ConnLost,
                    PrepareFails, ReceiveFails, ReadCompressed, Crash, Alive
    <2> QED
        BY <2>1, <2>2, Returned DEF Ended
<1> QED
    BY <1>1, <1>2, <1>3, <1>4, <1>5, <1>6, <1>7, <1>8
       DEF SessionStep, OutboundStep, InboundStep

(* The proposals that p accepts it does not have. *)
LEMMA ReadBlockFacts ==
    ASSUME TypeOK, NEW p \in Peer, ReadBlock(p)
    PROVE  /\ pc[p] = "inbound" /\ wire[p] # <<>>
           /\ Head(wire[p]).type = "F>" /\ Head(wire[p]).block # <<>>
           /\ pc'[p] = IF todo'[p] = {} THEN "inbound" ELSE "receive"
           /\ todo'[p] # {} => props'[p] = Head(wire[p]).block
           /\ \A i \in todo'[p] : Head(wire[p]).block[i] \notin Held(p) \ unread[p]
           /\ remoteNoMsgs'[p] => remoteNoMsgs[p]
           /\ UNCHANGED <<out, writing, sent, inbox, torn, deferred, acc, rej, result,
                          statSent, statReceived, master, up, due, blame, faults, unread>>
<1> DEFINE b == Head(wire[p]).block
           answers == [i \in 1..Len(b) |->
                          IF \E j \in 1..(i - 1) : b[j] = b[i] THEN "Defer"
                          ELSE GetInboundAnswer(p, b[i])]
           accepted == {i \in 1..Len(b) : answers[i] = "Accept"}
<1>1. /\ pc[p] = "inbound" /\ Receives(p, "F>") /\ b # <<>>
      /\ todo' = [todo EXCEPT ![p] = accepted]
      /\ Goto(p, AfterAnswer(accepted))
      /\ props' = IF accepted = {} THEN props ELSE [props EXCEPT ![p] = b]
      /\ remoteNoMsgs' = [remoteNoMsgs EXCEPT ![p] = @ /\ accepted = {}]
    BY DEF ReadBlock
<1>2. UNCHANGED <<mailbox, deferred, acc, rej, result, stats, master, up, history>>
    BY ZenonT(60) DEF ReadBlock
<1>3. \A i \in accepted : b[i] \notin Held(p) \ unread[p]
    BY DEF GetInboundAnswer, Held
<1> HIDE DEF b, answers, accepted
<1>4. /\ todo'[p] = accepted /\ pc'[p] = AfterAnswer(accepted)
      /\ accepted # {} => props'[p] = b
    BY <1>1 DEF Goto, TypeOK
<1>5. remoteNoMsgs'[p] => remoteNoMsgs[p]
    BY <1>1 DEF TypeOK
<1>6. wire[p] # <<>> /\ Head(wire[p]).type = "F>"
    BY <1>1 DEF Receives
<1> QED
    BY <1>1, <1>2, <1>3, <1>4, <1>5, <1>6
       DEF AfterAnswer, b, mailbox, stats, history

(* SetSent moves a message that is in the outbox. *)
LEMMA PlaceStep ==
    ASSUME TypeOK, TypeOK', ProtocolInv, MailInv, NEW p \in Peer,
           \/ SessionStep(p) \/ PrepareFails(p) \/ ReceiveFails(p) \/ Crash(p)
           \/ BeginAddOut(p) \/ EndAddOut(p)
    PROVE  PlaceInv(p)'
<1>i. PlaceInv(p) /\ ReportInv(p)
    BY DEF MailInv
<1>1. CASE KeepsMail(p)
    BY <1>1, <1>i DEF KeepsMail, PlaceInv
<1>2. ASSUME NEW m \in out[p], SetSent(p, m), writing' = writing PROVE PlaceInv(p)'
    <2>1. out'[p] = out[p] \ {m} /\ sent'[p] = sent[p] \cup {m} /\ writing'[p] = writing[p]
        BY <1>2 DEF SetSent, TypeOK
    <2> QED
        BY <1>i, <2>1 DEF PlaceInv
<1>3. CASE ReportRejected(p) \/ ReportSent(p)
    <2>1. PICK m \in acc[p] \cup rej[p] : SetSent(p, m)
        BY <1>3 DEF ReportRejected, ReportSent
    <2>2. m \in out[p]
        BY <1>i DEF ReportInv
    <2>3. writing' = writing
        BY <1>3 DEF ReportRejected, ReportSent
    <2> QED
        BY <1>2, <2>1, <2>2, <2>3
<1>4. CASE ReceiveMessage(p)
    BY <1>4, <1>i DEF ReceiveMessage, PlaceInv
<1>5. CASE BeginAddOut(p)
    <2>1. PICK m \in Mid : /\ Origin[m] = p /\ m \notin out[p] \cup writing[p] \cup sent[p]
                           /\ writing' = [writing EXCEPT ![p] = @ \cup {m}]
        BY <1>5 DEF BeginAddOut
    <2>2. out'[p] = out[p] /\ sent'[p] = sent[p] /\ writing'[p] = writing[p] \cup {m}
        BY <1>5, <2>1 DEF BeginAddOut, TypeOK
    <2> QED
        BY <1>i, <2>1, <2>2 DEF PlaceInv
<1>6. CASE EndAddOut(p)
    <2>1. PICK m \in writing[p] : /\ writing' = [writing EXCEPT ![p] = @ \ {m}]
                                  /\ out' = [out EXCEPT ![p] = @ \cup {m}]
        BY <1>6 DEF EndAddOut
    <2>2. /\ out'[p] = out[p] \cup {m} /\ sent'[p] = sent[p]
          /\ writing'[p] = writing[p] \ {m}
        BY <1>6, <2>1 DEF EndAddOut, TypeOK
    <2> QED
        BY <1>i, <2>1, <2>2 DEF PlaceInv
<1> QED
    BY <1>1, <1>3, <1>4, <1>5, <1>6, StepKinds

(* A block is made of what outbound() returns, and is empty only with it. *)
LEMMA ProposedBlock ==
    ASSUME TypeOK, NEW p \in Peer, Propose(p)
    PROVE  \E n \in Nat : \E b \in [1..n -> Outbound(p)] :
              props'[p] = b /\ (Outbound(p) # {} => n # 0)
<1>1. IsFiniteSet(Outbound(p))
    <2>1. Outbound(p) \subseteq Mid
        BY DEF Outbound, LoadOutbox, TypeOK
    <2> QED
        BY <2>1, SetsAssumption, FS_Subset
<1>2. Cardinality(Outbound(p)) \in Nat
    BY <1>1, FS_CardinalityType
<1>3. Outbound(p) # {} => Cardinality(Outbound(p)) # 0
    BY <1>1, FS_EmptySet
<1> DEFINE n == IF Cardinality(Outbound(p)) > MaxBlockSize THEN MaxBlockSize
                ELSE Cardinality(Outbound(p))
<1>4. n \in Nat /\ (Outbound(p) # {} => n # 0)
    BY <1>2, <1>3, BoundsAssumption
<1>5. PICK b \in [1..n -> Outbound(p)] : props' = [props EXCEPT ![p] = b]
    BY DEF Propose
<1>6. props'[p] = b
    BY <1>5 DEF TypeOK
<1> HIDE DEF n
<1> QED
    BY <1>4, <1>5, <1>6

(* The block, the maps and the outbox stay in step. *)
LEMMA ReportStep ==
    ASSUME TypeOK, TypeOK', ProtocolInv, MailInv, NEW p \in Peer,
           \/ SessionStep(p) \/ PrepareFails(p) \/ ReceiveFails(p) \/ Crash(p)
           \/ BeginAddOut(p) \/ EndAddOut(p)
    PROVE  ReportInv(p)'
<1> USE DEF mailbox, frame, stats, history
<1>i. ReportInv(p) /\ FrameInv(p)
    BY DEF MailInv, ProtocolInv, PairInv
<1>t. /\ todo[p] \subseteq DOMAIN props[p] /\ props[p] \in Seq(Mid)
      /\ DOMAIN props[p] = 1..Len(props[p]) /\ todo[p] \subseteq Nat
    BY DEF TypeOK, Live
<1>1. CASE KeepsMail(p) /\ Ended(p)
    BY <1>1 DEF Ended, ReportInv, Ahead
<1>2. CASE KeepsMail(p) /\ Quiet(p)
    <2>1. Ahead(p)' = {}
        BY <1>2 DEF Quiet, Ahead
    <2> QED
        BY <1>2, <1>i, <2>1 DEF KeepsMail, Quiet, ReportInv
<1>3. CASE Propose(p)
    <2>n. PICK n \in Nat : \E b \in [1..n -> Outbound(p)] : props'[p] = b
        BY <1>3, ProposedBlock
    <2>1. PICK b \in [1..n -> Outbound(p)] : props'[p] = b
        BY <2>n
    <2>2. /\ pc'[p] = "answer" /\ out'[p] = out[p]
          /\ acc'[p] = {} /\ rej'[p] = {} /\ Ahead(p)' = {}
        BY <1>3, <1>i DEF Propose, Goto, FrameInv, Ahead, TypeOK
    <2>3. Outbound(p) \subseteq out[p]
        BY DEF Outbound, LoadOutbox
    <2>4. \A i \in DOMAIN b : b[i] \in out[p]
        BY <2>3
    <2> QED
        BY <2>1, <2>2, <2>4 DEF ReportInv
<1>4. CASE ReadAnswer(p)
    <2> DEFINE b == props[p]
               s == Head(wire[p]).answers
    <2>1. /\ pc[p] = "answer" /\ pc'[p] = "send" /\ out'[p] = out[p] /\ props'[p] = b
          /\ acc'[p] = {}
          /\ todo'[p] = AnsweredWith(b, s, "Accept")
          /\ rej'[p] = {b[i] : i \in AnsweredWith(b, s, "Reject")}
        BY <1>4, <1>i DEF ReadAnswer, Goto, FrameInv, TypeOK
    <2>2. Distinct(b) /\ \A i \in DOMAIN b : b[i] \in out[p]
        BY <2>1, <1>i DEF FrameInv, ReportInv
    <2>3. Ahead(p)' = {b[i] : i \in AnsweredWith(b, s, "Accept")}
        BY <2>1 DEF Ahead
    <2> HIDE DEF b, s
    <2>4. Ahead(p)' \cap rej'[p] = {}
        BY <2>1, <2>2, <2>3 DEF AnsweredWith, Distinct
    <2>5. Ahead(p)' \cup rej'[p] \subseteq out[p]
        BY <2>1, <2>2, <2>3 DEF AnsweredWith
    <2> QED
        BY <2>1, <2>2, <2>4, <2>5 DEF ReportInv
<1>5. CASE WriteMessage(p)
    <2>1. PICK i \in todo[p] : /\ acc' = [acc EXCEPT ![p] = @ \cup {props[p][i]}]
                               /\ todo' = [todo EXCEPT ![p] = @ \ {i}]
        BY <1>5 DEF WriteMessage
    <2>2. /\ pc[p] = "send" /\ pc'[p] = "send" /\ out'[p] = out[p] /\ props'[p] = props[p]
          /\ acc'[p] = acc[p] \cup {props[p][i]} /\ rej'[p] = rej[p]
          /\ todo'[p] = todo[p] \ {i} /\ todo[p] # {}
        BY <1>5, <2>1 DEF WriteMessage, TypeOK
    <2>3. Distinct(props[p]) /\ props[p][i] \in Ahead(p)
        BY <2>1, <2>2, <1>i DEF ReportInv, Ahead
    <2>4. Ahead(p)' \subseteq Ahead(p) /\ props[p][i] \notin Ahead(p)'
        BY <2>1, <2>2, <2>3, <1>t DEF Ahead, Distinct
    <2> QED
        BY <2>2, <2>3, <2>4, <1>i DEF ReportInv
<1>6. CASE ReadBlock(p)
    <2>1. /\ pc'[p] \in {"receive", "inbound"} /\ out'[p] = out[p]
          /\ acc'[p] = acc[p] /\ rej'[p] = rej[p]
        BY <1>6, ReadBlockFacts
    <2> QED
        BY <2>1, <1>i DEF ReportInv, Ahead
<1>7. CASE ReportRejected(p)
    <2>1. PICK m \in rej[p] : SetSent(p, m) /\ rej' = [rej EXCEPT ![p] = @ \ {m}]
        BY <1>7 DEF ReportRejected
    <2>2. /\ pc'[p] = "send" /\ todo'[p] = {} /\ out'[p] = out[p] \ {m}
          /\ acc'[p] = acc[p] /\ rej'[p] = rej[p] \ {m}
        BY <1>7, <2>1 DEF ReportRejected, BlockSent, SetSent, TypeOK
    <2> QED
        BY <2>1, <2>2, <1>i DEF ReportInv, Ahead
<1>8. CASE ReportSent(p)
    <2>1. PICK m \in acc[p] : SetSent(p, m) /\ acc' = [acc EXCEPT ![p] = @ \ {m}]
        BY <1>8 DEF ReportSent
    <2>2. /\ pc'[p] = "mark" /\ out'[p] = out[p] \ {m}
          /\ acc'[p] = acc[p] \ {m} /\ rej'[p] = rej[p]
        BY <1>8, <2>1 DEF ReportSent, SetSent, TypeOK
    <2> QED
        BY <2>1, <2>2, <1>i DEF ReportInv, Ahead
<1>9. CASE ReceiveMessage(p)
    <2>1. /\ pc'[p] \in {"receive", "outbound"} /\ out'[p] = out[p]
          /\ acc'[p] = acc[p] /\ rej'[p] = rej[p]
        BY <1>9 DEF ReceiveMessage, ReadCompressed, Goto, TypeOK
    <2> QED
        BY <2>1, <1>i DEF ReportInv, Ahead
<1>10. CASE BeginAddOut(p) \/ EndAddOut(p)
    <2>1. out[p] \subseteq out'[p] /\ UNCHANGED <<pc, props, todo, acc, rej>>
        BY <1>10 DEF BeginAddOut, EndAddOut, TypeOK
    <2> QED
        BY <2>1, <1>i DEF ReportInv, Ahead
<1> QED
    BY <1>1, <1>2, <1>3, <1>4, <1>5, <1>6, <1>7, <1>8, <1>9, <1>10, StepKinds

(* What ReceiveMessage does to p: the message stored is the one awaited. *)
LEMMA ReceiveFacts ==
    ASSUME TypeOK, ProtocolInv, NEW p \in Peer, ReceiveMessage(p)
    PROVE  \E i \in todo[p] :
              /\ pc[p] = "receive" /\ Distinct(props[p]) /\ todo[p] \subseteq DOMAIN props[p]
              /\ Head(wire[p]) \in Units(wire[p]) /\ Head(wire[p]).type = "data"
              /\ Head(wire[p]).mid = props[p][i]
              /\ inbox'[p] = inbox[p] \cup {props[p][i]} /\ Held(p)' = Held(p) \cup {props[p][i]}
              /\ statReceived'[p] = statReceived[p] \cup {props[p][i]}
              /\ todo'[p] = todo[p] \ {i}
              /\ \/ todo[p] = {i} /\ pc'[p] = "outbound"
                 \/ todo[p] # {i} /\ pc'[p] = "receive" /\ props'[p] = props[p]
<1> DEFINE m == Head(wire[p]).mid
<1>1. /\ pc[p] = "receive" /\ wire[p] # <<>> /\ Head(wire[p]).type = "data"
      /\ inbox'[p] = inbox[p] \cup {m} /\ torn'[p] = torn[p] \ {m}
    BY DEF ReceiveMessage, ReadCompressed, Receives, TypeOK
<1>2. PICK i \in todo[p] :
         /\ IsNext(i, todo[p])
         /\ statReceived' = [statReceived EXCEPT ![p] = @ \cup {props[p][i]}]
         /\ todo' = [todo EXCEPT ![p] = @ \ {i}]
         /\ IF todo[p] = {i}
            THEN /\ props' = [props EXCEPT ![p] = <<>>]
                 /\ Goto(p, "outbound")
            ELSE UNCHANGED <<props, pc>>
    BY DEF ReceiveMessage
<1>3. wire[p] \in Seq(Unit) /\ todo[p] \subseteq DOMAIN props[p] /\ todo[p] \subseteq Nat
    BY DEF TypeOK, Live
<1>4. Distinct(props[p]) /\ InOrder(wire[p], props[p], todo[p])
    BY <1>1 DEF ProtocolInv, PairInv, FrameInv, DataInv
<1>5. props[p][i] = m
    BY <1>1, <1>2, <1>3, <1>4, InOrderHead
<1>6. Head(wire[p]) \in Units(wire[p])
    BY <1>1, <1>3, UnitsTail
<1> HIDE DEF m
<1>7. Held(p)' = Held(p) \cup {m}
    BY <1>1 DEF Held
<1>8. /\ statReceived'[p] = statReceived[p] \cup {props[p][i]} /\ todo'[p] = todo[p] \ {i}
      /\ \/ todo[p] = {i} /\ pc'[p] = "outbound"
         \/ todo[p] # {i} /\ pc'[p] = "receive" /\ props'[p] = props[p]
    BY <1>1, <1>2 DEF Goto, TypeOK
<1> QED
    BY <1>1, <1>2, <1>3, <1>4, <1>5, <1>6, <1>7, <1>8 DEF m

(* The directories of p change only by AddOut, SetSent and ProcessInbound. *)
LEMMA HeldSame ==
    ASSUME NEW p \in Peer, BeginAddOut(p) \/ EndAddOut(p)
    PROVE  /\ Held(p)' = Held(p) /\ Held(Other(p))' = Held(Other(p))
           /\ UNCHANGED <<sent, inbox, torn, deferred, pc, props, todo, acc, rej, remoteNoMsgs,
                          result, statSent, statReceived, master, wire, up, due, blame, faults,
                          unread>>
BY DEF BeginAddOut, EndAddOut, Held, frame, stats, history

(* What is awaited is not there: an accepted message is stored once. *)
LEMMA WantStep ==
    ASSUME TypeOK, TypeOK', ProtocolInv, MailInv, NEW p \in Peer,
           \/ SessionStep(p) \/ PrepareFails(p) \/ ReceiveFails(p) \/ Crash(p)
           \/ BeginAddOut(p) \/ EndAddOut(p)
    PROVE  WantInv(p)'
<1>i. WantInv(p)
    BY DEF MailInv
<1>1. CASE ReceiveMessage(p)
    <2> SUFFICES ASSUME pc'[p] = "receive" 
                 PROVE  \A j \in todo'[p] : props'[p][j] \notin (Held(p) \ unread[p])'
        BY DEF WantInv
    <2>2. unread' = unread
        BY <1>1 DEF ReceiveMessage, history
    <2>1. PICK i \in todo[p] :
              /\ pc[p] = "receive" /\ Distinct(props[p]) /\ todo[p] \subseteq DOMAIN props[p]
              /\ Held(p)' = Held(p) \cup {props[p][i]}
              /\ todo'[p] = todo[p] \ {i} /\ props'[p] = props[p]
        BY <1>1, ReceiveFacts
    <2> QED
        BY <2>1, <2>2, <1>i DEF WantInv, Distinct
<1>2. CASE ReadBlock(p)
    <2>1. Held(p)' = Held(p) /\ unread' = unread
        BY <1>2, ReadBlockFacts DEF Held
    <2> QED
        BY <1>2, <2>1, ReadBlockFacts DEF WantInv
<1>3. CASE Ended(p) \/ Quiet(p)
    BY <1>3 DEF Ended, Quiet, WantInv
<1>4. CASE Propose(p) \/ ReadAnswer(p) \/ WriteMessage(p) \/ ReportRejected(p) \/ ReportSent(p)
    <2>1. pc'[p] # "receive"
        BY <1>4 DEF Propose, ReadAnswer, WriteMessage, ReportRejected, BlockSent, ReportSent,
                    Goto, TypeOK
    <2> QED
        BY <2>1 DEF WantInv
<1>5. CASE BeginAddOut(p) \/ EndAddOut(p)
    BY <1>5, <1>i, HeldSame DEF WantInv
<1> QED
    BY <1>1, <1>2, <1>3, <1>4, <1>5, StepKinds

(* What p has in flight it still keeps. *)
LEMMA FlightStep ==
    ASSUME TypeOK, TypeOK', ProtocolInv, MailInv, NEW p \in Peer,
           \/ SessionStep(p) \/ PrepareFails(p) \/ ReceiveFails(p) \/ Crash(p)
           \/ BeginAddOut(p) \/ EndAddOut(p)
    PROVE  FlightInv(p, Other(p))'
<1> DEFINE q == Other(p)
<1>p. q \in Peer /\ q # p /\ Other(q) = p /\ wire[q] \in Seq(Unit)
    BY OtherPeer DEF TypeOK
<1>i. FlightInv(p, q) /\ ReportInv(p)
    BY DEF MailInv
<1>1. CASE BeginAddOut(p) \/ EndAddOut(p)
    <2>1. out[p] \subseteq out'[p] /\ wire' = wire
        BY <1>1 DEF BeginAddOut, EndAddOut, TypeOK
    <2> QED
        BY <2>1, <1>i DEF FlightInv
<1>2. ASSUME SessionStep(p) \/ PrepareFails(p) \/ ReceiveFails(p) \/ Crash(p),
             NEW u \in Units(wire[q]), u.type = "data"
      PROVE  u.mid \in out'[p]
    <2>1. u.mid \in out[p]
        BY <1>2, <1>i DEF FlightInv
    <2>2. Alive(p) => pc[p] \in {"send", "confirm"} /\ u.mid \in acc[p]
        BY <1>2, <1>p, UnitFacts
    <2>3. CASE KeepsMail(p) \/ ReceiveMessage(p)
        BY <2>1, <2>3 DEF KeepsMail, ReceiveMessage
    <2>4. CASE ReportRejected(p)
        <3>1. PICK m \in rej[p] : out' = [out EXCEPT ![p] = @ \ {m}]
            BY <2>4 DEF ReportRejected, SetSent
        <3>2. out'[p] = out[p] \ {m} /\ Alive(p)
            BY <2>4, <3>1 DEF ReportRejected, BlockSent, Alive, TypeOK
        <3> QED
            BY <2>1, <2>2, <3>1, <3>2, <1>i DEF ReportInv
    <2>5. ~ReportSent(p)
        BY <2>2 DEF ReportSent, Alive
    <2> QED
        BY <1>2, <2>3, <2>4, <2>5, StepKinds
<1>3. ASSUME SessionStep(p) \/ PrepareFails(p) \/ ReceiveFails(p) \/ Crash(p),
             NEW u \in Unit, Writes(p, u), u.type = "data"
      PROVE  u.mid \in out'[p]
    <2>1. WriteMessage(p) /\ \E i \in todo[p] : u.mid = props[p][i]
        BY <1>3 DEF Writes
    <2>2. u.mid \in Ahead(p) /\ out' = out
        BY <2>1 DEF WriteMessage, Ahead, mailbox
    <2> QED
        BY <2>2, <1>i DEF ReportInv
<1>4. CASE SessionStep(p) \/ PrepareFails(p) \/ ReceiveFails(p) \/ Crash(p)
    <2>1. Grows(p, q)
        BY <1>4, OwnWrites
    <2>2. CASE wire'[q] = wire[q]
        BY <1>2, <1>4, <2>2 DEF FlightInv
    <2>3. ASSUME NEW v \in Unit, wire'[q] = Append(wire[q], v), Writes(p, v)
          PROVE  FlightInv(p, q)'
        <3>1. Units(wire'[q]) = Units(wire[q]) \cup {v}
            BY <1>p, <2>3, UnitsAppend
        <3> QED
            BY <1>2, <1>3, <1>4, <2>3, <3>1 DEF FlightInv
    <2> QED
        BY <2>1, <2>2, <2>3 DEF Grows
<1> QED
    BY <1>1, <1>4

(* A message enters p's report when the remote has reported it, and the     *)
(* maps are empty when p returns without an error.                          *)
LEMMA SenderStatStep ==
    ASSUME TypeOK, TypeOK', ProtocolInv, MailInv, NEW p \in Peer,
           SessionStep(p) \/ PrepareFails(p) \/ ReceiveFails(p) \/ Crash(p)
    PROVE  StatInv(p, Other(p))'
<1> USE DEF mailbox, frame, stats, history
<1> DEFINE q == Other(p)
<1>p. q \in Peer /\ q # p /\ Other(q) = p /\ wire[q] \in Seq(Unit)
    BY OtherPeer DEF TypeOK
<1>i. StatInv(p, q) /\ PairInv(p, q)
    BY DEF MailInv, ProtocolInv
<1>s. statReceived'[q] = statReceived[q]
    BY <1>p, OthersSame DEF Same
<1>1. CASE KeepsMail(p) /\ Ended(p)
    <2>1. ASSUME result'[p] = "ok", NEW u \in Units(wire'[q]) PROVE u.type # "data"
        <3>1. acc[p] = {} /\ Alive(p) /\ pc'[p] = "idle"
            BY <1>1, <2>1 DEF Ended
        <3>2. \A v \in Units(wire[q]) : v.type # "data"
            BY <3>1, <1>p, UnitFacts
        <3>3. \A v \in Unit : Writes(p, v) => v.type # "data"
            <4>1. WriteMessage(p) => pc'[p] = "send"
                BY DEF WriteMessage
            <4> QED
                BY <3>1, <4>1 DEF Writes
        <3>4. Grows(p, q)
            BY OwnWrites
        <3>5. CASE wire'[q] = wire[q]
            BY <2>1, <3>2, <3>5
        <3>6. ASSUME NEW v \in Unit, wire'[q] = Append(wire[q], v), Writes(p, v)
              PROVE  u.type # "data"
            <4>1. Units(wire'[q]) = Units(wire[q]) \cup {v}
                BY <1>p, <3>6, UnitsAppend
            <4> QED
                BY <2>1, <3>2, <3>3, <3>6, <4>1
        <3> QED
            BY <3>4, <3>5, <3>6 DEF Grows
    <2> QED
        BY <1>1, <1>i, <1>s, <2>1 DEF KeepsMail, Ended, StatInv, Alive
<1>2. ASSUME Alive(p), Alive(p)', result'[p] = result[p],
             statSent[p] \subseteq statSent'[p], statSent'[p] \subseteq statReceived[q],
             statSent[p] \cup acc[p] \subseteq statSent'[p] \cup acc'[p]
      PROVE  StatInv(p, q)'
    BY <1>2, <1>i, <1>s DEF StatInv
<1>3. CASE KeepsMail(p) /\ (Quiet(p) \/ Propose(p) \/ ReadAnswer(p) \/ WriteMessage(p))
    <2>1. /\ Alive(p) /\ Alive(p)' /\ result'[p] = result[p] /\ acc[p] \subseteq acc'[p]
        <3>1. CASE Quiet(p)
            BY <3>1 DEF Quiet, Alive
        <3>2. CASE Propose(p)
            BY <3>2 DEF Propose, Goto, Alive, TypeOK
        <3>3. CASE ReadAnswer(p)
            BY <3>3 DEF ReadAnswer, Goto, Alive, TypeOK
        <3>4. CASE WriteMessage(p)
            BY <3>4 DEF WriteMessage, Goto, Alive, TypeOK
        <3> QED
            BY <1>3, <3>1, <3>2, <3>3, <3>4
    <2> QED
        BY <1>2, <1>3, <1>i, <2>1 DEF KeepsMail, StatInv
<1>4. CASE ReadBlock(p)
    <2>1. /\ Alive(p) /\ Alive(p)' /\ UNCHANGED <<result, acc, statSent>>
        BY <1>4, ReadBlockFacts DEF Alive
    <2> QED
        BY <1>2, <1>i, <2>1 DEF StatInv
<1>5. CASE ReportRejected(p) \/ ReceiveMessage(p)
    <2>1. /\ Alive(p) /\ Alive(p)' /\ UNCHANGED <<result, acc, statSent>>
        BY <1>5 DEF ReportRejected, BlockSent, ReceiveMessage, ReadCompressed, Goto, Alive, TypeOK
    <2> QED
        BY <1>2, <1>i, <2>1 DEF StatInv
<1>6. CASE ReportSent(p)
    <2>1. PICK m \in acc[p] : /\ acc' = [acc EXCEPT ![p] = @ \ {m}]
                              /\ statSent' = [statSent EXCEPT ![p] = @ \cup {m}]
        BY <1>6 DEF ReportSent
    <2>2. /\ pc[p] = "mark" /\ pc'[p] = "mark" /\ result' = result
          /\ acc'[p] = acc[p] \ {m} /\ statSent'[p] = statSent[p] \cup {m}
        BY <1>6, <2>1 DEF ReportSent, TypeOK
    <2>3. m \in statReceived[q]
        BY <2>1, <2>2, <1>i DEF PairInv, OwedInv, Stored
    <2> QED
        BY <1>2, <1>i, <2>2, <2>3 DEF StatInv, Alive
<1> QED
    BY <1>1, <1>3, <1>4, <1>5, <1>6, StepKinds

(* What q counts as received the sender has transmitted in this session. *)
LEMMA ReceiverStatStep ==
    ASSUME TypeOK, TypeOK', ProtocolInv, MailInv, NEW q \in Peer,
           SessionStep(q) \/ PrepareFails(q) \/ ReceiveFails(q) \/ Crash(q)
    PROVE  StatInv(Other(q), q)'
<1> USE DEF mailbox, frame, stats, history
<1> DEFINE p == Other(q)
<1>p. p \in Peer /\ p # q /\ Other(p) = q
    BY OtherPeer
<1>i. StatInv(p, q)
    BY <1>p DEF MailInv
<1>s. Same(p)
    BY <1>p, OthersSame
<1>u. Units(wire'[q]) \subseteq Units(wire[q])
    BY OwnReads
<1>1. CASE statReceived'[q] = statReceived[q]
    BY <1>1, <1>i, <1>s, <1>u DEF StatInv, Same, Alive
<1>2. CASE ReceiveMessage(q)
    <2>1. PICK m : /\ statReceived'[q] = statReceived[q] \cup {m}
                   /\ \E u \in Units(wire[q]) : u.type = "data" /\ u.mid = m
        BY <1>2, ReceiveFacts
    <2>2. Alive(p) => m \in acc[p]
        BY <1>p, <2>1, UnitFacts
    <2>3. result[p] # "ok"
        BY <1>i, <2>1 DEF StatInv
    <2> QED
        BY <1>i, <1>s, <1>u, <2>1, <2>2, <2>3 DEF StatInv, Same, Alive
<1>3. CASE ReportRejected(q) \/ ReportSent(q)
    BY <1>1, <1>3 DEF ReportRejected, ReportSent
<1> QED
    BY <1>1, <1>2, <1>3, StepKinds DEF KeepsMail

(* A broken link cuts off the ends of both wires. *)
LEMMA LinkUnits ==
    ASSUME TypeOK, LinkFailure
    PROVE  \A p \in Peer : Units(wire'[p]) \subseteq Units(wire[p])
<1>1. PICK m \in 0..Len(wire["a"]), n \in 0..Len(wire["b"]) :
         wire' = [wire EXCEPT !["a"] = SubSeq(@, 1, m), !["b"] = SubSeq(@, 1, n)]
    BY DEF LinkFailure
<1>2. /\ wire["a"] \in Seq(Unit) /\ wire["b"] \in Seq(Unit)
      /\ wire'["a"] = SubSeq(wire["a"], 1, m) /\ wire'["b"] = SubSeq(wire["b"], 1, n)
    BY <1>1 DEF TypeOK, Peer
<1> QED
    BY <1>2, UnitsPrefix DEF Peer

LEMMA MailStep ==
    ASSUME TypeOK, TypeOK', ProtocolInv, MailInv, [Next]_vars
    PROVE  MailInv'
<1> USE DEF mailbox, frame, stats, history
<1>1. ASSUME NEW p \in Peer,
             \/ SessionStep(p) \/ PrepareFails(p) \/ ReceiveFails(p) \/ Crash(p)
             \/ BeginAddOut(p) \/ EndAddOut(p)
      PROVE  MailInv'
    <2> DEFINE q == Other(p)
    <2>p. q \in Peer /\ q # p /\ Other(q) = p
        BY OtherPeer
    <2>i. /\ PlaceInv(q) /\ ReportInv(q) /\ WantInv(q) /\ FlightInv(q, p)
          /\ StatInv(p, q) /\ StatInv(q, p)
        BY <2>p DEF MailInv
    <2>s. Same(q)
        BY <1>1, <2>p, OthersSame
    <2>1. PlaceInv(p)' /\ ReportInv(p)' /\ WantInv(p)' /\ FlightInv(p, q)'
        BY <1>1, PlaceStep, ReportStep, WantStep, FlightStep
    <2>2. PlaceInv(q)' /\ WantInv(q)'
        BY <2>i, <2>s DEF Same, PlaceInv, WantInv, Held
    <2>3. ReportInv(q)'
        BY <2>i, <2>s DEF Same, ReportInv, Ahead
    <2>4. Units(wire'[p]) \subseteq Units(wire[p])
        BY <1>1, OwnReads, HeldSame
    <2>5. FlightInv(q, p)'
        BY <2>i, <2>s, <2>4 DEF Same, FlightInv
    <2>6. StatInv(p, q)' /\ StatInv(q, p)'
        <3>1. CASE BeginAddOut(p) \/ EndAddOut(p)
            BY <2>i, <3>1, HeldSame DEF StatInv, Alive
        <3> QED
            BY <1>1, <2>p, <3>1, SenderStatStep, ReceiverStatStep
    <2> QED
        BY <2>p, <2>1, <2>2, <2>3, <2>5, <2>6, OtherPeer DEF MailInv
<1>2. CASE LinkFailure
    <2>1. /\ UNCHANGED <<out, writing, sent, inbox, torn, pc, props, todo, acc, rej, result,
                         statSent, statReceived, unread>>
          /\ \A p \in Peer : Units(wire'[p]) \subseteq Units(wire[p])
        BY <1>2, LinkUnits DEF LinkFailure
    <2>2. ASSUME NEW p \in Peer, NEW q \in Peer, PlaceInv(p), ReportInv(p), WantInv(p)
          PROVE  PlaceInv(p)' /\ ReportInv(p)' /\ WantInv(p)'
        BY <2>1, <2>2 DEF PlaceInv, ReportInv, Ahead, WantInv, Held
    <2>3. ASSUME NEW p \in Peer, NEW q \in Peer, FlightInv(p, q), StatInv(p, q)
          PROVE  FlightInv(p, q)' /\ StatInv(p, q)'
        BY <2>1, <2>3 DEF FlightInv, StatInv, Alive
    <2> QED
        BY <2>2, <2>3, OtherPeer DEF MailInv
<1>3. CASE Connect
    <2> SUFFICES ASSUME NEW p \in Peer, NEW q \in Peer, PlaceInv(p), ReportInv(p), PairInv(p, q)
                 PROVE  /\ PlaceInv(p)' /\ ReportInv(p)' /\ WantInv(p)'
                        /\ FlightInv(p, q)' /\ StatInv(p, q)'
        BY OtherPeer DEF MailInv, ProtocolInv
    <2>1. /\ pc[p] = "idle" /\ pc'[p] = "start" /\ wire'[q] = <<>> /\ result'[p] = "none"
          /\ statSent'[p] = {} /\ statReceived'[q] = {}
          /\ UNCHANGED <<out, writing, sent, acc, rej>>
        BY <1>3 DEF Connect
    <2>2. PlaceInv(p)' /\ ReportInv(p)' /\ WantInv(p)'
        BY <2>1 DEF PlaceInv, ReportInv, Ahead, WantInv
    <2>3. FlightInv(p, q)' /\ StatInv(p, q)'
        BY <2>1, UnitsEmpty DEF FlightInv, StatInv
    <2> QED
        BY <2>2, <2>3
<1>4. CASE UNCHANGED vars
    BY <1>4 DEF vars, MailInv, PlaceInv, ReportInv, Ahead, WantInv, Held, FlightInv, StatInv, Alive
<1>5. ASSUME NEW p \in Peer, OpenFails(p) PROVE MailInv'
    <2>1. /\ UNCHANGED <<out, writing, sent, inbox, torn, pc, props, todo, acc, rej, result,
                         statSent, statReceived, wire>>
          /\ \A r \in Peer : unread[r] \subseteq unread'[r]
        BY <1>5 DEF OpenFails, TypeOK
    <2>2. \A r \in Peer : WantInv(r) => WantInv(r)'
        BY <2>1 DEF WantInv, Held
    <2>3. \A r \in Peer : PlaceInv(r) /\ ReportInv(r) => PlaceInv(r)' /\ ReportInv(r)'
        BY <2>1 DEF PlaceInv, ReportInv, Ahead
    <2>4. \A r, q \in Peer : FlightInv(r, q) /\ StatInv(r, q) => FlightInv(r, q)' /\ StatInv(r, q)'
        BY <2>1 DEF FlightInv, StatInv, Alive
    <2> QED
        BY <2>2, <2>3, <2>4, OtherPeer DEF MailInv
<1> QED
    BY <1>1, <1>2, <1>3, <1>4, <1>5 DEF Next, FaultStep

LEMMA MailInit ==
    ASSUME Init
    PROVE  MailInv
<1> SUFFICES ASSUME NEW p \in Peer, NEW q \in Peer
             PROVE  /\ PlaceInv(p) /\ ReportInv(p) /\ WantInv(p)
                    /\ FlightInv(p, q) /\ StatInv(p, q)
    BY OtherPeer DEF MailInv
<1>1. /\ pc[p] = "idle" /\ wire[q] = <<>> /\ result[p] = "none"
      /\ acc[p] = {} /\ rej[p] = {} /\ statSent[p] = {} /\ statReceived[q] = {}
      /\ writing[p] = {} /\ sent[p] = {} /\ out[p] = {m \in Composed : Origin[m] = p}
    BY DEF Init
<1>2. PlaceInv(p) /\ ReportInv(p) /\ WantInv(p)
    BY <1>1 DEF PlaceInv, ReportInv, Ahead, WantInv
<1>3. FlightInv(p, q) /\ StatInv(p, q)
    BY <1>1, UnitsEmpty DEF FlightInv, StatInv, Alive
<1> QED
    BY <1>2, <1>3

(* The outbox, the maps of sent messages, what is in flight and the reports  *)
(* of the two ends stay consistent through every failure.                    *)
THEOREM MailInvariant == Spec => []MailInv
<1>1. Init => MailInv
    BY MailInit
<1>2. TypeOK /\ TypeOK' /\ ProtocolInv /\ MailInv /\ [Next]_vars => MailInv'
    BY MailStep
<1> QED
    BY <1>1, <1>2, TypeCorrect, ProtocolInvariant, PTL DEF Spec

(* DirHandler.SetSent never meets a message that is not in /out/, which      *)
(* would end the process: what sendOutbound is going to report is there.     *)
THEOREM ReportedIsInOutbox == Spec => []RenameHasSource
<1>1. MailInv => RenameHasSource
    BY DEF MailInv, ReportInv, RenameHasSource
<1> QED
    BY <1>1, MailInvariant, PTL

(* TrafficStats: what one end counts as sent the other counts as received,   *)
(* and after two clean returns the two reports are the same.                 *)
THEOREM ReportsAgree == Spec => []StatsAgree
<1>1. MailInv /\ ProtocolInv => StatsAgree
    <2> SUFFICES ASSUME MailInv, ProtocolInv, NEW p \in Peer
                 PROVE  /\ statSent[p] \subseteq statReceived[Other(p)]
                        /\ result[p] = "ok" => statReceived[Other(p)] \subseteq statSent[p]
        BY DEF StatsAgree
    <2>1. StatInv(p, Other(p)) /\ FrameInv(p)
        BY DEF MailInv, ProtocolInv, PairInv
    <2> QED
        BY <2>1 DEF StatInv, FrameInv, Alive
<1> QED
    BY <1>1, MailInvariant, ProtocolInvariant, PTL

(* GetInboundAnswer rejects what it finds in /in/, and so no message that    *)
(* the remote has is ever transmitted to it again while its file can be      *)
(* opened, through every broken session and every order of failures.         *)
THEOREM NothingTwice == Spec => []NoRedundantTransfer
<1>1. ASSUME TypeOK, MailInv, ProtocolInv PROVE NoRedundantTransfer
    <2> SUFFICES ASSUME NEW p \in Peer, NEW k \in DOMAIN wire[p], wire[p][k].type = "data"
                 PROVE  wire[p][k].mid \notin inbox[p] \ unread[p]
        BY DEF NoRedundantTransfer
    <2>1. DataInv(p) /\ WantInv(p) /\ IsData(wire[p], k)
        BY <1>1 DEF MailInv, ProtocolInv, PairInv, IsData
    <2>2. pc[p] = "receive" /\ \E j \in todo[p] : props[p][j] = wire[p][k].mid
        BY <2>1 DEF DataInv, InOrder
    <2> QED
        BY <2>1, <2>2 DEF WantInv, Held
<1>2. TypeOK /\ MailInv /\ ProtocolInv => NoRedundantTransfer
    BY <1>1
<1> QED
    BY <1>2, TypeCorrect, MailInvariant, ProtocolInvariant, PTL

(***************************************************************************)
(* The exchange implements Custody.                                        *)
(***************************************************************************)
Pending == out["a"] \cup out["b"]
OnDisk == {m \in Mid : m \in inbox[Other(Origin[m])]}
Released == sent["a"] \cup sent["b"]

(* SetSent is the release of a message that the remote has stored. *)
LEMMA SetSentReleases ==
    ASSUME TypeOK, MailInv, NEW p \in Peer, NEW m \in out[p], m \in inbox[Other(p)],
           SetSent(p, m), inbox' = inbox
    PROVE  /\ m \in Mid /\ m \in Pending \cap OnDisk
           /\ Pending' = Pending \ {m} /\ Released' = Released \cup {m} /\ OnDisk' = OnDisk
<1> DEFINE q == Other(p)
<1>p. /\ q \in Peer /\ q # p
      /\ \A f : f["a"] \cup f["b"] = f[p] \cup f[q]
    BY OtherPeer DEF Peer, Other
<1>1. m \in Mid /\ Origin[m] = p /\ m \notin out[q]
    BY <1>p DEF MailInv, PlaceInv, TypeOK
<1>2. /\ out'[p] = out[p] \ {m} /\ sent'[p] = sent[p] \cup {m}
      /\ out'[q] = out[q] /\ sent'[q] = sent[q]
    BY <1>p DEF SetSent, TypeOK
<1>3. /\ Pending = out[p] \cup out[q] /\ Pending' = out'[p] \cup out'[q]
      /\ Released = sent[p] \cup sent[q] /\ Released' = sent'[p] \cup sent'[q]
    BY <1>p DEF Pending, Released
<1>4. m \in OnDisk /\ OnDisk' = OnDisk
    BY <1>1 DEF OnDisk
<1> QED
    BY <1>1, <1>2, <1>3, <1>4

(* ProcessInbound is the only step that stores, and it stores what the      *)
(* sender still keeps; a message accepted again replaces its own file.      *)
LEMMA ReceiveStores ==
    ASSUME TypeOK, ProtocolInv, MailInv, NEW p \in Peer, ReceiveMessage(p)
    PROVE  /\ Pending' = Pending /\ Released' = Released
           /\ \E m \in Mid : m \in Pending /\ OnDisk' = OnDisk \cup {m}
<1> DEFINE q == Other(p)
<1>p. q \in Peer /\ q # p /\ Other(q) = p /\ \A f : f["a"] \cup f["b"] = f[p] \cup f[q]
    BY OtherPeer DEF Peer, Other
<1>1. PICK i \in todo[p] :
         /\ pc[p] = "receive"
         /\ \E u \in Units(wire[p]) : u.type = "data" /\ u.mid = props[p][i]
         /\ inbox'[p] = inbox[p] \cup {props[p][i]}
    BY ReceiveFacts
<1> DEFINE m == props[p][i]
<1>2. m \in out[q]
    BY <1>1, <1>p DEF MailInv, FlightInv
<1>3. m \in Mid /\ Origin[m] = q
    BY <1>2, <1>p DEF MailInv, PlaceInv, TypeOK
<1> HIDE DEF m
<1>4. inbox'[p] = inbox[p] \cup {m} /\ inbox'[q] = inbox[q] /\ out' = out /\ sent' = sent
    BY <1>1, <1>p DEF ReceiveMessage, TypeOK, m
<1>5. \A n \in Mid : Other(Origin[n]) \in {p, q} /\ (Other(Origin[n]) = p <=> Origin[n] = q)
    BY OriginAssumption, <1>p, OtherPeer
<1>6. ASSUME NEW n \in Mid PROVE n \in OnDisk' <=> n \in OnDisk \/ n = m
    <2>1. CASE Origin[n] = q
        BY <1>3, <1>4, <1>5, <1>p, <2>1 DEF OnDisk
    <2>2. CASE Origin[n] # q
        BY <1>3, <1>4, <1>5, <1>p, <2>2 DEF OnDisk
    <2> QED
        BY <2>1, <2>2
<1>7. OnDisk' = OnDisk \cup {m}
    BY <1>3, <1>6 DEF OnDisk
<1>8. m \in Pending
    BY <1>2, <1>p DEF Pending
<1>9. Pending' = Pending /\ Released' = Released
    BY <1>4 DEF Pending, Released
<1> QED
    BY <1>3, <1>7, <1>8, <1>9

LEMMA ComposeAppears ==
    ASSUME TypeOK, MailInv, NEW p \in Peer, EndAddOut(p)
    PROVE  \E m \in Mid : /\ m \notin Pending \cup Released /\ Pending' = Pending \cup {m}
                          /\ OnDisk' = OnDisk /\ Released' = Released
<1> DEFINE q == Other(p)
<1>p. q \in Peer /\ q # p /\ \A f : f["a"] \cup f["b"] = f[p] \cup f[q]
    BY OtherPeer DEF Peer, Other
<1>1. PICK m \in writing[p] : out' = [out EXCEPT ![p] = @ \cup {m}]
    BY DEF EndAddOut
<1>2. /\ m \in Mid /\ out'[p] = out[p] \cup {m} /\ out'[q] = out[q]
      /\ UNCHANGED <<sent, inbox>>
    BY <1>1, <1>p DEF EndAddOut, TypeOK
<1>3. m \notin out[p] \cup sent[p] /\ Origin[m] = p
    BY <1>1 DEF MailInv, PlaceInv
<1>4. m \notin out[q] \cup sent[q]
    BY <1>3, <1>p DEF MailInv, PlaceInv
<1>5. /\ Pending = out[p] \cup out[q] /\ Pending' = out'[p] \cup out'[q]
      /\ Released = sent[p] \cup sent[q]
    BY <1>p DEF Pending, Released
<1>6. OnDisk' = OnDisk /\ Released' = Released
    BY <1>2 DEF OnDisk, Released
<1> QED
    BY <1>2, <1>3, <1>4, <1>5, <1>6

(* Every step composes, stores or releases one message, or none. *)
LEMMA CustodyStep ==
    ASSUME TypeOK, ProtocolInv, MailInv, Whole, ~TornWrites, [Next]_vars
    PROVE  [Abstract!Next]_(Abstract!custodyVars)
<1> USE DEF mailbox
<1>d. /\ Abstract!Next <=> \E m \in Mid :
            \/ Abstract!Compose(m) \/ Abstract!Store(m) \/ Abstract!Release(m)
      /\ \A m : Abstract!Compose(m) <=> /\ m \notin Pending \cup Released
                                       /\ Pending' = Pending \cup {m}
                                       /\ OnDisk' = OnDisk /\ Released' = Released
      /\ \A m : Abstract!Store(m) <=> /\ m \in Pending \ OnDisk /\ OnDisk' = OnDisk \cup {m}
                                     /\ Pending' = Pending /\ Released' = Released
      /\ \A m : Abstract!Release(m) <=> /\ m \in Pending \cap OnDisk
                                       /\ Pending' = Pending \ {m}
                                       /\ Released' = Released \cup {m} /\ OnDisk' = OnDisk
    BY DEF Abstract!Next, Abstract!Compose, Abstract!Store, Abstract!Release,
           Pending, OnDisk, Released
<1>s. ASSUME UNCHANGED <<out, sent, inbox>> PROVE UNCHANGED Abstract!custodyVars
    BY <1>s DEF Abstract!custodyVars
<1>1. CASE UNCHANGED mailbox \/ \E p \in Peer : BeginAddOut(p)
    BY <1>1, <1>s DEF BeginAddOut
<1>2. CASE \E p \in Peer : EndAddOut(p)
    BY <1>2, <1>d, ComposeAppears
<1>3. ASSUME NEW p \in Peer, ReceiveMessage(p)
      PROVE  Abstract!Next \/ UNCHANGED Abstract!custodyVars
    <2>1. /\ Pending' = Pending /\ Released' = Released
          /\ \E m \in Mid : m \in Pending /\ OnDisk' = OnDisk \cup {m}
        BY <1>3, ReceiveStores
    <2>2. PICK m \in Mid : m \in Pending /\ OnDisk' = OnDisk \cup {m}
        BY <2>1
    <2>3. CASE m \in OnDisk
        <3>1. OnDisk' = OnDisk
            BY <2>2, <2>3
        <3> QED
            BY <2>1, <3>1 DEF Abstract!custodyVars, Pending, OnDisk, Released
    <2>4. CASE m \notin OnDisk
        <3>1. Abstract!Store(m)
            BY <1>d, <2>1, <2>2, <2>4
        <3> QED
            BY <1>d, <3>1
    <2> QED
        BY <2>3, <2>4
<1>4. ASSUME NEW p \in Peer, ReportRejected(p) \/ ReportSent(p)
      PROVE  Abstract!Next
    <2>1. PICK m \in acc[p] \cup rej[p] : SetSent(p, m) /\ inbox' = inbox
                /\ (m \in rej[p] \/ pc[p] = "mark")
        BY <1>4 DEF ReportRejected, ReportSent
    <2>2. m \in Held(Other(p)) /\ m \in out[p]
        BY <2>1 DEF ProtocolInv, PairInv, OwedInv, Stored, MailInv, ReportInv
    <2>3. m \in inbox[Other(p)]
        BY <2>2, OtherPeer DEF Held, Whole
    <2> QED
        BY <1>d, <2>1, <2>2, <2>3, SetSentReleases
<1>5. ASSUME NEW p \in Peer PROVE ~Tear(p)
    BY DEF Tear
<1> QED
    BY <1>1, <1>2, <1>3, <1>4, <1>5, MailboxFrame

(* When a failed write leaves no file behind, the two sessions with their    *)
(* crashes, link failures and retries implement Custody: no step loses a     *)
(* message, makes two of it or gives it up before the remote has stored it.  *)
THEOREM Refinement ==
    ASSUME ~TornWrites
    PROVE  Spec => ImplementsCustody
<1>1. Init => Abstract!Init
    <2> SUFFICES ASSUME Init PROVE Abstract!Init
        OBVIOUS
    <2>1. out["a"] \cup out["b"] = Composed
        BY OriginAssumption, SetsAssumption DEF Init, Peer
    <2>2. {m \in Mid : m \in inbox[Other(Origin[m])]} = {} /\ sent["a"] \cup sent["b"] = {}
        BY OriginAssumption, OtherPeer DEF Init, Peer
    <2> QED
        BY <2>1, <2>2 DEF Abstract!Init
<1>2. TypeOK /\ ProtocolInv /\ MailInv /\ Whole /\ [Next]_vars
      => [Abstract!Next]_(Abstract!custodyVars)
    BY CustodyStep
<1> QED
    BY <1>1, <1>2, TypeCorrect, ProtocolInvariant, MailInvariant, NothingTorn, PTL
       DEF Spec, ImplementsCustody, Abstract!Spec
=============================================================================
