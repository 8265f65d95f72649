--------------------------- MODULE B2FSessionProofs ----------------------------
(***************************************************************************)
(* How a session goes when no message is composed beside it: one peer has  *)
(* the turn, a clean end leaves nothing behind, and an error has a cause.  *)
(***************************************************************************)
EXTENDS B2FMailProofs

(* The steps of the goroutine that runs p's Exchange, and of what ends it. *)
Own(p) == SessionStep(p) \/ PrepareFails(p) \/ ReceiveFails(p) \/ Crash(p)

(* What such a step may do to p. *)
Moves(p) ==
    /\ Alive(p) /\ pc'[p] # "start"
    /\ out'[p] \subseteq out[p] /\ out[p] \cup sent[p] \subseteq out'[p] \cup sent'[p]
    /\ writing'[p] = writing[p]
    /\ pc[p] # "start" => deferred[p] \subseteq deferred'[p]
    /\ due'[p] = due[p] \/ due'[p] = out[p] \cap Addressed
    /\ pc'[p] = "propose" => CheckOutbound(p)
    /\ pc'[p] = "answer" => Propose(p)
    /\ remoteNoMsgs'[p] => remoteNoMsgs[p] \/ ReadNoMore(p) \/ ReadQuit(p)
    /\ result'[p] = "ok" => result[p] = "ok" \/ Quit(p) \/ ReadQuit(p)

LEMMA OwnMoves ==
    ASSUME TypeOK, TypeOK', ProtocolInv, NEW p \in Peer, Own(p)
    PROVE  Moves(p)
<1> USE DEF mailbox, frame, stats, history, Moves, Alive, Goto
<1>1. CASE HandshakeStep(p)
    BY <1>1 DEF HandshakeStep, Start, SlaveHandshake, MasterHandshake, SkipErrorLine, TypeOK
<1>2. CASE CheckOutbound(p) \/ Propose(p) \/ Confirmed(p) \/ EndTurn(p)
    BY <1>2 DEF CheckOutbound, Propose, Confirmed, EndTurn, TypeOK
<1>3. CASE ReadAnswer(p)
    <2>1. /\ pc[p] = "answer" /\ pc'[p] = "send"
          /\ UNCHANGED <<mailbox, remoteNoMsgs, result, history>>
        BY <1>3 DEF ReadAnswer, TypeOK
    <2>2. deferred[p] \subseteq deferred'[p]
        BY <1>3 DEF ReadAnswer, TypeOK
    <2> QED
        BY <2>1, <2>2
<1>4. CASE WriteMessage(p) \/ ProposeMore(p) \/ Turnover(p)
    BY <1>4 DEF WriteMessage, ProposeMore, Turnover, BlockSent, TypeOK
<1>5. CASE ReportRejected(p) \/ ReportSent(p)
    <2>1. PICK m : SetSent(p, m)
        BY <1>5 DEF ReportRejected, ReportSent
    <2>2. out'[p] = out[p] \ {m} /\ sent'[p] = sent[p] \cup {m}
        BY <2>1 DEF SetSent, TypeOK
    <2>3. /\ pc[p] \in {"send", "mark"} /\ UNCHANGED <<pc, writing, deferred, remoteNoMsgs,
                                                      result, history>>
        BY <1>5 DEF ReportRejected, BlockSent, ReportSent
    <2> QED
        BY <2>2, <2>3
<1>6. CASE ReadEmptyBlock(p) \/ ReadNoMore(p) \/ ReadQuit(p)
    <2>1. CASE ReadEmptyBlock(p)
        BY <2>1 DEF ReadEmptyBlock, TypeOK
    <2>2. CASE ReadNoMore(p)
        BY <2>2 DEF ReadNoMore, TypeOK
    <2>3. CASE ReadQuit(p)
        BY <2>3 DEF ReadQuit, Return, TypeOK
    <2> QED
        BY <1>6, <2>1, <2>2, <2>3
<1>7. CASE ReadBlock(p)
    BY <1>7, ReadBlockFacts
<1>8. CASE ReceiveMessage(p)
    <2>1. pc[p] = "receive"
        BY <1>8 DEF ReceiveMessage, ReadCompressed
    <2>2. UNCHANGED <<out, writing, sent, deferred, remoteNoMsgs, result, history>>
        BY <1>8 DEF ReceiveMessage
    <2>3. pc'[p] \in {"receive", "outbound"}
        BY <1>8, <2>1 DEF ReceiveMessage, TypeOK
    <2> QED
        BY <2>1, <2>2, <2>3
<1>9. CASE Quit(p)
    BY <1>9 DEF Quit, BlockSent, Return, TypeOK
<1>10. CASE FailureStep(p) \/ PrepareFails(p) \/ ReceiveFails(p) \/ Crash(p)
    <2>1. /\ UNCHANGED <<out, writing, sent, remoteNoMsgs, due>>
          /\ \E r \in {"error", "lost", "crashed"} : \E w : Return(p, r, w)
          /\ deferred' = deferred \/ pc[p] = "start"
        BY <1>10 DEF FailureStep, WriteFails, ProtocolError, ConnLost, PrepareFails,
                    ReceiveFails, Crash
    <2>2. Alive(p)
        <3>1. wire[p] # <<>> => pc[p] # "idle"
            BY DEF ProtocolInv, PairInv, FrameInv
        <3> QED
            BY <1>10, <3>1 DEF FailureStep, WriteFails, ProtocolError, Unexpected, ConnLost,
                    PrepareFails, ReceiveFails, ReadCompressed, Crash
    <2> QED
        BY <2>1, <2>2, Returned
<1> QED
    BY <1>1, <1>2, <1>3, <1>4, <1>5, <1>6, <1>7, <1>8, <1>9, <1>10
       DEF Own, SessionStep, OutboundStep, InboundStep

(* outbound() returns nothing exactly when p is drained. *)
LEMMA DrainedOutbound ==
    ASSUME NEW p \in Peer, writing[p] = {}
    PROVE  Drained(p) <=> Outbound(p) = {}
BY DEF Drained, Outbound, LoadOutbox

LEMMA LoadStep ==
    ASSUME TypeOK, TypeOK', ProtocolInv, NEW p \in Peer, LoadInv(p), Own(p)
    PROVE  LoadInv(p)'
<1>m. Moves(p)
    BY OwnMoves
<1>1. /\ writing'[p] = {}
      /\ \A m \in Mid : Origin[m] = p => m \in out'[p] \cup sent'[p]
      /\ due'[p] \subseteq Addressed
    BY <1>m DEF Moves, LoadInv
<1>2. ASSUME pc'[p] = "propose" PROVE ~Drained(p)'
    <2>1. CheckOutbound(p)
        BY <1>2, <1>m DEF Moves
    <2>2. Outbound(p) # {} /\ out' = out /\ deferred' = deferred
        BY <1>2, <2>1 DEF CheckOutbound, Goto, TypeOK, mailbox
    <2>3. ~Drained(p)
        BY <2>2, DrainedOutbound DEF LoadInv
    <2> QED
        BY <2>2, <2>3 DEF Drained
<1>3. ASSUME pc'[p] = "answer" PROVE props'[p] # <<>>
    <2>1. Propose(p) /\ pc[p] = "propose"
        BY <1>3, <1>m DEF Moves, Propose
    <2>2. Outbound(p) # {}
        BY <2>1, DrainedOutbound DEF LoadInv
    <2>3. PICK n \in Nat : \E b \in [1..n -> Outbound(p)] : props'[p] = b /\ n # 0
        BY <2>1, <2>2, ProposedBlock
    <2>4. DOMAIN props'[p] = 1..n
        BY <2>3
    <2>5. DOMAIN props'[p] # {}
        BY <2>3, <2>4
    <2> QED
        BY <2>5
<1> QED
    BY <1>1, <1>2, <1>3 DEF LoadInv

(* What p's step adds to q's wire, if anything. *)
LEMMA WrittenUnits ==
    ASSUME TypeOK, TypeOK', NEW p \in Peer, Own(p)
    PROVE  \A u \in Units(wire'[Other(p)]) : u \in Units(wire[Other(p)]) \/ Writes(p, u)
<1> DEFINE q == Other(p)
<1>1. Grows(p, q)
    BY OwnWrites DEF Own
<1>2. wire[q] \in Seq(Unit)
    BY OtherPeer DEF TypeOK
<1>3. ASSUME NEW v \in Unit, wire'[q] = Append(wire[q], v), Writes(p, v)
      PROVE  \A u \in Units(wire'[q]) : u \in Units(wire[q]) \/ Writes(p, u)
    <2>1. Units(wire'[q]) = Units(wire[q]) \cup {v}
        BY <1>2, <1>3, UnitsAppend
    <2> QED
        BY <1>3, <2>1
<1> QED
    BY <1>1, <1>3 DEF Grows

(* FF and FQ are written, and a session returns, only when it is drained. *)
LEMMA SenderDrains ==
    ASSUME TypeOK, TypeOK', ProtocolInv, NEW p \in Peer, LoadInv(p), DrainInv(p, Other(p)), Own(p)
    PROVE  DrainInv(p, Other(p))'
<1> DEFINE q == Other(p)
<1>p. q \in Peer /\ q # p /\ wire[p] \in Seq(Unit)
    BY OtherPeer DEF TypeOK
<1>m. Moves(p)
    BY OwnMoves
<1>s. remoteNoMsgs'[q] = remoteNoMsgs[q]
    BY <1>p, OthersSame DEF Own, Same
<1>1. ASSUME Drained(p), pc[p] # "start" PROVE DrainInv(p, q)'
    BY <1>1, <1>m DEF Moves, Drained, DrainInv
<1>2. ASSUME Outbound(p) = {}, pc[p] # "start" PROVE DrainInv(p, q)'
    BY <1>1, <1>2, DrainedOutbound DEF LoadInv
<1>3. CASE Quit(p) \/ (Turnover(p) /\ AfterBlock(p) = "FF")
    <2>1. Outbound(p) = {} /\ pc[p] = "send"
        BY <1>3 DEF Quit, Turnover, AfterBlock, BlockSent
    <2> QED
        BY <1>2, <2>1
<1>4. CASE ReadQuit(p)
    <2>1. \E u \in Units(wire[p]) : u.type = "FQ"
        BY <1>4, <1>p, UnitsTail DEF ReadQuit, Receives
    <2> QED
        BY <1>1, <2>1 DEF DrainInv
<1>5. CASE ~(Quit(p) \/ ReadQuit(p) \/ (Turnover(p) /\ AfterBlock(p) = "FF"))
    <2>1. \A u \in Units(wire'[q]) : u.type \in {"FF", "FQ"} => u \in Units(wire[q])
        BY <1>5, WrittenUnits DEF Writes
    <2>2. Units(wire'[p]) \subseteq Units(wire[p])
        BY OwnReads DEF Own
    <2>3. result'[p] = "ok" => result[p] = "ok"
        BY <1>5, <1>m DEF Moves
    <2> QED
        BY <1>1, <1>s, <2>1, <2>2, <2>3 DEF DrainInv
<1> QED
    BY <1>3, <1>4, <1>5

(* p learns that q is drained only from what q has written. *)
LEMMA ReceiverDrains ==
    ASSUME TypeOK, TypeOK', ProtocolInv, NEW q \in Peer, DrainInv(Other(q), q), Own(q)
    PROVE  DrainInv(Other(q), q)'
<1> DEFINE p == Other(q)
<1>p. p \in Peer /\ q # p /\ wire[q] \in Seq(Unit) /\ Other(p) = q
    BY OtherPeer DEF TypeOK
<1>m. Moves(q)
    BY OwnMoves
<1>s. Same(p)
    BY <1>p, OthersSame DEF Own
<1>1. ASSUME Drained(p), pc[p] # "start" PROVE DrainInv(p, q)'
    BY <1>1, <1>s DEF Same, Drained, DrainInv
<1>2. CASE ReadNoMore(q) \/ ReadQuit(q)
    <2>1. \E u \in Units(wire[q]) : u.type \in {"FF", "FQ"}
        BY <1>2, <1>p, UnitsTail DEF ReadNoMore, ReadQuit, Receives
    <2> QED
        BY <1>1, <2>1 DEF DrainInv
<1>3. CASE Quit(q)
    <2>1. remoteNoMsgs[q]
        BY <1>3 DEF Quit, AfterBlock
    <2> QED
        BY <1>1, <2>1 DEF DrainInv
<1>4. CASE ~(ReadNoMore(q) \/ ReadQuit(q) \/ Quit(q))
    <2>1. \A u \in Units(wire'[p]) : u.type = "FQ" => u \in Units(wire[p])
        BY <1>4, WrittenUnits DEF Writes
    <2>2. Units(wire'[q]) \subseteq Units(wire[q])
        BY OwnReads DEF Own
    <2>3. remoteNoMsgs'[q] => remoteNoMsgs[q]
        BY <1>4, <1>m DEF Moves
    <2> QED
        BY <1>1, <1>s, <2>1, <2>2, <2>3 DEF DrainInv, Same
<1> QED
    BY <1>2, <1>3, <1>4

(***************************************************************************)
(* While p waits for an answer.                                            *)
(***************************************************************************)

(* p proposes to a remote that listens, and that is not itself waiting. *)
LEMMA ProposerWaits ==
    ASSUME TypeOK, TypeOK', ProtocolInv, NEW p \in Peer, WaitInv(Other(p), p), Own(p)
    PROVE  WaitInv(p, Other(p))'
<1> DEFINE q == Other(p)
<1>p. q \in Peer /\ q # p /\ Other(q) = p
    BY OtherPeer
<1> SUFFICES ASSUME pc'[p] = "answer", Alive(q)'
             PROVE  WaitInv(p, q)'
    BY DEF WaitInv
<1>1. Propose(p) /\ pc[p] = "propose"
    BY OwnMoves DEF Moves, Propose
<1>2. Same(q) /\ master' = master
    BY <1>p, OthersSame DEF Own
<1>3. Alive(q) /\ Alive(p)
    BY <1>1, <1>2 DEF Same, Alive
<1>4. wire[p] = <<>> /\ Listening(q)
    BY <1>p, <1>1, <1>3 DEF ProtocolInv, PairInv, TurnInv
<1>5. pc[q] # "answer"
    BY <1>1, <1>3 DEF WaitInv
<1>6. \A u \in Units(wire'[p]) : FALSE
    BY <1>4, OwnReads, UnitsEmpty DEF Own
<1> QED
    BY <1>2, <1>4, <1>5, <1>6 DEF WaitInv, Listening, Same

(* q reads the block, or still has to, and writes only the answer. *)
LEMMA AnswererAttends ==
    ASSUME TypeOK, TypeOK', ProtocolInv, NEW q \in Peer, LoadInv(Other(q)),
           WaitInv(Other(q), q), Own(q)
    PROVE  WaitInv(Other(q), q)'
<1> USE DEF mailbox, frame, stats, history
<1> DEFINE p == Other(q)
<1>p. p \in Peer /\ q # p /\ Other(p) = q
    BY OtherPeer
<1>s. Same(p) /\ master' = master
    BY <1>p, OthersSame DEF Own
<1> SUFFICES ASSUME pc[p] = "answer", Alive(q)' PROVE WaitInv(p, q)'
    BY <1>s DEF WaitInv, Same
<1>m. Alive(q)
    BY OwnMoves DEF Moves
<1>i. /\ \/ pc[q] \in {"confirm", "mark", "inbound", "receive"}
         \/ pc[q] = "send" /\ todo[q] = {} /\ acc[q] # {}
         \/ pc[q] = "handshake" /\ q = master
      /\ \A u \in Units(wire[p]) : u.type = "FS"
    BY <1>m DEF WaitInv
<1>h. ASSUME wire[q] # <<>>
      PROVE  /\ Head(wire[q]).type \in {"handshake", "F>", "FS"}
             /\ Head(wire[q]).type = "F>" => Head(wire[q]).block # <<>>
    <2>1. Head(wire[q]) \in Units(wire[q])
        BY <1>h, UnitsTail DEF TypeOK
    <2>2. Alive(p) /\ props[p] # <<>>
        BY DEF Alive, LoadInv
    <2> QED
        BY <2>1, <2>2, UnitFacts
<1>1. ASSUME NEW u, Writes(q, u) PROVE u.type = "FS"
    <2>1. Start(q) => pc[q] = "start"
        BY DEF Start
    <2>2. SlaveHandshake(q) => pc[q] = "handshake" /\ q # master
        BY DEF SlaveHandshake
    <2>3. Propose(q) => pc[q] = "propose"
        BY DEF Propose
    <2>4. (Turnover(q) /\ AfterBlock(q) = "FF") \/ Quit(q) => pc[q] = "send" /\ acc[q] = {}
        BY DEF Turnover, Quit, BlockSent, AfterBlock
    <2>5. WriteMessage(q) => pc[q] = "send" /\ todo[q] # {}
        BY DEF WriteMessage
    <2> QED
        BY <1>1, <1>i, <2>1, <2>2, <2>3, <2>4, <2>5 DEF Writes, Alive
<1>2. \A u \in Units(wire'[p]) : u.type = "FS"
    BY <1>i, <1>1, WrittenUnits
<1>3. \/ pc'[q] \in {"confirm", "mark", "inbound", "receive"}
      \/ pc'[q] = "send" /\ todo'[q] = {} /\ acc'[q] # {}
      \/ pc'[q] = "handshake" /\ q = master
    <2>1. CASE HandshakeStep(q)
        BY <2>1, <1>i DEF HandshakeStep, Start, SlaveHandshake, MasterHandshake, SkipErrorLine,
                          Goto, TypeOK
    <2>2. CASE OutboundStep(q)
        <3>1. Confirmed(q) \/ ReportSent(q) \/ EndTurn(q) \/ ReportRejected(q) \/ Turnover(q)
            BY <2>2, <1>i DEF OutboundStep, CheckOutbound, Propose, ReadAnswer, WriteMessage,
                              ProposeMore, Quit, AfterBlock, BlockSent
        <3> QED
            BY <3>1, <1>i DEF Confirmed, ReportSent, EndTurn, ReportRejected, Turnover, BlockSent,
                              Goto, TypeOK
    <2>3. CASE InboundStep(q)
        <3>1. ReadBlock(q)
            BY <2>3, <1>h, <1>m, <1>s DEF InboundStep, ReadEmptyBlock, ReadNoMore, ReadQuit,
                      ReceiveMessage, ReadCompressed, Receives
        <3> QED
            BY <3>1, ReadBlockFacts
    <2>4. ASSUME NEW r, NEW w, Return(q, r, w) PROVE FALSE
        BY <2>4, Returned DEF Alive
    <2>5. CASE FailureStep(q) \/ PrepareFails(q) \/ ReceiveFails(q) \/ Crash(q)
        BY <2>4, <2>5 DEF FailureStep, WriteFails, ProtocolError, ConnLost, PrepareFails,
                    ReceiveFails, Crash
    <2> QED
        BY <2>1, <2>2, <2>3, <2>5 DEF Own, SessionStep
<1> QED
    BY <1>2, <1>3, <1>s DEF WaitInv

(***************************************************************************)
(* While nothing has failed.                                               *)
(***************************************************************************)
LEMMA BlameFrame ==
    ASSUME NEW p \in Peer
    PROVE  /\ SessionStep(p) => blame' = blame
           /\ PrepareFails(p) \/ ReceiveFails(p) \/ Crash(p) => blame' # {}
<1> USE DEF history
<1>1. HandshakeStep(p) => blame' = blame
    BY DEF HandshakeStep, Start, SlaveHandshake, MasterHandshake, SkipErrorLine
<1>2. OutboundStep(p) => blame' = blame
    BY DEF OutboundStep, CheckOutbound, Propose, ReadAnswer, WriteMessage, ReportRejected,
           ProposeMore, Turnover, Quit, Confirmed, ReportSent, EndTurn
<1>3. ReadBlock(p) => blame' = blame
    BY ZenonT(60) DEF ReadBlock
<1>4. ReadEmptyBlock(p) \/ ReadNoMore(p) \/ ReadQuit(p) \/ ReceiveMessage(p) => blame' = blame
    BY DEF ReadEmptyBlock, ReadNoMore, ReadQuit, ReceiveMessage
<1>5. FailureStep(p) => blame' = blame
    BY DEF FailureStep, WriteFails, ProtocolError, ConnLost
<1>6. PrepareFails(p) \/ ReceiveFails(p) \/ Crash(p) => blame' # {}
    BY DEF PrepareFails, ReceiveFails, Crash, Blame
<1> QED
    BY <1>1, <1>2, <1>3, <1>4, <1>5, <1>6 DEF SessionStep, InboundStep

(* No reader meets a unit that it does not expect, or an end of file. *)
LEMMA NoFailure ==
    ASSUME TypeOK, ProtocolInv, NEW p \in Peer, CauseInv(p, Other(p)), WaitInv(p, Other(p)),
           blame = {}, FailureStep(p)
    PROVE  FALSE
<1> DEFINE q == Other(p)
<1>p. q \in Peer /\ q # p /\ wire[p] \in Seq(Unit)
    BY OtherPeer DEF TypeOK
<1>f. FrameInv(p)
    BY DEF ProtocolInv, PairInv
<1>a. Alive(p)
    BY <1>f DEF FailureStep, WriteFails, ProtocolError, Unexpected, ConnLost, FrameInv, Alive
<1>u. up
    BY <1>a DEF CauseInv
<1>q. ASSUME ~Alive(q)
      PROVE  /\ Listening(p) /\ pc[p] # "answer"
             /\ \E u \in Units(wire[p]) : u.type = "FQ"
             /\ \A u \in Units(wire[p]) : u.type \in {"handshake", "FQ"}
    BY <1>a, <1>q DEF CauseInv
<1>1. CASE WriteFails(p)
    <2>1. ~Alive(q) /\ pc[p] = "send" /\ todo[p] # {}
        BY <1>1, <1>u DEF WriteFails, Reaches, Alive
    <2> QED
        BY <1>q, <2>1 DEF Listening
<1>2. CASE ConnLost(p)
    <2>1. ~Alive(q)
        BY <1>2, <1>u DEF ConnLost, Reaches, Alive
    <2>2. wire[p] # <<>>
        BY <1>q, <2>1, UnitsEmpty
    <2>3. Head(wire[p]).type = "handshake" /\ Len(wire[p]) = 1
        BY <1>2, <2>2 DEF ConnLost, Receives
    <2>4. \A u \in Units(wire[p]) : u = Head(wire[p])
        BY <1>p, <2>2, <2>3, TailFacts DEF Units
    <2> QED
        BY <1>q, <2>1, <2>3, <2>4
<1>3. CASE ProtocolError(p)
    <2> DEFINE u == Head(wire[p])
    <2>0. wire[p] # <<>>
        BY <1>3 DEF ProtocolError, Unexpected
    <2>1. u \in Units(wire[p])
        BY <1>p, <2>0, UnitsTail
    <2>2. \/ pc[p] = "answer" /\ (u.type = "FS" => Len(u.answers) > Len(props[p]))
          \/ pc[p] = "confirm" /\ u.type \notin Confirming
          \/ pc[p] = "inbound" /\ u.type \notin {"F>", "FF", "FQ"}
          \/ pc[p] = "receive" /\ u.type # "data"
        BY <1>3 DEF ProtocolError, Unexpected
    <2>3. /\ u.type = "handshake" => pc[p] \in {"start", "handshake"}
          /\ u.type = "data" => pc[p] = "receive"
          /\ u.type = "FS" => pc[p] = "answer" /\ Len(u.answers) = Len(props[p])
        BY <2>1, UnitFacts
    <2> HIDE DEF u
    <2>4. CASE ~Alive(q)
        BY <1>q, <2>1, <2>2, <2>3, <2>4 DEF Confirming, Listening
    <2>5. CASE Alive(q)
        <3>1. u.type # "handshake" =>
                 /\ u.type \in {"F>", "FF", "FS", "data"}
                 /\ u.type \in {"F>", "FF"} => Listening(p)
            BY <2>1, <2>5, UnitFacts
        <3>2. CASE pc[p] = "answer"
            <4>1. u.type = "FS"
                BY <2>1, <2>5, <3>2 DEF WaitInv
            <4>2. Len(u.answers) > Len(props[p]) /\ Len(u.answers) = Len(props[p])
                BY <2>2, <2>3, <3>2, <4>1
            <4>3. Len(props[p]) \in Nat
                BY DEF TypeOK
            <4> QED
                BY <4>2, <4>3
        <3>3. CASE pc[p] \in {"confirm", "inbound"}
            BY <2>2, <2>3, <3>1, <3>3 DEF Confirming
        <3>4. CASE pc[p] = "receive"
            BY <2>2, <2>3, <3>1, <3>4 DEF Listening
        <3> QED
            BY <2>2, <3>2, <3>3, <3>4
    <2> QED
        BY <2>4, <2>5
<1> QED
    BY <1>1, <1>2, <1>3 DEF FailureStep

(* p goes on after the remote has left: it reads on, up to the FQ. *)
LEMMA LastReader ==
    ASSUME TypeOK, TypeOK', ProtocolInv, NEW p \in Peer, CauseInv(p, Other(p)),
           blame = {}, SessionStep(p), ~FailureStep(p), ~Alive(Other(p)), Alive(p)'
    PROVE  /\ Listening(p)' /\ pc'[p] # "answer"
           /\ \E u \in Units(wire'[p]) : u.type = "FQ"
           /\ \A u \in Units(wire'[p]) : u.type \in {"handshake", "FQ"}
<1> USE DEF mailbox, frame, stats, history
<1>m. Alive(p) /\ wire[p] \in Seq(Unit)
    BY OwnMoves DEF Own, Moves, TypeOK
<1>i. /\ Listening(p) /\ pc[p] # "answer"
      /\ \E u \in Units(wire[p]) : u.type = "FQ"
      /\ \A u \in Units(wire[p]) : u.type \in {"handshake", "FQ"}
    BY <1>m DEF CauseInv
<1>h. wire[p] # <<>> => Head(wire[p]).type \in {"handshake", "FQ"}
    BY <1>m, <1>i, UnitsTail
<1>w. \A u \in Units(wire'[p]) : u.type \in {"handshake", "FQ"}
    BY <1>i, OwnReads
<1>r. ASSUME NEW r, NEW w, Return(p, r, w) PROVE FALSE
    BY <1>r, Returned DEF Alive
<1>1. CASE HandshakeStep(p)
    <2>1. MasterHandshake(p)
        BY <1>1, <1>i, <1>h DEF HandshakeStep, Start, SlaveHandshake, SkipErrorLine, Receives,
                                Listening
    <2>2. /\ pc'[p] = "inbound" /\ wire'[p] = Tail(wire[p]) /\ wire[p] # <<>>
          /\ Head(wire[p]).type = "handshake"
        BY <2>1 DEF MasterHandshake, Goto, Take, Receives, TypeOK
    <2>3. PICK u \in Units(wire[p]) : u.type = "FQ"
        BY <1>i
    <2>4. u \in Units(wire'[p])
        BY <1>m, <2>2, <2>3, UnitsTail
    <2> QED
        BY <1>w, <2>2, <2>3, <2>4 DEF Listening
<1>2. CASE OutboundStep(p)
    <2>1. Confirmed(p) \/ ReportSent(p) \/ EndTurn(p) \/ ReportRejected(p) \/ Turnover(p)
        BY <1>2, <1>i DEF OutboundStep, CheckOutbound, Propose, ReadAnswer, WriteMessage,
                          ProposeMore, Quit, AfterBlock, BlockSent, Listening
    <2>2. wire'[p] = wire[p]
        <3>1. wire \in Wires
            BY DEF TypeOK, Wires
        <3>2. wire' = wire \/ \E u : wire' = Put(wire, p, u)
            BY <2>1 DEF Confirmed, ReportSent, EndTurn, ReportRejected, Turnover
        <3> QED
            BY <3>1, <3>2, PutFacts
    <2>3. /\ pc'[p] # "answer"
          /\ \/ pc'[p] \in {"confirm", "mark", "inbound"}
             \/ pc'[p] = "send" /\ todo'[p] = {} /\ acc'[p] # {}
        BY <2>1, <1>i DEF Confirmed, ReportSent, EndTurn, ReportRejected, Turnover, BlockSent,
                          Goto, TypeOK, Listening
    <2> QED
        BY <1>i, <2>2, <2>3 DEF Listening
<1>3. CASE InboundStep(p)
    <2>1. ReadQuit(p)
        BY <1>3, <1>i, <1>h DEF InboundStep, ReadEmptyBlock, ReadBlock, ReadNoMore,
                  ReceiveMessage, ReadCompressed, Receives
    <2> QED
        BY <1>r, <2>1 DEF ReadQuit
<1> QED
    BY <1>1, <1>2, <1>3 DEF SessionStep

(* When p returns, q listens and finds the FQ, or has left before. *)
LEMMA LastWriter ==
    ASSUME TypeOK, TypeOK', ProtocolInv, NEW p \in Peer, CauseInv(p, Other(p)),
           WaitInv(Other(p), p), blame = {}, SessionStep(p), ~FailureStep(p),
           Alive(Other(p)), ~Alive(p)'
    PROVE  /\ Listening(Other(p))' /\ pc'[Other(p)] # "answer"
           /\ \E u \in Units(wire'[Other(p)]) : u.type = "FQ"
           /\ \A u \in Units(wire'[Other(p)]) : u.type \in {"handshake", "FQ"}
<1> DEFINE q == Other(p)
<1>p. q \in Peer /\ q # p /\ Other(q) = p /\ wire[p] \in Seq(Unit) /\ wire[q] \in Seq(Unit)
    BY OtherPeer DEF TypeOK
<1>m. Alive(p)
    BY OwnMoves DEF Own, Moves
<1>1. Quit(p) \/ ReadQuit(p)
    <2>1. HandshakeStep(p) => pc'[p] # "idle"
        BY DEF HandshakeStep, Start, SlaveHandshake, MasterHandshake, SkipErrorLine, Goto, TypeOK
    <2>2. OutboundStep(p) => pc'[p] # "idle" \/ Quit(p)
        BY DEF OutboundStep, CheckOutbound, Propose, ReadAnswer, WriteMessage, ReportRejected,
               ProposeMore, Turnover, Confirmed, ReportSent, EndTurn, BlockSent, Goto, TypeOK
    <2>3. InboundStep(p) => pc'[p] # "idle" \/ ReadQuit(p)
        <3>1. ReadBlock(p) => pc'[p] # "idle"
            BY ReadBlockFacts
        <3>2. ReadEmptyBlock(p) \/ ReadNoMore(p) => pc'[p] # "idle"
            BY DEF ReadEmptyBlock, ReadNoMore, Goto, TypeOK
        <3>3. ReceiveMessage(p) => pc'[p] # "idle"
            <4>1. ReceiveMessage(p) =>
                    pc[p] = "receive" /\ (pc' = pc \/ pc' = [pc EXCEPT ![p] = "outbound"])
                BY DEF ReceiveMessage, ReadCompressed, Goto
            <4> QED
                BY <4>1 DEF TypeOK
        <3> QED
            BY <3>1, <3>2, <3>3 DEF InboundStep
    <2> QED
        BY <2>1, <2>2, <2>3 DEF SessionStep, Alive
<1>2. ~ReadQuit(p)
    <2> SUFFICES ASSUME ReadQuit(p) PROVE FALSE
        OBVIOUS
    <2>1. wire[p] # <<>> /\ Head(wire[p]).type = "FQ"
        BY DEF ReadQuit, Receives
    <2>2. Head(wire[p]) \in Units(wire[p])
        BY <1>p, <2>1, UnitsTail
    <2> QED
        BY <2>1, <2>2, UnitFacts
<1>3. pc[p] = "send" /\ todo[p] = {} /\ acc[p] = {} /\ Quit(p)
    BY <1>1, <1>2 DEF Quit, BlockSent, AfterBlock
<1>4. wire[p] = <<>> /\ Listening(q)
    BY <1>p, <1>3 DEF ProtocolInv, PairInv, TurnInv
<1>5. pc[q] # "answer"
    BY <1>3, <1>m DEF WaitInv
<1>6. ASSUME NEW u \in Units(wire[q]) PROVE u.type = "handshake"
    BY <1>p, <1>3, <1>m, UnitFacts
<1>7. Same(q) /\ master' = master
    BY <1>p, OthersSame
<1>8. wire'[q] = Append(wire[q], Line("FQ")) /\ Line("FQ") \in Unit /\ Line("FQ").type = "FQ"
    <2>1. Reaches(p)
        BY <1>m DEF CauseInv, Reaches, Alive
    <2>2. wire \in Wires /\ Line("FQ") \in Unit
        BY UnitTypes DEF TypeOK, Wires
    <2>3. Put(wire, p, Line("FQ")) \in Wires
        BY <2>2, PutType
    <2>4. wire'[q] = Put(wire, p, Line("FQ"))[q]
        BY <1>3, <1>p, <2>3 DEF Quit, Return, Wires
    <2> QED
        BY <2>1, <2>2, <2>4, PutFacts DEF Line
<1>9. Units(wire'[q]) = Units(wire[q]) \cup {Line("FQ")}
    BY <1>p, <1>8, UnitsAppend
<1>10. Listening(q)'
    BY <1>4, <1>7 DEF Listening, Same
<1> QED
    BY <1>5, <1>6, <1>7, <1>8, <1>9, <1>10 DEF Same

LEMMA CauseStep ==
    ASSUME TypeOK, TypeOK', ProtocolInv, NEW p \in Peer, CauseInv(p, Other(p)),
           CauseInv(Other(p), p), WaitInv(p, Other(p)), WaitInv(Other(p), p), Own(p)
    PROVE  CauseInv(p, Other(p))' /\ CauseInv(Other(p), p)'
<1> DEFINE q == Other(p)
<1>p. q \in Peer /\ q # p
    BY OtherPeer
<1> SUFFICES ASSUME blame' = {} PROVE CauseInv(p, q)' /\ CauseInv(q, p)'
    BY DEF CauseInv
<1>1. SessionStep(p) /\ blame = {}
    BY BlameFrame DEF Own
<1>2. ~FailureStep(p)
    BY <1>1, NoFailure
<1>3. Same(q) /\ up' = up
    BY <1>p, OthersSame DEF Own
<1>4. Alive(p)
    BY OwnMoves DEF Moves
<1>5. result'[p] \notin {"error", "lost"}
    <2>1. HandshakeStep(p) => result' = result
        BY DEF HandshakeStep, Start, SlaveHandshake, MasterHandshake, SkipErrorLine
    <2>2. OutboundStep(p) => result' = result \/ result'[p] = "ok"
        BY DEF OutboundStep, CheckOutbound, Propose, ReadAnswer, WriteMessage, ReportRejected,
               ProposeMore, Turnover, Quit, Return, Confirmed, ReportSent, EndTurn, TypeOK
    <2>3. InboundStep(p) => result' = result \/ result'[p] = "ok"
        <3>1. ReadBlock(p) => result' = result
            BY ReadBlockFacts
        <3>2. ReadEmptyBlock(p) \/ ReadNoMore(p) \/ ReceiveMessage(p) => result' = result
            BY DEF ReadEmptyBlock, ReadNoMore, ReceiveMessage
        <3>3. ReadQuit(p) => result'[p] = "ok"
            BY DEF ReadQuit, Return, TypeOK
        <3> QED
            BY <3>1, <3>2, <3>3 DEF InboundStep
    <2>4. result[p] \notin {"error", "lost"}
        BY <1>1 DEF CauseInv
    <2> QED
        BY <1>1, <1>2, <2>1, <2>2, <2>3, <2>4 DEF SessionStep
<1>6. CauseInv(p, q)'
    <2>1. Alive(q)' <=> Alive(q)
        BY <1>3 DEF Same, Alive
    <2>2. up
        BY <1>1, <1>4 DEF CauseInv
    <2> QED
        BY <1>1, <1>2, <1>3, <1>5, <2>1, <2>2, LastReader DEF CauseInv
<1>7. CauseInv(q, p)'
    <2>1. Alive(q)' <=> Alive(q)
        BY <1>3 DEF Same, Alive
    <2>2. up /\ result'[q] \notin {"error", "lost"}
        BY <1>1, <1>3, <1>4 DEF CauseInv, Same
    <2> QED
        BY <1>1, <1>2, <1>3, <2>1, <2>2, LastWriter DEF CauseInv
<1> QED
    BY <1>6, <1>7

(***************************************************************************)
(* The invariant as a whole, and what follows from it.                     *)
(***************************************************************************)
LEMMA SessionKeeps ==
    ASSUME TypeOK, TypeOK', ProtocolInv, SessionInv, [Next]_vars
    PROVE  SessionInv'
<1> USE DEF mailbox, frame, stats, history
<1>1. ASSUME NEW p \in Peer, Own(p) PROVE SessionInv'
    <2> DEFINE q == Other(p)
    <2>p. q \in Peer /\ q # p /\ Other(q) = p
        BY OtherPeer
    <2>i. /\ LoadInv(p) /\ DrainInv(p, q) /\ WaitInv(p, q) /\ CauseInv(p, q)
          /\ LoadInv(q) /\ DrainInv(q, p) /\ WaitInv(q, p) /\ CauseInv(q, p)
        BY <2>p DEF SessionInv
    <2>s. Same(q)
        BY <1>1, <2>p, OthersSame DEF Own
    <2>1. LoadInv(p)' /\ DrainInv(p, q)' /\ WaitInv(p, q)'
        BY <1>1, <2>i, LoadStep, SenderDrains, ProposerWaits
    <2>2. LoadInv(q)'
        BY <2>i, <2>s DEF LoadInv, Drained, Same
    <2>3. DrainInv(q, p)' /\ WaitInv(q, p)'
        BY <1>1, <2>i, <2>p, ReceiverDrains, AnswererAttends
    <2>4. CauseInv(p, q)' /\ CauseInv(q, p)'
        BY <1>1, <2>i, CauseStep
    <2> QED
        BY <2>p, <2>1, <2>2, <2>3, <2>4, OtherPeer DEF SessionInv
<1>2. CASE LinkFailure
    <2>1. /\ UNCHANGED <<out, writing, sent, deferred, pc, props, todo, acc, remoteNoMsgs,
                         result, master, due>>
          /\ blame' # {}
        BY <1>2 DEF LinkFailure, Blame
    <2>2. \A p \in Peer : Units(wire'[p]) \subseteq Units(wire[p])
        BY <1>2, LinkUnits
    <2>3. ASSUME NEW p \in Peer, LoadInv(p) PROVE LoadInv(p)'
        BY <2>1, <2>3 DEF LoadInv, Drained
    <2>4. ASSUME NEW p \in Peer, NEW q \in Peer, DrainInv(p, q), WaitInv(p, q)
          PROVE  DrainInv(p, q)' /\ WaitInv(p, q)' /\ CauseInv(p, q)'
        BY <2>1, <2>2, <2>4 DEF DrainInv, Drained, WaitInv, CauseInv, Alive
    <2> QED
        BY <2>3, <2>4, OtherPeer DEF SessionInv
<1>3. CASE Connect
    <2> SUFFICES ASSUME NEW p \in Peer, NEW q \in Peer, LoadInv(p)
                 PROVE  LoadInv(p)' /\ DrainInv(p, q)' /\ WaitInv(p, q)' /\ CauseInv(p, q)'
        BY OtherPeer DEF SessionInv
    <2>1. /\ pc'[p] = "start" /\ pc'[q] = "start" /\ wire'[p] = <<>> /\ wire'[q] = <<>>
          /\ result'[p] = "none" /\ ~remoteNoMsgs'[q] /\ due'[p] = {} /\ up'
          /\ UNCHANGED <<out, writing, sent, deferred>>
        BY <1>3 DEF Connect
    <2>2. LoadInv(p)'
        BY <2>1 DEF LoadInv
    <2>3. DrainInv(p, q)' /\ WaitInv(p, q)'
        BY <2>1, UnitsEmpty DEF DrainInv, WaitInv
    <2>4. CauseInv(p, q)'
        BY <2>1 DEF CauseInv, Alive
    <2> QED
        BY <2>2, <2>3, <2>4
<1>4. ASSUME NEW p \in Peer PROVE ~BeginAddOut(p) /\ ~EndAddOut(p)
    <2>1. LoadInv(p)
        BY DEF SessionInv
    <2> QED
        BY <2>1 DEF LoadInv, BeginAddOut, EndAddOut
<1>5. CASE UNCHANGED vars \/ \E p \in Peer : OpenFails(p)
    BY <1>5 DEF vars, OpenFails, SessionInv, LoadInv, DrainInv, Drained, WaitInv, CauseInv, Listening, Alive
<1> QED
    BY <1>1, <1>2, <1>3, <1>4, <1>5 DEF Next, FaultStep, Own

LEMMA SessionInit ==
    ASSUME Init, ComposedBefore
    PROVE  SessionInv
<1> SUFFICES ASSUME NEW p \in Peer, NEW q \in Peer
             PROVE  LoadInv(p) /\ DrainInv(p, q) /\ WaitInv(p, q) /\ CauseInv(p, q)
    BY OtherPeer DEF SessionInv
<1>1. /\ pc[p] = "idle" /\ wire[p] = <<>> /\ wire[q] = <<>> /\ result[p] = "none"
      /\ ~remoteNoMsgs[q] /\ due[p] = {} /\ writing[p] = {}
      /\ out[p] = {m \in Mid : Origin[m] = p}
    BY DEF Init, ComposedBefore
<1>2. LoadInv(p)
    BY <1>1 DEF LoadInv
<1>3. DrainInv(p, q) /\ WaitInv(p, q) /\ CauseInv(p, q)
    BY <1>1, UnitsEmpty DEF DrainInv, WaitInv, CauseInv, Alive
<1> QED
    BY <1>2, <1>3

(* The two sessions, with every failure, keep the whole invariant: they stay *)
(* in step, the mailboxes and the reports stay consistent with them and, if  *)
(* AddOut does not run beside an Exchange, both end well.                    *)
THEOREM ExchangeInvariant == Spec => []ExchangeInv
<1>1. Init => ExchangeInv
    BY SafetyInit, MailInit, SessionInit DEF ExchangeInv, Init, Whole
<1>2. TypeOK /\ TypeOK' /\ ExchangeInv /\ [Next]_vars => ExchangeInv'
    <2> SUFFICES ASSUME TypeOK, TypeOK', ExchangeInv, [Next]_vars PROVE ExchangeInv'
        OBVIOUS
    <2>1. ProtocolInv' /\ SentIsHeld'
        BY SafetyStep DEF ExchangeInv
    <2>2. MailInv'
        BY MailStep DEF ExchangeInv
    <2>3. ~TornWrites => Whole'
        BY WholeStep DEF ExchangeInv
    <2>4. ComposedBefore => SessionInv'
        BY SessionKeeps DEF ExchangeInv
    <2> QED
        BY <2>1, <2>2, <2>3, <2>4 DEF ExchangeInv, ComposedBefore
<1> QED
    BY <1>1, <1>2, TypeCorrect, PTL DEF Spec

(* The two Exchange loops never both write: when AddOut does not run beside  *)
(* them, at most one peer is in a part of its turn in which it still does.   *)
THEOREM TurnsAlternate ==
    ASSUME ComposedBefore
    PROVE  Spec => []OneTurn
<1>1. ASSUME ProtocolInv, SessionInv PROVE OneTurn
    <2> SUFFICES ASSUME HoldsTurn("a"), HoldsTurn("b") PROVE FALSE
        BY DEF OneTurn, Peer
    <2>p. Other("a") = "b" /\ Other("b") = "a" /\ "a" \in Peer /\ "b" \in Peer
        BY DEF Peer, Other
    <2>i. /\ PairInv("a", "b") /\ PairInv("b", "a")
          /\ WaitInv("a", "b") /\ WaitInv("b", "a")
        BY <1>1, <2>p DEF ProtocolInv, SessionInv
    <2>1. ASSUME NEW p, NEW q, HoldsTurn(p), HoldsTurn(q), WaitInv(p, q)
          PROVE  pc[p] # "answer"
        BY <2>1 DEF HoldsTurn, WaitInv, Alive
    <2>2. pc["a"] # "answer" /\ pc["b"] # "answer"
        BY <2>1, <2>i
    <2>3. ASSUME NEW p, NEW q, HoldsTurn(p), HoldsTurn(q), pc[p] # "answer", pc[q] # "answer",
                 PairInv(p, q)
          PROVE  FALSE
        <3>1. Alive(p)
            BY <2>3 DEF HoldsTurn, Alive
        <3>2. CASE pc[q] = "send" /\ todo[q] # {}
            <4>1. pc[p] = "receive"
                BY <2>3, <3>1, <3>2 DEF PairInv, SendInv
            <4> QED
                BY <2>3, <4>1 DEF HoldsTurn
        <3>3. CASE ~(pc[q] = "send" /\ todo[q] # {})
            <4>1. Listening(p)
                BY <2>3, <3>1, <3>3 DEF PairInv, TurnInv, HoldsTurn
            <4> QED
                BY <2>3, <4>1 DEF HoldsTurn, Listening
        <3> QED
            BY <3>2, <3>3
    <2> QED
        BY <2>2, <2>3, <2>i
<1>2. ExchangeInv => OneTurn
    BY <1>1 DEF ExchangeInv
<1> QED
    BY <1>2, ExchangeInvariant, PTL

(* An Exchange that returns without an error has left in the outbox only     *)
(* what the remote deferred, when AddOut does not run beside it.             *)
THEOREM CleanEnd ==
    ASSUME ComposedBefore
    PROVE  Spec => []CleanEndDrains
<1>1. ASSUME SessionInv PROVE CleanEndDrains
    <2> SUFFICES ASSUME NEW p \in Peer, result[p] = "ok"
                 PROVE  out[p] \cap due[p] \subseteq deferred[p]
        BY DEF CleanEndDrains
    <2>1. due[p] \subseteq Addressed /\ Drained(p)
        BY <1>1 DEF SessionInv, LoadInv, DrainInv
    <2> QED
        BY <2>1 DEF Drained
<1>2. ExchangeInv => CleanEndDrains
    BY <1>1 DEF ExchangeInv
<1> QED
    BY <1>2, ExchangeInvariant, PTL

(* Two peers that run this code never get each other's lines wrong: without  *)
(* an AddOut beside it, an Exchange returns an error only when the link, a   *)
(* process or a disk has failed during the session.                          *)
THEOREM NoErrorWithoutFault ==
    ASSUME ComposedBefore
    PROVE  Spec => []ErrorsHaveCause
<1>1. ASSUME SessionInv PROVE ErrorsHaveCause
    BY <1>1 DEF SessionInv, CauseInv, ErrorsHaveCause
<1>2. ExchangeInv => ErrorsHaveCause
    BY <1>1 DEF ExchangeInv
<1> QED
    BY <1>2, ExchangeInvariant, PTL
=============================================================================
