--------------------------- MODULE B2FExchangeProofs ---------------------------
(***************************************************************************)
(* Proofs about B2FExchange, for every set of messages, every order, every *)
(* block size and every number of faults.                                  *)
(***************************************************************************)
EXTENDS B2FExchange, FiniteSetTheorems, TLAPS

(***************************************************************************)
(* Facts about the helpers.                                                *)
(***************************************************************************)

(* There are two peers, and each is the other's remote. *)
LEMMA OtherPeer ==
    ASSUME NEW p \in Peer
    PROVE  Other(p) \in Peer /\ Other(p) # p /\ Other(Other(p)) = p
                /\ \A q \in Peer : q = p \/ q = Other(p)
BY DEF Peer, Other

(* What the code writes is a unit of the wire. *)
LEMMA UnitTypes ==
    /\ \A t \in {"handshake", "FF", "FQ", "***"} : Line(t) \in Unit
    /\ \A b \in Seq(Mid) : Block(b) \in Unit
    /\ \A s \in Seq(Answer) : Answers(s) \in Unit
    /\ \A m \in Mid : Data(m) \in Unit
BY DEF Line, Block, Answers, Data, Unit

Wires == [Peer -> Seq(Unit)]

(* A write leaves the wires well typed. *)
LEMMA PutType ==
    ASSUME NEW w \in Wires, NEW p \in Peer, NEW u \in Unit
    PROVE  Put(w, p, u) \in Wires
<1>1. w[Other(p)] \in Seq(Unit)
    BY OtherPeer DEF Wires
<1>2. Append(w[Other(p)], u) \in Seq(Unit)
    BY <1>1
<1> QED
    BY <1>2, OtherPeer DEF Put, Wires

(* So does a read of the first unit. *)
LEMMA TakeType ==
    ASSUME wire \in Wires, NEW p \in Peer, wire[p] # <<>>
    PROVE  /\ Take(p) \in Wires
           /\ Head(wire[p]) \in Unit
<1>1. wire[p] \in Seq(Unit)
    BY DEF Wires
<1>2. Tail(wire[p]) \in Seq(Unit) /\ Head(wire[p]) \in Unit
    BY <1>1
<1> QED
    BY <1>2 DEF Take, Wires

(* The contents of a unit, by its type. *)
LEMMA UnitContents ==
    ASSUME NEW u \in Unit
    PROVE  /\ u.type = "F>" => u.block \in Seq(Mid)
           /\ u.type = "FS" => u.answers \in Seq(Answer)
           /\ u.type = "data" => u.mid \in Mid
BY DEF Unit

(* A return from Exchange leaves everything it resets well typed. *)
LEMMA ReturnType ==
    ASSUME TypeOK, NEW p \in Peer, NEW r \in Result, NEW w \in Wires,
           Return(p, r, w)
    PROVE  /\ pc' \in [Peer -> PC]
           /\ result' \in [Peer -> Result]
           /\ wire' \in Wires
           /\ props' \in [Peer -> Seq(Mid)]
           /\ todo' \in [Peer -> SUBSET Nat]
           /\ \A q \in Peer : todo'[q] \subseteq Live(q)'
           /\ acc' \in [Peer -> SUBSET Mid]
           /\ rej' \in [Peer -> SUBSET Mid]
<1>1. pc' \in [Peer -> PC] /\ result' \in [Peer -> Result] /\ wire' \in Wires
    BY DEF TypeOK, Return, PC, Wires
<1>2. props' \in [Peer -> Seq(Mid)] /\ todo' \in [Peer -> SUBSET Nat]
    BY DEF TypeOK, Return
<1>3. acc' \in [Peer -> SUBSET Mid] /\ rej' \in [Peer -> SUBSET Mid]
    BY DEF TypeOK, Return
<1>4. ASSUME NEW q \in Peer PROVE todo'[q] \subseteq Live(q)'
    BY DEF TypeOK, Return, Live
<1> QED
    BY <1>1, <1>2, <1>3, <1>4

(***************************************************************************)
(* Type correctness.                                                       *)
(***************************************************************************)

LEMMA HandshakeStepType ==
    ASSUME TypeOK, NEW p \in Peer, HandshakeStep(p)
    PROVE  TypeOK'
<1> USE DEF mailbox, frame, stats, history, Live
<1>w. wire \in Wires
    BY DEF TypeOK, Wires
<1>1. CASE Start(p)
    <2>1. wire' \in Wires
        BY <1>1, <1>w, PutType, UnitTypes DEF Start, SendHandshake
    <2> QED
        BY <1>1, <2>1 DEF Start, TypeOK, Goto, PC, Wires
<1>2. CASE SlaveHandshake(p)
    <2>1. wire' \in Wires
        BY <1>2, <1>w, PutType, TakeType, UnitTypes
           DEF SlaveHandshake, SendHandshake, Receives
    <2> QED
        BY <1>2, <2>1 DEF SlaveHandshake, TypeOK, Goto, PC, Wires
<1>3. CASE MasterHandshake(p)
    <2>1. wire' \in Wires
        BY <1>3, <1>w, TakeType DEF MasterHandshake, Receives
    <2> QED
        BY <1>3, <2>1 DEF MasterHandshake, TypeOK, Goto, PC, Wires
<1>4. CASE SkipErrorLine(p)
    <2>1. wire' \in Wires
        BY <1>4, <1>w, TakeType DEF SkipErrorLine, Receives
    <2> QED
        BY <1>4, <2>1 DEF SkipErrorLine, TypeOK, Wires
<1> QED
    BY <1>1, <1>2, <1>3, <1>4 DEF HandshakeStep

LEMMA OutboundStepType ==
    ASSUME TypeOK, NEW p \in Peer, OutboundStep(p)
    PROVE  TypeOK'
<1> USE DEF mailbox, frame, stats, history, Live
<1>w. wire \in Wires
    BY DEF TypeOK, Wires
<1>1. CASE CheckOutbound(p)
    BY <1>1 DEF CheckOutbound, TypeOK, Goto, PC
<1>2. CASE Propose(p)
    <2> DEFINE S == Outbound(p)
               n == IF Cardinality(S) > MaxBlockSize THEN MaxBlockSize
                    ELSE Cardinality(S)
    <2>1. PICK b \in [1..n -> S] :
             /\ IsBlock(b, S)
             /\ props' = [props EXCEPT ![p] = b]
             /\ wire' = Put(wire, p, Block(b))
        BY <1>2 DEF Propose
    <2>2. S \subseteq Mid
        BY DEF TypeOK, Outbound, LoadOutbox
    <2>3. n \in Nat
        BY <2>2, SetsAssumption, BoundsAssumption, FS_Subset, FS_CardinalityType
    <2>4. b \in Seq(Mid)
        BY <2>2, <2>3
    <2>5. wire' \in Wires
        BY <2>1, <2>4, <1>w, PutType, UnitTypes
    <2> QED
        BY <1>2, <2>1, <2>4, <2>5 DEF Propose, TypeOK, Goto, PC, Wires
<1>3. CASE ReadAnswer(p)
    <2>1. wire' \in Wires
        BY <1>3, <1>w, TakeType DEF ReadAnswer, Receives
    <2> DEFINE A(k) == AnsweredWith(props[p], Head(wire[p]).answers, k)
    <2>2. ASSUME NEW k \in Answer
          PROVE  A(k) \subseteq 1..Len(props[p]) /\ {props[p][i] : i \in A(k)} \subseteq Mid
        <3>1. props[p] \in Seq(Mid)
            BY DEF TypeOK
        <3> QED
            BY <3>1 DEF AnsweredWith
    <2>3. todo' = [todo EXCEPT ![p] = A("Accept")]
        BY <1>3 DEF ReadAnswer
    <2>4. rej' = [rej EXCEPT ![p] = {props[p][i] : i \in A("Reject")}]
        BY <1>3 DEF ReadAnswer
    <2>5. deferred' = [deferred EXCEPT ![p] = @ \cup {props[p][i] : i \in A("Defer")}]
        BY <1>3 DEF ReadAnswer
    <2>6. todo' \in [Peer -> SUBSET Nat] /\ rej' \in [Peer -> SUBSET Mid]
             /\ deferred' \in [Peer -> SUBSET Mid]
        BY <2>2, <2>3, <2>4, <2>5 DEF TypeOK, Answer
    <2>7. \A q \in Peer : todo'[q] \subseteq Live(q)'
        BY <1>3, <2>2, <2>3 DEF TypeOK, ReadAnswer, Answer, Live, Goto
    <2> QED
        BY <1>3, <2>1, <2>6, <2>7 DEF ReadAnswer, TypeOK, Goto, PC, Wires
<1>4. CASE WriteMessage(p)
    <2>1. PICK i \in todo[p] :
             /\ wire' = Put(wire, p, Data(props[p][i]))
             /\ acc' = [acc EXCEPT ![p] = @ \cup {props[p][i]}]
             /\ todo' = [todo EXCEPT ![p] = @ \ {i}]
        BY <1>4 DEF WriteMessage
    <2>2. props[p][i] \in Mid
        BY <2>1 DEF TypeOK
    <2>3. wire' \in Wires
        BY <2>1, <2>2, <1>w, PutType, UnitTypes
    <2>4. acc' \in [Peer -> SUBSET Mid]
        BY <2>1, <2>2 DEF TypeOK
    <2>5. todo' \in [Peer -> SUBSET Nat] /\ \A q \in Peer : todo'[q] \subseteq todo[q]
        BY <2>1 DEF TypeOK
    <2>6. \A q \in Peer : Live(q)' = Live(q)
        BY <1>4 DEF WriteMessage, Live
    <2> QED
        BY <1>4, <2>3, <2>4, <2>5, <2>6 DEF WriteMessage, TypeOK, Wires
<1>5. CASE ReportRejected(p)
    BY <1>5 DEF ReportRejected, SetSent, TypeOK
<1>6. CASE ProposeMore(p)
    BY <1>6 DEF ProposeMore, BlockSent, TypeOK, Goto, PC
<1>7. CASE Turnover(p)
    <2>1. wire' \in Wires
        BY <1>7, <1>w, PutType, UnitTypes DEF Turnover
    <2>2. /\ todo[p] = {}
          /\ props' = [props EXCEPT ![p] = <<>>]
          /\ pc' = [pc EXCEPT ![p] = "confirm"]
          /\ UNCHANGED <<mailbox, deferred, todo, acc, rej, remoteNoMsgs,
                         result, stats, master, up, history>>
        BY <1>7 DEF Turnover, BlockSent, Goto
    <2> QED
        BY <2>1, <2>2 DEF TypeOK, PC, Wires
<1>8. CASE Quit(p)
    <2>1. Put(wire, p, Line("FQ")) \in Wires
        BY <1>w, PutType, UnitTypes
    <2>2. Return(p, "ok", Put(wire, p, Line("FQ")))
        BY <1>8 DEF Quit
    <2> QED
        BY <1>8, <2>1, <2>2, ReturnType DEF Quit, TypeOK, Result, Wires
<1>9. CASE Confirmed(p)
    BY <1>9 DEF Confirmed, TypeOK, Goto, PC
<1>10. CASE ReportSent(p)
    BY <1>10 DEF ReportSent, SetSent, TypeOK
<1>11. CASE EndTurn(p)
    BY <1>11 DEF EndTurn, TypeOK, Goto, PC
<1> QED
    BY <1>1, <1>2, <1>3, <1>4, <1>5, <1>6, <1>7, <1>8, <1>9, <1>10, <1>11
       DEF OutboundStep

LEMMA InboundStepType ==
    ASSUME TypeOK, NEW p \in Peer, InboundStep(p)
    PROVE  TypeOK'
<1> USE DEF mailbox, frame, stats, history, Live
<1>w. wire \in Wires
    BY DEF TypeOK, Wires
<1>1. CASE ReadEmptyBlock(p)
    <2>1. wire' \in Wires
        BY <1>1, <1>w, TakeType DEF ReadEmptyBlock, Receives
    <2> QED
        BY <1>1, <2>1 DEF ReadEmptyBlock, TypeOK, Goto, PC, Wires
<1>2. CASE ReadBlock(p)
    <2> DEFINE b == Head(wire[p]).block
               answers == [i \in 1..Len(b) |->
                              IF \E j \in 1..(i - 1) : b[j] = b[i] THEN "Defer"
                              ELSE GetInboundAnswer(p, b[i])]
               accepted == {i \in 1..Len(b) : answers[i] = "Accept"}
    <2>1. b \in Seq(Mid)
        BY <1>2, <1>w, TakeType, UnitContents DEF ReadBlock, Receives
    <2>2. answers \in Seq(Answer)
        BY SMTT(60), <2>1 DEF Answer, GetInboundAnswer
    <2>3. /\ wire' = Put(Take(p), p, Answers(answers))
          /\ todo' = [todo EXCEPT ![p] = accepted]
          /\ pc' = [pc EXCEPT ![p] = AfterAnswer(accepted)]
          /\ props' = IF accepted = {} THEN props ELSE [props EXCEPT ![p] = b]
          /\ remoteNoMsgs' = [remoteNoMsgs EXCEPT ![p] = @ /\ accepted = {}]
          /\ UNCHANGED <<mailbox, deferred, acc, rej, result, stats, master, up,
                         history>>
        BY <1>2 DEF ReadBlock, Goto
    <2>4. wire' \in Wires
        <3>1. Take(p) \in Wires
            BY <1>2, <1>w, TakeType DEF ReadBlock, Receives
        <3>2. Answers(answers) \in Unit
            BY <2>2, UnitTypes
        <3> HIDE DEF answers
        <3> QED
            BY SMTT(60), <2>3, <3>1, <3>2, PutType
    <2>5. accepted \subseteq 1..Len(b)
        OBVIOUS
    <2> HIDE DEF b, answers, accepted
    <2>6. props' \in [Peer -> Seq(Mid)] /\ todo' \in [Peer -> SUBSET Nat]
             /\ pc' \in [Peer -> PC]
        BY <2>1, <2>3, <2>5 DEF TypeOK, AfterAnswer, PC
    <2>7. ASSUME NEW q \in Peer PROVE todo'[q] \subseteq Live(q)'
        BY <2>1, <2>3, <2>5 DEF TypeOK, AfterAnswer
    <2>8. remoteNoMsgs' \in [Peer -> BOOLEAN]
        BY <2>3 DEF TypeOK
    <2> QED
        BY SMTT(60), <2>3, <2>4, <2>6, <2>7, <2>8 DEF TypeOK, Wires
<1>3. CASE ReadNoMore(p)
    <2>1. wire' \in Wires
        BY <1>3, <1>w, TakeType DEF ReadNoMore, Receives
    <2> QED
        BY <1>3, <2>1 DEF ReadNoMore, TypeOK, Goto, PC, Wires
<1>4. CASE ReadQuit(p)
    BY <1>4, <1>w, ReturnType DEF ReadQuit, TypeOK, Result, Wires
<1>5. CASE ReceiveMessage(p)
    <2>1. wire' \in Wires /\ Head(wire[p]).mid \in Mid
        BY <1>5, <1>w, TakeType, UnitContents DEF ReceiveMessage, ReadCompressed, Receives
    <2>2. inbox' \in [Peer -> SUBSET Mid] /\ torn' \in [Peer -> SUBSET Mid]
        BY <1>5, <2>1 DEF ReceiveMessage, TypeOK
    <2>3. PICK i \in todo[p] :
             /\ statReceived' = [statReceived EXCEPT ![p] = @ \cup {props[p][i]}]
             /\ todo' = [todo EXCEPT ![p] = @ \ {i}]
             /\ IF todo[p] = {i}
                THEN /\ props' = [props EXCEPT ![p] = <<>>]
                     /\ Goto(p, "outbound")
                ELSE UNCHANGED <<props, pc>>
        BY <1>5 DEF ReceiveMessage
    <2>4. props[p][i] \in Mid
        BY <2>3, <1>5 DEF TypeOK, ReceiveMessage
    <2>5. statReceived' \in [Peer -> SUBSET Mid]
             /\ todo' \in [Peer -> SUBSET Nat]
        BY <2>3, <2>4 DEF TypeOK
    <2>6. props' \in [Peer -> Seq(Mid)] /\ pc' \in [Peer -> PC]
        <3>1. CASE todo[p] = {i}
            <4>1. /\ props' = [props EXCEPT ![p] = <<>>]
                  /\ pc' = [pc EXCEPT ![p] = "outbound"]
                BY <2>3, <3>1 DEF Goto
            <4> QED
                BY <4>1 DEF TypeOK, PC
        <3>2. CASE todo[p] # {i}
            <4>1. props' = props /\ pc' = pc
                BY <2>3, <3>2
            <4> QED
                BY <4>1 DEF TypeOK
        <3> QED
            BY <3>1, <3>2
    <2>7. ASSUME NEW q \in Peer PROVE todo'[q] \subseteq Live(q)'
        BY <2>3, <1>5 DEF TypeOK, Goto, ReceiveMessage
    <2>8. UNCHANGED <<out, writing, sent, deferred, acc, rej, remoteNoMsgs,
                      result, statSent, master, up, history>>
        BY <1>5 DEF ReceiveMessage
    <2> QED
        BY <2>1, <2>2, <2>5, <2>6, <2>7, <2>8 DEF TypeOK, Wires
<1> QED
    BY <1>1, <1>2, <1>3, <1>4, <1>5 DEF InboundStep

LEMMA FailureStepType ==
    ASSUME TypeOK, NEW p \in Peer, FailureStep(p)
    PROVE  TypeOK'
<1> USE DEF mailbox, frame, stats, history
<1>w. wire \in Wires
    BY DEF TypeOK, Wires
<1>1. Put(wire, p, Line("***")) \in Wires
    BY <1>w, PutType, UnitTypes
<1>2. PICK r \in Result, w \in Wires : Return(p, r, w)
    BY <1>w, <1>1 DEF FailureStep, WriteFails, ProtocolError, ConnLost, Result
<1>3. UNCHANGED <<mailbox, deferred, remoteNoMsgs, stats, master, up, history>>
    BY DEF FailureStep, WriteFails, ProtocolError, ConnLost
<1> QED
    BY <1>2, <1>3, ReturnType DEF TypeOK, Wires

LEMMA FaultStepType ==
    ASSUME TypeOK, FaultStep
    PROVE  TypeOK'
<1> USE DEF mailbox, frame, stats, history
<1>w. wire \in Wires
    BY DEF TypeOK, Wires
<1>b. ASSUME NEW k \in Fault, Blame(k)
      PROVE  faults' \in 0..MaxFaults /\ blame' \in SUBSET Fault
    BY <1>b, BoundsAssumption DEF Blame, TypeOK
<1>t. ASSUME NEW p \in Peer, Tear(p) \/ UNCHANGED <<inbox, torn>>
      PROVE  inbox' \in [Peer -> SUBSET Mid] /\ torn' \in [Peer -> SUBSET Mid]
    <2>1. CASE UNCHANGED <<inbox, torn>>
        BY <2>1 DEF TypeOK
    <2>2. CASE Tear(p)
        <3>1. Head(wire[p]).mid \in Mid
            BY <2>2, <1>w, TakeType, UnitContents DEF Tear, ReadCompressed, Receives
        <3> QED
            BY <2>2, <3>1 DEF Tear, TypeOK
    <2> QED
        BY <1>t, <2>1, <2>2
<1>p. ASSUME NEW p \in Peer PROVE Put(wire, p, Line("***")) \in Wires
    BY <1>w, PutType, UnitTypes
<1>1. ASSUME NEW p \in Peer, PrepareFails(p) PROVE TypeOK'
    <2>1. faults' \in 0..MaxFaults /\ blame' \in SUBSET Fault
        BY <1>1, <1>b DEF PrepareFails, Fault
    <2>2. Return(p, "error", Put(wire, p, Line("***")))
        BY <1>1 DEF PrepareFails
    <2> QED
        BY <1>1, <1>p, <2>1, <2>2, ReturnType
           DEF PrepareFails, TypeOK, Wires, Result
<1>2. ASSUME NEW p \in Peer, ReceiveFails(p) PROVE TypeOK'
    <2>1. faults' \in 0..MaxFaults /\ blame' \in SUBSET Fault
        BY <1>2, <1>b DEF ReceiveFails, Fault
    <2>2. Return(p, "error", Put(wire, p, Line("***")))
        BY <1>2 DEF ReceiveFails
    <2>3. inbox' \in [Peer -> SUBSET Mid] /\ torn' \in [Peer -> SUBSET Mid]
        BY <1>2, <1>t DEF ReceiveFails
    <2> QED
        BY <1>2, <1>p, <2>1, <2>2, <2>3, ReturnType
           DEF ReceiveFails, TypeOK, Wires, Result
<1>3. ASSUME NEW p \in Peer, Crash(p) PROVE TypeOK'
    <2>1. faults' \in 0..MaxFaults /\ blame' \in SUBSET Fault
        BY <1>3, <1>b DEF Crash, Fault
    <2>2. Return(p, "crashed", wire)
        BY <1>3 DEF Crash
    <2>3. inbox' \in [Peer -> SUBSET Mid] /\ torn' \in [Peer -> SUBSET Mid]
        BY <1>3, <1>t DEF Crash
    <2> QED
        BY <1>3, <1>w, <2>1, <2>2, <2>3, ReturnType
           DEF Crash, TypeOK, Wires, Result
<1>5. ASSUME NEW p \in Peer, OpenFails(p) PROVE TypeOK'
    <2>1. faults' \in 0..MaxFaults
        BY <1>5, BoundsAssumption DEF OpenFails, TypeOK
    <2>2. unread' \in [Peer -> SUBSET Mid]
        BY <1>5 DEF OpenFails, TypeOK
    <2> QED
        BY <1>5, <2>1, <2>2 DEF OpenFails, TypeOK, Live
<1>4. ASSUME LinkFailure PROVE TypeOK'
    <2>1. faults' \in 0..MaxFaults /\ blame' \in SUBSET Fault
        BY <1>4, <1>b DEF LinkFailure, Fault
    <2>2. PICK m \in 0..Len(wire["a"]), n \in 0..Len(wire["b"]) :
             wire' = [wire EXCEPT !["a"] = SubSeq(@, 1, m),
                                  !["b"] = SubSeq(@, 1, n)]
        BY <1>4 DEF LinkFailure
    <2>3. wire["a"] \in Seq(Unit) /\ wire["b"] \in Seq(Unit)
        BY <1>w DEF Wires, Peer
    <2>4. SubSeq(wire["a"], 1, m) \in Seq(Unit) /\ SubSeq(wire["b"], 1, n) \in Seq(Unit)
        BY <2>2, <2>3
    <2>5. wire' \in Wires
        BY <1>w, <2>2, <2>4 DEF Wires, Peer
    <2> QED
        BY <1>4, <2>1, <2>5 DEF LinkFailure, TypeOK, Wires, Live
<1> QED
    BY <1>1, <1>2, <1>3, <1>4, <1>5 DEF FaultStep

(* Every step of the two sessions, their mailboxes and their link keeps    *)
(* the state well typed; in particular the loops over a proposal block     *)
(* never leave the block.                                                  *)
LEMMA TypeStep ==
    ASSUME TypeOK, [Next]_vars
    PROVE  TypeOK'
<1> USE DEF mailbox, frame, stats, history
<1>1. CASE Connect
    <2>1. wire' \in [Peer -> Seq(Unit)] /\ pc' \in [Peer -> PC]
        BY <1>1 DEF Connect, PC
    <2>2. /\ remoteNoMsgs' \in [Peer -> BOOLEAN]
          /\ result' \in [Peer -> Result]
          /\ statSent' \in [Peer -> SUBSET Mid]
          /\ statReceived' \in [Peer -> SUBSET Mid]
          /\ due' \in [Peer -> SUBSET Mid] /\ unread' \in [Peer -> SUBSET Mid]
          /\ master' \in Peer /\ up' \in BOOLEAN /\ blame' \in SUBSET Fault
        BY <1>1 DEF Connect, Result
    <2>3. ASSUME NEW q \in Peer PROVE todo'[q] \subseteq Live(q)'
        BY <1>1 DEF Connect, TypeOK, Live
    <2>4. UNCHANGED <<mailbox, deferred, frame, faults>>
        BY <1>1 DEF Connect
    <2> QED
        BY <2>1, <2>2, <2>3, <2>4 DEF TypeOK
<1>2. ASSUME NEW p \in Peer, SessionStep(p) PROVE TypeOK'
    BY <1>2, HandshakeStepType, OutboundStepType, InboundStepType,
       FailureStepType DEF SessionStep
<1>3. ASSUME NEW p \in Peer, BeginAddOut(p) PROVE TypeOK'
    BY <1>3 DEF BeginAddOut, TypeOK, Live
<1>4. ASSUME NEW p \in Peer, EndAddOut(p) PROVE TypeOK'
    BY <1>4 DEF EndAddOut, TypeOK, Live
<1>5. CASE FaultStep
    BY <1>5, FaultStepType
<1>6. CASE UNCHANGED vars
    BY <1>6 DEF vars, TypeOK, Live
<1> QED
    BY <1>1, <1>2, <1>3, <1>4, <1>5, <1>6 DEF Next

LEMMA TypeInit == Init => TypeOK
<1> SUFFICES ASSUME Init PROVE TypeOK
    OBVIOUS
<1>1. /\ wire \in [Peer -> Seq(Unit)] /\ props \in [Peer -> Seq(Mid)]
      /\ pc \in [Peer -> PC] /\ result \in [Peer -> Result]
    BY DEF Init, PC, Result
<1>2. out \in [Peer -> SUBSET Mid]
    BY SetsAssumption DEF Init
<1>3. /\ writing \in [Peer -> SUBSET Mid] /\ sent \in [Peer -> SUBSET Mid]
      /\ inbox \in [Peer -> SUBSET Mid] /\ torn \in [Peer -> SUBSET Mid]
      /\ deferred \in [Peer -> SUBSET Mid] /\ acc \in [Peer -> SUBSET Mid]
      /\ rej \in [Peer -> SUBSET Mid] /\ due \in [Peer -> SUBSET Mid]
      /\ statSent \in [Peer -> SUBSET Mid]
      /\ statReceived \in [Peer -> SUBSET Mid]
      /\ unread \in [Peer -> SUBSET Mid]
    BY DEF Init
<1>4. todo \in [Peer -> SUBSET Nat] /\ \A p \in Peer : todo[p] \subseteq Live(p)
    BY DEF Init, Live
<1>5. /\ remoteNoMsgs \in [Peer -> BOOLEAN] /\ master \in Peer
      /\ up \in BOOLEAN /\ blame \in SUBSET Fault
    BY DEF Init
<1>6. faults \in 0..MaxFaults
    BY BoundsAssumption DEF Init
<1> QED
    BY <1>1, <1>2, <1>3, <1>4, <1>5, <1>6 DEF TypeOK

(* The state of the exchange is always well typed: the wires carry units    *)
(* that the code writes, and the loops of sendOutbound and handleInbound    *)
(* index only proposals of the current block.                               *)
THEOREM TypeCorrect == Spec => []TypeOK
<1>1. Init => TypeOK
    BY TypeInit
<1>2. TypeOK /\ [Next]_vars => TypeOK'
    BY TypeStep
<1> QED
    BY <1>1, <1>2, PTL DEF Spec
=============================================================================
