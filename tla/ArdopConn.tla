------------------------------- MODULE ArdopConn -------------------------------
(***************************************************************************)
(* One established ARQ connection of the ARDOP driver: the control loop    *)
(* that handles what the TNC reports, the broadcaster that passes it on,   *)
(* and the goroutines in tncConn's Write, Flush and Close.                 *)
(*                                                                         *)
(* A chunk is the data of one Write.  The TNC is external: it queues a     *)
(* chunk, reports the length of its queue (BUFFER) whenever that changes,  *)
(* answers a damaged frame with CRCFAULT and reports DISCONNECTED.  A      *)
(* receiver whose owner has closed it never holds the broadcaster up, so   *)
(* it is removed when it is closed.                                        *)
(***************************************************************************)
EXTENDS Naturals, Sequences, SequencesExt

CONSTANTS
    MaxWrites,  \* bound: number of Write calls
    MaxNoise,   \* bound: reports that concern nobody (PTT, BUSY, ...)
    MaxFaults,  \* bound: frames damaged on the serial line
    TxCap,      \* frames that fit between the host and the TNC
    LineCap,    \* reports that fit between the TNC and the host
    RecvCap,    \* capacity of a receiver's channel (3 in Listen)
    IsTCP,      \* data and commands on separate connections, no checksums
    MayDie      \* the TNC program may end

ASSUME ConnAssumption ==
    /\ {MaxWrites, MaxNoise, MaxFaults} \subseteq Nat
    /\ {TxCap, LineCap, RecvCap} \subseteq Nat \ {0}
    /\ {IsTCP, MayDie} \subseteq BOOLEAN

VARIABLES
    (* tncConn *)
    buffer,    \* the length of the TNC's queue as last reported
    locked,    \* flushLock
    waiters,   \* goroutines that wait for the flushLock's present channel
    eof,       \* eofChan is closed (and tnc.data is nil)
    (* goroutines of the user: Write and Flush in one, Close in another *)
    pcW, try, next, stop,
    pcC,
    (* broadcaster *)
    reg,       \* receivers, in the order of their registration
    togo,      \* receivers that still have to get the message cast
    cast,
    msgs,      \* msgs[r]: contents of the channel of receiver r
    gone,      \* receivers whose channel the broadcaster has closed
    exited,    \* the broadcaster has returned
    (* control loop *)
    ctl,       \* the report that is handled but not passed on yet, if any
    closed,    \* TNC.close has been called: out and dataOut are closed
    (* the TNC and the lines to it *)
    tx, line, queue, tnc,
    (* history *)
    taken,     \* chunks in the order in which the TNC has queued them
    aired,     \* chunks that the TNC has transmitted
    ok,        \* chunks whose Write returned no error
    flushed,   \* those of them for which a later Flush returned no error
    seen,      \* chunks queued when the report was made that ended the last Write
    flushedTo, \* seen, as of the last Flush that returned no error
    noise, faults

conn == <<buffer, locked, waiters, eof>>
writer == <<pcW, try, next, stop>>
caster == <<reg, togo, cast, msgs, gone, exited>>
loop == <<ctl, closed>>
modem == <<tx, line, queue, tnc>>
past == <<taken, aired, ok, flushed, seen, flushedTo, noise, faults>>
vars == <<buffer, locked, waiters, eof, pcW, try, next, stop, pcC, reg, togo,
          cast, msgs, gone, exited, ctl, closed, tx, line, queue, tnc,
          taken, aired, ok, flushed, seen, flushedTo, noise, faults>>

Receiver == {"write", "close"}
Chunk == 1..MaxWrites
(* A BUFFER report also records, for the properties only, how many chunks  *)
(* the TNC had queued when it made the report.                             *)
Msg == [cmd : {"BUFFER"}, n : Nat, k : Nat]
       \cup [cmd : {"CRCFAULT", "DISCONNECTED", "PTT", "EOF"}]
Report(c) == [cmd |-> c]
Buffer(n, k) == [cmd |-> "BUFFER", n |-> n, k |-> k]

Frame == [data : Chunk] \cup [cmd : {"DISCONNECT", "ABORT"}]

TypeOK ==
    /\ buffer \in Nat /\ locked \in BOOLEAN
    /\ waiters \subseteq {"flush", "close"} /\ eof \in BOOLEAN
    /\ pcW \in {"idle", "listen", "send", "wait", "flush", "panic"}
    /\ try \in 1..3 /\ next \in 1..(MaxWrites + 1) /\ stop \in BOOLEAN
    /\ pcC \in {"idle", "flush", "listen", "send", "wait", "abort", "done", "panic"}
    /\ reg \in Seq(Receiver) /\ togo \in Seq(Receiver)
    /\ Len(reg) <= 2 /\ Len(togo) <= 2
    /\ cast \in Msg /\ gone \subseteq Receiver /\ exited \in BOOLEAN
    /\ msgs \in [Receiver -> Seq(Msg)]
    /\ \A r \in Receiver : Len(msgs[r]) <= RecvCap
    /\ ctl \in Seq(Msg) /\ Len(ctl) <= 1 /\ closed \in BOOLEAN
    /\ tx \in [{"data", "ctrl"} -> Seq(Frame)]
    /\ line \in Seq(Msg) /\ Len(line) <= LineCap
    /\ queue \in Seq(Chunk) /\ tnc \in {"connected", "disconnected", "dead"}
    /\ taken \in Seq(Chunk) /\ aired \in Seq(Chunk)
    /\ ok \subseteq Chunk /\ flushed \subseteq ok
    /\ seen \in Nat /\ flushedTo \in Nat
    /\ noise \in 0..MaxNoise /\ faults \in 0..MaxFaults
-----------------------------------------------------------------------------
(***************************************************************************)
(* The control loop.                                                       *)
(***************************************************************************)

(* updateBuffer: the lock opens when the TNC has nothing left to send. *)
UpdateBuffer(n) ==
    /\ buffer' = n
    /\ locked' = (locked /\ n # 0)
    /\ waiters' = IF n = 0 THEN {} ELSE waiters

(* A report is handled before it is passed on; after eof there is no       *)
(* connection whose buffer could be updated.                               *)
HandleReport ==
    /\ line # <<>> /\ ctl = <<>> /\ ~closed
    /\ LET m == Head(line)
       IN  /\ m.cmd # "EOF"
           /\ IF m.cmd = "BUFFER" /\ ~eof THEN UpdateBuffer(m.n)
              ELSE UNCHANGED <<buffer, locked, waiters>>
           /\ eof' = (eof \/ m.cmd = "DISCONNECTED")
           /\ ctl' = <<m>>
    /\ line' = Tail(line)
    /\ UNCHANGED <<writer, pcC, caster, closed, tx, queue, tnc, past>>

(* The end of the TNC's stream ends the loop, which closes everything. *)
CloseTNC ==
    /\ line # <<>> /\ ctl = <<>> /\ ~closed
    /\ Head(line).cmd = "EOF"
    /\ eof' = TRUE /\ closed' = TRUE
    /\ line' = Tail(line)
    /\ UNCHANGED <<buffer, locked, waiters, writer, pcC, caster, ctl, tx, queue,
                   tnc, past>>

(* Send is an unbuffered channel: the broadcaster takes the report when it *)
(* has passed on the one before.                                           *)
Broadcast ==
    /\ ctl # <<>> /\ togo = <<>> /\ ~exited
    /\ cast' = Head(ctl) /\ togo' = reg /\ ctl' = <<>>
    /\ UNCHANGED <<conn, writer, pcC, reg, msgs, gone, exited, closed, modem, past>>
-----------------------------------------------------------------------------
(***************************************************************************)
(* The broadcaster.                                                        *)
(***************************************************************************)

(* A receiver is taken out of the slice at its index. *)
Without(s, r) ==
    IF \E i \in DOMAIN s : s[i] = r
    THEN RemoveAt(s, CHOOSE i \in DOMAIN s : s[i] = r)
    ELSE s

Deliver ==
    /\ togo # <<>>
    /\ LET r == Head(togo)
       IN  /\ Len(msgs[r]) < RecvCap
           /\ msgs' = [msgs EXCEPT ![r] = Append(@, cast)]
    /\ togo' = Tail(togo)
    /\ UNCHANGED <<conn, writer, pcC, reg, cast, gone, exited, loop, modem, past>>

(* Over TCP the frames of a Write and the commands go different ways, but  *)
(* one goroutine writes both: while it waits for one it takes neither.     *)
Stream(kind) == IF IsTCP THEN kind ELSE "ctrl"
Blocked == \E s \in DOMAIN tx : Len(tx[s]) = TxCap

(* The owner of receiver r is in a send to the TNC that does not go on.  A *)
(* goroutine that is not receives its messages within 500 ms.              *)
Stuck(r) ==
    Blocked /\ IF r = "write" THEN pcW = "send" ELSE pcC \in {"send", "abort"}

(* Mutant: no timeout. *)
NoReceiverTimeout == FALSE /\ UNCHANGED vars

(* After 500 ms a receiver with a full channel is dropped. *)
ReceiverTimeout ==
    /\ togo # <<>>
    /\ LET r == Head(togo)
       IN  /\ Len(msgs[r]) = RecvCap /\ Stuck(r)
           /\ gone' = gone \cup {r}
           /\ reg' = Without(reg, r)
    /\ togo' = Tail(togo)
    /\ UNCHANGED <<conn, writer, pcC, cast, msgs, exited, loop, modem, past>>

(* Close of the broadcaster: every receiver's channel is closed. *)
Exit ==
    /\ closed /\ togo = <<>> /\ ~exited
    /\ exited' = TRUE
    /\ gone' = gone \cup {reg[i] : i \in DOMAIN reg}
    /\ reg' = <<>>
    /\ UNCHANGED <<conn, writer, pcC, togo, cast, msgs, loop, modem, past>>

(* Listen blocks while the broadcaster is passing a message on, and for    *)
(* ever when it has returned.                                              *)
Listen(r) ==
    /\ togo = <<>> /\ ~exited
    /\ reg' = Append(reg, r)
    /\ UNCHANGED <<togo, cast, msgs, gone, exited>>

(* The receiver is closed when the function that registered it returns. *)
CloseReceiver(r) ==
    /\ reg' = Without(reg, r)
    /\ togo' = Without(togo, r)
    /\ msgs' = [msgs EXCEPT ![r] = <<>>]
    /\ gone' = gone \ {r}
    /\ UNCHANGED <<cast, exited>>

NextMsg(r) ==
    /\ msgs' = [msgs EXCEPT ![r] = Tail(@)]
    /\ UNCHANGED <<reg, togo, cast, gone, exited>>
-----------------------------------------------------------------------------
(***************************************************************************)
(* Write and Flush.                                                        *)
(***************************************************************************)
CallWrite ==
    /\ pcW = "idle" /\ ~stop /\ next \in Chunk
    /\ pcW' = "listen" /\ try' = 1
    /\ UNCHANGED <<conn, next, stop, pcC, caster, loop, modem, past>>

WriteListen ==
    /\ pcW = "listen"
    /\ Listen("write")
    /\ pcW' = "send"
    /\ UNCHANGED <<conn, try, next, stop, pcC, loop, modem, past>>

Transfer(kind, f) ==
    /\ ~Blocked
    /\ tx' = [tx EXCEPT ![Stream(kind)] = Append(@, f)]

(* A send on the closed channel dataOut, or a write that fails because the *)
(* TNC is gone, ends the program.                                          *)
WriteSend ==
    /\ pcW = "send"
    /\ \/ ~closed /\ Transfer("data", [data |-> next]) /\ pcW' = "wait"
       \/ (closed \/ tnc = "dead") /\ pcW' = "panic" /\ tx' = tx
    /\ UNCHANGED <<conn, try, next, stop, pcC, caster, loop, line, queue, tnc, past>>

(* Mutant: the lock stays open. *)
NoLock(m) == FALSE

(* Write locks the flushLock when it sees a BUFFER report. *)
Locks(m) == m.cmd = "BUFFER"

Resend(m) == m.cmd = "CRCFAULT"

(* Mutant: one retry too many. *)
FourTries == 4

MaxTries == 3

WriteReturn(chunks, s) ==
    /\ pcW' = "idle"
    /\ next' = next + 1
    /\ stop' = s
    /\ ok' = ok \cup chunks
    /\ CloseReceiver("write")

WriteWait ==
    /\ pcW = "wait" /\ msgs["write"] # <<>>
    /\ LET m == Head(msgs["write"])
       IN  /\ locked' = (locked \/ Locks(m))
           /\ seen' = IF m.cmd = "BUFFER" THEN m.k ELSE seen
           /\ CASE m.cmd = "BUFFER" ->
                     WriteReturn({next}, stop) /\ UNCHANGED try
                [] m.cmd # "BUFFER" /\ Resend(m) /\ try = MaxTries ->
                     WriteReturn({}, TRUE) /\ UNCHANGED try
                [] m.cmd # "BUFFER" /\ Resend(m) /\ try # MaxTries ->
                     /\ try' = try + 1 /\ pcW' = "send" /\ NextMsg("write")
                     /\ UNCHANGED <<next, stop, ok>>
                [] OTHER -> NextMsg("write") /\ UNCHANGED <<pcW, try, next, stop, ok>>
    /\ UNCHANGED <<buffer, waiters, eof, pcC, loop, modem, taken, aired, flushed,
                   flushedTo, noise, faults>>

(* Mutant: Write does not look at eofChan. *)
NoWriteEOF == FALSE /\ UNCHANGED vars

WriteEOF ==
    /\ pcW = "wait" /\ eof
    /\ WriteReturn({}, TRUE)
    /\ UNCHANGED <<conn, try, pcC, loop, modem, taken, aired, flushed, seen, flushedTo,
                   noise, faults>>

(* WaitChan: the channel is closed when the lock is open. *)
WaitChan(w) == waiters' = IF locked THEN waiters \cup {w} ELSE waiters

CallFlush ==
    /\ pcW = "idle" /\ ~stop /\ ok # flushed
    /\ pcW' = "flush"
    /\ WaitChan("flush")
    /\ UNCHANGED <<buffer, locked, eof, try, next, stop, pcC, caster, loop, modem, past>>

FlushReturn ==
    /\ pcW = "flush"
    /\ pcW' = "idle"
    /\ \/ /\ "flush" \notin waiters
          /\ flushed' = ok /\ flushedTo' = seen /\ UNCHANGED <<stop, waiters>>
       \/ /\ eof /\ stop' = TRUE /\ waiters' = waiters \ {"flush"}
          /\ UNCHANGED <<flushed, flushedTo>>
    /\ UNCHANGED <<buffer, locked, eof, try, next, pcC, caster, loop, modem, taken,
                   aired, ok, seen, noise, faults>>
-----------------------------------------------------------------------------
(***************************************************************************)
(* Close.                                                                  *)
(***************************************************************************)
CallClose ==
    /\ pcC = "idle"
    /\ pcC' = "flush"
    /\ WaitChan("close")
    /\ UNCHANGED <<buffer, locked, eof, writer, caster, loop, modem, past>>

(* Mutant: Close waits for the flush without a limit. *)
CloseNeedsFlush ==
    /\ pcC = "flush" /\ "close" \notin waiters
    /\ pcC' = "listen"
    /\ UNCHANGED <<conn, writer, caster, loop, modem, past>>

(* The data is flushed, or 30 seconds have passed. *)
CloseFlushed ==
    /\ pcC = "flush"
    /\ pcC' = "listen"
    /\ waiters' = waiters \ {"close"}
    /\ UNCHANGED <<buffer, locked, eof, writer, caster, loop, modem, past>>

CloseListen ==
    /\ pcC = "listen"
    /\ Listen("close")
    /\ pcC' = "send"
    /\ UNCHANGED <<conn, writer, loop, modem, past>>

CloseSend ==
    /\ pcC = "send"
    /\ \/ ~closed /\ Transfer("ctrl", Report("DISCONNECT")) /\ pcC' = "wait"
       \/ closed /\ pcC' = "panic" /\ tx' = tx
    /\ UNCHANGED <<conn, writer, caster, loop, line, queue, tnc, past>>

CloseWait ==
    /\ pcC = "wait"
    /\ \/ /\ msgs["close"] # <<>>
          /\ IF Head(msgs["close"]).cmd = "DISCONNECTED"
             THEN pcC' = "done" /\ CloseReceiver("close")
             ELSE pcC' = pcC /\ NextMsg("close")
       \/ /\ msgs["close"] = <<>> /\ "close" \in gone
          /\ pcC' = "done" /\ CloseReceiver("close")
    /\ UNCHANGED <<conn, writer, loop, modem, past>>

(* No DISCONNECTED within 30 seconds. *)
CloseTimeout ==
    /\ pcC = "wait"
    /\ pcC' = "abort"
    /\ UNCHANGED <<conn, writer, caster, loop, modem, past>>

CloseAbort ==
    /\ pcC = "abort"
    /\ \/ ~closed /\ Transfer("ctrl", Report("ABORT")) /\ pcC' = "done"
       \/ closed /\ pcC' = "panic" /\ tx' = tx
    /\ CloseReceiver("close")
    /\ UNCHANGED <<conn, writer, loop, line, queue, tnc, past>>
-----------------------------------------------------------------------------
(***************************************************************************)
(* The TNC.                                                                *)
(***************************************************************************)
Emit(m) == Len(line) < LineCap /\ line' = Append(line, m)

Arrives(s, field) == tx[s] # <<>> /\ field \in DOMAIN Head(tx[s])

Accept(s) == tx' = [tx EXCEPT ![s] = Tail(@)]

(* Data is queued; without a connection it is ignored. *)
TakeData ==
    /\ \E s \in DOMAIN tx :
         /\ Arrives(s, "data") /\ Accept(s)
         /\ LET c == Head(tx[s]).data
            IN  \/ /\ tnc = "connected"
                   /\ queue' = Append(queue, c) /\ taken' = Append(taken, c)
                   /\ Emit(Buffer(Len(queue) + 1, Len(taken) + 1))
                \/ tnc = "disconnected" /\ UNCHANGED <<queue, taken, line>>
    /\ UNCHANGED <<conn, writer, pcC, caster, loop, tnc, aired, ok, flushed, seen,
                   flushedTo, noise, faults>>

DamagedData ==
    /\ ~IsTCP /\ faults < MaxFaults /\ tnc # "dead"
    /\ Arrives("ctrl", "data") /\ Accept("ctrl")
    /\ Emit(Report("CRCFAULT"))
    /\ faults' = faults + 1
    /\ UNCHANGED <<conn, writer, pcC, caster, loop, queue, tnc, taken, aired, ok,
                   flushed, seen, flushedTo, noise>>

Transmit ==
    /\ tnc = "connected" /\ queue # <<>>
    /\ queue' = Tail(queue)
    /\ aired' = Append(aired, Head(queue))
    /\ Emit(Buffer(Len(queue) - 1, Len(taken)))
    /\ UNCHANGED <<conn, writer, pcC, caster, loop, tx, tnc, taken, ok, flushed,
                   seen, flushedTo, noise, faults>>

(* The connection ends and what is queued is lost. *)
Hangup ==
    /\ tnc = "connected"
    /\ tnc' = "disconnected" /\ queue' = <<>>
    /\ Emit(Report("DISCONNECTED"))
    /\ UNCHANGED <<conn, writer, pcC, caster, loop, tx, past>>

(* DISCONNECT and ABORT; without a connection they are ignored. *)
TakeCommand ==
    /\ Arrives("ctrl", "cmd") /\ Accept("ctrl")
    /\ \/ /\ tnc = "connected"
          /\ tnc' = "disconnected" /\ queue' = <<>>
          /\ Emit(Report("DISCONNECTED"))
       \/ tnc = "disconnected" /\ UNCHANGED <<tnc, queue, line>>
    /\ UNCHANGED <<conn, writer, pcC, caster, loop, past>>

OtherReport ==
    /\ noise < MaxNoise /\ tnc # "dead"
    /\ noise' = noise + 1
    /\ Emit(Report("PTT"))
    /\ UNCHANGED <<conn, writer, pcC, caster, loop, tx, queue, tnc, taken, aired, ok,
                   flushed, seen, flushedTo, faults>>

Die ==
    /\ MayDie /\ tnc # "dead"
    /\ tnc' = "dead"
    /\ Emit(Report("EOF"))
    /\ UNCHANGED <<conn, writer, pcC, caster, loop, tx, queue, past>>
-----------------------------------------------------------------------------
Init ==
    /\ buffer = 0 /\ locked = FALSE /\ waiters = {} /\ eof = FALSE
    /\ pcW = "idle" /\ try = 1 /\ next = 1 /\ stop = FALSE /\ pcC = "idle"
    /\ reg = <<>> /\ togo = <<>> /\ cast = Report("PTT")
    /\ msgs = [r \in Receiver |-> <<>>] /\ gone = {} /\ exited = FALSE
    /\ ctl = <<>> /\ closed = FALSE
    /\ tx = [s \in {"data", "ctrl"} |-> <<>>] /\ line = <<>>
    /\ queue = <<>> /\ tnc = "connected"
    /\ taken = <<>> /\ aired = <<>> /\ ok = {} /\ flushed = {}
    /\ seen = 0 /\ flushedTo = 0
    /\ noise = 0 /\ faults = 0

ControlLoop == HandleReport \/ CloseTNC \/ Broadcast
Broadcaster == Deliver \/ ReceiverTimeout \/ Exit
WriteStep == WriteListen \/ WriteSend \/ WriteWait \/ WriteEOF \/ FlushReturn
CloseStep == CloseFlushed \/ CloseListen \/ CloseSend \/ CloseWait \/ CloseTimeout
             \/ CloseAbort
ModemStep == TakeData \/ TakeCommand

Next ==
    \/ ControlLoop \/ Broadcaster \/ WriteStep \/ CloseStep
    \/ CallWrite \/ CallFlush \/ CallClose
    \/ ModemStep \/ Transmit \/ DamagedData \/ Hangup \/ OtherReport \/ Die

Spec == Init /\ [][Next]_vars

(* Every goroutine is scheduled, its timers fire, and the TNC reads its    *)
(* lines and transmits.                                                    *)
Fairness ==
    /\ WF_vars(ControlLoop) /\ WF_vars(Broadcaster)
    /\ WF_vars(WriteStep) /\ WF_vars(CloseStep)
    /\ WF_vars(ModemStep) /\ WF_vars(Transmit)

FairSpec == Spec /\ Fairness
-----------------------------------------------------------------------------
(***************************************************************************)
(* Correctness.                                                            *)
(***************************************************************************)

(* When Flush returns without an error, as many chunks have been           *)
(* transmitted as the TNC had queued when it made the report that ended    *)
(* the last Write: the lock that this Write closed is not opened by a      *)
(* report from before it, however far the control loop, the broadcaster    *)
(* and the goroutine in Write are apart.                                   *)
FlushCoversCounted == flushedTo <= Len(aired)

(* When Flush returns without an error, every chunk written before it has  *)
(* been transmitted, as the only caller of Flush expects.  It is violated: *)
(* the report that ends a Write may be that of an earlier chunk.           *)
FlushMeansDrained ==
    \A c \in flushed : \E i \in DOMAIN aired : aired[i] = c

(* Close returns, with or without a clean disconnect. *)
CloseReturns == pcC # "idle" ~> pcC = "done"

(* The control loop never stops: every report is handled, whatever the     *)
(* goroutines that have registered for reports are doing.                  *)
ControlLoopLive == line # <<>> ~> line = <<>>

(* When the link has ended, a Write or Flush under way returns. *)
EofReleases == eof /\ pcW # "idle" ~> pcW = "idle"
=============================================================================
