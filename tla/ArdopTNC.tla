------------------------------ MODULE ArdopTNC ------------------------------
(***************************************************************************)
(* The life of connections on an ARDOP TNC, one after the other: Dial      *)
(* (arqCall, MyCall, a new tncConn) or Listen and Accept, Read, Close, and *)
(* the control loop that passes received data to tnc.dataIn and ends the   *)
(* connection (eof). Dial and the listener set tnc.connected and tnc.data  *)
(* in goroutines of their own, some time after the control loop has passed *)
(* CONNECTED on, and a Disconnect started by the control loop ends the     *)
(* connection it finds; none of these fields is guarded. Writing is in     *)
(* ArdopConn.                                                              *)
(***************************************************************************)
EXTENDS Integers, Sequences, SequencesExt, FiniteSets

CONSTANTS
    Modes,       \* what the user does: subset of {"dial", "listen"}
    IsTCP,       \* commands and data come on two streams
    DataCap,     \* frames tnc.dataIn holds (4096)
    MaxLinks,    \* bound: ARQ links
    MaxData      \* bound: data frames from the remote, over all links

ASSUME TNCAssumption ==
    /\ Modes \subseteq {"dial", "listen"} /\ IsTCP \in BOOLEAN
    /\ DataCap \in Nat \ {0}
    /\ MaxLinks \in Nat /\ MaxData \in Nat

Receiver == {"dial", "get", "listen", "close"}
Link == 1 .. MaxLinks

\* What the TNC sends: "NEWSTATE" with its state, "CONNECTED", "TARGET", ...
\* link is the link it is about; n numbers the data of a link.
Frame(k, v, link, n) == [k |-> k, v |-> v, link |-> link, n |-> n]

VARIABLES
    mode,
    (* TNC *)
    state, connected,
    data,        \* the present tncConn, 0 for nil
    cur,         \* the channel that is tnc.dataIn
    chans,       \* the channels made so far: contents, and whether closed
    conns,       \* the connections made so far
    (* goroutines *)
    recv,        \* recv[r]: a receiver of the broadcaster
    u,           \* the user's: "idle", "call", "get", "open", "close"
    open,        \* the connection it has
    l, target,   \* the listener's: "off", "on", "offer"
    disc,        \* how many of Disconnect have been started and have not run
    (* the TNC program and the radio *)
    stream,      \* frames on their way to the host
    radio,       \* "down", "calling", "up"
    link, sent,  \* the last link and the data received on it
    budget,      \* data frames still to come (bound)
    (* history *)
    opened,      \* links whose CONNECTED the control loop has passed on
    thrown,      \* data frames that found tnc.dataIn full for a minute
    orphans      \* links that ended before there was a tncConn for them

tncVars   == <<state, connected, data, cur, chans, conns>>
userVars  == <<u, open, l, target>>
radioVars == <<stream, radio, link, sent, budget>>
past      == <<opened, thrown, orphans>>
vars == <<mode, tncVars, recv, userVars, disc, radioVars, past>>

Init ==
    /\ mode \in Modes
    /\ state = "DISC" /\ connected = FALSE /\ data = 0
    /\ cur = 1 /\ chans = <<[q |-> <<>>, closed |-> FALSE]>> /\ conns = <<>>
    /\ recv = [r \in Receiver |-> [on |-> r = "listen" /\ mode = "listen", q |-> <<>>]]
    /\ u = "idle" /\ open = 0
    /\ l = (IF mode = "listen" THEN "on" ELSE "off") /\ target = FALSE /\ disc = 0
    /\ stream = <<>> /\ radio = "down" /\ link = 0 /\ sent = 0 /\ budget = MaxData
    /\ opened = {} /\ thrown = {} /\ orphans = {}

-----------------------------------------------------------------------------
(* The control loop                                                        *)

\* Mutant of Eof: the next connection gets the channel that was closed
EofSameChannel(f) ==
    IF data # 0
    THEN /\ chans' = [chans EXCEPT ![cur].closed = TRUE]
         /\ connected' = FALSE /\ data' = 0
         /\ UNCHANGED <<cur, orphans>>
    ELSE UNCHANGED <<chans, cur, connected, data, orphans>>

\* Mutant of Eof: the channel is left open for those who still read
EofOpen(f) ==
    IF data # 0
    THEN /\ chans' = Append(chans, [q |-> <<>>, closed |-> FALSE])
         /\ cur' = Len(chans) + 1
         /\ connected' = FALSE /\ data' = 0
         /\ UNCHANGED orphans
    ELSE UNCHANGED <<chans, cur, connected, data, orphans>>

\* Mutant of Eof: connected is left to the next Dial
EofStillConnected(f) ==
    IF data # 0
    THEN /\ chans' = Append([chans EXCEPT ![cur].closed = TRUE], [q |-> <<>>, closed |-> FALSE])
         /\ cur' = Len(chans) + 1
         /\ data' = 0
         /\ UNCHANGED <<connected, orphans>>
    ELSE UNCHANGED <<chans, cur, connected, data, orphans>>

\* eof: the readers see the end, and the next connection has its own channel.
\* It does nothing while there is no tncConn.
Eof(f) ==
    IF data # 0
    THEN /\ chans' = Append([chans EXCEPT ![cur].closed = TRUE], [q |-> <<>>, closed |-> FALSE])
         /\ cur' = Len(chans) + 1
         /\ connected' = FALSE /\ data' = 0
         /\ UNCHANGED orphans
    ELSE /\ orphans' = IF f.link \in opened /\ \A i \in DOMAIN conns : conns[i].link # f.link
                       THEN orphans \cup {f.link} ELSE orphans
         /\ UNCHANGED <<chans, cur, connected, data>>

\* Every receiver that is registered gets the message
Broadcast(f) == recv' = [r \in Receiver |->
    IF recv[r].on THEN [recv[r] EXCEPT !.q = Append(@, f)] ELSE recv[r]]

\* Mutant of PassData: a goroutine for every frame, so that it need not wait
PassDataAsync(f) ==
    /\ IF connected
       THEN \E q \in {Append(chans[cur].q, <<f.link, f.n>>), <<<<f.link, f.n>>>> \o chans[cur].q} :
               chans' = [chans EXCEPT ![cur].q = q]
       ELSE UNCHANGED chans
    /\ UNCHANGED <<thrown, disc>>

\* Data is for the present connection; without one it is dropped. The control
\* loop waits while tnc.dataIn is full, and after a minute throws the frame away
\* and has the TNC disconnected by another goroutine.
PassData(f) ==
    \/ ~connected /\ UNCHANGED <<chans, thrown, disc>>
    \/ /\ connected /\ Len(chans[cur].q) < DataCap
       /\ chans' = [chans EXCEPT ![cur].q = Append(@, <<f.link, f.n>>)]
       /\ UNCHANGED <<thrown, disc>>
    \/ /\ connected /\ Len(chans[cur].q) = DataCap
       /\ thrown' = thrown \cup {<<f.link, f.n>>} /\ disc' = disc + 1
       /\ UNCHANGED chans

\* runControlLoop: one frame
Handle(f) ==
    \/ /\ f.k = "data"
       /\ PassData(f)
       /\ UNCHANGED <<state, connected, data, cur, recv, opened, orphans>>
    \/ /\ f.k # "data"
       /\ state' = IF f.k = "DISCONNECTED" THEN "DISC"
                   ELSE IF f.k = "NEWSTATE" THEN f.v ELSE state
       /\ IF f.k = "DISCONNECTED" \/ (f.k = "NEWSTATE" /\ f.v = "DISC") THEN Eof(f)
          ELSE UNCHANGED <<chans, cur, connected, data, orphans>>
       /\ opened' = IF f.k = "CONNECTED" THEN opened \cup {f.link} ELSE opened
       /\ Broadcast(f)
       /\ UNCHANGED <<thrown, disc>>

\* decodeTNCStream and runControlLoop: the next frame of the stream, or of one
\* of the two streams
ControlLoop ==
    /\ \E i \in DOMAIN stream :
        /\ \A j \in 1 .. i - 1 : IsTCP /\ (stream[j].k = "data") # (stream[i].k = "data")
        /\ Handle(stream[i])
        /\ stream' = RemoveAt(stream, i)
    /\ UNCHANGED <<mode, conns, userVars, radio, link, sent, budget>>

-----------------------------------------------------------------------------
(* The user                                                                *)

Listening  == [on |-> TRUE, q |-> <<>>]
Closed     == [on |-> FALSE, q |-> <<>>]
Message(r) == Head(recv[r].q)
Next1(r)   == [recv EXCEPT ![r].q = Tail(@)]

\* A command to the TNC (external), which answers at once
Answers(frames) == stream' = stream \o frames

\* What the TNC reports at the end of a link, in either order
Ends(k) == { <<Frame("DISCONNECTED", "", k, 0), Frame("NEWSTATE", "DISC", k, 0)>>,
             <<Frame("NEWSTATE", "DISC", k, 0), Frame("DISCONNECTED", "", k, 0)>> }

\* The radio link goes down
Drop == radio' = "down" /\ \E fs \in Ends(link) : Answers(fs)

\* DISCONNECT: the TNC hangs up, now or when it gets to it (LinkEnds)
HangUp == (radio # "down" /\ Drop) \/ UNCHANGED <<stream, radio>>

\* Disconnect, started by PassData, which runs some time later: by then the TNC
\* may be idle, or have another link.
Disconnect ==
    /\ disc > 0 /\ disc' = disc - 1
    /\ \/ state = "DISC" /\ UNCHANGED <<chans, cur, connected, data, orphans, stream, radio>>
       \/ state # "DISC" /\ Eof(Frame("", "", 0, 0)) /\ HangUp
    /\ UNCHANGED <<mode, state, conns, recv, userVars, link, sent, budget, opened, thrown>>

\* newConn: the tncConn reads from what tnc.dataIn is now
NewConn(k) ==
    /\ conns' = Append(conns, [ch |-> cur, link |-> k, got |-> <<>>, eof |-> FALSE])
    /\ data' = Len(conns) + 1

\* arqCall: refused when the TNC is not idle
Dial ==
    /\ mode = "dial" /\ u = "idle" /\ link < MaxLinks /\ state = "DISC"
    /\ recv' = [recv EXCEPT !["dial"] = Listening]
    /\ u' = "call"
    /\ IF radio = "down"
       THEN /\ Answers(<<Frame("NEWSTATE", "ISS", link + 1, 0)>>)
            /\ radio' = "calling" /\ link' = link + 1 /\ sent' = 0
       ELSE Answers(<<Frame("FAULT", "", link, 0)>>) /\ UNCHANGED <<radio, link, sent>>
    /\ UNCHANGED <<mode, tncVars, open, l, target, budget, disc, past>>

\* arqCall: the messages it waits for
DialWait ==
    /\ u = "call" /\ recv["dial"].q # <<>>
    /\ LET f == Message("dial") IN
       \/ /\ f.k = "FAULT" \/ (f.k = "NEWSTATE" /\ state = "DISC")
          /\ u' = "idle" /\ recv' = [recv EXCEPT !["dial"] = Closed]
          /\ UNCHANGED <<connected, open, stream>>
       \/ /\ f.k = "CONNECTED"
          /\ connected' = TRUE
          /\ u' = "get" /\ open' = f.link
          /\ recv' = [recv EXCEPT !["dial"] = Closed, !["get"] = Listening]
          /\ Answers(<<Frame("MYCALL", "", f.link, 0)>>)
       \/ /\ f.k \notin {"FAULT", "CONNECTED"} /\ ~(f.k = "NEWSTATE" /\ state = "DISC")
          /\ recv' = Next1("dial")
          /\ UNCHANGED <<connected, u, open, stream>>
    /\ UNCHANGED <<mode, state, data, cur, chans, conns, l, target, radio, link, sent, budget, disc, past>>

\* DialBandwidth: MyCall has its answer, the connection is made
DialDone ==
    /\ u = "get" /\ recv["get"].q # <<>>
    /\ IF Message("get").k = "MYCALL"
       THEN /\ NewConn(open)
            /\ u' = "open" /\ open' = Len(conns) + 1
            /\ recv' = [recv EXCEPT !["get"] = Closed]
       ELSE recv' = Next1("get") /\ UNCHANGED <<conns, data, u, open>>
    /\ UNCHANGED <<mode, state, connected, cur, chans, l, target, radioVars, disc, past>>

\* The goroutine of Listen
Listener ==
    /\ l = "on" /\ recv["listen"].q # <<>>
    /\ LET f == Message("listen") IN
       /\ target' = CASE f.k = "TARGET" -> TRUE
                      [] f.k \in {"DISCONNECTED", "CANCELPENDING", "CONNECTED"} -> FALSE
                      [] OTHER -> target
       /\ IF f.k = "CONNECTED" /\ target
          THEN NewConn(f.link) /\ connected' = TRUE /\ l' = "offer"
          ELSE UNCHANGED <<conns, data, connected, l>>
    /\ recv' = Next1("listen")
    /\ UNCHANGED <<mode, state, cur, chans, u, open, radioVars, disc, past>>

Accept ==
    /\ l = "offer" /\ u = "idle"
    /\ u' = "open" /\ open' = Len(conns) /\ l' = "on"
    /\ UNCHANGED <<mode, tncVars, recv, target, radioVars, disc, past>>

\* Read: data, or the end of the connection
Read ==
    /\ u = "open" /\ ~conns[open].eof
    /\ LET c == conns[open].ch IN
       \/ /\ chans[c].q # <<>>
          /\ chans' = [chans EXCEPT ![c].q = Tail(@)]
          /\ conns' = [conns EXCEPT ![open].got = Append(@, Head(chans[c].q))]
       \/ /\ chans[c].q = <<>> /\ chans[c].closed
          /\ conns' = [conns EXCEPT ![open].eof = TRUE]
          /\ UNCHANGED chans
    /\ UNCHANGED <<mode, state, connected, data, cur, recv, userVars, radioVars, disc, past>>

\* Close asks the TNC to disconnect, whatever it is connected to
Close ==
    /\ u = "open"
    /\ recv' = [recv EXCEPT !["close"] = Listening]
    /\ u' = "close"
    /\ HangUp
    /\ UNCHANGED <<mode, tncVars, open, l, target, link, sent, budget, disc, past>>

\* Close returns when the link has ended
CloseWait ==
    /\ u = "close" /\ recv["close"].q # <<>>
    /\ LET f == Message("close") IN
       IF f.k = "DISCONNECTED" \/ (f.k = "NEWSTATE" /\ f.v = "DISC")
       THEN u' = "idle" /\ open' = 0 /\ recv' = [recv EXCEPT !["close"] = Closed]
       ELSE recv' = Next1("close") /\ UNCHANGED <<u, open>>
    /\ UNCHANGED <<mode, tncVars, l, target, radioVars, disc, past>>

\* After thirty seconds it sends ABORT, which ends a link at once
CloseTimeout ==
    /\ u = "close"
    /\ u' = "idle" /\ open' = 0 /\ recv' = [recv EXCEPT !["close"] = Closed]
    /\ IF radio = "down" THEN UNCHANGED <<stream, radio>> ELSE Drop
    /\ UNCHANGED <<mode, tncVars, l, target, link, sent, budget, disc, past>>

-----------------------------------------------------------------------------
(* The TNC program and the radio (external)                                *)

\* It takes seconds to make a link: what was on its way has arrived by then
Connects ==
    /\ stream = <<>>
    /\ \/ radio = "calling" /\ Answers(<<Frame("CONNECTED", "", link, 0)>>) /\ UNCHANGED <<link, sent>>
       \/ /\ mode = "listen" /\ radio = "down" /\ link < MaxLinks
          /\ Answers(<<Frame("TARGET", "", link + 1, 0), Frame("NEWSTATE", "IRS", link + 1, 0),
                       Frame("CONNECTED", "", link + 1, 0)>>)
          /\ link' = link + 1 /\ sent' = 0
    /\ radio' = "up"
    /\ UNCHANGED <<mode, tncVars, recv, userVars, budget, disc, past>>

RemoteData ==
    /\ radio = "up" /\ budget > 0
    /\ sent' = sent + 1 /\ budget' = budget - 1
    /\ Answers(<<Frame("data", "", link, sent + 1)>>)
    /\ UNCHANGED <<mode, tncVars, recv, userVars, radio, link, disc, past>>

\* The remote disconnects, the link breaks or the call is not answered
LinkEnds ==
    /\ radio \in {"calling", "up"} /\ Drop
    /\ UNCHANGED <<mode, tncVars, recv, userVars, link, sent, budget, disc, past>>

Idle == link = MaxLinks /\ radio = "down" /\ stream = <<>> /\ UNCHANGED vars

Next == \/ ControlLoop \/ Dial \/ DialWait \/ DialDone \/ Listener \/ Accept \/ Read
        \/ Close \/ CloseWait \/ CloseTimeout \/ Disconnect
        \/ Connects \/ RemoteData \/ LinkEnds \/ Idle

\* The driver's goroutines run, and a user who has a connection reads.
Fairness == /\ WF_vars(ControlLoop) /\ WF_vars(DialWait) /\ WF_vars(DialDone)
            /\ WF_vars(Listener) /\ WF_vars(Accept) /\ WF_vars(Read) /\ WF_vars(CloseWait)
            /\ WF_vars(CloseTimeout) /\ WF_vars(Disconnect)

Spec == Init /\ [][Next]_vars /\ Fairness

-----------------------------------------------------------------------------
(* Properties                                                              *)

\* The data of a connection, read and still to be read
Received(i) == conns[i].got \o (IF i = open \/ data = i THEN chans[conns[i].ch].q ELSE <<>>)

\* Every variable stays in its set, and tnc.dataIn is never a closed channel: the
\* control loop would panic when it sends on one.
TypeOK ==
    /\ state \in {"DISC", "ISS", "IRS"} /\ connected \in BOOLEAN
    /\ data \in 0 .. Len(conns) /\ cur \in DOMAIN chans /\ ~chans[cur].closed
    /\ u \in {"idle", "call", "get", "open", "close"} /\ l \in {"off", "on", "offer"}
    /\ radio \in {"down", "calling", "up"} /\ link \in 0 .. MaxLinks
    /\ sent \in 0 .. MaxData /\ budget \in 0 .. MaxData - sent
    /\ opened \subseteq Link /\ orphans \subseteq Link
    /\ thrown \subseteq Nat \X Nat /\ disc \in Nat

\* What a connection reads has no holes but the frames that were thrown away
\* because nobody read for a minute: data that comes before Dial or the listener
\* has set connected is dropped, and (over TCP) so is data overtaken by the end
\* of the link or by Disconnect, but nothing in between, and nothing comes out of
\* order.
NoHoles ==
    \A i \in DOMAIN conns : orphans = {} =>
        \A j \in 1 .. Len(Received(i)) - 1 :
            LET a == Received(i)[j]  b == Received(i)[j + 1] IN
            a[2] < b[2] /\ \A n \in a[2] + 1 .. b[2] - 1 : <<b[1], n>> \in thrown

\* A connection reads data of its own link only, unless a link ended between
\* CONNECTED and the making of its tncConn (then eof did nothing).
ReadsOwnLink ==
    \A i \in DOMAIN conns : orphans = {} =>
        \A j \in 1 .. Len(Received(i)) : Received(i)[j][1] = conns[i].link

\* The end of the link reaches a user who reads, unless it came before there was
\* a tncConn: eof then found nothing to end.
EofReaches ==
    \A k \in Link :
        (u = "open" /\ conns[open].link = k /\ (radio = "down" \/ link > k))
        ~> (u # "open" \/ conns[open].link # k \/ conns[open].eof \/ k \in orphans)

=============================================================================
