-------------------------------- MODULE Agwpe -------------------------------
(***************************************************************************)
(* The AGWPE driver (package transport/ax25/agwpe): one TCP connection to  *)
(* a TNC, one registered port and one AX.25 connection on it, dialled or   *)
(* accepted. Frames pass three demultiplexers, each a goroutine that hands *)
(* a frame to every client that wants its kind; a chain goroutine is a     *)
(* client of one and the source of the next:                               *)
(*                                                                         *)
(*   TNC.run -> tnc -> chain -> port -> chain -> conn -> data, answers     *)
(*                                                                         *)
(* A demultiplexer has room for one frame and drops what finds no room.    *)
(* Its mutex is held while a new client waits for the goroutine.           *)
(***************************************************************************)
EXTENDS Integers, Sequences, SequencesExt, FiniteSets

CONSTANTS
    Directions,  \* the values of inbound: accepted (TRUE), dialled (FALSE)
    DataCap,     \* room of the channel behind Read                    (10)
    MaxFrame,    \* MAXFRAME of the port
    MaxRemote,   \* bound: data frames from the remote station
    MaxWrites,   \* bound: calls of Write
    Reads        \* the user keeps reading

ASSUME AgwpeAssumption ==
    /\ Directions \subseteq BOOLEAN /\ Reads \in BOOLEAN /\ DataCap \in Nat \ {0}
    /\ MaxFrame \in Nat /\ MaxRemote \in Nat /\ MaxWrites \in Nat

Level  == {"tnc", "port", "conn"}
Chains == {"port", "conn"}
Above  == [c \in Chains |-> IF c = "port" THEN "tnc" ELSE "port"]

\* Frames: capabilities, registration, connected with/to, data, outstanding
\* frames, disconnected. n is the number of a data frame or the count of a "Y".
Frame == [k : {"g", "X", "C", "c", "D", "Y", "d"}, n : Nat]
F(k)  == [k |-> k, n |-> 0]
None  == F("none")

\* The clients of the demultiplexers and what they want
Client == Chains \cup {"caps", "reg", "connects", "disc", "data", "ack", "y", "end"}
Kinds  == [c \in Client |->
    CASE c = "port" -> {"g", "X", "C", "c", "D", "Y", "d"}
      [] c = "conn" -> {"C", "D", "Y", "d"}
      [] c = "caps" -> {"g"} [] c = "reg" -> {"X"} [] c = "connects" -> {"c"}
      [] c = "disc" -> {"d"} [] c = "data" -> {"D"} [] c = "ack" -> {"C", "d"}
      [] c = "y" -> {"Y"} [] c = "end" -> {"d"}]
Once   == {"caps", "reg", "disc", "ack", "y", "end"}

VARIABLES
    fromTNC,         \* the frames on their way from the TNC
    tcp,             \* it is up
    link,            \* the TNC's connection: "down", "calling", "up"
    lag, out,        \* data frames the TNC has taken, and those it counts
    owed,            \* history: of the frames it counted when Flush was called,
                     \*   those not acknowledged yet
    remote,          \* data frames the remote station has sent
    in,              \* in[l]: the channel of a demultiplexer
    closed,          \* closed[l]
    req,             \* req[l]: the client whose caller holds the mutex
    clients,         \* clients[l], in the order they came
    run,             \* run[l]: the frame in hand and the clients still to get it
    chain,           \* chain[c]: "off", "idle", "exited" or the frame in hand
    resp,            \* resp[c]: the channel of a client
    over,            \* the clients whose channel was closed; "nil" when one was nil
    cancelled,       \* the clients that were cancelled
    inbound,         \* the connection is accepted by handleInbound, not dialled
    teardown,        \* the goroutine that waits for the disconnect frame
    u,               \* where the user's goroutine is
    op,              \* what it waits for outstanding frames for
    expired,         \* the ten seconds of RegisterPort are over
    writes,          \* calls of Write that sent their frame
    conn,            \* the connection was handed to the user
    got, eof,        \* what Read returned
    lost,            \* data frames (0: a disconnect) that found no room,
                     \*   no client or a closed demultiplexer
    missed,          \* those of them that no client wanted
    late,            \* a wait was given up: an answer may come late
    flushed,         \* Flush returned nil and nothing was written since
    piled            \* history: the last Write found frames of earlier ones
                     \*   with the TNC

tncVars   == <<fromTNC, tcp, link, lag, out, owed, remote>>
demuxVars == <<in, closed, req, clients, run, chain, resp, over, cancelled, teardown>>
userVars  == <<inbound, u, op, expired, writes, conn, got, eof, lost, missed, late, flushed, piled>>
vars == <<tncVars, demuxVars, userVars>>

Init ==
    /\ fromTNC = <<>> /\ tcp = TRUE
    /\ link = "down" /\ lag = 0 /\ out = 0 /\ owed = 0 /\ remote = 0
    /\ in = [l \in Level |-> <<>>] /\ closed = [l \in Level |-> FALSE]
    /\ req = [l \in Level |-> "none"] /\ clients = [l \in Level |-> <<>>]
    /\ run = [l \in Level |-> [f |-> None, todo |-> {}, on |-> TRUE]]
    /\ chain = [c \in Chains |-> F("off")]
    /\ resp = [c \in Client |-> <<>>] /\ over = {} /\ cancelled = {}
    /\ teardown = "off"
    /\ inbound \in Directions /\ u = "newPort" /\ op = "none" /\ expired = FALSE /\ writes = 0
    /\ conn = FALSE /\ got = <<>> /\ eof = FALSE /\ lost = {} /\ missed = {} /\ late = FALSE
    /\ flushed = FALSE /\ piled = FALSE

-----------------------------------------------------------------------------
(* The demultiplexer                                                       *)

Free(l) == req[l] = "none"

\* The numbers of the frames in a sequence whose loss is told apart
Told(fs) == {fs[i].n : i \in {i \in DOMAIN fs : fs[i].k \in {"D", "d"}}}

\* demux.run: a new client
RunRequest(l) ==
    /\ run[l].on /\ run[l].todo = {} /\ req[l] # "none"
    /\ clients' = [clients EXCEPT ![l] = Append(@, req[l])]
    /\ req' = [req EXCEPT ![l] = "none"]
    /\ UNCHANGED <<in, closed, run, chain, resp, over, cancelled, teardown, tncVars, userVars>>

\* A chain takes a frame when it has none, the other clients have a buffer
Room(c) == IF c \in Chains THEN chain[c] = F("idle")
           ELSE Len(resp[c]) < IF c = "data" THEN DataCap ELSE 1

\* A client is taken out of the slice at its index
Drop(s, c) ==
    IF \E i \in DOMAIN s : s[i] = c
    THEN RemoveAt(s, CHOOSE i \in DOMAIN s : s[i] = c)
    ELSE s

\* The loop comes to the clients in the order they registered
First(l, todo) ==
    LET i == CHOOSE i \in DOMAIN clients[l] :
                /\ clients[l][i] \in todo
                /\ \A j \in 1 .. i - 1 : clients[l][j] \notin todo
    IN  clients[l][i]

\* Mutant of Deliver: a client without room is passed over
DeliverOrSkip(l, f, todo) ==
    /\ LET c == First(l, todo) IN
       /\ IF Room(c) /\ c \in Chains THEN chain' = [chain EXCEPT ![c] = f] ELSE UNCHANGED chain
       /\ IF Room(c) /\ c \notin Chains THEN resp' = [resp EXCEPT ![c] = Append(@, f)]
          ELSE UNCHANGED resp
       /\ IF Room(c) /\ c \in Once
          THEN over' = over \cup {c} /\ clients' = [clients EXCEPT ![l] = Drop(@, c)]
          ELSE UNCHANGED <<over, clients>>
       /\ run' = [run EXCEPT ![l].todo = todo \ {c},
                             ![l].f = IF todo = {c} THEN None ELSE f]
    /\ UNCHANGED <<lost, missed>>

\* The frame f goes to the first of the clients todo, which has room or was
\* cancelled; the others are next
Deliver(l, f, todo) ==
    /\ LET c == First(l, todo) IN
       /\ \/ /\ Room(c)
             /\ IF c \in Chains
                THEN chain' = [chain EXCEPT ![c] = f] /\ UNCHANGED resp
                ELSE resp' = [resp EXCEPT ![c] = Append(@, f)] /\ UNCHANGED chain
             /\ IF c \in Once
                THEN over' = over \cup {c} /\ clients' = [clients EXCEPT ![l] = Drop(@, c)]
                ELSE UNCHANGED <<over, clients>>
             /\ UNCHANGED lost
          \/ /\ c \in cancelled
             /\ over' = over \cup {c} /\ clients' = [clients EXCEPT ![l] = Drop(@, c)]
             /\ lost' = lost \cup Told(<<f>>)
             /\ UNCHANGED <<chain, resp>>
       /\ run' = [run EXCEPT ![l].todo = todo \ {c},
                             ![l].f = IF todo = {c} THEN None ELSE f]
    /\ UNCHANGED missed

\* demux.run: the next frame, for the clients that want its kind. It stays in
\* hand while the first of them has no room; a frame nobody wants is lost.
RunTake(l) ==
    /\ run[l].on /\ run[l].todo = {} /\ in[l] # <<>>
    /\ LET f == Head(in[l])
           wanting == {c \in Range(clients[l]) : f.k \in Kinds[c]}
       IN  \/ /\ wanting = {}
              /\ lost' = lost \cup Told(<<f>>) /\ missed' = missed \cup Told(<<f>>)
              /\ UNCHANGED <<run, chain, resp, over, clients>>
           \/ wanting # {} /\ Deliver(l, f, wanting)
           \/ /\ wanting # {} /\ ~Room(First(l, wanting))
              /\ run' = [run EXCEPT ![l].todo = wanting, ![l].f = f]
              /\ UNCHANGED <<lost, missed, chain, resp, over, clients>>
    /\ in' = [in EXCEPT ![l] = Tail(@)]
    /\ UNCHANGED <<closed, req, cancelled, teardown, tncVars,
                   u, op, expired, writes, conn, got, eof, late, flushed, piled, inbound>>

\* The frame in hand goes to the next client
RunDeliver(l) ==
    /\ run[l].todo # {}
    /\ Deliver(l, run[l].f, run[l].todo)
    /\ UNCHANGED <<in, closed, req, cancelled, teardown, tncVars,
                   u, op, expired, writes, conn, got, eof, late, flushed, piled, inbound>>

\* Mutant of RunExit: the channels of the clients stay open
RunExitSilent(l) ==
    /\ run[l].on /\ run[l].todo = {} /\ in[l] = <<>> /\ closed[l]
    /\ run' = [run EXCEPT ![l].on = FALSE]
    /\ clients' = [clients EXCEPT ![l] = <<>>]
    /\ UNCHANGED <<in, closed, req, chain, resp, over, cancelled, teardown, tncVars, userVars>>

\* The channel was closed and is empty: so are the channels of the clients
RunExit(l) ==
    /\ run[l].on /\ run[l].todo = {} /\ in[l] = <<>> /\ closed[l]
    /\ run' = [run EXCEPT ![l].on = FALSE]
    /\ over' = over \cup Range(clients[l])
    /\ clients' = [clients EXCEPT ![l] = <<>>]
    /\ UNCHANGED <<in, closed, req, chain, resp, cancelled, teardown, tncVars, userVars>>

\* Enqueue on a demultiplexer that is open
Enqueue(l, f) ==
    /\ in' = [in EXCEPT ![l] = IF @ = <<>> THEN <<f>> ELSE @]
    /\ lost' = IF in[l] # <<>> THEN lost \cup Told(<<f>>) ELSE lost

\* TNC.run: a frame from the TNC
TNCRun ==
    /\ fromTNC # <<>> /\ Free("tnc") /\ ~closed["tnc"]
    /\ Enqueue("tnc", Head(fromTNC))
    /\ fromTNC' = Tail(fromTNC)
    /\ UNCHANGED <<tcp, link, lag, out, owed, remote, closed, req, clients, run, chain, resp,
                   over, cancelled, teardown, u, op, expired, writes, conn, got, eof, missed,
                   late, flushed, piled, inbound>>

\* TNC.run: the read fails, the TNC is closed
TNCExit ==
    /\ fromTNC = <<>> /\ ~tcp /\ Free("tnc") /\ ~closed["tnc"]
    /\ closed' = [closed EXCEPT !["tnc"] = TRUE]
    /\ UNCHANGED <<in, req, clients, run, chain, resp, over, cancelled, teardown, tncVars, userVars>>

\* The goroutine of Chain: one frame on its way from a demultiplexer to the next
ChainForward(c) ==
    /\ chain[c] \in Frame /\ Free(c)
    /\ IF closed[c]
       THEN /\ chain' = [chain EXCEPT ![c] = F("exited")]
            /\ cancelled' = cancelled \cup {c}
            /\ lost' = lost \cup Told(<<chain[c]>>)
            /\ UNCHANGED in
       ELSE /\ Enqueue(c, chain[c])
            /\ chain' = [chain EXCEPT ![c] = F("idle")]
            /\ UNCHANGED cancelled
    /\ UNCHANGED <<closed, req, clients, run, resp, over, teardown, tncVars,
                   u, op, expired, writes, conn, got, eof, missed, late, flushed, piled, inbound>>

ChainExit(c) ==
    /\ chain[c] = F("idle") /\ c \in over /\ Free(c)
    /\ chain' = [chain EXCEPT ![c] = F("exited")]
    /\ cancelled' = cancelled \cup {c}
    /\ closed' = [closed EXCEPT ![c] = TRUE]
    /\ UNCHANGED <<in, req, clients, run, resp, over, teardown, tncVars, userVars>>

\* The goroutine of newConn: the disconnect frame ends the connection
Teardown ==
    \/ /\ teardown = "wait" /\ resp["disc"] # <<>>
       /\ teardown' = "closing"
       /\ cancelled' = cancelled \cup {"data"}
       /\ UNCHANGED closed
    \/ /\ teardown = "wait" /\ resp["disc"] = <<>> /\ "disc" \in over
       /\ teardown' = "end"
       /\ UNCHANGED <<cancelled, closed>>
    \/ /\ teardown = "closing" /\ Free("conn")
       /\ teardown' = "end"
       /\ closed' = [closed EXCEPT !["conn"] = TRUE]
       /\ UNCHANGED cancelled

TeardownStep ==
    /\ Teardown
    /\ UNCHANGED <<in, req, clients, run, chain, resp, over, tncVars, userVars>>
-----------------------------------------------------------------------------
(* The user's goroutine: RegisterPort, DialContext or Accept, and then     *)
(* Write, Flush and Close. A request for frames is made under the mutex    *)
(* and served by demux.run; what follows waits for that.                   *)

TncOnly == <<tcp, remote, owed>>
Rest    == <<inbound, op, expired, writes, conn, got, eof, lost, missed, late, flushed, piled>>

Served(l, c) == req[l] # c

\* NextFrame: on a closed demultiplexer the channel is closed at once
NextFrame(l, c, then) ==
    /\ Free(l)
    /\ resp' = [resp EXCEPT ![c] = <<>>]
    /\ IF closed[l] THEN over' = over \cup {c} /\ UNCHANGED req
       ELSE over' = over \ {c} /\ req' = [req EXCEPT ![l] = c]
    /\ u' = then
    /\ UNCHANGED <<in, closed, clients, run, chain, cancelled, teardown>>

\* Frames: on a closed demultiplexer the channel is nil, and never closed
Frames(l, c, then) ==
    /\ Free(l)
    /\ IF closed[l] THEN over' = over \cup {"nil"} /\ UNCHANGED req
       ELSE req' = [req EXCEPT ![l] = c] /\ UNCHANGED over
    /\ u' = then
    /\ UNCHANGED <<in, closed, clients, run, chain, resp, cancelled, teardown>>

\* Chain: panics on a closed demultiplexer. One that is closed after that was
\* looked at gives it a nil channel, and its goroutine never ends.
Chain(l, c, at, frames, started, then) ==
    \/ /\ u = at /\ Free(l)
       /\ u' = IF closed[l] THEN "panic" ELSE frames
       /\ UNCHANGED <<demuxVars, tncVars, Rest>>
    \/ /\ u = frames
       /\ Frames(l, c, started)
       /\ UNCHANGED <<tncVars, Rest>>
    \/ /\ u = started /\ Served(l, c)
       /\ chain' = IF "nil" \in over THEN chain ELSE [chain EXCEPT ![c] = F("idle")]
       /\ u' = then
       /\ UNCHANGED <<in, closed, req, clients, run, resp, over, cancelled, teardown,
                      tncVars, Rest>>

\* What the TNC (external) does with a frame: it answers or, where it need not
\* know the frame, does not. A data frame is taken at once and counted later.
TNCTakes(f) ==
    /\ \/ /\ f.k \notin {"C", "D"} /\ (f.k = "d" => link \in {"calling", "up"})
          /\ \E n \in CASE f.k = "X" -> {0, 1} [] f.k = "Y" -> {out} [] OTHER -> {0} :
                 fromTNC' = Append(fromTNC, [k |-> f.k, n |-> n])
       \/ f.k \in {"g", "C", "D", "Y", "d"} /\ UNCHANGED fromTNC
    /\ link' = CASE f.k = "C" /\ link = "down" -> "calling"
                [] f.k = "d" /\ fromTNC' # fromTNC -> "gone"
                [] OTHER -> link
    /\ lag' = IF link' # "up" THEN 0 ELSE IF f.k = "D" THEN lag + 1 ELSE lag
    /\ out' = IF link' # "up" THEN 0 ELSE out

\* TNC.write: fails once the TNC was closed; on a connection that is down it
\* fails or seems to succeed
Send(f, ok, failed) ==
    \/ tcp /\ ~closed["tnc"] /\ u' = ok /\ TNCTakes(f)
    \/ ~tcp /\ ~closed["tnc"] /\ u' = ok /\ UNCHANGED <<fromTNC, link, lag, out>>
    \/ (~tcp \/ closed["tnc"]) /\ u' = failed /\ UNCHANGED <<fromTNC, link, lag, out>>

\* The caller is done with the channel of a client. Nobody waits on a client
\* whose caller is gone: its channel has room for the frame it asked for.
Forget(l, c) ==
    /\ resp' = [resp EXCEPT ![c] = <<>>]
    /\ over' = over \ {c}
    /\ clients' = [clients EXCEPT ![l] = Drop(@, c)]
    /\ run' = [run EXCEPT ![l].todo = @ \ {c},
                          ![l].f = IF run[l].todo \subseteq {c} THEN None ELSE @]
    /\ UNCHANGED <<in, closed, req, chain, cancelled, teardown>>

\* newPort: the port's demultiplexer is chained to the TNC's
NewPort == Chain("tnc", "port", "newPort", "newPort1", "newPort2", "caps")

\* register: the capabilities, which may be missing, and the registration.
\* When that fails or takes more than ten seconds the TNC is closed.
GetCapabilities ==
    \/ u = "caps" /\ NextFrame("port", "caps", "caps1") /\ UNCHANGED <<tncVars, Rest>>
    \/ /\ u = "caps1" /\ Served("port", "caps")
       /\ Send(F("g"), "capsWait", "reg")
       /\ UNCHANGED <<demuxVars, TncOnly, Rest>>
    \/ /\ u = "capsWait" /\ (resp["caps"] # <<>> \/ "caps" \in over \/ expired)
       /\ u' = "reg"
       /\ Forget("port", "caps")
       /\ UNCHANGED <<tncVars, Rest>>

Register ==
    \/ u = "reg" /\ NextFrame("port", "reg", "reg1") /\ UNCHANGED <<tncVars, Rest>>
    \/ /\ u = "reg1" /\ Served("port", "reg")
       /\ Send(F("X"), "regWait", "regFailed")
       /\ UNCHANGED <<demuxVars, TncOnly, Rest>>
    \/ /\ u = "regWait" /\ (resp["reg"] # <<>> \/ "reg" \in over \/ expired)
       /\ u' = IF resp["reg"] # <<>> /\ Head(resp["reg"]).n = 1 THEN "ready" ELSE "regFailed"
       /\ expired' = FALSE
       /\ Forget("port", "reg")
       /\ UNCHANGED <<tncVars, inbound, op, writes, conn, got, eof, lost, missed, late, flushed, piled>>
    \/ \* the context of RegisterPort
       /\ u \in {"capsWait", "regWait"} /\ ~expired /\ expired' = TRUE
       /\ UNCHANGED <<demuxVars, tncVars, u, inbound, op, writes, conn, got, eof, lost, missed,
                      late, flushed, piled>>
    \/ /\ u = "regFailed" /\ Free("tnc")
       /\ closed' = [closed EXCEPT !["tnc"] = TRUE]
       /\ tcp' = FALSE
       /\ u' = "done"
       /\ UNCHANGED <<in, req, clients, run, chain, resp, over, cancelled, teardown,
                      fromTNC, link, lag, out, owed, remote, Rest>>

\* handleInbound waits for a station that calls
HandleInbound ==
    /\ inbound
    /\ \/ u = "ready" /\ Frames("port", "connects", "listen") /\ UNCHANGED <<tncVars, Rest>>
       \/ /\ u = "listen" /\ Served("port", "connects") /\ resp["connects"] # <<>>
          /\ u' = "newConn"
          /\ resp' = [resp EXCEPT !["connects"] = <<>>]
          /\ UNCHANGED <<in, closed, req, clients, run, chain, over, cancelled, teardown,
                         tncVars, Rest>>
       \/ /\ u = "listen" /\ "connects" \in over /\ resp["connects"] = <<>>
          /\ u' = "done"
          /\ UNCHANGED <<demuxVars, tncVars, Rest>>
       \/ \* Listener.Accept takes the connection, or nobody does and it is closed
          /\ u = "offer"
          /\ \/ u' = "idle" /\ conn' = TRUE
             \/ u' = "close" /\ UNCHANGED conn
          /\ UNCHANGED <<demuxVars, tncVars, op, expired, writes, got, eof, lost, missed,
                         late, flushed, piled, inbound>>

\* Mutant of NewConn: the data frames are left to be asked for by Read
NewConnLazy ==
    \/ /\ u = "ready" /\ ~inbound /\ Free("port")
       /\ u' = IF closed["port"] THEN "done" ELSE "newConn"
       /\ UNCHANGED <<demuxVars, tncVars, Rest>>
    \/ Chain("port", "conn", "newConn", "newConn0", "newConn1", "newConn2")
    \/ /\ u = "newConn2" /\ NextFrame("conn", "disc", "newConn3")
       /\ UNCHANGED <<tncVars, Rest>>
    \/ /\ u = "newConn3" /\ Served("conn", "disc")
       /\ u' = "newConn4"
       /\ UNCHANGED <<demuxVars, tncVars, Rest>>
    \/ /\ u = "newConn4" /\ Served("conn", "data")
       /\ teardown' = "wait"
       /\ u' = IF inbound THEN "offer" ELSE "dial"
       /\ UNCHANGED <<in, closed, req, clients, run, chain, resp, over, cancelled,
                      tncVars, Rest>>

\* newConn: chained to the port, the clients for the disconnect and the data
NewConn ==
    \/ /\ u = "ready" /\ ~inbound /\ Free("port")
       /\ u' = IF closed["port"] THEN "done" ELSE "newConn"
       /\ UNCHANGED <<demuxVars, tncVars, Rest>>
    \/ Chain("port", "conn", "newConn", "newConn0", "newConn1", "newConn2")
    \/ /\ u = "newConn2" /\ NextFrame("conn", "disc", "newConn3")
       /\ UNCHANGED <<tncVars, Rest>>
    \/ /\ u = "newConn3" /\ Served("conn", "disc")
       /\ Frames("conn", "data", "newConn4")
       /\ UNCHANGED <<tncVars, Rest>>
    \/ /\ u = "newConn4" /\ Served("conn", "data")
       /\ teardown' = "wait"
       /\ u' = IF inbound THEN "offer" ELSE "dial"
       /\ UNCHANGED <<in, closed, req, clients, run, chain, resp, over, cancelled,
                      tncVars, Rest>>

\* connect: the answer is awaited from before the request is sent
Connect ==
    \/ u = "dial" /\ NextFrame("conn", "ack", "dial1") /\ UNCHANGED <<tncVars, Rest>>
    \/ /\ u = "dial1" /\ Served("conn", "ack")
       /\ Send(F("C"), "dialWait", "dialFailed")
       /\ UNCHANGED <<demuxVars, TncOnly, Rest>>
    \/ /\ u = "dialWait" /\ (resp["ack"] # <<>> \/ "ack" \in over)
       /\ IF resp["ack"] # <<>> /\ Head(resp["ack"]).k = "C"
          THEN u' = "idle" /\ conn' = TRUE ELSE u' = "dialFailed" /\ UNCHANGED conn
       /\ op' = "none"
       /\ Forget("conn", "ack")
       /\ UNCHANGED <<tncVars, expired, writes, got, eof, lost, missed, late,
                      flushed, piled, inbound>>
    \/ \* the context is cancelled: the TNC is asked to disconnect
       /\ u = "dialWait" /\ op = "none" /\ resp["ack"] = <<>>
       /\ Send(F("d"), "dialWait", "dialWait")
       /\ op' = "cancelled"
       /\ UNCHANGED <<demuxVars, TncOnly, expired, writes, conn, got, eof, lost, missed,
                      late, flushed, piled, inbound>>
    \/ /\ u = "dialFailed" /\ Free("conn")
       /\ closed' = [closed EXCEPT !["conn"] = TRUE]
       /\ u' = "done"
       /\ UNCHANGED <<in, req, clients, run, chain, resp, over, cancelled, teardown,
                      tncVars, Rest>>
-----------------------------------------------------------------------------
(* waitOutstandingFrames: the TNC is asked until the count is right. op    *)
(* says what for: "pre" and "post" in Write, "flush", "close".             *)

\* Mutant of Enough: Write does not wait to see its frame counted
EnoughNoPost(n) == CASE op = "pre" -> n <= MaxFrame [] op = "post" -> TRUE [] OTHER -> n = 0

\* The condition the caller waits for
Enough(n) == CASE op = "pre" -> n <= MaxFrame [] op = "post" -> n > 0 [] OTHER -> n = 0

\* waitOutstandingFrames returns: Write goes on to send, Flush and Write return,
\* Close finds the link gone or sends the disconnect. After an error the user
\* closes.
Return(res) ==
    /\ u' = CASE op = "close" /\ res = "eof" -> "closeConn"
             [] op = "close" /\ res # "eof" -> "end"
             [] op # "close" /\ res # "enough" -> "broken"
             [] op = "pre" /\ res = "enough" -> "send"
             [] OTHER -> "idle"
    /\ op' = IF op = "pre" /\ res = "enough" THEN "post" ELSE "none"
    /\ flushed' = (res = "enough" /\ op \in {"flush", "close"})

\* numOutstandingFrames asks
AskOutstanding ==
    \/ /\ u = "ask" /\ Free("conn") /\ closed["conn"]
       /\ Return("eof")
       /\ UNCHANGED <<demuxVars, tncVars, inbound, expired, writes, conn, got, eof, lost, missed,
                      late, piled>>
    \/ /\ u = "ask" /\ ~closed["conn"]
       /\ NextFrame("conn", "y", "ask1")
       /\ UNCHANGED <<tncVars, Rest>>
    \/ /\ u = "ask1" /\ Served("conn", "y")
       /\ \/ Send(F("Y"), "askWait", "broken") /\ u' = "askWait" /\ UNCHANGED <<op, flushed>>
          \/ (~tcp \/ closed["tnc"]) /\ Return("error") /\ UNCHANGED <<fromTNC, link, lag, out>>
       /\ UNCHANGED <<demuxVars, TncOnly, inbound, expired, writes, conn, got, eof, lost, missed,
                      late, piled>>

\* The answer, or the end of the connection. If the count is not right the TNC
\* is asked again at the next tick.
Outstanding ==
    /\ u = "askWait"
    /\ \/ /\ resp["y"] # <<>>
          /\ IF Enough(Head(resp["y"]).n) THEN Return("enough")
             ELSE u' = "ask" /\ UNCHANGED <<op, flushed>>
       \/ resp["y"] = <<>> /\ "y" \in over /\ Return("eof")
    /\ Forget("conn", "y")
    /\ UNCHANGED <<tncVars, inbound, expired, writes, conn, got, eof, lost, missed, late,
                   piled>>

\* No answer in thirty seconds
AskTimeout ==
    /\ u = "askWait" /\ resp["y"] = <<>> /\ "y" \notin over
    /\ Return("error") /\ late' = TRUE
    /\ Forget("conn", "y")
    /\ UNCHANGED <<tncVars, inbound, expired, writes, conn, got, eof, lost, missed, piled>>

\* The minute of Flush is over: it returns whatever its goroutine is at. If that
\* is between two questions it ends without an error, and which of the two
\* waitOutstandingFrames sees first is open.
FlushTimeout ==
    /\ op \in {"flush", "close"} /\ u \in {"ask", "askWait"}
    /\ Return("error") \/ (u = "ask" /\ Return("enough"))
    /\ late' = TRUE
    /\ Forget("conn", "y")
    /\ UNCHANGED <<tncVars, inbound, expired, writes, conn, got, eof, lost, missed, piled>>

\* Write sends its frame, then waits to see it counted
SendData ==
    /\ u = "send"
    /\ Send([k |-> "D", n |-> writes + 1], "ask", "broken")
    /\ writes' = writes + 1 /\ piled' = (lag > 0 \/ out > 0)
    /\ UNCHANGED <<demuxVars, TncOnly, inbound, op, expired, conn, got, eof, lost, missed,
                   late, flushed>>

-----------------------------------------------------------------------------
(* Write, Flush, Close and Read                                            *)

Write ==
    /\ u = "idle" /\ writes < MaxWrites
    /\ u' = "ask" /\ op' = "pre" /\ flushed' = FALSE
    /\ UNCHANGED <<demuxVars, tncVars, expired, writes, conn, got, eof, lost, missed, late,
                   piled, inbound>>

Flush ==
    /\ u = "idle" /\ ~flushed /\ writes > 0
    /\ u' = "ask" /\ op' = "flush" /\ owed' = out
    /\ UNCHANGED <<demuxVars, fromTNC, tcp, link, lag, out, remote, expired, writes, conn, got, eof, lost, missed, late,
                   flushed, piled, inbound>>

CallClose ==
    /\ u \in {"idle", "broken"}
    /\ u' = "close"
    /\ UNCHANGED <<demuxVars, tncVars, Rest>>

\* Mutant of Close: the end of the connection is awaited without a limit
CloseUnbounded ==
    \/ /\ u = "close" /\ Free("conn")
       /\ IF closed["conn"] THEN u' = "done" /\ UNCHANGED <<op, flushed, owed>>
          ELSE u' = "ask" /\ op' = "close" /\ flushed' = FALSE /\ owed' = out
       /\ UNCHANGED <<demuxVars, fromTNC, tcp, link, lag, out, remote, expired, writes, conn, got, eof, lost, missed, late,
                      piled, inbound>>
    \/ u = "end" /\ NextFrame("conn", "end", "end1") /\ UNCHANGED <<tncVars, Rest>>
    \/ /\ u = "end1" /\ Served("conn", "end")
       /\ Send(F("d"), "endWait", "closeConn")
       /\ UNCHANGED <<demuxVars, TncOnly, Rest>>
    \/ /\ u = "endWait" /\ (resp["end"] # <<>> \/ "end" \in over)
       /\ u' = "closeConn"
       /\ UNCHANGED <<demuxVars, tncVars, Rest>>
    \/ /\ u = "closeConn" /\ Free("conn")
       /\ closed' = [closed EXCEPT !["conn"] = TRUE]
       /\ u' = "done"
       /\ UNCHANGED <<in, req, clients, run, chain, resp, over, cancelled, teardown,
                      tncVars, Rest>>

Close ==
    \/ /\ u = "close" /\ Free("conn")
       /\ IF closed["conn"] THEN u' = "done" /\ UNCHANGED <<op, flushed, owed>>
          ELSE u' = "ask" /\ op' = "close" /\ flushed' = FALSE /\ owed' = out
       /\ UNCHANGED <<demuxVars, fromTNC, tcp, link, lag, out, remote, expired, writes, conn, got, eof, lost, missed, late,
                      piled, inbound>>
    \/ u = "end" /\ NextFrame("conn", "end", "end1") /\ UNCHANGED <<tncVars, Rest>>
    \/ /\ u = "end1" /\ Served("conn", "end")
       /\ Send(F("d"), "endWait", "closeConn")
       /\ UNCHANGED <<demuxVars, TncOnly, Rest>>
    \/ \* the disconnect frame, the end of the demultiplexer, or a minute
       /\ u = "endWait"
       /\ u' = "closeConn"
       /\ UNCHANGED <<demuxVars, tncVars, Rest>>
    \/ /\ u = "closeConn" /\ Free("conn")
       /\ closed' = [closed EXCEPT !["conn"] = TRUE]
       /\ u' = "done"
       /\ UNCHANGED <<in, req, clients, run, chain, resp, over, cancelled, teardown,
                      tncVars, Rest>>

\* Read, in another goroutine
Read ==
    /\ Reads /\ conn /\ ~eof
    /\ \/ /\ resp["data"] # <<>>
          /\ got' = Append(got, Head(resp["data"]))
          /\ resp' = [resp EXCEPT !["data"] = Tail(@)]
          /\ UNCHANGED eof
       \/ /\ resp["data"] = <<>> /\ "data" \in over
          /\ eof' = TRUE
          /\ UNCHANGED <<got, resp>>
    /\ UNCHANGED <<in, closed, req, clients, run, chain, over, cancelled, teardown, tncVars,
                   u, op, expired, writes, conn, lost, missed, late, flushed, piled, inbound>>

-----------------------------------------------------------------------------
(* The TNC (external)                                                      *)

Emit(f) == fromTNC' = Append(fromTNC, f)

\* The link is made or refused, or a station calls
TNCLink ==
    /\ tcp
    /\ \/ link = "calling" /\ link' = "up" /\ Emit(F("C"))
       \/ link = "calling" /\ link' = "gone" /\ Emit(F("d"))
       \/ inbound /\ link = "down" /\ link' = "up" /\ Emit(F("c"))
    /\ UNCHANGED <<tcp, lag, out, owed, remote, demuxVars, userVars>>

\* A frame taken is counted, a counted one is acknowledged by the remote station
TNCTransmit ==
    /\ tcp /\ link = "up"
    /\ \/ lag > 0 /\ lag' = lag - 1 /\ out' = out + 1 /\ UNCHANGED owed
       \/ out > 0 /\ out' = out - 1 /\ UNCHANGED lag /\ owed' = IF owed > 0 THEN owed - 1 ELSE 0
    /\ UNCHANGED <<fromTNC, tcp, link, remote, demuxVars, userVars>>

RemoteData ==
    /\ tcp /\ link = "up" /\ remote < MaxRemote
    /\ remote' = remote + 1
    /\ Emit([k |-> "D", n |-> remote + 1])
    /\ UNCHANGED <<tcp, link, lag, out, owed, demuxVars, userVars>>

LinkLost ==
    /\ tcp /\ link = "up"
    /\ link' = "gone" /\ lag' = 0 /\ out' = 0
    /\ Emit(F("d"))
    /\ UNCHANGED <<tcp, owed, remote, demuxVars, userVars>>

TCPFail ==
    /\ tcp /\ tcp' = FALSE
    /\ link' = "gone" /\ lag' = 0 /\ out' = 0
    /\ UNCHANGED <<fromTNC, owed, remote, demuxVars, userVars>>

-----------------------------------------------------------------------------
Goroutines ==
    \/ \E l \in Level : RunRequest(l) \/ RunTake(l) \/ RunDeliver(l) \/ RunExit(l)
    \/ \E c \in Chains : ChainForward(c) \/ ChainExit(c)
    \/ TNCRun \/ TNCExit \/ TeardownStep

UserSteps ==
    \/ NewPort \/ GetCapabilities \/ Register \/ HandleInbound \/ NewConn \/ Connect
    \/ AskOutstanding \/ Outstanding \/ AskTimeout \/ FlushTimeout \/ SendData
    \/ Write \/ Flush \/ CallClose \/ Close

\* The TNC acts for as long as the user has something to do with it.
TNC == u \notin {"done", "panic"} /\ (TNCLink \/ TNCTransmit \/ RemoteData \/ LinkLost \/ TCPFail)

\* Nothing is left to do
Idle == UNCHANGED vars /\ (u \in {"done", "panic"} \/ ~tcp \/ link = "gone")

Next == Goroutines \/ UserSteps \/ Read \/ TNC \/ Idle

\* Goroutines run, whatever their select chooses, and timers go off; the TNC
\* and the user's calls need not come. A minute passes however often the TNC is
\* asked in between (SF).
Fairness ==
    /\ \A l \in Level : WF_vars(RunRequest(l) \/ RunTake(l) \/ RunDeliver(l) \/ RunExit(l))
    /\ \A c \in Chains : WF_vars(ChainForward(c) \/ ChainExit(c))
    /\ WF_vars(TNCRun \/ TNCExit) /\ WF_vars(TeardownStep) /\ WF_vars(Read)
    /\ WF_vars(AskOutstanding \/ Outstanding \/ AskTimeout \/ SendData \/ Close)
    /\ SF_vars(FlushTimeout)

Spec == Init /\ [][Next]_vars /\ Fairness

-----------------------------------------------------------------------------
(* Properties                                                              *)

\* The way of the frames for client c of the connection, from its reader back
\* to the TNC
Hand(l, c) == IF c \in run[l].todo THEN <<run[l].f>> ELSE <<>>
Held(c)    == IF chain[c] \in Frame THEN <<chain[c]>> ELSE <<>>
Way(c) ==
    << IF c = "data" THEN got ELSE <<>>, resp[c],
       Hand("conn", c), in["conn"], Held("conn"),
       Hand("port", "conn"), in["port"], Held("port"),
       Hand("tnc", "port"), in["tnc"], fromTNC >>

\* The numbers of the data frames in a sequence
Data(s)    == {s[i].n : i \in {i \in DOMAIN s : s[i].k = "D"}}
InOrder(s) == \A i, j \in DOMAIN s : i < j /\ s[i].k = "D" /\ s[j].k = "D" => s[i].n < s[j].n

\* What the remote station sent reaches Read in the order it was sent and
\* without repetition, and every frame that does not is one that a full or
\* closed demultiplexer dropped: three goroutines and two chains hand frames on
\* without reordering, duplicating or silently losing one.
OnlyDropsLose ==
    LET way  == Way("data")
        data == [p \in DOMAIN way |-> Data(way[p])]
        kept == UNION Range(data)
    IN  /\ \A p \in DOMAIN way : InOrder(way[p])
        /\ \A p \in DOMAIN way : \A n \in data[p] :
             \A q \in 1 .. p - 1 : \A m \in data[q] : m < n
        /\ kept \cap (lost \ {0}) = {}
        /\ kept \cup (lost \ {0}) = 1 .. remote

\* On a connection that was dialled no data frame goes by without a client that
\* wants it while the connection is open: newConn asks for them before the
\* connect request is sent.
DialMissesNothing == inbound \/ closed["conn"] \/ missed \ {0} = {}

\* When Flush returns nil every frame that the TNC counted when it was called has
\* been acknowledged, and if the last Write found nothing outstanding every frame
\* that was written: Write waits for its frame to be counted, which it cannot
\* tell from frames that were counted before. This holds while the link is up
\* and unless an earlier wait was given up, whose answer may come late.
FlushMeansDrained ==
    flushed /\ ~late /\ link = "up" /\ tcp =>
        /\ owed = 0
        /\ ~piled => lag = 0 /\ out = 0

\* Close returns on a connection that the user was given and keeps reading,
\* whatever the TNC answers: the data that fills the channel and stops the
\* demultiplexer, whose mutex Close needs, is read.
CloseReturns == (u = "close" /\ conn) ~> (u = "done")

\* Whoever reads sees the end: of a connection that was closed, unless a
\* demultiplexer was closed while newConn was asking it for frames (then it was
\* given a nil channel, which is never closed); and of the link or of the
\* connection to the TNC, unless the disconnect frame was dropped or found nobody.
EofReaches ==
    /\ (conn /\ closed["conn"]) ~> (eof \/ "nil" \in over)
    /\ (conn /\ link = "gone") ~> (eof \/ 0 \in lost \/ "nil" \in over)

=============================================================================
