-------------------------------- MODULE Login -------------------------------
(***************************************************************************)
(* From a TCP connection to the first command of a B2F session: the telnet *)
(* login (transport/telnet, Dial and Accept) and the handshake (fbb,       *)
(* handshake and secure login), between a station that dials and one that  *)
(* listens (another station, or a CMS, which is external). Each end reads  *)
(* its login through a bufio.Reader that it then forgets, together with    *)
(* what that reader has taken from the connection.                         *)
(***************************************************************************)
EXTENDS Integers, Sequences, SequencesExt, FiniteSets

CONSTANTS
    Master,      \* the end whose session is the master
    MaxFaults    \* bound: connections that break

ASSUME LoginAssumption == Master \in {"dialer", "listener"} /\ MaxFaults \in Nat

End   == {"dialer", "listener"}
Other == [e \in End |-> IF e = "dialer" THEN "listener" ELSE "dialer"]

\* Lines, by what the readers tell apart
L(t)     == [t |-> t, v |-> <<>>]
LV(t, v) == [t |-> t, v |-> v]

\* The addresses an end asks messages for, and its passwords
LocalFW == [e \in End |-> IF e = "dialer" THEN <<"main", "aux">> ELSE <<"peer">>]

\* What a CMS (external) may say after the login
CMSScripts ==
    { <<L("sid"), LV("pq", "nonce"), L("comment"), L("prompt")>>,
      <<L("stats"), L("sid"), L("prompt")>>,
      <<L("oldSid"), L("prompt")>>,
      <<L("badSid"), L("prompt")>>,
      <<L("sid"), L("badFw"), L("prompt")>>,
      <<LV("pq", "nonce"), L("prompt")>> }

\* The message of the day: no line, or one that readHandshake may take for
\* something else
Motds == {<<>>} \cup
    { <<m>> : m \in { L("text"), L("prompt"), L("sid"), L("oldSid"), L("badSid"), L("badFw"),
                     LV("fw", <<<<"other">>>>), LV("pq", "nonce") } }

\* Lines with which readHandshake gives up: a SID that does not parse or is not
\* for B2F, a ;FW line that does not parse
Refused == {"oldSid", "badSid", "badFw"}

VARIABLES
    server,      \* who listens: "station" or "cms"
    motd,        \* the lines of the master's message of the day
    script,      \* what the CMS says
    handler,     \* SecureLoginHandleFunc: "none", "fails", "all" or "mainOnly"
    wire,        \* wire[e]: lines on their way to e
    up,          \* the connection is up
    faults,
    buf,         \* buf[e]: what e's present reader has taken
    pc,
    hs,          \* hs[e]: the handshakeData of e
    remoteCall,  \* Conn.remoteCall of the listener
    swallowed    \* lines that went down with the reader of the login

vars == <<server, motd, script, handler, wire, up, faults, buf, pc, hs, remoteCall, swallowed>>
scenario == <<server, motd, script, handler>>

NoData == [sid |-> "", fw |-> <<>>, challenge |-> "", response |-> <<>>]

Init ==
    /\ server \in {"station", "cms"}
    /\ motd \in Motds
    /\ script \in CMSScripts
    /\ handler \in {"none", "fails", "all", "mainOnly"}
    /\ wire = [e \in End |-> <<>>] /\ up = TRUE /\ faults = 0
    /\ buf = [e \in End |-> <<>>]
    /\ pc = [dialer |-> "login", listener |-> "accept"]
    /\ hs = [e \in End |-> NoData]
    /\ remoteCall = "" /\ swallowed = <<>>

-----------------------------------------------------------------------------
Say(e, lines) == wire' = [wire EXCEPT ![Other[e]] = IF up THEN @ \o lines ELSE @]

\* bufio.Reader: when it is empty it takes some of what has arrived
Fill(e) ==
    /\ pc[e] \in {"login", "call", "pass", "read", "cmsRead"}
    /\ buf[e] = <<>>
    /\ \E n \in 1 .. Len(wire[e]) :
        /\ buf' = [buf EXCEPT ![e] = SubSeq(wire[e], 1, n)]
        /\ wire' = [wire EXCEPT ![e] = SubSeq(@, n + 1, Len(@))]
    /\ UNCHANGED <<scenario, up, faults, pc, hs, remoteCall, swallowed>>

Line(e)  == Head(buf[e])
Rest(e)  == [buf EXCEPT ![e] = Tail(@)]
Broken(e) == ~up /\ wire[e] = <<>> /\ buf[e] = <<>>

Go(e, s) == pc' = [pc EXCEPT ![e] = s]

\* Mutant of Starts: the end that dialled speaks first
StartsDialer(e) == IF e = "dialer" THEN "greet" ELSE "read"

\* The session: the master speaks first
Starts(e) == IF e = Master THEN "greet" ELSE "read"

\* The login is over: its reader is dropped with what it holds, and the session
\* starts with a reader of its own
EndLogin(e) ==
    /\ Go(e, IF e = "listener" /\ server = "cms" THEN "cms" ELSE Starts(e))
    /\ swallowed' = swallowed \o Tail(buf[e])
    /\ buf' = [buf EXCEPT ![e] = <<>>]

\* Mutant of DialLogin: the break leaves the switch and not the loop
DialLoginNoLabel ==
    /\ pc["dialer"] = "login" /\ buf["dialer"] # <<>>
    /\ CASE Line("dialer").t = "password?" -> Say("dialer", <<LV("pass", "CMSTelnet")>>)
         [] Line("dialer").t = "callsign?" -> Say("dialer", <<LV("call", "main")>>)
         [] OTHER -> UNCHANGED wire
    /\ buf' = Rest("dialer")
    /\ UNCHANGED <<scenario, up, faults, pc, hs, remoteCall, swallowed>>

\* DialContext: answers the prompts until the password was asked for
DialLogin ==
    /\ pc["dialer"] = "login" /\ buf["dialer"] # <<>>
    /\ IF Line("dialer").t = "password?"
       THEN Say("dialer", <<LV("pass", "CMSTelnet")>>) /\ EndLogin("dialer")
       ELSE /\ IF Line("dialer").t = "callsign?" THEN Say("dialer", <<LV("call", "main")>>)
               ELSE UNCHANGED wire
            /\ buf' = Rest("dialer")
            /\ UNCHANGED <<pc, swallowed>>
    /\ UNCHANGED <<scenario, up, faults, hs, remoteCall>>

\* Accept: asks for the call sign and the password, which it discards
AcceptLogin ==
    \/ /\ pc["listener"] = "accept"
       /\ Say("listener", <<L("callsign?")>>) /\ Go("listener", "call")
       /\ UNCHANGED <<scenario, up, faults, buf, hs, remoteCall, swallowed>>
    \/ /\ pc["listener"] = "call" /\ buf["listener"] # <<>>
       /\ remoteCall' = Line("listener").v
       /\ buf' = Rest("listener")
       /\ Say("listener", <<L("password?")>>) /\ Go("listener", "pass")
       /\ UNCHANGED <<scenario, up, faults, hs, swallowed>>
    \/ /\ pc["listener"] = "pass" /\ buf["listener"] # <<>>
       /\ EndLogin("listener")
       /\ UNCHANGED <<scenario, wire, up, faults, hs, remoteCall>>

\* A read that finds the connection broken
ReadFails(e) ==
    /\ pc[e] \in {"login", "call", "pass", "read", "cmsRead"} /\ Broken(e)
    /\ Go(e, "failed")
    /\ UNCHANGED <<scenario, wire, up, faults, buf, hs, remoteCall, swallowed>>

-----------------------------------------------------------------------------
(* The handshake                                                           *)

\* secureLoginResponse: a digest of the challenge and the password
Response(challenge, addr) == <<"md5", challenge, addr>>

\* The ;FW line: with a challenge, auxiliary addresses that have a password
\* carry the response
ForwardLine(e, challenge) ==
    LV("fw", [i \in DOMAIN LocalFW[e] |->
        IF challenge # "" /\ i > 1 /\ handler = "all"
        THEN <<LocalFW[e][i], Response(challenge, LocalFW[e][i])>>
        ELSE <<LocalFW[e][i]>>])

\* Mutant of HandshakeLines: the response for the last address that was listed
HandshakeLinesLast(e, challenge) ==
    <<ForwardLine(e, challenge), L("sid")>>
    \o (IF challenge # "" THEN <<LV("pr", Response(challenge, Last(LocalFW[e])))>> ELSE <<>>)
    \o <<L(IF e = Master THEN "prompt" ELSE "comment")>>

\* sendHandshake: the response is that of the first address
HandshakeLines(e, challenge) ==
    <<ForwardLine(e, challenge), L("sid")>>
    \o (IF challenge # "" THEN <<LV("pr", Response(challenge, Head(LocalFW[e])))>> ELSE <<>>)
    \o <<L(IF e = Master THEN "prompt" ELSE "comment")>>

\* Exchange ends with an error: the remote is told, and the connection closed,
\* which loses nothing that was sent
Fail(e) == Go(e, "failed") /\ up' = FALSE /\ Say(e, <<L("error")>>)

\* The master speaks first
Greet(e) ==
    /\ pc[e] = "greet"
    /\ Say(e, motd \o HandshakeLines(e, ""))
    /\ Go(e, "read")
    /\ UNCHANGED <<scenario, up, faults, buf, hs, remoteCall, swallowed>>

\* Mutant of HandshakeEnds: the master takes the SID for the end
HandshakeEndsEarly(e, line) == line.t = "prompt" \/ (e = Master /\ line.t \in {"command", "sid"})

\* The master is done when a command comes, which it leaves for the exchange;
\* the other end is done after a prompt
HandshakeEnds(e, line) == line.t = "prompt" \/ (e = Master /\ line.t = "command")

\* readHandshake: one line
ReadLine(e) ==
    /\ pc[e] = "read" /\ buf[e] # <<>> /\ ~HandshakeEnds(e, Line(e))
    /\ buf' = Rest(e)
    /\ LET line == Line(e) IN
       \/ /\ line.t \in Refused
          /\ Fail(e) /\ UNCHANGED hs
       \/ /\ line.t \notin Refused
          /\ hs' = CASE line.t = "sid" -> [hs EXCEPT ![e].sid = "B2FHM$"]
                     [] line.t = "fw" -> [hs EXCEPT ![e].fw = [i \in DOMAIN line.v |-> line.v[i][1]]]
                     [] line.t = "pq" -> [hs EXCEPT ![e].challenge = line.v]
                     [] OTHER -> hs
          /\ UNCHANGED <<pc, up, wire>>
    /\ UNCHANGED <<scenario, faults, remoteCall, swallowed>>

\* handshake: the end of it. The end that is not the master answers, which may
\* need a password, and has the first turn.
EndHandshake(e) ==
    /\ pc[e] = "read" /\ buf[e] # <<>> /\ HandshakeEnds(e, Line(e))
    /\ buf' = IF Line(e).t = "prompt" THEN Rest(e) ELSE buf
    /\ IF hs[e].sid = "" \/ (e # Master /\ hs[e].challenge # "" /\ handler \in {"none", "fails"})
       THEN Fail(e)
       ELSE IF e = Master THEN Go(e, "done") /\ UNCHANGED <<wire, up>>
       ELSE /\ Say(e, HandshakeLines(e, hs[e].challenge) \o <<L("command")>>)
            /\ Go(e, "done") /\ UNCHANGED up
    /\ UNCHANGED <<scenario, faults, hs, remoteCall, swallowed>>

-----------------------------------------------------------------------------
(* The CMS (external), and the network                                     *)

CMSGreets ==
    /\ pc["listener"] = "cms"
    /\ Say("listener", script) /\ Go("listener", "cmsRead")
    /\ UNCHANGED <<scenario, up, faults, buf, hs, remoteCall, swallowed>>

\* It checks the response before the first command
CMSReads ==
    /\ pc["listener"] = "cmsRead" /\ buf["listener"] # <<>>
    /\ LET line == Line("listener") IN
       /\ hs' = IF line.t = "pr" THEN [hs EXCEPT !["listener"].response = line.v]
                ELSE IF line.t = "fw" THEN [hs EXCEPT !["listener"].fw = line.v]
                ELSE hs
       /\ IF line.t = "command" THEN Go("listener", "done") /\ UNCHANGED buf
          ELSE buf' = Rest("listener") /\ UNCHANGED pc
    /\ UNCHANGED <<scenario, wire, up, faults, remoteCall, swallowed>>

\* The connection breaks, with some of the lines that are on their way
Break ==
    /\ up /\ faults < MaxFaults /\ \E e \in End : pc[e] \notin {"done", "failed"}
    /\ up' = FALSE /\ faults' = faults + 1
    /\ \E i \in 0 .. Len(wire["dialer"]), j \in 0 .. Len(wire["listener"]) :
        wire' = [dialer |-> SubSeq(wire["dialer"], 1, i), listener |-> SubSeq(wire["listener"], 1, j)]
    /\ UNCHANGED <<scenario, buf, pc, hs, remoteCall, swallowed>>

Idle == (\A e \in End : pc[e] \in {"done", "failed"}) /\ UNCHANGED vars

Step(e) == Fill(e) \/ ReadFails(e) \/ Greet(e) \/ ReadLine(e) \/ EndHandshake(e)
Next == DialLogin \/ AcceptLogin \/ (\E e \in End : Step(e)) \/ CMSGreets \/ CMSReads \/ Break \/ Idle

\* Both ends run, and the CMS answers.
Fairness == /\ \A e \in End : WF_vars(Step(e))
            /\ WF_vars(DialLogin) /\ WF_vars(AcceptLogin) /\ WF_vars(CMSGreets \/ CMSReads)

Spec == Init /\ [][Next]_vars /\ Fairness

-----------------------------------------------------------------------------
(* Properties                                                              *)

\* No line of the session goes down with a reader of the login: DialContext and
\* Accept may both throw their bufio.Reader away, because the other end says
\* nothing more until it is spoken to.
NothingSwallowed == swallowed = <<>>

\* When both ends have finished the handshake each knows the addresses of the
\* other (without the hashes), the listener knows who called, nothing of the
\* handshake is left for the exchange to read, and the command that ended it is
\* still there. A challenge was answered with the password of the first address.
HandshakeAgreed ==
    (\A e \in End : pc[e] = "done") =>
        /\ remoteCall = "main"
        /\ wire["dialer"] = <<>> /\ buf["dialer"] = <<>>
        /\ buf["listener"] # <<>> /\ Line("listener").t = "command"
        /\ hs["dialer"].sid # ""
        /\ server = "station" =>
            hs["listener"].fw = LocalFW["dialer"] /\ hs["dialer"].fw = LocalFW["listener"]
        /\ server = "cms" =>
            hs["listener"].response = IF hs["dialer"].challenge = "" THEN <<>>
                                      ELSE Response(hs["dialer"].challenge, "main")

\* What the station that listens lets its operator say, or the CMS says
Text == IF server = "station" THEN motd ELSE script

\* Why a login or a handshake may fail: a connection that broke, a line that
\* readHandshake refuses (a SID that is malformed or without B2, a malformed
\* ;FW), also when it is the message of the day that reads like one, a challenge
\* nobody can answer, no SID from the CMS, or a message of the day that reads like
\* a prompt.
Reason ==
    \/ faults > 0
    \/ \E i \in DOMAIN Text : Text[i].t \in Refused
    \/ handler \in {"none", "fails"} /\ \E i \in DOMAIN Text : Text[i].t = "pq"
    \/ server = "cms" /\ \A i \in DOMAIN script : script[i].t # "sid"
    \/ server = "station" /\ \E i \in DOMAIN motd : motd[i].t = "prompt"

\* A login or a handshake (DialContext, Accept, readHandshake, sendHandshake) fails
\* only for a reason.
FailsForAReason == (\E e \in End : pc[e] = "failed") => Reason

\* Both ends finish or fail: neither waits for the other for ever.
LoginEnds == <>(\A e \in End : pc[e] \in {"done", "failed"})

=============================================================================
