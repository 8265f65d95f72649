------------------------------ MODULE LoginProofs -----------------------------
(***************************************************************************)
(* Why DialContext and Accept may each throw a bufio.Reader away. The      *)
(* login is in lockstep: at most one line is on its way, in one direction, *)
(* until the end that listens has read the password. The end that dialled  *)
(* then waits for the session's first line, as it is not the master.       *)
(* And why the handshake that follows leaves both ends with the same idea  *)
(* of each other, or fails for a reason.                                   *)
(***************************************************************************)
EXTENDS Login, TLAPS

\* The lines of the login
LoginLine == {L("callsign?"), L("password?"), LV("call", "main"), LV("pass", "CMSTelnet")}

\* One end at least still reads lines of the login
InLogin == \/ pc["listener"] \in {"accept", "call", "pass"}
           \/ pc["listener"] = "failed" /\ pc["dialer"] = "login"

Under(e) == Len(wire[e]) + Len(buf[e])

\* Nothing but lines of the login is under way, and one at most
OneLine ==
    InLogin =>
        /\ wire \in [End -> Seq(LoginLine)] /\ buf \in [End -> Seq(LoginLine)]
        /\ Under("dialer") + Under("listener") <= 1

\* Where the ends can be, and what the line may be
Lockstep ==
    /\ pc["listener"] = "accept" =>
        /\ pc["dialer"] \in {"login", "failed"}
        /\ Under("dialer") + Under("listener") = 0
    /\ pc["listener"] = "call" =>
        /\ pc["dialer"] \in {"login", "failed"}
        /\ \A i \in DOMAIN wire["dialer"] : wire["dialer"][i] = L("callsign?")
        /\ \A i \in DOMAIN buf["dialer"] : buf["dialer"][i] = L("callsign?")
    /\ pc["listener"] = "pass" =>
        /\ pc["dialer"] \in {"login", "read", "failed"}
        /\ \A i \in DOMAIN wire["dialer"] : wire["dialer"][i] = L("password?")
        /\ \A i \in DOMAIN buf["dialer"] : buf["dialer"][i] = L("password?")
        /\ pc["dialer"] = "login" => Under("listener") = 0
        /\ pc["dialer"] = "read" => Under("dialer") = 0
    /\ pc["dialer"] = "login" => pc["listener"] \in {"accept", "call", "pass", "failed"}

LoginInv ==
    /\ DOMAIN pc = End
    /\ DOMAIN buf = End /\ DOMAIN wire = End
    /\ OneLine /\ Lockstep
    /\ swallowed = <<>>
-----------------------------------------------------------------------------
LEMMA EndFacts ==
    /\ End = {"dialer", "listener"} /\ DOMAIN Other = End
    /\ Other["dialer"] = "listener" /\ Other["listener"] = "dialer"
BY DEF End, Other

\* Short sequences
LEMMA Empty ==
    ASSUME NEW S, NEW s \in Seq(S)
    PROVE  Len(s) \in Nat /\ (Len(s) = 0 <=> s = <<>>)
OBVIOUS

LEMMA Short ==
    ASSUME NEW S, NEW s \in Seq(S)
    PROVE  /\ Len(s) \in Nat
           /\ s # <<>> <=> Len(s) > 0
           /\ Len(s) = 0 <=> s = <<>>
           /\ Len(s) = 1 => Tail(s) = <<>>
<1>1. Len(s) \in Nat /\ (Len(s) = 0 <=> s = <<>>)
    OBVIOUS
<1>2. s # <<>> <=> Len(s) > 0
    BY <1>1
<1>3. ASSUME Len(s) = 1 PROVE Tail(s) = <<>>
    <2>1. s # <<>>
        BY <1>1, <1>3
    <2>2. Tail(s) \in Seq(S) /\ Len(Tail(s)) = Len(s) - 1
        BY <2>1
    <2>3. Len(Tail(s)) = 0
        BY <1>3, <2>2
    <2> QED
        BY <2>2, <2>3, Empty
<1> QED
    BY <1>1, <1>2, <1>3

\* A sequence of one line at most, divided in two
LEMMA SplitOne ==
    ASSUME NEW S, NEW s \in Seq(S), Len(s) <= 1
    PROVE  /\ \A n \in 1 .. Len(s) : SubSeq(s, 1, n) = s /\ SubSeq(s, n + 1, Len(s)) = <<>>
           /\ \A n \in 0 .. Len(s) :
                SubSeq(s, 1, n) \in Seq(S) /\ Len(SubSeq(s, 1, n)) <= Len(s)
                /\ \A i \in DOMAIN SubSeq(s, 1, n) : i \in DOMAIN s /\ SubSeq(s, 1, n)[i] = s[i]
<1>1. ASSUME NEW n \in 1 .. Len(s)
      PROVE  SubSeq(s, 1, n) = s /\ SubSeq(s, n + 1, Len(s)) = <<>>
    BY <1>1
<1>2. ASSUME NEW n \in 0 .. Len(s)
      PROVE  SubSeq(s, 1, n) \in Seq(S) /\ Len(SubSeq(s, 1, n)) <= Len(s)
             /\ \A i \in DOMAIN SubSeq(s, 1, n) : i \in DOMAIN s /\ SubSeq(s, 1, n)[i] = s[i]
    BY <1>2
<1> QED
    BY <1>1, <1>2

LEMMA LoginInit == Init => LoginInv
<1> SUFFICES ASSUME Init PROVE LoginInv
    OBVIOUS
<1>0. /\ wire = [e \in End |-> <<>>] /\ buf = [e \in End |-> <<>>]
      /\ pc = [dialer |-> "login", listener |-> "accept"] /\ swallowed = <<>>
    BY DEF Init
<1>1. <<>> \in Seq(LoginLine)
    OBVIOUS
<1>2. wire \in [End -> Seq(LoginLine)] /\ buf \in [End -> Seq(LoginLine)]
    BY <1>0, <1>1
<1>3. Under("dialer") = 0 /\ Under("listener") = 0
    BY <1>0, EndFacts DEF Under
<1>4. DOMAIN pc = End /\ pc["dialer"] = "login" /\ pc["listener"] = "accept"
    BY <1>0, EndFacts
<1> QED
    BY <1>0, <1>2, <1>3, <1>4 DEF LoginInv, OneLine, Lockstep, InLogin

\* The end that reads a line of the login reads the only line there is
LEMMA OneAtMost ==
    ASSUME NEW a \in Nat, NEW b \in Nat, NEW c \in Nat, NEW d \in Nat,
           (a + b) + (c + d) <= 1
    PROVE  /\ b > 0 => b = 1 /\ a = 0 /\ c = 0 /\ d = 0
           /\ d > 0 => d = 1 /\ a = 0 /\ b = 0 /\ c = 0
OBVIOUS

LEMMA Alone ==
    ASSUME LoginInv, InLogin
    PROVE  /\ wire \in [End -> Seq(LoginLine)] /\ buf \in [End -> Seq(LoginLine)]
           /\ buf["dialer"] # <<>> =>
                /\ wire["dialer"] = <<>> /\ wire["listener"] = <<>> /\ buf["listener"] = <<>>
                /\ Len(buf["dialer"]) = 1 /\ Tail(buf["dialer"]) = <<>>
           /\ buf["listener"] # <<>> =>
                /\ wire["dialer"] = <<>> /\ wire["listener"] = <<>> /\ buf["dialer"] = <<>>
                /\ Len(buf["listener"]) = 1 /\ Tail(buf["listener"]) = <<>>
<1> DEFINE a == wire["dialer"]
           b == buf["dialer"]
           c == wire["listener"]
           d == buf["listener"]
<1>1. /\ wire \in [End -> Seq(LoginLine)] /\ buf \in [End -> Seq(LoginLine)]
      /\ (Len(a) + Len(b)) + (Len(c) + Len(d)) <= 1
    BY DEF LoginInv, OneLine, Under
<1>2. /\ a \in Seq(LoginLine) /\ b \in Seq(LoginLine)
      /\ c \in Seq(LoginLine) /\ d \in Seq(LoginLine)
    BY <1>1, EndFacts
<1> HIDE DEF a, b, c, d
<1>3. /\ Len(a) \in Nat /\ Len(b) \in Nat /\ Len(c) \in Nat /\ Len(d) \in Nat
      /\ (b # <<>> => Len(b) > 0) /\ (d # <<>> => Len(d) > 0)
    BY <1>2, Short
<1>4. /\ b # <<>> => Len(b) = 1 /\ Len(a) = 0 /\ Len(c) = 0 /\ Len(d) = 0
      /\ d # <<>> => Len(d) = 1 /\ Len(a) = 0 /\ Len(b) = 0 /\ Len(c) = 0
    BY <1>1, <1>3, OneAtMost
<1>5. /\ b # <<>> => a = <<>> /\ c = <<>> /\ d = <<>> /\ Len(b) = 1 /\ Tail(b) = <<>>
      /\ d # <<>> => a = <<>> /\ c = <<>> /\ b = <<>> /\ Len(d) = 1 /\ Tail(d) = <<>>
    BY <1>2, <1>4, Short
<1> QED
    BY <1>1, <1>5 DEF a, b, c, d

LEMMA LoginStep ==
    ASSUME Master = "listener", LoginInv, [Next]_vars
    PROVE  LoginInv'
<1> USE EndFacts DEF LoginInv, scenario, Go
<1>0. CASE UNCHANGED vars
    BY <1>0 DEF vars, OneLine, Lockstep, InLogin, Under
<1>1. CASE DialLogin
    <2>1. /\ pc["dialer"] = "login" /\ buf["dialer"] # <<>>
          /\ pc["listener"] \in {"call", "pass", "failed"} /\ InLogin
        <3>1. pc["dialer"] = "login" /\ buf["dialer"] # <<>>
            BY <1>1 DEF DialLogin
        <3>2. pc["listener"] \in {"accept", "call", "pass", "failed"} /\ InLogin
            BY <3>1 DEF Lockstep, InLogin
        <3>3. pc["listener"] # "accept"
            BY <3>1, <3>2 DEF Lockstep, OneLine, Under
        <3> QED
            BY <3>1, <3>2, <3>3
    <2>2. /\ wire \in [End -> Seq(LoginLine)] /\ buf \in [End -> Seq(LoginLine)]
          /\ wire["dialer"] = <<>> /\ wire["listener"] = <<>> /\ buf["listener"] = <<>>
          /\ Len(buf["dialer"]) = 1 /\ Tail(buf["dialer"]) = <<>>
        BY <2>1, Alone
    <2>3. ASSUME NEW x \in LoginLine, Say("dialer", <<x>>)
          PROVE  /\ wire' \in [End -> Seq(LoginLine)] /\ wire'["dialer"] = <<>>
                 /\ Len(wire'["listener"]) <= 1
        BY <2>2, <2>3 DEF Say
    <2>4. CASE Line("dialer").t = "password?"
        <3>1. Say("dialer", <<LV("pass", "CMSTelnet")>>) /\ EndLogin("dialer")
            BY <1>1, <2>4 DEF DialLogin
        <3>2. /\ wire' \in [End -> Seq(LoginLine)] /\ wire'["dialer"] = <<>>
              /\ Len(wire'["listener"]) <= 1
            BY <2>3, <3>1 DEF LoginLine
        <3>3. /\ pc' = [pc EXCEPT !["dialer"] = "read"]
              /\ swallowed' = swallowed \o Tail(buf["dialer"])
              /\ buf' = [buf EXCEPT !["dialer"] = <<>>]
            BY <3>1 DEF EndLogin, Starts
        <3>4. /\ swallowed' = <<>> /\ buf' \in [End -> Seq(LoginLine)]
              /\ buf'["dialer"] = <<>> /\ buf'["listener"] = <<>>
              /\ pc'["dialer"] = "read" /\ pc'["listener"] = pc["listener"]
              /\ DOMAIN pc' = End
            BY <3>3, <2>2
        <3>5. pc["listener"] \in {"pass", "failed"}
            <4>1. buf["dialer"][1] = Line("dialer") /\ 1 \in DOMAIN buf["dialer"]
                BY <2>2 DEF Line
            <4>2. L("callsign?").t # "password?"
                BY DEF L
            <4>3. pc["listener"] # "call"
                BY <2>4, <4>1, <4>2 DEF Lockstep
            <4> QED
                BY <2>1, <4>3
        <3> QED
            BY <2>1, <3>2, <3>4, <3>5 DEF OneLine, Lockstep, InLogin, Under
    <2>5. CASE Line("dialer").t # "password?"
        <3>1. /\ buf' = Rest("dialer") /\ UNCHANGED <<pc, swallowed>>
              /\ Say("dialer", <<LV("call", "main")>>) \/ UNCHANGED wire
            BY <1>1, <2>5 DEF DialLogin
        <3>2. /\ wire' \in [End -> Seq(LoginLine)] /\ wire'["dialer"] = <<>>
              /\ Len(wire'["listener"]) <= 1
            BY <2>2, <2>3, <3>1 DEF LoginLine
        <3>3. /\ buf' \in [End -> Seq(LoginLine)]
              /\ buf'["dialer"] = <<>> /\ buf'["listener"] = <<>>
            BY <2>2, <3>1 DEF Rest
        <3>4. pc["listener"] # "pass"
            <4>1. buf["dialer"][1] = Line("dialer") /\ 1 \in DOMAIN buf["dialer"]
                BY <2>2 DEF Line
            <4>2. L("password?").t = "password?"
                BY DEF L
            <4> QED
                BY <2>5, <4>1, <4>2 DEF Lockstep
        <3>5. Under("dialer")' = 0 /\ Under("listener")' <= 1 /\ Under("listener")' \in Nat
            BY <3>2, <3>3 DEF Under
        <3>6. OneLine'
            BY <3>2, <3>3, <3>5 DEF OneLine
        <3>7. Lockstep'
            BY <2>1, <3>1, <3>2, <3>3, <3>4 DEF Lockstep
        <3> QED
            BY <3>1, <3>2, <3>3, <3>6, <3>7
    <2> QED
        BY <2>4, <2>5
<1>2. CASE AcceptLogin
    <2>1. CASE pc["listener"] = "accept"
        <3>1. Say("listener", <<L("callsign?")>>) /\ Go("listener", "call") /\ UNCHANGED <<buf, swallowed>>
            BY <1>2, <2>1 DEF AcceptLogin
        <3>2. /\ wire["dialer"] = <<>> /\ wire["listener"] = <<>>
              /\ buf["dialer"] = <<>> /\ buf["listener"] = <<>>
              /\ buf \in [End -> Seq(LoginLine)] /\ wire \in [End -> Seq(LoginLine)]
            BY <2>1 DEF Lockstep, OneLine, InLogin, Under
        <3>3. wire'["dialer"] \in {<<>>, <<L("callsign?")>>} /\ wire'["listener"] = <<>>
            BY <3>1, <3>2 DEF Say
        <3>4. wire' \in [End -> Seq(LoginLine)]
            <4>1. <<L("callsign?")>> \in Seq(LoginLine)
                BY DEF LoginLine
            <4> QED
                BY <3>1, <3>2, <4>1 DEF Say
        <3>5. Under("dialer")' \in 0 .. 1 /\ Under("listener")' = 0
            BY <3>1, <3>2, <3>3 DEF Under
        <3>6. pc'["listener"] = "call" /\ pc'["dialer"] = pc["dialer"] /\ DOMAIN pc' = End
            BY <3>1
        <3>7. pc["dialer"] \in {"login", "failed"}
            BY <2>1 DEF Lockstep
        <3> QED
            BY <3>1, <3>2, <3>3, <3>4, <3>5, <3>6, <3>7 DEF OneLine, Lockstep
    <2>2. CASE pc["listener"] = "call"
        <3>1. /\ buf["listener"] # <<>> /\ buf' = Rest("listener")
              /\ Say("listener", <<L("password?")>>) /\ Go("listener", "pass")
              /\ swallowed' = swallowed
            BY <1>2, <2>2 DEF AcceptLogin
        <3>2. InLogin
            BY <2>2 DEF InLogin
        <3>5. /\ buf \in [End -> Seq(LoginLine)] /\ wire \in [End -> Seq(LoginLine)]
              /\ wire["dialer"] = <<>> /\ buf["dialer"] = <<>> /\ wire["listener"] = <<>>
              /\ Tail(buf["listener"]) = <<>>
            BY <3>1, <3>2, Alone
        <3>6. wire'["dialer"] \in {<<>>, <<L("password?")>>} /\ wire'["listener"] = <<>>
            BY <3>1, <3>2, <3>5 DEF Say
        <3>7. wire' \in [End -> Seq(LoginLine)]
            <4>1. <<L("password?")>> \in Seq(LoginLine)
                BY DEF LoginLine
            <4> QED
                BY <3>1, <3>5, <4>1 DEF Say
        <3>8. /\ buf'["dialer"] = <<>> /\ buf'["listener"] = <<>>
              /\ buf' \in [End -> Seq(LoginLine)]
            BY <3>1, <3>2, <3>5 DEF Rest
        <3>9. Under("dialer")' \in 0 .. 1 /\ Under("listener")' = 0
            BY <3>6, <3>8 DEF Under
        <3>10. pc'["listener"] = "pass" /\ pc'["dialer"] = pc["dialer"] /\ DOMAIN pc' = End
            BY <3>1 DEF LoginInv
        <3>11. pc["dialer"] \in {"login", "failed"}
            BY <2>2 DEF LoginInv, Lockstep
        <3> QED
            BY <3>1, <3>6, <3>7, <3>8, <3>9, <3>10, <3>11 DEF LoginInv, OneLine, Lockstep
    <2>3. CASE pc["listener"] = "pass"
        <3>1. buf["listener"] # <<>> /\ EndLogin("listener") /\ wire' = wire
            BY <1>2, <2>3 DEF AcceptLogin
        <3>2. /\ buf["listener"] \in Seq(LoginLine) /\ Len(buf["listener"]) <= 1
              /\ Under("listener") > 0
            BY <2>3, <3>1 DEF OneLine, InLogin, Under
        <3>3. Tail(buf["listener"]) = <<>>
            BY <3>1, <3>2
        <3>4. pc["dialer"] \in {"read", "failed"}
            BY <2>3, <3>2 DEF Lockstep
        <3>5. /\ swallowed' = <<>> /\ DOMAIN buf' = End /\ DOMAIN pc' = End
              /\ pc'["dialer"] = pc["dialer"] /\ pc'["listener"] \in {"cms", "greet"}
            BY <3>1, <3>3 DEF EndLogin, Starts
        <3> QED
            BY <3>1, <3>4, <3>5 DEF OneLine, Lockstep, InLogin
    <2> QED
        BY <1>2, <2>1, <2>2, <2>3 DEF AcceptLogin
<1>3. ASSUME NEW e \in End, Fill(e) PROVE LoginInv'
    <2>1. PICK n \in 1 .. Len(wire[e]) :
             /\ buf' = [buf EXCEPT ![e] = SubSeq(wire[e], 1, n)]
             /\ wire' = [wire EXCEPT ![e] = SubSeq(@, n + 1, Len(@))]
        BY <1>3 DEF Fill
    <2>2. buf[e] = <<>> /\ UNCHANGED <<pc, swallowed>>
        BY <1>3 DEF Fill
    <2>3. CASE ~InLogin
        BY <2>1, <2>2, <2>3 DEF OneLine, Lockstep, InLogin
    <2>4. CASE InLogin
        <3>1. /\ wire[e] \in Seq(LoginLine) /\ Len(wire[e]) <= 1
              /\ buf \in [End -> Seq(LoginLine)] /\ wire \in [End -> Seq(LoginLine)]
            BY <2>4 DEF OneLine, Under
        <3>2. SubSeq(wire[e], 1, n) = wire[e] /\ SubSeq(wire[e], n + 1, Len(wire[e])) = <<>>
            BY <3>1, SplitOne
        <3>3. buf' = [buf EXCEPT ![e] = wire[e]] /\ wire' = [wire EXCEPT ![e] = buf[e]]
            BY <2>1, <2>2, <3>2
        <3>4. buf' \in [End -> Seq(LoginLine)] /\ wire' \in [End -> Seq(LoginLine)]
            BY <3>1, <3>3
        <3>5. Under("dialer")' = Under("dialer") /\ Under("listener")' = Under("listener")
            BY <3>1, <3>3 DEF Under
        <3> QED
            BY <2>2, <3>3, <3>4, <3>5 DEF OneLine, Lockstep, InLogin
    <2> QED
        BY <2>3, <2>4
<1>4. ASSUME NEW e \in End, ReadFails(e) PROVE LoginInv'
    <2>1. /\ pc' = [pc EXCEPT ![e] = "failed"] /\ UNCHANGED <<wire, buf, swallowed>>
          /\ pc[e] \in {"login", "call", "pass", "read", "cmsRead"}
        BY <1>4 DEF ReadFails
    <2>2. InLogin' => InLogin
        BY <2>1 DEF InLogin, Lockstep
    <2> QED
        BY <2>1, <2>2 DEF OneLine, Lockstep, InLogin, Under
<1>5. ASSUME NEW e \in End, Greet(e) \/ ReadLine(e) \/ EndHandshake(e) PROVE LoginInv'
    <2>1. /\ pc[e] \in {"greet", "read"} /\ (pc[e] = "read" => buf[e] # <<>>)
          /\ pc' = pc \/ \E s \in {"read", "done", "failed"} : pc' = [pc EXCEPT ![e] = s]
          /\ swallowed' = swallowed
        <3>1. CASE Greet(e)
            BY <3>1 DEF Greet
        <3>2. CASE ReadLine(e)
            BY <3>2 DEF ReadLine, Fail
        <3>3. CASE EndHandshake(e)
            BY <3>3 DEF EndHandshake, Fail
        <3> QED
            BY <1>5, <3>1, <3>2, <3>3
    <2>2. DOMAIN wire' = End /\ DOMAIN buf' = End
        BY <1>5 DEF Greet, ReadLine, EndHandshake, Fail, Say, Rest
    <2>3. ~InLogin /\ pc["dialer"] # "login"
        <3>1. CASE e = "dialer"
            <4>1. pc["listener"] \notin {"accept", "call"}
                BY <2>1, <3>1 DEF Lockstep
            <4>2. ASSUME pc["listener"] = "pass" PROVE FALSE
                BY <2>1, <3>1, <4>2 DEF Lockstep, OneLine, InLogin, Under
            <4> QED
                BY <2>1, <3>1, <4>1, <4>2 DEF InLogin
        <3>2. CASE e = "listener"
            BY <2>1, <3>2 DEF Lockstep, InLogin
        <3> QED
            BY <3>1, <3>2
    <2>4. ~InLogin' /\ pc'["dialer"] # "login"
        BY <2>1, <2>3 DEF InLogin
    <2> QED
        BY <2>1, <2>2, <2>4 DEF OneLine, Lockstep, InLogin
<1>6. CASE CMSGreets \/ CMSReads
    <2>1. /\ pc["listener"] \in {"cms", "cmsRead"}
          /\ pc' = pc \/ \E s \in {"cmsRead", "done"} : pc' = [pc EXCEPT !["listener"] = s]
          /\ swallowed' = swallowed
        BY <1>6 DEF CMSGreets, CMSReads
    <2>2. DOMAIN wire' = End /\ DOMAIN buf' = End
        BY <1>6 DEF CMSGreets, CMSReads, Say, Rest
    <2> QED
        BY <2>1, <2>2 DEF OneLine, Lockstep, InLogin
<1>7. CASE Break
    <2>1. PICK i \in 0 .. Len(wire["dialer"]), j \in 0 .. Len(wire["listener"]) :
             wire' = [dialer |-> SubSeq(wire["dialer"], 1, i),
                      listener |-> SubSeq(wire["listener"], 1, j)]
        BY <1>7 DEF Break
    <2>2. UNCHANGED <<pc, buf, swallowed>>
        BY <1>7 DEF Break
    <2>3. /\ DOMAIN wire' = End /\ wire'["dialer"] = SubSeq(wire["dialer"], 1, i)
          /\ wire'["listener"] = SubSeq(wire["listener"], 1, j)
        BY <2>1
    <2>4. CASE ~InLogin
        BY <2>2, <2>3, <2>4 DEF OneLine, Lockstep, InLogin
    <2>5. CASE InLogin
        <3>1. /\ wire["dialer"] \in Seq(LoginLine) /\ Len(wire["dialer"]) <= 1
              /\ wire["listener"] \in Seq(LoginLine) /\ Len(wire["listener"]) <= 1
              /\ buf["dialer"] \in Seq(LoginLine) /\ buf["listener"] \in Seq(LoginLine)
            BY <2>5 DEF OneLine, Under
        <3>2. /\ wire'["dialer"] \in Seq(LoginLine) /\ Len(wire'["dialer"]) <= Len(wire["dialer"])
              /\ \A k \in DOMAIN wire'["dialer"] :
                    k \in DOMAIN wire["dialer"] /\ wire'["dialer"][k] = wire["dialer"][k]
              /\ wire'["listener"] \in Seq(LoginLine)
              /\ Len(wire'["listener"]) <= Len(wire["listener"])
            BY <2>3, <3>1, SplitOne
        <3>3. wire' \in [End -> Seq(LoginLine)]
            BY <2>1, <2>3, <3>2
        <3>4. /\ Under("dialer")' <= Under("dialer") /\ Under("listener")' <= Under("listener")
              /\ Under("dialer")' \in Nat /\ Under("listener")' \in Nat
              /\ Under("dialer") \in Nat /\ Under("listener") \in Nat
            BY <2>2, <3>1, <3>2 DEF Under
        <3>5. OneLine'
            BY <2>2, <2>5, <3>3, <3>4 DEF OneLine
        <3>6. Lockstep'
            BY <2>2, <3>2, <3>4 DEF Lockstep
        <3> QED
            BY <2>2, <2>3, <3>5, <3>6
    <2> QED
        BY <2>4, <2>5
<1> QED
    BY <1>0, <1>1, <1>2, <1>3, <1>4, <1>5, <1>6, <1>7 DEF Next, Step, Idle

\* The invariant of the login, for every scenario and any number of broken
\* connections, when the listening end is the master (as in the programs that
\* use the package).
THEOREM LoginInvariant ==
    ASSUME Master = "listener"
    PROVE  Spec => []LoginInv
BY LoginInit, LoginStep, PTL DEF Spec

\* The readers that telnet's DialContext and Accept throw away hold nothing.
THEOREM ReadersEmpty ==
    ASSUME Master = "listener"
    PROVE  Spec => []NothingSwallowed
<1>1. LoginInv => NothingSwallowed
    BY DEF LoginInv, NothingSwallowed
<1> QED
    BY <1>1, LoginInvariant, PTL
-----------------------------------------------------------------------------
(***************************************************************************)
(* The handshake. What an end has read and has still to read is a piece of *)
(* what the other end says after the login, from its first line on, and    *)
(* what it knows is what the lines it has read say.                        *)
(***************************************************************************)

\* What is said after the login, if the connection holds
ToDialer == IF server = "station" THEN motd \o HandshakeLines("listener", "") ELSE script
ToListener ==
    IF pc["dialer"] = "done"
    THEN HandshakeLines("dialer", hs["dialer"].challenge) \o <<L("command")>>
    ELSE <<L("error")>>

LinesOf(S) == {S[i] : i \in DOMAIN S}

\* The lines in a reader (b) and on the wire (w) are those of S that come after
\* the first k
Follows(b, w, k, S) ==
    /\ b \in Seq(LinesOf(S)) /\ w \in Seq(LinesOf(S))
    /\ k \in Nat /\ k + Len(b) + Len(w) <= Len(S)
    /\ \A i \in DOMAIN b : b[i] = S[k + i]
    /\ \A i \in DOMAIN w : w[i] = S[k + Len(b) + i]

Names(v) == [i \in DOMAIN v |-> v[i][1]]

\* What the first k lines of S say
LearntSid(h, k, S) ==
    /\ \A j \in 1 .. k : S[j].t = "sid" => h.sid = "B2FHM$"
    /\ (\A j \in 1 .. k : S[j].t # "sid") => h.sid = ""
LearntChallenge(h, k, S) == (\A j \in 1 .. k : S[j].t # "pq") => h.challenge = ""
LastFw(j, k, S) == S[j].t = "fw" /\ \A i \in 1 .. k : S[i].t = "fw" => i <= j
LearntFw(h, k, S) == \A j \in 1 .. k : LastFw(j, k, S) => h.fw = Names(S[j].v)
LearntResponse(h, k, S) ==
    /\ \A j \in 1 .. k : S[j].t = "pr" => h.response = S[j].v
    /\ (\A j \in 1 .. k : S[j].t # "pr") => h.response = <<>>

ScenarioInv ==
    /\ server \in {"station", "cms"} /\ motd \in Motds
    /\ script \in CMSScripts /\ faults \in Nat /\ up \in BOOLEAN

\* Where the ends can be, and the reason when one has failed
PlaceInv ==
    /\ pc["dialer"] \in {"login", "read", "done", "failed"}
    /\ pc["listener"] \in {"accept", "call", "pass", "greet", "cms", "read", "cmsRead", "done", "failed"}
    /\ pc["listener"] \in {"greet", "read"} => server = "station"
    /\ pc["listener"] \in {"cms", "cmsRead"} => server = "cms"
    /\ \A e \in End : pc[e] = "failed" => ~up
    /\ ~up => Reason

\* Who called
CallInv ==
    /\ pc["listener"] = "call" =>
        /\ \A i \in DOMAIN wire["listener"] : wire["listener"][i] = LV("call", "main")
        /\ \A i \in DOMAIN buf["listener"] : buf["listener"][i] = LV("call", "main")
    /\ pc["listener"] \in {"pass", "greet", "cms", "read", "cmsRead", "done"} => remoteCall = "main"

\* The listener has not spoken since the login
Before == {"accept", "call", "pass", "greet", "cms"}

IsData(h) ==
    h = [sid |-> h.sid, fw |-> h.fw, challenge |-> h.challenge, response |-> h.response]

DataInv ==
    /\ DOMAIN hs = End /\ \A e \in End : IsData(hs[e])
    /\ pc["dialer"] = "login" => hs["dialer"] = NoData
    /\ pc["listener"] \in Before => hs["listener"] = NoData

\* How far the dialer is
DialerAt(k) ==
    /\ Follows(buf["dialer"], wire["dialer"], k, ToDialer)
    /\ LearntSid(hs["dialer"], k, ToDialer) /\ LearntChallenge(hs["dialer"], k, ToDialer)
    /\ server = "station" => LearntFw(hs["dialer"], k, ToDialer)
    /\ pc["listener"] \in Before =>
         k = 0 /\ buf["dialer"] = <<>> /\ wire["dialer"] = <<>>
    /\ pc["dialer"] = "done" => k = Len(ToDialer) /\ hs["dialer"].sid # ""

\* How far the listener is
ListenerAt(k) ==
    /\ Follows(buf["listener"], wire["listener"], k, ToListener)
    /\ server = "station" => /\ LearntSid(hs["listener"], k, ToListener)
                             /\ LearntFw(hs["listener"], k, ToListener)
    /\ server = "cms" => LearntResponse(hs["listener"], k, ToListener)
    /\ pc["dialer"] \in {"login", "read"} =>
         k = 0 /\ buf["listener"] = <<>> /\ wire["listener"] = <<>>
    /\ pc["listener"] = "done" => k + 1 = Len(ToListener) /\ buf["listener"] # <<>> /\ pc["dialer"] = "done"

DialerInv   == pc["dialer"] # "login" => \E k \in Nat : DialerAt(k)
ListenerInv == pc["listener"] \notin {"accept", "call", "pass"} => \E k \in Nat : ListenerAt(k)

HandshakeInv == ScenarioInv /\ PlaceInv /\ CallInv /\ DataInv /\ DialerInv /\ ListenerInv
-----------------------------------------------------------------------------
(* A piece of a dialogue                                                   *)

LEMMA FollowsNone ==
    ASSUME NEW S, NEW R, S \in Seq(R)
    PROVE  Follows(<<>>, <<>>, 0, S)
<1>1. <<>> \in Seq(LinesOf(S)) /\ Len(<<>>) = 0 /\ DOMAIN <<>> = {}
    OBVIOUS
<1>2. Len(S) \in Nat
    OBVIOUS
<1> QED
    BY <1>1, <1>2 DEF Follows

LEMMA OwnLines ==
    ASSUME NEW S, NEW R, S \in Seq(R)
    PROVE  S \in Seq(LinesOf(S))
BY DEF LinesOf

LEMMA FollowsAll ==
    ASSUME NEW S, NEW R, S \in Seq(R)
    PROVE  Follows(<<>>, <<>> \o S, 0, S)
<1>1. <<>> \in Seq(LinesOf(S)) /\ Len(<<>>) = 0 /\ DOMAIN <<>> = {}
    OBVIOUS
<1>2. Len(S) \in Nat /\ S \in Seq(LinesOf(S)) /\ DOMAIN S = 1 .. Len(S)
    BY OwnLines
<1>3. <<>> \o S = S
    BY <1>2
<1> QED
    BY <1>1, <1>2, <1>3 DEF Follows

LEMMA FollowsFill ==
    ASSUME NEW w, NEW k, NEW S, NEW n \in 1 .. Len(w), Follows(<<>>, w, k, S)
    PROVE  Follows(SubSeq(w, 1, n), SubSeq(w, n + 1, Len(w)), k, S)
<1> DEFINE R == LinesOf(S)
           x == SubSeq(w, 1, n)
           y == SubSeq(w, n + 1, Len(w))
<1>1. /\ w \in Seq(R) /\ k \in Nat /\ k + 0 + Len(w) <= Len(S)
      /\ \A i \in DOMAIN w : w[i] = S[k + 0 + i]
    BY DEF Follows
<1> HIDE DEF R
<1>2. Len(w) \in Nat /\ DOMAIN w = 1 .. Len(w)
    BY <1>1
<1>3. x \in Seq(R) /\ Len(x) = n /\ DOMAIN x = 1 .. n /\ \A i \in 1 .. n : x[i] = w[i]
    BY <1>1, <1>2
<1>4. /\ y \in Seq(R) /\ Len(y) = Len(w) - n /\ DOMAIN y = 1 .. Len(w) - n
      /\ \A i \in 1 .. Len(w) - n : y[i] = w[n + i]
    <2>1. n + 1 \in 1 .. Len(w) + 1 /\ n \in Nat /\ n <= Len(w)
        BY <1>2
    <2>2. y \in Seq(R) /\ Len(y) = Len(w) - n
        <3>1. CASE n = Len(w)
            <4>1. y = <<>>
                BY <1>1, <1>2, <3>1
            <4> QED
                BY <1>2, <2>1, <3>1, <4>1
        <3>2. CASE n < Len(w)
            <4>1. n + 1 \in 1 .. Len(w)
                BY <1>2, <2>1, <3>2
            <4> QED
                BY <1>1, <1>2, <2>1, <3>2, <4>1
        <3>3. \A m \in Nat : n <= m => n = m \/ n < m
            BY <2>1
        <3> QED
            BY <1>2, <2>1, <3>1, <3>2, <3>3
    <2>3. \A i \in 1 .. Len(w) - n : y[i] = w[n + i]
        BY <1>1, <1>2, <2>1
    <2> HIDE DEF y
    <2> QED
        BY <2>2, <2>3
<1> HIDE DEF x, y
<1>5. k + Len(x) + Len(y) <= Len(S)
    BY <1>1, <1>2, <1>3, <1>4
<1>6. \A i \in DOMAIN x : x[i] = S[k + i]
    BY <1>1, <1>2, <1>3
<1>7. ASSUME NEW i \in DOMAIN y PROVE y[i] = S[k + Len(x) + i]
    <2>1. i \in Nat /\ n + i \in 1 .. Len(w) /\ y[i] = w[n + i]
        BY <1>2, <1>4, <1>7
    <2>2. w[n + i] = S[k + 0 + (n + i)]
        BY <1>1, <1>2, <2>1
    <2>3. k + 0 + (n + i) = k + Len(x) + i
        BY <1>1, <1>3, <2>1
    <2> QED
        BY <2>1, <2>2, <2>3
<1>8. Follows(x, y, k, S)
    BY <1>1, <1>3, <1>4, <1>5, <1>6, <1>7 DEF Follows, R
<1> QED
    BY <1>8 DEF x, y

LEMMA FollowsCut ==
    ASSUME NEW b, NEW w, NEW k, NEW S, NEW n \in 0 .. Len(w), Follows(b, w, k, S)
    PROVE  Follows(b, SubSeq(w, 1, n), k, S)
<1> DEFINE R == LinesOf(S)
           x == SubSeq(w, 1, n)
<1>1. /\ b \in Seq(R) /\ w \in Seq(R) /\ k \in Nat /\ k + Len(b) + Len(w) <= Len(S)
      /\ \A i \in DOMAIN b : b[i] = S[k + i]
      /\ \A i \in DOMAIN w : w[i] = S[k + Len(b) + i]
    BY DEF Follows
<1> HIDE DEF R
<1>2. Len(w) \in Nat /\ DOMAIN w = 1 .. Len(w) /\ Len(b) \in Nat /\ n \in Nat /\ n <= Len(w)
    BY <1>1
<1>3. x \in Seq(R) /\ Len(x) = n /\ DOMAIN x = 1 .. n /\ \A i \in 1 .. n : x[i] = w[i]
    BY <1>1, <1>2
<1> HIDE DEF x
<1>4. k + Len(b) + Len(x) <= Len(S)
    BY <1>1, <1>2, <1>3
<1>5. \A i \in DOMAIN x : x[i] = S[k + Len(b) + i]
    BY <1>1, <1>2, <1>3
<1>6. Follows(b, x, k, S)
    BY <1>1, <1>3, <1>4, <1>5 DEF Follows, R
<1> QED
    BY <1>6 DEF x

LEMMA FollowsRead ==
    ASSUME NEW b, NEW w, NEW k, NEW S, Follows(b, w, k, S), b # <<>>
    PROVE  /\ Head(b) = S[k + 1] /\ k + 1 \in 1 .. Len(S) /\ k + 1 \in Nat
           /\ Follows(Tail(b), w, k + 1, S)
           /\ k + 1 = Len(S) => Tail(b) = <<>> /\ w = <<>>
<1> DEFINE R == LinesOf(S)
           t == Tail(b)
<1>1. /\ b \in Seq(R) /\ w \in Seq(R) /\ k \in Nat /\ k + Len(b) + Len(w) <= Len(S)
      /\ \A i \in DOMAIN b : b[i] = S[k + i]
      /\ \A i \in DOMAIN w : w[i] = S[k + Len(b) + i]
    BY DEF Follows
<1> HIDE DEF R
<1>2. /\ Len(w) \in Nat /\ Len(b) \in Nat /\ Len(b) > 0 /\ DOMAIN b = 1 .. Len(b)
      /\ DOMAIN w = 1 .. Len(w)
    BY <1>1
<1>3. /\ t \in Seq(R) /\ Len(t) = Len(b) - 1 /\ DOMAIN t = 1 .. Len(b) - 1
      /\ \A i \in 1 .. Len(b) - 1 : t[i] = b[i + 1]
    BY <1>1, <1>2
<1>4. Head(b) = b[1] /\ 1 \in DOMAIN b
    BY <1>1, <1>2
<1>a. b[1] = S[k + 1]
    BY <1>1, <1>4
<1> HIDE DEF t
<1>5. (k + 1) + Len(t) + Len(w) <= Len(S)
    BY <1>1, <1>2, <1>3
<1>6. \A i \in DOMAIN t : t[i] = S[k + 1 + i]
    <2> SUFFICES ASSUME NEW i \in DOMAIN t PROVE t[i] = S[k + 1 + i]
        OBVIOUS
    <2>1. i + 1 \in DOMAIN b /\ t[i] = b[i + 1] /\ i \in Nat
        BY <1>2, <1>3
    <2>2. b[i + 1] = S[k + (i + 1)] /\ k + (i + 1) = k + 1 + i
        BY <1>1, <2>1
    <2> QED
        BY <2>1, <2>2
<1>7. \A i \in DOMAIN w : w[i] = S[(k + 1) + Len(t) + i]
    BY <1>1, <1>2, <1>3
<1>8. Follows(t, w, k + 1, S)
    BY <1>1, <1>3, <1>5, <1>6, <1>7 DEF Follows, R
<1> QED
    BY <1>1, <1>2, <1>3, <1>4, <1>a, <1>5, <1>8, Empty DEF t
-----------------------------------------------------------------------------
(* What is said                                                            *)

\* What the dialer hears ends with a prompt. It has a SID before that, and no
\* prompt earlier, unless there is a reason to fail.
Speech(S) ==
    /\ S \in Seq(LinesOf(S)) /\ Len(S) \in Nat /\ S[Len(S)].t = "prompt"
    /\ \A j \in 1 .. Len(S) - 1 :
         S[j].t = "prompt" => Reason /\ \A i \in 1 .. j : S[i].t # "sid"
    /\ Reason \/ \E j \in 1 .. Len(S) - 1 : S[j].t = "sid"
    /\ \A j \in 1 .. Len(S) : S[j].t \in Refused => Reason
    /\ \A j \in 1 .. Len(S) : S[j].t = "pq" /\ handler \in {"none", "fails"} => Reason
    /\ server = "station" =>
         \E j \in 1 .. Len(S) : LastFw(j, Len(S), S) /\ Names(S[j].v) = LocalFW["listener"]

\* What the listener hears ends with the command
Reply(S, challenge) ==
    /\ S \in Seq(LinesOf(S)) /\ Len(S) \in Nat /\ S[Len(S)].t = "command"
    /\ \A j \in 1 .. Len(S) - 1 : S[j].t \in {"fw", "sid", "pr", "comment"}
    /\ \E j \in 1 .. Len(S) - 1 : S[j].t = "sid"
    /\ \E j \in 1 .. Len(S) - 1 :
         LastFw(j, Len(S) - 1, S) /\ Names(S[j].v) = LocalFW["dialer"]
    /\ \A j \in 1 .. Len(S) : S[j].t = "pr" => S[j].v = Response(challenge, "main")
    /\ challenge # "" <=> \E j \in 1 .. Len(S) - 1 : S[j].t = "pr"

\* Short dialogues
LEMMA OneMore ==
    ASSUME NEW R, NEW s \in Seq(R), NEW a \in R
    PROVE  /\ s \o <<a>> \in Seq(R) /\ Len(s \o <<a>>) = Len(s) + 1
           /\ \A i \in 1 .. Len(s) : (s \o <<a>>)[i] = s[i]
           /\ (s \o <<a>>)[Len(s) + 1] = a
OBVIOUS

LEMMA Grown ==
    ASSUME NEW R, NEW s, NEW a, NEW t, s \in Seq(R), a \in R, t = s \o <<a>>
    PROVE  /\ t \in Seq(R) /\ Len(t) = Len(s) + 1 /\ t[Len(s) + 1] = a
           /\ \A i \in 1 .. Len(s) : t[i] = s[i]
BY OneMore

LEMMA OneBefore ==
    ASSUME NEW R, NEW s \in Seq(R), NEW a \in R
    PROVE  /\ <<a>> \o s \in Seq(R) /\ Len(<<a>> \o s) = Len(s) + 1
           /\ \A i \in 1 .. Len(s) : (<<a>> \o s)[i + 1] = s[i]
           /\ (<<a>> \o s)[1] = a
OBVIOUS

LEMMA NoneMore ==
    ASSUME NEW R, NEW s \in Seq(R)
    PROVE  s \o <<>> = s /\ <<>> \o s = s
OBVIOUS

LEMMA Listed ==
    ASSUME NEW challenge, NEW e \in End
    PROVE  /\ ForwardLine(e, challenge).t = "fw"
           /\ Names(ForwardLine(e, challenge).v) = LocalFW[e]
<1> DEFINE s == LocalFW[e]
           v == [i \in DOMAIN LocalFW[e] |->
                   IF challenge # "" /\ i > 1 /\ handler = "all"
                   THEN <<LocalFW[e][i], Response(challenge, LocalFW[e][i])>>
                   ELSE <<LocalFW[e][i]>>]
<1>1. ForwardLine(e, challenge).t = "fw" /\ ForwardLine(e, challenge).v = v
    BY DEF ForwardLine, LV
<1>2. DOMAIN v = DOMAIN s /\ \A i \in DOMAIN s : v[i][1] = s[i]
    OBVIOUS
<1>3. s = [i \in DOMAIN s |-> s[i]]
    BY EndFacts DEF LocalFW
<1> HIDE DEF s, v
<1>4. Names(v) = s
    BY <1>2, <1>3 DEF Names
<1> QED
    BY <1>1, <1>4 DEF s

\* The dialogue of a master, after no line or one line
LEMMA MasterSays ==
    ASSUME Master = "listener"
    PROVE  LET h == HandshakeLines("listener", "")
           IN  /\ h \in Seq(LinesOf(h)) /\ Len(h) = 3
               /\ h[1] = ForwardLine("listener", "") /\ h[2] = L("sid") /\ h[3] = L("prompt")
<1> DEFINE h == HandshakeLines("listener", "")
           f == ForwardLine("listener", "")
           R == {f, L("sid"), L("prompt")}
<1>1. h = <<f, L("sid")>> \o <<>> \o <<L("prompt")>>
    BY DEF HandshakeLines
<1>2. L("sid") \in R /\ L("prompt") \in R /\ f \in R
    OBVIOUS
<1> HIDE DEF f, R, h
<1>3. <<f, L("sid")>> \in Seq(R) /\ <<f, L("sid")>>[1] = f /\ <<f, L("sid")>>[2] = L("sid")
      /\ Len(<<f, L("sid")>>) = 2
    BY <1>2
<1>4. <<f, L("sid")>> \o <<>> = <<f, L("sid")>>
    BY <1>3, NoneMore
<1>5. h \in Seq(R) /\ Len(h) = 3 /\ h[1] = f /\ h[2] = L("sid") /\ h[3] = L("prompt")
    BY <1>1, <1>2, <1>3, <1>4, OneMore
<1>6. h \in Seq(LinesOf(h))
    BY <1>5, OwnLines
<1> QED
    BY <1>5, <1>6 DEF h, f

LEMMA AnswerSays ==
    ASSUME Master = "listener", NEW challenge
    PROVE  LET h == HandshakeLines("dialer", challenge) \o <<L("command")>>
           IN  /\ h \in Seq(LinesOf(h))
               /\ h[1] = ForwardLine("dialer", challenge) /\ h[2] = L("sid")
               /\ challenge = "" => Len(h) = 4 /\ h[3] = L("comment") /\ h[4] = L("command")
               /\ challenge # "" =>
                    /\ Len(h) = 5 /\ h[3] = LV("pr", Response(challenge, "main"))
                    /\ h[4] = L("comment") /\ h[5] = L("command")
<1> DEFINE f == ForwardLine("dialer", challenge)
           r == LV("pr", Response(challenge, "main"))
           m == IF challenge # "" THEN <<r>> ELSE <<>>
           R == {f, r, L("sid"), L("comment"), L("command")}
           a == <<f, L("sid")>>
           h == HandshakeLines("dialer", challenge) \o <<L("command")>>
<1>1. h = a \o m \o <<L("comment")>> \o <<L("command")>>
    <2>1. Head(LocalFW["dialer"]) = "main"
        BY EndFacts DEF LocalFW
    <2> QED
        BY <2>1 DEF HandshakeLines
<1>2. L("sid") \in R /\ L("comment") \in R /\ f \in R /\ r \in R /\ L("command") \in R
    OBVIOUS
<1>0. (challenge # "" => m = <<r>>) /\ (challenge = "" => m = <<>>)
    OBVIOUS
<1> HIDE DEF f, R, h, r, m
<1>3. a \in Seq(R) /\ a[1] = f /\ a[2] = L("sid") /\ Len(a) = 2
    BY <1>2
<1> HIDE DEF a
<1>4. /\ a \o m \in Seq(R) /\ (a \o m)[1] = f /\ (a \o m)[2] = L("sid")
      /\ challenge = "" => Len(a \o m) = 2
      /\ challenge # "" => Len(a \o m) = 3 /\ (a \o m)[3] = r
    <2>1. CASE challenge = ""
        <3>1. a \o m = a
            BY <1>0, <1>3, <2>1, NoneMore
        <3> QED
            BY <1>3, <2>1, <3>1
    <2>2. CASE challenge # ""
        <3>1. /\ a \o <<r>> \in Seq(R) /\ Len(a \o <<r>>) = Len(a) + 1
              /\ \A i \in 1 .. Len(a) : (a \o <<r>>)[i] = a[i]
              /\ (a \o <<r>>)[Len(a) + 1] = r
            BY <1>2, <1>3, OneMore
        <3>2. /\ a \o <<r>> \in Seq(R) /\ Len(a \o <<r>>) = 3
              /\ (a \o <<r>>)[1] = f /\ (a \o <<r>>)[2] = L("sid") /\ (a \o <<r>>)[3] = r
            BY <1>3, <3>1
        <3> QED
            BY <1>0, <2>2, <3>2
    <2> QED
        BY <2>1, <2>2
<1>5. PICK b, c : b = a \o m /\ c = b \o <<L("comment")>> /\ h = c \o <<L("command")>>
    BY <1>1
<1>6. b \in Seq(R) /\ b[1] = f /\ b[2] = L("sid")
    BY <1>4, <1>5
<1>c. /\ challenge = "" => Len(b) = 2
      /\ challenge # "" => Len(b) = 3 /\ b[3] = r
    BY <1>4, <1>5
<1>7. /\ c \in Seq(R) /\ Len(c) = Len(b) + 1 /\ c[Len(b) + 1] = L("comment")
      /\ \A i \in 1 .. Len(b) : c[i] = b[i]
    BY <1>2, <1>5, <1>6, Grown
<1>8. /\ h \in Seq(R) /\ Len(h) = Len(c) + 1 /\ h[Len(c) + 1] = L("command")
      /\ \A i \in 1 .. Len(c) : h[i] = c[i]
    BY <1>2, <1>5, <1>7, Grown
<1>a. CASE challenge = ""
    <2>1. Len(b) = 2
        BY <1>c, <1>a
    <2>2. Len(c) = 3 /\ c[1] = f /\ c[2] = L("sid") /\ c[3] = L("comment")
        BY <1>6, <1>7, <2>1
    <2>3. /\ Len(h) = 4 /\ h[1] = f /\ h[2] = L("sid") /\ h[3] = L("comment")
          /\ h[4] = L("command")
        BY <1>8, <2>2
    <2>4. h \in Seq(LinesOf(h))
        BY <1>8, OwnLines
    <2> QED
        BY <1>a, <2>3, <2>4 DEF h, f
<1>b. CASE challenge # ""
    <2>1. Len(b) = 3 /\ b[3] = r
        BY <1>c, <1>b
    <2>2. Len(c) = 4 /\ c[1] = f /\ c[2] = L("sid") /\ c[3] = r /\ c[4] = L("comment")
        BY <1>6, <1>7, <2>1
    <2>3. /\ Len(h) = 5 /\ h[1] = f /\ h[2] = L("sid") /\ h[3] = r /\ h[4] = L("comment")
          /\ h[5] = L("command")
        BY <1>8, <2>2
    <2>4. h \in Seq(LinesOf(h))
        BY <1>8, OwnLines
    <2> QED
        BY <1>b, <2>3, <2>4 DEF h, f, r
<1> QED
    BY <1>a, <1>b

\* The kinds of lines
LEMMA Kind ==
    ASSUME NEW t, NEW v
    PROVE  L(t).t = t /\ LV(t, v).t = t /\ LV(t, v).v = v
BY DEF L, LV

LEMMA StationSpeaks ==
    ASSUME Master = "listener", ScenarioInv, server = "station"
    PROVE  Speech(ToDialer)
<1> DEFINE h == HandshakeLines("listener", "")
           f == ForwardLine("listener", "")
           S == motd \o h
<1>1. /\ h \in Seq(LinesOf(h)) /\ Len(h) = 3
      /\ h[1] = f /\ h[2] = L("sid") /\ h[3] = L("prompt")
    BY MasterSays
<1>2. f.t = "fw" /\ Names(f.v) = LocalFW["listener"]
    BY Listed, EndFacts
<1>3. ToDialer = S
    BY DEF ToDialer
<1>4. motd = <<>> \/ \E a : motd = <<a>>
    BY DEF ScenarioInv, Motds
<1>5. /\ L("sid").t = "sid" /\ L("prompt").t = "prompt"
    BY Kind
<1> HIDE DEF h, f
<1>6. ASSUME motd = <<>>
      PROVE  Speech(ToDialer)
    <2>1. S = h
        BY <1>1, <1>6, NoneMore
    <2>2. /\ h[1].t = "fw" /\ h[2].t = "sid" /\ h[3].t = "prompt" /\ Names(h[1].v) = LocalFW["listener"]
        BY <1>1, <1>2, <1>5
    <2> HIDE DEF S
    <2>3. Speech(h)
        <3>1. \A j \in 1 .. Len(h) : j = 1 \/ j = 2 \/ j = 3
            BY <1>1
        <3>2. \A j \in 1 .. Len(h) - 1 : j = 1 \/ j = 2
            BY <1>1
        <3>3. 1 \in 1 .. Len(h) /\ 2 \in 1 .. Len(h) - 1 /\ Len(h) \in Nat
            BY <1>1
        <3>4. LastFw(1, Len(h), h)
            BY <2>2, <3>1 DEF LastFw
        <3> QED
            BY <1>1, <2>2, <3>1, <3>2, <3>3, <3>4 DEF Speech, Refused
    <2> QED
        BY <1>3, <2>1, <2>3
<1>7. ASSUME NEW a, motd = <<a>>
      PROVE  Speech(ToDialer)
    <2>r. a.t \in Refused \cup {"prompt"} \/ (a.t = "pq" /\ handler \in {"none", "fails"}) => Reason
        <3>1. 1 \in DOMAIN motd /\ motd[1] = a
            BY <1>7
        <3> QED
            BY <3>1 DEF Reason, Text
    <2> DEFINE R == LinesOf(h) \cup {a}
    <2>0. h \in Seq(R) /\ a \in R
        BY <1>1
    <2> HIDE DEF R
    <2>1. /\ S \in Seq(R) /\ Len(S) = Len(h) + 1 /\ S[1] = a
          /\ \A i \in 1 .. Len(h) : S[i + 1] = h[i]
        BY <1>7, <2>0, OneBefore
    <2> HIDE DEF S
    <2>2. S \in Seq(LinesOf(S))
        BY <2>1, OwnLines
    <2>3. Len(S) = 4 /\ S[2] = h[1] /\ S[3] = h[2] /\ S[4] = h[3]
        BY <1>1, <2>1
    <2>4. /\ S[2].t = "fw" /\ S[3].t = "sid" /\ S[4].t = "prompt"
          /\ Names(S[2].v) = LocalFW["listener"]
        BY <1>1, <1>2, <1>5, <2>3
    <2>5. Speech(S)
        <3>1. \A j \in 1 .. Len(S) : j = 1 \/ j = 2 \/ j = 3 \/ j = 4
            BY <2>3
        <3>2. \A j \in 1 .. Len(S) - 1 : j = 1 \/ j = 2 \/ j = 3
            BY <2>3
        <3>3. 2 \in 1 .. Len(S) /\ 3 \in 1 .. Len(S) - 1 /\ Len(S) \in Nat
            BY <2>3
        <3>4. \A i \in 1 .. 1 : i = 1
            OBVIOUS
        <3>5. LastFw(2, Len(S), S)
            BY <2>4, <3>1 DEF LastFw
        <3>6. \A j \in 1 .. Len(S) - 1 :
                 S[j].t = "prompt" => Reason /\ \A i \in 1 .. j : S[i].t # "sid"
            BY <2>1, <2>4, <2>r, <3>2, <3>4
        <3>7. /\ \A j \in 1 .. Len(S) : S[j].t \in Refused => Reason
              /\ \A j \in 1 .. Len(S) : S[j].t = "pq" /\ handler \in {"none", "fails"} => Reason
            BY <2>1, <2>4, <2>r, <3>1 DEF Refused
        <3> QED
            BY <2>2, <2>3, <2>4, <3>3, <3>5, <3>6, <3>7 DEF Speech
    <2> QED
        BY <1>3, <2>5
<1> QED
    BY <1>4, <1>6, <1>7

LEMMA CMSSpeaks ==
    ASSUME ScenarioInv, server = "cms"
    PROVE  Speech(ToDialer)
<1>0. ToDialer = script /\ script \in CMSScripts
    BY DEF ToDialer, ScenarioInv
<1> DEFINE S == script
           q == LV("pq", "nonce")
<1>1. /\ L("sid").t = "sid" /\ L("prompt").t = "prompt" /\ L("stats").t = "stats"
      /\ L("comment").t = "comment" /\ L("oldSid").t = "oldSid" /\ L("badSid").t = "badSid"
      /\ q.t = "pq"
    BY Kind
<1> HIDE DEF q
<1>2. ASSUME NEW a \in {L("oldSid"), L("badSid"), q}, S = <<a, L("prompt")>>
      PROVE  Speech(S)
    <2>1. Len(S) = 2 /\ S[1] \in {L("oldSid"), L("badSid"), q} /\ S[2] = L("prompt")
        BY <1>2
    <2>2. S[1].t \in {"oldSid", "badSid", "pq"} /\ S[2].t = "prompt"
        BY <1>1, <2>1
    <2>3. \A i \in 1 .. Len(S) : i = 1 \/ i = 2
        BY <2>1
    <2>4. \A i \in DOMAIN S : S[i].t # "sid"
        BY <2>1, <2>2, <2>3
    <2>5. Reason
        BY <2>4 DEF Reason
    <2>6. S \in Seq(LinesOf(S))
        <3>1. S \in Seq({a, L("prompt")})
            BY <1>2
        <3> QED
            BY <3>1, OwnLines
    <2>7. \A j \in 1 .. Len(S) - 1 : j = 1
        BY <2>1
    <2>8. \A j \in 1 .. 1 : j = 1
        OBVIOUS
    <2> QED
        BY <2>1, <2>2, <2>5, <2>6, <2>7, <2>8 DEF Speech, Refused
<1>3. ASSUME S = <<L("stats"), L("sid"), L("prompt")>>
      PROVE  Speech(S)
    <2>1. Len(S) = 3 /\ S[1] = L("stats") /\ S[2] = L("sid") /\ S[3] = L("prompt")
        BY <1>3
    <2>2. S[1].t = "stats" /\ S[2].t = "sid" /\ S[3].t = "prompt"
        BY <1>1, <2>1
    <2>3. S \in Seq(LinesOf(S))
        <3>1. S \in Seq({L("stats"), L("sid"), L("prompt")})
            BY <1>3
        <3> QED
            BY <3>1, OwnLines
    <2>4. \A j \in 1 .. Len(S) - 1 : j = 1 \/ j = 2
        BY <2>1
    <2>5. \A j \in 1 .. Len(S) : j = 1 \/ j = 2 \/ j = 3
        BY <2>1
    <2>6. 2 \in 1 .. Len(S) - 1
        BY <2>1
    <2> QED
        BY <2>1, <2>2, <2>3, <2>4, <2>5, <2>6 DEF Speech, Refused
<1>5. ASSUME S = <<L("sid"), L("badFw"), L("prompt")>>
      PROVE  Speech(S)
    <2>1. /\ Len(S) = 3 /\ S[1] = L("sid") /\ S[2] = L("badFw") /\ S[3] = L("prompt")
          /\ 2 \in DOMAIN S
        BY <1>5
    <2>2. S[1].t = "sid" /\ S[2].t = "badFw" /\ S[3].t = "prompt"
        BY <1>1, <2>1, Kind
    <2>3. S \in Seq(LinesOf(S))
        <3>1. S \in Seq({L("sid"), L("badFw"), L("prompt")})
            BY <1>5
        <3> QED
            BY <3>1, OwnLines
    <2>4. \A j \in 1 .. Len(S) - 1 : j = 1 \/ j = 2
        BY <2>1
    <2>5. \A j \in 1 .. Len(S) : j = 1 \/ j = 2 \/ j = 3
        BY <2>1
    <2>6. Reason
        BY <2>1, <2>2 DEF Reason, Text, Refused
    <2> QED
        BY <2>1, <2>2, <2>3, <2>4, <2>5, <2>6 DEF Speech, Refused
<1>4. ASSUME S = <<L("sid"), q, L("comment"), L("prompt")>>
      PROVE  Speech(S)
    <2>1. Len(S) = 4 /\ S[1] = L("sid") /\ S[2] = q /\ S[3] = L("comment") /\ S[4] = L("prompt")
        BY <1>4
    <2>2. S[1].t = "sid" /\ S[2].t = "pq" /\ S[3].t = "comment" /\ S[4].t = "prompt"
        BY <1>1, <2>1
    <2>3. S \in Seq(LinesOf(S))
        <3>1. S \in Seq({L("sid"), q, L("comment"), L("prompt")})
            BY <1>4
        <3> QED
            BY <3>1, OwnLines
    <2>4. \A j \in 1 .. Len(S) - 1 : j = 1 \/ j = 2 \/ j = 3
        BY <2>1
    <2>5. \A j \in 1 .. Len(S) : j = 1 \/ j = 2 \/ j = 3 \/ j = 4
        BY <2>1
    <2>6. 1 \in 1 .. Len(S) - 1
        BY <2>1
    <2>7. 2 \in DOMAIN S /\ S[2].t = "pq"
        BY <1>4, <2>2
    <2>8. handler \in {"none", "fails"} => Reason
        BY <2>7 DEF Reason, Text
    <2> QED
        BY <2>1, <2>2, <2>3, <2>4, <2>5, <2>6, <2>8 DEF Speech, Refused
<1> QED
    BY <1>0, <1>2, <1>3, <1>4, <1>5 DEF CMSScripts, q

LEMMA Speaks ==
    ASSUME Master = "listener", ScenarioInv
    PROVE  Speech(ToDialer)
BY StationSpeaks, CMSSpeaks DEF ScenarioInv

LEMMA Replies ==
    ASSUME Master = "listener", NEW challenge
    PROVE  Reply(HandshakeLines("dialer", challenge) \o <<L("command")>>, challenge)
<1> DEFINE h == HandshakeLines("dialer", challenge) \o <<L("command")>>
           f == ForwardLine("dialer", challenge)
           r == Response(challenge, "main")
<1>1. /\ h \in Seq(LinesOf(h)) /\ h[1] = f /\ h[2] = L("sid")
      /\ challenge = "" => Len(h) = 4 /\ h[3] = L("comment") /\ h[4] = L("command")
      /\ challenge # "" => /\ Len(h) = 5 /\ h[3] = LV("pr", r)
                           /\ h[4] = L("comment") /\ h[5] = L("command")
    BY AnswerSays
<1>2. f.t = "fw" /\ Names(f.v) = LocalFW["dialer"]
    BY Listed, EndFacts
<1>3. /\ L("sid").t = "sid" /\ L("comment").t = "comment" /\ L("command").t = "command"
      /\ LV("pr", r).t = "pr" /\ LV("pr", r).v = r
    BY Kind
<1> HIDE DEF h, f, r
<1>4. h[1].t = "fw" /\ h[2].t = "sid" /\ Names(h[1].v) = LocalFW["dialer"]
    BY <1>1, <1>2, <1>3
<1>7. h \in Seq(LinesOf(h))
    BY <1>1
<1>5. ASSUME challenge = ""
      PROVE  Reply(h, challenge)
    <2>1. Len(h) = 4 /\ h[3].t = "comment" /\ h[4].t = "command"
        BY <1>1, <1>3, <1>5
    <2>2. \A j \in 1 .. Len(h) - 1 : j = 1 \/ j = 2 \/ j = 3
        BY <2>1
    <2>3. \A j \in 1 .. Len(h) : j = 1 \/ j = 2 \/ j = 3 \/ j = 4
        BY <2>1
    <2>4. 1 \in 1 .. Len(h) - 1 /\ 2 \in 1 .. Len(h) - 1
        BY <2>1
    <2>5. Len(h) \in Nat /\ h[Len(h)].t = "command"
        BY <2>1
    <2>6. \A j \in 1 .. Len(h) - 1 : h[j].t \in {"fw", "sid", "pr", "comment"}
        BY <1>4, <2>1, <2>2
    <2>7. \A j \in 1 .. Len(h) : h[j].t = "pr" => h[j].v = r
        BY <1>4, <2>1, <2>3
    <2>a. LastFw(1, Len(h) - 1, h)
        BY <1>4, <2>1, <2>2 DEF LastFw
    <2>8. /\ \E j \in 1 .. Len(h) - 1 : h[j].t = "sid"
          /\ \E j \in 1 .. Len(h) - 1 :
               LastFw(j, Len(h) - 1, h) /\ Names(h[j].v) = LocalFW["dialer"]
        BY <1>4, <2>4, <2>a
    <2>9. challenge # "" <=> \E j \in 1 .. Len(h) - 1 : h[j].t = "pr"
        BY <1>4, <1>5, <2>1, <2>2, <2>4
    <2> QED
        BY <1>7, <2>5, <2>6, <2>7, <2>8, <2>9 DEF Reply, r
<1>6. ASSUME challenge # ""
      PROVE  Reply(h, challenge)
    <2>1. Len(h) = 5 /\ h[3].t = "pr" /\ h[3].v = r /\ h[4].t = "comment" /\ h[5].t = "command"
        BY <1>1, <1>3, <1>6
    <2>2. \A j \in 1 .. Len(h) - 1 : j = 1 \/ j = 2 \/ j = 3 \/ j = 4
        BY <2>1
    <2>3. \A j \in 1 .. Len(h) : j = 1 \/ j = 2 \/ j = 3 \/ j = 4 \/ j = 5
        BY <2>1
    <2>4. 1 \in 1 .. Len(h) - 1 /\ 2 \in 1 .. Len(h) - 1 /\ 3 \in 1 .. Len(h) - 1
        BY <2>1
    <2>5. Len(h) \in Nat /\ h[Len(h)].t = "command"
        BY <2>1
    <2>6. \A j \in 1 .. Len(h) - 1 : h[j].t \in {"fw", "sid", "pr", "comment"}
        BY <1>4, <2>1, <2>2
    <2>7. \A j \in 1 .. Len(h) : h[j].t = "pr" => h[j].v = r
        BY <1>4, <2>1, <2>3
    <2>a. LastFw(1, Len(h) - 1, h)
        BY <1>4, <2>1, <2>2 DEF LastFw
    <2>8. /\ \E j \in 1 .. Len(h) - 1 : h[j].t = "sid"
          /\ \E j \in 1 .. Len(h) - 1 :
               LastFw(j, Len(h) - 1, h) /\ Names(h[j].v) = LocalFW["dialer"]
        BY <1>4, <2>4, <2>a
    <2>9. challenge # "" <=> \E j \in 1 .. Len(h) - 1 : h[j].t = "pr"
        BY <1>4, <1>6, <2>1, <2>2, <2>4
    <2> QED
        BY <1>7, <2>5, <2>6, <2>7, <2>8, <2>9 DEF Reply, r
<1> QED
    BY <1>5, <1>6 DEF h
-----------------------------------------------------------------------------
(* What an end knows                                                       *)

LEMMA LearntNothing ==
    ASSUME NEW h, NEW S
    PROVE  /\ LearntSid(h, 0, S) <=> h.sid = ""
           /\ LearntChallenge(h, 0, S) <=> h.challenge = ""
           /\ LearntFw(h, 0, S)
           /\ LearntResponse(h, 0, S) <=> h.response = <<>>
<1>1. 1 .. 0 = {}
    OBVIOUS
<1> QED
    BY <1>1 DEF LearntSid, LearntChallenge, LearntFw, LearntResponse

LEMMA Within ==
    ASSUME NEW k \in Nat, NEW n \in Nat, k + 1 \in 1 .. n
    PROVE  /\ k + 1 \in Nat /\ \A j \in 1 .. k + 1 : j \in 1 .. n
           /\ (k + 1 = n /\ k = n - 1) \/ k + 1 \in 1 .. n - 1
OBVIOUS

LEMMA OneLineMore ==
    ASSUME NEW k \in Nat
    PROVE  /\ k + 1 \in 1 .. k + 1
           /\ \A j \in 1 .. k : j \in 1 .. k + 1
           /\ \A j \in 1 .. k + 1 : j \in 1 .. k \/ j = k + 1
OBVIOUS

LEMMA NextSid ==
    ASSUME NEW h, NEW g, NEW k \in Nat, NEW S, LearntSid(h, k, S),
           S[k + 1].t = "sid" => g.sid = "B2FHM$",
           S[k + 1].t # "sid" => g.sid = h.sid
    PROVE  LearntSid(g, k + 1, S)
<1>1. ASSUME NEW j \in 1 .. k + 1, S[j].t = "sid" PROVE g.sid = "B2FHM$"
    BY <1>1, OneLineMore DEF LearntSid
<1>2. ASSUME \A j \in 1 .. k + 1 : S[j].t # "sid" PROVE g.sid = ""
    BY <1>2, OneLineMore DEF LearntSid
<1> QED
    BY <1>1, <1>2 DEF LearntSid

LEMMA NextChallenge ==
    ASSUME NEW h, NEW g, NEW k \in Nat, NEW S, LearntChallenge(h, k, S),
           S[k + 1].t # "pq" => g.challenge = h.challenge
    PROVE  LearntChallenge(g, k + 1, S)
BY OneLineMore DEF LearntChallenge

LEMMA NextFw ==
    ASSUME NEW h, NEW g, NEW k \in Nat, NEW S, LearntFw(h, k, S),
           S[k + 1].t = "fw" => g.fw = Names(S[k + 1].v),
           S[k + 1].t # "fw" => g.fw = h.fw
    PROVE  LearntFw(g, k + 1, S)
<1> SUFFICES ASSUME NEW j \in 1 .. k + 1, LastFw(j, k + 1, S) PROVE g.fw = Names(S[j].v)
    BY DEF LearntFw
<1>1. CASE S[k + 1].t = "fw"
    <2>1. k + 1 <= j
        BY <1>1, OneLineMore DEF LastFw
    <2>2. j = k + 1
        BY <2>1
    <2> QED
        BY <1>1, <2>2
<1>2. CASE S[k + 1].t # "fw"
    <2>1. j \in 1 .. k
        BY <1>2, OneLineMore DEF LastFw
    <2>2. LastFw(j, k, S)
        BY OneLineMore DEF LastFw
    <2> QED
        BY <1>2, <2>1, <2>2 DEF LearntFw
<1> QED
    BY <1>1, <1>2

LEMMA NextResponse ==
    ASSUME NEW h, NEW g, NEW k \in Nat, NEW S, NEW r, LearntResponse(h, k, S),
           \A j \in 1 .. k + 1 : S[j].t = "pr" => S[j].v = r,
           S[k + 1].t = "pr" => g.response = S[k + 1].v,
           S[k + 1].t # "pr" => g.response = h.response
    PROVE  LearntResponse(g, k + 1, S)
<1>1. ASSUME NEW j \in 1 .. k + 1, S[j].t = "pr" PROVE g.response = S[j].v
    <2>1. CASE S[k + 1].t = "pr"
        BY <1>1, <2>1, OneLineMore
    <2>2. CASE S[k + 1].t # "pr"
        BY <1>1, <2>2, OneLineMore DEF LearntResponse
    <2> QED
        BY <2>1, <2>2
<1>2. ASSUME \A j \in 1 .. k + 1 : S[j].t # "pr" PROVE g.response = <<>>
    BY <1>2, OneLineMore DEF LearntResponse
<1> QED
    BY <1>1, <1>2 DEF LearntResponse

\* One field of what an end knows changes
LEMMA SetSid ==
    ASSUME NEW h, NEW x, NEW g, IsData(h), g = [h EXCEPT !.sid = x]
    PROVE  IsData(g) /\ g.sid = x /\ g.fw = h.fw /\ g.challenge = h.challenge /\ g.response = h.response
<1> DEFINE a == h.sid
           b == h.fw
           c == h.challenge
           d == h.response
<1>1. h = [sid |-> a, fw |-> b, challenge |-> c, response |-> d]
    BY DEF IsData
<1> HIDE DEF a, b, c, d
<1>2. g = [sid |-> x, fw |-> b, challenge |-> c, response |-> d]
    BY <1>1
<1> QED
    BY <1>2 DEF IsData, a, b, c, d

LEMMA SetFw ==
    ASSUME NEW h, NEW x, NEW g, IsData(h), g = [h EXCEPT !.fw = x]
    PROVE  IsData(g) /\ g.sid = h.sid /\ g.fw = x /\ g.challenge = h.challenge /\ g.response = h.response
<1> DEFINE a == h.sid
           b == h.fw
           c == h.challenge
           d == h.response
<1>1. h = [sid |-> a, fw |-> b, challenge |-> c, response |-> d]
    BY DEF IsData
<1> HIDE DEF a, b, c, d
<1>2. g = [sid |-> a, fw |-> x, challenge |-> c, response |-> d]
    BY <1>1
<1> QED
    BY <1>2 DEF IsData, a, b, c, d

LEMMA SetChallenge ==
    ASSUME NEW h, NEW x, NEW g, IsData(h), g = [h EXCEPT !.challenge = x]
    PROVE  IsData(g) /\ g.sid = h.sid /\ g.fw = h.fw /\ g.challenge = x /\ g.response = h.response
<1> DEFINE a == h.sid
           b == h.fw
           c == h.challenge
           d == h.response
<1>1. h = [sid |-> a, fw |-> b, challenge |-> c, response |-> d]
    BY DEF IsData
<1> HIDE DEF a, b, c, d
<1>2. g = [sid |-> a, fw |-> b, challenge |-> x, response |-> d]
    BY <1>1
<1> QED
    BY <1>2 DEF IsData, a, b, c, d

LEMMA SetResponse ==
    ASSUME NEW h, NEW x, NEW g, IsData(h), g = [h EXCEPT !.response = x]
    PROVE  IsData(g) /\ g.sid = h.sid /\ g.fw = h.fw /\ g.challenge = h.challenge /\ g.response = x
<1> DEFINE a == h.sid
           b == h.fw
           c == h.challenge
           d == h.response
<1>1. h = [sid |-> a, fw |-> b, challenge |-> c, response |-> d]
    BY DEF IsData
<1> HIDE DEF a, b, c, d
<1>2. g = [sid |-> a, fw |-> b, challenge |-> c, response |-> x]
    BY <1>1
<1> QED
    BY <1>2 DEF IsData, a, b, c, d

\* The dialogues do not change with the state of the ends
LEMMA SameSpeech ==
    ASSUME UNCHANGED scenario
    PROVE  ToDialer' = ToDialer
BY DEF ToDialer, HandshakeLines, ForwardLine, scenario

LEMMA SameReply ==
    ASSUME UNCHANGED scenario, pc'["dialer"] = "done" <=> pc["dialer"] = "done",
           pc["dialer"] = "done" => hs'["dialer"].challenge = hs["dialer"].challenge
    PROVE  ToListener' = ToListener
BY DEF ToListener, HandshakeLines, ForwardLine, scenario

LEMMA SameReason ==
    ASSUME UNCHANGED scenario, faults \in Nat, faults' \in Nat, faults' >= faults, Reason
    PROVE  Reason'
BY DEF Reason, Text, scenario

LEMMA ReplyIs ==
    ASSUME Master = "listener"
    PROVE  /\ pc["dialer"] = "done" => Reply(ToListener, hs["dialer"].challenge)
           /\ pc["dialer"] # "done" => ToListener = <<L("error")>>
           /\ ToListener \in Seq(LinesOf(ToListener))
<1>1. ASSUME pc["dialer"] = "done"
      PROVE  Reply(ToListener, hs["dialer"].challenge) /\ ToListener \in Seq(LinesOf(ToListener))
    <2>1. Reply(ToListener, hs["dialer"].challenge)
        BY <1>1, Replies DEF ToListener
    <2> QED
        BY <2>1 DEF Reply
<1>2. ASSUME pc["dialer"] # "done"
      PROVE  ToListener = <<L("error")>> /\ ToListener \in Seq(LinesOf(ToListener))
    <2>1. ToListener = <<L("error")>>
        BY <1>2 DEF ToListener
    <2>2. <<L("error")>> \in Seq({L("error")})
        OBVIOUS
    <2> QED
        BY <2>1, <2>2, OwnLines
<1> QED
    BY <1>1, <1>2

LEMMA NoDataIs ==
    NoData.sid = "" /\ NoData.challenge = "" /\ NoData.response = <<>> /\ IsData(NoData)
BY DEF NoData, IsData

\* An end that has said or heard nothing is at the start
LEMMA DialerStarts ==
    ASSUME Master = "listener", ScenarioInv, UNCHANGED scenario,
           buf'["dialer"] = <<>>, wire'["dialer"] = <<>>, hs'["dialer"] = NoData,
           pc'["dialer"] # "done"
    PROVE  DialerInv'
<1>1. ToDialer' = ToDialer /\ ToDialer \in Seq(LinesOf(ToDialer))
    BY SameSpeech, Speaks DEF Speech
<1>2. Follows(buf'["dialer"], wire'["dialer"], 0, ToDialer')
    BY <1>1, FollowsNone
<1>3. hs'["dialer"].sid = "" /\ hs'["dialer"].challenge = ""
    BY NoDataIs
<1>4. DialerAt(0)'
    BY <1>2, <1>3, LearntNothing DEF DialerAt
<1> QED
    BY <1>4 DEF DialerInv

LEMMA ListenerStarts ==
    ASSUME Master = "listener", UNCHANGED scenario, hs' = hs, pc'["dialer"] = pc["dialer"],
           buf'["listener"] = <<>>, wire'["listener"] = <<>>, hs["listener"] = NoData,
           pc'["listener"] # "done"
    PROVE  ListenerInv'
<1>1. ToListener' = ToListener /\ ToListener \in Seq(LinesOf(ToListener))
    BY SameReply, ReplyIs
<1>2. Follows(buf'["listener"], wire'["listener"], 0, ToListener')
    BY <1>1, FollowsNone
<1>3. hs'["listener"].sid = "" /\ hs'["listener"].response = <<>>
    BY NoDataIs
<1>4. ListenerAt(0)'
    BY <1>2, <1>3, LearntNothing DEF ListenerAt
<1> QED
    BY <1>4 DEF ListenerInv

\* An end that reads nothing stays where it is
LEMMA DialerStays ==
    ASSUME NEW k \in Nat, DialerAt(k), UNCHANGED scenario,
           Follows(buf'["dialer"], wire'["dialer"], k, ToDialer), hs'["dialer"] = hs["dialer"],
           pc'["dialer"] = "done" => pc["dialer"] = "done",
           pc'["listener"] \in Before =>
             pc["listener"] \in Before /\ buf'["dialer"] = <<>> /\ wire'["dialer"] = <<>>
    PROVE  DialerInv'
<1>1. ToDialer' = ToDialer
    BY SameSpeech
<1>2. server' = server
    BY DEF scenario
<1>3. DialerAt(k)'
    BY <1>1, <1>2 DEF DialerAt
<1> QED
    BY <1>3 DEF DialerInv

LEMMA ListenerStays ==
    ASSUME NEW k \in Nat, ListenerAt(k), UNCHANGED scenario,
           Follows(buf'["listener"], wire'["listener"], k, ToListener),
           hs'["listener"] = hs["listener"],
           pc["dialer"] = "done" => hs'["dialer"].challenge = hs["dialer"].challenge,
           pc'["dialer"] = "done" <=> pc["dialer"] = "done",
           pc'["dialer"] \in {"login", "read"} =>
             pc["dialer"] \in {"login", "read"} /\ buf'["listener"] = <<>> /\ wire'["listener"] = <<>>,
           pc'["listener"] = "done" => pc["listener"] = "done" /\ buf'["listener"] # <<>>
    PROVE  ListenerInv'
<1>1. ToListener' = ToListener
    BY SameReply
<1>2. server' = server
    BY DEF scenario
<1>3. ListenerAt(k)'
    BY <1>1, <1>2 DEF ListenerAt
<1> QED
    BY <1>3 DEF ListenerInv
-----------------------------------------------------------------------------
(* The steps                                                               *)

LEMMA DialLoginKeeps ==
    ASSUME Master = "listener", LoginInv, HandshakeInv, DialLogin
    PROVE  HandshakeInv'
<1> USE EndFacts
<1>1. /\ ScenarioInv /\ PlaceInv /\ CallInv /\ DataInv /\ DialerInv /\ ListenerInv
      /\ DOMAIN pc = End /\ DOMAIN buf = End /\ DOMAIN wire = End /\ Lockstep
    BY DEF HandshakeInv, LoginInv
<1>2. /\ pc["dialer"] = "login" /\ buf["dialer"] # <<>> /\ UNCHANGED scenario
      /\ UNCHANGED <<up, faults, hs, remoteCall>>
    BY DEF DialLogin
<1>3. pc["listener"] \in {"accept", "call", "pass", "failed"} /\ InLogin
    BY <1>1, <1>2 DEF Lockstep, InLogin
<1>4. /\ wire["dialer"] = <<>> /\ wire["listener"] = <<>> /\ buf["listener"] = <<>>
      /\ Len(buf["dialer"]) = 1 /\ Tail(buf["dialer"]) = <<>>
    BY <1>2, <1>3, Alone
<1>5. pc["listener"] = "call" => Line("dialer").t = "callsign?"
    <2>1. 1 \in DOMAIN buf["dialer"] /\ Line("dialer") = buf["dialer"][1]
        BY <1>4 DEF Line
    <2> QED
        BY <1>1, <2>1, Kind DEF Lockstep
<1>6. /\ DOMAIN pc' = End /\ pc'["listener"] = pc["listener"]
      /\ buf'["dialer"] = <<>> /\ buf'["listener"] = <<>>
      /\ DOMAIN wire' = End /\ wire'["dialer"] = <<>>
      /\ ~up => wire'["listener"] = <<>>
      /\ pc'["dialer"] \in {"login", "read"}
      /\ Line("dialer").t # "password?" => wire'["listener"] \in {<<>>, <<>> \o <<LV("call", "main")>>}
    <2>1. CASE Line("dialer").t = "password?"
        <3>1. Say("dialer", <<LV("pass", "CMSTelnet")>>) /\ EndLogin("dialer")
            BY <2>1 DEF DialLogin
        <3> QED
            BY <1>1, <1>4, <2>1, <3>1 DEF Say, EndLogin, Go, Starts
    <2>2. CASE Line("dialer").t # "password?"
        <3>1. /\ Say("dialer", <<LV("call", "main")>>) \/ UNCHANGED wire
              /\ buf' = Rest("dialer") /\ UNCHANGED pc
            BY <2>2 DEF DialLogin
        <3> QED
            BY <1>1, <1>2, <1>4, <2>2, <3>1 DEF Say, Rest
    <2> QED
        BY <2>1, <2>2
<1>7. ScenarioInv'
    BY <1>1, <1>2 DEF ScenarioInv, scenario
<1>8. PlaceInv'
    <2>1. ~up' => Reason'
        BY <1>1, <1>2, SameReason DEF PlaceInv, ScenarioInv
    <2> QED
        BY <1>1, <1>2, <1>6, <2>1 DEF PlaceInv, scenario
<1>9. CallInv'
    <2>1. ASSUME pc'["listener"] = "call"
          PROVE  \A i \in DOMAIN wire'["listener"] : wire'["listener"][i] = LV("call", "main")
        <3>1. wire'["listener"] \in {<<>>, <<>> \o <<LV("call", "main")>>}
            BY <1>5, <1>6, <2>1
        <3> QED
            BY <3>1
    <2>2. \A i \in DOMAIN buf'["listener"] : FALSE
        BY <1>6
    <2> QED
        BY <1>1, <1>2, <1>6, <2>1, <2>2 DEF CallInv
<1>10. DataInv'
    BY <1>1, <1>2, <1>6 DEF DataInv
<1>11. DialerInv'
    <2>1. hs'["dialer"] = NoData
        BY <1>1, <1>2 DEF DataInv
    <2> QED
        BY <1>1, <1>2, <1>6, <2>1, DialerStarts
<1>12. ListenerInv'
    <2>1. CASE pc["listener"] = "failed"
        <3>1. PICK k \in Nat : ListenerAt(k)
            BY <1>1, <2>1 DEF ListenerInv
        <3>2. ~up /\ wire'["listener"] = wire["listener"] /\ buf'["listener"] = buf["listener"]
            BY <1>1, <1>4, <1>6, <2>1 DEF PlaceInv
        <3>3. Follows(buf'["listener"], wire'["listener"], k, ToListener)
            BY <3>1, <3>2 DEF ListenerAt
        <3> QED
            BY <1>2, <1>4, <1>6, <2>1, <3>1, <3>2, <3>3, ListenerStays
    <2>2. CASE pc["listener"] # "failed"
        BY <1>3, <1>6, <2>2 DEF ListenerInv
    <2> QED
        BY <2>1, <2>2
<1> QED
    BY <1>7, <1>8, <1>9, <1>10, <1>11, <1>12 DEF HandshakeInv

LEMMA AcceptLoginKeeps ==
    ASSUME Master = "listener", LoginInv, HandshakeInv, AcceptLogin
    PROVE  HandshakeInv'
<1> USE EndFacts
<1>1. /\ ScenarioInv /\ PlaceInv /\ CallInv /\ DataInv /\ DialerInv /\ ListenerInv
      /\ DOMAIN pc = End /\ DOMAIN buf = End /\ DOMAIN wire = End /\ Lockstep
    BY DEF HandshakeInv, LoginInv
<1>2. UNCHANGED scenario /\ UNCHANGED <<up, faults, hs>>
    BY DEF AcceptLogin
<1>3. /\ pc["listener"] \in {"accept", "call", "pass"} /\ pc["listener"] \in Before /\ InLogin
      /\ hs["listener"] = NoData
    BY <1>1 DEF AcceptLogin, Before, InLogin, DataInv
<1>4. /\ DOMAIN pc' = End /\ pc'["dialer"] = pc["dialer"]
      /\ pc'["listener"] \in {"call", "pass", "greet", "cms"} /\ pc'["listener"] \in Before
      /\ pc["listener"] = "accept" => pc'["listener"] = "call"
      /\ pc["listener"] = "call" => pc'["listener"] = "pass"
      /\ pc["listener"] = "pass" => pc'["listener"] = IF server = "cms" THEN "cms" ELSE "greet"
    BY <1>1 DEF AcceptLogin, EndLogin, Go, Starts, Before
<1>5. buf'["dialer"] = buf["dialer"] /\ (~up => wire'["dialer"] = wire["dialer"])
    BY <1>1 DEF AcceptLogin, EndLogin, Rest, Say
<1>6. /\ pc["listener"] = "accept" => wire'["listener"] = <<>> /\ buf'["listener"] = <<>>
      /\ pc["listener"] = "call" => buf["listener"] # <<>> /\ remoteCall' = Line("listener").v
      /\ pc["listener"] # "call" => remoteCall' = remoteCall
      /\ pc["listener"] = "pass" =>
           wire'["listener"] = <<>> /\ buf'["listener"] = <<>> /\ wire' = wire
    <2>1. CASE pc["listener"] = "accept"
        <3>1. wire["listener"] = <<>> /\ buf["listener"] = <<>>
            BY <1>1, <1>3, <2>1 DEF Lockstep, LoginInv, OneLine, Under
        <3> QED
            BY <1>1, <2>1, <3>1 DEF AcceptLogin, Say
    <2>2. CASE pc["listener"] = "call"
        BY <2>2 DEF AcceptLogin
    <2>3. CASE pc["listener"] = "pass"
        <3>1. wire["listener"] = <<>>
            BY <1>3, <2>3, Alone DEF AcceptLogin
        <3> QED
            BY <1>1, <2>3, <3>1 DEF AcceptLogin, EndLogin
    <2> QED
        BY <1>3, <2>1, <2>2, <2>3
<1>7. ScenarioInv'
    BY <1>1, <1>2 DEF ScenarioInv, scenario
<1>8. PlaceInv'
    <2>1. ~up' => Reason'
        BY <1>1, <1>2, SameReason DEF PlaceInv, ScenarioInv
    <2>2. server \in {"station", "cms"} /\ server' = server
        BY <1>1, <1>2 DEF ScenarioInv, scenario
    <2> QED
        BY <1>1, <1>2, <1>3, <1>4, <2>1, <2>2 DEF PlaceInv
<1>9. CallInv'
    <2>1. pc["listener"] = "call" => remoteCall' = "main"
        <3> SUFFICES ASSUME pc["listener"] = "call" PROVE Line("listener").v = "main"
            BY <1>6
        <3>1. buf["listener"] # <<>> /\ Len(buf["listener"]) = 1
            BY <1>3, <1>6, Alone
        <3>2. 1 \in DOMAIN buf["listener"] /\ Line("listener") = buf["listener"][1]
            BY <3>1 DEF Line
        <3> QED
            BY <1>1, <3>2, Kind DEF CallInv
    <2>2. pc'["listener"] = "call" =>
            /\ pc["listener"] = "accept"
            /\ \A i \in DOMAIN wire'["listener"] : FALSE
            /\ \A i \in DOMAIN buf'["listener"] : FALSE
        BY <1>3, <1>4, <1>6
    <2> QED
        BY <1>1, <1>3, <1>4, <1>6, <2>1, <2>2 DEF CallInv
<1>10. DataInv'
    BY <1>1, <1>2, <1>3, <1>4 DEF DataInv
<1>11. DialerInv'
    <2>1. CASE pc["dialer"] = "login"
        BY <1>4, <2>1 DEF DialerInv
    <2>2. CASE pc["dialer"] # "login"
        <3>1. PICK k \in Nat : DialerAt(k)
            BY <1>1, <2>2 DEF DialerInv
        <3>2. wire'["dialer"] = wire["dialer"]
            <4>1. pc["listener"] # "pass" => pc["dialer"] = "failed"
                BY <1>1, <1>3, <2>2 DEF Lockstep
            <4> QED
                BY <1>1, <1>5, <1>6, <4>1 DEF PlaceInv
        <3>3. buf["dialer"] = <<>> /\ wire["dialer"] = <<>>
            BY <1>3, <3>1 DEF DialerAt
        <3>4. Follows(buf'["dialer"], wire'["dialer"], k, ToDialer)
            BY <1>5, <3>1, <3>2 DEF DialerAt
        <3> QED
            BY <1>2, <1>3, <1>4, <1>5, <3>1, <3>2, <3>3, <3>4, DialerStays
    <2> QED
        BY <2>1, <2>2
<1>12. ListenerInv'
    <2>1. CASE pc["listener"] = "pass"
        BY <1>2, <1>3, <1>4, <1>6, <2>1, ListenerStarts
    <2>2. CASE pc["listener"] # "pass"
        BY <1>3, <1>4, <2>2 DEF ListenerInv
    <2> QED
        BY <2>1, <2>2
<1> QED
    BY <1>7, <1>8, <1>9, <1>10, <1>11, <1>12 DEF HandshakeInv

LEMMA FillKeeps ==
    ASSUME Master = "listener", LoginInv, HandshakeInv, NEW e \in End, Fill(e)
    PROVE  HandshakeInv'
<1> USE EndFacts
<1>1. /\ ScenarioInv /\ PlaceInv /\ CallInv /\ DataInv /\ DialerInv /\ ListenerInv
      /\ DOMAIN pc = End /\ DOMAIN buf = End /\ DOMAIN wire = End /\ Lockstep
    BY DEF HandshakeInv, LoginInv
<1>2. /\ UNCHANGED scenario /\ UNCHANGED <<up, faults, pc, hs, remoteCall>> /\ buf[e] = <<>>
      /\ pc[e] \in {"login", "call", "pass", "read", "cmsRead"}
    BY DEF Fill
<1>3. PICK n \in 1 .. Len(wire[e]) :
         /\ buf' = [buf EXCEPT ![e] = SubSeq(wire[e], 1, n)]
         /\ wire' = [wire EXCEPT ![e] = SubSeq(@, n + 1, Len(@))]
    BY DEF Fill
<1>4. /\ buf'[e] = SubSeq(wire[e], 1, n) /\ wire'[e] = SubSeq(wire[e], n + 1, Len(wire[e]))
      /\ \A o \in End : o # e => buf'[o] = buf[o] /\ wire'[o] = wire[o]
    BY <1>1, <1>3
<1>5. wire[e] # <<>>
    BY <1>3
<1>6. ASSUME NEW k, NEW S, Follows(buf[e], wire[e], k, S)
      PROVE  Follows(buf'[e], wire'[e], k, S)
    BY <1>2, <1>4, <1>6, FollowsFill
<1>7. ScenarioInv' /\ DataInv'
    BY <1>1, <1>2 DEF ScenarioInv, DataInv, scenario
<1>8. PlaceInv'
    <2>1. ~up' => Reason'
        BY <1>1, <1>2, SameReason DEF PlaceInv, ScenarioInv
    <2> QED
        BY <1>1, <1>2, <2>1 DEF PlaceInv, scenario
<1>9. CallInv'
    <2>1. ASSUME pc["listener"] = "call", e = "listener"
          PROVE  /\ \A i \in DOMAIN wire'["listener"] : wire'["listener"][i] = LV("call", "main")
                 /\ \A i \in DOMAIN buf'["listener"] : buf'["listener"][i] = LV("call", "main")
        <3>1. wire["listener"] \in Seq(LoginLine) /\ Len(wire["listener"]) <= 1
            BY <2>1 DEF LoginInv, OneLine, InLogin, Under
        <3>2. buf'["listener"] = wire["listener"] /\ wire'["listener"] = <<>>
            BY <1>4, <2>1, <3>1, SplitOne
        <3> QED
            BY <1>1, <2>1, <3>2 DEF CallInv
    <2> QED
        BY <1>1, <1>2, <1>4, <2>1 DEF CallInv
<1>10. DialerInv'
    <2>1. CASE pc["dialer"] = "login"
        BY <1>2, <2>1 DEF DialerInv
    <2>2. CASE pc["dialer"] # "login"
        <3>1. PICK k \in Nat : DialerAt(k)
            BY <1>1, <2>2 DEF DialerInv
        <3>2. Follows(buf'["dialer"], wire'["dialer"], k, ToDialer)
            BY <1>4, <1>6, <3>1 DEF DialerAt
        <3>3. pc["listener"] \in Before => buf'["dialer"] = <<>> /\ wire'["dialer"] = <<>>
            BY <1>4, <1>5, <3>1 DEF DialerAt
        <3> QED
            BY <1>2, <3>1, <3>2, <3>3, DialerStays
    <2> QED
        BY <2>1, <2>2
<1>11. ListenerInv'
    <2>1. CASE pc["listener"] \in {"accept", "call", "pass"}
        BY <1>2, <2>1 DEF ListenerInv
    <2>2. CASE pc["listener"] \notin {"accept", "call", "pass"}
        <3>1. PICK k \in Nat : ListenerAt(k)
            BY <1>1, <2>2 DEF ListenerInv
        <3>2. Follows(buf'["listener"], wire'["listener"], k, ToListener)
            BY <1>4, <1>6, <3>1 DEF ListenerAt
        <3>3. /\ pc["dialer"] \in {"login", "read"} => buf'["listener"] = <<>> /\ wire'["listener"] = <<>>
              /\ pc["listener"] = "done" => buf'["listener"] # <<>>
            BY <1>2, <1>4, <1>5, <3>1 DEF ListenerAt
        <3> QED
            BY <1>2, <3>1, <3>2, <3>3, ListenerStays
    <2> QED
        BY <2>1, <2>2
<1> QED
    BY <1>7, <1>8, <1>9, <1>10, <1>11 DEF HandshakeInv

LEMMA ReadFailsKeeps ==
    ASSUME Master = "listener", LoginInv, HandshakeInv, NEW e \in End, ReadFails(e)
    PROVE  HandshakeInv'
<1> USE EndFacts
<1>1. /\ ScenarioInv /\ PlaceInv /\ CallInv /\ DataInv /\ DialerInv /\ ListenerInv
      /\ DOMAIN pc = End /\ Lockstep
    BY DEF HandshakeInv, LoginInv
<1>2. /\ UNCHANGED scenario /\ UNCHANGED <<wire, up, faults, buf, hs, remoteCall>>
      /\ pc[e] \in {"login", "call", "pass", "read", "cmsRead"}
      /\ ~up /\ wire[e] = <<>> /\ buf[e] = <<>> /\ pc' = [pc EXCEPT ![e] = "failed"]
    BY DEF ReadFails, Broken, Go
<1>3. pc'[e] = "failed" /\ DOMAIN pc' = End /\ \A o \in End : o # e => pc'[o] = pc[o]
    BY <1>1, <1>2
<1>4. pc["dialer"] # "done" => pc'["dialer"] # "done"
    BY <1>3
<1>7. ScenarioInv' /\ DataInv' /\ CallInv'
    BY <1>1, <1>2, <1>3 DEF ScenarioInv, DataInv, CallInv, Before, scenario
<1>8. PlaceInv'
    <2>1. ~up' => Reason'
        BY <1>1, <1>2, SameReason DEF PlaceInv, ScenarioInv
    <2> QED
        BY <1>1, <1>2, <1>3, <2>1 DEF PlaceInv, scenario
<1>10. DialerInv'
    <2>1. CASE pc["dialer"] = "login"
        <3>1. CASE e = "dialer"
            <4>1. hs'["dialer"] = NoData
                BY <1>1, <1>2, <2>1 DEF DataInv
            <4> QED
                BY <1>1, <1>2, <1>3, <3>1, <4>1, DialerStarts
        <3>2. CASE e # "dialer"
            BY <1>3, <2>1, <3>2 DEF DialerInv
        <3> QED
            BY <3>1, <3>2
    <2>2. CASE pc["dialer"] # "login"
        <3>1. PICK k \in Nat : DialerAt(k)
            BY <1>1, <2>2 DEF DialerInv
        <3>2. Follows(buf'["dialer"], wire'["dialer"], k, ToDialer)
            BY <1>2, <3>1 DEF DialerAt
        <3>3. pc'["listener"] \in Before =>
                pc["listener"] \in Before /\ buf'["dialer"] = <<>> /\ wire'["dialer"] = <<>>
            BY <1>2, <1>3, <3>1 DEF DialerAt, Before
        <3>4. pc'["dialer"] = "done" => pc["dialer"] = "done"
            BY <1>3
        <3> QED
            BY <1>2, <3>1, <3>2, <3>3, <3>4, DialerStays
    <2> QED
        BY <2>1, <2>2
<1>11. ListenerInv'
    <2>1. CASE pc["listener"] \in {"accept", "call", "pass"}
        <3>1. CASE e = "listener"
            <4>1. hs["listener"] = NoData
                BY <1>1, <2>1 DEF DataInv, Before
            <4>2. pc'["dialer"] = pc["dialer"] /\ pc'["listener"] # "done"
                BY <1>3, <3>1
            <4> QED
                BY <1>2, <3>1, <4>1, <4>2, ListenerStarts
        <3>2. CASE e # "listener"
            BY <1>3, <2>1, <3>2 DEF ListenerInv
        <3> QED
            BY <3>1, <3>2
    <2>2. CASE pc["listener"] \notin {"accept", "call", "pass"}
        <3>1. PICK k \in Nat : ListenerAt(k)
            BY <1>1, <2>2 DEF ListenerInv
        <3>2. Follows(buf'["listener"], wire'["listener"], k, ToListener)
            BY <1>2, <3>1 DEF ListenerAt
        <3>3. pc'["dialer"] \in {"login", "read"} =>
                pc["dialer"] \in {"login", "read"} /\ buf'["listener"] = <<>> /\ wire'["listener"] = <<>>
            BY <1>2, <1>3, <3>1 DEF ListenerAt
        <3>4. pc'["dialer"] = "done" <=> pc["dialer"] = "done"
            BY <1>2, <1>3
        <3>5. pc'["listener"] = "done" => pc["listener"] = "done" /\ buf'["listener"] # <<>>
            BY <1>2, <1>3, <3>1 DEF ListenerAt
        <3> QED
            BY <1>2, <3>1, <3>2, <3>3, <3>4, <3>5, ListenerStays
    <2> QED
        BY <2>1, <2>2
<1> QED
    BY <1>7, <1>8, <1>10, <1>11 DEF HandshakeInv

LEMMA BreakKeeps ==
    ASSUME Master = "listener", LoginInv, HandshakeInv, Break
    PROVE  HandshakeInv'
<1> USE EndFacts
<1>1. /\ ScenarioInv /\ PlaceInv /\ CallInv /\ DataInv /\ DialerInv /\ ListenerInv
      /\ DOMAIN pc = End /\ Lockstep
    BY DEF HandshakeInv, LoginInv
<1>2. /\ UNCHANGED scenario /\ UNCHANGED <<buf, pc, hs, remoteCall>>
      /\ up' = FALSE /\ faults' = faults + 1
    BY DEF Break
<1>3. PICK i \in 0 .. Len(wire["dialer"]), j \in 0 .. Len(wire["listener"]) :
         wire' = [dialer |-> SubSeq(wire["dialer"], 1, i),
                  listener |-> SubSeq(wire["listener"], 1, j)]
    BY DEF Break
<1>4. /\ wire'["dialer"] = SubSeq(wire["dialer"], 1, i)
      /\ wire'["listener"] = SubSeq(wire["listener"], 1, j)
    BY <1>3
<1>5. ASSUME NEW w, w = <<>>, NEW n \in 0 .. Len(w) PROVE SubSeq(w, 1, n) = <<>>
    <2>1. Len(<<>>) = 0
        OBVIOUS
    <2>2. n = 0
        BY <1>5, <2>1
    <2> QED
        BY <1>5, <2>2
<1>6. Reason' /\ faults' \in Nat
    BY <1>1, <1>2 DEF Reason, ScenarioInv
<1>7. ScenarioInv' /\ DataInv'
    BY <1>1, <1>2, <1>6 DEF ScenarioInv, DataInv, scenario
<1>8. PlaceInv'
    BY <1>1, <1>2, <1>6 DEF PlaceInv, scenario
<1>9. CallInv'
    <2>1. ASSUME pc["listener"] = "call"
          PROVE  \A m \in DOMAIN wire'["listener"] : wire'["listener"][m] = LV("call", "main")
        <3>1. wire["listener"] \in Seq(LoginLine) /\ Len(wire["listener"]) <= 1
            BY <2>1 DEF LoginInv, OneLine, InLogin, Under
        <3>2. \A m \in DOMAIN wire'["listener"] :
                m \in DOMAIN wire["listener"] /\ wire'["listener"][m] = wire["listener"][m]
            BY <1>4, <3>1, SplitOne
        <3> QED
            BY <1>1, <2>1, <3>2 DEF CallInv
    <2> QED
        BY <1>1, <1>2, <2>1 DEF CallInv
<1>10. DialerInv'
    <2>1. CASE pc["dialer"] = "login"
        BY <1>2, <2>1 DEF DialerInv
    <2>2. CASE pc["dialer"] # "login"
        <3>1. PICK k \in Nat : DialerAt(k)
            BY <1>1, <2>2 DEF DialerInv
        <3>2. Follows(buf'["dialer"], wire'["dialer"], k, ToDialer)
            <4>1. Follows(buf["dialer"], wire["dialer"], k, ToDialer) /\ i \in 0 .. Len(wire["dialer"])
                BY <1>3, <3>1 DEF DialerAt
            <4>2. Follows(buf["dialer"], SubSeq(wire["dialer"], 1, i), k, ToDialer)
                BY <4>1, FollowsCut
            <4> QED
                BY <1>2, <1>4, <4>2
        <3>3. pc["listener"] \in Before => buf'["dialer"] = <<>> /\ wire'["dialer"] = <<>>
            BY <1>2, <1>4, <1>5, <3>1 DEF DialerAt
        <3> QED
            BY <1>2, <3>1, <3>2, <3>3, DialerStays
    <2> QED
        BY <2>1, <2>2
<1>11. ListenerInv'
    <2>1. CASE pc["listener"] \in {"accept", "call", "pass"}
        BY <1>2, <2>1 DEF ListenerInv
    <2>2. CASE pc["listener"] \notin {"accept", "call", "pass"}
        <3>1. PICK k \in Nat : ListenerAt(k)
            BY <1>1, <2>2 DEF ListenerInv
        <3>2. Follows(buf'["listener"], wire'["listener"], k, ToListener)
            <4>1. Follows(buf["listener"], wire["listener"], k, ToListener) /\ j \in 0 .. Len(wire["listener"])
                BY <1>3, <3>1 DEF ListenerAt
            <4>2. Follows(buf["listener"], SubSeq(wire["listener"], 1, j), k, ToListener)
                BY <4>1, FollowsCut
            <4> QED
                BY <1>2, <1>4, <4>2
        <3>3. /\ pc["dialer"] \in {"login", "read"} => buf'["listener"] = <<>> /\ wire'["listener"] = <<>>
              /\ pc["listener"] = "done" => buf'["listener"] # <<>>
            BY <1>2, <1>4, <1>5, <3>1 DEF ListenerAt
        <3> QED
            BY <1>2, <3>1, <3>2, <3>3, ListenerStays
    <2> QED
        BY <2>1, <2>2
<1> QED
    BY <1>7, <1>8, <1>9, <1>10, <1>11 DEF HandshakeInv

\* The listener speaks: Greet and CMSGreets
LEMMA SpeakKeeps ==
    ASSUME Master = "listener", LoginInv, HandshakeInv, Greet("listener") \/ CMSGreets
    PROVE  HandshakeInv'
<1> USE EndFacts
<1>1. /\ ScenarioInv /\ PlaceInv /\ CallInv /\ DataInv /\ DialerInv /\ ListenerInv
      /\ DOMAIN pc = End /\ DOMAIN wire = End /\ Lockstep
    BY DEF HandshakeInv, LoginInv
<1>2. /\ UNCHANGED scenario /\ UNCHANGED <<up, faults, buf, hs, remoteCall>>
      /\ pc["listener"] \in {"greet", "cms"} /\ pc["listener"] \in Before
    BY DEF Greet, CMSGreets, Before
<1>3. /\ Say("listener", ToDialer)
      /\ pc'["listener"] = IF server = "station" THEN "read" ELSE "cmsRead"
      /\ pc'["dialer"] = pc["dialer"] /\ server \in {"station", "cms"}
    BY <1>1 DEF Greet, CMSGreets, Go, PlaceInv, ToDialer, ScenarioInv
<1>4. /\ wire'["dialer"] = IF up THEN wire["dialer"] \o ToDialer ELSE wire["dialer"]
      /\ wire'["listener"] = wire["listener"]
    BY <1>1, <1>3 DEF Say
<1>5. pc'["listener"] \in {"read", "cmsRead"} /\ pc'["listener"] \notin Before
    BY <1>3 DEF Before
<1>7. ScenarioInv' /\ DataInv' /\ CallInv'
    BY <1>1, <1>2, <1>3, <1>5 DEF ScenarioInv, DataInv, CallInv, scenario
<1>8. PlaceInv'
    <2>1. ~up' => Reason'
        BY <1>1, <1>2, SameReason DEF PlaceInv, ScenarioInv
    <2>2. server' = server
        BY <1>2 DEF scenario
    <2> QED
        BY <1>1, <1>2, <1>3, <2>1, <2>2 DEF PlaceInv
<1>10. DialerInv'
    <2>1. CASE pc["dialer"] = "login"
        BY <1>3, <2>1 DEF DialerInv
    <2>2. CASE pc["dialer"] # "login"
        <3>1. PICK k \in Nat : DialerAt(k)
            BY <1>1, <2>2 DEF DialerInv
        <3>2. k = 0 /\ buf["dialer"] = <<>> /\ wire["dialer"] = <<>>
            BY <1>2, <3>1 DEF DialerAt
        <3>3. ToDialer \in Seq(LinesOf(ToDialer))
            BY <1>1, Speaks DEF Speech
        <3>4. Follows(buf'["dialer"], wire'["dialer"], k, ToDialer)
            <4>1. Follows(<<>>, <<>>, 0, ToDialer) /\ Follows(<<>>, <<>> \o ToDialer, 0, ToDialer)
                BY <3>3, FollowsNone, FollowsAll
            <4> QED
                BY <1>2, <1>4, <3>2, <4>1
        <3>5. hs'["dialer"] = hs["dialer"]
            BY <1>2
        <3> QED
            BY <1>2, <1>3, <1>5, <3>1, <3>4, <3>5, DialerStays
    <2> QED
        BY <2>1, <2>2
<1>11. ListenerInv'
    <2>1. PICK k \in Nat : ListenerAt(k)
        BY <1>1, <1>2 DEF ListenerInv
    <2>2. Follows(buf'["listener"], wire'["listener"], k, ToListener)
        BY <1>2, <1>4, <2>1 DEF ListenerAt
    <2>3. pc["dialer"] \in {"login", "read"} => buf'["listener"] = <<>> /\ wire'["listener"] = <<>>
        BY <1>2, <1>4, <2>1 DEF ListenerAt
    <2> QED
        BY <1>2, <1>3, <1>5, <2>1, <2>2, <2>3, ListenerStays
<1> QED
    BY <1>7, <1>8, <1>10, <1>11 DEF HandshakeInv

\* What the dialer reads when it reads a line of the handshake
LEMMA DialerReads ==
    ASSUME Master = "listener", HandshakeInv, pc["dialer"] = "read", buf["dialer"] # <<>>
    PROVE  /\ pc["listener"] \notin Before /\ pc["listener"] # "done"
           /\ ListenerAt(0) /\ buf["listener"] = <<>> /\ wire["listener"] = <<>>
           /\ \E k \in Nat :
                /\ DialerAt(k) /\ Line("dialer") = ToDialer[k + 1] /\ k + 1 \in 1 .. Len(ToDialer)
                /\ Follows(Tail(buf["dialer"]), wire["dialer"], k + 1, ToDialer)
<1>1. DialerInv /\ ListenerInv
    BY DEF HandshakeInv
<1>2. PICK k \in Nat : DialerAt(k)
    BY <1>1 DEF DialerInv
<1>3. pc["listener"] \notin Before
    BY <1>2 DEF DialerAt
<1>4. PICK j \in Nat : ListenerAt(j)
    BY <1>1, <1>3 DEF ListenerInv, Before
<1>5. j = 0 /\ buf["listener"] = <<>> /\ wire["listener"] = <<>> /\ pc["listener"] # "done"
    BY <1>4 DEF ListenerAt
<1>6. Follows(buf["dialer"], wire["dialer"], k, ToDialer)
    BY <1>2 DEF DialerAt
<1>7. /\ Line("dialer") = ToDialer[k + 1] /\ k + 1 \in 1 .. Len(ToDialer)
      /\ Follows(Tail(buf["dialer"]), wire["dialer"], k + 1, ToDialer)
    <2> DEFINE b == buf["dialer"]
               w == wire["dialer"]
               S == ToDialer
    <2>1. Follows(b, w, k, S) /\ b # <<>>
        BY <1>6
    <2> HIDE DEF b, w, S
    <2>2. /\ Head(b) = S[k + 1] /\ k + 1 \in 1 .. Len(S)
          /\ Follows(Tail(b), w, k + 1, S)
        BY <2>1, FollowsRead
    <2> QED
        BY <2>2 DEF b, w, S, Line
<1> QED
    BY <1>2, <1>3, <1>4, <1>5, <1>7

\* The dialer reads a line
LEMMA DialerNext ==
    ASSUME NEW k \in Nat, Master = "listener", ScenarioInv, DialerAt(k), UNCHANGED scenario,
           k + 1 \in 1 .. Len(ToDialer), Follows(buf'["dialer"], wire'["dialer"], k + 1, ToDialer),
           ToDialer[k + 1].t = "sid" => hs'["dialer"].sid = "B2FHM$",
           ToDialer[k + 1].t # "sid" => hs'["dialer"].sid = hs["dialer"].sid,
           ToDialer[k + 1].t = "fw" => hs'["dialer"].fw = Names(ToDialer[k + 1].v),
           ToDialer[k + 1].t # "fw" => hs'["dialer"].fw = hs["dialer"].fw,
           ToDialer[k + 1].t # "pq" => hs'["dialer"].challenge = hs["dialer"].challenge,
           pc'["listener"] \notin Before,
           pc'["dialer"] = "done" => k + 1 = Len(ToDialer) /\ hs'["dialer"].sid # ""
    PROVE  DialerInv'
<1>1. ToDialer' = ToDialer /\ server' = server
    BY SameSpeech DEF scenario
<1>7. Len(ToDialer) \in Nat
    BY Speaks DEF Speech
<1>2. /\ LearntSid(hs["dialer"], k, ToDialer) /\ LearntChallenge(hs["dialer"], k, ToDialer)
      /\ server = "station" => LearntFw(hs["dialer"], k, ToDialer)
    BY DEF DialerAt
<1>3. LearntSid(hs'["dialer"], k + 1, ToDialer)
    BY <1>2, NextSid
<1>4. LearntChallenge(hs'["dialer"], k + 1, ToDialer)
    BY <1>2, NextChallenge
<1>5. ASSUME server = "station" PROVE LearntFw(hs'["dialer"], k + 1, ToDialer)
    BY <1>2, <1>5, NextFw
<1>6. DialerAt(k + 1)'
    BY <1>1, <1>3, <1>4, <1>5 DEF DialerAt
<1> QED
    BY <1>6, <1>7, Within DEF DialerInv

\* The dialer gives up, and tells the listener
LEMMA DialerFails ==
    ASSUME Master = "listener", HandshakeInv, LoginInv, pc["dialer"] = "read", buf["dialer"] # <<>>,
           Fail("dialer"), buf' = Rest("dialer"), UNCHANGED hs, UNCHANGED scenario,
           UNCHANGED <<faults, remoteCall>>, Reason,
           Line("dialer").t \in Refused \cup {"prompt"}
    PROVE  HandshakeInv'
<1> USE EndFacts
<1>1. /\ ScenarioInv /\ PlaceInv /\ CallInv /\ DataInv
      /\ DOMAIN pc = End /\ DOMAIN buf = End /\ DOMAIN wire = End
    BY DEF HandshakeInv, LoginInv
<1>2. /\ pc["listener"] \notin Before /\ pc["listener"] # "done"
      /\ ListenerAt(0) /\ buf["listener"] = <<>> /\ wire["listener"] = <<>>
    BY DialerReads
<1>3. PICK k \in Nat :
         /\ DialerAt(k) /\ Line("dialer") = ToDialer[k + 1] /\ k + 1 \in 1 .. Len(ToDialer)
         /\ Follows(Tail(buf["dialer"]), wire["dialer"], k + 1, ToDialer)
    BY DialerReads
<1>4. /\ up' = FALSE /\ pc'["dialer"] = "failed" /\ pc'["listener"] = pc["listener"]
      /\ wire'["dialer"] = wire["dialer"] /\ buf'["dialer"] = Tail(buf["dialer"])
      /\ buf'["listener"] = buf["listener"]
      /\ wire'["listener"] = <<>> \/ wire'["listener"] = <<>> \o <<L("error")>>
    BY <1>1, <1>2 DEF Fail, Say, Go, Rest
<1>5. Reason'
    BY <1>1, SameReason DEF ScenarioInv
<1>7. ScenarioInv'
    BY <1>1, <1>4 DEF ScenarioInv, scenario
<1>8. DataInv' /\ CallInv'
    BY <1>1, <1>2, <1>4 DEF DataInv, CallInv, Before
<1>9. PlaceInv'
    BY <1>1, <1>4, <1>5 DEF PlaceInv, scenario
<1>11. ListenerInv'
    <2>1. ToListener = <<L("error")>> /\ ToListener \in Seq(LinesOf(ToListener))
        BY ReplyIs
    <2>2. Follows(<<>>, <<>>, 0, ToListener) /\ Follows(<<>>, <<>> \o ToListener, 0, ToListener)
        BY <2>1, FollowsNone, FollowsAll
    <2>3. Follows(buf'["listener"], wire'["listener"], 0, ToListener)
        BY <1>2, <1>4, <2>1, <2>2
    <2>4. 0 \in Nat /\ hs'["listener"] = hs["listener"]
        OBVIOUS
    <2> QED
        BY <1>2, <1>4, <2>3, <2>4, ListenerStays
<1>12. DialerInv'
    BY <1>1, <1>2, <1>3, <1>4, DialerNext DEF Refused
<1> QED
    BY <1>7, <1>8, <1>9, <1>11, <1>12 DEF HandshakeInv

LEMMA DialerReadsLine ==
    ASSUME Master = "listener", LoginInv, HandshakeInv, ReadLine("dialer")
    PROVE  HandshakeInv'
<1> USE EndFacts
<1>1. /\ ScenarioInv /\ PlaceInv /\ CallInv /\ DataInv
      /\ DOMAIN pc = End /\ DOMAIN buf = End /\ DOMAIN wire = End
    BY DEF HandshakeInv, LoginInv
<1>2. /\ pc["dialer"] = "read" /\ buf["dialer"] # <<>> /\ buf' = Rest("dialer")
      /\ UNCHANGED scenario /\ UNCHANGED <<faults, remoteCall>>
    BY DEF ReadLine
<1>3. /\ pc["listener"] \notin Before /\ pc["listener"] # "done"
      /\ ListenerAt(0) /\ buf["listener"] = <<>> /\ wire["listener"] = <<>>
    BY <1>2, DialerReads
<1>4. PICK k \in Nat :
         /\ DialerAt(k) /\ Line("dialer") = ToDialer[k + 1] /\ k + 1 \in 1 .. Len(ToDialer)
         /\ Follows(Tail(buf["dialer"]), wire["dialer"], k + 1, ToDialer)
    BY <1>2, DialerReads
<1>5. CASE Line("dialer").t \in Refused
    <2>1. Fail("dialer") /\ UNCHANGED hs
        BY <1>5 DEF ReadLine
    <2>2. Reason
        BY <1>1, <1>4, <1>5, Speaks DEF Speech
    <2> QED
        BY <1>2, <1>5, <2>1, <2>2, DialerFails
<1>6. CASE Line("dialer").t \notin Refused
    <2> DEFINE l == Line("dialer")
               h == hs["dialer"]
               g == hs'["dialer"]
    <2>1. /\ UNCHANGED <<pc, up, wire>>
          /\ hs' = CASE l.t = "sid" -> [hs EXCEPT !["dialer"].sid = "B2FHM$"]
                     [] l.t = "fw" -> [hs EXCEPT !["dialer"].fw = [i \in DOMAIN l.v |-> l.v[i][1]]]
                     [] l.t = "pq" -> [hs EXCEPT !["dialer"].challenge = l.v]
                     [] OTHER -> hs
        BY <1>6 DEF ReadLine
    <2>2. IsData(h) /\ DOMAIN hs = End
        BY <1>1 DEF DataInv
    <2>3. /\ IsData(g) /\ DOMAIN hs' = End /\ hs'["listener"] = hs["listener"]
          /\ l.t = "sid" => g.sid = "B2FHM$"
          /\ l.t # "sid" => g.sid = h.sid
          /\ l.t = "fw" => g.fw = Names(l.v)
          /\ l.t # "fw" => g.fw = h.fw
          /\ l.t # "pq" => g.challenge = h.challenge
        <3>1. CASE l.t = "sid"
            <4>1. hs' = [hs EXCEPT !["dialer"].sid = "B2FHM$"]
                BY <2>1, <3>1
            <4>2. g = [h EXCEPT !.sid = "B2FHM$"] /\ DOMAIN hs' = End /\ hs'["listener"] = hs["listener"]
                BY <2>2, <4>1
            <4> QED
                BY <2>2, <3>1, <4>2, SetSid
        <3>2. CASE l.t = "fw"
            <4>1. hs' = [hs EXCEPT !["dialer"].fw = Names(l.v)]
                BY <2>1, <3>2 DEF Names
            <4>2. g = [h EXCEPT !.fw = Names(l.v)] /\ DOMAIN hs' = End /\ hs'["listener"] = hs["listener"]
                BY <2>2, <4>1
            <4> QED
                BY <2>2, <3>2, <4>2, SetFw
        <3>3. CASE l.t = "pq"
            <4>1. hs' = [hs EXCEPT !["dialer"].challenge = l.v]
                BY <2>1, <3>3
            <4>2. g = [h EXCEPT !.challenge = l.v] /\ DOMAIN hs' = End /\ hs'["listener"] = hs["listener"]
                BY <2>2, <4>1
            <4> QED
                BY <2>2, <3>3, <4>2, SetChallenge
        <3>4. CASE l.t \notin {"sid", "fw", "pq"}
            BY <2>1, <2>2, <3>4
        <3> QED
            BY <3>1, <3>2, <3>3, <3>4
    <2> HIDE DEF l, h, g
    <2>4. /\ buf'["dialer"] = Tail(buf["dialer"]) /\ buf'["listener"] = buf["listener"]
        BY <1>1, <1>2 DEF Rest
    <2>5. ScenarioInv' /\ CallInv'
        BY <1>1, <1>2, <1>3, <2>1 DEF ScenarioInv, CallInv, scenario, Before
    <2>6. DataInv'
        BY <1>1, <1>2, <1>3, <2>1, <2>3 DEF DataInv, g, h
    <2>7. PlaceInv'
        <3>1. ~up' => Reason'
            BY <1>1, <1>2, <2>1, SameReason DEF PlaceInv, ScenarioInv
        <3> QED
            BY <1>1, <1>2, <2>1, <3>1 DEF PlaceInv, scenario
    <2>8. DialerInv'
        <3>1. Follows(buf'["dialer"], wire'["dialer"], k + 1, ToDialer)
            BY <1>4, <2>1, <2>4
        <3>2. pc'["listener"] \notin Before /\ pc'["dialer"] # "done"
            BY <1>2, <1>3, <2>1
        <3>3. l = ToDialer[k + 1]
            BY <1>4 DEF l
        <3> QED
            BY <1>1, <1>2, <1>4, <2>3, <3>1, <3>2, <3>3, DialerNext DEF g, h
    <2>9. ListenerInv'
        <3>1. Follows(buf'["listener"], wire'["listener"], 0, ToListener)
            BY <1>3, <2>1, <2>4 DEF ListenerAt
        <3>2. 0 \in Nat
            OBVIOUS
        <3> QED
            BY <1>2, <1>3, <2>1, <2>3, <2>4, <3>1, <3>2, ListenerStays
    <2> QED
        BY <2>5, <2>6, <2>7, <2>8, <2>9 DEF HandshakeInv
<1> QED
    BY <1>5, <1>6

LEMMA DialerEnds ==
    ASSUME Master = "listener", LoginInv, HandshakeInv, EndHandshake("dialer")
    PROVE  HandshakeInv'
<1> USE EndFacts
<1>1. /\ ScenarioInv /\ PlaceInv /\ CallInv /\ DataInv
      /\ DOMAIN pc = End /\ DOMAIN buf = End /\ DOMAIN wire = End
    BY DEF HandshakeInv, LoginInv
<1>2. /\ pc["dialer"] = "read" /\ buf["dialer"] # <<>> /\ Line("dialer").t = "prompt"
      /\ buf' = Rest("dialer") /\ UNCHANGED scenario /\ UNCHANGED <<faults, hs, remoteCall>>
    BY DEF EndHandshake, HandshakeEnds
<1>3. /\ pc["listener"] \notin Before /\ pc["listener"] # "done"
      /\ ListenerAt(0) /\ buf["listener"] = <<>> /\ wire["listener"] = <<>>
    BY <1>2, DialerReads
<1>4. PICK k \in Nat :
         /\ DialerAt(k) /\ Line("dialer") = ToDialer[k + 1] /\ k + 1 \in 1 .. Len(ToDialer)
         /\ Follows(Tail(buf["dialer"]), wire["dialer"], k + 1, ToDialer)
    BY <1>2, DialerReads
<1> DEFINE S == ToDialer
           h == hs["dialer"]
<1>5. LearntSid(h, k, S) /\ LearntChallenge(h, k, S)
    BY <1>4 DEF DialerAt
<1>6. Speech(S) /\ Len(S) \in Nat
    BY <1>1, Speaks DEF Speech
<1>7. (k + 1 = Len(S) /\ k = Len(S) - 1) \/ k + 1 \in 1 .. Len(S) - 1
    BY <1>4, <1>6, Within
<1>8. S[k + 1].t = "prompt"
    BY <1>2, <1>4
<1> HIDE DEF S, h
<1>9. (k + 1 = Len(S) /\ k = Len(S) - 1) \/ (Reason /\ h.sid = "")
    <2>1. CASE k + 1 = Len(S) /\ k = Len(S) - 1
        BY <2>1
    <2>2. CASE k + 1 \in 1 .. Len(S) - 1
        <3>1. Reason /\ \A i \in 1 .. k + 1 : S[i].t # "sid"
            BY <1>6, <1>8, <2>2 DEF Speech
        <3>2. \A i \in 1 .. k : S[i].t # "sid"
            BY <3>1, OneLineMore
        <3> QED
            BY <1>5, <3>1, <3>2 DEF LearntSid
    <2> QED
        BY <1>7, <2>1, <2>2
<1>10. h.sid = "" => Reason
    <2>1. CASE k + 1 = Len(S) /\ k = Len(S) - 1
        BY <1>5, <1>6, <2>1 DEF Speech, LearntSid
    <2> QED
        BY <1>9, <2>1
<1>11. h.challenge # "" /\ handler \in {"none", "fails"} => Reason
    <2>1. \A j \in 1 .. k : j \in 1 .. Len(S)
        BY <1>4, <1>6, Within, OneLineMore DEF S
    <2> QED
        BY <1>5, <1>6, <2>1 DEF Speech, LearntChallenge
<1>12. CASE h.sid = "" \/ (h.challenge # "" /\ handler \in {"none", "fails"})
    <2>1. Fail("dialer")
        BY <1>12 DEF EndHandshake, h
    <2>2. Reason
        BY <1>10, <1>11, <1>12
    <2> QED
        BY <1>2, <2>1, <2>2, DialerFails
<1>13. CASE ~(h.sid = "" \/ (h.challenge # "" /\ handler \in {"none", "fails"}))
    <2>1. /\ Say("dialer", HandshakeLines("dialer", h.challenge) \o <<L("command")>>)
          /\ Go("dialer", "done") /\ UNCHANGED up
        BY <1>13 DEF EndHandshake, h
    <2>2. k + 1 = Len(S) /\ h.sid # ""
        BY <1>6, <1>9, <1>13
    <2> DEFINE T == HandshakeLines("dialer", h.challenge) \o <<L("command")>>
    <2>3. /\ pc'["dialer"] = "done" /\ pc'["listener"] = pc["listener"]
          /\ wire'["dialer"] = wire["dialer"] /\ buf'["dialer"] = Tail(buf["dialer"])
          /\ buf'["listener"] = <<>>
          /\ wire'["listener"] = <<>> \/ wire'["listener"] = <<>> \o T
        BY <1>1, <1>2, <1>3, <2>1 DEF Say, Go, Rest
    <2>4. ToListener' = T
        BY <1>2, <2>3 DEF ToListener, HandshakeLines, ForwardLine, scenario, h
    <2>5. T \in Seq(LinesOf(T))
        BY Replies DEF Reply
    <2> HIDE DEF T
    <2>6. ScenarioInv' /\ CallInv' /\ DataInv'
        BY <1>1, <1>2, <1>3, <2>1, <2>3 DEF ScenarioInv, CallInv, DataInv, scenario, Before
    <2>7. PlaceInv'
        <3>1. ~up' => Reason'
            BY <1>1, <1>2, <2>1, SameReason DEF PlaceInv, ScenarioInv
        <3> QED
            BY <1>1, <1>2, <2>1, <2>3, <3>1 DEF PlaceInv, scenario
    <2>8. DialerInv'
        <3>1. Follows(buf'["dialer"], wire'["dialer"], k + 1, ToDialer)
            BY <1>4, <2>3
        <3>2. pc'["listener"] \notin Before
            BY <1>3, <2>3
        <3>3. k + 1 = Len(ToDialer) /\ hs'["dialer"].sid # "" /\ hs'["dialer"] = hs["dialer"]
            BY <1>2, <2>2 DEF S, h
        <3>4. ToDialer[k + 1].t = "prompt"
            BY <1>8 DEF S
        <3> QED
            BY <1>1, <1>2, <1>4, <3>1, <3>2, <3>3, <3>4, DialerNext
    <2>9. ListenerInv'
        <3>1. Follows(<<>>, <<>>, 0, T) /\ Follows(<<>>, <<>> \o T, 0, T)
            BY <2>5, FollowsNone, FollowsAll
        <3>2. Follows(buf'["listener"], wire'["listener"], 0, ToListener')
            BY <2>3, <2>4, <3>1
        <3>3. hs'["listener"] = hs["listener"] /\ server' = server
            BY <1>2 DEF scenario
        <3>4. /\ server = "station" => LearntSid(hs["listener"], 0, ToListener)
              /\ server = "cms" => LearntResponse(hs["listener"], 0, ToListener)
            BY <1>3 DEF ListenerAt
        <3>5. /\ server = "station" => LearntSid(hs["listener"], 0, T) /\ LearntFw(hs["listener"], 0, T)
              /\ server = "cms" => LearntResponse(hs["listener"], 0, T)
            BY <3>4, LearntNothing
        <3>6. ListenerAt(0)'
            BY <1>3, <2>3, <2>4, <3>2, <3>3, <3>5 DEF ListenerAt
        <3> QED
            BY <3>6 DEF ListenerInv
    <2> QED
        BY <2>6, <2>7, <2>8, <2>9 DEF HandshakeInv
<1> QED
    BY <1>12, <1>13

\* What the listener reads when it reads a line of the handshake
LEMMA ListenerReads ==
    ASSUME Master = "listener", HandshakeInv, LoginInv,
           pc["listener"] \in {"read", "cmsRead"}, buf["listener"] # <<>>
    PROVE  /\ pc["dialer"] \in {"done", "failed"} /\ pc["listener"] \notin Before
           /\ \E k \in Nat :
                /\ ListenerAt(k) /\ Line("listener") = ToListener[k + 1]
                /\ k + 1 \in 1 .. Len(ToListener)
                /\ Follows(Tail(buf["listener"]), wire["listener"], k + 1, ToListener)
                /\ Line("listener").t \in {"fw", "sid", "pr", "comment", "command", "error"}
                /\ Line("listener").t = "command" =>
                     k + 1 = Len(ToListener) /\ k = Len(ToListener) - 1 /\ pc["dialer"] = "done"
<1>1. ListenerInv /\ PlaceInv
    BY DEF HandshakeInv
<1>2. PICK k \in Nat : ListenerAt(k)
    BY <1>1 DEF ListenerInv
<1>3. pc["dialer"] \in {"done", "failed"}
    BY <1>1, <1>2 DEF ListenerAt, PlaceInv
<1>4. Follows(buf["listener"], wire["listener"], k, ToListener)
    BY <1>2 DEF ListenerAt
<1>5. /\ Line("listener") = ToListener[k + 1] /\ k + 1 \in 1 .. Len(ToListener)
      /\ Follows(Tail(buf["listener"]), wire["listener"], k + 1, ToListener)
    <2> DEFINE b == buf["listener"]
               w == wire["listener"]
               S == ToListener
    <2>1. Follows(b, w, k, S) /\ b # <<>>
        BY <1>4
    <2> HIDE DEF b, w, S
    <2>2. Head(b) = S[k + 1] /\ k + 1 \in 1 .. Len(S) /\ Follows(Tail(b), w, k + 1, S)
        BY <2>1, FollowsRead
    <2> QED
        BY <2>2 DEF Line, b, w, S
<1> DEFINE T == ToListener
           l == Line("listener")
<1>6. /\ l.t \in {"fw", "sid", "pr", "comment", "command", "error"}
      /\ l.t = "command" => k + 1 = Len(T) /\ k = Len(T) - 1 /\ pc["dialer"] = "done"
    <2>1. CASE pc["dialer"] = "done"
        <3>1. Reply(T, hs["dialer"].challenge)
            BY <2>1, ReplyIs
        <3>2. l = T[k + 1] /\ k + 1 \in 1 .. Len(T)
            BY <1>5
        <3> HIDE DEF T, l
        <3>3. Len(T) \in Nat
            BY <3>1 DEF Reply
        <3>4. (k + 1 = Len(T) /\ k = Len(T) - 1) \/ k + 1 \in 1 .. Len(T) - 1
            BY <1>2, <3>2, <3>3, Within
        <3>5. CASE k + 1 = Len(T) /\ k = Len(T) - 1
            BY <2>1, <3>1, <3>2, <3>5 DEF Reply
        <3>6. CASE k + 1 \in 1 .. Len(T) - 1
            <4>1. l.t \in {"fw", "sid", "pr", "comment"}
                BY <3>1, <3>2, <3>6 DEF Reply
            <4> QED
                BY <4>1
        <3> QED
            BY <3>4, <3>5, <3>6
    <2>2. CASE pc["dialer"] # "done"
        <3>1. T = <<L("error")>>
            BY <2>2, ReplyIs
        <3>2. l = T[k + 1] /\ k + 1 \in 1 .. Len(T)
            BY <1>5
        <3> HIDE DEF T, l
        <3>3. Len(T) = 1 /\ T[1] = L("error")
            BY <3>1
        <3>4. k + 1 = 1
            BY <3>2, <3>3
        <3>5. l.t = "error"
            BY <3>2, <3>3, <3>4, Kind
        <3> QED
            BY <3>5
    <2> QED
        BY <2>1, <2>2
<1> QED
    BY <1>2, <1>3, <1>5, <1>6 DEF Before

\* The listener reads a line
LEMMA ListenerNext ==
    ASSUME NEW k \in Nat, Master = "listener", LoginInv, HandshakeInv, ListenerAt(k), UNCHANGED scenario,
           UNCHANGED <<pc, up, faults, remoteCall, wire>>, buf' = Rest("listener"),
           pc["listener"] \in {"read", "cmsRead"}, buf["listener"] # <<>>,
           Line("listener") = ToListener[k + 1], k + 1 \in 1 .. Len(ToListener),
           Follows(Tail(buf["listener"]), wire["listener"], k + 1, ToListener),
           DOMAIN hs' = End, hs'["dialer"] = hs["dialer"], IsData(hs'["listener"]),
           server = "station" =>
             /\ ToListener[k + 1].t = "sid" => hs'["listener"].sid = "B2FHM$"
             /\ ToListener[k + 1].t # "sid" => hs'["listener"].sid = hs["listener"].sid
             /\ ToListener[k + 1].t = "fw" => hs'["listener"].fw = Names(ToListener[k + 1].v)
             /\ ToListener[k + 1].t # "fw" => hs'["listener"].fw = hs["listener"].fw,
           server = "cms" =>
             /\ ToListener[k + 1].t = "pr" => hs'["listener"].response = ToListener[k + 1].v
             /\ ToListener[k + 1].t # "pr" => hs'["listener"].response = hs["listener"].response
    PROVE  HandshakeInv'
<1> USE EndFacts
<1>1. /\ ScenarioInv /\ PlaceInv /\ CallInv /\ DataInv /\ DialerInv
      /\ DOMAIN pc = End /\ DOMAIN buf = End
    BY DEF HandshakeInv, LoginInv
<1>2. pc["dialer"] \in {"done", "failed"} /\ pc["listener"] \notin Before
    BY ListenerReads
<1>3. buf'["listener"] = Tail(buf["listener"]) /\ buf'["dialer"] = buf["dialer"]
    BY <1>1 DEF Rest
<1>4. ScenarioInv' /\ CallInv' /\ DataInv'
    BY <1>1, <1>2, <1>3 DEF ScenarioInv, CallInv, DataInv, scenario
<1>5. PlaceInv'
    <2>1. ~up' => Reason'
        BY <1>1, SameReason DEF PlaceInv, ScenarioInv
    <2> QED
        BY <1>1, <2>1 DEF PlaceInv, scenario
<1>6. DialerInv'
    <2>1. PICK j \in Nat : DialerAt(j)
        BY <1>1, <1>2 DEF DialerInv
    <2>2. Follows(buf'["dialer"], wire'["dialer"], j, ToDialer)
        BY <1>3, <2>1 DEF DialerAt
    <2> QED
        BY <1>2, <2>1, <2>2, DialerStays
<1> DEFINE T == ToListener
           h == hs["listener"]
           g == hs'["listener"]
           c == hs["dialer"].challenge
<1>7. \A j \in 1 .. k + 1 : T[j].t = "pr" => T[j].v = Response(c, "main")
    <2>1. CASE pc["dialer"] = "done"
        <3>1. Reply(T, c)
            BY <2>1, ReplyIs
        <3>2. k + 1 \in 1 .. Len(T)
            OBVIOUS
        <3> HIDE DEF T, c
        <3>3. Len(T) \in Nat
            BY <3>1 DEF Reply
        <3>4. \A j \in 1 .. k + 1 : j \in 1 .. Len(T)
            BY <3>2, <3>3, Within
        <3> QED
            BY <3>1, <3>4 DEF Reply
    <2>2. CASE pc["dialer"] # "done"
        <3>1. T = <<L("error")>>
            BY <2>2, ReplyIs
        <3>2. k + 1 \in 1 .. Len(T)
            OBVIOUS
        <3> HIDE DEF T
        <3>3. Len(T) = 1 /\ T[1] = L("error")
            BY <3>1
        <3>4. \A j \in 1 .. k + 1 : T[j] = L("error")
            BY <3>2, <3>3
        <3> QED
            BY <3>4, Kind
    <2> QED
        BY <2>1, <2>2
<1>8. /\ server = "station" => LearntSid(h, k, T) /\ LearntFw(h, k, T)
      /\ server = "cms" => LearntResponse(h, k, T)
    BY DEF ListenerAt
<1>9. ASSUME server = "station" PROVE LearntSid(g, k + 1, T) /\ LearntFw(g, k + 1, T)
    <2>1. /\ T[k + 1].t = "sid" => g.sid = "B2FHM$"
          /\ T[k + 1].t # "sid" => g.sid = h.sid
          /\ T[k + 1].t = "fw" => g.fw = Names(T[k + 1].v)
          /\ T[k + 1].t # "fw" => g.fw = h.fw
        BY <1>9
    <2> HIDE DEF T, g, h
    <2> QED
        BY <1>7, <1>8, <1>9, <2>1, NextSid, NextFw
<1>10. ASSUME server = "cms" PROVE LearntResponse(g, k + 1, T)
    <2>1. /\ T[k + 1].t = "pr" => g.response = T[k + 1].v
          /\ T[k + 1].t # "pr" => g.response = h.response
        BY <1>10
    <2> DEFINE r == Response(c, "main")
    <2>2. \A j \in 1 .. k + 1 : T[j].t = "pr" => T[j].v = r
        BY <1>7
    <2>3. LearntResponse(h, k, T)
        BY <1>8, <1>10
    <2> HIDE DEF T, g, h, r
    <2> QED
        BY <2>1, <2>2, <2>3, NextResponse
<1>11. ToListener' = ToListener /\ server' = server
    BY SameReply DEF scenario
<1>12. Follows(buf'["listener"], wire'["listener"], k + 1, ToListener)
    BY <1>3
<1>13. ListenerAt(k + 1)'
    BY <1>2, <1>9, <1>10, <1>11, <1>12 DEF ListenerAt
<1>14. ListenerInv'
    <2>1. k + 1 \in Nat
        BY <1>12 DEF Follows
    <2> QED
        BY <1>13, <2>1 DEF ListenerInv
<1> QED
    BY <1>4, <1>5, <1>6, <1>14 DEF HandshakeInv

\* The listener is done
LEMMA ListenerEnds ==
    ASSUME NEW k \in Nat, Master = "listener", LoginInv, HandshakeInv, ListenerAt(k), UNCHANGED scenario,
           UNCHANGED <<up, faults, remoteCall, wire, buf, hs>>, pc["listener"] \in {"read", "cmsRead"},
           pc' = [pc EXCEPT !["listener"] = "done"], buf["listener"] # <<>>,
           k + 1 = Len(ToListener), pc["dialer"] = "done"
    PROVE  HandshakeInv'
<1> USE EndFacts
<1>1. /\ ScenarioInv /\ PlaceInv /\ CallInv /\ DataInv /\ DialerInv /\ DOMAIN pc = End
    BY DEF HandshakeInv, LoginInv
<1>2. pc'["listener"] = "done" /\ pc'["dialer"] = pc["dialer"] /\ DOMAIN pc' = End
    BY <1>1
<1>3. ScenarioInv' /\ CallInv' /\ DataInv'
    BY <1>1, <1>2 DEF ScenarioInv, CallInv, DataInv, scenario, Before
<1>4. PlaceInv'
    <2>1. ~up' => Reason'
        BY <1>1, SameReason DEF PlaceInv, ScenarioInv
    <2> QED
        BY <1>1, <1>2, <2>1 DEF PlaceInv, scenario
<1>5. DialerInv'
    <2>1. PICK j \in Nat : DialerAt(j)
        BY <1>1 DEF DialerInv
    <2>2. Follows(buf'["dialer"], wire'["dialer"], j, ToDialer)
        BY <2>1 DEF DialerAt
    <2>3. pc'["listener"] \notin Before
        BY <1>2 DEF Before
    <2> QED
        BY <1>2, <2>1, <2>2, <2>3, DialerStays
<1>6. ListenerInv'
    <2>1. ToListener' = ToListener /\ server' = server
        BY <1>2, SameReply DEF scenario
    <2>2. ListenerAt(k)'
        BY <1>2, <2>1 DEF ListenerAt
    <2> QED
        BY <2>2 DEF ListenerInv
<1> QED
    BY <1>3, <1>4, <1>5, <1>6 DEF HandshakeInv

LEMMA ListenerReadsLine ==
    ASSUME Master = "listener", LoginInv, HandshakeInv, ReadLine("listener")
    PROVE  HandshakeInv'
<1> USE EndFacts
<1>1. PlaceInv /\ DataInv /\ ScenarioInv
    BY DEF HandshakeInv
<1>2. /\ pc["listener"] = "read" /\ buf["listener"] # <<>> /\ buf' = Rest("listener")
      /\ UNCHANGED scenario /\ UNCHANGED <<faults, remoteCall>>
    BY DEF ReadLine
<1>3. server = "station"
    BY <1>1, <1>2 DEF PlaceInv
<1>4. PICK k \in Nat :
         /\ ListenerAt(k) /\ Line("listener") = ToListener[k + 1]
         /\ k + 1 \in 1 .. Len(ToListener)
         /\ Follows(Tail(buf["listener"]), wire["listener"], k + 1, ToListener)
         /\ Line("listener").t \in {"fw", "sid", "pr", "comment", "command", "error"}
    BY <1>2, ListenerReads
<1> DEFINE l == Line("listener")
           h == hs["listener"]
           g == hs'["listener"]
<1>5. /\ UNCHANGED <<pc, up, wire>>
      /\ hs' = CASE l.t = "sid" -> [hs EXCEPT !["listener"].sid = "B2FHM$"]
                 [] l.t = "fw" -> [hs EXCEPT !["listener"].fw = [i \in DOMAIN l.v |-> l.v[i][1]]]
                 [] l.t = "pq" -> [hs EXCEPT !["listener"].challenge = l.v]
                 [] OTHER -> hs
    BY <1>4 DEF ReadLine, Refused
<1>6. IsData(h) /\ DOMAIN hs = End
    BY <1>1 DEF DataInv
<1>7. /\ IsData(g) /\ DOMAIN hs' = End /\ hs'["dialer"] = hs["dialer"]
      /\ l.t = "sid" => g.sid = "B2FHM$"
      /\ l.t # "sid" => g.sid = h.sid
      /\ l.t = "fw" => g.fw = Names(l.v)
      /\ l.t # "fw" => g.fw = h.fw
    <2>1. CASE l.t = "sid"
        <3>1. hs' = [hs EXCEPT !["listener"].sid = "B2FHM$"]
            BY <1>5, <2>1
        <3>2. g = [h EXCEPT !.sid = "B2FHM$"] /\ DOMAIN hs' = End /\ hs'["dialer"] = hs["dialer"]
            BY <1>6, <3>1
        <3> QED
            BY <1>6, <2>1, <3>2, SetSid
    <2>2. CASE l.t = "fw"
        <3>1. hs' = [hs EXCEPT !["listener"].fw = Names(l.v)]
            BY <1>5, <2>2 DEF Names
        <3>2. g = [h EXCEPT !.fw = Names(l.v)] /\ DOMAIN hs' = End /\ hs'["dialer"] = hs["dialer"]
            BY <1>6, <3>1
        <3> QED
            BY <1>6, <2>2, <3>2, SetFw
    <2>3. CASE l.t \in {"pr", "comment", "command", "error"}
        BY <1>5, <1>6, <2>3
    <2> QED
        BY <1>4, <2>1, <2>2, <2>3
<1>8. l = ToListener[k + 1]
    BY <1>4
<1> QED
    BY <1>2, <1>3, <1>4, <1>5, <1>7, <1>8, ListenerNext

LEMMA ListenerEndsHandshake ==
    ASSUME Master = "listener", LoginInv, HandshakeInv, EndHandshake("listener")
    PROVE  HandshakeInv'
<1> USE EndFacts
<1>1. PlaceInv
    BY DEF HandshakeInv
<1>2. /\ pc["listener"] = "read" /\ buf["listener"] # <<>>
      /\ Line("listener").t \in {"prompt", "command"}
      /\ UNCHANGED scenario /\ UNCHANGED <<faults, hs, remoteCall>>
    BY DEF EndHandshake, HandshakeEnds
<1>3. server = "station"
    BY <1>1, <1>2 DEF PlaceInv
<1>4. PICK k \in Nat :
         /\ ListenerAt(k)
         /\ Line("listener").t \in {"fw", "sid", "pr", "comment", "command", "error"}
         /\ Line("listener").t = "command" =>
              k + 1 = Len(ToListener) /\ k = Len(ToListener) - 1 /\ pc["dialer"] = "done"
    BY <1>2, ListenerReads
<1>5. /\ Line("listener").t = "command" /\ pc["dialer"] = "done"
      /\ k + 1 = Len(ToListener) /\ k = Len(ToListener) - 1
    BY <1>2, <1>4
<1>6. hs["listener"].sid # ""
    <2>1. Reply(ToListener, hs["dialer"].challenge)
        BY <1>5, ReplyIs
    <2>2. \E j \in 1 .. k : ToListener[j].t = "sid"
        BY <1>5, <2>1 DEF Reply
    <2>3. LearntSid(hs["listener"], k, ToListener)
        BY <1>3, <1>4 DEF ListenerAt
    <2>4. hs["listener"].sid = "B2FHM$"
        BY <2>2, <2>3 DEF LearntSid
    <2> QED
        BY <2>4
<1>7. pc' = [pc EXCEPT !["listener"] = "done"] /\ UNCHANGED <<wire, up, buf>>
    BY <1>5, <1>6 DEF EndHandshake, Go
<1> QED
    BY <1>2, <1>4, <1>5, <1>7, ListenerEnds

LEMMA CMSReadsKeeps ==
    ASSUME Master = "listener", LoginInv, HandshakeInv, CMSReads
    PROVE  HandshakeInv'
<1> USE EndFacts
<1>1. PlaceInv /\ DataInv
    BY DEF HandshakeInv
<1> DEFINE l == Line("listener")
           h == hs["listener"]
           g == hs'["listener"]
<1>2. /\ pc["listener"] = "cmsRead" /\ buf["listener"] # <<>>
      /\ UNCHANGED scenario /\ UNCHANGED <<wire, up, faults, remoteCall>>
      /\ hs' = IF l.t = "pr" THEN [hs EXCEPT !["listener"].response = l.v]
               ELSE IF l.t = "fw" THEN [hs EXCEPT !["listener"].fw = l.v]
               ELSE hs
      /\ IF l.t = "command" THEN Go("listener", "done") /\ UNCHANGED buf
         ELSE buf' = Rest("listener") /\ UNCHANGED pc
    BY DEF CMSReads
<1>3. server = "cms"
    BY <1>1, <1>2 DEF PlaceInv
<1>4. PICK k \in Nat :
         /\ ListenerAt(k) /\ Line("listener") = ToListener[k + 1]
         /\ k + 1 \in 1 .. Len(ToListener)
         /\ Follows(Tail(buf["listener"]), wire["listener"], k + 1, ToListener)
         /\ Line("listener").t = "command" =>
              k + 1 = Len(ToListener) /\ k = Len(ToListener) - 1 /\ pc["dialer"] = "done"
    BY <1>2, ListenerReads
<1>5. IsData(h) /\ DOMAIN hs = End
    BY <1>1 DEF DataInv
<1>6. /\ IsData(g) /\ DOMAIN hs' = End /\ hs'["dialer"] = hs["dialer"]
      /\ l.t = "pr" => g.response = l.v
      /\ l.t # "pr" => g.response = h.response
    <2>1. CASE l.t = "pr"
        <3>1. hs' = [hs EXCEPT !["listener"].response = l.v]
            BY <1>2, <2>1
        <3>2. g = [h EXCEPT !.response = l.v] /\ DOMAIN hs' = End /\ hs'["dialer"] = hs["dialer"]
            BY <1>5, <3>1
        <3> QED
            BY <1>5, <2>1, <3>2, SetResponse
    <2>2. CASE l.t = "fw"
        <3>1. hs' = [hs EXCEPT !["listener"].fw = l.v]
            BY <1>2, <2>2
        <3>2. g = [h EXCEPT !.fw = l.v] /\ DOMAIN hs' = End /\ hs'["dialer"] = hs["dialer"]
            BY <1>5, <3>1
        <3> QED
            BY <1>5, <2>2, <3>2, SetFw
    <2>3. CASE l.t \notin {"pr", "fw"}
        BY <1>2, <1>5, <2>3
    <2> QED
        BY <2>1, <2>2, <2>3
<1>7. CASE l.t = "command"
    <2>1. UNCHANGED <<buf, hs>> /\ pc' = [pc EXCEPT !["listener"] = "done"]
        BY <1>2, <1>7 DEF Go
    <2> QED
        BY <1>2, <1>4, <1>7, <2>1, ListenerEnds
<1>8. CASE l.t # "command"
    <2>1. buf' = Rest("listener") /\ UNCHANGED pc
        BY <1>2, <1>8
    <2>2. l = ToListener[k + 1]
        BY <1>4
    <2> QED
        BY <1>2, <1>3, <1>4, <1>6, <2>1, <2>2, ListenerNext
<1> QED
    BY <1>7, <1>8

LEMMA HandshakeInit == Init => HandshakeInv
<1> USE EndFacts
<1> SUFFICES ASSUME Init PROVE HandshakeInv
    OBVIOUS
<1>1. /\ pc["dialer"] = "login" /\ pc["listener"] = "accept" /\ up = TRUE /\ faults = 0
      /\ hs = [e \in End |-> NoData]
    BY DEF Init
<1>2. ScenarioInv
    <2>1. faults \in Nat /\ up \in BOOLEAN
        BY <1>1
    <2>2. /\ server \in {"station", "cms"} /\ motd \in Motds
          /\ script \in CMSScripts
        BY DEF Init
    <2> QED
        BY <2>1, <2>2 DEF ScenarioInv
<1>3. PlaceInv /\ CallInv /\ DialerInv /\ ListenerInv
    BY <1>1 DEF PlaceInv, CallInv, DialerInv, ListenerInv
<1>4. DataInv
    BY <1>1, NoDataIs DEF DataInv
<1> QED
    BY <1>2, <1>3, <1>4 DEF HandshakeInv

LEMMA HandshakeStutters ==
    ASSUME HandshakeInv, UNCHANGED vars
    PROVE  HandshakeInv'
<1>1. UNCHANGED scenario /\ UNCHANGED <<wire, up, faults, buf, pc, hs, remoteCall>>
    BY DEF vars, scenario
<1>2. ScenarioInv' /\ CallInv' /\ DataInv'
    BY <1>1 DEF HandshakeInv, ScenarioInv, CallInv, DataInv, scenario
<1>3. PlaceInv'
    BY <1>1 DEF HandshakeInv, PlaceInv, Reason, Text, scenario
<1>4. ToDialer' = ToDialer /\ ToListener' = ToListener /\ server' = server
    BY <1>1, SameSpeech, SameReply DEF scenario
<1>5. DialerInv' /\ ListenerInv'
    BY <1>1, <1>4 DEF HandshakeInv, DialerInv, DialerAt, ListenerInv, ListenerAt
<1> QED
    BY <1>2, <1>3, <1>5 DEF HandshakeInv

LEMMA HandshakeStep ==
    ASSUME Master = "listener", LoginInv, HandshakeInv, [Next]_vars
    PROVE  HandshakeInv'
<1>1. CASE UNCHANGED vars
    BY <1>1, HandshakeStutters
<1>2. CASE DialLogin
    BY <1>2, DialLoginKeeps
<1>3. CASE AcceptLogin
    BY <1>3, AcceptLoginKeeps
<1>4. ASSUME NEW e \in End, Step(e) PROVE HandshakeInv'
    <2>1. CASE Fill(e)
        BY <2>1, FillKeeps
    <2>2. CASE ReadFails(e)
        BY <2>2, ReadFailsKeeps
    <2>3. CASE Greet(e)
        <3>1. e = "listener"
            BY <2>3, EndFacts DEF Greet, HandshakeInv, PlaceInv
        <3> QED
            BY <2>3, <3>1, SpeakKeeps
    <2>4. CASE ReadLine(e)
        BY <2>4, EndFacts, DialerReadsLine, ListenerReadsLine
    <2>5. CASE EndHandshake(e)
        BY <2>5, EndFacts, DialerEnds, ListenerEndsHandshake
    <2> QED
        BY <1>4, <2>1, <2>2, <2>3, <2>4, <2>5 DEF Step
<1>5. CASE CMSGreets
    BY <1>5, SpeakKeeps
<1>6. CASE CMSReads
    BY <1>6, CMSReadsKeeps
<1>7. CASE Break
    BY <1>7, BreakKeeps
<1> QED
    BY <1>1, <1>2, <1>3, <1>4, <1>5, <1>6, <1>7 DEF Next, Idle

\* In every scenario, with any number of broken connections, what readHandshake has
\* still to read is the rest of what sendHandshake (or the CMS) has said at the other
\* end, and its handshakeData is what the lines it has read say.
THEOREM HandshakeInvariant ==
    ASSUME Master = "listener"
    PROVE  Spec => [](LoginInv /\ HandshakeInv)
<1>1. Init => LoginInv /\ HandshakeInv
    BY LoginInit, HandshakeInit
<1>2. LoginInv /\ HandshakeInv /\ [Next]_vars => (LoginInv /\ HandshakeInv)'
    BY LoginStep, HandshakeStep
<1> QED
    BY <1>1, <1>2, PTL DEF Spec

\* When both ends have finished the handshake (readHandshake and sendHandshake) each
\* knows the addresses of the other, the listener knows who called, a challenge
\* was answered with the password of the first address, and the command that
\* ended the handshake is the only line left, for the exchange to read.
THEOREM BothKnow ==
    ASSUME Master = "listener"
    PROVE  Spec => []HandshakeAgreed
<1>1. ASSUME LoginInv, HandshakeInv PROVE HandshakeAgreed
    <2> SUFFICES ASSUME pc["dialer"] = "done", pc["listener"] = "done" PROVE
            /\ remoteCall = "main"
            /\ wire["dialer"] = <<>> /\ buf["dialer"] = <<>>
            /\ buf["listener"] # <<>> /\ Line("listener").t = "command"
            /\ hs["dialer"].sid # ""
            /\ server = "station" =>
                hs["listener"].fw = LocalFW["dialer"] /\ hs["dialer"].fw = LocalFW["listener"]
            /\ server = "cms" =>
                hs["listener"].response = IF hs["dialer"].challenge = "" THEN <<>>
                                          ELSE Response(hs["dialer"].challenge, "main")
        BY EndFacts DEF HandshakeAgreed
    <2> DEFINE S == ToDialer
               T == ToListener
               c == hs["dialer"].challenge
    <2>1. PICK k \in Nat : DialerAt(k)
        BY <1>1 DEF HandshakeInv, DialerInv
    <2>2. PICK j \in Nat : ListenerAt(j)
        BY <1>1 DEF HandshakeInv, ListenerInv
    <2>3. Speech(S) /\ Reply(T, c)
        BY <1>1, Speaks, ReplyIs DEF HandshakeInv
    <2>4. remoteCall = "main"
        BY <1>1 DEF HandshakeInv, CallInv
    <2>5. /\ k = Len(S) /\ hs["dialer"].sid # "" /\ Follows(buf["dialer"], wire["dialer"], k, S)
          /\ server = "station" => LearntFw(hs["dialer"], k, S)
        BY <2>1 DEF DialerAt
    <2>6. /\ j + 1 = Len(T) /\ buf["listener"] # <<>>
          /\ Follows(buf["listener"], wire["listener"], j, T)
          /\ server = "station" => LearntFw(hs["listener"], j, T)
          /\ server = "cms" => LearntResponse(hs["listener"], j, T)
        BY <2>2 DEF ListenerAt
    <2>7. wire["dialer"] = <<>> /\ buf["dialer"] = <<>>
        <3> DEFINE b == buf["dialer"]
                   w == wire["dialer"]
        <3>1. Follows(b, w, k, S) /\ k = Len(S)
            BY <2>5
        <3> HIDE DEF b, w, S
        <3>2. b \in Seq(LinesOf(S)) /\ w \in Seq(LinesOf(S)) /\ k + Len(b) + Len(w) <= k /\ k \in Nat
            BY <3>1 DEF Follows
        <3>3. Len(b) \in Nat /\ Len(w) \in Nat
            BY <3>2, Empty
        <3>4. Len(b) = 0 /\ Len(w) = 0
            BY <3>2, <3>3
        <3> QED
            BY <3>2, <3>4, Empty DEF b, w
    <2>8. Line("listener").t = "command" /\ j = Len(T) - 1
        <3> DEFINE b == buf["listener"]
                   w == wire["listener"]
        <3>1. Follows(b, w, j, T) /\ b # <<>> /\ j + 1 = Len(T)
            BY <2>6
        <3> HIDE DEF b, w, T
        <3>2. Head(b) = T[j + 1] /\ j + 1 \in 1 .. Len(T)
            BY <3>1, FollowsRead
        <3>3. T[Len(T)].t = "command" /\ Len(T) \in Nat
            BY <2>3 DEF Reply
        <3>4. j = Len(T) - 1
            BY <3>1, <3>3
        <3> QED
            BY <3>1, <3>2, <3>3, <3>4 DEF Line, b
    <2> HIDE DEF S, T, c
    <2>11. \A i \in 1 .. Len(T) - 1 : i \in 1 .. Len(T)
        <3>1. Len(T) \in Nat
            BY <2>3 DEF Reply
        <3> QED
            BY <3>1
    <2>9. server = "station" =>
            hs["listener"].fw = LocalFW["dialer"] /\ hs["dialer"].fw = LocalFW["listener"]
        <3> SUFFICES ASSUME server = "station"
                     PROVE  hs["listener"].fw = LocalFW["dialer"] /\ hs["dialer"].fw = LocalFW["listener"]
            OBVIOUS
        <3>1. hs["dialer"].fw = LocalFW["listener"]
            BY <2>3, <2>5 DEF Speech, LearntFw
        <3>2. \E i \in 1 .. Len(T) - 1 :
                LastFw(i, Len(T) - 1, T) /\ Names(T[i].v) = LocalFW["dialer"]
            BY <2>3 DEF Reply
        <3>3. \A i \in 1 .. Len(T) - 1 : LastFw(i, Len(T) - 1, T) => hs["listener"].fw = Names(T[i].v)
            BY <2>6, <2>8 DEF LearntFw
        <3> QED
            BY <3>1, <3>2, <3>3
    <2>10. server = "cms" =>
             hs["listener"].response = IF c = "" THEN <<>> ELSE Response(c, "main")
        <3> SUFFICES ASSUME server = "cms"
                     PROVE  hs["listener"].response = IF c = "" THEN <<>> ELSE Response(c, "main")
            OBVIOUS
        <3>1. /\ \A i \in 1 .. Len(T) - 1 : T[i].t = "pr" => hs["listener"].response = T[i].v
              /\ (\A i \in 1 .. Len(T) - 1 : T[i].t # "pr") => hs["listener"].response = <<>>
            BY <2>6, <2>8 DEF LearntResponse
        <3>2. \A i \in 1 .. Len(T) - 1 : T[i].t = "pr" => T[i].v = Response(c, "main")
            BY <2>3, <2>11 DEF Reply
        <3>3. c # "" <=> \E i \in 1 .. Len(T) - 1 : T[i].t = "pr"
            BY <2>3 DEF Reply
        <3> QED
            BY <3>1, <3>2, <3>3
    <2> QED
        BY <2>4, <2>5, <2>6, <2>7, <2>8, <2>9, <2>10 DEF c
<1> QED
    BY <1>1, HandshakeInvariant, PTL

\* A login or a handshake fails only for one of the reasons: a connection that broke,
\* a SID or ;FW line that readHandshake refuses, from the CMS or in the message of
\* the day, a challenge without a password, no SID from the CMS, or a message of
\* the day that reads like a prompt.
THEOREM FailureHasReason ==
    ASSUME Master = "listener"
    PROVE  Spec => []FailsForAReason
<1>1. HandshakeInv => FailsForAReason
    BY EndFacts DEF HandshakeInv, PlaceInv, Reason, FailsForAReason
<1> QED
    BY <1>1, HandshakeInvariant, PTL
=============================================================================
