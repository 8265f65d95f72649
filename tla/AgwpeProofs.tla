----------------------------- MODULE AgwpeProofs ------------------------------
(***************************************************************************)
(* Why frames neither overtake nor double each other on their way through  *)
(* three demultiplexers and two chains; why a connection that was dialled  *)
(* misses no data; and why Flush may believe a count of zero.              *)
(*                                                                         *)
(* All of it is about the way of the frames for one client: a step moves   *)
(* the first frame of one place on to the next, loses it, or lets a frame  *)
(* of the TNC in at the end. What holds of all pairs of frames in the      *)
(* order of the way survives the first two.                                *)
(***************************************************************************)
EXTENDS Agwpe, WellFoundedInduction, TLAPS

\* The frames the TNC sends: data is numbered, a disconnect is not
Sound == {f \in Frame : (f.k = "D" => f.n > 0) /\ (f.k = "d" => f.n = 0)}

\* The clients of each demultiplexer
At == [l \in Level |->
        CASE l = "tnc" -> {"port"}
          [] l = "port" -> {"conn", "caps", "reg", "connects"}
          [] l = "conn" -> {"disc", "data", "ack", "y", "end"}]

TypeInv ==
    /\ fromTNC \in Seq(Sound) /\ tcp \in BOOLEAN /\ link \in {"down", "calling", "up", "gone"}
    /\ lag \in Nat /\ out \in Nat /\ remote \in Nat
    /\ in \in [Level -> Seq(Sound)] /\ closed \in [Level -> BOOLEAN]
    /\ req \in [Level -> Client \cup {"none"}]
    /\ \A l \in Level : req[l] \in At[l] \cup {"none"}
    /\ clients \in [Level -> Seq(Client)]
    /\ \A l \in Level : Range(clients[l]) \subseteq At[l]
    /\ run \in [Level -> [f : Sound \cup {None}, todo : SUBSET Client, on : BOOLEAN]]
    /\ chain \in [Chains -> Sound \cup {F("off"), F("idle"), F("exited")}]
    /\ resp \in [Client -> Seq(Sound)]
    /\ got \in Seq(Sound) /\ lost \subseteq Nat

\* A demultiplexer with a frame in hand offers it to clients that want it
TodoInv ==
    \A l \in Level : run[l].todo # {} =>
        /\ run[l].on /\ run[l].f \in Sound
        /\ run[l].todo \subseteq {c \in Range(clients[l]) : run[l].f.k \in Kinds[c]}

\* Where the user's goroutine is before the port and before the connection is
\* chained to the demultiplexer above
BeforePort == {"newPort", "newPort1", "newPort2"}
BeforeConn == BeforePort \cup {"caps", "caps1", "capsWait", "reg", "reg1", "regWait",
                               "regFailed", "ready", "listen", "newConn", "newConn0", "newConn1"}
StartInv ==
    /\ u \in BeforePort => chain["port"] = F("off")
    /\ u \in BeforeConn => chain["conn"] = F("off")

BaseInv == TypeInv /\ TodoInv /\ StartInv

\* All pairs of frames in the order of the way W are in R
Sorted(W, R) ==
    \A p, q \in DOMAIN W : \A i \in DOMAIN W[p], j \in DOMAIN W[q] :
        p < q \/ (p = q /\ i < j) => <<W[p][i], W[q][j]>> \in R

\* Data in order, and none after a disconnect
DataOrder ==
    {r \in Sound \X Sound : /\ r[1].k = "D" /\ r[2].k = "D" => r[1].n < r[2].n
                            /\ ~(r[1].k = "d" /\ r[2].k = "D")}

\* One count of outstanding frames
OneCount == {r \in Sound \X Sound : ~(r[1].k = "Y" /\ r[2].k = "Y")}

\* The frames on the way W
On(W) == UNION {Range(W[p]) : p \in DOMAIN W}

\* What the remote station has sent is on the way or lost
DataInv ==
    /\ Sorted(Way("data"), DataOrder)
    /\ \A n \in 1 .. remote : n \in lost \/ [k |-> "D", n |-> n] \in On(Way("data"))
    /\ \A f \in On(Way("data")) : f.k = "D" => f.n <= remote /\ f.n \notin lost
    /\ \A n \in lost : n <= remote
-----------------------------------------------------------------------------
\* A demultiplexer above is closed before the one below
CloseInv ==
    /\ \A l \in Level : ~run[l].on => closed[l]
    /\ closed["port"] \/ "port" \in over \/ "port" \in cancelled => ~run["tnc"].on
    /\ "conn" \in cancelled => closed["conn"]
    /\ closed["tnc"] => ~tcp
    /\ cancelled \subseteq {"port", "conn", "data"}

\* The link is over, and nothing that it carried is still to come
NoMoreData ==
    /\ link = "gone"
    /\ \A p \in 3 .. 11 : \A i \in DOMAIN Way("data")[p] : Way("data")[p][i].k # "D"

DiscInv ==
    /\ \A f \in On(Way("data")) : f.k = "d" => link = "gone"
    /\ (\E c \in run["conn"].todo : run["conn"].f.k = "d") => NoMoreData
    /\ resp["disc"] # <<>> => NoMoreData
    /\ "data" \in cancelled => NoMoreData
    /\ \A i \in DOMAIN resp["disc"] : resp["disc"][i].k = "d"

\* The clients that pass data on are registered
PortWired == closed["tnc"] \/ ~run["tnc"].on \/ "port" \in Range(clients["tnc"])
ConnWired == \/ closed["tnc"] \/ closed["port"] \/ closed["conn"] \/ ~run["port"].on
             \/ "conn" \in Range(clients["port"])
DataWired == closed["conn"] \/ "data" \in Range(clients["conn"]) \/ "data" \in cancelled

Wired ==
    \/ closed["conn"]
    \/ /\ ~run["tnc"].on \/ "port" \in Range(clients["tnc"])
       /\ ~run["port"].on \/ "conn" \in Range(clients["port"])
       /\ "data" \in Range(clients["conn"]) \/ NoMoreData

WireInv ==
    /\ u = "newPort2" => PortWired \/ req["tnc"] = "port"
    /\ u \notin BeforePort => PortWired
    /\ u = "newConn1" => ConnWired \/ req["port"] = "conn"
    /\ u \notin BeforeConn \cup {"done", "panic"} => ConnWired
    /\ u = "newConn4" => DataWired \/ req["conn"] = "data"
    /\ u \in {"dial", "dial1"} => DataWired

\* On a connection that is dialled the link comes after the clients
DialInv ==
    ~inbound =>
        /\ link \in {"down", "calling"} => remote = 0
        /\ u \in BeforeConn \cup {"newConn2", "newConn3", "newConn4", "dial", "dial1"} =>
             link \in {"down", "gone"} /\ remote = 0
        /\ link \in {"calling", "up"} \/ remote > 0 => Wired
        /\ closed["conn"] \/ missed \subseteq {0}
-----------------------------------------------------------------------------
Asking == {"ask", "ask1", "askWait"}

\* A frame that was written alone is counted
Counted == ~piled => lag = 0

\* Nothing is left of what Flush waits for
Settled == (link = "gone" \/ owed = 0) /\ (~piled => lag = 0 /\ out = 0)

\* What the count n says to the one who waits for it
Means(n) ==
    /\ op = "post" /\ n > 0 => Counted
    /\ op \in {"flush", "close"} /\ n = 0 => Settled

\* After an io.EOF the user closes, and nobody asks again
Ended == closed["conn"] /\ u \in {"broken", "close", "closeConn", "done"}

\* Without a link nothing is counted
Rests == link # "up" => lag = 0 /\ out = 0

\* What Flush waits for is counted; a frame that was written alone is alone
Owing == owed \in Nat /\ (link = "gone" \/ owed <= out)
Few   == ~piled => lag + out <= 1

\* The channel of the answer holds an answer and is closed after it, or with the
\* connection
Answered ==
    /\ "y" \in over => resp["y"] # <<>> \/ closed["conn"]
    /\ \A i \in DOMAIN resp["y"] : resp["y"][i].k = "Y"

\* What the user's goroutine asks for
Purpose ==
    /\ u \in Asking => op \in {"pre", "post", "flush", "close"}
    /\ u = "send" => ~flushed /\ op = "post"

\* At most one count is on its way, and it is right for the one who reads it
Exact ==
    /\ Sorted(Way("y"), OneCount)
    /\ \A f \in On(Way("y")) : f.k = "Y" => (u = "askWait" /\ Means(f.n)) \/ Ended
    /\ Counted \/ (op = "post" /\ u \in Asking) \/ (Ended /\ ~flushed)
    /\ flushed => Settled

CountInv == Rests /\ Owing /\ Few /\ Answered /\ Purpose /\ (tcp /\ ~late => Exact)
-----------------------------------------------------------------------------
(***************************************************************************)
(* Ways: sequences of eleven sequences of frames.                          *)
(***************************************************************************)
Places == 1 .. 11
IsWay(W) == DOMAIN W = Places /\ \A p \in Places : W[p] \in Seq(Sound)

\* The first frame of place q moves to the end of place p, or is gone
Advance(W, V, p, q) ==
    /\ p \in Places /\ q \in Places /\ p < q /\ W[q] # <<>>
    /\ \A r \in Places : p < r /\ r < q => W[r] = <<>>
    /\ V[p] = Append(W[p], Head(W[q])) /\ V[q] = Tail(W[q])
    /\ \A r \in Places : r # p /\ r # q => V[r] = W[r]
Loss(W, V, q) ==
    /\ q \in Places /\ W[q] # <<>>
    /\ V[q] = Tail(W[q]) /\ \A r \in Places : r # q => V[r] = W[r]

\* A frame comes in, and some places are emptied
Enter(W, V, f) == V[11] = Append(W[11], f) /\ \A r \in Places : r # 11 => V[r] = W[r]
Clear(W, V) == \A r \in Places : V[r] = W[r] \/ V[r] = <<>>

\* From place m on there are frames of the set S only
Behind(W, m, S) == \A p \in m .. 11 : \A i \in DOMAIN W[p] : W[p][i] \in S

LEMMA OnPlace == ASSUME NEW W, NEW p \in Places, IsWay(W) PROVE W[p] \in Seq(Sound)
BY DEF IsWay

LEMMA Least ==
    ASSUME NEW T \in SUBSET Nat, T # {}
    PROVE  \E x \in T : \A y \in T : x <= y
<1> DEFINE R == OpToRel(<, Nat)
<1>1. IsWellFoundedOn(R, Nat)
    BY NatLessThanWellFounded
<1>2. R = {ss \in Nat \X Nat : ss[1] < ss[2]}
    BY DEF OpToRel
<1> HIDE DEF R
<1>3. PICK x \in T : \A y \in T : ~(<<y, x>> \in R)
    BY <1>1, WFMin
<1>4. \A y \in T : x <= y
    <2> SUFFICES ASSUME NEW y \in T PROVE x <= y
        OBVIOUS
    <2>1. ~(y < x)
        BY <1>2, <1>3
    <2> QED
        BY <2>1
<1> QED
    BY <1>4

\* A sequence without its first element, and with another one at its end
LEMMA TailIs ==
    ASSUME NEW S, NEW s \in Seq(S), s # <<>>
    PROVE  /\ Head(s) \in S /\ Head(s) = s[1] /\ Tail(s) \in Seq(S)
           /\ 1 \in DOMAIN s /\ DOMAIN s \subseteq Nat \ {0} /\ Len(Tail(s)) = Len(s) - 1
           /\ \A i \in DOMAIN Tail(s) : i + 1 \in DOMAIN s /\ Tail(s)[i] = s[i + 1]
           /\ \A i \in DOMAIN s : i = 1 \/ (i - 1 \in DOMAIN Tail(s) /\ Tail(s)[i - 1] = s[i])
OBVIOUS

LEMMA AppendIs ==
    ASSUME NEW S, NEW s \in Seq(S), NEW f \in S
    PROVE  /\ Append(s, f) \in Seq(S) /\ Append(s, f) # <<>>
           /\ Len(s) + 1 \in DOMAIN Append(s, f) /\ Append(s, f)[Len(s) + 1] = f
           /\ DOMAIN Append(s, f) = DOMAIN s \cup {Len(s) + 1}
           /\ \A i \in DOMAIN s : i < Len(s) + 1 /\ i \in Nat /\ Append(s, f)[i] = s[i]
           /\ Len(s) \in Nat
OBVIOUS

LEMMA SortedAdvance ==
    ASSUME NEW W, NEW V, IsWay(W), NEW R, NEW p, NEW q, Advance(W, V, p, q), Sorted(W, R),
           DOMAIN V = Places
    PROVE  Sorted(V, R)
<1>0. Places \subseteq Nat
    BY DEF Places
<1>1. /\ p \in Places /\ q \in Places /\ p < q /\ W[q] # <<>> /\ W[q] \in Seq(Sound)
      /\ W[p] \in Seq(Sound) /\ Places \subseteq Nat /\ DOMAIN W = Places
    BY <1>0 DEF Advance, IsWay
<1>2. /\ Head(W[q]) \in Sound /\ Head(W[q]) = W[q][1] /\ 1 \in DOMAIN W[q] /\ DOMAIN W[q] \subseteq Nat \ {0}
      /\ \A i \in DOMAIN Tail(W[q]) : i + 1 \in DOMAIN W[q] /\ Tail(W[q])[i] = W[q][i + 1]
      /\ DOMAIN Tail(W[q]) \subseteq Nat \ {0}
    BY <1>1, TailIs
<1>3. /\ DOMAIN Append(W[p], Head(W[q])) = DOMAIN W[p] \cup {Len(W[p]) + 1}
      /\ Append(W[p], Head(W[q]))[Len(W[p]) + 1] = Head(W[q])
      /\ \A i \in DOMAIN W[p] : i < Len(W[p]) + 1 /\ i \in Nat /\ Append(W[p], Head(W[q]))[i] = W[p][i]
      /\ Len(W[p]) \in Nat
    BY <1>1, <1>2, AppendIs
<1> DEFINE n == Len(W[p]) + 1
\* Where the frame at i in place r of V was before
<1>4. ASSUME NEW r \in Places, NEW i \in DOMAIN V[r]
      PROVE  /\ i \in Nat \ {0}
             /\ \/ r = p /\ i = n /\ V[r][i] = W[q][1]
                \/ r = p /\ i < n /\ i \in DOMAIN W[p] /\ V[r][i] = W[p][i]
                \/ r = q /\ i + 1 \in DOMAIN W[q] /\ V[r][i] = W[q][i + 1]
                \/ r # p /\ r # q /\ i \in DOMAIN W[r] /\ V[r][i] = W[r][i]
    <2>1. CASE r = p
        BY <1>1, <1>3, <1>2, <2>1, <1>4 DEF Advance
    <2>2. CASE r = q
        BY <1>1, <1>2, <2>2, <1>4 DEF Advance
    <2>3. CASE r # p /\ r # q
        <3>1. V[r] = W[r] /\ W[r] \in Seq(Sound)
            BY <2>3 DEF Advance, IsWay
        <3> QED
            BY <2>3, <3>1, <1>4
    <2> QED
        BY <2>1, <2>2, <2>3
<1>5. \A r \in Places : p < r /\ r < q => DOMAIN V[r] = {}
    <2>1. \A r \in Places : p < r /\ r < q => r # p /\ r # q
        BY DEF Advance, Places
    <2>2. \A r \in Places : p < r /\ r < q => V[r] = <<>>
        BY <2>1 DEF Advance
    <2> QED
        BY <2>2
<1> HIDE DEF n
<1>6. n \in Nat
    BY <1>3 DEF n
<1>7. \A r, s \in Places : \A i \in DOMAIN W[r], j \in DOMAIN W[s] :
        r < s \/ (r = s /\ i < j) => <<W[r][i], W[s][j]>> \in R
    BY <1>1 DEF Sorted
<1>8. ASSUME NEW r \in Places, NEW s \in Places, NEW i \in DOMAIN V[r], NEW j \in DOMAIN V[s],
             r < s \/ (r = s /\ i < j)
      PROVE  <<V[r][i], V[s][j]>> \in R
    <2>0. r \in Nat /\ s \in Nat /\ p \in Nat /\ q \in Nat /\ i \in Nat /\ j \in Nat
        BY <1>1, <1>4
    <2>1. CASE r = p /\ i = n /\ V[r][i] = W[q][1]
        <3>1. s >= q
            <4>1. CASE r = s
                BY <1>4, <1>6, <1>8, <2>0, <2>1, <4>1, <1>1
            <4>2. CASE r < s
                BY <1>5, <2>0, <2>1, <4>2
            <4> QED
                BY <1>8, <4>1, <4>2
        <3>2. CASE s = q
            <4>1. j + 1 \in DOMAIN W[q] /\ V[s][j] = W[q][j + 1] /\ 1 < j + 1
                BY <1>1, <1>4, <1>2, <2>0, <3>2
            <4> QED
                BY <1>1, <1>2, <1>7, <2>1, <3>2, <4>1
        <3>3. CASE s > q
            <4>1. s # p /\ s # q /\ j \in DOMAIN W[s] /\ V[s][j] = W[s][j]
                BY <1>1, <1>4, <2>0, <3>3
            <4> QED
                BY <1>1, <1>2, <1>7, <2>0, <2>1, <3>3, <4>1
        <3> QED
            BY <2>0, <3>1, <3>2, <3>3
    <2>2. CASE r = p /\ i < n /\ i \in DOMAIN W[p] /\ V[r][i] = W[p][i]
        <3>1. CASE s = p /\ j = n /\ V[s][j] = W[q][1]
            <4>1. <<W[p][i], W[q][1]>> \in R
                BY <1>1, <1>2, <1>7, <2>2
            <4> QED
                BY <2>2, <3>1, <4>1
        <3>2. CASE s = p /\ j < n /\ j \in DOMAIN W[p] /\ V[s][j] = W[p][j]
            BY <1>7, <1>8, <2>0, <2>2, <3>2
        <3>3. CASE s = q /\ j + 1 \in DOMAIN W[q] /\ V[s][j] = W[q][j + 1]
            BY <1>1, <1>7, <2>2, <3>3
        <3>4. CASE s # p /\ s # q /\ j \in DOMAIN W[s] /\ V[s][j] = W[s][j]
            BY <1>7, <1>8, <2>0, <2>2, <3>4
        <3> QED
            BY <1>4, <3>1, <3>2, <3>3, <3>4
    <2>3. CASE r = q /\ i + 1 \in DOMAIN W[q] /\ V[r][i] = W[q][i + 1]
        <3>1. CASE s = q /\ j + 1 \in DOMAIN W[q] /\ V[s][j] = W[q][j + 1]
            <4>1. i + 1 < j + 1
                BY <1>8, <2>0, <2>3, <3>1
            <4>2. <<W[q][i + 1], W[q][j + 1]>> \in R
                BY <1>1, <1>7, <2>3, <3>1, <4>1
            <4> QED
                BY <2>3, <3>1, <4>2
        <3>2. CASE s # q
            <4>1. s > q
                BY <1>8, <2>0, <2>3, <3>2
            <4>2. j \in DOMAIN W[s] /\ V[s][j] = W[s][j]
                BY <1>1, <1>4, <2>0, <4>1
            <4> QED
                BY <1>1, <1>7, <2>0, <2>3, <4>1, <4>2
        <3> QED
            BY <1>4, <1>1, <3>1, <3>2
    <2>4. CASE r # p /\ r # q /\ i \in DOMAIN W[r] /\ V[r][i] = W[r][i]
        <3>1. r < p \/ r > q
            BY <1>1, <1>5, <2>0, <2>4
        <3>2. CASE s = p /\ j = n /\ V[s][j] = W[q][1]
            <4>1. r < q
                BY <1>1, <1>8, <2>0, <2>4, <3>2
            <4>2. <<W[r][i], W[q][1]>> \in R
                BY <1>1, <1>2, <1>7, <2>4, <4>1
            <4> QED
                BY <2>4, <3>2, <4>2
        <3>3. CASE s = p /\ j < n /\ j \in DOMAIN W[p] /\ V[s][j] = W[p][j]
            BY <1>1, <1>7, <1>8, <2>0, <2>4, <3>3
        <3>4. CASE s = q /\ j + 1 \in DOMAIN W[q] /\ V[s][j] = W[q][j + 1]
            BY <1>1, <1>7, <1>8, <2>0, <2>4, <3>4
        <3>5. CASE s # p /\ s # q /\ j \in DOMAIN W[s] /\ V[s][j] = W[s][j]
            BY <1>7, <1>8, <2>0, <2>4, <3>5
        <3> QED
            BY <1>4, <3>2, <3>3, <3>4, <3>5
    <2> QED
        BY <1>4, <2>1, <2>2, <2>3, <2>4
<1> QED
    BY <1>8 DEF Sorted

LEMMA OnAdvance ==
    ASSUME NEW W, NEW V, IsWay(W), NEW p, NEW q, Advance(W, V, p, q), DOMAIN V = Places
    PROVE  /\ On(V) = On(W)
           /\ \A m \in Places : \A S : Behind(W, m, S) => Behind(V, m, S)
<1>0. Places \subseteq Nat
    BY DEF Places
<1>1. /\ p \in Places /\ q \in Places /\ p < q /\ W[q] # <<>> /\ W[q] \in Seq(Sound)
      /\ W[p] \in Seq(Sound) /\ DOMAIN W = Places
    BY <1>0 DEF Advance, IsWay
<1>2. /\ Head(W[q]) \in Sound /\ Head(W[q]) = W[q][1] /\ 1 \in DOMAIN W[q]
      /\ \A i \in DOMAIN Tail(W[q]) : i + 1 \in DOMAIN W[q] /\ Tail(W[q])[i] = W[q][i + 1]
      /\ \A i \in DOMAIN W[q] : i = 1 \/ (i - 1 \in DOMAIN Tail(W[q]) /\ Tail(W[q])[i - 1] = W[q][i])
    BY <1>1, TailIs
<1>3. /\ Len(W[p]) + 1 \in DOMAIN Append(W[p], Head(W[q]))
      /\ DOMAIN Append(W[p], Head(W[q])) = DOMAIN W[p] \cup {Len(W[p]) + 1}
      /\ Append(W[p], Head(W[q]))[Len(W[p]) + 1] = Head(W[q])
      /\ \A i \in DOMAIN W[p] : Append(W[p], Head(W[q]))[i] = W[p][i]
    BY <1>1, <1>2, AppendIs
<1>4. /\ V[p] = Append(W[p], Head(W[q])) /\ V[q] = Tail(W[q])
      /\ \A r \in Places : r # p /\ r # q => V[r] = W[r]
    BY DEF Advance
\* Every frame comes from the same place or a later one, and none is gone
<1>5. ASSUME NEW r \in Places, NEW i \in DOMAIN V[r]
      PROVE  \E s \in Places : r <= s /\ \E j \in DOMAIN W[s] : V[r][i] = W[s][j]
    <2>1. CASE r = p
        <3>1. CASE i \in DOMAIN W[p]
            BY <1>0, <1>1, <1>3, <1>4, <2>1, <3>1
        <3>2. CASE i = Len(W[p]) + 1
            BY <1>0, <1>1, <1>2, <1>3, <1>4, <2>1, <3>2
        <3> QED
            BY <1>3, <1>4, <1>5, <2>1, <3>1, <3>2
    <2>2. CASE r = q
        <3>1. i + 1 \in DOMAIN W[q] /\ V[r][i] = W[q][i + 1]
            BY <1>2, <1>4, <1>5, <2>2
        <3> QED
            BY <1>0, <1>1, <2>2, <3>1
    <2>3. CASE r # p /\ r # q
        BY <1>0, <1>4, <1>5, <2>3
    <2> QED
        BY <2>1, <2>2, <2>3
<1>6. ASSUME NEW s \in Places, NEW j \in DOMAIN W[s]
      PROVE  \E r \in Places : \E i \in DOMAIN V[r] : V[r][i] = W[s][j]
    <2>1. CASE s = p
        BY <1>1, <1>3, <1>4, <1>6, <2>1
    <2>2. CASE s = q
        <3>1. CASE j = 1
            BY <1>1, <1>2, <1>3, <1>4, <2>2, <3>1
        <3>2. CASE j # 1
            <4>1. j - 1 \in DOMAIN V[q] /\ V[q][j - 1] = W[q][j]
                BY <1>2, <1>4, <1>6, <2>2, <3>2
            <4> QED
                BY <1>1, <2>2, <4>1
        <3> QED
            BY <3>1, <3>2
    <2>3. CASE s # p /\ s # q
        BY <1>4, <1>6, <2>3
    <2> QED
        BY <2>1, <2>2, <2>3
<1>7. On(V) = On(W)
    BY <1>1, <1>5, <1>6 DEF On, Range
<1>8. ASSUME NEW m \in Places, NEW S, Behind(W, m, S)
      PROVE  Behind(V, m, S)
    <2> SUFFICES ASSUME NEW r \in m .. 11, NEW i \in DOMAIN V[r] PROVE V[r][i] \in S
        BY DEF Behind
    <2>1. r \in Places
        BY DEF Places
    <2>2. PICK s \in Places : r <= s /\ \E j \in DOMAIN W[s] : V[r][i] = W[s][j]
        BY <1>5, <2>1
    <2>3. s \in m .. 11
        BY <2>2 DEF Places
    <2> QED
        BY <1>8, <2>2, <2>3 DEF Behind
<1> QED
    BY <1>7, <1>8

LEMMA LossFacts ==
    ASSUME NEW W, NEW V, IsWay(W), NEW q, Loss(W, V, q), DOMAIN V = Places
    PROVE  /\ Head(W[q]) \in On(W) /\ Head(W[q]) \in Sound
           /\ On(V) \subseteq On(W) /\ On(W) \subseteq On(V) \cup {Head(W[q])}
           /\ \A R : Sorted(W, R) =>
                /\ Sorted(V, R)
                /\ \A f \in On(V) : <<f, Head(W[q])>> \in R \/ <<Head(W[q]), f>> \in R
           /\ \A m \in Places : \A S : Behind(W, m, S) => Behind(V, m, S)
<1>0. Places \subseteq Nat
    BY DEF Places
<1>1. /\ q \in Places /\ W[q] # <<>> /\ W[q] \in Seq(Sound) /\ DOMAIN W = Places
    BY <1>0 DEF Loss, IsWay
<1>2. /\ Head(W[q]) \in Sound /\ Head(W[q]) = W[q][1] /\ 1 \in DOMAIN W[q]
      /\ \A i \in DOMAIN Tail(W[q]) : i + 1 \in DOMAIN W[q] /\ Tail(W[q])[i] = W[q][i + 1]
      /\ \A i \in DOMAIN W[q] : i = 1 \/ (i - 1 \in DOMAIN Tail(W[q]) /\ Tail(W[q])[i - 1] = W[q][i])
      /\ DOMAIN Tail(W[q]) \subseteq Nat \ {0}
    BY <1>1, TailIs
<1>3. V[q] = Tail(W[q]) /\ \A r \in Places : r # q => V[r] = W[r]
    BY DEF Loss
<1>4. ASSUME NEW r \in Places, NEW i \in DOMAIN V[r]
      PROVE  \/ r = q /\ i \in Nat \ {0} /\ i + 1 \in DOMAIN W[q] /\ V[r][i] = W[q][i + 1]
             \/ r # q /\ i \in Nat /\ i \in DOMAIN W[r] /\ V[r][i] = W[r][i]
    <2>1. CASE r = q
        BY <1>2, <1>3, <1>4, <2>1
    <2>2. CASE r # q
        <3>1. V[r] = W[r] /\ W[r] \in Seq(Sound)
            BY <1>3, <2>2 DEF IsWay
        <3> QED
            BY <1>4, <2>2, <3>1
    <2> QED
        BY <2>1, <2>2
<1>5. ASSUME NEW s \in Places, NEW j \in DOMAIN W[s]
      PROVE  W[s][j] = Head(W[q]) \/ \E r \in Places : \E i \in DOMAIN V[r] : V[r][i] = W[s][j]
    <2>1. CASE s = q
        BY <1>1, <1>2, <1>3, <1>5, <2>1
    <2>2. CASE s # q
        BY <1>3, <1>5, <2>2
    <2> QED
        BY <2>1, <2>2
<1>6. Head(W[q]) \in On(W)
    BY <1>1, <1>2 DEF On, Range
<1>7. On(V) \subseteq On(W)
    BY <1>1, <1>4 DEF On, Range
<1>8. On(W) \subseteq On(V) \cup {Head(W[q])}
    BY <1>1, <1>5 DEF On, Range
<1>9. ASSUME NEW R, Sorted(W, R)
      PROVE  /\ Sorted(V, R)
             /\ \A f \in On(V) : <<f, Head(W[q])>> \in R \/ <<Head(W[q]), f>> \in R
    <2>1. \A r, s \in Places : \A i \in DOMAIN W[r], j \in DOMAIN W[s] :
            r < s \/ (r = s /\ i < j) => <<W[r][i], W[s][j]>> \in R
        BY <1>1, <1>9 DEF Sorted
    <2>2. ASSUME NEW r \in Places, NEW s \in Places, NEW i \in DOMAIN V[r], NEW j \in DOMAIN V[s],
                 r < s \/ (r = s /\ i < j)
          PROVE  <<V[r][i], V[s][j]>> \in R
        <3>1. CASE r = q /\ s = q
            <4>1. /\ i + 1 \in DOMAIN W[q] /\ V[r][i] = W[q][i + 1] /\ i \in Nat
                  /\ j + 1 \in DOMAIN W[q] /\ V[s][j] = W[q][j + 1] /\ j \in Nat
                BY <1>4, <3>1
            <4>2. i + 1 < j + 1
                BY <1>0, <2>2, <3>1, <4>1
            <4> QED
                BY <1>1, <2>1, <4>1, <4>2
        <3>2. CASE r = q /\ s # q
            BY <1>1, <1>4, <2>1, <2>2, <3>2
        <3>3. CASE r # q /\ s = q
            <4>1. /\ i \in DOMAIN W[r] /\ V[r][i] = W[r][i] /\ r < q
                  /\ j + 1 \in DOMAIN W[q] /\ V[s][j] = W[q][j + 1]
                BY <1>4, <2>2, <3>3
            <4> QED
                BY <1>1, <2>1, <4>1
        <3>4. CASE r # q /\ s # q
            BY <1>4, <2>1, <2>2, <3>4
        <3> QED
            BY <3>1, <3>2, <3>3, <3>4
    <2>3. ASSUME NEW r \in Places, NEW i \in DOMAIN V[r]
          PROVE  <<V[r][i], W[q][1]>> \in R \/ <<W[q][1], V[r][i]>> \in R
        <3>1. CASE r = q
            <4>1. i + 1 \in DOMAIN W[q] /\ V[r][i] = W[q][i + 1] /\ 1 < i + 1
                BY <1>4, <3>1
            <4> QED
                BY <1>1, <1>2, <2>1, <4>1
        <3>2. CASE r # q
            <4>1. r < q \/ q < r
                BY <1>0, <1>1, <3>2
            <4> QED
                BY <1>1, <1>2, <1>4, <2>1, <3>2, <4>1
        <3> QED
            BY <3>1, <3>2
    <2>4. \A f \in On(V) : <<f, Head(W[q])>> \in R \/ <<Head(W[q]), f>> \in R
        BY <1>2, <2>3 DEF On, Range
    <2> QED
        BY <2>2, <2>4 DEF Sorted
<1>10. ASSUME NEW m \in Places, NEW S, Behind(W, m, S)
       PROVE  Behind(V, m, S)
    <2> SUFFICES ASSUME NEW r \in m .. 11, NEW i \in DOMAIN V[r] PROVE V[r][i] \in S
        BY DEF Behind
    <2>1. r \in Places
        BY DEF Places
    <2> QED
        BY <1>4, <1>10, <2>1 DEF Behind
<1> QED
    BY <1>2, <1>6, <1>7, <1>8, <1>9, <1>10

LEMMA EnterFacts ==
    ASSUME NEW W, NEW V, IsWay(W), NEW f \in Sound, Enter(W, V, f), DOMAIN V = Places
    PROVE  /\ On(V) = On(W) \cup {f}
           /\ \A R : Sorted(W, R) /\ (\A g \in On(W) : <<g, f>> \in R) => Sorted(V, R)
           /\ \A m \in Places : \A S : Behind(W, m, S) /\ f \in S => Behind(V, m, S)
<1>0. Places \subseteq Nat /\ 11 \in Places /\ \A r \in Places : r <= 11
    BY DEF Places
<1>1. W[11] \in Seq(Sound) /\ DOMAIN W = Places
    BY <1>0 DEF IsWay
<1> DEFINE n == Len(W[11]) + 1
<1>2. /\ n \in DOMAIN V[11] /\ V[11][n] = f /\ DOMAIN V[11] = DOMAIN W[11] \cup {n} /\ n \in Nat
      /\ \A i \in DOMAIN W[11] : i < n /\ i \in Nat /\ V[11][i] = W[11][i]
    BY <1>1, AppendIs DEF Enter
<1>3. \A r \in Places : r # 11 => V[r] = W[r]
    BY DEF Enter
<1> HIDE DEF n
<1>4. ASSUME NEW r \in Places, NEW i \in DOMAIN V[r]
      PROVE  (r = 11 /\ i = n /\ V[r][i] = f) \/ (i \in DOMAIN W[r] /\ V[r][i] = W[r][i])
    <2>1. CASE r = 11
        BY <1>2, <1>4, <2>1
    <2>2. CASE r # 11
        BY <1>3, <1>4, <2>2
    <2> QED
        BY <2>1, <2>2
<1>5. ASSUME NEW r \in Places, NEW i \in DOMAIN W[r]
      PROVE  i \in DOMAIN V[r] /\ V[r][i] = W[r][i] /\ (r = 11 => i < n /\ i \in Nat)
    <2>1. CASE r = 11
        BY <1>2, <1>5, <2>1
    <2>2. CASE r # 11
        BY <1>3, <1>5, <2>2
    <2> QED
        BY <2>1, <2>2
<1>6. On(V) = On(W) \cup {f}
    <2>1. On(V) \subseteq On(W) \cup {f}
        BY <1>1, <1>4 DEF On, Range
    <2>2. On(W) \subseteq On(V)
        BY <1>1, <1>5 DEF On, Range
    <2>3. f \in On(V)
        BY <1>0, <1>2 DEF On, Range
    <2> QED
        BY <2>1, <2>2, <2>3
<1>7. ASSUME NEW R, Sorted(W, R), \A g \in On(W) : <<g, f>> \in R
      PROVE  Sorted(V, R)
    <2>1. \A r, s \in Places : \A i \in DOMAIN W[r], j \in DOMAIN W[s] :
            r < s \/ (r = s /\ i < j) => <<W[r][i], W[s][j]>> \in R
        BY <1>1, <1>7 DEF Sorted
    <2>2. ASSUME NEW r \in Places, NEW s \in Places, NEW i \in DOMAIN V[r], NEW j \in DOMAIN V[s],
                 r < s \/ (r = s /\ i < j)
          PROVE  <<V[r][i], V[s][j]>> \in R
        <3>1. CASE r = 11 /\ i = n
            <4>1. s = 11
                BY <1>0, <2>2, <3>1
            <4>2. r = s /\ i < j
                BY <1>0, <2>2, <3>1, <4>1
            <4>3. j = n \/ (j \in DOMAIN W[11] /\ j < n /\ j \in Nat)
                BY <1>0, <1>4, <1>5, <4>1
            <4> QED
                BY <1>2, <3>1, <4>2, <4>3
        <3>2. CASE i \in DOMAIN W[r] /\ V[r][i] = W[r][i]
            <4>1. CASE s = 11 /\ j = n /\ V[s][j] = f
                <5>1. W[r][i] \in On(W)
                    BY <1>1, <3>2 DEF On, Range
                <5> QED
                    BY <1>7, <3>2, <4>1, <5>1
            <4>2. CASE j \in DOMAIN W[s] /\ V[s][j] = W[s][j]
                BY <2>1, <2>2, <3>2, <4>2
            <4> QED
                BY <1>4, <4>1, <4>2
        <3> QED
            BY <1>4, <3>1, <3>2
    <2> QED
        BY <2>2 DEF Sorted
<1>8. ASSUME NEW m \in Places, NEW S, Behind(W, m, S), f \in S
      PROVE  Behind(V, m, S)
    <2> SUFFICES ASSUME NEW r \in m .. 11, NEW i \in DOMAIN V[r] PROVE V[r][i] \in S
        BY DEF Behind
    <2>1. r \in Places
        BY DEF Places
    <2> QED
        BY <1>4, <1>8, <2>1 DEF Behind
<1> QED
    BY <1>6, <1>7, <1>8

LEMMA ClearFacts ==
    ASSUME NEW W, NEW V, IsWay(W), Clear(W, V), DOMAIN V = Places
    PROVE  /\ On(V) \subseteq On(W)
           /\ \A R : Sorted(W, R) => Sorted(V, R)
           /\ \A m \in Places : \A S : Behind(W, m, S) => Behind(V, m, S)
<1>1. DOMAIN W = Places
    BY DEF IsWay
<1>2. ASSUME NEW r \in Places, NEW i \in DOMAIN V[r]
      PROVE  V[r] = W[r]
    <2>1. V[r] # <<>>
        BY <1>2
    <2> QED
        BY <2>1 DEF Clear
<1>3. On(V) \subseteq On(W)
    BY <1>1, <1>2 DEF On, Range
<1>4. ASSUME NEW R, Sorted(W, R) PROVE Sorted(V, R)
    BY <1>1, <1>2, <1>4 DEF Sorted
<1>5. ASSUME NEW m \in Places, NEW S, Behind(W, m, S) PROVE Behind(V, m, S)
    <2> SUFFICES ASSUME NEW r \in m .. 11, NEW i \in DOMAIN V[r] PROVE V[r][i] \in S
        BY DEF Behind
    <2>1. r \in Places
        BY DEF Places
    <2> QED
        BY <1>2, <1>5, <2>1 DEF Behind
<1> QED
    BY <1>3, <1>4, <1>5

-----------------------------------------------------------------------------
(***************************************************************************)
(* The steps: what the user's goroutine does to the rest, and what a       *)
(* delivery does.                                                          *)
(***************************************************************************)
\* A step of the user's goroutine as the other goroutines see it
Still == UNCHANGED <<demuxVars, fromTNC, tcp, link, lag, out, remote>>
Asks  == \E l \in Level : \E c \in At[l] \cap Once : NextFrame(l, c, u') /\ UNCHANGED tncVars
Takes == \E l \in Level : \E c \in At[l] \ Once : Frames(l, c, u') /\ UNCHANGED tncVars
Starts(c) ==
    /\ u = IF c = "port" THEN "newPort2" ELSE "newConn1"
    /\ chain' = IF "nil" \in over THEN chain ELSE [chain EXCEPT ![c] = F("idle")]
    /\ UNCHANGED <<in, closed, req, clients, run, resp, over, cancelled, teardown, tncVars>>
Forgets == \E l \in Level : \E c \in At[l] \cap Once : Forget(l, c) /\ UNCHANGED tncVars
Sends == /\ tcp /\ ~closed["tnc"] /\ UNCHANGED <<demuxVars, tcp, remote>>
         /\ \E f : f.k \in {"g", "X", "C", "D", "Y", "d"} /\ TNCTakes(f)
Shuts(l) ==
    /\ Free(l) /\ closed' = [closed EXCEPT ![l] = TRUE]
    /\ UNCHANGED <<in, req, clients, run, chain, resp, over, cancelled, teardown,
                   fromTNC, link, lag, out, remote>>
    /\ tcp' = IF l = "tnc" THEN FALSE ELSE tcp
Called == /\ resp' = [resp EXCEPT !["connects"] = <<>>]
          /\ UNCHANGED <<in, closed, req, clients, run, chain, over, cancelled, teardown, tncVars>>
Waits  == /\ teardown' = "wait"
          /\ UNCHANGED <<in, closed, req, clients, run, chain, resp, over, cancelled, tncVars>>

Shape ==
    /\ UNCHANGED <<inbound, got, lost, missed, remote>>
    /\ \/ Still \/ Asks \/ Takes \/ Forgets \/ Sends \/ Called \/ Waits
       \/ \E c \in Chains : Starts(c)
       \/ Shuts("tnc") \/ Shuts("conn")

LEMMA AtIs ==
    /\ At["tnc"] = {"port"} /\ At["port"] = {"conn", "caps", "reg", "connects"}
    /\ At["conn"] = {"disc", "data", "ack", "y", "end"}
    /\ \A l \in Level : At[l] \subseteq Client
BY DEF At, Level, Client, Chains

LEMMA ShapeNewPort == NewPort => Shape
<1>1. "tnc" \in Level /\ "port" \in At["tnc"] \ Once /\ "port" \in Chains
    BY AtIs DEF Level, Once, Chains
<1> QED
    BY <1>1 DEF NewPort, Chain, Shape, Still, Takes, Starts, Frames, Rest, tncVars, demuxVars

LEMMA ShapeCapabilities == GetCapabilities => Shape
<1>1. "port" \in Level /\ "caps" \in At["port"] \cap Once
    BY AtIs DEF Level, Once
<1>2. F("g").k \in {"g", "X", "C", "D", "Y", "d"}
    BY DEF F
<1>3. ASSUME Send(F("g"), "capsWait", "reg"), UNCHANGED <<demuxVars, TncOnly, Rest>> PROVE Shape
    BY <1>2, <1>3 DEF Send, Shape, Still, Sends, Rest, TncOnly, tncVars
<1> QED
    BY <1>1, <1>3 DEF GetCapabilities, Shape, Asks, Forgets, NextFrame, Rest, tncVars

LEMMA ShapeRegister == Register => Shape
<1>1. "port" \in Level /\ "reg" \in At["port"] \cap Once
    BY AtIs DEF Level, Once
<1>2. F("X").k \in {"g", "X", "C", "D", "Y", "d"}
    BY DEF F
<1>3. ASSUME Send(F("X"), "regWait", "regFailed"), UNCHANGED <<demuxVars, TncOnly, Rest>> PROVE Shape
    BY <1>2, <1>3 DEF Send, Shape, Still, Sends, Rest, TncOnly, tncVars
<1>4. ASSUME Forget("port", "reg"), UNCHANGED <<tncVars, inbound, got, lost, missed>> PROVE Shape
    BY <1>1, <1>4 DEF Shape, Forgets, tncVars
<1>5. ASSUME NextFrame("port", "reg", "reg1"), UNCHANGED <<tncVars, Rest>> PROVE Shape
    BY <1>1, <1>5 DEF Shape, Asks, NextFrame, tncVars, Rest
<1>6. ASSUME Free("tnc"), closed' = [closed EXCEPT !["tnc"] = TRUE], tcp' = FALSE,
             UNCHANGED <<in, req, clients, run, chain, resp, over, cancelled, teardown,
                         fromTNC, link, lag, out, remote, Rest>>
      PROVE  Shape
    BY <1>6 DEF Shape, Shuts, Rest
<1>7. ASSUME UNCHANGED <<demuxVars, tncVars, inbound, got, lost, missed>> PROVE Shape
    BY <1>7 DEF Shape, Still, tncVars
<1> QED
    BY <1>3, <1>4, <1>5, <1>6, <1>7 DEF Register

LEMMA ShapeInbound == HandleInbound => Shape
<1>1. "port" \in Level /\ "connects" \in At["port"] \ Once
    BY AtIs DEF Level, Once
<1>2. ASSUME Frames("port", "connects", "listen"), UNCHANGED <<tncVars, Rest>> PROVE Shape
    BY <1>1, <1>2 DEF Shape, Takes, Frames, tncVars, Rest
<1>3. ASSUME UNCHANGED <<demuxVars, tncVars, inbound, got, lost, missed>> PROVE Shape
    BY <1>3 DEF Shape, Still, tncVars
<1>4. ASSUME UNCHANGED Rest PROVE UNCHANGED <<inbound, got, lost, missed>>
    BY <1>4 DEF Rest
<1>5. ASSUME resp' = [resp EXCEPT !["connects"] = <<>>],
             UNCHANGED <<in, closed, req, clients, run, chain, over, cancelled, teardown, tncVars, Rest>>
      PROVE  Shape
    BY <1>5 DEF Shape, Called, Rest, tncVars
<1> QED
    BY <1>2, <1>3, <1>4, <1>5 DEF HandleInbound

LEMMA ShapeNewConn == NewConn => Shape
<1>1. /\ "port" \in Level /\ "conn" \in At["port"] \ Once /\ "conn" \in Chains
      /\ "conn" \in Level /\ "disc" \in At["conn"] \cap Once /\ "data" \in At["conn"] \ Once
    BY AtIs DEF Level, Once, Chains
<1>2. ASSUME UNCHANGED <<demuxVars, tncVars, Rest>> PROVE Shape
    BY <1>2 DEF Shape, Still, tncVars, Rest
<1>3. ASSUME Chain("port", "conn", "newConn", "newConn0", "newConn1", "newConn2") PROVE Shape
    BY <1>1, <1>3 DEF Chain, Shape, Still, Takes, Starts, Frames, Rest, tncVars, demuxVars
<1>4. ASSUME NextFrame("conn", "disc", "newConn3"), UNCHANGED <<tncVars, Rest>> PROVE Shape
    BY <1>1, <1>4 DEF Shape, Asks, NextFrame, tncVars, Rest
<1>5. ASSUME Frames("conn", "data", "newConn4"), UNCHANGED <<tncVars, Rest>> PROVE Shape
    BY <1>1, <1>5 DEF Shape, Takes, Frames, tncVars, Rest
<1>6. ASSUME teardown' = "wait",
             UNCHANGED <<in, closed, req, clients, run, chain, resp, over, cancelled, tncVars, Rest>>
      PROVE  Shape
    BY <1>6 DEF Shape, Waits, tncVars, Rest
<1> QED
    BY <1>2, <1>3, <1>4, <1>5, <1>6 DEF NewConn

LEMMA ShapeConnect == Connect => Shape
<1>1. "conn" \in Level /\ "ack" \in At["conn"] \cap Once
    BY AtIs DEF Level, Once
<1>2. /\ F("C").k \in {"g", "X", "C", "D", "Y", "d"}
      /\ F("d").k \in {"g", "X", "C", "D", "Y", "d"}
    BY DEF F
<1>3. ASSUME Send(F("C"), "dialWait", "dialFailed"), UNCHANGED <<demuxVars, TncOnly, Rest>> PROVE Shape
    BY <1>2, <1>3 DEF Send, Shape, Still, Sends, Rest, TncOnly, tncVars
<1>4. ASSUME Send(F("d"), "dialWait", "dialWait"),
             UNCHANGED <<demuxVars, TncOnly, inbound, got, lost, missed>>
      PROVE  Shape
    BY <1>2, <1>4 DEF Send, Shape, Still, Sends, TncOnly, tncVars
<1>5. ASSUME NextFrame("conn", "ack", "dial1"), UNCHANGED <<tncVars, Rest>> PROVE Shape
    BY <1>1, <1>5 DEF Shape, Asks, NextFrame, tncVars, Rest
<1>6. ASSUME Forget("conn", "ack"), UNCHANGED <<tncVars, inbound, got, lost, missed>> PROVE Shape
    BY <1>1, <1>6 DEF Shape, Forgets, tncVars
<1>7. ASSUME Free("conn"), closed' = [closed EXCEPT !["conn"] = TRUE],
             UNCHANGED <<in, req, clients, run, chain, resp, over, cancelled, teardown, tncVars, Rest>>
      PROVE  Shape
    BY <1>7 DEF Shape, Shuts, Rest, tncVars
<1> QED
    BY <1>3, <1>4, <1>5, <1>6, <1>7 DEF Connect

LEMMA ShapeCount ==
    AskOutstanding \/ Outstanding \/ AskTimeout \/ FlushTimeout \/ SendData => Shape
<1>1. "conn" \in Level /\ "y" \in At["conn"] \cap Once
    BY AtIs DEF Level, Once
<1>2. F("Y").k \in {"g", "X", "C", "D", "Y", "d"}
    BY DEF F
<1>3. ASSUME UNCHANGED <<demuxVars, tncVars, inbound, got, lost, missed>> PROVE Shape
    BY <1>3 DEF Shape, Still, tncVars
<1>4. ASSUME NextFrame("conn", "y", "ask1"), UNCHANGED <<tncVars, Rest>> PROVE Shape
    BY <1>1, <1>4 DEF Shape, Asks, NextFrame, tncVars, Rest
<1>5. ASSUME Send(F("Y"), "askWait", "broken"), UNCHANGED <<demuxVars, TncOnly, inbound, got, lost, missed>>
      PROVE  Shape
    BY <1>2, <1>5 DEF Send, Shape, Still, Sends, TncOnly, tncVars
<1>6. ASSUME Forget("conn", "y"), UNCHANGED <<tncVars, inbound, got, lost, missed>> PROVE Shape
    BY <1>1, <1>6 DEF Shape, Forgets, tncVars
<1>7. AskOutstanding => Shape
    <2>1. ASSUME UNCHANGED <<fromTNC, link, lag, out>>, UNCHANGED <<demuxVars, TncOnly, inbound, got, lost, missed>>
          PROVE  Shape
        BY <1>3, <2>1 DEF TncOnly, tncVars
    <2> QED
        BY <1>3, <1>4, <1>5, <2>1 DEF AskOutstanding
<1>8. SendData => Shape
    <2>1. [k |-> "D", n |-> writes + 1].k \in {"g", "X", "C", "D", "Y", "d"}
        OBVIOUS
    <2> QED
        BY <2>1 DEF SendData, Send, Shape, Still, Sends, TncOnly, tncVars
<1> QED
    BY <1>6, <1>7, <1>8 DEF Outstanding, AskTimeout, FlushTimeout

LEMMA ShapeClose == Write \/ Flush \/ CallClose \/ Close => Shape
<1>1. "conn" \in Level /\ "end" \in At["conn"] \cap Once
    BY AtIs DEF Level, Once
<1>2. F("d").k \in {"g", "X", "C", "D", "Y", "d"}
    BY DEF F
<1>3. ASSUME UNCHANGED <<demuxVars, fromTNC, tcp, link, lag, out, remote, inbound, got, lost, missed>> PROVE Shape
    BY <1>3 DEF Shape, Still
<1>4. ASSUME NextFrame("conn", "end", "end1"), UNCHANGED <<tncVars, Rest>> PROVE Shape
    BY <1>1, <1>4 DEF Shape, Asks, NextFrame, tncVars, Rest
<1>5. ASSUME Send(F("d"), "endWait", "closeConn"), UNCHANGED <<demuxVars, TncOnly, Rest>> PROVE Shape
    BY <1>2, <1>5 DEF Send, Shape, Still, Sends, TncOnly, tncVars, Rest
<1>6. ASSUME Free("conn"), closed' = [closed EXCEPT !["conn"] = TRUE],
             UNCHANGED <<in, req, clients, run, chain, resp, over, cancelled, teardown, tncVars, Rest>>
      PROVE  Shape
    BY <1>6 DEF Shape, Shuts, Rest, tncVars
<1>7. ASSUME UNCHANGED Rest PROVE UNCHANGED <<inbound, got, lost, missed>>
    BY <1>7 DEF Rest
<1>8. Write \/ Flush \/ CallClose => Shape
    BY <1>3, <1>7 DEF Write, Flush, CallClose, tncVars
<1> QED
    BY <1>3, <1>4, <1>5, <1>6, <1>7, <1>8 DEF Close, tncVars

LEMMA UserShape == UserSteps => Shape
BY ShapeNewPort, ShapeCapabilities, ShapeRegister, ShapeInbound, ShapeNewConn, ShapeConnect,
   ShapeCount, ShapeClose DEF UserSteps

LEMMA ConcatIs ==
    ASSUME NEW S, NEW a \in Seq(S), NEW b \in Seq(S)
    PROVE  a \o b \in Seq(S) /\ Len(a \o b) = Len(a) + Len(b)
OBVIOUS

\* A client taken out of the slice: the others stay
LEMMA DropIs ==
    ASSUME NEW S, NEW s \in Seq(S), NEW c
    PROVE  /\ Drop(s, c) \in Seq(S) /\ Range(Drop(s, c)) \subseteq Range(s)
           /\ \A x \in Range(s) : x # c => x \in Range(Drop(s, c))
<1>1. CASE \E i \in DOMAIN s : s[i] = c
    <2>1. PICK i \in DOMAIN s : s[i] = c /\ Drop(s, c) = RemoveAt(s, i)
        BY <1>1 DEF Drop
    <2> DEFINE n == Len(s)
               a == SubSeq(s, 1, i - 1)
               b == SubSeq(s, i + 1, n)
    <2>2. i \in 1 .. n /\ n \in Nat /\ DOMAIN s = 1 .. n
        OBVIOUS
    <2>3. /\ a \in Seq(S) /\ Len(a) = i - 1 /\ \A j \in 1 .. i - 1 : a[j] = s[j]
        BY <2>2
    <2>4. b \in Seq(S)
        BY <2>2
    <2>5. Len(b) = n - i
        BY <2>2
    <2>6. \A j \in 1 .. n - i : b[j] = s[j + i]
        BY <2>2
    <2> HIDE DEF a, b, n
    <2>7. Drop(s, c) = a \o b
        BY <2>1 DEF RemoveAt, a, b, n
    <2>8. /\ a \o b \in Seq(S) /\ DOMAIN (a \o b) = 1 .. n - 1
          /\ \A j \in 1 .. i - 1 : (a \o b)[j] = s[j]
        <3>1. a \o b \in Seq(S) /\ Len(a \o b) = Len(a) + Len(b)
            BY <2>3, <2>4, ConcatIs
        <3>2. Len(a \o b) = n - 1
            BY <2>2, <2>3, <2>5, <3>1
        <3>3. DOMAIN (a \o b) = 1 .. n - 1
            BY <3>1, <3>2
        <3>4. \A j \in 1 .. i - 1 : (a \o b)[j] = a[j]
            BY <2>2, <2>3, <2>4, <2>5
        <3> QED
            BY <2>3, <3>1, <3>3, <3>4
    <2>9. \A j \in i .. n - 1 : (a \o b)[j] = s[j + 1]
        <3> SUFFICES ASSUME NEW j \in i .. n - 1 PROVE (a \o b)[j] = s[j + 1]
            OBVIOUS
        <3>1. j - (i - 1) \in 1 .. n - i /\ j > i - 1 /\ (j - (i - 1)) + i = j + 1
            BY <2>2
        <3>2. (a \o b)[j] = b[j - (i - 1)]
            BY <2>2, <2>3, <2>4, <2>5, <3>1
        <3> QED
            BY <2>6, <3>1, <3>2
    <2> DEFINE d == a \o b
    <2> HIDE DEF d
    <2>10. DOMAIN d = 1 .. n - 1 /\ \A j \in 1 .. n - 1 : (j < i /\ d[j] = s[j]) \/ (j >= i /\ d[j] = s[j + 1])
        BY <2>2, <2>8, <2>9 DEF d
    <2>11. Range(d) \subseteq Range(s)
        <3> SUFFICES ASSUME NEW j \in 1 .. n - 1 PROVE d[j] \in Range(s)
            BY <2>10 DEF Range
        <3>1. j \in DOMAIN s /\ j + 1 \in DOMAIN s
            BY <2>2
        <3> QED
            BY <2>10, <3>1 DEF Range
    <2>12. ASSUME NEW x \in Range(s), x # c PROVE x \in Range(d)
        <3>1. PICK j \in DOMAIN s : x = s[j]
            BY <2>12 DEF Range
        <3>2. CASE j < i
            <4>1. j \in 1 .. n - 1 /\ ~(j >= i)
                BY <2>2, <3>2
            <4> QED
                BY <2>10, <3>1, <4>1 DEF Range
        <3>3. CASE j > i
            <4>1. j - 1 \in 1 .. n - 1 /\ ~(j - 1 < i) /\ (j - 1) + 1 = j
                BY <2>2, <3>3
            <4>2. d[j - 1] = s[j]
                BY <2>10, <4>1
            <4> QED
                BY <2>10, <3>1, <4>1, <4>2 DEF Range
        <3> QED
            BY <2>1, <2>2, <2>12, <3>1, <3>2, <3>3
    <2> QED
        BY <2>7, <2>8, <2>11, <2>12 DEF d
<1>2. CASE ~\E i \in DOMAIN s : s[i] = c
    BY <1>2 DEF Drop
<1> QED
    BY <1>1, <1>2

LEMMA FirstIs ==
    ASSUME NEW l \in Level, clients \in [Level -> Seq(Client)], NEW T, T # {}, T \subseteq Range(clients[l])
    PROVE  First(l, T) \in T
<1> DEFINE s == clients[l]
           I == {i \in DOMAIN s : s[i] \in T}
<1>1. I \in SUBSET Nat /\ I # {} /\ DOMAIN s \subseteq Nat \ {0}
    BY DEF Range
<1>2. PICK i \in I : \A j \in I : i <= j
    <2> HIDE DEF I
    <2> QED
        BY <1>1, Least
<1>3. \A j \in 1 .. i - 1 : s[j] \notin T
    <2> SUFFICES ASSUME NEW j \in 1 .. i - 1 PROVE s[j] \notin T
        OBVIOUS
    <2>1. j \in DOMAIN s /\ ~(i <= j)
        BY <1>1, <1>2
    <2> QED
        BY <1>2, <2>1
<1> DEFINE P(x) == s[x] \in T /\ \A j \in 1 .. x - 1 : s[j] \notin T
<1>4. \E x \in DOMAIN s : P(x)
    BY <1>2, <1>3
<1>5. s[CHOOSE x \in DOMAIN s : P(x)] \in T
    BY <1>4
<1> QED
    BY <1>5 DEF First

\* The clients that want the frame f
Wanting(l, f) == {c \in Range(clients[l]) : f.k \in Kinds[c]}

\* The frame f goes to client c of those that wait for it, or c is taken off
\* the list
Gets(c, f) ==
    /\ Room(c)
    /\ IF c \in Chains
       THEN chain' = [chain EXCEPT ![c] = f] /\ UNCHANGED resp
       ELSE resp' = [resp EXCEPT ![c] = Append(@, f)] /\ UNCHANGED chain
Given(l, f, T, c) ==
    /\ c \in T
    /\ \/ Gets(c, f) /\ c \in Once /\ over' = over \cup {c} /\ clients' = [clients EXCEPT ![l] = Drop(@, c)]
          /\ UNCHANGED lost
       \/ Gets(c, f) /\ c \notin Once /\ UNCHANGED <<over, clients, lost>>
       \/ /\ c \in cancelled
          /\ over' = over \cup {c} /\ clients' = [clients EXCEPT ![l] = Drop(@, c)]
          /\ lost' = lost \cup Told(<<f>>)
          /\ UNCHANGED <<chain, resp>>
    /\ run' = [run EXCEPT ![l].todo = T \ {c}, ![l].f = IF T = {c} THEN None ELSE f]
    /\ UNCHANGED missed

LEMMA DeliverIs ==
    ASSUME TypeInv, NEW l \in Level, NEW f, NEW T, T # {}, T \subseteq Range(clients[l]), Deliver(l, f, T)
    PROVE  \E c \in T : Given(l, f, T, c)
<1> DEFINE c == First(l, T)
<1>1. c \in T
    BY FirstIs DEF TypeInv
<1> HIDE DEF c
<1>2. Given(l, f, T, c)
    BY <1>1 DEF Deliver, Given, Gets, c
<1> QED
    BY <1>1, <1>2

LEMMA ToldIs ==
    ASSUME NEW f \in Sound
    PROVE  Told(<<f>>) = IF f.k \in {"D", "d"} THEN {f.n} ELSE {}
BY DEF Told

LEMMA ToldNat == \A f \in Sound : Told(<<f>>) \subseteq Nat
BY ToldIs DEF Sound, Frame

LEMMA SoundIs ==
    /\ \A f \in Sound : f \in Frame /\ f.n \in Nat /\ f.k \in {"g", "X", "C", "c", "D", "Y", "d"}
    /\ \A f \in Sound : (f.k = "D" => f.n > 0) /\ (f.k = "d" => f.n = 0)
    /\ \A f \in Sound : f \notin {F("off"), F("idle"), F("exited"), None}
    /\ {F("off"), F("idle"), F("exited"), None} \cap Frame = {}
BY DEF Sound, Frame, F, None

RunType == [Level -> [f : Sound \cup {None}, todo : SUBSET Client, on : BOOLEAN]]
RunNow(l, T, f) == run' = [run EXCEPT ![l].todo = T, ![l].f = f]
RunIs(l, T, f) ==
    /\ run' \in RunType /\ run'[l].todo = T /\ run'[l].f = f /\ run'[l].on = run[l].on
    /\ \A m \in Level : m # l => run'[m] = run[m]
LEMMA RunSet ==
    ASSUME NEW l \in Level, NEW T, NEW f, RunNow(l, T, f), run \in RunType, T \subseteq Client,
           f \in Sound \cup {None}
    PROVE  RunIs(l, T, f)
<1> DEFINE e == [run[l] EXCEPT !.todo = T]
           d == [e EXCEPT !.f = f]
<1>1. run[l] \in [f : Sound \cup {None}, todo : SUBSET Client, on : BOOLEAN]
    BY DEF RunType
<1>2. /\ d \in [f : Sound \cup {None}, todo : SUBSET Client, on : BOOLEAN]
      /\ d.todo = T /\ d.f = f /\ d.on = run[l].on
    BY <1>1
<1>3. run' = [run EXCEPT ![l] = d]
    BY DEF RunType, RunNow
<1> HIDE DEF d
<1> QED
    BY <1>2, <1>3 DEF RunType, RunIs

\* What a delivery leaves of BaseInv to show
Handed(l, f, T, c) ==
    /\ run' \in RunType
    /\ run'[l].todo = T \ {c} /\ (T # {c} => run'[l].f = f) /\ run'[l].on = run[l].on
    /\ \A m \in Level : m # l => run'[m] = run[m]
    /\ clients' \in [Level -> Seq(Client)]
    /\ \A m \in Level : m # l => clients'[m] = clients[m]
    /\ Range(clients'[l]) \subseteq Range(clients[l])
    /\ \A d \in Range(clients[l]) : d # c => d \in Range(clients'[l])
    /\ chain' \in [Chains -> Sound \cup {F("off"), F("idle"), F("exited")}]
    /\ \A d \in Chains : chain[d] = F("off") => chain'[d] = F("off")
    /\ resp' \in [Client -> Seq(Sound)]
    /\ lost \subseteq lost' /\ lost' \subseteq Nat

LEMMA GivenType ==
    ASSUME NEW l \in Level, NEW f \in Sound, NEW T, NEW c, BaseInv,
           Given(l, f, T, c), T \subseteq Wanting(l, f)
    PROVE  Handed(l, f, T, c)
<1>1. /\ clients \in [Level -> Seq(Client)] /\ run \in RunType /\ T \subseteq Client /\ c \in Client
      /\ chain \in [Chains -> Sound \cup {F("off"), F("idle"), F("exited")}]
      /\ resp \in [Client -> Seq(Sound)] /\ lost \subseteq Nat
    <2>1. Range(clients[l]) \subseteq Client
        BY AtIs DEF BaseInv, TypeInv
    <2> QED
        BY <2>1 DEF BaseInv, TypeInv, RunType, Given, Wanting
<1>2. /\ run' \in RunType
      /\ run'[l].todo = T \ {c} /\ (T # {c} => run'[l].f = f) /\ run'[l].on = run[l].on
      /\ \A m \in Level : m # l => run'[m] = run[m]
    <2> DEFINE U == T \ {c}
               g == IF T = {c} THEN None ELSE f
    <2>1. U \in SUBSET Client /\ g \in Sound \cup {None}
        BY <1>1
    <2>2. RunNow(l, U, g)
        BY DEF Given, RunNow
    <2> HIDE DEF U, g
    <2>3. RunIs(l, U, g)
        BY <1>1, <2>1, <2>2, RunSet
    <2> QED
        BY <2>3 DEF U, g, RunIs
<1>3. /\ clients' \in [Level -> Seq(Client)]
      /\ \A m \in Level : m # l => clients'[m] = clients[m]
      /\ Range(clients'[l]) \subseteq Range(clients[l])
      /\ \A d \in Range(clients[l]) : d # c => d \in Range(clients'[l])
    <2>1. clients[l] \in Seq(Client)
        BY <1>1
    <2>2. /\ Drop(clients[l], c) \in Seq(Client) /\ Range(Drop(clients[l], c)) \subseteq Range(clients[l])
          /\ \A x \in Range(clients[l]) : x # c => x \in Range(Drop(clients[l], c))
        BY <2>1, DropIs
    <2> QED
        BY <1>1, <2>2 DEF Given
<1>4. /\ chain' \in [Chains -> Sound \cup {F("off"), F("idle"), F("exited")}]
      /\ \A d \in Chains : chain[d] = F("off") => chain'[d] = F("off")
    <2>1. F("off") # F("idle")
        BY DEF F
    <2> QED
        BY <1>1, <2>1 DEF Given, Gets, Room
<1>5. resp' \in [Client -> Seq(Sound)]
    <2>1. Append(resp[c], f) \in Seq(Sound)
        BY <1>1, AppendIs
    <2> QED
        BY <1>1, <2>1 DEF Given, Gets
<1>6. lost \subseteq lost' /\ lost' \subseteq Nat
    <2>1. Told(<<f>>) \subseteq Nat
        BY ToldNat
    <2> QED
        BY <1>1, <2>1 DEF Given
<1> QED
    BY <1>2, <1>3, <1>4, <1>5, <1>6 DEF Handed

LEMMA AppendRange ==
    ASSUME NEW S, NEW s \in Seq(S), NEW x \in S
    PROVE  Range(Append(s, x)) = Range(s) \cup {x}
<1>1. /\ DOMAIN Append(s, x) = DOMAIN s \cup {Len(s) + 1} /\ Append(s, x)[Len(s) + 1] = x
      /\ \A i \in DOMAIN s : Append(s, x)[i] = s[i]
    BY AppendIs
<1> QED
    BY <1>1 DEF Range

LEMMA RunOff ==
    ASSUME run \in RunType, NEW l \in Level, run' = [run EXCEPT ![l].on = FALSE]
    PROVE  /\ run' \in RunType /\ run'[l].todo = run[l].todo /\ run'[l].f = run[l].f /\ run'[l].on = FALSE
           /\ \A m \in Level : m # l => run'[m] = run[m]
<1>1. run[l] \in [f : Sound \cup {None}, todo : SUBSET Client, on : BOOLEAN]
    BY DEF RunType
<1> QED
    BY <1>1 DEF RunType

LEMMA BaseRequest == ASSUME BaseInv, NEW l \in Level, RunRequest(l) PROVE BaseInv'
<1>1. clients[l] \in Seq(Client) /\ req[l] \in Client /\ req[l] \in At[l]
    BY AtIs DEF BaseInv, TypeInv, RunRequest
<1>2. /\ Append(clients[l], req[l]) \in Seq(Client)
      /\ Range(Append(clients[l], req[l])) = Range(clients[l]) \cup {req[l]}
    BY <1>1, AppendIs, AppendRange
<1>3. clients' \in [Level -> Seq(Client)] /\ \A m \in Level : Range(clients'[m]) \subseteq At[m]
    BY <1>1, <1>2 DEF BaseInv, TypeInv, RunRequest
<1>4. req' \in [Level -> Client \cup {"none"}] /\ \A m \in Level : req'[m] \in At[m] \cup {"none"}
    BY DEF BaseInv, TypeInv, RunRequest
<1>5. TypeInv'
    BY <1>3, <1>4 DEF BaseInv, TypeInv, RunRequest, tncVars, userVars
<1>6. TodoInv'
    <2> SUFFICES ASSUME NEW m \in Level, run'[m].todo # {}
                 PROVE  /\ run'[m].on /\ run'[m].f \in Sound
                        /\ run'[m].todo \subseteq {c \in Range(clients'[m]) : run'[m].f.k \in Kinds[c]}
        BY DEF TodoInv
    <2>1. run' = run /\ m # l
        BY DEF RunRequest
    <2>2. clients'[m] = clients[m]
        BY <2>1 DEF RunRequest, BaseInv, TypeInv
    <2> QED
        BY <2>1, <2>2 DEF BaseInv, TodoInv
<1>7. StartInv'
    BY DEF BaseInv, StartInv, RunRequest, userVars
<1> QED
    BY <1>5, <1>6, <1>7 DEF BaseInv

\* A demultiplexer that takes a frame from its channel or has one in hand
LEMMA BaseGiven ==
    ASSUME NEW l \in Level, NEW f \in Sound, NEW T, NEW c, BaseInv, run[l].on,
           Given(l, f, T, c), T \subseteq Wanting(l, f),
           in' \in [Level -> Seq(Sound)], UNCHANGED <<closed, req, tncVars, got, u>>
    PROVE  BaseInv'
<1>0. Handed(l, f, T, c)
    BY GivenType
<1>1. /\ run' \in RunType
      /\ run'[l].todo = T \ {c} /\ (T # {c} => run'[l].f = f) /\ run'[l].on = run[l].on
      /\ \A m \in Level : m # l => run'[m] = run[m]
      /\ clients' \in [Level -> Seq(Client)]
      /\ \A m \in Level : m # l => clients'[m] = clients[m]
      /\ Range(clients'[l]) \subseteq Range(clients[l])
      /\ \A d \in Range(clients[l]) : d # c => d \in Range(clients'[l])
      /\ chain' \in [Chains -> Sound \cup {F("off"), F("idle"), F("exited")}]
      /\ \A d \in Chains : chain[d] = F("off") => chain'[d] = F("off")
      /\ resp' \in [Client -> Seq(Sound)]
      /\ lost' \subseteq Nat
    BY <1>0 DEF Handed
<1>2. TypeInv'
    <2>1. \A m \in Level : Range(clients'[m]) \subseteq At[m]
        BY <1>1 DEF BaseInv, TypeInv
    <2> QED
        BY <1>1, <2>1 DEF BaseInv, TypeInv, tncVars, RunType
<1>3. TodoInv'
    <2> SUFFICES ASSUME NEW m \in Level, run'[m].todo # {}
                 PROVE  /\ run'[m].on /\ run'[m].f \in Sound
                        /\ run'[m].todo \subseteq {d \in Range(clients'[m]) : run'[m].f.k \in Kinds[d]}
        BY DEF TodoInv
    <2>1. CASE m = l
        <3>1. T # {c} /\ run'[l].f = f
            BY <1>1, <2>1
        <3> QED
            BY <1>1, <2>1, <3>1 DEF Wanting
    <2>2. CASE m # l
        <3>1. run'[m] = run[m] /\ clients'[m] = clients[m]
            BY <1>1, <2>2
        <3> QED
            BY <3>1 DEF BaseInv, TodoInv
    <2> QED
        BY <2>1, <2>2
<1>4. StartInv'
    <2>1. "port" \in Chains /\ "conn" \in Chains
        BY DEF Chains
    <2> QED
        BY <1>1, <2>1 DEF BaseInv, StartInv
<1> QED
    BY <1>2, <1>3, <1>4 DEF BaseInv

LEMMA InTail ==
    ASSUME BaseInv, NEW l \in Level, in[l] # <<>>, in' = [in EXCEPT ![l] = Tail(@)]
    PROVE  /\ Head(in[l]) \in Sound /\ in' \in [Level -> Seq(Sound)] /\ in'[l] = Tail(in[l])
           /\ \A m \in Level : m # l => in'[m] = in[m]
<1>1. in[l] \in Seq(Sound) /\ in \in [Level -> Seq(Sound)]
    BY DEF BaseInv, TypeInv
<1>2. Head(in[l]) \in Sound /\ Tail(in[l]) \in Seq(Sound)
    BY <1>1, TailIs
<1> QED
    BY <1>1, <1>2

\* The three things a demultiplexer does with the frame at the head of its
\* channel
Ignores(l) ==
    /\ Wanting(l, Head(in[l])) = {}
    /\ lost' = lost \cup Told(<<Head(in[l])>>) /\ missed' = missed \cup Told(<<Head(in[l])>>)
    /\ UNCHANGED <<run, chain, resp, over, clients>>
Holds(l) ==
    /\ Wanting(l, Head(in[l])) # {}
    /\ run' = [run EXCEPT ![l].todo = Wanting(l, Head(in[l])), ![l].f = Head(in[l])]
    /\ UNCHANGED <<lost, missed, chain, resp, over, clients>>
LEMMA TakeIs ==
    ASSUME BaseInv, NEW l \in Level, RunTake(l)
    PROVE  /\ run[l].on /\ run[l].todo = {} /\ in[l] # <<>> /\ in' = [in EXCEPT ![l] = Tail(@)]
           /\ UNCHANGED <<closed, req, cancelled, teardown, tncVars, u, op, expired, writes,
                          conn, got, eof, late, flushed, inbound>>
           /\ \/ Ignores(l) \/ Holds(l)
              \/ \E c : Given(l, Head(in[l]), Wanting(l, Head(in[l])), c)
<1> DEFINE f == Head(in[l])
           T == Wanting(l, f)
<1>1. T \subseteq Range(clients[l]) /\ TypeInv
    BY DEF Wanting, BaseInv
<1>2. ASSUME T # {}, Deliver(l, f, T) PROVE \E c : Given(l, f, T, c)
    <2> HIDE DEF f, T
    <2> QED
        BY <1>1, <1>2, DeliverIs
<1> QED
    BY <1>2 DEF RunTake, Wanting, Ignores, Holds

LEMMA BaseTake == ASSUME BaseInv, NEW l \in Level, RunTake(l) PROVE BaseInv'
<1> DEFINE f == Head(in[l])
           T == Wanting(l, f)
<1>1. /\ run[l].on /\ run[l].todo = {} /\ in[l] # <<>> /\ in' = [in EXCEPT ![l] = Tail(@)]
      /\ UNCHANGED <<closed, req, tncVars, u, got>>
    BY TakeIs
<1>2. /\ f \in Sound /\ in' \in [Level -> Seq(Sound)]
    BY <1>1, InTail
<1>3. CASE Ignores(l)
    <2>1. Told(<<f>>) \subseteq Nat
        BY <1>2, ToldNat
    <2> QED
        BY <1>1, <1>2, <1>3, <2>1 DEF Ignores, BaseInv, TypeInv, TodoInv, StartInv, tncVars
<1>4. CASE Holds(l)
    <2>1. T \in SUBSET Client
        <3>1. Range(clients[l]) \subseteq Client
            BY AtIs DEF BaseInv, TypeInv
        <3> QED
            BY <3>1 DEF Wanting
    <2>2. run \in RunType
        BY DEF BaseInv, TypeInv, RunType
    <2>3. RunNow(l, T, f)
        BY <1>4 DEF Holds, RunNow
    <2>4. T \subseteq {c \in Range(clients[l]) : f.k \in Kinds[c]}
        BY DEF Wanting
    <2> HIDE DEF f, T
    <2>5. /\ run' \in RunType /\ run'[l].todo = T /\ run'[l].f = f /\ run'[l].on = run[l].on
          /\ \A m \in Level : m # l => run'[m] = run[m]
        <3>1. RunIs(l, T, f)
            BY <1>2, <2>1, <2>2, <2>3, RunSet
        <3> QED
            BY <3>1 DEF RunIs
    <2>6. UNCHANGED <<lost, chain, resp, clients>>
        BY <1>4 DEF Holds
    <2>7. TypeInv'
        BY <1>1, <1>2, <2>5, <2>6 DEF BaseInv, TypeInv, tncVars, RunType
    <2>8. TodoInv'
        <3> SUFFICES ASSUME NEW m \in Level, run'[m].todo # {}
                     PROVE  /\ run'[m].on /\ run'[m].f \in Sound
                            /\ run'[m].todo \subseteq {d \in Range(clients[m]) : run'[m].f.k \in Kinds[d]}
            BY <2>6 DEF TodoInv
        <3>1. CASE m = l
            BY <1>1, <1>2, <2>4, <2>5, <3>1
        <3>2. CASE m # l
            BY <2>5, <3>2 DEF BaseInv, TodoInv
        <3> QED
            BY <3>1, <3>2
    <2> QED
        BY <1>1, <2>6, <2>7, <2>8 DEF BaseInv, StartInv
<1>5. ASSUME NEW c, Given(l, f, T, c) PROVE BaseInv'
    <2>1. T \subseteq Wanting(l, f)
        OBVIOUS
    <2> HIDE DEF f, T
    <2> QED
        BY <1>1, <1>2, <1>5, <2>1, BaseGiven
<1> QED
    BY <1>3, <1>4, <1>5, TakeIs

LEMMA BaseDeliver == ASSUME BaseInv, NEW l \in Level, RunDeliver(l) PROVE BaseInv'
<1> DEFINE f == run[l].f
           T == run[l].todo
<1>1. /\ run[l].on /\ f \in Sound /\ T # {} /\ T \subseteq Wanting(l, f) /\ T \subseteq Range(clients[l])
    BY DEF RunDeliver, BaseInv, TodoInv, Wanting
<1>2. Deliver(l, f, T) /\ in' \in [Level -> Seq(Sound)] /\ UNCHANGED <<closed, req, tncVars, got, u>> /\ TypeInv
    BY DEF RunDeliver, BaseInv, TypeInv
<1> HIDE DEF f, T
<1>3. PICK c : Given(l, f, T, c)
    BY <1>1, <1>2, DeliverIs
<1> QED
    BY <1>1, <1>2, <1>3, BaseGiven

LEMMA BaseExit == ASSUME BaseInv, NEW l \in Level, RunExit(l) PROVE BaseInv'
<1>1. run \in RunType /\ run' = [run EXCEPT ![l].on = FALSE]
    BY DEF BaseInv, TypeInv, RunType, RunExit
<1>2. /\ run' \in RunType /\ run'[l].todo = run[l].todo
      /\ \A m \in Level : m # l => run'[m] = run[m]
    BY <1>1, RunOff
<1>3. clients' \in [Level -> Seq(Client)] /\ \A m \in Level : Range(clients'[m]) \subseteq At[m]
    <2>1. <<>> \in Seq(Client) /\ Range(<<>>) = {}
        BY DEF Range
    <2> QED
        BY <2>1 DEF BaseInv, TypeInv, RunExit
<1>4. TypeInv'
    BY <1>2, <1>3 DEF BaseInv, TypeInv, RunExit, tncVars, userVars, RunType
<1>5. TodoInv'
    <2> SUFFICES ASSUME NEW m \in Level, run'[m].todo # {}
                 PROVE  /\ run'[m].on /\ run'[m].f \in Sound
                        /\ run'[m].todo \subseteq {d \in Range(clients'[m]) : run'[m].f.k \in Kinds[d]}
        BY DEF TodoInv
    <2>1. m # l
        BY <1>2 DEF RunExit
    <2>2. run'[m] = run[m] /\ clients'[m] = clients[m]
        BY <1>2, <2>1 DEF RunExit, BaseInv, TypeInv
    <2> QED
        BY <2>2 DEF BaseInv, TodoInv
<1> QED
    BY <1>4, <1>5 DEF BaseInv, StartInv, RunExit, userVars

\* What changes neither the demultiplexers' clients nor their hands
LEMMA BaseOutside ==
    ASSUME BaseInv, TypeInv', StartInv', UNCHANGED <<clients, run>>
    PROVE  BaseInv'
BY DEF BaseInv, TodoInv

LEMMA EnqueueIs ==
    ASSUME BaseInv, NEW l \in Level, NEW f \in Sound, Enqueue(l, f)
    PROVE  /\ in' \in [Level -> Seq(Sound)] /\ \A m \in Level : m # l => in'[m] = in[m]
           /\ lost' \subseteq Nat
           /\ \/ in[l] = <<>> /\ in'[l] = <<f>> /\ lost' = lost
              \/ in[l] # <<>> /\ in'[l] = in[l] /\ lost' = lost \cup Told(<<f>>)
<1>1. in[l] \in Seq(Sound) /\ in \in [Level -> Seq(Sound)] /\ lost \subseteq Nat /\ <<f>> \in Seq(Sound)
    BY DEF BaseInv, TypeInv
<1>2. Told(<<f>>) \subseteq Nat
    BY ToldNat
<1> QED
    BY <1>1, <1>2 DEF Enqueue

LEMMA BaseForward == ASSUME BaseInv, NEW c \in Chains, ChainForward(c) PROVE BaseInv'
<1>1. /\ chain \in [Chains -> Sound \cup {F("off"), F("idle"), F("exited")}] /\ lost \subseteq Nat
      /\ chain[c] \in Frame /\ c \in Level
    BY DEF BaseInv, TypeInv, ChainForward, Chains, Level
<1>2. chain[c] \in Sound
    BY <1>1, SoundIs
<1>3. /\ chain' \in [Chains -> Sound \cup {F("off"), F("idle"), F("exited")}]
      /\ chain[c] # F("off") /\ \A d \in Chains : d # c => chain'[d] = chain[d]
    BY <1>1, <1>2, SoundIs DEF ChainForward
<1>4. in' \in [Level -> Seq(Sound)] /\ lost' \subseteq Nat
    <2>1. CASE closed[c]
        <3>1. Told(<<chain[c]>>) \subseteq Nat
            BY <1>2, ToldNat
        <3> QED
            BY <1>1, <2>1, <3>1 DEF ChainForward, BaseInv, TypeInv
    <2>2. CASE ~closed[c]
        <3>1. Enqueue(c, chain[c])
            BY <2>2 DEF ChainForward
        <3> QED
            BY <1>1, <1>2, <3>1, EnqueueIs
    <2> QED
        BY <2>1, <2>2
<1>5. TypeInv' /\ UNCHANGED <<clients, run>>
    BY <1>3, <1>4 DEF BaseInv, TypeInv, ChainForward, tncVars
<1>6. StartInv'
    <2>1. "port" \in Chains /\ "conn" \in Chains
        BY DEF Chains
    <2> QED
        BY <1>3, <2>1 DEF BaseInv, StartInv, ChainForward
<1> QED
    BY <1>5, <1>6, BaseOutside

LEMMA BaseTNCRun == ASSUME BaseInv, TNCRun PROVE BaseInv'
<1>1. fromTNC \in Seq(Sound) /\ fromTNC # <<>> /\ "tnc" \in Level
    BY DEF BaseInv, TypeInv, TNCRun, Level
<1>2. Head(fromTNC) \in Sound /\ Tail(fromTNC) \in Seq(Sound) /\ Enqueue("tnc", Head(fromTNC))
    BY <1>1, TailIs DEF TNCRun
<1>3. in' \in [Level -> Seq(Sound)] /\ lost' \subseteq Nat
    BY <1>1, <1>2, EnqueueIs
<1>4. TypeInv' /\ StartInv' /\ UNCHANGED <<clients, run>>
    BY <1>2, <1>3 DEF BaseInv, TypeInv, StartInv, TNCRun
<1> QED
    BY <1>4, BaseOutside

LEMMA BaseOthers ==
    ASSUME BaseInv, TNCExit \/ TeardownStep \/ Read \/ TNC \/ Idle \/ \E c \in Chains : ChainExit(c)
    PROVE  BaseInv'
<1>1. CASE TNCExit
    <2>1. TypeInv' /\ StartInv' /\ UNCHANGED <<clients, run>>
        BY <1>1 DEF BaseInv, TypeInv, StartInv, TNCExit, tncVars, userVars
    <2> QED
        BY <2>1, BaseOutside
<1>2. CASE TeardownStep
    <2>1. TypeInv' /\ StartInv' /\ UNCHANGED <<clients, run>>
        BY <1>2 DEF BaseInv, TypeInv, StartInv, TeardownStep, Teardown, tncVars, userVars
    <2> QED
        BY <2>1, BaseOutside
<1>3. CASE Read
    <2>1. /\ resp["data"] \in Seq(Sound) /\ got \in Seq(Sound) /\ resp \in [Client -> Seq(Sound)]
          /\ "data" \in Client
        BY DEF BaseInv, TypeInv, Client
    <2>2. got' \in Seq(Sound) /\ resp' \in [Client -> Seq(Sound)]
        <3>1. CASE resp["data"] = <<>>
            BY <1>3, <2>1, <3>1 DEF Read
        <3>2. CASE resp["data"] # <<>>
            <4>1. Head(resp["data"]) \in Sound /\ Tail(resp["data"]) \in Seq(Sound)
                BY <2>1, <3>2, TailIs
            <4>2. Append(got, Head(resp["data"])) \in Seq(Sound)
                BY <2>1, <4>1, AppendIs
            <4> QED
                BY <1>3, <2>1, <3>2, <4>1, <4>2 DEF Read
        <3> QED
            BY <3>1, <3>2
    <2>3. TypeInv' /\ StartInv' /\ UNCHANGED <<clients, run>>
        BY <1>3, <2>2 DEF BaseInv, TypeInv, StartInv, Read, tncVars
    <2> QED
        BY <2>3, BaseOutside
<1>4. CASE TNC
    <2>1. fromTNC \in Seq(Sound) /\ lag \in Nat /\ out \in Nat /\ remote \in Nat
        BY DEF BaseInv, TypeInv
    <2>2. /\ F("C") \in Sound /\ F("d") \in Sound /\ F("c") \in Sound
          /\ [k |-> "D", n |-> remote + 1] \in Sound
        BY <2>1 DEF F, Sound, Frame
    <2>3. \A f \in Sound : Append(fromTNC, f) \in Seq(Sound)
        BY <2>1, AppendIs
    <2>4. fromTNC' \in Seq(Sound)
        <3> HIDE DEF F
        <3> QED
            BY <1>4, <2>1, <2>2, <2>3 DEF TNC, TNCLink, TNCTransmit, RemoteData, LinkLost, TCPFail, Emit
    <2>5. /\ lag' \in Nat /\ out' \in Nat /\ remote' \in Nat /\ tcp' \in BOOLEAN
          /\ link' \in {"down", "calling", "up", "gone"}
        <3>1. tcp \in BOOLEAN /\ link \in {"down", "calling", "up", "gone"}
            BY DEF BaseInv, TypeInv
        <3>2. CASE TNCLink
            BY <2>1, <3>1, <3>2 DEF TNCLink
        <3>3. CASE TNCTransmit
            BY <2>1, <3>1, <3>3 DEF TNCTransmit
        <3>4. CASE RemoteData
            BY <2>1, <3>1, <3>4 DEF RemoteData
        <3>5. CASE LinkLost
            BY <2>1, <3>1, <3>5 DEF LinkLost
        <3>6. CASE TCPFail
            BY <2>1, <3>1, <3>6 DEF TCPFail
        <3> QED
            BY <1>4, <3>2, <3>3, <3>4, <3>5, <3>6 DEF TNC
    <2>6. UNCHANGED <<demuxVars, userVars>>
        BY <1>4 DEF TNC, TNCLink, TNCTransmit, RemoteData, LinkLost, TCPFail
    <2>7. TypeInv' /\ StartInv' /\ UNCHANGED <<clients, run>>
        BY <2>4, <2>5, <2>6 DEF BaseInv, TypeInv, StartInv, demuxVars, userVars
    <2> QED
        BY <2>7, BaseOutside
<1>5. CASE Idle
    BY <1>5 DEF Idle, vars, tncVars, demuxVars, userVars, BaseInv, TypeInv, TodoInv, StartInv
<1>6. ASSUME NEW c \in Chains, ChainExit(c) PROVE BaseInv'
    <2>1. F("off") # F("idle") /\ "port" \in Chains /\ "conn" \in Chains
        BY DEF F, Chains
    <2>2. chain' \in [Chains -> Sound \cup {F("off"), F("idle"), F("exited")}]
        BY <1>6 DEF BaseInv, TypeInv, ChainExit
    <2>3. closed' \in [Level -> BOOLEAN]
        BY <1>6 DEF BaseInv, TypeInv, ChainExit
    <2>4. \A d \in Chains : chain[d] = F("off") => chain'[d] = F("off")
        BY <1>6, <2>1 DEF BaseInv, TypeInv, ChainExit
    <2>5. TypeInv' /\ StartInv' /\ UNCHANGED <<clients, run>>
        BY <1>6, <2>1, <2>2, <2>3, <2>4 DEF BaseInv, TypeInv, StartInv, ChainExit, tncVars, userVars
    <2> QED
        BY <2>5, BaseOutside
<1> QED
    BY <1>1, <1>2, <1>3, <1>4, <1>5, <1>6

\* The goroutine of the user never goes back
LEMMA UserOrder ==
    ASSUME UserSteps
    PROVE  /\ u' \in BeforePort => u \in BeforePort
           /\ u' \in BeforeConn => u \in BeforeConn
           /\ u = "newPort2" => u' = "caps"
           /\ u = "newConn1" => u' = "newConn2"
<1>1. NewPort => /\ u \in BeforePort /\ u' \in BeforeConn \cup {"panic"} /\ u # "newConn1"
                 /\ u = "newPort2" => u' = "caps"
    BY DEF NewPort, Chain, Frames, BeforePort, BeforeConn
<1>2. GetCapabilities \/ Register =>
        /\ u \in BeforeConn \ BeforePort /\ u' \notin BeforePort /\ u \notin {"newPort2", "newConn1"}
    BY DEF GetCapabilities, Register, NextFrame, Send, BeforePort, BeforeConn
<1>3. HandleInbound => /\ u' \in BeforeConn => u \in BeforeConn
                       /\ u' \notin BeforePort /\ u \notin {"newPort2", "newConn1"}
    BY DEF HandleInbound, Frames, BeforePort, BeforeConn
<1>4. NewConn => /\ u' \in BeforeConn => u \in BeforeConn
                 /\ u' \notin BeforePort /\ u # "newPort2"
                 /\ u = "newConn1" => u' = "newConn2"
    BY DEF NewConn, Chain, Frames, NextFrame, BeforePort, BeforeConn
<1>5. Connect => u' \notin BeforeConn /\ u \notin {"newPort2", "newConn1"}
    BY DEF Connect, NextFrame, Send, BeforePort, BeforeConn
<1>6. AskOutstanding \/ Outstanding \/ AskTimeout \/ FlushTimeout \/ SendData =>
        u' \notin BeforeConn /\ u \notin {"newPort2", "newConn1"}
    BY DEF AskOutstanding, Outstanding, AskTimeout, FlushTimeout, SendData, NextFrame, Send, Return,
           BeforePort, BeforeConn
<1>7. Write \/ Flush \/ CallClose \/ Close => u' \notin BeforeConn /\ u \notin {"newPort2", "newConn1"}
    BY DEF Write, Flush, CallClose, Close, NextFrame, Send, BeforePort, BeforeConn
<1>8. BeforePort \subseteq BeforeConn
    BY DEF BeforeConn
<1> QED
    BY <1>1, <1>2, <1>3, <1>4, <1>5, <1>6, <1>7, <1>8 DEF UserSteps

LEMMA ForgetIs ==
    ASSUME BaseInv, NEW l \in Level, NEW c \in At[l] \cap Once, Forget(l, c)
    PROVE  /\ run' \in RunType /\ run'[l].todo = run[l].todo \ {c} /\ run'[l].on = run[l].on
           /\ ~(run[l].todo \subseteq {c}) => run'[l].f = run[l].f
           /\ \A m \in Level : m # l => run'[m] = run[m]
           /\ clients' \in [Level -> Seq(Client)]
           /\ \A m \in Level : m # l => clients'[m] = clients[m]
           /\ Range(clients'[l]) \subseteq Range(clients[l])
           /\ \A d \in Range(clients[l]) : d # c => d \in Range(clients'[l])
           /\ resp' \in [Client -> Seq(Sound)] /\ c \in Client
           /\ resp' = [resp EXCEPT ![c] = <<>>] /\ over' = over \ {c}
           /\ UNCHANGED <<in, closed, req, chain, cancelled, teardown>>
<1>1. /\ clients \in [Level -> Seq(Client)] /\ clients[l] \in Seq(Client) /\ run \in RunType
      /\ resp \in [Client -> Seq(Sound)] /\ c \in Client
      /\ run[l] \in [f : Sound \cup {None}, todo : SUBSET Client, on : BOOLEAN]
    BY AtIs DEF BaseInv, TypeInv, RunType
<1>2. /\ Drop(clients[l], c) \in Seq(Client) /\ Range(Drop(clients[l], c)) \subseteq Range(clients[l])
      /\ \A x \in Range(clients[l]) : x # c => x \in Range(Drop(clients[l], c))
    BY <1>1, DropIs
<1>3. clients' = [clients EXCEPT ![l] = Drop(clients[l], c)]
    BY DEF Forget
<1>4. /\ clients' \in [Level -> Seq(Client)] /\ clients'[l] = Drop(clients[l], c)
      /\ \A m \in Level : m # l => clients'[m] = clients[m]
    BY <1>1, <1>2, <1>3
<1>5. resp' = [resp EXCEPT ![c] = <<>>] /\ resp' \in [Client -> Seq(Sound)]
    BY <1>1 DEF Forget
<1> DEFINE U == run[l].todo \ {c}
           g == IF run[l].todo \subseteq {c} THEN None ELSE run[l].f
<1>6. U \in SUBSET Client /\ g \in Sound \cup {None}
    BY <1>1
<1>7. RunNow(l, U, g)
    <2>1. run' = [run EXCEPT ![l].todo = @ \ {c},
                             ![l].f = IF run[l].todo \subseteq {c} THEN None ELSE @]
        BY DEF Forget
    <2> DEFINE e == [run[l] EXCEPT !.todo = run[l].todo \ {c}]
    <2>2. e.f = run[l].f
        BY <1>1
    <2> QED
        BY <1>1, <2>1, <2>2 DEF RunType, RunNow
<1> HIDE DEF U, g
<1>8. /\ run' \in RunType /\ run'[l].todo = U /\ run'[l].f = g /\ run'[l].on = run[l].on
      /\ \A m \in Level : m # l => run'[m] = run[m]
    <2>1. RunIs(l, U, g)
        BY <1>1, <1>6, <1>7, RunSet
    <2> QED
        BY <2>1 DEF RunIs
<1>9. /\ run'[l].todo = run[l].todo \ {c}
      /\ ~(run[l].todo \subseteq {c}) => run'[l].f = run[l].f
    BY <1>8 DEF U, g
<1> QED
    BY <1>1, <1>2, <1>4, <1>5, <1>8, <1>9 DEF Forget

LEMMA TNCTakesIs ==
    ASSUME BaseInv, Sends
    PROVE  /\ fromTNC' \in Seq(Sound) /\ link' \in {"down", "calling", "up", "gone"}
           /\ lag' \in Nat /\ out' \in Nat
           /\ \/ UNCHANGED fromTNC
              \/ \E f \in Sound : /\ fromTNC' = Append(fromTNC, f) /\ f.k \notin {"D", "C", "c"}
                                  /\ f.k = "d" => link' = "gone"
           /\ link' = "up" => link = "up"
           /\ link = "gone" => link' = "gone"
<1>1. PICK f : f.k \in {"g", "X", "C", "D", "Y", "d"} /\ TNCTakes(f)
    BY DEF Sends
<1>2. fromTNC \in Seq(Sound) /\ lag \in Nat /\ out \in Nat /\ link \in {"down", "calling", "up", "gone"}
    BY DEF BaseInv, TypeInv
<1>3. /\ link' \in {"down", "calling", "up", "gone"} /\ lag' \in Nat /\ out' \in Nat
      /\ link' = "up" => link = "up"
      /\ link = "gone" => link' = "gone"
      /\ f.k = "d" /\ fromTNC' # fromTNC => link' = "gone"
    BY <1>1, <1>2 DEF TNCTakes
<1>4. CASE UNCHANGED fromTNC
    BY <1>2, <1>3, <1>4
<1>5. CASE fromTNC' # fromTNC
    <2>1. PICK n \in CASE f.k = "X" -> {0, 1} [] f.k = "Y" -> {out} [] OTHER -> {0} :
                fromTNC' = Append(fromTNC, [k |-> f.k, n |-> n])
        BY <1>1, <1>5 DEF TNCTakes
    <2>2. f.k \notin {"C", "D"}
        BY <1>1, <1>5 DEF TNCTakes
    <2> DEFINE g == [k |-> f.k, n |-> n]
    <2>3. g \in Sound /\ g.k \notin {"D", "C", "c"} /\ g.k = f.k
        BY <1>1, <1>2, <2>1, <2>2 DEF Sound, Frame
    <2> HIDE DEF g
    <2>4. fromTNC' = Append(fromTNC, g) /\ fromTNC' \in Seq(Sound)
        BY <1>2, <2>1, <2>3, AppendIs DEF g
    <2> QED
        BY <1>3, <1>5, <2>3, <2>4
<1> QED
    BY <1>4, <1>5

LEMMA BaseUser == ASSUME BaseInv, UserSteps PROVE BaseInv'
<1>1. Shape /\ UNCHANGED <<got, lost, remote>>
    BY UserShape DEF Shape
<1>2. "port" \in Chains /\ "conn" \in Chains
    BY DEF Chains
<1>3. ASSUME UNCHANGED chain PROVE StartInv'
    BY <1>3, UserOrder DEF BaseInv, StartInv
<1>4. CASE Still
    <2>1. TypeInv' /\ StartInv' /\ UNCHANGED <<clients, run>>
        BY <1>1, <1>3, <1>4 DEF Still, demuxVars, tncVars, BaseInv, TypeInv
    <2> QED
        BY <2>1, BaseOutside
<1>5. CASE Asks
    <2>1. PICK l \in Level : \E c \in At[l] \cap Once : NextFrame(l, c, u') /\ UNCHANGED tncVars
        BY <1>5 DEF Asks
    <2>2. PICK c \in At[l] \cap Once : NextFrame(l, c, u') /\ UNCHANGED tncVars
        BY <2>1
    <2>3. c \in Client
        BY AtIs
    <2>4. resp' \in [Client -> Seq(Sound)]
        BY <2>2, <2>3 DEF NextFrame, BaseInv, TypeInv
    <2>5. req' \in [Level -> Client \cup {"none"}] /\ \A m \in Level : req'[m] \in At[m] \cup {"none"}
        BY <2>2, <2>3 DEF NextFrame, BaseInv, TypeInv
    <2>6. TypeInv' /\ StartInv' /\ UNCHANGED <<clients, run>>
        BY <1>1, <1>3, <2>2, <2>4, <2>5 DEF NextFrame, tncVars, BaseInv, TypeInv
    <2> QED
        BY <2>6, BaseOutside
<1>6. CASE Takes
    <2>1. PICK l \in Level : \E c \in At[l] \ Once : Frames(l, c, u') /\ UNCHANGED tncVars
        BY <1>6 DEF Takes
    <2>2. PICK c \in At[l] \ Once : Frames(l, c, u') /\ UNCHANGED tncVars
        BY <2>1
    <2>3. c \in Client
        BY AtIs
    <2>4. req' \in [Level -> Client \cup {"none"}] /\ \A m \in Level : req'[m] \in At[m] \cup {"none"}
        BY <2>2, <2>3 DEF Frames, BaseInv, TypeInv
    <2>5. TypeInv' /\ StartInv' /\ UNCHANGED <<clients, run>>
        BY <1>1, <1>3, <2>2, <2>4 DEF Frames, tncVars, BaseInv, TypeInv
    <2> QED
        BY <2>5, BaseOutside
<1>7. CASE Forgets
    <2>1. PICK l \in Level : \E c \in At[l] \cap Once : Forget(l, c) /\ UNCHANGED tncVars
        BY <1>7 DEF Forgets
    <2>2. PICK c \in At[l] \cap Once : Forget(l, c) /\ UNCHANGED tncVars
        BY <2>1
    <2>3. /\ run' \in RunType /\ run'[l].todo = run[l].todo \ {c} /\ run'[l].on = run[l].on
          /\ ~(run[l].todo \subseteq {c}) => run'[l].f = run[l].f
          /\ \A m \in Level : m # l => run'[m] = run[m]
          /\ clients' \in [Level -> Seq(Client)]
          /\ \A m \in Level : m # l => clients'[m] = clients[m]
          /\ Range(clients'[l]) \subseteq Range(clients[l])
          /\ \A d \in Range(clients[l]) : d # c => d \in Range(clients'[l])
          /\ resp' \in [Client -> Seq(Sound)]
          /\ UNCHANGED <<in, closed, req, chain>>
        BY <2>2, ForgetIs
    <2>4. TypeInv'
        <3>1. \A m \in Level : Range(clients'[m]) \subseteq At[m]
            BY <2>3 DEF BaseInv, TypeInv
        <3> QED
            BY <1>1, <2>2, <2>3, <3>1 DEF BaseInv, TypeInv, tncVars, RunType
    <2>5. TodoInv'
        <3> SUFFICES ASSUME NEW m \in Level, run'[m].todo # {}
                     PROVE  /\ run'[m].on /\ run'[m].f \in Sound
                            /\ run'[m].todo \subseteq {d \in Range(clients'[m]) : run'[m].f.k \in Kinds[d]}
            BY DEF TodoInv
        <3>1. CASE m = l
            <4>1. ~(run[l].todo \subseteq {c}) /\ run[l].todo # {}
                BY <2>3, <3>1
            <4>2. run[l].on /\ run[l].f \in Sound
                  /\ run[l].todo \subseteq {d \in Range(clients[l]) : run[l].f.k \in Kinds[d]}
                BY <4>1 DEF BaseInv, TodoInv
            <4> QED
                BY <2>3, <3>1, <4>1, <4>2
        <3>2. CASE m # l
            <4>1. run'[m] = run[m] /\ clients'[m] = clients[m]
                BY <2>3, <3>2
            <4> QED
                BY <4>1 DEF BaseInv, TodoInv
        <3> QED
            BY <3>1, <3>2
    <2> QED
        BY <1>3, <2>3, <2>4, <2>5 DEF BaseInv
<1>8. CASE Sends
    <2>1. /\ fromTNC' \in Seq(Sound) /\ link' \in {"down", "calling", "up", "gone"}
          /\ lag' \in Nat /\ out' \in Nat
        BY <1>8, TNCTakesIs
    <2>2. TypeInv' /\ StartInv' /\ UNCHANGED <<clients, run>>
        BY <1>1, <1>3, <1>8, <2>1 DEF Sends, demuxVars, BaseInv, TypeInv
    <2> QED
        BY <2>2, BaseOutside
<1>9. CASE Called
    <2>1. resp' \in [Client -> Seq(Sound)]
        <3>1. <<>> \in Seq(Sound) /\ resp \in [Client -> Seq(Sound)]
            BY DEF BaseInv, TypeInv
        <3> QED
            BY <1>9, <3>1 DEF Called
    <2>2. TypeInv' /\ StartInv' /\ UNCHANGED <<clients, run>>
        BY <1>1, <1>3, <1>9, <2>1 DEF Called, tncVars, BaseInv, TypeInv
    <2> QED
        BY <2>2, BaseOutside
<1>10. CASE Waits
    <2>1. TypeInv' /\ StartInv' /\ UNCHANGED <<clients, run>>
        BY <1>1, <1>3, <1>10 DEF Waits, tncVars, BaseInv, TypeInv
    <2> QED
        BY <2>1, BaseOutside
<1>11. ASSUME NEW c \in Chains, Starts(c) PROVE BaseInv'
    <2>1. chain' \in [Chains -> Sound \cup {F("off"), F("idle"), F("exited")}]
        BY <1>11 DEF Starts, BaseInv, TypeInv
    <2>2. \A d \in Chains : d # c => chain'[d] = chain[d]
        BY <1>11 DEF Starts, BaseInv, TypeInv
    <2>3. StartInv'
        <3>1. CASE c = "port"
            <4>1. u' = "caps" /\ u \in BeforeConn
                BY <1>11, <3>1, UserOrder DEF Starts, BeforeConn, BeforePort
            <4>2. u' \notin BeforePort
                BY <4>1 DEF BeforePort
            <4> QED
                BY <1>2, <2>2, <3>1, <4>1, <4>2 DEF BaseInv, StartInv
        <3>2. CASE c = "conn"
            <4>1. u' = "newConn2"
                BY <1>11, <3>2, UserOrder DEF Starts
            <4> QED
                BY <4>1 DEF StartInv, BeforeConn, BeforePort
        <3> QED
            BY <3>1, <3>2 DEF Chains
    <2>4. TypeInv' /\ StartInv' /\ UNCHANGED <<clients, run>>
        BY <1>1, <1>11, <2>1, <2>3 DEF Starts, tncVars, BaseInv, TypeInv
    <2> QED
        BY <2>4, BaseOutside
<1>12. ASSUME NEW l \in Level, Shuts(l) PROVE BaseInv'
    <2>1. closed' \in [Level -> BOOLEAN] /\ tcp' \in BOOLEAN
        BY <1>12 DEF Shuts, BaseInv, TypeInv
    <2>2. TypeInv' /\ StartInv' /\ UNCHANGED <<clients, run>>
        BY <1>1, <1>3, <1>12, <2>1 DEF Shuts, BaseInv, TypeInv
    <2> QED
        BY <2>2, BaseOutside
<1>13. "tnc" \in Level /\ "conn" \in Level
    BY DEF Level
<1> QED
    BY <1>1, <1>4, <1>5, <1>6, <1>7, <1>8, <1>9, <1>10, <1>11, <1>12, <1>13 DEF Shape

LEMMA BaseInit == Init => BaseInv
<1> SUFFICES ASSUME Init PROVE BaseInv
    OBVIOUS
<1>1. None \in Sound \cup {None} /\ {} \in SUBSET Client
    OBVIOUS
<1>2. run \in RunType /\ \A l \in Level : run[l].todo = {}
    BY <1>1 DEF Init, RunType
<1>3. clients \in [Level -> Seq(Client)] /\ \A l \in Level : Range(clients[l]) \subseteq At[l]
    <2>1. Range(<<>>) = {}
        BY DEF Range
    <2> QED
        BY <2>1 DEF Init
<1>4. TypeInv
    BY <1>2, <1>3 DEF Init, TypeInv, RunType
<1>5. chain["port"] = F("off") /\ chain["conn"] = F("off")
    BY DEF Init, Chains
<1> QED
    BY <1>2, <1>4, <1>5 DEF BaseInv, TodoInv, StartInv

LEMMA BaseStep == BaseInv /\ [Next]_vars => BaseInv'
<1> SUFFICES ASSUME BaseInv, [Next]_vars PROVE BaseInv'
    OBVIOUS
<1>1. CASE UNCHANGED vars
    BY <1>1 DEF vars, tncVars, demuxVars, userVars, BaseInv, TypeInv, TodoInv, StartInv
<1>2. CASE Next
    BY <1>2, BaseRequest, BaseTake, BaseDeliver, BaseExit, BaseForward, BaseTNCRun, BaseOthers, BaseUser
       DEF Next, Goroutines
<1> QED
    BY <1>1, <1>2
-----------------------------------------------------------------------------
(***************************************************************************)
(* The way of the frames for the client c of the connection, and what each *)
(* step does to it. Of each demultiplexer l it has the channel, the frame  *)
(* in hand for the client Onto(l, c), and what that client has got.        *)
(***************************************************************************)
InAt == [l \in Level |-> IF l = "tnc" THEN 10 ELSE IF l = "port" THEN 7 ELSE 4]
Onto(l, c) == IF l = "tnc" THEN "port" ELSE IF l = "port" THEN "conn" ELSE c
Dest(w) == IF w \in Chains THEN Held(w) ELSE resp[w]
Ends == {"data", "y"}

LEMMA WayIs ==
    ASSUME NEW c \in Ends
    PROVE  /\ DOMAIN Way(c) = Places
           /\ Way(c)[1] = (IF c = "data" THEN got ELSE <<>>) /\ Way(c)[2] = resp[c]
           /\ Way(c)[3] = Hand("conn", c) /\ Way(c)[4] = in["conn"] /\ Way(c)[5] = Held("conn")
           /\ Way(c)[6] = Hand("port", "conn") /\ Way(c)[7] = in["port"] /\ Way(c)[8] = Held("port")
           /\ Way(c)[9] = Hand("tnc", "port") /\ Way(c)[10] = in["tnc"] /\ Way(c)[11] = fromTNC
BY DEF Way, Places

LEMMA WayIsNext ==
    ASSUME NEW c \in Ends
    PROVE  /\ DOMAIN Way(c)' = Places
           /\ Way(c)'[1] = (IF c = "data" THEN got' ELSE <<>>) /\ Way(c)'[2] = resp'[c]
           /\ Way(c)'[3] = Hand("conn", c)' /\ Way(c)'[4] = in'["conn"] /\ Way(c)'[5] = Held("conn")'
           /\ Way(c)'[6] = Hand("port", "conn")' /\ Way(c)'[7] = in'["port"] /\ Way(c)'[8] = Held("port")'
           /\ Way(c)'[9] = Hand("tnc", "port")' /\ Way(c)'[10] = in'["tnc"] /\ Way(c)'[11] = fromTNC'
BY DEF Way, Places

LEMMA EndsAre == Ends \subseteq Client /\ \A c \in Ends : c \notin Chains /\ c \in At["conn"]
BY AtIs DEF Ends, Client, Chains

\* The places of the demultiplexer l on the way
LEMMA PlacesOf ==
    ASSUME NEW c \in Ends, NEW l \in Level
    PROVE  /\ InAt[l] \in Places /\ InAt[l] - 1 \in Places /\ InAt[l] - 2 \in Places /\ InAt[l] \in Nat
           /\ Way(c)[InAt[l]] = in[l] /\ Way(c)'[InAt[l]] = in'[l]
           /\ Way(c)[InAt[l] - 1] = Hand(l, Onto(l, c)) /\ Way(c)'[InAt[l] - 1] = Hand(l, Onto(l, c))'
           /\ Way(c)[InAt[l] - 2] = Dest(Onto(l, c)) /\ Way(c)'[InAt[l] - 2] = Dest(Onto(l, c))'
           /\ Onto(l, c) \in At[l] /\ Onto(l, c) \in Client
<1>1. CASE l = "tnc"
    <2>1. InAt[l] = 10 /\ Onto(l, c) = "port" /\ "port" \in Chains
        BY <1>1 DEF InAt, Onto, Level, Chains
    <2>2. Dest("port") = Held("port") /\ Dest("port")' = Held("port")'
        BY <2>1 DEF Dest
    <2> QED
        BY <1>1, <2>1, <2>2, WayIs, WayIsNext, AtIs DEF Places, Client
<1>2. CASE l = "port"
    <2>1. InAt[l] = 7 /\ Onto(l, c) = "conn" /\ "conn" \in Chains
        BY <1>2 DEF InAt, Onto, Level, Chains
    <2>2. Dest("conn") = Held("conn") /\ Dest("conn")' = Held("conn")'
        BY <2>1 DEF Dest
    <2> QED
        BY <1>2, <2>1, <2>2, WayIs, WayIsNext, AtIs DEF Places, Client
<1>3. CASE l = "conn"
    <2>1. InAt[l] = 4 /\ Onto(l, c) = c /\ c \notin Chains /\ c \in Client /\ c \in At["conn"]
        BY <1>3, EndsAre DEF InAt, Onto, Level
    <2>2. Dest(c) = resp[c] /\ Dest(c)' = resp'[c]
        BY <2>1 DEF Dest
    <2> QED
        BY <1>3, <2>1, <2>2, WayIs, WayIsNext DEF Places
<1> QED
    BY <1>1, <1>2, <1>3 DEF Level

\* A step of the demultiplexer l changes no other place
Beside(l, c) ==
    /\ \A m \in Level : m # l => in'[m] = in[m] /\ run'[m] = run[m]
    /\ \A d \in Chains : d # Onto(l, c) => chain'[d] = chain[d]
    /\ l # "conn" => resp'[c] = resp[c]
    /\ UNCHANGED <<got, fromTNC>>

LEMMA BesideWay ==
    ASSUME NEW c \in Ends, NEW l \in Level, Beside(l, c)
    PROVE  \A r \in Places : r \notin {InAt[l], InAt[l] - 1, InAt[l] - 2} => Way(c)'[r] = Way(c)[r]
<1>1. \A r \in Places : r \in {1, 2, 3, 4, 5, 6, 7, 8, 9, 10, 11}
    BY DEF Places
<1>2. /\ "tnc" \in Level /\ "port" \in Level /\ "conn" \in Level /\ "port" \in Chains /\ "conn" \in Chains
    BY DEF Level, Chains
<1>3. ASSUME NEW m \in Level, m # l
      PROVE  in'[m] = in[m] /\ \A d : Hand(m, d)' = Hand(m, d)
    <2>1. in'[m] = in[m] /\ run'[m] = run[m]
        BY <1>3 DEF Beside
    <2> QED
        BY <2>1 DEF Hand
<1>4. \A d \in Chains : d # Onto(l, c) => Held(d)' = Held(d)
    BY DEF Beside, Held
<1>5. Way(c)'[1] = Way(c)[1] /\ Way(c)'[11] = Way(c)[11]
    BY WayIs, WayIsNext DEF Beside
<1>6. CASE l = "tnc"
    <2>1. InAt[l] = 10 /\ Onto(l, c) = "port" /\ resp'[c] = resp[c]
        BY <1>6 DEF InAt, Onto, Beside, Level
    <2>2. /\ Way(c)'[2] = Way(c)[2] /\ Way(c)'[3] = Way(c)[3] /\ Way(c)'[4] = Way(c)[4]
          /\ Way(c)'[5] = Way(c)[5] /\ Way(c)'[6] = Way(c)[6] /\ Way(c)'[7] = Way(c)[7]
        BY <1>2, <1>3, <1>4, <1>6, <2>1, WayIs, WayIsNext
    <2> QED
        BY <1>1, <1>5, <2>1, <2>2
<1>7. CASE l = "port"
    <2>1. InAt[l] = 7 /\ Onto(l, c) = "conn" /\ resp'[c] = resp[c]
        BY <1>7 DEF InAt, Onto, Beside, Level
    <2>2. /\ Way(c)'[2] = Way(c)[2] /\ Way(c)'[3] = Way(c)[3] /\ Way(c)'[4] = Way(c)[4]
          /\ Way(c)'[8] = Way(c)[8] /\ Way(c)'[9] = Way(c)[9] /\ Way(c)'[10] = Way(c)[10]
        BY <1>2, <1>3, <1>4, <1>7, <2>1, WayIs, WayIsNext
    <2> QED
        BY <1>1, <1>5, <2>1, <2>2
<1>8. CASE l = "conn"
    <2>1. InAt[l] = 4 /\ Onto(l, c) = c
        BY <1>8 DEF InAt, Onto, Level
    <2>2. /\ Way(c)'[5] = Way(c)[5] /\ Way(c)'[6] = Way(c)[6] /\ Way(c)'[7] = Way(c)[7]
          /\ Way(c)'[8] = Way(c)[8] /\ Way(c)'[9] = Way(c)[9] /\ Way(c)'[10] = Way(c)[10]
        BY <1>2, <1>3, <1>4, <1>8, <2>1, WayIs, WayIsNext, EndsAre
    <2> QED
        BY <1>1, <1>5, <2>1, <2>2
<1> QED
    BY <1>6, <1>7, <1>8 DEF Level

LEMMA IsWayNow == ASSUME NEW c \in Ends, BaseInv PROVE IsWay(Way(c))
<1>1. ASSUME NEW l \in Level, NEW d PROVE Hand(l, d) \in Seq(Sound)
    BY <1>1 DEF Hand, BaseInv, TodoInv
<1>2. ASSUME NEW d \in Chains PROVE Held(d) \in Seq(Sound)
    <2>1. chain[d] \in Frame => chain[d] \in Sound
        BY SoundIs DEF BaseInv, TypeInv
    <2> QED
        BY <2>1 DEF Held
<1>3. /\ "tnc" \in Level /\ "port" \in Level /\ "conn" \in Level /\ "port" \in Chains /\ "conn" \in Chains
    BY DEF Level, Chains
<1>4. c \in Client /\ <<>> \in Seq(Sound)
    BY EndsAre
<1>5. /\ Way(c)[1] \in Seq(Sound) /\ Way(c)[2] \in Seq(Sound) /\ Way(c)[3] \in Seq(Sound)
      /\ Way(c)[4] \in Seq(Sound) /\ Way(c)[5] \in Seq(Sound) /\ Way(c)[6] \in Seq(Sound)
      /\ Way(c)[7] \in Seq(Sound) /\ Way(c)[8] \in Seq(Sound) /\ Way(c)[9] \in Seq(Sound)
      /\ Way(c)[10] \in Seq(Sound) /\ Way(c)[11] \in Seq(Sound)
    <2>1. /\ got \in Seq(Sound) /\ resp[c] \in Seq(Sound) /\ fromTNC \in Seq(Sound)
          /\ in["tnc"] \in Seq(Sound) /\ in["port"] \in Seq(Sound) /\ in["conn"] \in Seq(Sound)
        BY <1>3, <1>4 DEF BaseInv, TypeInv
    <2>2. /\ Hand("conn", c) \in Seq(Sound) /\ Hand("port", "conn") \in Seq(Sound)
          /\ Hand("tnc", "port") \in Seq(Sound) /\ Held("port") \in Seq(Sound) /\ Held("conn") \in Seq(Sound)
        BY <1>1, <1>2, <1>3
    <2> QED
        BY <1>4, <2>1, <2>2, WayIs
<1>6. \A r \in Places : r \in {1, 2, 3, 4, 5, 6, 7, 8, 9, 10, 11}
    BY DEF Places
<1> QED
    BY <1>5, <1>6, WayIs DEF IsWay

LEMMA KindsAre ==
    /\ Kinds["conn"] = {"C", "D", "Y", "d"} /\ Kinds["caps"] = {"g"} /\ Kinds["reg"] = {"X"}
    /\ Kinds["connects"] = {"c"} /\ Kinds["disc"] = {"d"} /\ Kinds["data"] = {"D"}
    /\ Kinds["ack"] = {"C", "d"} /\ Kinds["y"] = {"Y"} /\ Kinds["end"] = {"d"}
    /\ Kinds["port"] = {"g", "X", "C", "c", "D", "Y", "d"}
BY DEF Kinds, Client, Chains

\* Where a frame goes on, it goes nowhere else; data goes on wherever it goes
LEMMA OnlyOnto ==
    ASSUME NEW c \in Ends, NEW l \in Level, NEW f \in Sound, NEW T, BaseInv, T \subseteq Wanting(l, f)
    PROVE  /\ Onto(l, c) \in T => T = {Onto(l, c)}
           /\ c = "data" /\ f.k = "D" /\ T # {} => Onto(l, c) \in T
<1>1. \A d \in T : d \in At[l] /\ f.k \in Kinds[d]
    BY DEF Wanting, BaseInv, TypeInv
<1>2. CASE l = "tnc"
    BY <1>1, <1>2, AtIs DEF Onto
<1>3. CASE l = "port"
    BY <1>1, <1>3, AtIs, KindsAre DEF Onto
<1>4. CASE l = "conn"
    BY <1>1, <1>4, AtIs, KindsAre DEF Onto, Ends
<1> QED
    BY <1>2, <1>3, <1>4 DEF Level

\* A delivery as the way sees it
GivenOn(l, c, f, T) ==
    /\ Onto(l, c) \notin run'[l].todo
    /\ \A m \in Level : m # l => run'[m] = run[m]
    /\ \A d \in Chains : d # Onto(l, c) => chain'[d] = chain[d]
    /\ l # "conn" => resp'[c] = resp[c]
    /\ \/ T = {Onto(l, c)} /\ Dest(Onto(l, c))' = Append(Dest(Onto(l, c)), f) /\ lost' = lost
       \/ T = {Onto(l, c)} /\ Dest(Onto(l, c))' = Dest(Onto(l, c)) /\ lost' = lost \cup Told(<<f>>)
       \/ /\ Onto(l, c) \notin T /\ Dest(Onto(l, c))' = Dest(Onto(l, c))
          /\ c = "data" => f.k # "D" /\ lost' \ {0} = lost \ {0}

LEMMA GivenWay ==
    ASSUME NEW c \in Ends, NEW l \in Level, NEW f \in Sound, NEW T, NEW d, BaseInv, Given(l, f, T, d),
           T \subseteq Wanting(l, f)
    PROVE  GivenOn(l, c, f, T)
<1> DEFINE w == Onto(l, c)
<1>0. Handed(l, f, T, d)
    BY GivenType
<1>1. /\ w \in T => T = {w}
      /\ c = "data" /\ f.k = "D" /\ T # {} => w \in T
    BY OnlyOnto
<1>2. d \in T /\ d \in At[l] /\ d \in Client
    BY AtIs DEF Given, Wanting, BaseInv, TypeInv
<1>3. w \notin run'[l].todo /\ \A m \in Level : m # l => run'[m] = run[m]
    BY <1>0, <1>1, <1>2 DEF Handed
<1>4. d \in Chains => d = w
    BY <1>2, AtIs DEF Level, Chains, Onto
<1>5. l # "conn" => d # c
    BY <1>2, AtIs DEF Level, Ends
<1>6. /\ chain \in [Chains -> Sound \cup {F("off"), F("idle"), F("exited")}]
      /\ resp \in [Client -> Seq(Sound)]
    BY DEF BaseInv, TypeInv
<1>7. \A e \in Chains : e # w => chain'[e] = chain[e]
    BY <1>4, <1>6 DEF Given, Gets
<1>8. l # "conn" => resp'[c] = resp[c]
    BY <1>5, <1>6, EndsAre DEF Given, Gets
<1>9. Told(<<f>>) \ {0} = IF f.k = "D" THEN {f.n} \ {0} ELSE {}
    BY ToldIs, SoundIs
<1>10. (Gets(d, f) /\ lost' = lost) \/ (UNCHANGED <<chain, resp>> /\ lost' = lost \cup Told(<<f>>))
    BY DEF Given
<1>11. CASE d = w /\ Gets(d, f) /\ lost' = lost
    <2>1. T = {w}
        BY <1>1, <1>2, <1>11
    <2>2. CASE d \in Chains
        <3>1. chain[d] = F("idle") /\ chain'[d] = f
            BY <1>6, <1>11, <2>2 DEF Gets, Room
        <3>2. Held(d) = <<>> /\ Held(d)' = <<f>>
            BY <3>1, SoundIs DEF Held
        <3>3. Dest(d)' = Append(Dest(d), f)
            BY <2>2, <3>2 DEF Dest
        <3> QED
            BY <1>3, <1>7, <1>8, <1>11, <2>1, <3>3 DEF GivenOn
    <2>3. CASE d \notin Chains
        <3>1. Dest(d)' = Append(Dest(d), f)
            BY <1>2, <1>6, <1>11, <2>3 DEF Gets, Dest
        <3> QED
            BY <1>3, <1>7, <1>8, <1>11, <2>1, <3>1 DEF GivenOn
    <2> QED
        BY <2>2, <2>3
<1>12. CASE d = w /\ UNCHANGED <<chain, resp>> /\ lost' = lost \cup Told(<<f>>)
    <2>1. T = {w}
        BY <1>1, <1>2, <1>12
    <2>2. Dest(d)' = Dest(d)
        BY <1>12 DEF Dest, Held
    <2> QED
        BY <1>3, <1>7, <1>8, <1>12, <2>1, <2>2 DEF GivenOn
<1>13. CASE d # w
    <2>1. w \notin T
        BY <1>1, <1>2, <1>13
    <2>2. d \notin Chains /\ w \in Client
        BY <1>4, <1>13, PlacesOf
    <2>3. Dest(w)' = Dest(w)
        <3>1. UNCHANGED chain /\ resp'[w] = resp[w]
            BY <1>6, <1>10, <1>13, <2>2 DEF Gets
        <3> QED
            BY <3>1 DEF Dest, Held
    <2>4. c = "data" => f.k # "D" /\ lost' \ {0} = lost \ {0}
        BY <1>1, <1>2, <1>9, <1>10, <2>1
    <2> QED
        BY <1>3, <1>7, <1>8, <2>1, <2>3, <2>4 DEF GivenOn
<1> QED
    BY <1>10, <1>11, <1>12, <1>13

\* What a step does to the way of c: nothing, or a frame moves on, or is lost;
\* what of the data is lost is told
Same(W, V) == \A r \in Places : V[r] = W[r]
Counts(f)  == lost' \ {0} = (lost \ {0}) \cup (IF f.k = "D" THEN {f.n} ELSE {})
Moves(c) ==
    \/ Same(Way(c), Way(c)') /\ (c = "data" => lost' \ {0} = lost \ {0})
    \/ \E p, q : Advance(Way(c), Way(c)', p, q) /\ (c = "data" => lost' \ {0} = lost \ {0})
    \/ \E q : Loss(Way(c), Way(c)', q) /\ (c = "data" => Counts(Head(Way(c)[q])))

LEMMA CountsTold == \A f \in Sound : lost' = lost \cup Told(<<f>>) => Counts(f)
<1> SUFFICES ASSUME NEW f \in Sound, lost' = lost \cup Told(<<f>>) PROVE Counts(f)
    OBVIOUS
<1>1. Told(<<f>>) = IF f.k \in {"D", "d"} THEN {f.n} ELSE {}
    BY ToldIs
<1> QED
    BY <1>1, SoundIs DEF Counts

LEMMA WayTake == ASSUME NEW c \in Ends, BaseInv, NEW l \in Level, RunTake(l) PROVE Moves(c)
<1> DEFINE W == Way(c)
           V == Way(c)'
           f == Head(in[l])
           T == Wanting(l, f)
           w == Onto(l, c)
           a == InAt[l]
<1>1. /\ run[l].on /\ run[l].todo = {} /\ in[l] # <<>> /\ in' = [in EXCEPT ![l] = Tail(@)]
      /\ UNCHANGED <<got, fromTNC>>
    BY TakeIs DEF tncVars
<1>2. /\ f \in Sound /\ in'[l] = Tail(in[l]) /\ \A m \in Level : m # l => in'[m] = in[m]
    BY <1>1, InTail
<1>3. /\ a \in Places /\ a - 1 \in Places /\ a - 2 \in Places /\ a \in Nat
      /\ W[a] = in[l] /\ V[a] = in'[l]
      /\ W[a - 1] = Hand(l, w) /\ V[a - 1] = Hand(l, w)'
      /\ W[a - 2] = Dest(w) /\ V[a - 2] = Dest(w)'
    BY PlacesOf
<1>4. Hand(l, w) = <<>>
    BY <1>1 DEF Hand
<1>5. T \subseteq Wanting(l, f)
    OBVIOUS
<1>6. ASSUME Beside(l, c)
      PROVE  \A r \in Places : r # a /\ r # a - 1 /\ r # a - 2 => V[r] = W[r]
    BY <1>6, BesideWay
<1> HIDE DEF W, V, f, T, w, a
<1>7. f = Head(W[a]) /\ V[a] = Tail(W[a]) /\ W[a] # <<>>
    BY <1>1, <1>2, <1>3 DEF f
<1>8. Moves(c) <=> \/ Same(W, V) /\ (c = "data" => lost' \ {0} = lost \ {0})
                   \/ \E p, q : Advance(W, V, p, q) /\ (c = "data" => lost' \ {0} = lost \ {0})
                   \/ \E q : Loss(W, V, q) /\ (c = "data" => Counts(Head(W[q])))
    BY DEF Moves, W, V
<1>9. ASSUME Beside(l, c), V[a - 1] = <<>>, V[a - 2] = W[a - 2], c = "data" => Counts(f) PROVE Moves(c)
    <2>1. Loss(W, V, a)
        BY <1>3, <1>4, <1>6, <1>7, <1>9 DEF Loss
    <2> QED
        BY <1>7, <1>8, <1>9, <2>1
<1>10. CASE Ignores(l)
    <2>1. Beside(l, c)
        BY <1>1, <1>2, <1>10 DEF Ignores, Beside
    <2>2. Hand(l, w)' = Hand(l, w) /\ Dest(w)' = Dest(w) /\ lost' = lost \cup Told(<<f>>)
        BY <1>10 DEF Ignores, Hand, Dest, Held, f
    <2>3. Counts(f)
        BY <1>2, <2>2, CountsTold
    <2> QED
        BY <1>3, <1>4, <1>9, <2>1, <2>2, <2>3
<1>11. CASE Holds(l)
    <2>1. T \in SUBSET Client
        <3>1. Range(clients[l]) \subseteq Client
            BY AtIs DEF BaseInv, TypeInv
        <3> QED
            BY <3>1 DEF Wanting, T
    <2>2. run \in RunType
        BY DEF BaseInv, TypeInv, RunType
    <2>3. RunNow(l, T, f)
        BY <1>11 DEF Holds, T, f, RunNow
    <2>4. /\ run' \in RunType /\ run'[l].todo = T /\ run'[l].f = f /\ run'[l].on = run[l].on
          /\ \A m \in Level : m # l => run'[m] = run[m]
        <3>1. RunIs(l, T, f)
            BY <1>2, <2>1, <2>2, <2>3, RunSet
        <3> QED
            BY <3>1 DEF RunIs
    <2>5. UNCHANGED <<lost, chain, resp>> /\ T # {}
        BY <1>11 DEF Holds, T, f
    <2>6. Beside(l, c)
        BY <1>1, <1>2, <2>4, <2>5 DEF Beside
    <2>7. Dest(w)' = Dest(w)
        BY <2>5 DEF Dest, Held
    <2>8. CASE w \in T
        <3>1. Hand(l, w)' = <<f>>
            BY <2>4, <2>8 DEF Hand
        <3>2. V[a - 1] = Append(W[a - 1], f)
            BY <1>3, <1>4, <3>1
        <3>3. Advance(W, V, a - 1, a)
            <4>1. \A r \in Places : ~(a - 1 < r /\ r < a)
                BY <1>3 DEF Places
            <4>2. V[a - 1] = Append(W[a - 1], Head(W[a])) /\ V[a - 2] = W[a - 2]
                BY <1>3, <1>7, <2>7, <3>2
            <4> QED
                BY <1>3, <1>6, <1>7, <2>6, <4>1, <4>2 DEF Advance
        <3> QED
            BY <1>8, <2>5, <3>3
    <2>9. CASE w \notin T
        <3>1. Hand(l, w)' = <<>>
            BY <2>4, <2>9 DEF Hand
        <3>2. c = "data" => f.k # "D"
            BY <1>2, <1>5, <2>5, <2>9, OnlyOnto DEF w
        <3>3. c = "data" => Counts(f)
            BY <2>5, <3>2 DEF Counts
        <3> QED
            BY <1>3, <1>9, <2>6, <2>7, <3>1, <3>3
    <2> QED
        BY <2>8, <2>9
<1>12. ASSUME NEW d, Given(l, f, T, d) PROVE Moves(c)
    <2>1. GivenOn(l, c, f, T)
        BY <1>2, <1>5, <1>12, GivenWay
    <2>2. Beside(l, c)
        BY <1>1, <1>2, <2>1 DEF Beside, GivenOn
    <2>3. Hand(l, w)' = <<>>
        BY <2>1 DEF GivenOn, Hand, w
    <2>4. CASE Dest(w)' = Append(Dest(w), f) /\ lost' = lost
        <3>1. Advance(W, V, a - 2, a)
            <4>1. /\ V[a - 2] = Append(W[a - 2], Head(W[a])) /\ V[a] = Tail(W[a]) /\ W[a - 1] = <<>>
                  /\ V[a - 1] = W[a - 1]
                BY <1>3, <1>4, <1>7, <2>3, <2>4
            <4>2. \A r \in Places : a - 2 < r /\ r < a => r = a - 1
                BY <1>3 DEF Places
            <4> QED
                BY <1>3, <1>6, <1>7, <2>2, <4>1, <4>2 DEF Advance
        <3> QED
            BY <1>8, <2>4, <3>1
    <2>5. CASE Dest(w)' = Dest(w) /\ (c = "data" => Counts(f))
        BY <1>3, <1>9, <2>2, <2>3, <2>5
    <2>6. ASSUME c = "data", f.k # "D", lost' \ {0} = lost \ {0} PROVE Counts(f)
        BY <2>6 DEF Counts
    <2>7. lost' = lost \cup Told(<<f>>) => Counts(f)
        BY <1>2, CountsTold
    <2> QED
        BY <2>1, <2>4, <2>5, <2>6, <2>7 DEF GivenOn, w
<1> QED
    BY <1>10, <1>11, <1>12, TakeIs DEF f, T

LEMMA WayDeliver == ASSUME NEW c \in Ends, BaseInv, NEW l \in Level, RunDeliver(l) PROVE Moves(c)
<1> DEFINE W == Way(c)
           V == Way(c)'
           f == run[l].f
           T == run[l].todo
           w == Onto(l, c)
           a == InAt[l]
<1>1. /\ f \in Sound /\ T # {} /\ T \subseteq Wanting(l, f) /\ T \subseteq Range(clients[l])
    BY DEF RunDeliver, BaseInv, TodoInv, Wanting
<1>2. Deliver(l, f, T) /\ UNCHANGED <<in, got, fromTNC>> /\ TypeInv
    BY DEF RunDeliver, BaseInv, tncVars
<1>3. /\ a \in Places /\ a - 1 \in Places /\ a - 2 \in Places /\ a \in Nat
      /\ W[a] = in[l] /\ V[a] = in'[l]
      /\ W[a - 1] = Hand(l, w) /\ V[a - 1] = Hand(l, w)'
      /\ W[a - 2] = Dest(w) /\ V[a - 2] = Dest(w)'
    BY PlacesOf
<1>4. Hand(l, w) = IF w \in T THEN <<f>> ELSE <<>>
    BY DEF Hand
<1>5. ASSUME Beside(l, c)
      PROVE  \A r \in Places : r # a /\ r # a - 1 /\ r # a - 2 => V[r] = W[r]
    BY <1>5, BesideWay
<1> HIDE DEF W, V, f, T, w, a
<1>6. PICK d : Given(l, f, T, d)
    BY <1>1, <1>2, DeliverIs
<1>7. GivenOn(l, c, f, T)
    BY <1>1, <1>6, GivenWay
<1>8. Beside(l, c)
    BY <1>2, <1>7 DEF Beside, GivenOn
<1>9. Hand(l, w)' = <<>>
    BY <1>7 DEF GivenOn, Hand, w
<1>10. Moves(c) <=> \/ Same(W, V) /\ (c = "data" => lost' \ {0} = lost \ {0})
                    \/ \E p, q : Advance(W, V, p, q) /\ (c = "data" => lost' \ {0} = lost \ {0})
                    \/ \E q : Loss(W, V, q) /\ (c = "data" => Counts(Head(W[q])))
    BY DEF Moves, W, V
<1>11. V[a] = W[a]
    BY <1>2, <1>3
<1>12. CASE T = {w}
    <2>1. W[a - 1] = <<f>> /\ V[a - 1] = <<>>
        BY <1>3, <1>4, <1>9, <1>12
    <2>2. Head(W[a - 1]) = f /\ V[a - 1] = Tail(W[a - 1]) /\ W[a - 1] # <<>>
        BY <2>1
    <2>3. CASE Dest(w)' = Append(Dest(w), f) /\ lost' = lost
        <3>1. Advance(W, V, a - 2, a - 1)
            <4>1. \A r \in Places : ~(a - 2 < r /\ r < a - 1)
                BY <1>3 DEF Places
            <4>2. V[a - 2] = Append(W[a - 2], Head(W[a - 1]))
                BY <1>3, <2>2, <2>3
            <4> QED
                BY <1>3, <1>5, <1>8, <1>11, <2>2, <4>1, <4>2 DEF Advance
        <3> QED
            BY <1>10, <2>3, <3>1
    <2>4. CASE Dest(w)' = Dest(w) /\ lost' = lost \cup Told(<<f>>)
        <3>1. Loss(W, V, a - 1)
            BY <1>3, <1>5, <1>8, <1>11, <2>2, <2>4 DEF Loss
        <3>2. Counts(f)
            BY <1>1, <2>4, CountsTold
        <3> QED
            BY <1>10, <2>2, <3>1, <3>2
    <2> QED
        BY <1>7, <1>12, <2>3, <2>4 DEF GivenOn, w
<1>13. CASE w \notin T
    <2>1. Dest(w)' = Dest(w) /\ (c = "data" => lost' \ {0} = lost \ {0})
        BY <1>7, <1>13 DEF GivenOn, w
    <2>2. Same(W, V)
        BY <1>3, <1>4, <1>5, <1>8, <1>9, <1>11, <1>13, <2>1 DEF Same
    <2> QED
        BY <1>10, <2>1, <2>2
<1> QED
    BY <1>7, <1>12, <1>13 DEF GivenOn, w

\* A step that touches none of the places of the way
LEMMA SameWay ==
    ASSUME NEW c \in Ends, UNCHANGED <<got, in, fromTNC>>, resp'[c] = resp[c],
           \A l \in Level : Hand(l, Onto(l, c))' = Hand(l, Onto(l, c)),
           \A d \in Chains : Held(d)' = Held(d)
    PROVE  Same(Way(c), Way(c)')
<1>1. \A r \in Places : r \in {1, 2, 3, 4, 5, 6, 7, 8, 9, 10, 11}
    BY DEF Places
<1>2. /\ Hand("conn", c)' = Hand("conn", c) /\ Hand("port", "conn")' = Hand("port", "conn")
      /\ Hand("tnc", "port")' = Hand("tnc", "port")
    BY DEF Onto, Level
<1>3. Held("port")' = Held("port") /\ Held("conn")' = Held("conn")
    BY DEF Chains
<1> QED
    BY <1>1, <1>2, <1>3, WayIs, WayIsNext DEF Same

LEMMA WayForward == ASSUME NEW c \in Ends, BaseInv, NEW x \in Chains, ChainForward(x) PROVE Moves(c)
<1> DEFINE W == Way(c)
           V == Way(c)'
           f == chain[x]
           a == InAt[x]
<1>1. f \in Sound /\ x \in Level
    BY SoundIs DEF BaseInv, TypeInv, ChainForward, Chains, Level
<1>2. /\ UNCHANGED <<got, fromTNC, run, resp>> /\ f \in Frame
      /\ chain \in [Chains -> Sound \cup {F("off"), F("idle"), F("exited")}]
      /\ chain'[x] \in {F("idle"), F("exited")} /\ \A d \in Chains : d # x => chain'[d] = chain[d]
    BY DEF BaseInv, TypeInv, ChainForward, tncVars
<1>3. Held(x) = <<f>> /\ Held(x)' = <<>> /\ \A d \in Chains : d # x => Held(d)' = Held(d)
    BY <1>2, SoundIs DEF Held
<1>4. /\ \A m \in Level : m # x => in'[m] = in[m]
      /\ \/ in[x] = <<>> /\ in'[x] = <<f>> /\ lost' = lost
         \/ in'[x] = in[x] /\ lost' = lost \cup Told(<<f>>)
    <2>1. CASE closed[x]
        BY <2>1 DEF ChainForward
    <2>2. CASE ~closed[x]
        <3>1. Enqueue(x, f)
            BY <2>2 DEF ChainForward
        <3> HIDE DEF f
        <3> QED
            BY <1>1, <3>1, EnqueueIs
    <2> QED
        BY <2>1, <2>2
<1>5. /\ a \in Places /\ a + 1 \in Places /\ a \in Nat /\ W[a] = in[x] /\ V[a] = in'[x]
      /\ W[a + 1] = Held(x) /\ V[a + 1] = Held(x)'
      /\ \A r \in Places : r # a /\ r # a + 1 => V[r] = W[r]
    <2>1. \A r \in Places : r \in {1, 2, 3, 4, 5, 6, 7, 8, 9, 10, 11}
        BY DEF Places
    <2>2. \A l \in Level : \A d : Hand(l, d)' = Hand(l, d)
        BY <1>2 DEF Hand
    <2>3. CASE x = "port"
        <3>1. a = 7
            BY <2>3 DEF InAt, Level
        <3>2. in'["tnc"] = in["tnc"] /\ in'["conn"] = in["conn"] /\ Held("conn")' = Held("conn")
            BY <1>3, <1>4, <2>3 DEF Level, Chains
        <3>3. /\ Way(c)'[1] = Way(c)[1] /\ Way(c)'[2] = Way(c)[2] /\ Way(c)'[3] = Way(c)[3]
              /\ Way(c)'[4] = Way(c)[4] /\ Way(c)'[5] = Way(c)[5] /\ Way(c)'[6] = Way(c)[6]
              /\ Way(c)'[9] = Way(c)[9] /\ Way(c)'[10] = Way(c)[10] /\ Way(c)'[11] = Way(c)[11]
            BY <1>2, <2>2, <3>2, WayIs, WayIsNext DEF Level
        <3> QED
            BY <2>1, <2>3, <3>1, <3>3, WayIs, WayIsNext DEF Places
    <2>4. CASE x = "conn"
        <3>1. a = 4
            BY <2>4 DEF InAt, Level
        <3>2. in'["tnc"] = in["tnc"] /\ in'["port"] = in["port"] /\ Held("port")' = Held("port")
            BY <1>3, <1>4, <2>4 DEF Level, Chains
        <3>3. /\ Way(c)'[1] = Way(c)[1] /\ Way(c)'[2] = Way(c)[2] /\ Way(c)'[3] = Way(c)[3]
              /\ Way(c)'[6] = Way(c)[6] /\ Way(c)'[7] = Way(c)[7] /\ Way(c)'[8] = Way(c)[8]
              /\ Way(c)'[9] = Way(c)[9] /\ Way(c)'[10] = Way(c)[10] /\ Way(c)'[11] = Way(c)[11]
            BY <1>2, <2>2, <3>2, WayIs, WayIsNext DEF Level
        <3> QED
            BY <2>1, <2>4, <3>1, <3>3, WayIs, WayIsNext DEF Places
    <2> QED
        BY <2>3, <2>4 DEF Chains
<1> HIDE DEF W, V, f, a
<1>6. W[a + 1] # <<>> /\ Head(W[a + 1]) = f /\ V[a + 1] = Tail(W[a + 1])
    BY <1>3, <1>5
<1>7. CASE in[x] = <<>> /\ in'[x] = <<f>> /\ lost' = lost
    <2>1. \A r \in Places : ~(a < r /\ r < a + 1)
        BY <1>5 DEF Places
    <2>2. V[a] = Append(W[a], Head(W[a + 1]))
        BY <1>5, <1>6, <1>7
    <2>3. Advance(W, V, a, a + 1)
        BY <1>5, <1>6, <2>1, <2>2 DEF Advance
    <2> QED
        BY <1>7, <2>3 DEF Moves, W, V
<1>8. CASE in'[x] = in[x] /\ lost' = lost \cup Told(<<f>>)
    <2>1. Loss(W, V, a + 1)
        BY <1>5, <1>6, <1>8 DEF Loss
    <2>2. Counts(Head(W[a + 1]))
        BY <1>1, <1>6, <1>8, CountsTold
    <2> QED
        BY <2>1, <2>2 DEF Moves, W, V
<1> QED
    BY <1>4, <1>7, <1>8

LEMMA WayTNCRun == ASSUME NEW c \in Ends, BaseInv, TNCRun PROVE Moves(c)
<1> DEFINE W == Way(c)
           V == Way(c)'
           f == Head(fromTNC)
<1>1. fromTNC \in Seq(Sound) /\ fromTNC # <<>> /\ "tnc" \in Level /\ "port" \in Level /\ "conn" \in Level
    BY DEF BaseInv, TypeInv, TNCRun, Level
<1>2. f \in Sound /\ Enqueue("tnc", f) /\ fromTNC' = Tail(fromTNC) /\ UNCHANGED <<run, chain, resp, got>>
    BY <1>1, TailIs DEF TNCRun
<1>3. /\ in'["port"] = in["port"] /\ in'["conn"] = in["conn"]
      /\ \/ in["tnc"] = <<>> /\ in'["tnc"] = <<f>> /\ lost' = lost
         \/ in'["tnc"] = in["tnc"] /\ lost' = lost \cup Told(<<f>>)
    <2> HIDE DEF f
    <2> QED
        BY <1>1, <1>2, EnqueueIs
<1>4. /\ W[10] = in["tnc"] /\ V[10] = in'["tnc"] /\ W[11] = fromTNC /\ V[11] = Tail(fromTNC)
    BY <1>2, WayIs, WayIsNext
<1>5. /\ V[1] = W[1] /\ V[2] = W[2] /\ V[3] = W[3] /\ V[4] = W[4] /\ V[5] = W[5] /\ V[6] = W[6]
      /\ V[7] = W[7] /\ V[8] = W[8] /\ V[9] = W[9]
    <2>1. \A l \in Level : \A d : Hand(l, d)' = Hand(l, d)
        BY <1>2 DEF Hand
    <2>2. \A d : Held(d)' = Held(d)
        BY <1>2 DEF Held
    <2> QED
        BY <1>1, <1>2, <1>3, <2>1, <2>2, WayIs, WayIsNext
<1> HIDE DEF W, V, f
<1>6. \A r \in Places : r # 10 /\ r # 11 => V[r] = W[r]
    <2>1. \A r \in Places : r \in {1, 2, 3, 4, 5, 6, 7, 8, 9, 10, 11}
        BY DEF Places
    <2> QED
        BY <1>5, <2>1
<1>7. 10 \in Places /\ 11 \in Places /\ \A r \in Places : ~(10 < r /\ r < 11)
    BY DEF Places
<1>8. CASE in["tnc"] = <<>> /\ in'["tnc"] = <<f>> /\ lost' = lost
    <2>1. V[10] = Append(W[10], Head(W[11])) /\ V[11] = Tail(W[11]) /\ W[11] # <<>>
        BY <1>1, <1>4, <1>8 DEF f
    <2>2. Advance(W, V, 10, 11)
        BY <1>6, <1>7, <2>1 DEF Advance
    <2> QED
        BY <1>8, <2>2 DEF Moves, W, V
<1>9. CASE in'["tnc"] = in["tnc"] /\ lost' = lost \cup Told(<<f>>)
    <2>1. V[10] = W[10] /\ V[11] = Tail(W[11]) /\ W[11] # <<>> /\ Head(W[11]) = f
        BY <1>1, <1>4, <1>9 DEF f
    <2>2. Loss(W, V, 11)
        BY <1>6, <1>7, <2>1 DEF Loss
    <2>3. Counts(Head(W[11]))
        BY <1>2, <1>9, <2>1, CountsTold
    <2> QED
        BY <2>2, <2>3 DEF Moves, W, V
<1> QED
    BY <1>3, <1>8, <1>9

LEMMA WayRead == ASSUME NEW c \in Ends, BaseInv, Read PROVE Moves(c)
<1>0. "data" \in Client /\ c \in Client /\ resp \in [Client -> Seq(Sound)] /\ UNCHANGED <<in, fromTNC, run, chain, lost>>
    BY EndsAre DEF BaseInv, TypeInv, Read, tncVars, Ends
<1>1. /\ \A l \in Level : \A d : Hand(l, d)' = Hand(l, d)
      /\ \A d : Held(d)' = Held(d)
    BY <1>0 DEF Hand, Held
<1>2. CASE resp["data"] = <<>> /\ UNCHANGED <<got, resp>>
    <2>1. Same(Way(c), Way(c)')
        BY <1>0, <1>1, <1>2, SameWay
    <2> QED
        BY <1>0, <2>1 DEF Moves
<1>3. CASE /\ resp["data"] # <<>> /\ got' = Append(got, Head(resp["data"]))
           /\ resp' = [resp EXCEPT !["data"] = Tail(@)]
    <2> DEFINE W == Way(c)
               V == Way(c)'
    <2>1. CASE c = "data"
        <3>1. /\ W[1] = got /\ V[1] = got' /\ W[2] = resp["data"] /\ V[2] = Tail(resp["data"])
            BY <1>0, <1>3, <2>1, WayIs, WayIsNext
        <3>2. \A r \in Places : r # 1 /\ r # 2 => V[r] = W[r]
            <4>1. \A r \in Places : r \in {1, 2, 3, 4, 5, 6, 7, 8, 9, 10, 11}
                BY DEF Places
            <4>2. "tnc" \in Level /\ "port" \in Level /\ "conn" \in Level
                BY DEF Level
            <4>3. /\ Way(c)'[3] = Way(c)[3] /\ Way(c)'[4] = Way(c)[4] /\ Way(c)'[5] = Way(c)[5]
                  /\ Way(c)'[6] = Way(c)[6] /\ Way(c)'[7] = Way(c)[7] /\ Way(c)'[8] = Way(c)[8]
                  /\ Way(c)'[9] = Way(c)[9] /\ Way(c)'[10] = Way(c)[10] /\ Way(c)'[11] = Way(c)[11]
                BY <1>0, <1>1, <4>2, WayIs, WayIsNext
            <4> QED
                BY <4>1, <4>3
        <3>3. 1 \in Places /\ 2 \in Places /\ \A r \in Places : ~(1 < r /\ r < 2)
            BY DEF Places
        <3> HIDE DEF W, V
        <3>4. Advance(W, V, 1, 2)
            BY <1>3, <3>1, <3>2, <3>3 DEF Advance
        <3> QED
            BY <1>0, <3>4 DEF Moves, W, V
    <2>2. CASE c # "data"
        <3>1. resp'[c] = resp[c] /\ c = "y"
            BY <1>0, <1>3, <2>2 DEF Ends
        <3>2. \A r \in Places : V[r] = W[r]
            <4>1. \A r \in Places : r \in {1, 2, 3, 4, 5, 6, 7, 8, 9, 10, 11}
                BY DEF Places
            <4>2. "tnc" \in Level /\ "port" \in Level /\ "conn" \in Level
                BY DEF Level
            <4>3. /\ Way(c)'[1] = Way(c)[1] /\ Way(c)'[2] = Way(c)[2] /\ Way(c)'[3] = Way(c)[3]
                  /\ Way(c)'[4] = Way(c)[4] /\ Way(c)'[5] = Way(c)[5] /\ Way(c)'[6] = Way(c)[6]
                  /\ Way(c)'[7] = Way(c)[7] /\ Way(c)'[8] = Way(c)[8] /\ Way(c)'[9] = Way(c)[9]
                  /\ Way(c)'[10] = Way(c)[10] /\ Way(c)'[11] = Way(c)[11]
                BY <1>0, <1>1, <2>2, <3>1, <4>2, WayIs, WayIsNext
            <4> QED
                BY <4>1, <4>3
        <3> QED
            BY <1>0, <3>2 DEF Moves, Same
    <2> QED
        BY <2>1, <2>2
<1> QED
    BY <1>2, <1>3 DEF Read

\* A frame comes in from the TNC
Enters(f) ==
    /\ fromTNC' = Append(fromTNC, f) /\ UNCHANGED <<in, run, chain, resp, got, lost>>
    /\ IF f.k = "D" THEN f.n = remote + 1 /\ remote' = remote + 1 /\ link = "up" ELSE remote' = remote
    /\ f.k = "d" => link' = "gone"
Step(c) ==
    \/ Moves(c) /\ remote' = remote
    \/ c = "y" /\ Clear(Way(c), Way(c)') /\ remote' = remote
    \/ \E f \in Sound : Enters(f) /\ Enter(Way(c), Way(c)', f)

LEMMA WayEnter == ASSUME NEW c \in Ends, NEW f \in Sound, Enters(f) PROVE Step(c)
<1>1. /\ \A l \in Level : \A d : Hand(l, d)' = Hand(l, d)
      /\ \A d : Held(d)' = Held(d)
    BY DEF Hand, Held, Enters
<1>2. \A r \in Places : r \in {1, 2, 3, 4, 5, 6, 7, 8, 9, 10, 11}
    BY DEF Places
<1>3. "tnc" \in Level /\ "port" \in Level /\ "conn" \in Level
    BY DEF Level
<1>4. Enter(Way(c), Way(c)', f)
    <2>1. /\ Way(c)'[1] = Way(c)[1] /\ Way(c)'[2] = Way(c)[2] /\ Way(c)'[3] = Way(c)[3]
          /\ Way(c)'[4] = Way(c)[4] /\ Way(c)'[5] = Way(c)[5] /\ Way(c)'[6] = Way(c)[6]
          /\ Way(c)'[7] = Way(c)[7] /\ Way(c)'[8] = Way(c)[8] /\ Way(c)'[9] = Way(c)[9]
          /\ Way(c)'[10] = Way(c)[10]
        BY <1>1, <1>3, WayIs, WayIsNext DEF Enters
    <2>2. Way(c)'[11] = Append(Way(c)[11], f)
        BY WayIs, WayIsNext DEF Enters
    <2> QED
        BY <1>2, <2>1, <2>2 DEF Enter
<1> QED
    BY <1>4 DEF Step

LEMMA StepSame == ASSUME NEW c \in Ends, Same(Way(c), Way(c)'), UNCHANGED <<lost, remote>> PROVE Step(c)
BY DEF Step, Moves

LEMMA WayOthers ==
    ASSUME NEW c \in Ends, BaseInv,
           \/ \E l \in Level : RunRequest(l) \/ RunExit(l)
           \/ TNCExit \/ TeardownStep \/ TNC \/ UNCHANGED vars
           \/ \E x \in Chains : ChainExit(x)
    PROVE  Step(c)
<1>1. ASSUME UNCHANGED <<got, in, fromTNC, run, chain, lost, remote>>, resp'[c] = resp[c] PROVE Step(c)
    <2>1. /\ \A l \in Level : \A d : Hand(l, d)' = Hand(l, d)
          /\ \A d : Held(d)' = Held(d)
        BY <1>1 DEF Hand, Held
    <2>2. Same(Way(c), Way(c)')
        BY <1>1, <2>1, SameWay
    <2> QED
        BY <1>1, <2>2, StepSame
<1>2. ASSUME NEW l \in Level, RunRequest(l) PROVE Step(c)
    BY <1>1, <1>2 DEF RunRequest, tncVars, userVars
<1>3. ASSUME NEW l \in Level, RunExit(l) PROVE Step(c)
    <2>1. run \in RunType /\ run' = [run EXCEPT ![l].on = FALSE]
        BY <1>3 DEF BaseInv, TypeInv, RunType, RunExit
    <2>2. /\ run'[l].todo = run[l].todo /\ run'[l].f = run[l].f
          /\ \A m \in Level : m # l => run'[m] = run[m]
        BY <2>1, RunOff
    <2>3. UNCHANGED <<got, in, fromTNC, resp, chain, lost, remote>>
        BY <1>3 DEF RunExit, tncVars, userVars
    <2>4. /\ \A m \in Level : \A d : Hand(m, d)' = Hand(m, d)
          /\ \A d : Held(d)' = Held(d)
        BY <2>2, <2>3 DEF Hand, Held
    <2>5. Same(Way(c), Way(c)')
        BY <2>3, <2>4, SameWay
    <2> QED
        BY <2>3, <2>5, StepSame
<1>4. CASE TNCExit \/ TeardownStep \/ UNCHANGED vars
    BY <1>1, <1>4 DEF TNCExit, TeardownStep, vars, tncVars, demuxVars, userVars
<1>5. ASSUME NEW x \in Chains, ChainExit(x) PROVE Step(c)
    <2>1. UNCHANGED <<got, in, fromTNC, run, resp, lost, remote>>
        BY <1>5 DEF ChainExit, tncVars, userVars
    <2>2. \A d \in Chains : Held(d)' = Held(d)
        <3>1. /\ chain \in [Chains -> Sound \cup {F("off"), F("idle"), F("exited")}]
              /\ chain[x] = F("idle") /\ chain' = [chain EXCEPT ![x] = F("exited")]
            BY <1>5 DEF ChainExit, BaseInv, TypeInv
        <3> QED
            BY <3>1, SoundIs DEF Held
    <2>3. \A m \in Level : \A d : Hand(m, d)' = Hand(m, d)
        BY <2>1 DEF Hand
    <2>4. Same(Way(c), Way(c)')
        BY <2>1, <2>2, <2>3, SameWay
    <2> QED
        BY <2>1, <2>4, StepSame
<1>6. CASE TNC
    <2>1. UNCHANGED <<in, run, chain, resp, got, lost>>
        BY <1>6 DEF TNC, TNCLink, TNCTransmit, RemoteData, LinkLost, TCPFail, demuxVars, userVars
    <2>2. CASE TNCTransmit \/ TCPFail
        BY <1>1, <2>1, <2>2 DEF TNCTransmit, TCPFail
    <2>3. /\ F("C") \in Sound /\ F("d") \in Sound /\ F("c") \in Sound
          /\ F("C").k = "C" /\ F("d").k = "d" /\ F("c").k = "c"
        BY DEF F, Sound, Frame
    <2>4. CASE TNCLink
        <3>1. \E f \in Sound : Enters(f)
            BY <2>1, <2>3, <2>4 DEF TNCLink, Emit, Enters
        <3> QED
            BY <3>1, WayEnter
    <2>5. CASE LinkLost
        <3>1. Enters(F("d"))
            BY <2>1, <2>3, <2>5 DEF LinkLost, Emit, Enters
        <3> QED
            BY <2>3, <3>1, WayEnter
    <2>6. CASE RemoteData
        <3> DEFINE f == [k |-> "D", n |-> remote + 1]
        <3>1. f \in Sound /\ f.k = "D" /\ f.n = remote + 1
            BY DEF Sound, Frame, BaseInv, TypeInv
        <3>2. fromTNC' = Append(fromTNC, f) /\ remote' = remote + 1 /\ link = "up"
            BY <2>6 DEF RemoteData, Emit
        <3> HIDE DEF f
        <3>3. Enters(f)
            BY <2>1, <3>1, <3>2 DEF Enters
        <3> QED
            BY <3>1, <3>3, WayEnter
    <2> QED
        BY <1>6, <2>2, <2>4, <2>5, <2>6 DEF TNC
<1> QED
    BY <1>2, <1>3, <1>4, <1>5, <1>6

\* The channel of c is emptied, and the hand that is offered to it
LEMMA ClearWay ==
    ASSUME NEW c \in Ends, UNCHANGED <<got, in, fromTNC>>, resp'[c] = <<>>,
           \A l \in Level : Hand(l, Onto(l, c))' \in {Hand(l, Onto(l, c)), <<>>},
           \A d \in Chains : Held(d)' = Held(d)
    PROVE  Clear(Way(c), Way(c)')
<1>1. \A r \in Places : r \in {1, 2, 3, 4, 5, 6, 7, 8, 9, 10, 11}
    BY DEF Places
<1>2. /\ Hand("conn", c)' \in {Hand("conn", c), <<>>}
      /\ Hand("port", "conn")' \in {Hand("port", "conn"), <<>>}
      /\ Hand("tnc", "port")' \in {Hand("tnc", "port"), <<>>}
    BY DEF Onto, Level
<1>3. Held("port")' = Held("port") /\ Held("conn")' = Held("conn")
    BY DEF Chains
<1> DEFINE P(r) == Way(c)'[r] = Way(c)[r] \/ Way(c)'[r] = <<>>
<1>4. P(1) /\ P(2) /\ P(3) /\ P(4) /\ P(5) /\ P(6) /\ P(7) /\ P(8) /\ P(9) /\ P(10) /\ P(11)
    BY <1>2, <1>3, WayIs, WayIsNext
<1> QED
    BY <1>1, <1>4 DEF Clear

LEMMA WayUser == ASSUME NEW c \in Ends, BaseInv, UserSteps PROVE Step(c)
<1>1. Shape /\ UNCHANGED <<got, lost, remote>>
    BY UserShape DEF Shape
<1>2. c \in Client /\ resp \in [Client -> Seq(Sound)]
    BY EndsAre DEF BaseInv, TypeInv
<1>3. ASSUME UNCHANGED <<in, fromTNC, run, chain>>, resp'[c] = resp[c] PROVE Step(c)
    <2>1. /\ \A l \in Level : \A d : Hand(l, d)' = Hand(l, d)
          /\ \A d : Held(d)' = Held(d)
        BY <1>3 DEF Hand, Held
    <2>2. Same(Way(c), Way(c)')
        BY <1>1, <1>3, <2>1, SameWay
    <2> QED
        BY <1>1, <2>2, StepSame
<1>4. CASE Still \/ Takes \/ Waits \/ Shuts("tnc") \/ Shuts("conn")
    BY <1>3, <1>4 DEF Still, Takes, Waits, Shuts, Frames, demuxVars, tncVars
<1>5. CASE Called
    BY <1>2, <1>3, <1>5 DEF Called, tncVars, Ends
<1>6. CASE Asks
    <2>1. PICK l \in Level : \E d \in At[l] \cap Once : NextFrame(l, d, u') /\ UNCHANGED tncVars
        BY <1>6 DEF Asks
    <2>2. PICK d \in At[l] \cap Once : NextFrame(l, d, u') /\ UNCHANGED tncVars
        BY <2>1
    <2>3. UNCHANGED <<in, fromTNC, run, chain>> /\ resp' = [resp EXCEPT ![d] = <<>>]
        BY <2>2 DEF NextFrame, tncVars
    <2>4. CASE d # c
        <3>1. resp'[c] = resp[c]
            BY <1>2, <2>3, <2>4
        <3> QED
            BY <1>3, <2>3, <3>1
    <2>5. CASE d = c
        <3>1. c = "y" /\ resp'[c] = <<>>
            BY <1>2, <2>2, <2>3, <2>5 DEF Ends, Once
        <3>2. Clear(Way(c), Way(c)')
            BY <1>1, <2>3, <3>1, ClearWay DEF Hand, Held
        <3> QED
            BY <1>1, <3>1, <3>2 DEF Step
    <2> QED
        BY <2>4, <2>5
<1>7. CASE Forgets
    <2>1. PICK l \in Level : \E d \in At[l] \cap Once : Forget(l, d) /\ UNCHANGED tncVars
        BY <1>7 DEF Forgets
    <2>2. PICK d \in At[l] \cap Once : Forget(l, d) /\ UNCHANGED tncVars
        BY <2>1
    <2>3. /\ run'[l].todo = run[l].todo \ {d}
          /\ ~(run[l].todo \subseteq {d}) => run'[l].f = run[l].f
          /\ \A m \in Level : m # l => run'[m] = run[m]
          /\ resp' = [resp EXCEPT ![d] = <<>>]
          /\ UNCHANGED <<in, chain>> /\ d \in Client
        BY <2>2, ForgetIs
    <2>4. fromTNC' = fromTNC
        BY <2>2 DEF tncVars
    <2>5. \A e : Held(e)' = Held(e)
        BY <2>3 DEF Held
    <2>6. \A m \in Level : \A e : Hand(m, e)' = Hand(m, e) \/ (m = l /\ e = d /\ Hand(m, e)' = <<>>)
        <3> SUFFICES ASSUME NEW m \in Level, NEW e
                     PROVE  Hand(m, e)' = Hand(m, e) \/ (m = l /\ e = d /\ Hand(m, e)' = <<>>)
            OBVIOUS
        <3>1. CASE m # l
            BY <2>3, <3>1 DEF Hand
        <3>2. CASE m = l /\ e = d
            BY <2>3, <3>2 DEF Hand
        <3>3. CASE m = l /\ e # d /\ e \in run[l].todo
            BY <2>3, <3>3 DEF Hand
        <3>4. CASE m = l /\ e # d /\ e \notin run[l].todo
            BY <2>3, <3>4 DEF Hand
        <3> QED
            BY <3>1, <3>2, <3>3, <3>4
    <2>7. CASE d # c
        <3>1. resp'[c] = resp[c]
            BY <1>2, <2>3, <2>7
        <3>2. Onto(l, c) # d
            BY <2>2, <2>7 DEF Onto, Once, Chains
        <3>3. \A m \in Level : Hand(m, Onto(m, c))' = Hand(m, Onto(m, c))
            BY <2>6, <3>2
        <3>4. Same(Way(c), Way(c)')
            BY <1>1, <2>3, <2>4, <2>5, <3>1, <3>3, SameWay
        <3> QED
            BY <1>1, <3>4, StepSame
    <2>8. CASE d = c
        <3>1. c = "y" /\ resp'[c] = <<>>
            BY <1>2, <2>2, <2>3, <2>8 DEF Ends, Once
        <3>2. \A m \in Level : Hand(m, Onto(m, c))' \in {Hand(m, Onto(m, c)), <<>>}
            BY <2>6
        <3>3. Clear(Way(c), Way(c)')
            BY <1>1, <2>3, <2>4, <2>5, <3>1, <3>2, ClearWay
        <3> QED
            BY <1>1, <3>1, <3>3 DEF Step
    <2> QED
        BY <2>7, <2>8
<1>8. CASE Sends
    <2>1. \/ UNCHANGED fromTNC
          \/ \E f \in Sound : /\ fromTNC' = Append(fromTNC, f) /\ f.k \notin {"D", "C", "c"}
                              /\ f.k = "d" => link' = "gone"
        BY <1>8, TNCTakesIs
    <2>2. UNCHANGED <<in, run, chain, resp>>
        BY <1>8 DEF Sends, demuxVars
    <2>3. CASE UNCHANGED fromTNC
        BY <1>3, <2>2, <2>3
    <2>4. ASSUME NEW f \in Sound, fromTNC' = Append(fromTNC, f), f.k \notin {"D", "C", "c"},
                 f.k = "d" => link' = "gone"
          PROVE  Step(c)
        <3>1. Enters(f)
            BY <1>1, <2>2, <2>4 DEF Enters
        <3> QED
            BY <3>1, WayEnter
    <2> QED
        BY <2>1, <2>3, <2>4
<1>9. ASSUME NEW x \in Chains, Starts(x) PROVE Step(c)
    <2>1. UNCHANGED <<in, fromTNC, run, resp>>
        BY <1>9 DEF Starts, tncVars
    <2>2. chain[x] = F("off")
        BY <1>9 DEF Starts, Chains, BaseInv, StartInv, BeforePort, BeforeConn
    <2>3. \A d \in Chains : Held(d)' = Held(d)
        <3>1. /\ chain \in [Chains -> Sound \cup {F("off"), F("idle"), F("exited")}]
              /\ chain' = chain \/ chain' = [chain EXCEPT ![x] = F("idle")]
            BY <1>9 DEF Starts, BaseInv, TypeInv
        <3> QED
            BY <2>2, <3>1, SoundIs DEF Held
    <2>4. \A l \in Level : \A d : Hand(l, d)' = Hand(l, d)
        BY <2>1 DEF Hand
    <2>5. Same(Way(c), Way(c)')
        BY <1>1, <2>1, <2>3, <2>4, SameWay
    <2> QED
        BY <1>1, <2>5, StepSame
<1> QED
    BY <1>1, <1>4, <1>5, <1>6, <1>7, <1>8, <1>9 DEF Shape

LEMMA WayStep == ASSUME NEW c \in Ends, BaseInv, [Next]_vars PROVE Step(c)
<1>1. ASSUME NEW l \in Level, RunTake(l) \/ RunDeliver(l) PROVE Step(c)
    <2>1. Moves(c)
        BY <1>1, WayTake, WayDeliver
    <2>2. remote' = remote
        BY <1>1 DEF RunTake, RunDeliver, tncVars
    <2> QED
        BY <2>1, <2>2 DEF Step
<1>2. ASSUME NEW x \in Chains, ChainForward(x) PROVE Step(c)
    BY <1>2, WayForward DEF Step, ChainForward, tncVars
<1>3. CASE TNCRun \/ Read
    BY <1>3, WayTNCRun, WayRead DEF Step, TNCRun, Read, tncVars
<1>4. CASE UserSteps
    BY <1>4, WayUser
<1>5. CASE Idle
    BY <1>5, WayOthers DEF Idle
<1> QED
    BY <1>1, <1>2, <1>3, <1>4, <1>5, WayOthers DEF Next, Goroutines

LEMMA SameFacts ==
    ASSUME NEW W, NEW V, IsWay(W), Same(W, V), DOMAIN V = Places
    PROVE  /\ On(V) = On(W)
           /\ \A R : Sorted(W, R) => Sorted(V, R)
           /\ \A m \in Places : \A S : Behind(W, m, S) => Behind(V, m, S)
<1>1. DOMAIN W = Places
    BY DEF IsWay
<1>2. On(V) = On(W)
    BY <1>1 DEF On, Same
<1>3. ASSUME NEW R, Sorted(W, R) PROVE Sorted(V, R)
    BY <1>1, <1>3 DEF Sorted, Same
<1>4. ASSUME NEW m \in Places, NEW S, Behind(W, m, S) PROVE Behind(V, m, S)
    <2>1. \A r \in m .. 11 : r \in Places
        BY DEF Places
    <2> QED
        BY <1>4, <2>1 DEF Behind, Same
<1> QED
    BY <1>2, <1>3, <1>4
-----------------------------------------------------------------------------
(***************************************************************************)
(* The order of the data.                                                  *)
(***************************************************************************)

LEMMA LinkGone == ASSUME BaseInv, [Next]_vars, link = "gone" PROVE link' = "gone"
<1>1. ASSUME UserSteps PROVE link' = "gone"
    <2>1. Shape
        BY <1>1, UserShape
    <2>2. Sends => link' = "gone"
        BY TNCTakesIs
    <2> QED
        BY <2>1, <2>2 DEF Shape, Still, Takes, Waits, Shuts, Called, Asks, Forgets, Starts, tncVars
<1>2. TNC => link' = "gone"
    BY DEF TNC, TNCLink, TNCTransmit, RemoteData, LinkLost, TCPFail
<1>3. Goroutines => link' = "gone"
    BY DEF Goroutines, RunRequest, RunTake, RunDeliver, RunExit, ChainForward, ChainExit, TNCRun, TNCExit,
           TeardownStep, tncVars
<1>4. Read => link' = "gone"
    BY DEF Read, tncVars
<1>5. Idle \/ UNCHANGED vars => link' = "gone"
    BY DEF Idle, vars, tncVars
<1> QED
    BY <1>1, <1>2, <1>3, <1>4, <1>5 DEF Next

\* A disconnect is on its way only when the link is gone
DiscOn == \A f \in On(Way("data")) : f.k = "d" => link = "gone"
OrderInv == DataInv /\ DiscOn

LEMMA WayEmpty == ASSUME NEW c \in Ends, Init PROVE \A r \in Places : Way(c)[r] = <<>>
<1> DEFINE W == Way(c)
<1>1. /\ \A l \in Level : \A d : Hand(l, d) = <<>>
      /\ Held("port") = <<>> /\ Held("conn") = <<>>
    BY SoundIs DEF Hand, Held, Init, Chains
<1>2. /\ got = <<>> /\ resp[c] = <<>> /\ in["tnc"] = <<>> /\ in["port"] = <<>>
      /\ in["conn"] = <<>> /\ fromTNC = <<>>
    BY EndsAre DEF Init, Level
<1>3. "tnc" \in Level /\ "port" \in Level /\ "conn" \in Level
    BY DEF Level
<1>4. \A r \in Places : r \in {1, 2, 3, 4, 5, 6, 7, 8, 9, 10, 11}
    BY DEF Places
<1>5. /\ W[1] = <<>> /\ W[2] = <<>> /\ W[3] = <<>> /\ W[4] = <<>> /\ W[5] = <<>> /\ W[6] = <<>>
      /\ W[7] = <<>> /\ W[8] = <<>> /\ W[9] = <<>> /\ W[10] = <<>> /\ W[11] = <<>>
    BY <1>1, <1>2, <1>3, WayIs
<1> QED
    BY <1>4, <1>5

LEMMA OrderInit == Init => OrderInv
<1> SUFFICES ASSUME Init PROVE OrderInv
    OBVIOUS
<1> DEFINE W == Way("data")
<1>0. "data" \in Ends
    BY DEF Ends
<1>1. \A r \in Places : W[r] = <<>>
    BY <1>0, WayEmpty
<1>2. DOMAIN W = Places
    BY <1>0, WayIs
<1> HIDE DEF W
<1>3. On(W) = {}
    BY <1>1, <1>2 DEF On, Range
<1>4. Sorted(W, DataOrder)
    BY <1>1, <1>2 DEF Sorted
<1>5. remote = 0 /\ lost = {}
    BY DEF Init
<1> QED
    BY <1>3, <1>4, <1>5 DEF OrderInv, DataInv, DiscOn, W

LEMMA OrderStep == ASSUME BaseInv, BaseInv', OrderInv, [Next]_vars PROVE OrderInv'
<1> DEFINE W == Way("data")
           V == Way("data")'
<1>0. "data" \in Ends
    BY DEF Ends
<1>1. IsWay(W) /\ DOMAIN V = Places
    BY <1>0, IsWayNow, WayIsNext
<1>2. Step("data")
    BY <1>0, WayStep
<1>3. link = "gone" => link' = "gone"
    BY LinkGone
<1>4. /\ Sorted(W, DataOrder)
      /\ \A n \in 1 .. remote : n \in lost \/ [k |-> "D", n |-> n] \in On(W)
      /\ \A f \in On(W) : f.k = "D" => f.n <= remote /\ f.n \notin lost
      /\ \A n \in lost : n <= remote
      /\ \A f \in On(W) : f.k = "d" => link = "gone"
    BY DEF OrderInv, DataInv, DiscOn
<1>5. remote \in Nat /\ lost \subseteq Nat /\ lost' \subseteq Nat
    BY DEF BaseInv, TypeInv
<1>6. \A f \in On(W) : f \in Sound
    <2>1. \A p \in Places : \A i \in DOMAIN W[p] : W[p][i] \in Sound
        BY <1>1 DEF IsWay
    <2> QED
        BY <1>1, <2>1 DEF On, Range, IsWay
<1> HIDE DEF W, V
<1>7. ASSUME /\ Sorted(V, DataOrder)
             /\ \A n \in 1 .. remote' : n \in lost' \/ [k |-> "D", n |-> n] \in On(V)
             /\ \A f \in On(V) : f.k = "D" => f.n <= remote' /\ f.n \notin lost'
             /\ \A n \in lost' : n <= remote'
             /\ \A f \in On(V) : f.k = "d" => link' = "gone"
      PROVE  OrderInv'
    BY <1>7 DEF OrderInv, DataInv, DiscOn, V
\* Nothing is lost
<1>8. ASSUME On(V) = On(W), Sorted(V, DataOrder), lost' \ {0} = lost \ {0}, remote' = remote
      PROVE  OrderInv'
    <2>1. \A n \in Nat : n > 0 => (n \in lost' <=> n \in lost)
        BY <1>5, <1>8
    <2>2. \A f \in On(V) : f.k = "D" => f.n <= remote' /\ f.n \notin lost'
        BY <1>4, <1>6, <1>8, <2>1, SoundIs
    <2>3. \A n \in 1 .. remote' : n \in lost' \/ [k |-> "D", n |-> n] \in On(V)
        <3> SUFFICES ASSUME NEW n \in 1 .. remote PROVE n \in lost' \/ [k |-> "D", n |-> n] \in On(V)
            BY <1>8
        <3>1. n \in Nat /\ n > 0
            BY <1>5
        <3> QED
            BY <1>4, <1>8, <2>1, <3>1
    <2>4. \A n \in lost' : n <= remote'
        BY <1>4, <1>5, <1>8, <2>1
    <2> QED
        BY <1>3, <1>4, <1>7, <1>8, <2>2, <2>3, <2>4
<1>9. CASE Same(W, V) /\ lost' \ {0} = lost \ {0} /\ remote' = remote
    BY <1>1, <1>4, <1>8, <1>9, SameFacts
<1>10. ASSUME NEW p, NEW q, Advance(W, V, p, q), lost' \ {0} = lost \ {0}, remote' = remote
       PROVE  OrderInv'
    BY <1>1, <1>4, <1>8, <1>10, SortedAdvance, OnAdvance
<1>11. ASSUME NEW q, Loss(W, V, q), Counts(Head(W[q])), remote' = remote PROVE OrderInv'
    <2> DEFINE h == Head(W[q])
    <2>1. /\ h \in On(W) /\ h \in Sound /\ On(V) \subseteq On(W) /\ On(W) \subseteq On(V) \cup {h}
          /\ Sorted(V, DataOrder)
          /\ \A f \in On(V) : <<f, h>> \in DataOrder \/ <<h, f>> \in DataOrder
        BY <1>1, <1>4, <1>11, LossFacts
    <2>2. lost' \ {0} = (lost \ {0}) \cup (IF h.k = "D" THEN {h.n} ELSE {})
        BY <1>11 DEF Counts
    <2> HIDE DEF h
    <2>3. \A n \in Nat : n > 0 => (n \in lost' <=> n \in lost \/ (h.k = "D" /\ n = h.n))
        BY <1>5, <2>1, <2>2, SoundIs
    <2>4. h.n \in Nat /\ (h.k = "D" => h.n > 0 /\ h.n <= remote)
        BY <1>4, <2>1, SoundIs
    <2>5. \A f \in On(V) : f.k = "D" => f.n <= remote' /\ f.n \notin lost'
        <3> SUFFICES ASSUME NEW f \in On(V), f.k = "D" PROVE f.n <= remote' /\ f.n \notin lost'
            OBVIOUS
        <3>1. f \in Sound /\ f.n <= remote /\ f.n \notin lost /\ f.n \in Nat /\ f.n > 0
            BY <1>4, <1>6, <2>1, SoundIs
        <3>2. h.k = "D" => f.n # h.n
            <4>1. <<f, h>> \in DataOrder /\ h.k = "D" => f.n < h.n
                BY DEF DataOrder
            <4>2. <<h, f>> \in DataOrder /\ h.k = "D" => h.n < f.n
                BY DEF DataOrder
            <4> QED
                BY <2>1, <2>4, <3>1, <4>1, <4>2
        <3> QED
            BY <1>11, <2>3, <3>1, <3>2
    <2>6. \A n \in 1 .. remote' : n \in lost' \/ [k |-> "D", n |-> n] \in On(V)
        <3> SUFFICES ASSUME NEW n \in 1 .. remote, n \notin lost' PROVE [k |-> "D", n |-> n] \in On(V)
            BY <1>11
        <3>1. n \in Nat /\ n > 0 /\ n \notin lost /\ ~(h.k = "D" /\ n = h.n)
            BY <1>5, <2>3
        <3>2. [k |-> "D", n |-> n] \in On(W)
            BY <1>4, <3>1
        <3>3. [k |-> "D", n |-> n] # h
            BY <3>1
        <3> QED
            BY <2>1, <3>2, <3>3
    <2>7. \A n \in lost' : n <= remote'
        BY <1>4, <1>5, <1>11, <2>3, <2>4
    <2> QED
        BY <1>3, <1>4, <1>7, <2>1, <2>5, <2>6, <2>7
<1>12. ASSUME NEW f \in Sound, Enters(f), Enter(W, V, f) PROVE OrderInv'
    <2>1. /\ On(V) = On(W) \cup {f}
          /\ (\A g \in On(W) : <<g, f>> \in DataOrder) => Sorted(V, DataOrder)
        BY <1>1, <1>4, <1>12, EnterFacts
    <2>2. /\ lost' = lost /\ (f.k = "d" => link' = "gone")
          /\ f.k = "D" => f.n = remote + 1 /\ remote' = remote + 1 /\ link = "up"
          /\ f.k # "D" => remote' = remote
        BY <1>12 DEF Enters
    <2>3. \A g \in On(W) : <<g, f>> \in DataOrder
        <3> SUFFICES ASSUME NEW g \in On(W) PROVE <<g, f>> \in DataOrder
            OBVIOUS
        <3>1. g \in Sound /\ (g.k = "D" => g.n <= remote) /\ (g.k = "d" => link = "gone") /\ g.n \in Nat
            BY <1>4, <1>6, SoundIs
        <3>2. /\ g.k = "D" /\ f.k = "D" => g.n < f.n
              /\ ~(g.k = "d" /\ f.k = "D")
            BY <1>5, <2>2, <3>1
        <3> QED
            BY <3>1, <3>2 DEF DataOrder
    <2>4. \A g \in On(V) : g.k = "d" => link' = "gone"
        BY <1>3, <1>4, <2>1, <2>2
    <2>5. remote <= remote' /\ remote' \in Nat
        BY <1>5, <2>2
    <2>6. \A n \in lost' : n <= remote'
        BY <1>4, <1>5, <2>2, <2>5
    <2>7. \A g \in On(V) : g.k = "D" => g.n <= remote' /\ g.n \notin lost'
        <3>1. ASSUME NEW g \in On(W), g.k = "D" PROVE g.n <= remote' /\ g.n \notin lost'
            BY <1>4, <1>5, <1>6, <2>2, <2>5, <3>1, SoundIs
        <3>2. f.k = "D" => f.n <= remote' /\ f.n \notin lost'
            BY <1>4, <1>5, <2>2
        <3> QED
            BY <2>1, <3>1, <3>2
    <2>8. \A n \in 1 .. remote' : n \in lost' \/ [k |-> "D", n |-> n] \in On(V)
        <3> SUFFICES ASSUME NEW n \in 1 .. remote', n \notin lost PROVE [k |-> "D", n |-> n] \in On(V)
            BY <2>2
        <3>1. CASE n \in 1 .. remote
            BY <1>4, <2>1, <3>1
        <3>2. CASE n \notin 1 .. remote
            <4>1. f.k = "D" /\ n = remote + 1 /\ f.n = n
                BY <1>5, <2>2, <2>5, <3>2
            <4>2. f = [k |-> "D", n |-> n]
                BY <4>1 DEF Sound, Frame
            <4> QED
                BY <2>1, <4>2
        <3> QED
            BY <3>1, <3>2
    <2> QED
        BY <1>7, <2>1, <2>3, <2>4, <2>6, <2>7, <2>8
<1> QED
    BY <1>2, <1>9, <1>10, <1>11, <1>12 DEF Step, Moves, W, V

LEMMA OrderShows == ASSUME BaseInv, OrderInv PROVE OnlyDropsLose
<1> DEFINE W == Way("data")
           data == [p \in DOMAIN W |-> Data(W[p])]
           kept == UNION Range(data)
<1>0. "data" \in Ends
    BY DEF Ends
<1>1. IsWay(W) /\ DOMAIN W = Places
    BY <1>0, IsWayNow, WayIs
<1>2. /\ Sorted(W, DataOrder)
      /\ \A n \in 1 .. remote : n \in lost \/ [k |-> "D", n |-> n] \in On(W)
      /\ \A f \in On(W) : f.k = "D" => f.n <= remote /\ f.n \notin lost
      /\ \A n \in lost : n <= remote
    BY DEF OrderInv, DataInv
<1>3. remote \in Nat /\ lost \subseteq Nat
    BY DEF BaseInv, TypeInv
<1> HIDE DEF W
<1>4. ASSUME NEW p \in Places, NEW i \in DOMAIN W[p]
      PROVE  W[p][i] \in Sound /\ W[p][i] \in On(W) /\ i \in Nat
    <2>1. W[p] \in Seq(Sound)
        BY <1>1 DEF IsWay
    <2> QED
        BY <1>1, <1>4, <2>1 DEF On, Range
<1>5. ASSUME NEW p \in Places, NEW q \in Places, NEW i \in DOMAIN W[p], NEW j \in DOMAIN W[q],
             p < q \/ (p = q /\ i < j), W[p][i].k = "D", W[q][j].k = "D"
      PROVE  W[p][i].n < W[q][j].n
    <2>1. <<W[p][i], W[q][j]>> \in DataOrder
        BY <1>1, <1>2, <1>5 DEF Sorted
    <2> QED
        BY <1>5, <2>1 DEF DataOrder
<1>6. \A p \in Places : data[p] = Data(W[p]) /\ DOMAIN data = Places
    BY <1>1
<1>7. \A p \in Places : InOrder(W[p])
    BY <1>5 DEF InOrder
<1>8. \A p \in Places : \A n \in data[p] : \A q \in 1 .. p - 1 : \A m \in data[q] : m < n
    <2> SUFFICES ASSUME NEW p \in Places, NEW n \in data[p], NEW q \in 1 .. p - 1, NEW m \in data[q]
                 PROVE  m < n
        OBVIOUS
    <2>1. q \in Places /\ q < p
        BY DEF Places
    <2>2. PICK i \in DOMAIN W[p] : W[p][i].k = "D" /\ n = W[p][i].n
        BY <1>6 DEF Data
    <2>3. m \in Data(W[q])
        BY <1>6, <2>1
    <2>4. PICK j \in DOMAIN W[q] : W[q][j].k = "D" /\ m = W[q][j].n
        BY <2>3 DEF Data
    <2> QED
        BY <1>5, <2>1, <2>2, <2>4
<1>9. \A n : n \in kept <=> \E f \in On(W) : f.k = "D" /\ n = f.n
    <2>1. ASSUME NEW n \in kept PROVE \E f \in On(W) : f.k = "D" /\ n = f.n
        <3>0. DOMAIN data = Places
            BY <1>1
        <3>1. PICK p \in Places : n \in data[p]
            <4> HIDE DEF data
            <4> QED
                BY <3>0 DEF Range
        <3>2. PICK i \in DOMAIN W[p] : W[p][i].k = "D" /\ n = W[p][i].n
            BY <1>6, <3>1 DEF Data
        <3> QED
            BY <1>4, <3>2
    <2>2. ASSUME NEW f \in On(W), f.k = "D" PROVE f.n \in kept
        <3>1. PICK p \in Places : f \in Range(W[p])
            BY <1>1 DEF On
        <3>2. f.n \in Data(W[p])
            BY <2>2, <3>1 DEF Range, Data
        <3> QED
            BY <1>6, <3>1, <3>2 DEF Range
    <2> QED
        BY <2>1, <2>2
<1> HIDE DEF data, kept
<1>10. \A f \in On(W) : f \in Sound
    BY <1>1, <1>4 DEF On, Range
<1>11. kept \cap (lost \ {0}) = {}
    BY <1>2, <1>9
<1>12. kept \cup (lost \ {0}) = 1 .. remote
    <2>1. ASSUME NEW n \in kept PROVE n \in 1 .. remote
        BY <1>2, <1>3, <1>9, <1>10, SoundIs
    <2>2. ASSUME NEW n \in lost, n # 0 PROVE n \in 1 .. remote
        BY <1>2, <1>3, <2>2
    <2>3. ASSUME NEW n \in 1 .. remote, n \notin lost PROVE n \in kept
        <3>1. [k |-> "D", n |-> n] \in On(W)
            BY <1>2, <2>3
        <3> QED
            BY <1>9, <3>1
    <2>4. 0 \notin 1 .. remote
        BY <1>3
    <2> QED
        BY <2>1, <2>2, <2>3, <2>4
<1> QED
    BY <1>1, <1>6, <1>7, <1>8, <1>11, <1>12 DEF OnlyDropsLose, W, data, kept

\* What the remote station sent is read in order and once; what is not read is
\* on its way or was dropped by a demultiplexer that was full or closed.
THEOREM DataIsInOrder == Spec => []OnlyDropsLose
<1>1. Init => BaseInv /\ OrderInv
    BY BaseInit, OrderInit
<1>2. BaseInv /\ OrderInv /\ [Next]_vars => (BaseInv /\ OrderInv)'
    <2> SUFFICES ASSUME BaseInv, OrderInv, [Next]_vars PROVE BaseInv' /\ OrderInv'
        OBVIOUS
    <2>1. BaseInv'
        BY BaseStep
    <2> QED
        BY <2>1, OrderStep
<1>3. BaseInv /\ OrderInv => OnlyDropsLose
    BY OrderShows
<1> QED
    BY <1>1, <1>2, <1>3, PTL DEF Spec
-----------------------------------------------------------------------------
(***************************************************************************)
(* What is closed stays closed, and a client that is no one-shot stays     *)
(* registered until it is cancelled or the demultiplexer ends.             *)
(***************************************************************************)
Lasting(l) ==
    /\ run'[l].on => run[l].on
    /\ closed[l] => closed'[l]
    /\ ~run'[l].on => ~run[l].on \/ closed[l]
    /\ \A d \in Range(clients[l]) : run'[l].on => d \in Range(clients'[l]) \/ d \in Once \/ d \in cancelled

LEMMA LastingGiven ==
    ASSUME NEW l \in Level, NEW f \in Sound, NEW T, NEW d, BaseInv, Given(l, f, T, d), T \subseteq Wanting(l, f),
           UNCHANGED closed
    PROVE  \A m \in Level : Lasting(m)
<1>1. Handed(l, f, T, d)
    BY GivenType
<1>2. d \in Once \/ d \in cancelled \/ clients' = clients
    BY DEF Given
<1>3. ASSUME NEW m \in Level PROVE Lasting(m)
    <2>1. run'[m].on = run[m].on
        BY <1>1 DEF Handed
    <2>2. \A e \in Range(clients[m]) : e \in Range(clients'[m]) \/ e = d \/ clients' = clients
        BY <1>1 DEF Handed
    <2> QED
        BY <1>2, <2>1, <2>2 DEF Lasting
<1> QED
    BY <1>3

LEMMA LastingStep == ASSUME BaseInv, [Next]_vars PROVE \A l \in Level : Lasting(l)
<1>1. ASSUME UNCHANGED <<run, clients>>, \A l \in Level : closed[l] => closed'[l] PROVE \A l \in Level : Lasting(l)
    BY <1>1 DEF Lasting
<1>2. ASSUME NEW l \in Level, RunRequest(l) PROVE \A m \in Level : Lasting(m)
    <2>1. UNCHANGED <<run, closed>> /\ clients' = [clients EXCEPT ![l] = Append(@, req[l])]
        BY <1>2 DEF RunRequest
    <2>2. clients \in [Level -> Seq(Client)] /\ clients[l] \in Seq(Client) /\ req[l] \in Client
        BY <1>2, AtIs DEF BaseInv, TypeInv, RunRequest
    <2>3. Range(Append(clients[l], req[l])) = Range(clients[l]) \cup {req[l]}
        BY <2>2, AppendRange
    <2>4. \A m \in Level : Range(clients[m]) \subseteq Range(clients'[m])
        BY <2>1, <2>2, <2>3
    <2> QED
        BY <2>1, <2>4 DEF Lasting
<1>3. ASSUME NEW l \in Level, RunTake(l) PROVE \A m \in Level : Lasting(m)
    <2> DEFINE f == Head(in[l])
               T == Wanting(l, f)
    <2>1. in[l] # <<>> /\ in' = [in EXCEPT ![l] = Tail(@)] /\ UNCHANGED closed
        BY <1>3, TakeIs
    <2>2. f \in Sound /\ T \subseteq Wanting(l, f)
        BY <2>1, InTail
    <2>3. CASE Ignores(l)
        BY <1>1, <2>1, <2>3 DEF Ignores
    <2>4. CASE Holds(l)
        <3>1. T \subseteq Client
            <4>1. Range(clients[l]) \subseteq Client
                BY AtIs DEF BaseInv, TypeInv
            <4> QED
                BY <4>1 DEF Wanting
        <3>2. run \in RunType
            BY DEF BaseInv, TypeInv, RunType
        <3>3. RunNow(l, T, f) /\ UNCHANGED clients
            BY <2>4 DEF Holds, RunNow
        <3> HIDE DEF f, T
        <3>4. RunIs(l, T, f)
            BY <2>2, <3>1, <3>2, <3>3, RunSet
        <3>5. \A m \in Level : run'[m].on = run[m].on
            BY <3>4 DEF RunIs
        <3> QED
            BY <2>1, <3>3, <3>5 DEF Lasting
    <2>5. ASSUME NEW d, Given(l, f, T, d) PROVE \A m \in Level : Lasting(m)
        <3> HIDE DEF f, T
        <3> QED
            BY <2>1, <2>2, <2>5, LastingGiven
    <2> QED
        BY <1>3, <2>3, <2>4, <2>5, TakeIs
<1>4. ASSUME NEW l \in Level, RunDeliver(l) PROVE \A m \in Level : Lasting(m)
    <2> DEFINE f == run[l].f
               T == run[l].todo
    <2>1. /\ f \in Sound /\ T # {} /\ T \subseteq Wanting(l, f) /\ T \subseteq Range(clients[l])
        BY <1>4 DEF RunDeliver, BaseInv, TodoInv, Wanting
    <2>2. Deliver(l, f, T) /\ UNCHANGED closed /\ TypeInv
        BY <1>4 DEF RunDeliver, BaseInv
    <2> HIDE DEF f, T
    <2>3. PICK d : Given(l, f, T, d)
        BY <2>1, <2>2, DeliverIs
    <2> QED
        BY <2>1, <2>2, <2>3, LastingGiven
<1>5. ASSUME NEW l \in Level, RunExit(l) PROVE \A m \in Level : Lasting(m)
    <2>1. run \in RunType /\ run' = [run EXCEPT ![l].on = FALSE] /\ closed[l] /\ UNCHANGED closed
        BY <1>5 DEF BaseInv, TypeInv, RunType, RunExit
    <2>2. /\ ~run'[l].on /\ \A m \in Level : m # l => run'[m] = run[m]
        BY <2>1, RunOff
    <2>3. \A m \in Level : m # l => clients'[m] = clients[m]
        BY <1>5 DEF RunExit, BaseInv, TypeInv
    <2> QED
        BY <2>1, <2>2, <2>3 DEF Lasting
<1>6. ASSUME UserSteps PROVE \A m \in Level : Lasting(m)
    <2>1. Shape
        BY <1>6, UserShape
    <2>2. CASE Forgets
        <3>1. PICK l \in Level : \E d \in At[l] \cap Once : Forget(l, d) /\ UNCHANGED tncVars
            BY <2>2 DEF Forgets
        <3>2. PICK d \in At[l] \cap Once : Forget(l, d)
            BY <3>1
        <3>3. /\ run'[l].on = run[l].on /\ \A m \in Level : m # l => run'[m] = run[m]
              /\ \A m \in Level : m # l => clients'[m] = clients[m]
              /\ \A e \in Range(clients[l]) : e # d => e \in Range(clients'[l])
              /\ UNCHANGED closed
            BY <3>2, ForgetIs
        <3> QED
            BY <3>2, <3>3 DEF Lasting
    <2>3. ASSUME NEW l \in Level, Shuts(l) PROVE \A m \in Level : Lasting(m)
        <3>1. \A m \in Level : closed[m] => closed'[m]
            BY <2>3 DEF Shuts, BaseInv, TypeInv
        <3> QED
            BY <1>1, <2>3, <3>1 DEF Shuts
    <2>4. CASE Still \/ Takes \/ Waits \/ Called \/ Asks \/ Sends \/ \E c \in Chains : Starts(c)
        <3>1. UNCHANGED <<run, clients, closed>>
            BY <2>4 DEF Still, Takes, Waits, Called, Asks, Sends, Starts, Frames, NextFrame, demuxVars
        <3> QED
            BY <1>1, <3>1
    <2> QED
        BY <2>1, <2>2, <2>3, <2>4 DEF Shape, Level
<1>7. ASSUME NEW x \in Chains, ChainForward(x) \/ ChainExit(x) PROVE \A m \in Level : Lasting(m)
    <2>1. UNCHANGED <<run, clients>> /\ \A m \in Level : closed[m] => closed'[m]
        BY <1>7 DEF ChainForward, ChainExit, BaseInv, TypeInv
    <2> QED
        BY <1>1, <2>1
<1>8. CASE TNCRun \/ TNCExit \/ TeardownStep \/ Read
    <2>1. UNCHANGED <<run, clients>> /\ \A m \in Level : closed[m] => closed'[m]
        BY <1>8 DEF TNCRun, TNCExit, TeardownStep, Teardown, Read, BaseInv, TypeInv
    <2> QED
        BY <1>1, <2>1
<1>9. CASE TNC \/ Idle \/ UNCHANGED vars
    <2>1. UNCHANGED <<run, clients, closed>>
        BY <1>9 DEF TNC, TNCLink, TNCTransmit, RemoteData, LinkLost, TCPFail, Idle, vars, demuxVars
    <2> QED
        BY <1>1, <2>1
<1> QED
    BY <1>2, <1>3, <1>4, <1>5, <1>6, <1>7, <1>8, <1>9 DEF Next, Goroutines

\* Who closes what, and when
Closing ==
    /\ \A d \in over' \ over : \/ d \in Once \cup {"nil"} \cup cancelled
                               \/ \E l \in Level : d \in Range(clients[l]) /\ ~run'[l].on
    /\ \A d \in cancelled' \ cancelled :
          \/ d = "data" /\ resp["disc"] # <<>>
          \/ d \in Chains /\ (closed[d] \/ d \in over) /\ closed'[d]
    /\ closed'["port"] => closed["port"] \/ "port" \in over
    /\ closed'["tnc"] => closed["tnc"] \/ ~tcp'
    /\ tcp' => tcp
    /\ cancelled \subseteq cancelled'

LEMMA ClosingStep == ASSUME BaseInv, [Next]_vars PROVE Closing
<1>1. ASSUME NEW l \in Level, RunRequest(l) PROVE Closing
    BY <1>1 DEF RunRequest, Closing, tncVars
<1>2. ASSUME NEW l \in Level, NEW f, NEW T, NEW d, Given(l, f, T, d), UNCHANGED <<cancelled, closed, tcp>> PROVE Closing
    BY <1>2 DEF Given, Closing
<1>3. ASSUME NEW l \in Level, RunTake(l) PROVE Closing
    <2>1. UNCHANGED <<cancelled, closed, tcp>>
        BY <1>3, TakeIs DEF tncVars
    <2>2. CASE Ignores(l) \/ Holds(l)
        BY <2>1, <2>2 DEF Ignores, Holds, Closing
    <2> QED
        BY <1>2, <1>3, <2>1, <2>2, TakeIs
<1>4. ASSUME NEW l \in Level, RunDeliver(l) PROVE Closing
    <2> DEFINE f == run[l].f
               T == run[l].todo
    <2>1. /\ T # {} /\ T \subseteq Range(clients[l])
        BY <1>4 DEF RunDeliver, BaseInv, TodoInv
    <2>2. Deliver(l, f, T) /\ UNCHANGED <<cancelled, closed, tcp>> /\ TypeInv
        BY <1>4 DEF RunDeliver, BaseInv, tncVars
    <2> HIDE DEF f, T
    <2>3. PICK d : Given(l, f, T, d)
        BY <2>1, <2>2, DeliverIs
    <2> QED
        BY <1>2, <2>2, <2>3
<1>5. ASSUME NEW l \in Level, RunExit(l) PROVE Closing
    <2>1. run \in RunType /\ run' = [run EXCEPT ![l].on = FALSE]
        BY <1>5 DEF BaseInv, TypeInv, RunType, RunExit
    <2>2. ~run'[l].on
        BY <2>1, RunOff
    <2> QED
        BY <1>5, <2>2 DEF RunExit, Closing, tncVars
<1>6. ASSUME NEW x \in Chains, ChainForward(x) \/ ChainExit(x) PROVE Closing
    <2>1. x \in Level /\ closed \in [Level -> BOOLEAN] /\ "port" \in Level /\ "tnc" \in Level /\ x # "tnc"
        BY DEF BaseInv, TypeInv, Chains, Level
    <2>2. CASE ChainForward(x)
        BY <2>1, <2>2 DEF ChainForward, Closing, tncVars
    <2>3. CASE ChainExit(x)
        BY <2>1, <2>3 DEF ChainExit, Closing, tncVars
    <2> QED
        BY <1>6, <2>2, <2>3
<1>7. CASE TNCRun \/ TNCExit \/ TeardownStep \/ Read
    <2>1. closed \in [Level -> BOOLEAN] /\ "port" \in Level /\ "tnc" \in Level /\ "conn" \in Level
        BY DEF BaseInv, TypeInv, Level
    <2>2. CASE TNCRun \/ Read
        BY <2>2 DEF TNCRun, Read, Closing, tncVars
    <2>3. CASE TNCExit
        BY <2>1, <2>3 DEF TNCExit, Closing, tncVars
    <2>4. CASE TeardownStep
        BY <2>1, <2>4 DEF TeardownStep, Teardown, Closing, tncVars
    <2> QED
        BY <1>7, <2>2, <2>3, <2>4
<1>8. CASE TNC \/ Idle \/ UNCHANGED vars
    BY <1>8 DEF TNC, TNCLink, TNCTransmit, RemoteData, LinkLost, TCPFail, Idle, vars, demuxVars, tncVars, Closing
<1>9. ASSUME UserSteps PROVE Closing
    <2>1. Shape
        BY <1>9, UserShape
    <2>2. CASE Still \/ Waits \/ Called \/ Sends \/ \E c \in Chains : Starts(c)
        BY <2>2 DEF Still, Waits, Called, Sends, Starts, demuxVars, tncVars, Closing
    <2>3. CASE Takes
        BY <2>3 DEF Takes, Frames, tncVars, Closing
    <2>4. CASE Asks
        BY <2>4 DEF Asks, NextFrame, tncVars, Closing
    <2>5. CASE Forgets
        BY <2>5 DEF Forgets, Forget, tncVars, Closing
    <2>6. CASE Shuts("tnc") \/ Shuts("conn")
        <3>1. closed \in [Level -> BOOLEAN] /\ "port" \in Level /\ "tnc" \in Level /\ "conn" \in Level
            BY DEF BaseInv, TypeInv, Level
        <3> QED
            BY <2>6, <3>1 DEF Shuts, Closing
    <2> QED
        BY <2>1, <2>2, <2>3, <2>4, <2>5, <2>6 DEF Shape
<1> QED
    BY <1>1, <1>3, <1>4, <1>5, <1>6, <1>7, <1>8, <1>9 DEF Next, Goroutines

LEMMA CloseInit == Init => CloseInv
BY DEF Init, CloseInv, Level

LEMMA CloseStep == ASSUME BaseInv, CloseInv, [Next]_vars PROVE CloseInv'
<1>1. Closing /\ \A l \in Level : Lasting(l)
    BY ClosingStep, LastingStep
<1>2. "tnc" \in Level /\ "port" \in Level /\ "conn" \in Level /\ Chains = {"port", "conn"}
    BY DEF Level, Chains
<1>3. "port" \notin Once \cup {"nil"} /\ \A l \in Level : "port" \in Range(clients[l]) => l = "tnc"
    <2>1. \A l \in Level : Range(clients[l]) \subseteq At[l]
        BY DEF BaseInv, TypeInv
    <2> QED
        BY <2>1, AtIs DEF Once, Level
<1>4. (\A l \in Level : ~run[l].on => closed[l])'
    BY <1>1 DEF Lasting, CloseInv
<1>5. ~run["tnc"].on => ~run'["tnc"].on
    BY <1>1, <1>2 DEF Lasting
<1>6. "port" \in over' => ~run'["tnc"].on
    BY <1>1, <1>3, <1>5 DEF Closing, CloseInv
<1>7. closed'["port"] \/ "port" \in cancelled' => ~run'["tnc"].on
    BY <1>1, <1>5 DEF Closing, CloseInv
<1>8. "conn" \in cancelled' => closed'["conn"]
    BY <1>1, <1>2 DEF Closing, CloseInv, Lasting
<1>9. closed'["tnc"] => ~tcp'
    BY <1>1 DEF Closing, CloseInv
<1>10. cancelled' \subseteq {"port", "conn", "data"}
    BY <1>1, <1>2 DEF Closing, CloseInv
<1> QED
    BY <1>4, <1>6, <1>7, <1>8, <1>9, <1>10 DEF CloseInv
-----------------------------------------------------------------------------
(***************************************************************************)
(* After a disconnect there is no more data.                               *)
(***************************************************************************)

\* The frame that the demultiplexer l has in hand or takes next
From(l, f) == IF run[l].todo = {} THEN in[l] # <<>> /\ f = Head(in[l]) ELSE f = run[l].f

\* Where a frame in hand and in the channel of a client comes from
Source ==
    /\ \A l \in Level : run'[l].todo # {} => From(l, run'[l].f)
    /\ \A d \in {"disc", "y"} :
          \/ resp'[d] = resp[d] \/ resp'[d] = <<>>
          \/ \E f \in Sound : From("conn", f) /\ f.k \in Kinds[d] /\ resp'[d] = Append(resp[d], f)

LEMMA SourceGiven ==
    ASSUME NEW l \in Level, NEW f \in Sound, NEW T, NEW d, BaseInv, Given(l, f, T, d), T \subseteq Wanting(l, f),
           From(l, f)
    PROVE  Source
<1>1. Handed(l, f, T, d)
    BY GivenType
<1>2. d \in At[l] /\ f.k \in Kinds[d] /\ d \in Client
    BY AtIs DEF Given, Wanting, BaseInv, TypeInv
<1>3. ASSUME NEW m \in Level, run'[m].todo # {} PROVE From(m, run'[m].f)
    <2>1. CASE m = l
        <3>1. run'[l].f = f
            BY <1>1, <1>3, <2>1 DEF Handed, Given
        <3> QED
            BY <2>1, <3>1
    <2>2. CASE m # l
        <3>1. run'[m] = run[m]
            BY <1>1, <2>2 DEF Handed
        <3> QED
            BY <1>3, <3>1 DEF From
    <2> QED
        BY <2>1, <2>2
<1>4. ASSUME NEW e \in {"disc", "y"}
      PROVE  \/ resp'[e] = resp[e] \/ resp'[e] = <<>>
             \/ \E g \in Sound : From("conn", g) /\ g.k \in Kinds[e] /\ resp'[e] = Append(resp[e], g)
    <2>1. CASE e # d
        <3>1. resp \in [Client -> Seq(Sound)] /\ e \in Client
            BY DEF BaseInv, TypeInv, Client
        <3>2. resp' = resp \/ resp' = [resp EXCEPT ![d] = Append(@, f)]
            BY DEF Given, Gets
        <3> QED
            BY <1>2, <2>1, <3>1, <3>2
    <2>2. CASE e = d
        <3>1. l = "conn" /\ e \notin Chains
            BY <1>2, <2>2, AtIs DEF Level, Chains
        <3>2. resp'[e] = resp[e] \/ resp'[e] = Append(resp[e], f)
            BY <1>2, <2>2, <3>1 DEF Given, Gets, BaseInv, TypeInv
        <3> QED
            BY <1>2, <2>2, <3>1, <3>2
    <2> QED
        BY <2>1, <2>2
<1> QED
    BY <1>3, <1>4 DEF Source

LEMMA SourceStep == ASSUME BaseInv, [Next]_vars PROVE Source
<1>0. resp \in [Client -> Seq(Sound)] /\ {"disc", "y"} \subseteq Client
    BY DEF BaseInv, TypeInv, Client
<1>1. ASSUME UNCHANGED run, \A d \in {"disc", "y"} : resp'[d] = resp[d] \/ resp'[d] = <<>> PROVE Source
    BY <1>1 DEF Source, From
<1>2. ASSUME NEW l \in Level, RunTake(l) PROVE Source
    <2> DEFINE f == Head(in[l])
               T == Wanting(l, f)
    <2>1. in[l] # <<>> /\ in' = [in EXCEPT ![l] = Tail(@)] /\ run[l].todo = {}
        BY <1>2, TakeIs
    <2>2. f \in Sound /\ T \subseteq Wanting(l, f) /\ From(l, f)
        BY <2>1, InTail DEF From
    <2>3. CASE Ignores(l)
        BY <1>1, <2>3 DEF Ignores
    <2>4. CASE Holds(l)
        <3>1. T \subseteq Client
            <4>1. Range(clients[l]) \subseteq Client
                BY AtIs DEF BaseInv, TypeInv
            <4> QED
                BY <4>1 DEF Wanting
        <3>2. run \in RunType
            BY DEF BaseInv, TypeInv, RunType
        <3>3. RunNow(l, T, f) /\ UNCHANGED resp
            BY <2>4 DEF Holds, RunNow
        <3> HIDE DEF f, T
        <3>4. RunIs(l, T, f)
            BY <2>2, <3>1, <3>2, <3>3, RunSet
        <3>5. \A m \in Level : run'[m].todo # {} => From(m, run'[m].f)
            BY <2>2, <3>4 DEF RunIs, From
        <3> QED
            BY <3>3, <3>5 DEF Source
    <2>5. ASSUME NEW d, Given(l, f, T, d) PROVE Source
        <3> HIDE DEF f, T
        <3> QED
            BY <2>2, <2>5, SourceGiven
    <2> QED
        BY <1>2, <2>3, <2>4, <2>5, TakeIs
<1>3. ASSUME NEW l \in Level, RunDeliver(l) PROVE Source
    <2> DEFINE f == run[l].f
               T == run[l].todo
    <2>1. /\ f \in Sound /\ T # {} /\ T \subseteq Wanting(l, f) /\ T \subseteq Range(clients[l]) /\ From(l, f)
        BY <1>3 DEF RunDeliver, BaseInv, TodoInv, Wanting, From
    <2>2. Deliver(l, f, T) /\ TypeInv
        BY <1>3 DEF RunDeliver, BaseInv
    <2> HIDE DEF f, T
    <2>3. PICK d : Given(l, f, T, d)
        BY <2>1, <2>2, DeliverIs
    <2> QED
        BY <2>1, <2>3, SourceGiven
<1>4. ASSUME NEW l \in Level, RunExit(l) PROVE Source
    <2>1. run \in RunType /\ run' = [run EXCEPT ![l].on = FALSE] /\ UNCHANGED resp
        BY <1>4 DEF BaseInv, TypeInv, RunType, RunExit
    <2>2. /\ run'[l].todo = run[l].todo /\ run'[l].f = run[l].f
          /\ \A m \in Level : m # l => run'[m] = run[m]
        BY <2>1, RunOff
    <2> QED
        BY <2>1, <2>2 DEF Source, From
<1>5. ASSUME UserSteps PROVE Source
    <2>1. Shape
        BY <1>5, UserShape
    <2>2. CASE Still \/ Waits \/ Sends \/ Takes \/ Called \/ (\E c \in Chains : Starts(c)) \/ Shuts("tnc") \/ Shuts("conn")
        <3>1. UNCHANGED run /\ (UNCHANGED resp \/ resp' = [resp EXCEPT !["connects"] = <<>>])
            BY <2>2 DEF Still, Waits, Called, Sends, Starts, Takes, Frames, Shuts, demuxVars
        <3> QED
            BY <1>0, <1>1, <3>1
    <2>3. CASE Asks
        <3>1. \E d : UNCHANGED run /\ resp' = [resp EXCEPT ![d] = <<>>]
            BY <2>3 DEF Asks, NextFrame
        <3> QED
            BY <1>0, <1>1, <3>1
    <2>4. CASE Forgets
        <3>1. PICK l \in Level : \E d \in At[l] \cap Once : Forget(l, d) /\ UNCHANGED tncVars
            BY <2>4 DEF Forgets
        <3>2. PICK d \in At[l] \cap Once : Forget(l, d)
            BY <3>1
        <3>3. /\ run'[l].todo = run[l].todo \ {d}
              /\ ~(run[l].todo \subseteq {d}) => run'[l].f = run[l].f
              /\ \A m \in Level : m # l => run'[m] = run[m]
              /\ resp' = [resp EXCEPT ![d] = <<>>]
            BY <3>2, ForgetIs
        <3>4. \A m \in Level : run'[m].todo # {} => From(m, run'[m].f)
            <4> SUFFICES ASSUME NEW m \in Level, run'[m].todo # {} PROVE From(m, run'[m].f)
                OBVIOUS
            <4>1. CASE m = l
                <5>1. run[l].todo # {} /\ ~(run[l].todo \subseteq {d})
                    BY <3>3, <4>1
                <5> QED
                    BY <3>3, <4>1, <5>1 DEF From
            <4>2. CASE m # l
                BY <3>3, <4>2 DEF From
            <4> QED
                BY <4>1, <4>2
        <3> QED
            BY <1>0, <3>3, <3>4 DEF Source
    <2> QED
        BY <2>1, <2>2, <2>3, <2>4 DEF Shape
<1>6. CASE Read
    <2>1. UNCHANGED run /\ (UNCHANGED resp \/ resp' = [resp EXCEPT !["data"] = Tail(@)])
        BY <1>6 DEF Read
    <2> QED
        BY <1>0, <1>1, <2>1
<1>7. ASSUME UNCHANGED <<run, resp>> PROVE Source
    BY <1>1, <1>7
<1>8. ASSUME NEW l \in Level, RunRequest(l) PROVE Source
    BY <1>7, <1>8 DEF RunRequest
<1>9. ASSUME NEW x \in Chains, ChainForward(x) \/ ChainExit(x) PROVE Source
    BY <1>7, <1>9 DEF ChainForward, ChainExit
<1>10. CASE TNCRun \/ TNCExit \/ TeardownStep \/ TNC \/ Idle \/ UNCHANGED vars
    BY <1>7, <1>10 DEF TNCRun, TNCExit, TeardownStep, TNC, TNCLink, TNCTransmit, RemoteData, LinkLost, TCPFail,
       Idle, vars, demuxVars
<1> QED
    BY <1>2, <1>3, <1>4, <1>5, <1>6, <1>8, <1>9, <1>10 DEF Next, Goroutines

NotData == {f \in Sound : f.k # "D"}
LEMMA NoMoreIs ==
    ASSUME BaseInv
    PROVE  NoMoreData <=> link = "gone" /\ Behind(Way("data"), 3, NotData)
<1> DEFINE W == Way("data")
<1>1. IsWay(W)
    BY IsWayNow DEF Ends
<1> HIDE DEF W
<1>2. \A p \in 3 .. 11 : \A i \in DOMAIN W[p] : W[p][i] \in Sound
    <2> SUFFICES ASSUME NEW p \in 3 .. 11, NEW i \in DOMAIN W[p] PROVE W[p][i] \in Sound
        OBVIOUS
    <2>1. p \in Places
        BY DEF Places
    <2>2. W[p] \in Seq(Sound)
        BY <1>1, <2>1, OnPlace
    <2> QED
        BY <2>2
<1>3. Behind(W, 3, NotData) <=> \A p \in 3 .. 11 : \A i \in DOMAIN W[p] : W[p][i].k # "D"
    BY <1>2 DEF Behind, NotData
<1> QED
    BY <1>3 DEF NoMoreData, W

LEMMA NoMoreStep == ASSUME BaseInv, BaseInv', NoMoreData, [Next]_vars PROVE NoMoreData'
<1> DEFINE W == Way("data")
           V == Way("data")'
<1>0. "data" \in Ends /\ 3 \in Places
    BY DEF Ends, Places
<1>1. IsWay(W) /\ DOMAIN V = Places
    BY <1>0, IsWayNow, WayIsNext
<1>2. Step("data")
    BY <1>0, WayStep
<1>3. link' = "gone" /\ link = "gone"
    BY LinkGone DEF NoMoreData
<1>4. Behind(W, 3, NotData)
    BY NoMoreIs
<1> HIDE DEF W, V
<1>5. Behind(V, 3, NotData)
    <2>1. CASE Same(W, V)
        BY <1>0, <1>1, <1>4, <2>1, SameFacts
    <2>2. ASSUME NEW p, NEW q, Advance(W, V, p, q) PROVE Behind(V, 3, NotData)
        BY <1>0, <1>1, <1>4, <2>2, OnAdvance
    <2>3. ASSUME NEW q, Loss(W, V, q) PROVE Behind(V, 3, NotData)
        BY <1>0, <1>1, <1>4, <2>3, LossFacts
    <2>4. ASSUME NEW f \in Sound, Enters(f), Enter(W, V, f) PROVE Behind(V, 3, NotData)
        <3>1. f \in NotData
            BY <1>3, <2>4 DEF Enters, NotData
        <3> QED
            BY <1>0, <1>1, <1>4, <2>4, <3>1, EnterFacts
    <2> QED
        BY <1>2, <2>1, <2>2, <2>3, <2>4 DEF Step, Moves, W, V
<1>6. \A p \in 3 .. 11 : \A i \in DOMAIN V[p] : V[p][i].k # "D"
    BY <1>5 DEF Behind, NotData
<1> QED
    BY <1>3, <1>6 DEF NoMoreData, V

\* Behind a disconnect at the connection's demultiplexer there is no data
LEMMA DiscAhead ==
    ASSUME BaseInv, OrderInv, NEW f, From("conn", f), f.k = "d",
           run["conn"].todo # {} => NoMoreData
    PROVE  NoMoreData
<1> DEFINE W == Way("data")
<1>0. "data" \in Ends
    BY DEF Ends
<1>1. IsWay(W) /\ DOMAIN W = Places /\ W[3] = Hand("conn", "data") /\ W[4] = in["conn"]
    BY <1>0, IsWayNow, WayIs
<1>2. CASE run["conn"].todo = {}
    <2>1. W[3] = <<>> /\ W[4] # <<>> /\ f = Head(W[4])
        BY <1>1, <1>2 DEF Hand, From
    <2>2. Sorted(W, DataOrder) /\ \A g \in On(W) : g.k = "d" => link = "gone"
        BY DEF OrderInv, DataInv, DiscOn
    <2> HIDE DEF W
    <2>3. 4 \in Places /\ W[4] \in Seq(Sound)
        <3>1. 4 \in Places
            BY DEF Places
        <3> QED
            BY <1>1, <3>1, OnPlace
    <2>4. f = W[4][1] /\ 1 \in DOMAIN W[4]
        BY <2>1, <2>3, TailIs
    <2>5. f \in On(W)
        BY <1>1, <2>3, <2>4 DEF On, Range
    <2>6. \A p \in 3 .. 11 : \A i \in DOMAIN W[p] : W[p][i].k # "D"
        <3> SUFFICES ASSUME NEW p \in 3 .. 11, NEW i \in DOMAIN W[p] PROVE W[p][i].k # "D"
            OBVIOUS
        <3>1. p \in Places /\ W[p] \in Seq(Sound)
            <4>1. p \in Places
                BY DEF Places
            <4> QED
                BY <1>1, <4>1, OnPlace
        <3>2. i \in Nat /\ i >= 1
            BY <3>1
        <3>3. p # 3
            BY <2>1
        <3>4. CASE p = 4 /\ i = 1
            BY <2>4, <3>4
        <3>5. CASE 4 < p \/ (4 = p /\ 1 < i)
            <4>1. <<W[4][1], W[p][i]>> \in DataOrder
                BY <1>1, <2>2, <2>3, <2>4, <3>1, <3>5 DEF Sorted
            <4> QED
                BY <2>4, <4>1 DEF DataOrder
        <3> QED
            BY <3>2, <3>3, <3>4, <3>5
    <2> QED
        BY <2>2, <2>5, <2>6 DEF NoMoreData, W
<1> QED
    BY <1>2

LEMMA DiscInit == Init => DiscInv
<1> SUFFICES ASSUME Init PROVE DiscInv
    OBVIOUS
<1>1. run["conn"].todo = {} /\ resp["disc"] = <<>> /\ cancelled = {}
    BY DEF Init, Level, Client
<1>2. DiscOn
    BY OrderInit DEF OrderInv
<1> QED
    BY <1>1, <1>2 DEF DiscInv, DiscOn

LEMMA DiscStep == ASSUME BaseInv, BaseInv', OrderInv, OrderInv', DiscInv, [Next]_vars PROVE DiscInv'
<1>1. Source /\ Closing
    BY SourceStep, ClosingStep
<1>2. ASSUME NEW f, From("conn", f), f.k = "d" PROVE NoMoreData
    <2>1. run["conn"].todo # {} => NoMoreData
        BY <1>2 DEF DiscInv, From
    <2> QED
        BY <1>2, <2>1, DiscAhead
<1>3. NoMoreData => NoMoreData'
    BY NoMoreStep
<1>4. (\E c \in run'["conn"].todo : run'["conn"].f.k = "d") => NoMoreData'
    BY <1>1, <1>2, <1>3 DEF Source, Level
<1>5. resp'["disc"] # <<>> => NoMoreData'
    BY <1>1, <1>2, <1>3, KindsAre DEF Source, DiscInv
<1>6. "data" \in cancelled' => NoMoreData'
    <2>1. "data" \notin Chains
        BY DEF Chains
    <2> QED
        BY <1>1, <1>3, <2>1 DEF Closing, DiscInv
<1>7. \A i \in DOMAIN resp'["disc"] : resp'["disc"][i].k = "d"
    <2>1. CASE resp'["disc"] = resp["disc"] \/ resp'["disc"] = <<>>
        BY <2>1 DEF DiscInv
    <2>2. ASSUME NEW f \in Sound, f.k \in Kinds["disc"], resp'["disc"] = Append(resp["disc"], f)
          PROVE  \A i \in DOMAIN resp'["disc"] : resp'["disc"][i].k = "d"
        <3>1. resp["disc"] \in Seq(Sound) /\ f.k = "d"
            BY <2>2, KindsAre DEF BaseInv, TypeInv, Client
        <3>2. /\ DOMAIN Append(resp["disc"], f) = DOMAIN resp["disc"] \cup {Len(resp["disc"]) + 1}
              /\ Append(resp["disc"], f)[Len(resp["disc"]) + 1] = f
              /\ \A i \in DOMAIN resp["disc"] : Append(resp["disc"], f)[i] = resp["disc"][i]
            BY <3>1, AppendIs
        <3> QED
            BY <2>2, <3>1, <3>2 DEF DiscInv
    <2> QED
        BY <1>1, <2>1, <2>2 DEF Source
<1>8. DiscOn'
    BY DEF OrderInv
<1> QED
    BY <1>4, <1>5, <1>6, <1>7, <1>8 DEF DiscInv, DiscOn
-----------------------------------------------------------------------------
(***************************************************************************)
(* A connection that is dialled has its clients before it has a link.      *)
(***************************************************************************)

\* A request for frames stands until the client is registered
LEMMA RequestStays ==
    ASSUME BaseInv, [Next]_vars, NEW l \in Level, req[l] # "none"
    PROVE  req'[l] = req[l] \/ req[l] \in Range(clients'[l])
<1>1. req \in [Level -> Client \cup {"none"}]
    BY DEF BaseInv, TypeInv
<1>2. ASSUME UNCHANGED req PROVE req'[l] = req[l]
    BY <1>2
<1>3. ASSUME NEW m \in Level, RunRequest(m) PROVE req'[l] = req[l] \/ req[l] \in Range(clients'[l])
    <2>1. CASE m = l
        <3>1. clients \in [Level -> Seq(Client)] /\ clients[l] \in Seq(Client) /\ req[l] \in Client
            BY AtIs DEF BaseInv, TypeInv
        <3>2. Range(Append(clients[l], req[l])) = Range(clients[l]) \cup {req[l]}
            BY <3>1, AppendRange
        <3>3. clients'[l] = Append(clients[l], req[l])
            BY <1>3, <2>1, <3>1 DEF RunRequest
        <3> QED
            BY <3>2, <3>3
    <2>2. CASE m # l
        BY <1>1, <1>3, <2>2 DEF RunRequest
    <2> QED
        BY <2>1, <2>2
<1>4. ASSUME UserSteps PROVE req'[l] = req[l]
    <2>1. Shape
        BY <1>4, UserShape
    <2>2. ASSUME Asks PROVE req'[l] = req[l]
        BY <1>1, <2>2 DEF Asks, NextFrame, Free
    <2>3. ASSUME Takes PROVE req'[l] = req[l]
        BY <1>1, <2>3 DEF Takes, Frames, Free
    <2>4. CASE Still \/ Waits \/ Sends \/ Forgets \/ Called \/ (\E c \in Chains : Starts(c)) \/ Shuts("tnc") \/ Shuts("conn")
        <3>1. UNCHANGED req
            BY <2>4 DEF Still, Waits, Called, Sends, Starts, Forgets, Forget, Shuts, demuxVars
        <3> QED
            BY <3>1
    <2> QED
        BY <2>1, <2>2, <2>3, <2>4 DEF Shape
<1>5. Goroutines => UNCHANGED req \/ \E m \in Level : RunRequest(m)
    BY DEF Goroutines, RunTake, RunDeliver, RunExit, ChainForward, ChainExit, TNCRun, TNCExit, TeardownStep
<1>6. Read \/ TNC \/ Idle \/ UNCHANGED vars => UNCHANGED req
    BY DEF Read, TNC, TNCLink, TNCTransmit, RemoteData, LinkLost, TCPFail, Idle, vars, demuxVars
<1> QED
    BY <1>2, <1>3, <1>4, <1>5, <1>6 DEF Next

LEMMA UserOnly == ASSUME [Next]_vars, ~UserSteps PROVE u' = u
<1>1. Goroutines => u' = u
    BY DEF Goroutines, RunRequest, RunTake, RunDeliver, RunExit, ChainForward, ChainExit, TNCRun, TNCExit,
           TeardownStep, userVars
<1>2. Read \/ TNC \/ Idle \/ UNCHANGED vars => u' = u
    BY DEF Read, TNC, TNCLink, TNCTransmit, RemoteData, LinkLost, TCPFail, Idle, vars, userVars
<1> QED
    BY <1>1, <1>2 DEF Next

Ahead == BeforeConn \cup {"newConn2", "newConn3", "newConn4", "dial", "dial1"}
\* What the user's goroutine has seen before it goes on
Seen ==
    /\ u' = "newPort2" => closed["tnc"] \/ req'["tnc"] = "port"
    /\ u' \notin BeforePort => u \notin BeforePort \/ (u = "newPort2" /\ req["tnc"] # "port") \/ closed["tnc"]
    /\ u' = "newConn1" => closed["port"] \/ req'["port"] = "conn"
    /\ u' \notin BeforeConn \cup {"done", "panic"} =>
         u \notin BeforeConn \cup {"done", "panic"} \/ (u = "newConn1" /\ req["port"] # "conn")
    /\ u' = "newConn4" => closed["conn"] \/ req'["conn"] = "data"
    /\ u' \in {"dial", "dial1"} => u = "dial" \/ (u = "newConn4" /\ req["conn"] # "data")
    /\ u' \in Ahead => u \in Ahead /\ link' = link
LEMMA UserSeen == ASSUME BaseInv, UserSteps PROVE Seen
<1>0. req \in [Level -> Client \cup {"none"}] /\ "tnc" \in Level /\ "port" \in Level /\ "conn" \in Level
    BY DEF BaseInv, TypeInv, Level
<1>1. BeforePort \subseteq BeforeConn /\ BeforeConn \subseteq Ahead
    BY DEF BeforeConn, Ahead
<1>2. ASSUME u \in {"newPort", "newPort1", "newPort2", "panic"} PROVE u \in BeforePort \cup {"panic"}
    BY <1>2 DEF BeforePort
<1>3. CASE NewPort
    <2>1. \/ u = "newPort" /\ u' = "newPort1"
          \/ u = "newPort" /\ u' = "panic" /\ closed["tnc"]
          \/ u = "newPort1" /\ u' = "newPort2" /\ (closed["tnc"] \/ req'["tnc"] = "port")
          \/ u = "newPort2" /\ u' = "caps" /\ req["tnc"] # "port"
        BY <1>0, <1>3 DEF NewPort, Chain, Frames, Served
    <2>2. link' = link
        BY <1>3 DEF NewPort, Chain, tncVars
    <2> QED
        BY <2>1, <2>2 DEF Seen, BeforePort, BeforeConn, Ahead
<1>4. CASE NewConn
    <2>1. \/ u = "ready" /\ u' \in {"done", "newConn"}
          \/ u = "newConn" /\ u' \in {"newConn0", "panic"}
          \/ u = "newConn0" /\ u' = "newConn1" /\ (closed["port"] \/ req'["port"] = "conn")
          \/ u = "newConn1" /\ u' = "newConn2" /\ req["port"] # "conn"
          \/ u = "newConn2" /\ u' = "newConn3"
          \/ u = "newConn3" /\ u' = "newConn4" /\ (closed["conn"] \/ req'["conn"] = "data")
          \/ u = "newConn4" /\ u' \in {"offer", "dial"} /\ req["conn"] # "data"
        BY <1>0, <1>4 DEF NewConn, Chain, Frames, NextFrame, Served
    <2>2. link' = link
        BY <1>4 DEF NewConn, Chain, tncVars
    <2> QED
        BY <2>1, <2>2 DEF Seen, BeforePort, BeforeConn, Ahead
<1>5. CASE GetCapabilities \/ Register
    <2>1. /\ u \in {"caps", "caps1", "capsWait", "reg", "reg1", "regWait", "regFailed"}
          /\ u' \in {"caps1", "capsWait", "reg", "reg1", "regWait", "regFailed", "ready", "done"}
        BY <1>5 DEF GetCapabilities, Register, NextFrame, Send
    <2>2. link' = link
        BY <1>5 DEF GetCapabilities, Register, tncVars, Send, TNCTakes, F
    <2> QED
        BY <2>1, <2>2 DEF Seen, BeforePort, BeforeConn, Ahead
<1>6. CASE HandleInbound
    <2>1. \/ u \in {"ready", "listen"} /\ u' \in {"listen", "newConn", "done"}
          \/ u = "offer" /\ u' \in {"idle", "close"}
        BY <1>6 DEF HandleInbound, Frames
    <2>2. link' = link
        BY <1>6 DEF HandleInbound, tncVars
    <2> QED
        BY <2>1, <2>2 DEF Seen, BeforePort, BeforeConn, Ahead
<1>7. CASE Connect
    <2>1. \/ u = "dial" /\ u' = "dial1" /\ link' = link
          \/ u \in {"dial1", "dialWait", "dialFailed"} /\ u' \in {"dialWait", "dialFailed", "idle", "done"}
        BY <1>7 DEF Connect, NextFrame, Send, tncVars
    <2> QED
        BY <2>1 DEF Seen, BeforePort, BeforeConn, Ahead
<1>8. CASE AskOutstanding \/ Outstanding \/ AskTimeout \/ FlushTimeout \/ SendData \/ Write \/ Flush \/ CallClose \/ Close
    <2>1. /\ u \in {"ask", "ask1", "askWait", "send", "idle", "broken", "close", "end", "end1", "endWait", "closeConn"}
          /\ u' \in {"ask", "ask1", "askWait", "send", "idle", "broken", "close", "end", "end1", "endWait",
                     "closeConn", "done"}
        BY <1>8 DEF AskOutstanding, Outstanding, AskTimeout, FlushTimeout, SendData, Write, Flush, CallClose, Close,
           NextFrame, Send, Return
    <2> QED
        BY <2>1 DEF Seen, BeforePort, BeforeConn, Ahead
<1> QED
    BY <1>3, <1>4, <1>5, <1>6, <1>7, <1>8 DEF UserSteps

LEMMA WireInit == Init => WireInv
BY DEF Init, WireInv, BeforePort, BeforeConn

\* Once registered, the clients that pass data on remain
LEMMA WiredLasts ==
    ASSUME BaseInv, CloseInv, [Next]_vars
    PROVE  /\ PortWired => PortWired'
           /\ ConnWired => ConnWired'
           /\ DataWired => DataWired'
<1>1. Closing /\ Lasting("tnc") /\ Lasting("port") /\ Lasting("conn")
    BY ClosingStep, LastingStep DEF Level
<1>2. "port" \notin Once /\ "conn" \notin Once /\ "data" \notin Once
    BY DEF Once
<1>3. /\ "port" \in cancelled => ~run["tnc"].on
      /\ "conn" \in cancelled => closed["conn"]
      /\ ~run["conn"].on => closed["conn"]
    BY DEF CloseInv, Level
<1>4. PortWired => PortWired'
    BY <1>1, <1>2, <1>3 DEF PortWired, Lasting
<1>5. ConnWired => ConnWired'
    BY <1>1, <1>2, <1>3 DEF ConnWired, Lasting
<1>6. DataWired => DataWired'
    BY <1>1, <1>2, <1>3 DEF DataWired, Lasting, Closing
<1> QED
    BY <1>4, <1>5, <1>6

LEMMA WireStep == ASSUME BaseInv, CloseInv, WireInv, [Next]_vars PROVE WireInv'
<1>1. /\ PortWired => PortWired'
      /\ ConnWired => ConnWired'
      /\ DataWired => DataWired'
    BY WiredLasts
<1>2. /\ req["tnc"] = "port" => req'["tnc"] = "port" \/ "port" \in Range(clients'["tnc"])
      /\ req["port"] = "conn" => req'["port"] = "conn" \/ "conn" \in Range(clients'["port"])
      /\ req["conn"] = "data" => req'["conn"] = "data" \/ "data" \in Range(clients'["conn"])
    <2>1. \A l \in Level : req[l] # "none" => req'[l] = req[l] \/ req[l] \in Range(clients'[l])
        BY RequestStays
    <2> QED
        BY <2>1 DEF Level
<1>3. /\ closed["tnc"] => PortWired
      /\ closed["port"] => ConnWired
      /\ closed["conn"] => DataWired
    BY DEF PortWired, ConnWired, DataWired
<1>4. CASE UserSteps
    <2>1. Seen
        BY <1>4, UserSeen
    <2>2. u' = "newPort2" => PortWired' \/ req'["tnc"] = "port"
        BY <1>1, <1>3, <2>1 DEF Seen
    <2>3. u' \notin BeforePort => PortWired'
        BY <1>1, <1>3, <2>1 DEF Seen, WireInv
    <2>4. u' = "newConn1" => ConnWired' \/ req'["port"] = "conn"
        BY <1>1, <1>3, <2>1 DEF Seen
    <2>5. u' \notin BeforeConn \cup {"done", "panic"} => ConnWired'
        BY <1>1, <1>3, <2>1 DEF Seen, WireInv
    <2>6. u' = "newConn4" => DataWired' \/ req'["conn"] = "data"
        BY <1>1, <1>3, <2>1 DEF Seen
    <2>7. u' \in {"dial", "dial1"} => DataWired'
        BY <1>1, <1>3, <2>1 DEF Seen, WireInv
    <2> QED
        BY <2>2, <2>3, <2>4, <2>5, <2>6, <2>7 DEF WireInv
<1>5. CASE ~UserSteps
    <2>1. u' = u
        BY <1>5, UserOnly
    <2>2. /\ "port" \in Range(clients'["tnc"]) => PortWired'
          /\ "conn" \in Range(clients'["port"]) => ConnWired'
          /\ "data" \in Range(clients'["conn"]) => DataWired'
        BY DEF PortWired, ConnWired, DataWired
    <2> QED
        BY <1>1, <1>2, <2>1, <2>2 DEF WireInv
<1> QED
    BY <1>4, <1>5

\* How a link comes about, when data comes and when a frame finds nobody
LinkSteps ==
    /\ inbound' = inbound
    /\ \/ link' = link \/ link' = "gone"
       \/ link = "calling" /\ link' = "up" /\ u' = u
       \/ link = "down" /\ link' = "up" /\ inbound
       \/ link = "down" /\ link' = "calling" /\ u = "dial1" /\ tcp /\ ~closed["tnc"] /\ UNCHANGED demuxVars
    /\ remote' = remote \/ (link = "up" /\ link' = "up" /\ u' = u)
    /\ missed' = missed \/ \E l \in Level : RunTake(l) /\ Ignores(l)

LEMMA TNCSends ==
    ASSUME NEW f, TNCTakes(f)
    PROVE  link' = link \/ link' = "gone" \/ (f.k = "C" /\ link = "down" /\ link' = "calling")
BY DEF TNCTakes

LEMMA UserLink == ASSUME BaseInv, UserSteps PROVE LinkSteps
<1>1. UNCHANGED <<inbound, missed, remote>>
    BY UserShape DEF Shape
<1> DEFINE Kept == link' = link \/ link' = "gone"
           Made == link = "down" /\ link' = "calling" /\ u = "dial1" /\ tcp /\ ~closed["tnc"] /\ UNCHANGED demuxVars
<1> SUFFICES Kept \/ Made
    BY <1>1 DEF LinkSteps
<1>2. ASSUME NEW f, NEW a, NEW b, Send(f, a, b), f.k # "C" PROVE Kept
    BY <1>2, TNCSends DEF Send
<1>3. F("g").k # "C" /\ F("X").k # "C" /\ F("Y").k # "C" /\ F("d").k # "C"
    BY DEF F
<1>4. CASE NewPort \/ NewConn \/ HandleInbound
    BY <1>4 DEF NewPort, NewConn, HandleInbound, Chain, tncVars
<1>5. CASE GetCapabilities \/ Register
    BY <1>2, <1>3, <1>5 DEF GetCapabilities, Register, tncVars
<1>6. CASE Connect
    <2>1. CASE u = "dial1" /\ Send(F("C"), "dialWait", "dialFailed") /\ UNCHANGED <<demuxVars, TncOnly, Rest>>
        BY <2>1, TNCSends DEF Send
    <2>2. CASE Send(F("d"), "dialWait", "dialWait")
        BY <1>2, <1>3, <2>2
    <2>3. CASE UNCHANGED tncVars
        BY <2>3 DEF tncVars
    <2> QED
        BY <1>6, <2>1, <2>2, <2>3 DEF Connect, tncVars
<1>7. CASE AskOutstanding \/ Outstanding \/ AskTimeout \/ FlushTimeout
    BY <1>2, <1>3, <1>7 DEF AskOutstanding, Outstanding, AskTimeout, FlushTimeout, tncVars
<1>8. CASE SendData
    <2>1. [k |-> "D", n |-> writes + 1].k # "C"
        OBVIOUS
    <2> QED
        BY <1>2, <1>8, <2>1 DEF SendData
<1>9. CASE Write \/ Flush \/ CallClose \/ Close
    BY <1>2, <1>3, <1>9 DEF Write, Flush, CallClose, Close, tncVars
<1> QED
    BY <1>4, <1>5, <1>6, <1>7, <1>8, <1>9 DEF UserSteps

LEMMA LinkStep == ASSUME BaseInv, [Next]_vars PROVE LinkSteps
<1>1. ASSUME UNCHANGED <<inbound, link, remote, missed>> PROVE LinkSteps
    BY <1>1 DEF LinkSteps
<1>2. ASSUME NEW l \in Level, RunTake(l) PROVE LinkSteps
    <2>1. UNCHANGED <<inbound, link, remote>>
        BY <1>2, TakeIs DEF tncVars
    <2>2. Ignores(l) \/ missed' = missed
        BY <1>2, TakeIs DEF Holds, Given
    <2> QED
        BY <1>2, <2>1, <2>2 DEF LinkSteps
<1>3. ASSUME NEW l \in Level, RunRequest(l) \/ RunDeliver(l) \/ RunExit(l) PROVE LinkSteps
    BY <1>1, <1>3 DEF RunRequest, RunDeliver, RunExit, Deliver, tncVars, userVars
<1>4. ASSUME NEW x \in Chains, ChainForward(x) \/ ChainExit(x) PROVE LinkSteps
    BY <1>1, <1>4 DEF ChainForward, ChainExit, tncVars, userVars
<1>5. CASE TNCRun \/ TNCExit \/ TeardownStep \/ Read
    BY <1>1, <1>5 DEF TNCRun, TNCExit, TeardownStep, Read, tncVars, userVars
<1>6. CASE TNC
    BY <1>6 DEF TNC, TNCLink, TNCTransmit, RemoteData, LinkLost, TCPFail, userVars, LinkSteps
<1>7. CASE Idle \/ UNCHANGED vars
    BY <1>1, <1>7 DEF Idle, vars, tncVars, userVars
<1> QED
    BY <1>2, <1>3, <1>4, <1>5, <1>6, <1>7, UserLink DEF Next, Goroutines

LEMMA DialInit == Init => DialInv
BY DEF Init, DialInv

LEMMA WiredStep == ASSUME BaseInv, BaseInv', CloseInv, DiscInv, Wired, [Next]_vars PROVE Wired'
<1>1. Closing /\ Lasting("tnc") /\ Lasting("port") /\ Lasting("conn")
    BY ClosingStep, LastingStep DEF Level
<1>2. "port" \notin Once /\ "conn" \notin Once /\ "data" \notin Once
    BY DEF Once
<1>3. /\ "port" \in cancelled => ~run["tnc"].on
      /\ "conn" \in cancelled => closed["conn"]
      /\ ~run["conn"].on => closed["conn"]
    BY DEF CloseInv, Level
<1>4. "data" \in cancelled => NoMoreData
    BY DEF DiscInv
<1>5. NoMoreData => NoMoreData'
    BY NoMoreStep
<1> QED
    BY <1>1, <1>2, <1>3, <1>4, <1>5 DEF Wired, Lasting

\* Data that comes to a demultiplexer finds its client, unless the connection
\* is closed
LEMMA NoDataIgnored ==
    ASSUME BaseInv, OrderInv, DialInv, ~inbound, ~closed["conn"], NEW l \in Level, RunTake(l), Ignores(l)
    PROVE  Head(in[l]).k # "D"
<1> DEFINE f == Head(in[l])
           W == Way("data")
<1>0. "data" \in Ends
    BY DEF Ends
<1> SUFFICES ASSUME f.k = "D" PROVE FALSE
    OBVIOUS
<1>1. run[l].on /\ in[l] # <<>> /\ Wanting(l, f) = {}
    BY TakeIs DEF Ignores
<1>2. in[l] \in Seq(Sound)
    BY DEF BaseInv, TypeInv
<1>3. 1 \in DOMAIN in[l] /\ f = in[l][1] /\ f \in Sound
    BY <1>1, <1>2, TailIs
<1>4. InAt[l] \in Places /\ W[InAt[l]] = in[l] /\ DOMAIN W = Places
    BY <1>0, PlacesOf, WayIs
<1>5. f \in On(W)
    BY <1>3, <1>4 DEF On, Range
<1>6. f.n <= remote /\ f.n > 0 /\ f.n \in Nat /\ remote \in Nat
    BY <1>3, <1>5, SoundIs DEF OrderInv, DataInv, BaseInv, TypeInv
<1>7. Wired
    BY <1>6 DEF DialInv
<1>8. \A c \in Range(clients[l]) : "D" \notin Kinds[c]
    BY <1>1 DEF Wanting
<1>9. CASE l = "tnc" \/ l = "port"
    BY <1>1, <1>7, <1>8, <1>9, KindsAre DEF Wired
<1>10. CASE l = "conn"
    <2>1. NoMoreData
        BY <1>7, <1>8, <1>10, KindsAre DEF Wired
    <2>2. W[4] = in["conn"] /\ 4 \in 3 .. 11
        BY <1>0, WayIs
    <2>3. \A i \in DOMAIN W[4] : W[4][i].k # "D"
        BY <2>1, <2>2 DEF NoMoreData
    <2> QED
        BY <1>3, <1>10, <2>2, <2>3
<1> QED
    BY <1>9, <1>10 DEF Level

LEMMA DialStep ==
    ASSUME BaseInv, BaseInv', OrderInv, CloseInv, DiscInv, WireInv, DialInv, [Next]_vars
    PROVE  DialInv'
<1>1. LinkSteps /\ (link = "gone" => link' = "gone")
    BY LinkStep, LinkGone
<1> SUFFICES ASSUME ~inbound' PROVE
        /\ link' \in {"down", "calling"} => remote' = 0
        /\ u' \in Ahead => link' \in {"down", "gone"} /\ remote' = 0
        /\ link' \in {"calling", "up"} \/ remote' > 0 => Wired'
        /\ closed'["conn"] \/ missed' \subseteq {0}
    BY DEF DialInv, Ahead
<1>2. /\ ~inbound
      /\ link \in {"down", "calling"} => remote = 0
      /\ u \in Ahead => link \in {"down", "gone"} /\ remote = 0
      /\ link \in {"calling", "up"} \/ remote > 0 => Wired
      /\ closed["conn"] \/ missed \subseteq {0}
    BY <1>1 DEF LinkSteps, DialInv, Ahead
<1>3. link \in {"down", "calling", "up", "gone"}
    BY DEF BaseInv, TypeInv
<1>4. link' \in {"down", "calling"} => remote' = 0
    BY <1>1, <1>2, <1>3 DEF LinkSteps
<1>5. u' \in Ahead => link' \in {"down", "gone"} /\ remote' = 0
    <2>1. CASE UserSteps
        <3>1. Seen
            BY <2>1, UserSeen
        <3>2. remote' = remote
            BY <2>1, UserShape DEF Shape
        <3> QED
            BY <1>2, <3>1, <3>2 DEF Seen
    <2>2. CASE ~UserSteps
        <3>1. u' = u
            BY <2>2, UserOnly
        <3>2. link' = "calling" /\ link = "down" => u = "dial1" /\ UNCHANGED demuxVars
            BY <1>1, <1>2 DEF LinkSteps
        <3>3. u \in Ahead => ~(link = "down" /\ link' = "calling")
            <4>1. Goroutines => link' = link
                BY DEF Goroutines, RunRequest, RunTake, RunDeliver, RunExit, ChainForward, ChainExit, TNCRun, TNCExit,
                       TeardownStep, tncVars
            <4>2. TNC => ~(link = "down" /\ link' = "calling")
                BY DEF TNC, TNCLink, TNCTransmit, RemoteData, LinkLost, TCPFail
            <4>3. Read \/ Idle \/ UNCHANGED vars => link' = link
                BY DEF Read, Idle, vars, tncVars
            <4> QED
                BY <2>2, <4>1, <4>2, <4>3 DEF Next
        <3> QED
            BY <1>1, <1>2, <3>1, <3>3 DEF LinkSteps
    <2> QED
        BY <2>1, <2>2
<1>6. link' \in {"calling", "up"} \/ remote' > 0 => Wired'
    <2>1. Wired => Wired'
        BY WiredStep
    <2>2. CASE link = "down" /\ link' = "calling" /\ u = "dial1" /\ ~closed["tnc"]
        <3>1. PortWired /\ ConnWired /\ DataWired
            BY <2>2 DEF WireInv, BeforePort, BeforeConn
        <3>2. /\ closed["port"] => ~run["tnc"].on
              /\ ~run["tnc"].on => closed["tnc"]
              /\ "data" \in cancelled => NoMoreData
            BY DEF CloseInv, DiscInv, Level
        <3>3. Wired
            BY <2>2, <3>1, <3>2 DEF Wired, PortWired, ConnWired, DataWired
        <3> QED
            BY <2>1, <3>3
    <2>3. remote' = remote \/ link = "up"
        BY <1>1 DEF LinkSteps
    <2> QED
        BY <1>1, <1>2, <2>1, <2>2, <2>3 DEF LinkSteps
<1>7. closed'["conn"] \/ missed' \subseteq {0}
    <2>1. closed["conn"] => closed'["conn"]
        BY LastingStep DEF Lasting, Level
    <2>2. ASSUME ~closed["conn"], NEW l \in Level, RunTake(l), Ignores(l) PROVE missed' \subseteq {0}
        <3> DEFINE f == Head(in[l])
        <3>1. f.k # "D"
            BY <1>2, <2>2, NoDataIgnored
        <3>2. in[l] # <<>> /\ in' = [in EXCEPT ![l] = Tail(@)]
            BY <2>2, TakeIs
        <3>3. f \in Sound
            BY <3>2, InTail
        <3>4. missed' = missed \cup Told(<<f>>)
            BY <2>2 DEF Ignores
        <3> HIDE DEF f
        <3>5. Told(<<f>>) \subseteq {0}
            BY <3>1, <3>3, ToldIs, SoundIs
        <3> QED
            BY <1>2, <2>2, <3>4, <3>5
    <2>3. missed' = missed \/ \E l \in Level : RunTake(l) /\ Ignores(l)
        BY <1>1 DEF LinkSteps
    <2> QED
        BY <1>2, <2>1, <2>2, <2>3
<1> QED
    BY <1>4, <1>5, <1>6, <1>7

\* On a connection that was dialled no data frame goes by without a client that
\* wants it while the connection is open (DialMissesNothing): the clients of
\* newConn are registered when the connect request is sent, data comes only
\* after that, and a client leaves only when the connection is closed or, for
\* the data, when the disconnect has come and nothing is behind it.
THEOREM DialledMissesNothing == Spec => []DialMissesNothing
<1> DEFINE Inv == BaseInv /\ OrderInv /\ CloseInv /\ DiscInv /\ WireInv /\ DialInv
<1>1. Init => Inv
    BY BaseInit, OrderInit, CloseInit, DiscInit, WireInit, DialInit
<1>2. Inv /\ [Next]_vars => Inv'
    <2> SUFFICES ASSUME BaseInv, OrderInv, CloseInv, DiscInv, WireInv, DialInv, [Next]_vars PROVE Inv'
        OBVIOUS
    <2>1. BaseInv'
        BY BaseStep
    <2>2. OrderInv'
        BY <2>1, OrderStep
    <2>3. CloseInv' /\ WireInv'
        BY CloseStep, WireStep
    <2>4. DiscInv'
        BY <2>1, <2>2, DiscStep
    <2>5. DialInv'
        BY <2>1, DialStep
    <2> QED
        BY <2>1, <2>2, <2>3, <2>4, <2>5
<1>3. Inv => DialMissesNothing
    BY DEF DialInv, DialMissesNothing
<1> QED
    BY <1>1, <1>2, <1>3, PTL DEF Spec
-----------------------------------------------------------------------------
(***************************************************************************)
(* One count is under way at a time, and it says what its reader takes it  *)
(* to say.                                                                 *)
(***************************************************************************)
\* No count is on its way
Clean(W) == \A f \in On(W) : f.k # "Y"

\* A step that lets in no count
Comes(f) == f \in Sound /\ fromTNC' = Append(fromTNC, f)
Unasked  == \A f : Comes(f) => f.k # "Y"

CountMoves ==
    /\ \A f \in On(Way("y")') : f \in On(Way("y")) \/ Comes(f)
    /\ Sorted(Way("y"), OneCount) /\ (Unasked \/ Clean(Way("y"))) => Sorted(Way("y")', OneCount)

LEMMA OnSound == ASSUME NEW W, IsWay(W) PROVE \A f \in On(W) : f \in Sound
<1>1. \A p \in Places : \A i \in DOMAIN W[p] : W[p][i] \in Sound
    BY DEF IsWay
<1> QED
    BY <1>1 DEF On, Range, IsWay

LEMMA CountWay == ASSUME BaseInv, [Next]_vars PROVE CountMoves
<1> DEFINE W == Way("y")
           V == Way("y")'
<1>0. "y" \in Ends
    BY DEF Ends
<1>1. IsWay(W) /\ DOMAIN V = Places
    BY <1>0, IsWayNow, WayIsNext
<1>2. Step("y")
    BY <1>0, WayStep
<1> HIDE DEF W, V
<1>3. ASSUME On(V) \subseteq On(W), Sorted(W, OneCount) => Sorted(V, OneCount) PROVE CountMoves
    BY <1>3 DEF CountMoves, W, V
<1>4. CASE Same(W, V)
    BY <1>1, <1>3, <1>4, SameFacts
<1>5. ASSUME NEW p, NEW q, Advance(W, V, p, q) PROVE CountMoves
    <2>1. On(V) = On(W)
        BY <1>1, <1>5, OnAdvance
    <2>2. Sorted(W, OneCount) => Sorted(V, OneCount)
        BY <1>1, <1>5, SortedAdvance
    <2> QED
        BY <1>3, <2>1, <2>2
<1>6. ASSUME NEW q, Loss(W, V, q) PROVE CountMoves
    <2>1. On(V) \subseteq On(W) /\ (Sorted(W, OneCount) => Sorted(V, OneCount))
        BY <1>1, <1>6, LossFacts
    <2> QED
        BY <1>3, <2>1
<1>7. CASE Clear(W, V)
    BY <1>1, <1>3, <1>7, ClearFacts
<1>8. ASSUME NEW f \in Sound, Enters(f), Enter(W, V, f) PROVE CountMoves
    <2>1. Comes(f)
        BY <1>8 DEF Comes, Enters
    <2>2. /\ On(V) = On(W) \cup {f}
          /\ Sorted(W, OneCount) /\ (\A g \in On(W) : <<g, f>> \in OneCount) => Sorted(V, OneCount)
        BY <1>1, <1>8, EnterFacts
    <2>3. Unasked \/ Clean(W) => \A g \in On(W) : <<g, f>> \in OneCount
        BY <1>1, <1>8, <2>1, OnSound DEF Unasked, Clean, OneCount
    <2> QED
        BY <2>1, <2>2, <2>3 DEF CountMoves, W, V
<1> QED
    BY <1>2, <1>4, <1>5, <1>6, <1>7, <1>8 DEF Step, Moves, W, V

\* The frame at the head of the client's channel is the only count there is
LEMMA OnlyCount ==
    ASSUME NEW W, NEW V, IsWay(W), Sorted(W, OneCount), Clear(W, V), DOMAIN V = Places,
           W[2] # <<>>, Head(W[2]).k = "Y", V[2] = <<>>, V[1] = <<>>
    PROVE  Clean(V)
<1>0. 2 \in Places /\ Places \subseteq Nat
    BY DEF Places
<1>1. W[2] \in Seq(Sound) /\ DOMAIN W = Places
    BY <1>0 DEF IsWay
<1>2. 1 \in DOMAIN W[2] /\ W[2][1] = Head(W[2])
    BY <1>1, TailIs
<1> SUFFICES ASSUME NEW p \in Places, NEW i \in DOMAIN V[p] PROVE V[p][i].k # "Y"
    BY DEF Clean, On, Range
<1>3. V[p] # <<>>
    OBVIOUS
<1>4. V[p] = W[p] /\ p > 2
    BY <1>3 DEF Clear, Places
<1>5. <<W[2][1], W[p][i]>> \in OneCount
    BY <1>0, <1>1, <1>2, <1>4 DEF Sorted
<1> QED
    BY <1>2, <1>4, <1>5 DEF OneCount

\* What a step does to the amounts the TNC counts, and to what it sends
Begins == u \in {"idle", "close"} /\ u' = "ask"
Amounts ==
    \/ UNCHANGED <<lag, out>> /\ (owed' = owed \/ (Begins /\ owed' = out))
    \/ lag > 0 /\ lag' = lag - 1 /\ out' = out + 1 /\ owed' = owed
    \/ lag' = lag /\ out > 0 /\ out' = out - 1 /\ owed' = IF owed > 0 THEN owed - 1 ELSE 0
    \/ lag' = 0 /\ out' = 0 /\ owed' = owed /\ (link' = "gone" \/ link # "up")
    \/ u = "send" /\ u' # u /\ lag' = lag + 1 /\ out' = out /\ owed' = owed
Tame == Amounts /\ (u # "ask1" \/ u' = u => Unasked) /\ (Rests => Rests')

LEMMA ComesIs ==
    ASSUME BaseInv, NEW g, Comes(g)
    PROVE  /\ fromTNC' # fromTNC
           /\ fromTNC # <<>> => fromTNC' # Tail(fromTNC)
           /\ \A h : fromTNC' = Append(fromTNC, h) => g = h
<1>1. fromTNC \in Seq(Sound) /\ g \in Sound /\ fromTNC' = Append(fromTNC, g)
    BY DEF BaseInv, TypeInv, Comes
<1>2. Len(fromTNC') = Len(fromTNC) + 1 /\ Len(fromTNC) \in Nat
    BY <1>1
<1>3. fromTNC # <<>> => fromTNC' # Tail(fromTNC)
    <2>1. fromTNC # <<>> => Len(Tail(fromTNC)) = Len(fromTNC) - 1
        BY <1>1, TailIs
    <2> QED
        BY <1>2, <2>1
<1>4. ASSUME NEW h, fromTNC' = Append(fromTNC, h) PROVE g = h
    <2> DEFINE S == Sound \cup {h}
    <2>1. fromTNC \in Seq(S) /\ h \in S /\ g \in S
        BY <1>1
    <2> HIDE DEF S
    <2>2. Append(fromTNC, h)[Len(fromTNC) + 1] = h /\ Append(fromTNC, g)[Len(fromTNC) + 1] = g
        BY <2>1, AppendIs
    <2> QED
        BY <1>1, <1>4, <2>2
<1>5. fromTNC' # fromTNC
    BY <1>2
<1> QED
    BY <1>3, <1>4, <1>5

\* What the TNC does with a frame of the user's
Accepted(f) ==
    /\ link' # "up" => lag' = 0 /\ out' = 0 /\ (link' = "gone" \/ link # "up")
    /\ link' = "up" => link = "up" /\ out' = out /\ lag' = IF f.k = "D" THEN lag + 1 ELSE lag
    /\ \A g : Comes(g) => g.k = f.k /\ (f.k = "Y" => g.n = out)
LEMMA TNCAccepts == ASSUME BaseInv, NEW f, TNCTakes(f) PROVE Accepted(f)
<1>1. /\ link' # "up" => lag' = 0 /\ out' = 0 /\ (link' = "gone" \/ link # "up")
      /\ link' = "up" => link = "up" /\ out' = out /\ lag' = IF f.k = "D" THEN lag + 1 ELSE lag
    BY DEF TNCTakes
<1>2. ASSUME NEW g, Comes(g) PROVE g.k = f.k /\ (f.k = "Y" => g.n = out)
    <2>1. fromTNC' # fromTNC
        BY <1>2, ComesIs
    <2>2. PICK n \in CASE f.k = "X" -> {0, 1} [] f.k = "Y" -> {out} [] OTHER -> {0} :
                 fromTNC' = Append(fromTNC, [k |-> f.k, n |-> n])
        BY <2>1 DEF TNCTakes
    <2>3. g = [k |-> f.k, n |-> n]
        BY <1>2, <2>2, ComesIs
    <2>4. f.k = "Y" => n = out
        BY <2>2
    <2> QED
        BY <2>3, <2>4
<1> QED
    BY <1>1, <1>2 DEF Accepted

LEMMA TameStill == ASSUME BaseInv, UNCHANGED <<fromTNC, link, lag, out, owed>> PROVE Tame
BY ComesIs DEF Tame, Amounts, Unasked, Rests

LEMMA TameSend ==
    ASSUME NEW f, NEW a, NEW b, BaseInv, Send(f, a, b), owed' = owed, f.k = "D" => u = "send" /\ u' # u,
           f.k = "Y" => u = "ask1" /\ u' # u
    PROVE  Tame
<1>1. CASE UNCHANGED <<fromTNC, link, lag, out, owed>>
    BY <1>1, TameStill
<1>2. CASE TNCTakes(f)
    <2>1. Accepted(f)
        BY <1>2, TNCAccepts
    <2> QED
        BY <2>1 DEF Accepted, Tame, Amounts, Unasked, Rests
<1> QED
    BY <1>1, <1>2 DEF Send

LEMMA TameUser == ASSUME BaseInv, UserSteps PROVE Tame
<1>1. F("g").k = "g" /\ F("X").k = "X" /\ F("Y").k = "Y" /\ F("d").k = "d" /\ F("C").k = "C"
    BY DEF F
<1>2. CASE UNCHANGED <<fromTNC, link, lag, out, owed>>
    BY <1>2, TameStill
<1>3. CASE NewPort \/ NewConn \/ HandleInbound
    BY <1>2, <1>3 DEF NewPort, NewConn, HandleInbound, Chain, tncVars
<1>4. CASE GetCapabilities \/ Register
    BY <1>1, <1>2, <1>4, TameSend DEF GetCapabilities, Register, tncVars, TncOnly
<1>5. CASE Connect
    BY <1>1, <1>2, <1>5, TameSend DEF Connect, tncVars, TncOnly
<1>6. CASE AskOutstanding \/ Outstanding \/ AskTimeout \/ FlushTimeout
    <2>1. CASE u = "ask1" /\ u' = "askWait" /\ Send(F("Y"), "askWait", "broken") /\ owed' = owed
        BY <1>1, <2>1, TameSend
    <2> QED
        BY <1>2, <1>6, <2>1 DEF AskOutstanding, Outstanding, AskTimeout, FlushTimeout, tncVars, TncOnly
<1>7. CASE SendData
    <2>1. [k |-> "D", n |-> writes + 1].k = "D"
        OBVIOUS
    <2> QED
        BY <1>7, <2>1, TameSend DEF SendData, Send, TncOnly
<1>8. CASE Write \/ Flush \/ CallClose \/ Close
    <2>1. CASE Begins /\ UNCHANGED <<fromTNC, link, lag, out>> /\ owed' = out
        <3>1. Unasked
            BY <2>1, ComesIs DEF Unasked
        <3> QED
            BY <2>1, <3>1 DEF Tame, Amounts, Rests
    <2>2. CASE Write \/ CallClose
        BY <1>2, <2>2 DEF Write, CallClose, tncVars
    <2>3. CASE Flush
        BY <2>1, <2>3 DEF Flush, Begins
    <2>4. CASE Close
        BY <1>1, <1>2, <2>1, <2>4, TameSend DEF Close, Begins, tncVars, TncOnly
    <2> QED
        BY <1>8, <2>2, <2>3, <2>4
<1> QED
    BY <1>3, <1>4, <1>5, <1>6, <1>7, <1>8 DEF UserSteps

LEMMA TameStep == ASSUME BaseInv, [Next]_vars PROVE Tame
<1>1. CASE UNCHANGED <<fromTNC, link, lag, out, owed>>
    BY <1>1, TameStill
<1>2. CASE TNCRun
    <2>1. fromTNC # <<>> /\ fromTNC' = Tail(fromTNC) /\ UNCHANGED <<link, lag, out, owed>>
        BY <1>2 DEF TNCRun
    <2>2. Unasked
        BY <2>1, ComesIs DEF Unasked
    <2> QED
        BY <2>1, <2>2 DEF Tame, Amounts, Rests
<1>3. CASE TNC
    <2>1. ASSUME NEW f, Emit(f), f.k # "Y" PROVE Unasked
        <3>1. \A g : Comes(g) => g = f
            BY <2>1, ComesIs DEF Emit
        <3> QED
            BY <2>1, <3>1 DEF Unasked
    <2>2. F("C").k # "Y" /\ F("c").k # "Y" /\ F("d").k # "Y" /\ [k |-> "D", n |-> remote + 1].k # "Y"
        BY DEF F
    <2>3. CASE TNCLink
        <3>1. UNCHANGED <<lag, out, owed>> /\ link # "up"
            BY <2>3 DEF TNCLink
        <3>2. Unasked
            BY <2>1, <2>2, <2>3 DEF TNCLink
        <3> QED
            BY <3>1, <3>2 DEF Tame, Amounts, Rests
    <2>4. CASE TNCTransmit
        <3>1. fromTNC' = fromTNC /\ link = "up" /\ link' = link
            BY <2>4 DEF TNCTransmit
        <3>2. Unasked
            BY <3>1, ComesIs DEF Unasked
        <3> QED
            BY <2>4, <3>1, <3>2 DEF TNCTransmit, Tame, Amounts, Rests
    <2>5. CASE RemoteData
        <3>1. Unasked /\ UNCHANGED <<link, lag, out, owed>>
            BY <2>1, <2>2, <2>5 DEF RemoteData
        <3> QED
            BY <3>1 DEF Tame, Amounts, Rests
    <2>6. CASE LinkLost
        <3>1. Unasked /\ lag' = 0 /\ out' = 0 /\ link' = "gone" /\ owed' = owed
            BY <2>1, <2>2, <2>6 DEF LinkLost
        <3> QED
            BY <3>1 DEF Tame, Amounts, Rests
    <2>7. CASE TCPFail
        <3>1. fromTNC' = fromTNC /\ lag' = 0 /\ out' = 0 /\ link' = "gone" /\ owed' = owed
            BY <2>7 DEF TCPFail
        <3>2. Unasked
            BY <3>1, ComesIs DEF Unasked
        <3> QED
            BY <3>1, <3>2 DEF Tame, Amounts, Rests
    <2> QED
        BY <1>3, <2>3, <2>4, <2>5, <2>6, <2>7 DEF TNC
<1>4. CASE Goroutines
    BY <1>1, <1>2, <1>4 DEF Goroutines, RunRequest, RunTake, RunDeliver, RunExit, ChainForward, ChainExit, TNCExit,
       TeardownStep, tncVars
<1>5. CASE Read \/ Idle \/ UNCHANGED vars
    BY <1>1, <1>5 DEF Read, Idle, vars, tncVars
<1> QED
    BY <1>3, <1>4, <1>5, TameUser DEF Next

\* Write notes what it finds with the TNC
Notes == IF u = "send" /\ u' # u THEN ~piled' => lag = 0 /\ out = 0 ELSE piled' = piled
LEMMA NotesStep == ASSUME BaseInv, [Next]_vars PROVE Notes
<1>1. CASE Goroutines \/ Read \/ TNC \/ Idle \/ UNCHANGED vars
    BY <1>1 DEF Notes, Goroutines, RunRequest, RunTake, RunDeliver, RunExit, ChainForward, ChainExit, TNCRun, TNCExit,
           TeardownStep, userVars, Read, TNC, TNCLink, TNCTransmit, RemoteData, LinkLost, TCPFail, Idle, vars
<1>2. CASE NewPort \/ GetCapabilities \/ Register \/ HandleInbound \/ NewConn \/ Connect
    BY <1>2 DEF Notes, NewPort, GetCapabilities, Register, HandleInbound, NewConn, Connect, Chain, Rest
<1>3. CASE AskOutstanding \/ Outstanding \/ AskTimeout \/ FlushTimeout
    BY <1>3 DEF Notes, AskOutstanding, Outstanding, AskTimeout, FlushTimeout, Rest
<1>4. CASE SendData
    <2>1. u = "send" /\ u' \in {"ask", "broken"}
        BY <1>4 DEF SendData, Send
    <2>2. lag \in Nat /\ out \in Nat
        BY DEF BaseInv, TypeInv
    <2>3. piled' = (lag > 0 \/ out > 0)
        BY <1>4 DEF SendData
    <2>4. ~piled' => ~(lag > 0) /\ ~(out > 0)
        BY <2>3, Zenon
    <2>5. ~piled' => lag = 0 /\ out = 0
        BY <2>2, <2>4
    <2> QED
        BY <2>1, <2>5 DEF Notes
<1>5. CASE Write \/ Flush \/ CallClose \/ Close
    BY <1>5 DEF Notes, Write, Flush, CallClose, Close, Rest
<1> QED
    BY <1>1, <1>2, <1>3, <1>4, <1>5 DEF Next, UserSteps

\* The amounts stay within what was noted
LEMMA FewStep == ASSUME BaseInv, Rests, Owing, Few, [Next]_vars PROVE Owing' /\ Few'
<1>1. Amounts /\ Notes
    BY TameStep, NotesStep DEF Tame
<1>2. lag \in Nat /\ out \in Nat /\ owed \in Nat
    BY DEF BaseInv, TypeInv, Owing
<1>3. link = "gone" => link' = "gone"
    BY LinkGone
<1>4. Owing'
    BY <1>1, <1>2, <1>3 DEF Amounts, Owing, Rests
<1>5. Few'
    <2>1. CASE piled' = piled /\ ~(u = "send" /\ u' # u)
        BY <1>1, <1>2, <2>1 DEF Amounts, Few
    <2>2. CASE u = "send" /\ u' # u
        <3>1. lag' + out' <= lag + out + 1
            BY <1>1, <1>2, <2>2 DEF Amounts
        <3> QED
            BY <1>1, <1>2, <2>2, <3>1 DEF Notes, Few
    <2> QED
        BY <1>1, <2>1, <2>2 DEF Notes
<1> QED
    BY <1>4, <1>5

\* Only a Write or a Flush makes something new to wait for
LEMMA StaysSettled ==
    ASSUME BaseInv, [Next]_vars, u # "send" \/ u' = u
    PROVE  (Counted => Counted') /\ (Settled /\ ~Begins => Settled')
<1>1. Amounts /\ piled' = piled
    BY TameStep, NotesStep DEF Tame, Notes
<1>2. lag \in Nat /\ out \in Nat
    BY DEF BaseInv, TypeInv
<1>3. link = "gone" => link' = "gone"
    BY LinkGone
<1>4. Counted => Counted'
    BY <1>1, <1>2 DEF Amounts, Counted
<1>5. Settled /\ ~Begins => Settled'
    BY <1>1, <1>2, <1>3 DEF Amounts, Settled
<1> QED
    BY <1>4, <1>5

\* When the channel of the answer is closed it has the answer, or the connection
\* is closed
OverIs ==
    "y" \in over' =>
        ("y" \in over /\ resp'["y"] = resp["y"]) \/ resp'["y"] # <<>> \/ closed'["conn"]

LEMMA OverGiven ==
    ASSUME NEW l \in Level, NEW f \in Sound, NEW T, NEW c, BaseInv, CloseInv, Given(l, f, T, c), T \subseteq Client
    PROVE  OverIs
<1>1. c \in Client /\ resp \in [Client -> Seq(Sound)] /\ "y" \in Client /\ "y" \notin Chains /\ resp["y"] \in Seq(Sound)
    BY DEF Given, BaseInv, TypeInv, Client, Chains
<1>2. "y" \notin cancelled
    BY DEF CloseInv
<1>3. CASE c = "y"
    <2>1. resp' = [resp EXCEPT !["y"] = Append(@, f)]
        BY <1>1, <1>2, <1>3 DEF Given, Gets
    <2>2. resp'["y"] = Append(resp["y"], f)
        BY <1>1, <2>1
    <2>3. Append(resp["y"], f) # <<>>
        BY <1>1, AppendIs
    <2> QED
        BY <2>2, <2>3 DEF OverIs
<1>4. CASE c # "y"
    <2>1. resp'["y"] = resp["y"]
        BY <1>1, <1>4 DEF Given, Gets
    <2>2. "y" \in over' => "y" \in over
        BY <1>4 DEF Given
    <2> QED
        BY <2>1, <2>2 DEF OverIs
<1> QED
    BY <1>3, <1>4

LEMMA OverStep == ASSUME BaseInv, CloseInv, [Next]_vars PROVE OverIs
<1>0. /\ resp \in [Client -> Seq(Sound)] /\ "y" \in Client /\ "conn" \in Level /\ closed \in [Level -> BOOLEAN]
      /\ \A l \in Level : Range(clients[l]) \subseteq At[l]
      /\ \A l \in Level : "y" \in At[l] => l = "conn"
    BY AtIs DEF BaseInv, TypeInv, Client, Level
<1>1. CASE UNCHANGED <<over, resp>>
    BY <1>1 DEF OverIs
<1>2. ASSUME NEW l \in Level, RunTake(l) PROVE OverIs
    <2> DEFINE f == Head(in[l])
               T == Wanting(l, f)
    <2>1. in[l] # <<>> /\ in' = [in EXCEPT ![l] = Tail(@)]
        BY <1>2, TakeIs
    <2>2. f \in Sound
        BY <2>1, InTail
    <2>3. T \subseteq Client
        BY <1>0, AtIs DEF Wanting
    <2>4. Ignores(l) \/ Holds(l) \/ \E c : Given(l, f, T, c)
        BY <1>2, TakeIs
    <2>5. CASE Ignores(l) \/ Holds(l)
        BY <1>1, <2>5 DEF Ignores, Holds
    <2> HIDE DEF f, T
    <2> QED
        BY <2>2, <2>3, <2>4, <2>5, OverGiven
<1>3. ASSUME NEW l \in Level, RunDeliver(l) PROVE OverIs
    <2> DEFINE f == run[l].f
               T == run[l].todo
    <2>1. /\ f \in Sound /\ T # {} /\ T \subseteq Range(clients[l])
        BY <1>3 DEF RunDeliver, BaseInv, TodoInv
    <2>2. Deliver(l, f, T) /\ TypeInv
        BY <1>3 DEF RunDeliver, BaseInv
    <2>3. T \subseteq Client
        BY <1>0, <2>1, AtIs
    <2> HIDE DEF f, T
    <2>4. PICK d : Given(l, f, T, d)
        BY <2>1, <2>2, DeliverIs
    <2> QED
        BY <2>1, <2>3, <2>4, OverGiven
<1>4. ASSUME NEW l \in Level, RunExit(l) PROVE OverIs
    <2>1. over' = over \cup Range(clients[l]) /\ UNCHANGED <<resp, closed>> /\ closed[l]
        BY <1>4 DEF RunExit
    <2> QED
        BY <1>0, <2>1 DEF OverIs
<1>5. ASSUME NEW l \in Level, RunRequest(l) PROVE OverIs
    BY <1>1, <1>5 DEF RunRequest
<1>6. ASSUME NEW x \in Chains, ChainForward(x) \/ ChainExit(x) PROVE OverIs
    BY <1>1, <1>6 DEF ChainForward, ChainExit
<1>7. CASE TNCRun \/ TNCExit \/ TeardownStep \/ TNC \/ Idle \/ UNCHANGED vars
    BY <1>1, <1>7 DEF TNCRun, TNCExit, TeardownStep, TNC, TNCLink, TNCTransmit, RemoteData, LinkLost, TCPFail, Idle,
       vars, demuxVars
<1>8. CASE Read
    <2>1. over' = over /\ resp'["y"] = resp["y"]
        BY <1>0, <1>8 DEF Read
    <2> QED
        BY <2>1 DEF OverIs
<1>9. CASE UserSteps
    <2>1. Shape
        BY <1>9, UserShape
    <2>2. CASE Asks
        <3>1. PICK l \in Level : \E c \in At[l] \cap Once : NextFrame(l, c, u')
            BY <2>2 DEF Asks
        <3>2. PICK c \in At[l] : NextFrame(l, c, u')
            BY <3>1
        <3>3. CASE c = "y"
            <4>1. l = "conn"
                BY <1>0, <3>3
            <4> QED
                BY <3>2, <3>3, <4>1 DEF NextFrame, OverIs
        <3>4. CASE c # "y"
            <4>1. resp'["y"] = resp["y"]
                BY <1>0, <3>2, <3>4 DEF NextFrame
            <4>2. "y" \in over' => "y" \in over
                BY <3>2, <3>4 DEF NextFrame
            <4> QED
                BY <4>1, <4>2 DEF OverIs
        <3> QED
            BY <3>3, <3>4
    <2>3. CASE Forgets
        <3>1. PICK l \in Level : \E c \in At[l] \cap Once : Forget(l, c)
            BY <2>3 DEF Forgets
        <3>2. PICK c \in At[l] : Forget(l, c)
            BY <3>1
        <3>3. resp' = [resp EXCEPT ![c] = <<>>] /\ over' = over \ {c}
            BY <3>2 DEF Forget
        <3> QED
            BY <1>0, <3>3 DEF OverIs
    <2>4. CASE Takes
        BY <2>4 DEF Takes, Frames, OverIs
    <2>5. CASE Called
        <3>1. over' = over /\ resp'["y"] = resp["y"]
            BY <1>0, <2>5 DEF Called
        <3> QED
            BY <3>1 DEF OverIs
    <2>6. CASE Still \/ Waits \/ Sends \/ (\E c \in Chains : Starts(c)) \/ Shuts("tnc") \/ Shuts("conn")
        BY <1>1, <2>6 DEF Still, Waits, Sends, Starts, Shuts, demuxVars
    <2> QED
        BY <2>1, <2>2, <2>3, <2>4, <2>5, <2>6 DEF Shape
<1> QED
    BY <1>2, <1>3, <1>4, <1>5, <1>6, <1>7, <1>8, <1>9 DEF Next, Goroutines

LEMMA AnsweredStep == ASSUME BaseInv, CloseInv, Answered, [Next]_vars PROVE Answered'
<1>1. Source /\ OverIs
    BY SourceStep, OverStep
<1>2. closed["conn"] => closed'["conn"]
    BY LastingStep DEF Lasting, Level
<1>3. "y" \in over' => resp'["y"] # <<>> \/ closed'["conn"]
    BY <1>1, <1>2 DEF OverIs, Answered
<1>4. \A i \in DOMAIN resp'["y"] : resp'["y"][i].k = "Y"
    <2>1. CASE resp'["y"] = resp["y"] \/ resp'["y"] = <<>>
        BY <2>1 DEF Answered
    <2>2. ASSUME NEW f \in Sound, f.k \in Kinds["y"], resp'["y"] = Append(resp["y"], f)
          PROVE  \A i \in DOMAIN resp'["y"] : resp'["y"][i].k = "Y"
        <3>1. resp["y"] \in Seq(Sound) /\ f.k = "Y"
            BY <2>2, KindsAre DEF BaseInv, TypeInv, Client
        <3>2. /\ DOMAIN Append(resp["y"], f) = DOMAIN resp["y"] \cup {Len(resp["y"]) + 1}
              /\ Append(resp["y"], f)[Len(resp["y"]) + 1] = f
              /\ \A i \in DOMAIN resp["y"] : Append(resp["y"], f)[i] = resp["y"][i]
            BY <3>1, AppendIs
        <3> QED
            BY <2>2, <3>1, <3>2 DEF Answered
    <2> QED
        BY <1>1, <2>1, <2>2 DEF Source
<1> QED
    BY <1>3, <1>4 DEF Answered

\* A step that leaves the questions alone, or only passes on to the next step of
\* one
Quiet ==
    /\ UNCHANGED flushed
    /\ u # "ask1" \/ u' = u
    /\ u # "send" \/ u' = u
    /\ ~Begins
    /\ u = "askWait" => u' = u
    /\ u \in Asking => u' \in Asking /\ op' = op
    /\ Ended => Ended'

LEMMA ExactQuiet == ASSUME BaseInv, Exact, Quiet, [Next]_vars PROVE Exact'
<1> DEFINE W == Way("y")
           V == Way("y")'
<1>1. CountMoves /\ Tame
    BY CountWay, TameStep
<1>3. Unasked /\ (u # "send" \/ u' = u)
    BY <1>1 DEF Tame, Quiet
<1>4. (Counted => Counted') /\ (Settled => Settled')
    BY <1>3, StaysSettled DEF Quiet
<1>5. ASSUME NEW n, u = "askWait", Means(n) PROVE u' = "askWait" /\ Means(n)'
    <2>1. u' = u /\ op' = op
        BY <1>5 DEF Quiet, Asking
    <2> QED
        BY <1>4, <1>5, <2>1 DEF Means
<1> HIDE DEF W, V
<1>6. Sorted(V, OneCount)
    BY <1>1, <1>3 DEF CountMoves, Exact, V
<1>7. \A f \in On(V) : f.k = "Y" => (u' = "askWait" /\ Means(f.n)') \/ Ended'
    <2> SUFFICES ASSUME NEW f \in On(V), f.k = "Y" PROVE (u' = "askWait" /\ Means(f.n)') \/ Ended'
        OBVIOUS
    <2>1. f \in On(W)
        BY <1>1, <1>3 DEF CountMoves, Unasked, V, W
    <2>2. (u = "askWait" /\ Means(f.n)) \/ Ended
        BY <2>1 DEF Exact, W
    <2> QED
        BY <1>5, <2>2 DEF Quiet
<1>8. Counted' \/ (op' = "post" /\ u' \in Asking) \/ (Ended' /\ ~flushed')
    BY <1>4 DEF Exact, Quiet
<1>9. flushed' => Settled'
    BY <1>4 DEF Exact, Quiet
<1> QED
    BY <1>6, <1>7, <1>8, <1>9 DEF Exact, V

\* Between two questions no count is on its way
LEMMA ExactClean == ASSUME Exact, u # "askWait", ~Ended PROVE Clean(Way("y"))
BY DEF Exact, Clean

LEMMA CleanStep ==
    ASSUME BaseInv, Exact, Clean(Way("y")), [Next]_vars, u # "ask1"
    PROVE  Clean(Way("y")') /\ Sorted(Way("y")', OneCount)
<1>1. CountMoves /\ Unasked
    BY CountWay, TameStep DEF Tame
<1> QED
    BY <1>1 DEF CountMoves, Clean, Unasked, Exact

LEMMA CleanExact ==
    ASSUME Clean(Way("y")'), Sorted(Way("y")', OneCount),
           Counted' \/ (op' = "post" /\ u' \in Asking) \/ (Ended' /\ ~flushed'),
           flushed' => Settled'
    PROVE  Exact'
BY DEF Exact, Clean

CountRest == Purpose /\ (tcp /\ ~late => Exact)

LEMMA QuietRest ==
    ASSUME BaseInv, CountInv, Quiet, [Next]_vars, Purpose', UNCHANGED late
    PROVE  CountRest'
<1>1. tcp' => tcp
    BY ClosingStep DEF Closing
<1>2. CASE tcp' /\ ~late'
    <2>1. Exact
        BY <1>1, <1>2 DEF CountInv
    <2>2. Exact'
        BY <2>1, ExactQuiet
    <2> QED
        BY <2>2 DEF CountRest
<1> QED
    BY <1>2 DEF CountRest

\* The other goroutines and the TNC
LEMMA CountOthers == ASSUME BaseInv, CountInv, [Next]_vars, ~UserSteps PROVE CountRest'
<1>1. Goroutines => UNCHANGED <<u, op, flushed, late>>
    BY DEF Goroutines, RunRequest, RunTake, RunDeliver, RunExit, ChainForward, ChainExit, TNCRun, TNCExit,
           TeardownStep, userVars
<1>2. Read \/ TNC \/ Idle \/ UNCHANGED vars => UNCHANGED <<u, op, flushed, late>>
    BY DEF Read, TNC, TNCLink, TNCTransmit, RemoteData, LinkLost, TCPFail, Idle, vars, userVars
<1>3. UNCHANGED <<u, op, flushed, late>>
    BY <1>1, <1>2 DEF Next
<1>4. closed["conn"] => closed'["conn"]
    BY LastingStep DEF Lasting, Level
<1>5. Quiet
    BY <1>3, <1>4 DEF Quiet, Ended, Begins
<1>6. Purpose'
    BY <1>3 DEF CountInv, Purpose
<1> QED
    BY <1>3, <1>5, <1>6, QuietRest

\* What the user's goroutine does before the connection is there, and after the
\* last question
Aside ==
    /\ u \notin Asking \cup {"send"} /\ u' \notin Asking \cup {"send"}
    /\ UNCHANGED <<flushed, late>>
    /\ Ended => Ended'
LEMMA CountAside == ASSUME BaseInv, CountInv, [Next]_vars, Aside PROVE CountRest'
<1>1. Quiet /\ Purpose'
    BY DEF Aside, Quiet, Purpose, Asking, Begins
<1> QED
    BY <1>1, QuietRest DEF Aside

LEMMA AsideEarly ==
    ASSUME NewPort \/ GetCapabilities \/ Register \/ HandleInbound \/ NewConn \/ Connect
    PROVE  Aside
<1> DEFINE Early == {"newPort", "newPort1", "newPort2", "caps", "caps1", "capsWait", "reg", "reg1", "regWait",
                     "regFailed", "ready", "listen", "newConn", "newConn0", "newConn1", "newConn2", "newConn3",
                     "newConn4", "offer", "dial", "dial1", "dialWait", "dialFailed"}
<1>1. CASE NewPort \/ NewConn
    <2>1. u \in Early /\ u' \in Early \cup {"panic", "done"} /\ UNCHANGED <<flushed, late>>
        BY <1>1 DEF NewPort, NewConn, Chain, Frames, NextFrame, Rest
    <2> QED
        BY <2>1 DEF Aside, Asking, Ended
<1>2. CASE GetCapabilities \/ Register
    <2>1. u \in Early /\ u' \in Early \cup {"done"} /\ UNCHANGED <<flushed, late>>
        BY <1>2 DEF GetCapabilities, Register, NextFrame, Send, Rest
    <2> QED
        BY <2>1 DEF Aside, Asking, Ended
<1>3. CASE HandleInbound \/ Connect
    <2>1. u \in Early /\ u' \in Early \cup {"done", "idle", "close"} /\ UNCHANGED <<flushed, late>>
        BY <1>3 DEF HandleInbound, Connect, Frames, NextFrame, Send, Rest
    <2> QED
        BY <2>1 DEF Aside, Asking, Ended
<1> QED
    BY <1>1, <1>2, <1>3

\* A question begins
LEMMA CountBegins ==
    ASSUME BaseInv, CountInv, [Next]_vars, u \in {"idle", "close"}, ~Ended,
           u' = "ask", op' \in {"pre", "flush", "close"}, ~flushed', UNCHANGED late
    PROVE  CountRest'
<1>1. tcp' => tcp
    BY ClosingStep DEF Closing
<1>2. Purpose'
    BY DEF Purpose
<1>3. CASE tcp' /\ ~late'
    <2>1. Exact
        BY <1>1, <1>3 DEF CountInv
    <2>2. Clean(Way("y"))
        BY <2>1, ExactClean
    <2>3. Clean(Way("y")') /\ Sorted(Way("y")', OneCount)
        BY <2>1, <2>2, CleanStep
    <2>4. Counted
        BY <2>1 DEF Exact, Asking
    <2>5. Counted'
        BY <2>4, StaysSettled
    <2>6. Exact'
        BY <2>3, <2>5, CleanExact
    <2> QED
        BY <1>2, <2>6 DEF CountRest
<1> QED
    BY <1>2, <1>3 DEF CountRest

LEMMA CountCalls == ASSUME BaseInv, CountInv, Write \/ Flush \/ CallClose \/ Close PROVE CountRest'
<1>0. [Next]_vars
    BY DEF Next, UserSteps
<1>1. CASE Write \/ Flush
    <2>1. /\ u = "idle" /\ u' = "ask" /\ op' \in {"pre", "flush"} /\ ~flushed' /\ UNCHANGED late
        BY <1>1 DEF Write, Flush
    <2>2. ~Ended
        BY <2>1 DEF Ended
    <2> QED
        BY <1>0, <2>1, <2>2, CountBegins
<1>2. CASE CallClose
    <2>1. u \in {"idle", "broken"} /\ u' = "close" /\ UNCHANGED <<flushed, late, closed>>
        BY <1>2 DEF CallClose, Rest, demuxVars
    <2>2. Aside
        BY <2>1 DEF Aside, Asking, Ended
    <2> QED
        BY <1>0, <2>2, CountAside
<1>3. CASE Close
    <2>1. \/ u = "close" /\ ~closed["conn"] /\ u' = "ask" /\ op' = "close" /\ ~flushed' /\ UNCHANGED late
          \/ /\ UNCHANGED <<flushed, late>>
             /\ \/ u = "close" /\ u' = "done" /\ closed' = closed
                \/ u = "end" /\ u' = "end1"
                \/ u = "end1" /\ u' \in {"endWait", "closeConn"}
                \/ u = "endWait" /\ u' = "closeConn"
                \/ u = "closeConn" /\ u' = "done" /\ closed' = [closed EXCEPT !["conn"] = TRUE]
        BY <1>3 DEF Close, Rest, NextFrame, Send, demuxVars
    <2>2. CASE u = "close" /\ ~closed["conn"] /\ u' = "ask" /\ op' = "close" /\ ~flushed' /\ UNCHANGED late
        <3>1. ~Ended
            BY <2>2 DEF Ended
        <3> QED
            BY <1>0, <2>2, <3>1, CountBegins
    <2>3. CASE /\ UNCHANGED <<flushed, late>>
               /\ \/ u = "close" /\ u' = "done" /\ closed' = closed
                  \/ u = "end" /\ u' = "end1"
                  \/ u = "end1" /\ u' \in {"endWait", "closeConn"}
                  \/ u = "endWait" /\ u' = "closeConn"
                  \/ u = "closeConn" /\ u' = "done" /\ closed' = [closed EXCEPT !["conn"] = TRUE]
        <3>1. closed \in [Level -> BOOLEAN] /\ "conn" \in Level
            BY DEF BaseInv, TypeInv, Level
        <3>2. Ended => Ended'
            BY <2>3, <3>1 DEF Ended
        <3>3. Aside
            BY <2>3, <3>2 DEF Aside, Asking
        <3> QED
            BY <1>0, <3>3, CountAside
    <2> QED
        BY <2>1, <2>2, <2>3
<1> QED
    BY <1>1, <1>2, <1>3

\* Write has sent its frame, and will see it counted
LEMMA CountSends == ASSUME BaseInv, CloseInv, CountInv, SendData PROVE CountRest'
<1>0. [Next]_vars
    BY DEF Next, UserSteps
<1>1. u = "send" /\ UNCHANGED <<op, flushed, late, tcp>>
    BY DEF SendData, TncOnly
<1>2. op = "post" /\ ~flushed
    BY <1>1 DEF CountInv, Purpose
<1>3. u' = "ask" \/ (u' = "broken" /\ (~tcp \/ closed["tnc"]))
    BY DEF SendData, Send
<1>4. Purpose'
    BY <1>1, <1>2, <1>3 DEF Purpose, Asking
<1>5. CASE tcp' /\ ~late'
    <2>1. Exact /\ u' = "ask"
        BY <1>1, <1>3, <1>5 DEF CountInv, CloseInv
    <2>2. Clean(Way("y"))
        BY <1>1, <2>1, ExactClean DEF Ended
    <2>3. Clean(Way("y")') /\ Sorted(Way("y")', OneCount)
        BY <1>0, <1>1, <2>1, <2>2, CleanStep
    <2>4. Exact'
        BY <1>1, <1>2, <2>1, <2>3, CleanExact DEF Asking
    <2> QED
        BY <1>4, <2>4 DEF CountRest
<1> QED
    BY <1>4, <1>5 DEF CountRest

\* What the end of a wait means to its caller
Returns(res) ==
    /\ Purpose'
    /\ res = "eof" => u' \in {"closeConn", "broken"}
    /\ flushed' => res = "enough" /\ op \in {"flush", "close"}
LEMMA ReturnIs == ASSUME NEW res, Return(res) PROVE Returns(res)
<1>1. /\ u' \in {"closeConn", "end", "broken", "send", "idle"}
      /\ res = "eof" => u' \in {"closeConn", "broken"}
      /\ u' = "send" => op = "pre" /\ res = "enough"
    BY DEF Return
<1>2. u' = "send" => op = "pre" /\ res = "enough"
    BY <1>1
<1>3. op' = (IF op = "pre" /\ res = "enough" THEN "post" ELSE "none")
    BY DEF Return
<1>4. flushed' = (res = "enough" /\ op \in {"flush", "close"})
    BY DEF Return
<1>5. (u' \in Asking => op' \in {"pre", "post", "flush", "close"})
    BY <1>1 DEF Asking
<1>6. u' = "send" => ~flushed' /\ op' = "post"
    <2>1. CASE u' = "send"
        <3>1. op = "pre" /\ op' = "post"
            BY <1>2, <1>3, <2>1
        <3>2. ~flushed'
            BY <1>4, <3>1
        <3> QED
            BY <3>1, <3>2
    <2> QED
        BY <2>1
<1>7. flushed' => res = "enough" /\ op \in {"flush", "close"}
    BY <1>4
<1> QED
    BY <1>1, <1>5, <1>6, <1>7 DEF Returns, Purpose

LEMMA CountAsks == ASSUME BaseInv, CloseInv, CountInv, AskOutstanding PROVE CountRest'
<1>0. [Next]_vars
    BY DEF Next, UserSteps
<1>1. CASE u = "ask" /\ closed["conn"] /\ Return("eof") /\ UNCHANGED <<demuxVars, tcp, late>>
    <2>1. Returns("eof")
        BY <1>1, ReturnIs
    <2>2. Purpose' /\ u' \in {"closeConn", "broken"} /\ ~flushed'
        BY <2>1 DEF Returns
    <2>3. Ended'
        BY <1>1, <2>2 DEF Ended, demuxVars
    <2>4. CASE tcp' /\ ~late'
        <3>1. Exact
            BY <1>1, <2>4 DEF CountInv
        <3>2. Clean(Way("y"))
            BY <1>1, <3>1, ExactClean DEF Ended
        <3>3. Clean(Way("y")') /\ Sorted(Way("y")', OneCount)
            BY <1>0, <1>1, <3>1, <3>2, CleanStep
        <3>4. Exact'
            BY <2>2, <2>3, <3>3, CleanExact
        <3> QED
            BY <2>2, <3>4 DEF CountRest
    <2> QED
        BY <2>2, <2>4 DEF CountRest
<1>2. CASE u = "ask" /\ u' = "ask1" /\ UNCHANGED <<op, flushed, late>>
    <2>1. Quiet
        BY <1>2 DEF Quiet, Asking, Ended, Begins
    <2>2. Purpose'
        BY <1>2 DEF Purpose, CountInv, Asking
    <2> QED
        BY <1>0, <1>2, <2>1, <2>2, QuietRest
<1>3. CASE u = "ask1" /\ ~tcp' /\ Return("error")
    <2>1. Returns("error")
        BY <1>3, ReturnIs
    <2> QED
        BY <1>3, <2>1 DEF Returns, CountRest
<1>4. CASE u = "ask1" /\ u' = "askWait" /\ Send(F("Y"), "askWait", "broken")
           /\ UNCHANGED <<op, flushed, late, tcp, owed, piled>>
    <2>1. Purpose'
        BY <1>4 DEF Purpose, CountInv, Asking
    <2>2. CASE tcp' /\ ~late'
        <3>1. Exact /\ TNCTakes(F("Y")) /\ F("Y").k = "Y"
            BY <1>4, <2>2 DEF CountInv, Send, F
        <3>2. Clean(Way("y"))
            BY <1>4, <3>1, ExactClean DEF Ended
        <3>3. Accepted(F("Y"))
            BY <3>1, TNCAccepts
        <3>4. CountMoves
            BY <1>0, CountWay
        <3>5. Sorted(Way("y")', OneCount)
            BY <3>1, <3>2, <3>4 DEF Exact, CountMoves
        <3>6. lag \in Nat /\ out \in Nat /\ owed \in Nat /\ (link = "gone" => link' = "gone")
            BY <1>0, LinkGone DEF BaseInv, TypeInv, CountInv, Owing
        <3>7. (lag' = 0 /\ out' = 0) \/ (lag' = lag /\ out' = out)
            BY <3>1, <3>3 DEF Accepted
        <3>8. Counted \/ op = "post"
            BY <1>4, <3>1 DEF Exact, Ended
        <3>9. ASSUME NEW n, n = out PROVE Means(n)'
            <4>2. op' = "post" /\ out > 0 => Counted'
                BY <1>4, <3>6, <3>7 DEF Counted, CountInv, Few
            <4>3. op' \in {"flush", "close"} /\ out = 0 => Settled'
                BY <1>4, <3>6, <3>7, <3>8 DEF Counted, CountInv, Owing, Settled
            <4> QED
                BY <3>9, <4>2, <4>3 DEF Means
        <3>10. ASSUME NEW f \in On(Way("y")'), f.k = "Y" PROVE u' = "askWait" /\ Means(f.n)'
            <4>1. Comes(f)
                BY <3>2, <3>4, <3>10 DEF CountMoves, Clean
            <4>2. f.n = out
                BY <3>1, <3>3, <4>1 DEF Accepted
            <4> QED
                BY <1>4, <3>9, <4>2
        <3>11. Counted' \/ (op' = "post" /\ u' \in Asking)
            BY <1>4, <3>6, <3>7, <3>8 DEF Counted, Asking
        <3>12. flushed' => Settled'
            BY <1>4, <3>1, <3>6, <3>7 DEF Exact, Settled
        <3>13. Exact'
            BY <3>5, <3>10, <3>11, <3>12 DEF Exact
        <3> QED
            BY <2>1, <3>13 DEF CountRest
    <2> QED
        BY <2>1, <2>2 DEF CountRest
<1>5. closed["tnc"] => ~tcp
    BY DEF CloseInv
<1> QED
    BY <1>1, <1>2, <1>3, <1>4, <1>5 DEF AskOutstanding, NextFrame, tncVars, TncOnly, Rest

\* The wait is given up
LEMMA CountGivesUp == ASSUME AskTimeout \/ FlushTimeout PROVE CountRest'
<1>1. late'
    BY DEF AskTimeout, FlushTimeout
<1>2. Return("error") \/ Return("enough")
    BY DEF AskTimeout, FlushTimeout
<1>3. Purpose'
    BY <1>2, ReturnIs DEF Returns
<1> QED
    BY <1>1, <1>3 DEF CountRest

LEMMA CountAnswered == ASSUME BaseInv, CountInv, Outstanding PROVE CountRest'
<1>0. [Next]_vars /\ "y" \in Ends /\ "conn" \in Level /\ "y" \in At["conn"] \cap Once /\ "y" \in Client
    BY AtIs DEF Next, UserSteps, Ends, Level, Once, Client
<1>1. u = "askWait" /\ Forget("conn", "y") /\ UNCHANGED <<tcp, link, lag, out, owed, piled, fromTNC, late>>
    BY DEF Outstanding, tncVars
<1>2. resp \in [Client -> Seq(Sound)] /\ resp' = [resp EXCEPT !["y"] = <<>>] /\ closed' = closed
    BY <1>1 DEF Forget, BaseInv, TypeInv
<1>3. ~Ended /\ op \in {"pre", "post", "flush", "close"}
    BY <1>1 DEF Ended, CountInv, Purpose, Asking
<1> DEFINE W == Way("y")
           V == Way("y")'
<1>4. /\ W[2] = resp["y"] /\ V[2] = <<>> /\ V[1] = <<>> /\ IsWay(W) /\ DOMAIN V = Places
    <2>1. resp'["y"] = <<>>
        BY <1>0, <1>2
    <2> QED
        BY <1>0, <2>1, WayIs, WayIsNext, IsWayNow
<1>5. Clear(W, V)
    <2>1. /\ run'["conn"].todo = run["conn"].todo \ {"y"}
          /\ \A m \in Level : m # "conn" => run'[m] = run[m]
          /\ UNCHANGED <<in, chain>>
        BY <1>0, <1>1, ForgetIs
    <2>2. \A d : Held(d)' = Held(d)
        BY <2>1 DEF Held
    <2>3. \A m \in Level : Hand(m, Onto(m, "y"))' \in {Hand(m, Onto(m, "y")), <<>>}
        BY <2>1 DEF Hand, Onto, Level
    <2>4. UNCHANGED <<got, in, fromTNC>> /\ resp'["y"] = <<>>
        BY <1>0, <1>1, <1>2, <2>1 DEF Outstanding
    <2> QED
        BY <1>0, <2>2, <2>3, <2>4, ClearWay
<1> HIDE DEF W, V
<1>6. CASE resp["y"] # <<>>
    <2> DEFINE f == Head(resp["y"])
    <2>1. f.k = "Y" /\ f \in On(W)
        <3>1. 1 \in DOMAIN resp["y"] /\ f = resp["y"][1]
            BY <1>0, <1>2, <1>6, TailIs
        <3>2. 2 \in Places /\ DOMAIN W = Places
            BY <1>4 DEF IsWay, Places
        <3>3. f.k = "Y"
            BY <3>1 DEF CountInv, Answered
        <3> QED
            BY <1>4, <3>1, <3>2, <3>3 DEF On, Range
    <2>2. ASSUME tcp', ~late' PROVE /\ Exact /\ Means(f.n) /\ Clean(V) /\ Sorted(V, OneCount)
        <3>1. Exact
            BY <1>1, <2>2 DEF CountInv
        <3>2. Sorted(W, OneCount) /\ Means(f.n)
            BY <1>3, <2>1, <3>1 DEF Exact, W
        <3>3. Sorted(V, OneCount)
            BY <1>4, <1>5, <3>2, ClearFacts
        <3>4. Clean(V)
            BY <1>4, <1>5, <1>6, <2>1, <3>2, OnlyCount
        <3> QED
            BY <3>1, <3>2, <3>3, <3>4
    <2> HIDE DEF f
    <2>3. lag \in Nat /\ out \in Nat
        BY DEF BaseInv, TypeInv
    <2>4. CASE Enough(f.n) /\ Return("enough")
        <3>1. Returns("enough")
            BY <2>4, ReturnIs
        <3>2. Purpose' /\ (flushed' => op \in {"flush", "close"})
            BY <3>1 DEF Returns
        <3>3. CASE tcp' /\ ~late'
            <4>1. Exact /\ Means(f.n) /\ Clean(V) /\ Sorted(V, OneCount)
                BY <2>2, <3>3
            <4>2. op \in {"flush", "close"} => Settled
                BY <2>4, <4>1 DEF Enough, Means
            <4>3. Counted
                <5>1. op = "post" => Counted
                    BY <2>4, <4>1 DEF Enough, Means
                <5>2. op # "post" => Counted
                    BY <1>3, <4>1 DEF Exact
                <5> QED
                    BY <5>1, <5>2
            <4>4. Counted' /\ (flushed' => Settled')
                BY <1>1, <3>2, <4>2, <4>3 DEF Counted, Settled
            <4>5. Exact'
                BY <4>1, <4>4, CleanExact DEF V
            <4> QED
                BY <3>2, <4>5 DEF CountRest
        <3> QED
            BY <3>2, <3>3 DEF CountRest
    <2>5. CASE u' = "ask" /\ UNCHANGED <<op, flushed>>
        <3>1. Purpose'
            BY <1>3, <2>5 DEF Purpose
        <3>2. CASE tcp' /\ ~late'
            <4>1. Exact /\ Clean(V) /\ Sorted(V, OneCount)
                BY <2>2, <3>2
            <4>2. Counted' \/ (op' = "post" /\ u' \in Asking)
                BY <1>1, <1>3, <2>5, <4>1 DEF Exact, Counted, Asking
            <4>3. flushed' => Settled'
                BY <1>1, <2>5, <4>1 DEF Exact, Settled
            <4>4. Exact'
                BY <4>1, <4>2, <4>3, CleanExact DEF V
            <4> QED
                BY <3>1, <4>4 DEF CountRest
        <3> QED
            BY <3>1, <3>2 DEF CountRest
    <2> QED
        BY <1>6, <2>4, <2>5 DEF Outstanding, f
<1>7. CASE resp["y"] = <<>>
    <2>1. "y" \in over /\ Return("eof")
        BY <1>7 DEF Outstanding
    <2>2. Returns("eof")
        BY <2>1, ReturnIs
    <2>3. closed["conn"]
        BY <1>7, <2>1 DEF CountInv, Answered
    <2>4. Purpose' /\ ~flushed' /\ Ended'
        BY <1>2, <2>2, <2>3 DEF Returns, Ended
    <2>5. CASE tcp' /\ ~late'
        <3>1. Exact
            BY <1>1, <2>5 DEF CountInv
        <3>2. Sorted(V, OneCount)
            BY <1>4, <1>5, <3>1, ClearFacts DEF Exact, W
        <3>3. Exact'
            BY <2>4, <3>2 DEF Exact, V
        <3> QED
            BY <2>4, <3>3 DEF CountRest
    <2> QED
        BY <2>4, <2>5 DEF CountRest
<1> QED
    BY <1>6, <1>7

LEMMA CountInit == Init => CountInv
<1> SUFFICES ASSUME Init PROVE CountInv
    OBVIOUS
<1>1. /\ lag = 0 /\ out = 0 /\ owed = 0 /\ u = "newPort" /\ resp["y"] = <<>> /\ over = {} /\ flushed = FALSE
    BY DEF Init, Client
<1> DEFINE W == Way("y")
<1>2. \A r \in Places : W[r] = <<>>
    BY WayEmpty DEF Ends
<1>3. DOMAIN W = Places
    BY WayIs DEF Ends
<1> HIDE DEF W
<1>4. On(W) = {} /\ Sorted(W, OneCount)
    BY <1>2, <1>3 DEF On, Range, Sorted
<1>5. Exact
    BY <1>1, <1>4 DEF Exact, Counted, W
<1>6. Rests /\ Owing /\ Few /\ Answered /\ Purpose
    BY <1>1 DEF Rests, Owing, Few, Answered, Purpose, Asking
<1> QED
    BY <1>5, <1>6 DEF CountInv

LEMMA CountStep == ASSUME BaseInv, CloseInv, CountInv, [Next]_vars PROVE CountInv'
<1>1. Rests' /\ Owing' /\ Few'
    BY TameStep, FewStep DEF Tame, CountInv
<1>2. Answered'
    BY AnsweredStep DEF CountInv
<1>3. CountRest'
    <2>1. CASE UserSteps
        <3>1. CASE NewPort \/ GetCapabilities \/ Register \/ HandleInbound \/ NewConn \/ Connect
            <4>1. Aside
                BY <3>1, AsideEarly
            <4> QED
                BY <4>1, CountAside
        <3> QED
            BY <2>1, <3>1, CountCalls, CountSends, CountAsks, CountGivesUp, CountAnswered DEF UserSteps
    <2> QED
        BY <2>1, CountOthers
<1> QED
    BY <1>1, <1>2, <1>3 DEF CountInv, CountRest

\* When Flush returns nil every frame that the TNC counted when it was called has
\* been acknowledged, and if the last Write found nothing outstanding every frame
\* that was written, provided no earlier wait was given up and the link is up
\* (FlushMeansDrained): a count on its way is the answer to the one question that
\* was asked, so a count of zero is not that of an earlier question, and a Write
\* that found nothing outstanding has seen its own frame counted, so zero does
\* not mean that the TNC has yet to count it.
THEOREM FlushedIsDrained == Spec => []FlushMeansDrained
<1> DEFINE Inv == BaseInv /\ CloseInv /\ CountInv
<1>1. Init => Inv
    BY BaseInit, CloseInit, CountInit
<1>2. Inv /\ [Next]_vars => Inv'
    <2> SUFFICES ASSUME BaseInv, CloseInv, CountInv, [Next]_vars PROVE Inv'
        OBVIOUS
    <2>1. BaseInv' /\ CloseInv' /\ CountInv'
        BY BaseStep, CloseStep, CountStep
    <2> QED
        BY <2>1
<1>3. Inv => FlushMeansDrained
    BY DEF CountInv, Exact, Settled, FlushMeansDrained
<1> QED
    BY <1>1, <1>2, <1>3, PTL DEF Spec
=============================================================================
