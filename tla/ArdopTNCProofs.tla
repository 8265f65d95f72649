--------------------------- MODULE ArdopTNCProofs ---------------------------
(***************************************************************************)
(* Why a connection on an ARDOP TNC reads the data of its own link, in     *)
(* order and with no hole but what the control loop threw away, although   *)
(* tnc.connected, tnc.data and tnc.dataIn are set by goroutines that lag   *)
(* behind the control loop.                                                *)
(***************************************************************************)
EXTENDS ArdopTNC, TLAPS

\* The control frames that end a link
Ending(f) == f.k = "DISCONNECTED" \/ (f.k = "NEWSTATE" /\ f.v = "DISC")

\* The present link is made, as far as the control loop knows: its CONNECTED was
\* passed on and nothing that ends it was. The TNC refuses a call meanwhile.
Alive ==
    /\ link \in opened
    /\ mode = "dial" => state # "DISC"
    /\ radio = "up" \/ (radio = "down" /\ \E i \in DOMAIN stream : Ending(stream[i]))

\* No connection has been made for the present link
Unclaimed == data = 0 /\ \A i \in DOMAIN conns : conns[i].link # link

HasConnected == \E i \in DOMAIN stream : stream[i].k = "CONNECTED"

\* CONNECTED is of the present link and comes before what ends it
ConnectedInv ==
    \A i \in DOMAIN stream : stream[i].k = "CONNECTED" =>
        /\ stream[i].link = link /\ link \notin opened /\ radio # "calling"
        /\ mode = "dial" => state # "DISC"
        /\ \A j \in DOMAIN stream : j < i => ~Ending(stream[j])
        /\ \A j \in DOMAIN stream : stream[j].k = "CONNECTED" => j = i

\* Data of a link, and what ends it, is gone before the next link is made
OneLinkInv ==
    radio = "up" \/ link \in opened \/ HasConnected =>
        \A i \in DOMAIN stream :
            stream[i].k = "data" \/ Ending(stream[i]) => stream[i].link = link

\* The radio and what is on its way
UpInv ==
    radio = "up" =>
        /\ \A i \in DOMAIN stream : ~Ending(stream[i])
        /\ link \in opened \/ HasConnected
        /\ mode = "dial" => state # "DISC"
DownInv ==
    radio = "down" /\ HasConnected => \E i \in DOMAIN stream : Ending(stream[i])
CallingInv ==
    radio = "calling" =>
        /\ mode = "dial" /\ link \notin opened
        /\ \/ state # "DISC" /\ \A i \in DOMAIN stream : ~Ending(stream[i])
           \/ \E i \in DOMAIN stream :
                /\ stream[i].k = "NEWSTATE" /\ stream[i].v # "DISC"
                /\ \A j \in DOMAIN stream : j > i => ~Ending(stream[j])

StreamInv ==
    /\ ConnectedInv /\ OneLinkInv /\ UpInv /\ DownInv /\ CallingInv
    /\ opened \subseteq 1 .. link

\* Dial and the listener have their receivers to themselves
ShapeInv ==
    /\ recv["dial"].q # <<>> => u = "call"
    /\ recv["dial"].on => u = "call"
    /\ u \in {"call", "get"} => mode = "dial"
    /\ mode = "dial" => recv["listen"].q = <<>> /\ ~recv["listen"].on

\* A CONNECTED that Dial or the listener has not seen yet is that of the present
\* link, which nobody has claimed.
PendingInv ==
    \A r \in {"dial", "listen"} : \A i \in DOMAIN recv[r].q : recv[r].q[i].k = "CONNECTED" =>
        /\ recv[r].q[i].link = link /\ Alive /\ Unclaimed /\ ~connected
        /\ \A j \in DOMAIN recv[r].q : recv[r].q[j].k = "CONNECTED" => j = i
GetInv ==
    u = "get" => open = link /\ Alive /\ Unclaimed /\ connected

\* The present connection is the last that was made, and has the present channel
\* and link; the channels of the others are older.
ConnInv ==
    /\ \A i \in DOMAIN conns : i # data => conns[i].ch < cur
    /\ \A i, j \in DOMAIN conns : i < j => conns[i].ch < conns[j].ch
    /\ \A i \in DOMAIN conns : conns[i].link \in opened
    /\ data # 0 =>
        data = Len(conns) /\ conns[data].ch = cur /\ conns[data].link = link /\ Alive /\ connected
    /\ connected /\ data = 0 => u = "get"

\* What a connection has read and what its channel holds for it
Got(i) == conns[i].got \o chans[conns[i].ch].q

Of(s, k) == \A j \in DOMAIN s : s[j][1] = k

\* Frame b comes after frame a, and all between them is in T
Follows(a, b, T) == a[2] < b[2] /\ \A n \in a[2] + 1 .. b[2] - 1 : <<b[1], n>> \in T
Gapless(s, T)    == \A j \in DOMAIN s : j + 1 \in DOMAIN s => Follows(s[j], s[j + 1], T)

\* The n-th frame of link k is the last of s, or all from there to it is in T
Upto(s, k, n, T) ==
    s # <<>> => s[Len(s)][2] <= n /\ \A m \in s[Len(s)][2] + 1 .. n : <<k, m>> \in T

\* What was passed to the present channel since connected was set
Present == IF data # 0 THEN Got(data) ELSE chans[cur].q

GotInv ==
    /\ \A i \in DOMAIN conns : Of(Got(i), conns[i].link) /\ Gapless(Got(i), thrown)
    /\ connected => Of(Present, link) /\ Gapless(Present, thrown)
    /\ ~connected => chans[cur].q = <<>>

\* The data of the present link that is on its way: all from the n-th on, in order
Coming == {i \in DOMAIN stream : stream[i].k = "data" /\ stream[i].link = link}

Ordered ==
    /\ \A i \in DOMAIN stream : stream[i].k = "data" => stream[i].link <= link
    /\ \A i, j \in Coming : i < j => stream[i].n < stream[j].n
    /\ \A i \in Coming : stream[i].n <= sent
After(n) == {stream[i].n : i \in Coming} = n + 1 .. sent

\* Data frames come in order and none is left out
FlowInv ==
    \E n \in 0 .. sent : After(n) /\ (connected => Upto(Present, link, n, thrown))

LinkInv ==
    /\ StreamInv /\ ShapeInv /\ Ordered
    /\ orphans = {} => PendingInv /\ GetInv /\ ConnInv /\ GotInv /\ FlowInv
-----------------------------------------------------------------------------
(* Types                                                                   *)

Frames == {f \in [k : {"NEWSTATE", "CONNECTED", "TARGET", "DISCONNECTED", "FAULT", "MYCALL", "data"},
                  v : {"", "ISS", "IRS", "DISC"}, link : 0 .. MaxLinks, n : Nat] :
             (f.k = "NEWSTATE" => f.v # "") /\ (f.k = "CONNECTED" => f.link # 0)}
Items  == Nat \X Nat
Chan   == [q : Seq(Items), closed : BOOLEAN]
Conn   == [ch : Nat, link : Link, got : Seq(Items), eof : BOOLEAN]
Queue  == [on : BOOLEAN, q : Seq(Frames)]

\* The types of the fields of TNC, and where an index points
FieldTypes ==
    /\ state \in {"DISC", "ISS", "IRS"} /\ connected \in BOOLEAN
    /\ chans \in Seq(Chan) /\ cur = Len(chans) /\ cur \in DOMAIN chans /\ ~chans[cur].closed
    /\ conns \in Seq(Conn) /\ data \in 0 .. Len(conns)
    /\ \A i \in DOMAIN conns : conns[i].ch \in DOMAIN chans

UserTypes ==
    /\ mode \in {"dial", "listen"}
    /\ u \in {"idle", "call", "get", "open", "close"} /\ open \in Nat
    /\ l \in {"off", "on", "offer"} /\ target \in BOOLEAN
    /\ u \in {"open", "close"} => open \in 1 .. Len(conns)
    /\ u = "get" => open \in Link
    /\ l = "offer" => Len(conns) > 0

RadioTypes ==
    /\ stream \in Seq(Frames)
    /\ radio \in {"down", "calling", "up"} /\ link \in 0 .. MaxLinks
    /\ sent \in 0 .. MaxData /\ budget \in 0 .. MaxData - sent
    /\ radio # "down" => link # 0

TypeInv ==
    /\ FieldTypes /\ UserTypes /\ RadioTypes
    /\ recv \in [Receiver -> Queue]
    /\ opened \subseteq Link /\ orphans \subseteq Link
    /\ thrown \subseteq Items /\ disc \in Nat

LEMMA RemoveAtFacts ==
    ASSUME NEW S, NEW s \in Seq(S), NEW i \in DOMAIN s
    PROVE  /\ RemoveAt(s, i) \in Seq(S) /\ Len(RemoveAt(s, i)) = Len(s) - 1
           /\ \A j \in DOMAIN RemoveAt(s, i) :
                RemoveAt(s, i)[j] = IF j < i THEN s[j] ELSE s[j + 1]
<1>1. SubSeq(s, 1, i - 1) \in Seq(S) /\ Len(SubSeq(s, 1, i - 1)) = i - 1
    OBVIOUS
<1>2. SubSeq(s, i + 1, Len(s)) \in Seq(S) /\ Len(SubSeq(s, i + 1, Len(s))) = Len(s) - i
    OBVIOUS
<1>3. /\ \A j \in 1 .. i - 1 : SubSeq(s, 1, i - 1)[j] = s[j]
      /\ \A j \in 1 .. Len(s) - i : SubSeq(s, i + 1, Len(s))[j] = s[i + j]
    OBVIOUS
<1> DEFINE a == SubSeq(s, 1, i - 1)
           b == SubSeq(s, i + 1, Len(s))
<1>4. RemoveAt(s, i) = a \o b
    BY DEF RemoveAt
<1> HIDE DEF a, b
<1>5. a \in Seq(S) /\ Len(a) = i - 1 /\ b \in Seq(S) /\ Len(b) = Len(s) - i
    BY <1>1, <1>2 DEF a, b
<1>6. (a \o b) \in Seq(S) /\ Len(a \o b) = Len(s) - 1
    BY <1>5
<1>7. \A j \in 1 .. Len(s) - 1 : (a \o b)[j] = IF j < i THEN a[j] ELSE b[j - (i - 1)]
    BY <1>5
<1>8. /\ \A j \in 1 .. i - 1 : a[j] = s[j]
      /\ \A j \in 1 .. Len(s) - i : b[j] = s[i + j]
    BY <1>3 DEF a, b
<1>9. ASSUME NEW j \in 1 .. Len(s) - 1
      PROVE  (a \o b)[j] = IF j < i THEN s[j] ELSE s[j + 1]
    <2>1. CASE j < i
        <3>1. j \in 1 .. i - 1
            BY <2>1
        <3> QED
            BY <1>7, <1>8, <2>1, <3>1
    <2>2. CASE ~(j < i)
        <3>1. j - (i - 1) \in 1 .. Len(s) - i /\ i + (j - (i - 1)) = j + 1
            BY <2>2
        <3> QED
            BY <1>7, <1>8, <2>2, <3>1
    <2> QED
        BY <2>1, <2>2
<1>10. DOMAIN (a \o b) = 1 .. Len(s) - 1
    BY <1>6
<1> QED
    BY <1>4, <1>6, <1>9, <1>10

LEMMA NewFrame ==
    ASSUME NEW k \in {"NEWSTATE", "CONNECTED", "TARGET", "DISCONNECTED", "FAULT", "MYCALL", "data"},
           NEW v \in {"", "ISS", "IRS", "DISC"}, NEW a \in 0 .. MaxLinks, NEW n \in Nat,
           k = "NEWSTATE" => v # "", k = "CONNECTED" => a # 0
    PROVE  Frame(k, v, a, n) \in Frames
BY DEF Frame, Frames

LEMMA TypeInvOK == TypeInv => TypeOK
BY DEF TypeInv, FieldTypes, UserTypes, RadioTypes, TypeOK, Items

LEMMA TypeInit == Init => TypeInv
<1> SUFFICES ASSUME Init PROVE TypeInv
    OBVIOUS
<1>1. <<[q |-> <<>>, closed |-> FALSE]>> \in Seq(Chan)
    BY DEF Chan
<1>2. recv \in [Receiver -> Queue]
    BY DEF Init, Queue
<1>3. /\ Len(chans) = 1 /\ DOMAIN chans = {1} /\ ~chans[1].closed
      /\ conns = <<>> /\ Len(conns) = 0 /\ DOMAIN conns = {}
    BY DEF Init
<1>4. /\ state = "DISC" /\ connected = FALSE /\ data = 0 /\ cur = 1 /\ u = "idle" /\ open = 0
      /\ l \in {"on", "off"} /\ radio = "down" /\ link = 0 /\ sent = 0 /\ budget = MaxData
      /\ opened = {} /\ orphans = {} /\ thrown = {} /\ disc = 0 /\ target = FALSE /\ stream = <<>>
    BY DEF Init
<1>5. mode \in {"dial", "listen"} /\ chans \in Seq(Chan)
    BY <1>1, TNCAssumption DEF Init
<1>6. connected \in BOOLEAN /\ target \in BOOLEAN
    BY <1>4
<1>7. FieldTypes
    BY <1>3, <1>4, <1>5, <1>6 DEF FieldTypes
<1>8. UserTypes
    BY <1>4, <1>5, <1>6 DEF UserTypes
<1>9. RadioTypes
    BY <1>4, TNCAssumption DEF RadioTypes
<1> QED
    BY <1>2, <1>4, <1>7, <1>8, <1>9 DEF TypeInv

LEMMA ChanFacts ==
    ASSUME NEW c \in Chan
    PROVE  /\ c.q \in Seq(Items)
           /\ \A q \in Seq(Items) : /\ [c EXCEPT !.q = q] \in Chan
                                    /\ [c EXCEPT !.q = q].q = q
                                    /\ [c EXCEPT !.q = q].closed = c.closed
           /\ [c EXCEPT !.closed = TRUE] \in Chan /\ [c EXCEPT !.closed = TRUE].q = c.q
           /\ [q |-> <<>>, closed |-> FALSE] \in Chan
<1>1. c.q \in Seq(Items) /\ c.closed \in BOOLEAN /\ c = [q |-> c.q, closed |-> c.closed]
    BY DEF Chan
<1>2. \A q \in Seq(Items) : [c EXCEPT !.q = q] = [q |-> q, closed |-> c.closed]
    BY DEF Chan
<1>3. \A b \in BOOLEAN : [c EXCEPT !.closed = b] = [q |-> c.q, closed |-> b]
    BY DEF Chan
<1>4. \A q \in Seq(Items) : \A b \in BOOLEAN : [q |-> q, closed |-> b] \in Chan
    BY DEF Chan
<1>5. <<>> \in Seq(Items) /\ TRUE \in BOOLEAN /\ FALSE \in BOOLEAN
    OBVIOUS
<1>c. \A b \in BOOLEAN : [c EXCEPT !.closed = b] \in Chan /\ [c EXCEPT !.closed = b].q = c.q
    BY <1>1, <1>3, <1>4
<1>6. /\ [c EXCEPT !.closed = TRUE] \in Chan /\ [c EXCEPT !.closed = TRUE].q = c.q
      /\ [q |-> <<>>, closed |-> FALSE] \in Chan
    BY <1>c, <1>4, <1>5, Zenon
<1>7. \A q \in Seq(Items) : [c EXCEPT !.q = q] \in Chan
    BY <1>1, <1>2, <1>4
<1> QED
    BY <1>1, <1>2, <1>6, <1>7

LEMMA FrameFacts ==
    ASSUME NEW f \in Frames
    PROVE  /\ f.link \in 0 .. MaxLinks /\ f.link \in Nat /\ f.n \in Nat
           /\ f.k = "CONNECTED" => f.link \in Link
           /\ f.k = "NEWSTATE" => f.v \in {"DISC", "ISS", "IRS"}
<1>1. /\ f.link \in 0 .. MaxLinks /\ f.n \in Nat
      /\ f.v \in {"", "ISS", "IRS", "DISC"}
      /\ (f.k = "NEWSTATE" => f.v # "") /\ (f.k = "CONNECTED" => f.link # 0)
    BY DEF Frames
<1>2. f.link \in Nat /\ (f.link # 0 => f.link \in 1 .. MaxLinks)
    <2>1. MaxLinks \in Nat
        BY TNCAssumption
    <2>2. \A x \in 0 .. MaxLinks : x \in Nat /\ (x # 0 => x \in 1 .. MaxLinks)
        BY <2>1
    <2> QED
        BY <1>1, <2>2
<1> QED
    BY <1>1, <1>2 DEF Link

LEMMA BroadcastTypes ==
    ASSUME NEW f \in Frames, recv \in [Receiver -> Queue], Broadcast(f)
    PROVE  recv' \in [Receiver -> Queue]
<1>1. ASSUME NEW r \in Receiver PROVE recv'[r] \in Queue
    <2>1. recv[r] \in Queue
        OBVIOUS
    <2>2. Append(recv[r].q, f) \in Seq(Frames)
        BY <2>1 DEF Queue
    <2>3. [recv[r] EXCEPT !.q = Append(@, f)] \in Queue
        BY <2>1, <2>2 DEF Queue
    <2> QED
        BY <2>1, <2>3 DEF Broadcast
<1> QED
    BY <1>1 DEF Broadcast

LEMMA EofTypes ==
    ASSUME FieldTypes, opened \subseteq Link, orphans \subseteq Link, NEW f, Eof(f),
           conns' = conns, state' \in {"DISC", "ISS", "IRS"}
    PROVE  FieldTypes' /\ orphans' \subseteq Link
<1> USE DEF FieldTypes
<1>1. chans[cur] \in Chan
    OBVIOUS
<1>2. CASE data # 0
    <2>1. /\ chans' = Append([chans EXCEPT ![cur].closed = TRUE], [q |-> <<>>, closed |-> FALSE])
          /\ cur' = Len(chans) + 1 /\ connected' = FALSE /\ data' = 0 /\ orphans' = orphans
        BY <1>2 DEF Eof
    <2>2. connected' \in BOOLEAN
        BY <2>1
    <2>3. [q |-> <<>>, closed |-> FALSE] \in Chan /\ [chans[cur] EXCEPT !.closed = TRUE] \in Chan
        BY <1>1, ChanFacts
    <2>4. /\ [chans EXCEPT ![cur].closed = TRUE] \in Seq(Chan)
          /\ Len([chans EXCEPT ![cur].closed = TRUE]) = Len(chans)
        BY <2>3
    <2>5. /\ chans' \in Seq(Chan) /\ Len(chans') = Len(chans) + 1
          /\ chans'[Len(chans) + 1] = [q |-> <<>>, closed |-> FALSE]
        BY <2>1, <2>3, <2>4
    <2>6. ~chans'[cur'].closed
        BY <2>1, <2>5
    <2>7. /\ cur' = Len(chans') /\ cur' \in DOMAIN chans' /\ DOMAIN chans \subseteq DOMAIN chans'
        BY <2>1, <2>5
    <2>8. \A i \in DOMAIN conns' : conns'[i].ch \in DOMAIN chans'
        BY <2>7
    <2>9. data' \in 0 .. Len(conns')
        BY <2>1
    <2> QED
        BY <2>1, <2>2, <2>5, <2>6, <2>7, <2>8, <2>9
<1>3. CASE data = 0
    <2>1. orphans' \subseteq orphans \cup opened /\ UNCHANGED <<chans, cur, connected, data>>
        BY <1>3 DEF Eof
    <2> QED
        BY <2>1
<1> QED
    BY <1>2, <1>3

\* A frame that the control loop handles
LEMMA HandleTypes ==
    ASSUME TypeInv, NEW f \in Frames, Handle(f), UNCHANGED conns
    PROVE  /\ FieldTypes' /\ recv' \in [Receiver -> Queue]
           /\ opened' \subseteq Link /\ orphans' \subseteq Link
           /\ thrown' \subseteq Items /\ disc' \in Nat
<1> USE DEF FieldTypes
<1>0. /\ FieldTypes /\ recv \in [Receiver -> Queue] /\ opened \subseteq Link /\ orphans \subseteq Link
      /\ thrown \subseteq Items /\ disc \in Nat
    BY DEF TypeInv
<1>1. chans[cur] \in Chan
    BY <1>0
<1>2. CASE f.k = "data"
    <2>1. PassData(f) /\ UNCHANGED <<state, connected, data, cur, recv, opened, orphans>>
        BY <1>2 DEF Handle
    <2>2. <<f.link, f.n>> \in Items
        BY FrameFacts DEF Items
    <2>3. chans' \in Seq(Chan) /\ Len(chans') = Len(chans) /\ ~chans'[cur].closed
        <3>1. CASE chans' # chans
            <4> DEFINE q1 == Append(chans[cur].q, <<f.link, f.n>>)
            <4>1. chans' = [chans EXCEPT ![cur] = [chans[cur] EXCEPT !.q = q1]]
                BY <2>1, <3>1 DEF PassData
            <4>2. q1 \in Seq(Items)
                <5>1. chans[cur].q \in Seq(Items)
                    BY <1>1, ChanFacts
                <5> QED
                    BY <2>2, <5>1
            <4> HIDE DEF q1
            <4> DEFINE c1 == [chans[cur] EXCEPT !.q = q1]
            <4>3. c1 \in Chan /\ c1.closed = chans[cur].closed
                BY <1>1, <4>2, ChanFacts
            <4>4. chans' = [chans EXCEPT ![cur] = c1]
                BY <4>1
            <4> HIDE DEF c1
            <4> QED
                BY <1>0, <4>3, <4>4
        <3>2. CASE chans' = chans
            BY <1>0, <2>1, <3>2
        <3> QED
            BY <3>1, <3>2
    <2>4. thrown' \subseteq Items /\ disc' \in Nat
        BY <1>0, <2>1, <2>2 DEF PassData
    <2> QED
        BY <1>0, <2>1, <2>3, <2>4
<1>3. CASE f.k # "data"
    <2>1. /\ state' = IF f.k = "DISCONNECTED" THEN "DISC"
                      ELSE IF f.k = "NEWSTATE" THEN f.v ELSE state
          /\ Eof(f) \/ UNCHANGED <<chans, cur, connected, data, orphans>>
          /\ opened' = IF f.k = "CONNECTED" THEN opened \cup {f.link} ELSE opened
          /\ Broadcast(f) /\ UNCHANGED <<thrown, disc>>
        BY <1>3 DEF Handle
    <2>2. recv' \in [Receiver -> Queue]
        BY <1>0, <2>1, BroadcastTypes
    <2>3. state' \in {"DISC", "ISS", "IRS"} /\ opened' \subseteq Link
        BY <1>0, <2>1, FrameFacts
    <2>5. CASE Eof(f)
        <3>1. FieldTypes' /\ orphans' \subseteq Link
            BY <1>0, <2>3, <2>5, EofTypes
        <3> QED
            BY <1>0, <2>1, <2>2, <2>3, <3>1
    <2>6. CASE UNCHANGED <<chans, cur, connected, data, orphans>>
        BY <1>0, <2>1, <2>2, <2>3, <2>6
    <2> QED
        BY <2>1, <2>5, <2>6
<1> QED
    BY <1>2, <1>3

\* The host's end of a queue
LEMMA QueueTypes ==
    ASSUME recv \in [Receiver -> Queue], NEW r \in Receiver
    PROVE  /\ [recv EXCEPT ![r] = Listening] \in [Receiver -> Queue]
           /\ [recv EXCEPT ![r] = Closed] \in [Receiver -> Queue]
           /\ recv[r].q # <<>> => Message(r) \in Frames /\ Next1(r) \in [Receiver -> Queue]
<1>1. Listening \in Queue /\ Closed \in Queue
    <2>1. \A b \in BOOLEAN : [on |-> b, q |-> <<>>] \in Queue
        BY DEF Queue
    <2>2. TRUE \in BOOLEAN /\ FALSE \in BOOLEAN
        OBVIOUS
    <2> QED
        BY <2>1, <2>2, Zenon DEF Listening, Closed
<1>2. recv[r].q \in Seq(Frames)
    BY DEF Queue
<1>3. ASSUME recv[r].q # <<>> PROVE Message(r) \in Frames /\ Next1(r) \in [Receiver -> Queue]
    <2>1. Head(recv[r].q) \in Frames /\ Tail(recv[r].q) \in Seq(Frames)
        BY <1>2, <1>3
    <2>2. [recv[r] EXCEPT !.q = Tail(@)] \in Queue
        BY <2>1 DEF Queue
    <2> QED
        BY <2>1, <2>2 DEF Message, Next1
<1> QED
    BY <1>1, <1>3

LEMMA NewConnTypes ==
    ASSUME FieldTypes, NEW k \in Link, NewConn(k)
    PROVE  /\ conns' \in Seq(Conn) /\ Len(conns') = Len(conns) + 1
           /\ conns'[Len(conns) + 1] = [ch |-> cur, link |-> k, got |-> <<>>, eof |-> FALSE]
           /\ \A i \in DOMAIN conns : conns'[i] = conns[i]
           /\ \A i \in DOMAIN conns' : conns'[i].ch \in DOMAIN chans
           /\ data' = Len(conns) + 1 /\ data' \in 0 .. Len(conns')
<1> DEFINE c == [ch |-> cur, link |-> k, got |-> <<>>, eof |-> FALSE]
<1>1. conns' = Append(conns, c) /\ data' = Len(conns) + 1
    BY DEF NewConn
<1>2. c \in Conn /\ c.ch = cur
    <2>1. FALSE \in BOOLEAN /\ <<>> \in Seq(Items) /\ cur \in Nat
        BY DEF FieldTypes
    <2>2. \A b \in BOOLEAN : [ch |-> cur, link |-> k, got |-> <<>>, eof |-> b] \in Conn
        BY <2>1 DEF Conn
    <2> QED
        BY <2>1, <2>2, Zenon
<1> HIDE DEF c
<1>3. conns \in Seq(Conn) /\ \A i \in DOMAIN conns : conns[i].ch \in DOMAIN chans
    BY DEF FieldTypes
<1>4. /\ conns' \in Seq(Conn) /\ Len(conns') = Len(conns) + 1 /\ conns'[Len(conns) + 1] = c
      /\ \A i \in DOMAIN conns : conns'[i] = conns[i]
      /\ \A i \in DOMAIN conns' : i \in DOMAIN conns \/ i = Len(conns) + 1
      /\ Len(conns) \in Nat
    BY <1>1, <1>2, <1>3
<1>5. cur \in DOMAIN chans
    BY DEF FieldTypes
<1>6. \A i \in DOMAIN conns' : conns'[i].ch \in DOMAIN chans
    BY <1>2, <1>3, <1>4, <1>5
<1>7. data' = Len(conns) + 1 /\ data' \in 0 .. Len(conns')
    BY <1>1, <1>4
<1> QED
    BY <1>4, <1>6, <1>7 DEF c

LEMMA AnswersTypes ==
    ASSUME stream \in Seq(Frames), NEW fs \in Seq(Frames), Answers(fs)
    PROVE  stream' \in Seq(Frames)
BY DEF Answers

LEMMA AnswerTypes ==
    ASSUME stream \in Seq(Frames), NEW f \in Frames, Answers(<<f>>)
    PROVE  stream' \in Seq(Frames)
<1>1. <<f>> \in Seq(Frames)
    OBVIOUS
<1> QED
    BY <1>1, AnswersTypes

LEMMA ConnFacts ==
    ASSUME NEW c \in Conn
    PROVE  /\ c.ch \in Nat /\ c.link \in Link /\ c.got \in Seq(Items)
           /\ \A s \in Seq(Items) : /\ [c EXCEPT !.got = s] \in Conn
                                    /\ [c EXCEPT !.got = s].got = s
                                    /\ [c EXCEPT !.got = s].ch = c.ch
                                    /\ [c EXCEPT !.got = s].link = c.link
           /\ \A b \in BOOLEAN : /\ [c EXCEPT !.eof = b] \in Conn
                                 /\ [c EXCEPT !.eof = b].got = c.got
                                 /\ [c EXCEPT !.eof = b].ch = c.ch
                                 /\ [c EXCEPT !.eof = b].link = c.link
BY DEF Conn

LEMMA EndsTypes ==
    ASSUME NEW k \in 0 .. MaxLinks, NEW fs \in Ends(k)
    PROVE  fs \in Seq(Frames)
<1>1. Frame("DISCONNECTED", "", k, 0) \in Frames /\ Frame("NEWSTATE", "DISC", k, 0) \in Frames
    BY NewFrame
<1>2. \A a, b \in Frames : <<a, b>> \in Seq(Frames)
    OBVIOUS
<1>3. fs \in {<<Frame("DISCONNECTED", "", k, 0), Frame("NEWSTATE", "DISC", k, 0)>>,
              <<Frame("NEWSTATE", "DISC", k, 0), Frame("DISCONNECTED", "", k, 0)>>}
    BY DEF Ends
<1> QED
    BY <1>1, <1>2, <1>3

LEMMA TypeStep == TypeInv /\ [Next]_vars => TypeInv'
<1> SUFFICES ASSUME TypeInv, [Next]_vars PROVE TypeInv'
    OBVIOUS
<1>0. /\ FieldTypes /\ UserTypes /\ RadioTypes /\ recv \in [Receiver -> Queue]
      /\ opened \subseteq Link /\ orphans \subseteq Link
      /\ thrown \subseteq Items /\ disc \in Nat
    BY DEF TypeInv
<1>n. MaxLinks \in Nat /\ MaxData \in Nat /\ link \in Nat /\ sent \in Nat
    BY <1>0, TNCAssumption DEF RadioTypes
<1>r. {"dial", "get", "listen", "close"} = Receiver
    BY DEF Receiver
<1> USE DEF TypeInv, tncVars, userVars, radioVars, past
<1>1. CASE UNCHANGED vars
    BY <1>0, <1>1 DEF vars, FieldTypes, UserTypes, RadioTypes
<1>2. CASE ControlLoop
    <2>1. PICK i \in DOMAIN stream : Handle(stream[i]) /\ stream' = RemoveAt(stream, i)
        BY <1>2 DEF ControlLoop
    <2>2. UNCHANGED <<mode, conns, userVars, radio, link, sent, budget>>
        BY <1>2 DEF ControlLoop
    <2>3. stream[i] \in Frames /\ stream' \in Seq(Frames)
        BY <1>0, <2>1, RemoveAtFacts DEF RadioTypes
    <2>4. /\ FieldTypes' /\ recv' \in [Receiver -> Queue]
          /\ opened' \subseteq Link /\ orphans' \subseteq Link
          /\ thrown' \subseteq Items /\ disc' \in Nat
        BY <2>1, <2>2, <2>3, HandleTypes
    <2>5. UserTypes' /\ RadioTypes'
        BY <1>0, <2>2, <2>3 DEF UserTypes, RadioTypes
    <2> QED
        BY <2>4, <2>5
<1>3. CASE Dial
    <2>1. /\ recv' = [recv EXCEPT !["dial"] = Listening] /\ u' = "call"
          /\ UNCHANGED <<mode, tncVars, open, l, target, budget, disc, past>>
          /\ link < MaxLinks
        BY <1>3 DEF Dial
    <2>2. recv' \in [Receiver -> Queue]
        BY <1>0, <1>r, <2>1, QueueTypes
    <2>3. FieldTypes' /\ UserTypes'
        BY <1>0, <2>1 DEF FieldTypes, UserTypes
    <2>4. CASE radio = "down"
        <3>1. /\ Answers(<<Frame("NEWSTATE", "ISS", link + 1, 0)>>)
              /\ radio' = "calling" /\ link' = link + 1 /\ sent' = 0
            BY <1>3, <2>4 DEF Dial
        <3>2. link + 1 \in 0 .. MaxLinks /\ link + 1 # 0 /\ budget \in 0 .. MaxData - 0
            BY <1>0, <1>n, <2>1 DEF RadioTypes
        <3>3. Frame("NEWSTATE", "ISS", link + 1, 0) \in Frames
            BY <3>2, NewFrame
        <3>4. stream' \in Seq(Frames)
            BY <1>0, <3>1, <3>3, AnswerTypes DEF RadioTypes
        <3>5. RadioTypes'
            BY <1>n, <2>1, <3>1, <3>2, <3>4 DEF RadioTypes
        <3> QED
            BY <1>0, <2>1, <2>2, <2>3, <3>5
    <2>5. CASE radio # "down"
        <3>1. Answers(<<Frame("FAULT", "", link, 0)>>) /\ UNCHANGED <<radio, link, sent>>
            BY <1>3, <2>5 DEF Dial
        <3>2. Frame("FAULT", "", link, 0) \in Frames
            BY <1>0, NewFrame DEF RadioTypes
        <3>3. stream' \in Seq(Frames)
            BY <1>0, <3>1, <3>2, AnswerTypes DEF RadioTypes
        <3>4. RadioTypes'
            BY <1>0, <2>1, <3>1, <3>3 DEF RadioTypes
        <3> QED
            BY <1>0, <2>1, <2>2, <2>3, <3>4
    <2> QED
        BY <2>4, <2>5
<1>4. CASE DialWait
    <2>1. /\ recv["dial"].q # <<>>
          /\ UNCHANGED <<mode, state, data, cur, chans, conns, l, target, radio, link, sent,
                         budget, disc, past>>
        BY <1>4 DEF DialWait
    <2>2. Message("dial") \in Frames
        BY <1>0, <1>r, <2>1, QueueTypes
    <2>3. CASE u' = "get" /\ open' = Message("dial").link /\ Message("dial").k = "CONNECTED"
               /\ connected' = TRUE
               /\ recv' = [recv EXCEPT !["dial"] = Closed, !["get"] = Listening]
               /\ Answers(<<Frame("MYCALL", "", Message("dial").link, 0)>>)
        <3>1. Message("dial").link \in Link /\ Message("dial").link \in 0 .. MaxLinks
              /\ Message("dial").link \in Nat
            BY <2>2, <2>3, FrameFacts
        <3>2. Frame("MYCALL", "", Message("dial").link, 0) \in Frames
            BY <3>1, NewFrame
        <3>3. stream' \in Seq(Frames)
            BY <1>0, <2>3, <3>2, AnswerTypes DEF RadioTypes
        <3>4. recv' \in [Receiver -> Queue]
            <4>1. [recv EXCEPT !["dial"] = Closed] \in [Receiver -> Queue]
                BY <1>0, <1>r, QueueTypes
            <4>2. [recv EXCEPT !["get"] = Listening]["get"] \in Queue
                BY <1>0, <1>r, QueueTypes
            <4>3. Listening \in Queue
                BY <1>0, <1>r, <4>2
            <4> QED
                BY <1>r, <2>3, <4>1, <4>3
        <3>5. connected' \in BOOLEAN
            BY <2>3
        <3>6. FieldTypes'
            BY <1>0, <2>1, <3>5 DEF FieldTypes
        <3>7. UserTypes'
            BY <1>0, <2>1, <2>3, <3>1 DEF UserTypes
        <3>8. RadioTypes'
            BY <1>0, <2>1, <3>3 DEF RadioTypes
        <3> QED
            BY <1>0, <2>1, <3>4, <3>6, <3>7, <3>8
    <2>4. CASE /\ (u' = "idle" /\ recv' = [recv EXCEPT !["dial"] = Closed])
                  \/ (u' = u /\ recv' = Next1("dial"))
               /\ UNCHANGED <<connected, open, stream>>
        <3>1. recv' \in [Receiver -> Queue]
            BY <1>0, <1>r, <2>1, <2>4, QueueTypes
        <3>2. FieldTypes' /\ RadioTypes'
            BY <1>0, <2>1, <2>4 DEF FieldTypes, RadioTypes
        <3>3. UserTypes'
            BY <1>0, <2>1, <2>4 DEF UserTypes
        <3> QED
            BY <1>0, <2>1, <3>1, <3>2, <3>3
    <2> QED
        BY <1>4, <2>3, <2>4 DEF DialWait
<1>5. CASE DialDone
    <2>1. /\ u = "get" /\ recv["get"].q # <<>>
          /\ UNCHANGED <<mode, state, connected, cur, chans, l, target, radioVars, disc, past>>
        BY <1>5 DEF DialDone
    <2>2. CASE /\ NewConn(open) /\ u' = "open" /\ open' = Len(conns) + 1
               /\ recv' = [recv EXCEPT !["get"] = Closed]
        <3>1. recv' \in [Receiver -> Queue]
            BY <1>0, <1>r, <2>2, QueueTypes
        <3>2. open \in Link
            BY <1>0, <2>1 DEF UserTypes
        <3>3. /\ conns' \in Seq(Conn) /\ Len(conns') = Len(conns) + 1
              /\ \A i \in DOMAIN conns' : conns'[i].ch \in DOMAIN chans
              /\ data' \in 0 .. Len(conns')
            BY <1>0, <2>2, <3>2, NewConnTypes
        <3>4. FieldTypes' /\ RadioTypes'
            BY <1>0, <2>1, <3>3 DEF FieldTypes, RadioTypes
        <3>5. Len(conns) \in Nat
            BY <1>0 DEF FieldTypes
        <3>6. UserTypes'
            BY <1>0, <2>1, <2>2, <3>3, <3>5 DEF UserTypes
        <3> QED
            BY <1>0, <2>1, <3>1, <3>4, <3>6
    <2>3. CASE recv' = Next1("get") /\ UNCHANGED <<conns, data, u, open>>
        <3>1. recv' \in [Receiver -> Queue]
            BY <1>0, <1>r, <2>1, <2>3, QueueTypes
        <3> QED
            BY <1>0, <2>1, <2>3, <3>1 DEF FieldTypes, UserTypes, RadioTypes
    <2> QED
        BY <1>5, <2>2, <2>3 DEF DialDone
<1>6. CASE Listener
    <2>1. /\ recv["listen"].q # <<>> /\ recv' = Next1("listen")
          /\ UNCHANGED <<mode, state, cur, chans, u, open, radioVars, disc, past>>
        BY <1>6 DEF Listener
    <2>2. recv' \in [Receiver -> Queue] /\ Message("listen") \in Frames
        BY <1>0, <1>r, <2>1, QueueTypes
    <2>3. target' \in BOOLEAN
        <3>1. target \in BOOLEAN
            BY <1>0 DEF UserTypes
        <3>2. target' = TRUE \/ target' = FALSE \/ target' = target
            BY <1>6 DEF Listener
        <3> QED
            BY <3>1, <3>2
    <2>4. CASE /\ Message("listen").k = "CONNECTED" /\ NewConn(Message("listen").link)
               /\ connected' = TRUE /\ l' = "offer"
        <3>1. Message("listen").link \in Link
            BY <2>2, <2>4, FrameFacts
        <3>2. /\ conns' \in Seq(Conn) /\ Len(conns') = Len(conns) + 1
              /\ \A i \in DOMAIN conns' : conns'[i].ch \in DOMAIN chans
              /\ data' \in 0 .. Len(conns')
            BY <1>0, <2>4, <3>1, NewConnTypes
        <3>3. connected' \in BOOLEAN
            BY <2>4
        <3>4. FieldTypes' /\ RadioTypes'
            BY <1>0, <2>1, <3>2, <3>3 DEF FieldTypes, RadioTypes
        <3>5. Len(conns) \in Nat
            BY <1>0 DEF FieldTypes
        <3>6. UserTypes'
            BY <1>0, <2>1, <2>3, <2>4, <3>2, <3>5 DEF UserTypes
        <3> QED
            BY <1>0, <2>1, <2>2, <3>4, <3>6
    <2>5. CASE UNCHANGED <<conns, data, connected, l>>
        BY <1>0, <2>1, <2>2, <2>3, <2>5 DEF FieldTypes, UserTypes, RadioTypes
    <2> QED
        BY <1>6, <2>4, <2>5 DEF Listener
<1>7. CASE Accept
    <2>1. /\ l = "offer" /\ u' = "open" /\ open' = Len(conns) /\ l' = "on"
          /\ UNCHANGED <<mode, tncVars, recv, target, radioVars, disc, past>>
        BY <1>7 DEF Accept
    <2>2. Len(conns) \in Nat /\ Len(conns) > 0
        BY <1>0, <2>1 DEF FieldTypes, UserTypes
    <2>3. FieldTypes' /\ RadioTypes'
        BY <1>0, <2>1 DEF FieldTypes, RadioTypes
    <2>4. UserTypes'
        BY <1>0, <2>1, <2>2 DEF UserTypes
    <2> QED
        BY <1>0, <2>1, <2>3, <2>4
<1>8. CASE Read
    <2> DEFINE c == conns[open].ch
    <2>1. /\ u = "open"
          /\ UNCHANGED <<mode, state, connected, data, cur, recv, userVars, radioVars, disc, past>>
        BY <1>8 DEF Read
    <2>2. open \in DOMAIN conns /\ c \in DOMAIN chans /\ chans[c] \in Chan /\ conns[open] \in Conn
        BY <1>0, <2>1 DEF FieldTypes, UserTypes
    <2>3. /\ chans' \in Seq(Chan) /\ Len(chans') = Len(chans) /\ ~chans'[cur].closed
          /\ conns' \in Seq(Conn) /\ Len(conns') = Len(conns)
          /\ \A i \in DOMAIN conns : conns'[i].ch = conns[i].ch
        <3>1. CASE /\ chans[c].q # <<>>
                   /\ chans' = [chans EXCEPT ![c].q = Tail(@)]
                   /\ conns' = [conns EXCEPT ![open].got = Append(@, Head(chans[c].q))]
            <4>1. chans[c].q \in Seq(Items)
                BY <2>2, ChanFacts
            <4>2. Tail(chans[c].q) \in Seq(Items) /\ Head(chans[c].q) \in Items
                BY <3>1, <4>1
            <4> DEFINE c1 == [chans[c] EXCEPT !.q = Tail(chans[c].q)]
                       d1 == [conns[open] EXCEPT !.got = Append(@, Head(chans[c].q))]
            <4>3. c1 \in Chan /\ c1.closed = chans[c].closed
                BY <2>2, <4>2, ChanFacts
            <4>4. d1 \in Conn /\ d1.ch = conns[open].ch
                <5>1. Append(conns[open].got, Head(chans[c].q)) \in Seq(Items)
                    BY <2>2, <4>2, ConnFacts
                <5> QED
                    BY <2>2, <5>1, ConnFacts
            <4>5. chans' = [chans EXCEPT ![c] = c1] /\ conns' = [conns EXCEPT ![open] = d1]
                BY <3>1
            <4> HIDE DEF c, c1, d1
            <4> QED
                BY <1>0, <2>2, <4>3, <4>4, <4>5 DEF FieldTypes
        <3>2. CASE conns' = [conns EXCEPT ![open].eof = TRUE] /\ UNCHANGED chans
            <4> DEFINE d1 == [conns[open] EXCEPT !.eof = TRUE]
            <4>1. d1 \in Conn /\ d1.ch = conns[open].ch
                <5>1. \A b \in BOOLEAN : /\ [conns[open] EXCEPT !.eof = b] \in Conn
                                         /\ [conns[open] EXCEPT !.eof = b].ch = conns[open].ch
                    BY <2>2, ConnFacts
                <5>2. TRUE \in BOOLEAN
                    OBVIOUS
                <5> QED
                    BY <5>1, <5>2, Zenon
            <4>2. conns' = [conns EXCEPT ![open] = d1]
                BY <3>2
            <4> HIDE DEF d1
            <4>3. chans' = chans /\ conns \in Seq(Conn)
                BY <1>0, <3>2 DEF FieldTypes
            <4>4. /\ conns' \in Seq(Conn) /\ Len(conns') = Len(conns)
                  /\ \A i \in DOMAIN conns : conns'[i].ch = conns[i].ch
                BY <2>2, <4>1, <4>2, <4>3
            <4> QED
                BY <1>0, <4>3, <4>4 DEF FieldTypes
        <3> QED
            BY <1>8, <3>1, <3>2 DEF Read
    <2>4. FieldTypes'
        <3>1. DOMAIN conns' = DOMAIN conns /\ DOMAIN chans' = DOMAIN chans
            BY <1>0, <2>3 DEF FieldTypes
        <3> QED
            BY <1>0, <2>1, <2>3, <3>1 DEF FieldTypes
    <2>5. UserTypes' /\ RadioTypes'
        BY <1>0, <2>1, <2>3 DEF UserTypes, RadioTypes
    <2> QED
        BY <1>0, <2>1, <2>4, <2>5
<1>9. CASE Close
    <2>1. /\ u = "open" /\ u' = "close" /\ recv' = [recv EXCEPT !["close"] = Listening]
          /\ UNCHANGED <<mode, tncVars, open, l, target, link, sent, budget, disc, past>>
          /\ UNCHANGED <<stream, radio>> \/ (radio' = "down" /\ \E fs \in Ends(link) : Answers(fs))
        BY <1>9 DEF Close, HangUp, Drop
    <2>2. recv' \in [Receiver -> Queue]
        BY <1>0, <1>r, <2>1, QueueTypes
    <2>3. stream' \in Seq(Frames)
        BY <1>0, <2>1, EndsTypes, AnswersTypes DEF RadioTypes
    <2>4. FieldTypes' /\ UserTypes'
        BY <1>0, <2>1 DEF FieldTypes, UserTypes
    <2>5. RadioTypes'
        BY <1>0, <2>1, <2>3 DEF RadioTypes
    <2> QED
        BY <1>0, <2>1, <2>2, <2>4, <2>5
<1>10. CASE CloseWait
    <2>1. /\ UNCHANGED <<mode, tncVars, l, target, radioVars, disc, past>>
          /\ \/ u' = "idle" /\ open' = 0 /\ recv' = [recv EXCEPT !["close"] = Closed]
             \/ recv["close"].q # <<>> /\ recv' = Next1("close") /\ UNCHANGED <<u, open>>
        BY <1>10 DEF CloseWait
    <2>2. recv' \in [Receiver -> Queue]
        BY <1>0, <1>r, <2>1, QueueTypes
    <2>3. FieldTypes' /\ UserTypes' /\ RadioTypes'
        BY <1>0, <2>1 DEF FieldTypes, UserTypes, RadioTypes
    <2> QED
        BY <1>0, <2>1, <2>2, <2>3
<1>11. CASE Connects
    <2>1. radio' = "up" /\ UNCHANGED <<mode, tncVars, recv, userVars, budget, disc, past>>
        BY <1>11 DEF Connects
    <2>2. FieldTypes' /\ UserTypes'
        BY <1>0, <2>1 DEF FieldTypes, UserTypes
    <2>3. CASE /\ radio = "calling" /\ Answers(<<Frame("CONNECTED", "", link, 0)>>)
               /\ UNCHANGED <<link, sent>>
        <3>1. Frame("CONNECTED", "", link, 0) \in Frames /\ link # 0
            BY <1>0, <2>3, NewFrame DEF RadioTypes
        <3>2. stream' \in Seq(Frames)
            BY <1>0, <2>3, <3>1, AnswerTypes DEF RadioTypes
        <3> QED
            BY <1>0, <2>1, <2>2, <2>3, <3>1, <3>2 DEF RadioTypes
    <2>4. CASE /\ link < MaxLinks /\ link' = link + 1 /\ sent' = 0
               /\ Answers(<<Frame("TARGET", "", link + 1, 0), Frame("NEWSTATE", "IRS", link + 1, 0),
                            Frame("CONNECTED", "", link + 1, 0)>>)
        <3>0. link < MaxLinks /\ budget \in 0 .. MaxData - sent
            BY <1>0, <2>4 DEF RadioTypes
        <3>1. link + 1 \in 0 .. MaxLinks /\ link + 1 # 0 /\ budget \in 0 .. MaxData - 0
            BY <1>n, <3>0
        <3>2. /\ Frame("TARGET", "", link + 1, 0) \in Frames
              /\ Frame("NEWSTATE", "IRS", link + 1, 0) \in Frames
              /\ Frame("CONNECTED", "", link + 1, 0) \in Frames
            BY <3>1, NewFrame
        <3>3. \A a, b, c \in Frames : <<a, b, c>> \in Seq(Frames)
            OBVIOUS
        <3>4. stream' \in Seq(Frames)
            BY <1>0, <2>4, <3>2, <3>3, AnswersTypes DEF RadioTypes
        <3>5. link' = link + 1 /\ sent' = 0 /\ radio' = "up" /\ budget' = budget
            BY <2>1, <2>4
        <3>6. RadioTypes'
            BY <1>n, <3>1, <3>4, <3>5 DEF RadioTypes
        <3> QED
            BY <1>0, <2>1, <2>2, <3>6
    <2> QED
        BY <1>11, <2>3, <2>4 DEF Connects
<1>12. CASE RemoteData
    <2>1. /\ radio = "up" /\ budget > 0 /\ sent' = sent + 1 /\ budget' = budget - 1
          /\ Answers(<<Frame("data", "", link, sent + 1)>>)
          /\ UNCHANGED <<mode, tncVars, recv, userVars, radio, link, disc, past>>
        BY <1>12 DEF RemoteData
    <2>2. Frame("data", "", link, sent + 1) \in Frames
        <3>1. link \in 0 .. MaxLinks /\ sent + 1 \in Nat
            BY <1>0, <1>n DEF RadioTypes
        <3> QED
            BY <3>1, NewFrame
    <2>3. stream' \in Seq(Frames)
        BY <1>0, <2>1, <2>2, AnswerTypes DEF RadioTypes
    <2>4. sent' \in 0 .. MaxData /\ budget' \in 0 .. MaxData - sent'
        <3>1. budget \in 0 .. MaxData - sent /\ budget > 0 /\ sent' = sent + 1 /\ budget' = budget - 1
            BY <1>0, <2>1 DEF RadioTypes
        <3> QED
            BY <1>n, <3>1
    <2>5. RadioTypes'
        BY <1>0, <2>1, <2>3, <2>4 DEF RadioTypes
    <2>6. FieldTypes' /\ UserTypes'
        BY <1>0, <2>1 DEF FieldTypes, UserTypes
    <2> QED
        BY <1>0, <2>1, <2>5, <2>6
<1>13. CASE LinkEnds
    <2>1. /\ radio' = "down" /\ \E fs \in Ends(link) : Answers(fs)
          /\ UNCHANGED <<mode, tncVars, recv, userVars, link, sent, budget, disc, past>>
        BY <1>13 DEF LinkEnds, Drop
    <2>2. stream' \in Seq(Frames)
        BY <1>0, <2>1, EndsTypes, AnswersTypes DEF RadioTypes
    <2>3. FieldTypes' /\ UserTypes' /\ RadioTypes'
        BY <1>0, <2>1, <2>2 DEF FieldTypes, UserTypes, RadioTypes
    <2> QED
        BY <1>0, <2>1, <2>3
<1>14. CASE CloseTimeout
    <2>1. /\ u' = "idle" /\ open' = 0 /\ recv' = [recv EXCEPT !["close"] = Closed]
          /\ UNCHANGED <<mode, tncVars, l, target, link, sent, budget, disc, past>>
          /\ UNCHANGED <<stream, radio>> \/ (radio' = "down" /\ \E fs \in Ends(link) : Answers(fs))
        BY <1>14 DEF CloseTimeout, Drop
    <2>2. recv' \in [Receiver -> Queue]
        BY <1>0, <1>r, <2>1, QueueTypes
    <2>3. stream' \in Seq(Frames)
        BY <1>0, <2>1, EndsTypes, AnswersTypes DEF RadioTypes
    <2>4. FieldTypes' /\ UserTypes'
        BY <1>0, <2>1 DEF FieldTypes, UserTypes
    <2>5. RadioTypes'
        BY <1>0, <2>1, <2>3 DEF RadioTypes
    <2> QED
        BY <1>0, <2>1, <2>2, <2>4, <2>5
<1>15. CASE Disconnect
    <2>1. /\ disc > 0 /\ disc' = disc - 1
          /\ UNCHANGED <<mode, state, conns, recv, userVars, link, sent, budget, opened, thrown>>
          /\ UNCHANGED <<stream, radio>> \/ (radio' = "down" /\ \E fs \in Ends(link) : Answers(fs))
          /\ \/ UNCHANGED <<chans, cur, connected, data, orphans>>
             \/ Eof(Frame("", "", 0, 0))
        BY <1>15 DEF Disconnect, HangUp, Drop
    <2>2. stream' \in Seq(Frames)
        BY <1>0, <2>1, EndsTypes, AnswersTypes DEF RadioTypes
    <2>3. RadioTypes' /\ UserTypes'
        BY <1>0, <2>1, <2>2 DEF RadioTypes, UserTypes
    <2>4. disc' \in Nat
        <3>1. disc \in Nat /\ disc > 0 /\ disc' = disc - 1
            BY <1>0, <2>1
        <3> QED
            BY <3>1
    <2>5. FieldTypes' /\ orphans' \subseteq Link
        <3>1. CASE Eof(Frame("", "", 0, 0))
            <4>1. state' \in {"DISC", "ISS", "IRS"} /\ conns' = conns
                BY <1>0, <2>1 DEF FieldTypes
            <4> QED
                BY <1>0, <3>1, <4>1, EofTypes
        <3>2. CASE UNCHANGED <<chans, cur, connected, data, orphans>>
            BY <1>0, <2>1, <3>2 DEF FieldTypes
        <3> QED
            BY <2>1, <3>1, <3>2
    <2> QED
        BY <1>0, <2>1, <2>3, <2>4, <2>5
<1> QED
    BY <1>1, <1>2, <1>3, <1>4, <1>5, <1>6, <1>7, <1>8, <1>9, <1>10, <1>11, <1>12, <1>13,
       <1>14, <1>15
    DEF Next, Idle

\* tnc.dataIn, on which the control loop sends received data, is never a closed
\* channel, whichever of Dial, the listener and eof came first.
THEOREM TypeCorrect == Spec => []TypeOK
BY TypeInit, TypeStep, TypeInvOK, PTL DEF Spec

-----------------------------------------------------------------------------
(* What is on its way from the TNC                                         *)

\* Where the frame at j was before the one at i was taken out
Old(i, j) == IF j < i THEN j ELSE j + 1

LEMMA Removed ==
    ASSUME stream \in Seq(Frames), NEW i \in DOMAIN stream, stream' = RemoveAt(stream, i)
    PROVE  /\ \A j \in DOMAIN stream' : /\ Old(i, j) \in DOMAIN stream /\ Old(i, j) # i
                                        /\ stream'[j] = stream[Old(i, j)]
           /\ \A j, k \in DOMAIN stream' : j < k <=> Old(i, j) < Old(i, k)
           /\ \A m \in DOMAIN stream : m # i => \E j \in DOMAIN stream' : Old(i, j) = m
<1>1. /\ stream' \in Seq(Frames) /\ Len(stream') = Len(stream) - 1
      /\ \A j \in DOMAIN stream' : stream'[j] = IF j < i THEN stream[j] ELSE stream[j + 1]
    BY RemoveAtFacts
<1>2. /\ Len(stream) \in Nat /\ i \in 1 .. Len(stream) /\ DOMAIN stream = 1 .. Len(stream)
      /\ DOMAIN stream' = 1 .. Len(stream) - 1
    BY <1>1
<1>3. \A j \in 1 .. Len(stream) - 1 : /\ Old(i, j) \in 1 .. Len(stream) /\ Old(i, j) # i
    BY <1>2 DEF Old
<1>4. \A j, k \in 1 .. Len(stream) - 1 : j < k <=> Old(i, j) < Old(i, k)
    BY <1>2 DEF Old
<1>5. ASSUME NEW m \in 1 .. Len(stream), m # i
      PROVE  \E j \in 1 .. Len(stream) - 1 : Old(i, j) = m
    <2>1. CASE m < i
        BY <1>2, <2>1 DEF Old
    <2>2. CASE m > i
        <3>1. m - 1 \in 1 .. Len(stream) - 1 /\ Old(i, m - 1) = m
            BY <1>2, <2>2 DEF Old
        <3> QED
            BY <3>1
    <2> QED
        BY <1>2, <1>5, <2>1, <2>2
<1>6. \A j \in DOMAIN stream' : stream'[j] = stream[Old(i, j)]
    BY <1>1, <1>2 DEF Old
<1> QED
    BY <1>2, <1>3, <1>4, <1>5, <1>6

LEMMA Added ==
    ASSUME stream \in Seq(Frames), NEW f \in Frames, Answers(<<f>>)
    PROVE  /\ Len(stream) \in Nat /\ DOMAIN stream = 1 .. Len(stream)
           /\ DOMAIN stream' = 1 .. Len(stream) + 1
           /\ \A j \in DOMAIN stream : stream'[j] = stream[j]
           /\ stream'[Len(stream) + 1] = f
BY DEF Answers

LEMMA EndsAdded ==
    ASSUME stream \in Seq(Frames), link \in 0 .. MaxLinks, NEW fs \in Ends(link), Answers(fs)
    PROVE  /\ Len(stream) \in Nat /\ DOMAIN stream = 1 .. Len(stream)
           /\ DOMAIN stream' = 1 .. Len(stream) + 2
           /\ \A j \in DOMAIN stream : stream'[j] = stream[j]
           /\ \A j \in {Len(stream) + 1, Len(stream) + 2} :
                /\ Ending(stream'[j]) /\ stream'[j].link = link
                /\ stream'[j].k \in {"DISCONNECTED", "NEWSTATE"}
<1> DEFINE a == Frame("DISCONNECTED", "", link, 0)
           b == Frame("NEWSTATE", "DISC", link, 0)
           E(f) == Ending(f) /\ f.link = link /\ f.k \in {"DISCONNECTED", "NEWSTATE"}
<1>1. a \in Frames /\ b \in Frames
    BY NewFrame
<1>2. E(a) /\ E(b)
    BY DEF Frame, Ending
<1>3. fs = <<a, b>> \/ fs = <<b, a>>
    BY DEF Ends
<1> HIDE DEF a, b, E
<1>4. ASSUME NEW x \in Frames, NEW y \in Frames, fs = <<x, y>>
      PROVE  /\ Len(stream) \in Nat /\ DOMAIN stream = 1 .. Len(stream)
             /\ DOMAIN stream' = 1 .. Len(stream) + 2
             /\ \A j \in DOMAIN stream : stream'[j] = stream[j]
             /\ stream'[Len(stream) + 1] = x /\ stream'[Len(stream) + 2] = y
    BY <1>4 DEF Answers
<1>5. /\ Len(stream) \in Nat /\ DOMAIN stream = 1 .. Len(stream)
      /\ DOMAIN stream' = 1 .. Len(stream) + 2
      /\ \A j \in DOMAIN stream : stream'[j] = stream[j]
      /\ \A j \in {Len(stream) + 1, Len(stream) + 2} : stream'[j] \in {a, b}
    BY <1>1, <1>3, <1>4
<1>6. \A j \in {Len(stream) + 1, Len(stream) + 2} : E(stream'[j])
    BY <1>2, <1>5
<1> QED
    BY <1>5, <1>6 DEF E

LEMMA StreamInit == Init => StreamInv
<1> SUFFICES ASSUME Init PROVE StreamInv
    OBVIOUS
<1>1. stream = <<>> /\ radio = "down" /\ opened = {} /\ link = 0
    BY DEF Init
<1> QED
    BY <1>1 DEF StreamInv, ConnectedInv, OneLinkInv, UpInv, DownInv, CallingInv, HasConnected

\* The control loop handles a frame: the first one, or the first of its stream
LEMMA StreamControl ==
    ASSUME TypeInv, StreamInv, ControlLoop
    PROVE  StreamInv'
<1>0. stream \in Seq(Frames) /\ link \in Nat /\ DOMAIN stream = 1 .. Len(stream) /\ Len(stream) \in Nat
    BY TNCAssumption DEF TypeInv, RadioTypes
<1>1. PICK i \in DOMAIN stream :
         /\ \A j \in 1 .. i - 1 : IsTCP /\ (stream[j].k = "data") # (stream[i].k = "data")
         /\ Handle(stream[i]) /\ stream' = RemoveAt(stream, i)
    BY DEF ControlLoop
<1>2. UNCHANGED <<mode, radio, link>>
    BY DEF ControlLoop
<1> DEFINE f == stream[i]
<1>f. f \in Frames
    BY <1>0
<1>3. /\ \A j \in DOMAIN stream' : /\ Old(i, j) \in DOMAIN stream /\ Old(i, j) # i
                                   /\ stream'[j] = stream[Old(i, j)]
      /\ \A j, k \in DOMAIN stream' : j < k <=> Old(i, j) < Old(i, k)
      /\ \A m \in DOMAIN stream : m # i => \E j \in DOMAIN stream' : Old(i, j) = m
    BY <1>0, <1>1, Removed
<1>4. \A j \in DOMAIN stream : j < i => (stream[j].k = "data" <=> f.k # "data")
    BY <1>0, <1>1
<1>5. \A j \in DOMAIN stream : stream[j].k = "data" => ~Ending(stream[j])
    BY DEF Ending
<1>6. ConnectedInv /\ OneLinkInv /\ UpInv /\ DownInv /\ CallingInv /\ opened \subseteq 1 .. link
    BY DEF StreamInv
<1>7. HasConnected' => HasConnected
    BY <1>3 DEF HasConnected
<1>8. HasConnected => HasConnected' \/ f.k = "CONNECTED"
    BY <1>3 DEF HasConnected
<1>9. CASE f.k # "CONNECTED" /\ ~Ending(f)
    <2>1. opened' = opened /\ (state' = state \/ (f.k = "NEWSTATE" /\ state' = f.v /\ f.v # "DISC"))
        BY <1>1, <1>9 DEF Handle, Ending
    <2>2. HasConnected' <=> HasConnected
        BY <1>7, <1>8, <1>9
    <2>3. ConnectedInv'
        <3> SUFFICES ASSUME NEW j \in DOMAIN stream', stream'[j].k = "CONNECTED"
                     PROVE  /\ stream'[j].link = link /\ link \notin opened /\ radio # "calling"
                            /\ mode = "dial" => state' # "DISC"
                            /\ \A k \in DOMAIN stream' : k < j => ~Ending(stream'[k])
                            /\ \A k \in DOMAIN stream' : stream'[k].k = "CONNECTED" => k = j
            BY <1>2, <2>1 DEF ConnectedInv
        <3>1. Old(i, j) \in DOMAIN stream /\ stream[Old(i, j)].k = "CONNECTED"
            BY <1>3
        <3>2. /\ stream'[j].link = link /\ link \notin opened /\ radio # "calling"
              /\ mode = "dial" => state' # "DISC"
            BY <1>3, <1>6, <2>1, <3>1 DEF ConnectedInv
        <3>3. \A k \in DOMAIN stream' : k < j => ~Ending(stream'[k])
            BY <1>3, <1>6, <3>1 DEF ConnectedInv
        <3>4. ASSUME NEW k \in DOMAIN stream', stream'[k].k = "CONNECTED" PROVE k = j
            <4>1. Old(i, k) = Old(i, j)
                BY <1>3, <1>6, <3>1, <3>4 DEF ConnectedInv
            <4>2. j \in Int /\ k \in Int
                BY <1>0, <1>1, RemoveAtFacts
            <4> QED
                BY <1>0, <4>1, <4>2 DEF Old
        <3> QED
            BY <3>2, <3>3, <3>4
    <2>4. OneLinkInv'
        BY <1>2, <1>3, <1>6, <2>1, <2>2 DEF OneLinkInv
    <2>5. UpInv'
        BY <1>2, <1>3, <1>6, <2>1, <2>2 DEF UpInv
    <2>6. DownInv'
        BY <1>2, <1>3, <1>6, <1>9, <2>2 DEF DownInv
    <2>7. CallingInv'
        <3> SUFFICES ASSUME radio = "calling" PROVE CallingInv'
            BY <1>2 DEF CallingInv
        <3>1. mode' = "dial" /\ link' \notin opened'
            BY <1>2, <1>6, <2>1 DEF CallingInv
        <3>2. CASE state # "DISC" /\ \A j \in DOMAIN stream : ~Ending(stream[j])
            BY <1>3, <2>1, <3>1, <3>2 DEF CallingInv
        <3>3. ASSUME NEW m \in DOMAIN stream, stream[m].k = "NEWSTATE", stream[m].v # "DISC",
                     \A j \in DOMAIN stream : j > m => ~Ending(stream[j])
              PROVE  CallingInv'
            <4>1. CASE m = i
                <5>1. \A j \in DOMAIN stream : j # i => ~Ending(stream[j])
                    BY <1>0, <1>4, <1>5, <3>3, <4>1
                <5>2. state' # "DISC"
                    BY <1>1, <3>3, <4>1 DEF Handle
                <5> QED
                    BY <1>3, <3>1, <5>1, <5>2 DEF CallingInv
            <4>2. CASE m # i
                <5>1. PICK j \in DOMAIN stream' : Old(i, j) = m
                    BY <1>3, <4>2
                <5>2. stream'[j].k = "NEWSTATE" /\ stream'[j].v # "DISC"
                    BY <1>3, <3>3, <5>1
                <5>3. \A k \in DOMAIN stream' : k > j => ~Ending(stream'[k])
                    BY <1>3, <3>3, <5>1
                <5> QED
                    BY <3>1, <5>2, <5>3 DEF CallingInv
            <4> QED
                BY <4>1, <4>2
        <3> QED
            BY <1>6, <3>2, <3>3 DEF CallingInv
    <2> QED
        BY <1>2, <1>6, <2>1, <2>3, <2>4, <2>5, <2>6, <2>7 DEF StreamInv
<1>10. CASE f.k = "CONNECTED"
    <2>1. opened' = opened \cup {link} /\ state' = state
        BY <1>1, <1>6, <1>10 DEF Handle, ConnectedInv
    <2>2. ~HasConnected' /\ radio # "calling" /\ HasConnected
        BY <1>3, <1>6, <1>10 DEF ConnectedInv, HasConnected
    <2>3. ConnectedInv' /\ DownInv'
        BY <2>2 DEF ConnectedInv, DownInv, HasConnected
    <2>4. OneLinkInv' /\ CallingInv'
        BY <1>2, <1>3, <1>6, <2>2 DEF OneLinkInv, CallingInv
    <2>5. UpInv'
        BY <1>2, <1>3, <1>6, <2>1 DEF UpInv
    <2>6. opened' \subseteq 1 .. link'
        <3>1. f.link \in Link /\ f.link = link
            BY <1>6, <1>f, <1>10, FrameFacts DEF ConnectedInv
        <3>2. link \in 1 .. link
            BY <1>0, <3>1 DEF Link
        <3> QED
            BY <1>2, <1>6, <2>1, <3>2
    <2> QED
        BY <2>3, <2>4, <2>5, <2>6 DEF StreamInv
<1>11. CASE Ending(f)
    <2>1. opened' = opened /\ f.k # "data" /\ f.k # "CONNECTED"
        BY <1>1, <1>11 DEF Handle, Ending
    <2>2. ~HasConnected
        <3> SUFFICES ASSUME NEW j \in DOMAIN stream, stream[j].k = "CONNECTED" PROVE FALSE
            BY DEF HasConnected
        <3>1. ~(i < j)
            BY <1>6, <1>11 DEF ConnectedInv
        <3>2. j # i
            BY <2>1
        <3>3. j < i
            BY <1>0, <3>1, <3>2
        <3> QED
            BY <1>4, <2>1, <3>3
    <2>3. ~HasConnected'
        BY <1>7, <2>2
    <2>4. ConnectedInv' /\ DownInv'
        BY <2>3 DEF ConnectedInv, DownInv, HasConnected
    <2>5. OneLinkInv'
        BY <1>2, <1>3, <1>6, <2>1, <2>3 DEF OneLinkInv
    <2>6. UpInv'
        BY <1>2, <1>6, <1>11 DEF UpInv
    <2>7. CallingInv'
        <3> SUFFICES ASSUME radio = "calling" PROVE CallingInv'
            BY <1>2 DEF CallingInv
        <3>1. mode' = "dial" /\ link' \notin opened'
            BY <1>2, <1>6, <2>1 DEF CallingInv
        <3>2. PICK m \in DOMAIN stream : /\ stream[m].k = "NEWSTATE" /\ stream[m].v # "DISC"
                                         /\ \A j \in DOMAIN stream : j > m => ~Ending(stream[j])
            BY <1>6, <1>11 DEF CallingInv
        <3>3. m # i
            BY <1>11, <3>2 DEF Ending
        <3>4. PICK j \in DOMAIN stream' : Old(i, j) = m
            BY <1>3, <3>3
        <3>5. stream'[j].k = "NEWSTATE" /\ stream'[j].v # "DISC"
            BY <1>3, <3>2, <3>4
        <3>6. \A k \in DOMAIN stream' : k > j => ~Ending(stream'[k])
            BY <1>3, <3>2, <3>4
        <3> QED
            BY <3>1, <3>5, <3>6 DEF CallingInv
    <2> QED
        BY <1>2, <1>6, <2>1, <2>4, <2>5, <2>6, <2>7 DEF StreamInv
<1> QED
    BY <1>9, <1>10, <1>11

LEMMA StreamStep == TypeInv /\ StreamInv /\ [Next]_vars => StreamInv'
<1> SUFFICES ASSUME TypeInv, StreamInv, [Next]_vars PROVE StreamInv'
    OBVIOUS
<1>0. /\ stream \in Seq(Frames) /\ link \in Nat /\ link \in 0 .. MaxLinks /\ mode \in {"dial", "listen"}
      /\ radio \in {"down", "calling", "up"} /\ sent \in Nat
    BY TNCAssumption DEF TypeInv, RadioTypes, UserTypes
<1>i. ConnectedInv /\ OneLinkInv /\ UpInv /\ DownInv /\ CallingInv /\ opened \subseteq 1 .. link
    BY DEF StreamInv
<1> USE DEF tncVars, userVars, radioVars, past
\* A frame that changes nothing about links is added
<1>a. ASSUME NEW f \in Frames, Answers(<<f>>), f.k \in {"FAULT", "MYCALL", "data"},
             f.k = "data" => f.link = link,
             UNCHANGED <<mode, state, radio, link, opened>>
      PROVE  StreamInv'
    <2>1. /\ Len(stream) \in Nat /\ DOMAIN stream = 1 .. Len(stream)
          /\ DOMAIN stream' = 1 .. Len(stream) + 1
          /\ \A j \in DOMAIN stream : stream'[j] = stream[j]
          /\ stream'[Len(stream) + 1] = f
        BY <1>0, <1>a, Added
    <2>2. ~Ending(f) /\ f.k # "CONNECTED" /\ f.k # "NEWSTATE"
        BY <1>a DEF Ending
    <2>3. \A j \in DOMAIN stream' :
             (j \in DOMAIN stream /\ stream'[j] = stream[j]) \/ (j = Len(stream) + 1 /\ stream'[j] = f)
        BY <2>1
    <2>4. HasConnected' <=> HasConnected
        BY <2>1, <2>2, <2>3 DEF HasConnected
    <2>5. ConnectedInv'
        BY <1>a, <1>i, <2>1, <2>2, <2>3 DEF ConnectedInv
    <2>6. OneLinkInv' /\ UpInv' /\ DownInv'
        BY <1>a, <1>i, <2>1, <2>2, <2>3, <2>4 DEF OneLinkInv, UpInv, DownInv
    <2>7. CallingInv'
        BY <1>a, <1>i, <2>1, <2>2, <2>3 DEF CallingInv
    <2> QED
        BY <1>a, <1>i, <2>5, <2>6, <2>7 DEF StreamInv
\* The link ends
<1>b. ASSUME radio # "down", radio' = "down", NEW fs \in Ends(link), Answers(fs),
             UNCHANGED <<mode, state, link, opened>>
      PROVE  StreamInv'
    <2>1. /\ Len(stream) \in Nat /\ DOMAIN stream = 1 .. Len(stream)
          /\ DOMAIN stream' = 1 .. Len(stream) + 2
          /\ \A j \in DOMAIN stream : stream'[j] = stream[j]
          /\ \A j \in {Len(stream) + 1, Len(stream) + 2} :
               /\ Ending(stream'[j]) /\ stream'[j].link = link
               /\ stream'[j].k \in {"DISCONNECTED", "NEWSTATE"}
        BY <1>0, <1>b, EndsAdded
    <2>2. \A j \in DOMAIN stream' :
             \/ j \in DOMAIN stream /\ stream'[j] = stream[j]
             \/ /\ j > Len(stream) /\ stream'[j].link = link /\ Ending(stream'[j])
                /\ stream'[j].k # "CONNECTED"
        BY <2>1
    <2>3. HasConnected' <=> HasConnected
        BY <2>1, <2>2 DEF HasConnected
    <2>4. ConnectedInv'
        BY <1>b, <1>i, <2>1, <2>2 DEF ConnectedInv
    <2>5. OneLinkInv'
        <3>1. radio = "calling" => ~HasConnected /\ link \notin opened
            BY <1>i DEF ConnectedInv, CallingInv, HasConnected
        <3> QED
            BY <1>0, <1>b, <1>i, <2>1, <2>2, <2>3, <3>1 DEF OneLinkInv
    <2>6. DownInv'
        BY <2>1 DEF DownInv
    <2> QED
        BY <1>b, <1>i, <2>4, <2>5, <2>6 DEF StreamInv, UpInv, CallingInv
<1>u. ASSUME UNCHANGED <<mode, state, radio, link, opened, stream>> PROVE StreamInv'
    BY <1>u, <1>i DEF StreamInv, ConnectedInv, OneLinkInv, UpInv, DownInv, CallingInv, HasConnected
<1>1. CASE UNCHANGED vars
    BY <1>1, <1>u DEF vars
<1>2. CASE ControlLoop
    BY <1>2, StreamControl
<1>3. CASE Dial
    <2>1. mode = "dial" /\ state = "DISC" /\ UNCHANGED <<mode, state, opened>>
        BY <1>3 DEF Dial
    <2>2. CASE radio = "down"
        <3> DEFINE f == Frame("NEWSTATE", "ISS", link + 1, 0)
        <3>1. Answers(<<f>>) /\ radio' = "calling" /\ link' = link + 1 /\ link < MaxLinks
            BY <1>3, <2>2 DEF Dial
        <3>2. f \in Frames
            <4>1. link < MaxLinks /\ MaxLinks \in Nat
                BY <3>1, TNCAssumption
            <4>2. link + 1 \in 0 .. MaxLinks /\ link + 1 # 0
                BY <1>0, <4>1
            <4> QED
                BY <4>2, NewFrame
        <3>3. f.k = "NEWSTATE" /\ f.v = "ISS"
            BY DEF Frame
        <3> HIDE DEF f
        <3>4. /\ Len(stream) \in Nat /\ DOMAIN stream = 1 .. Len(stream)
              /\ DOMAIN stream' = 1 .. Len(stream) + 1
              /\ \A j \in DOMAIN stream : stream'[j] = stream[j]
              /\ stream'[Len(stream) + 1] = f
            BY <1>0, <3>1, <3>2, Added
        <3>5. ~HasConnected
            BY <1>i, <2>1 DEF HasConnected, ConnectedInv
        <3>6. ~HasConnected'
            <4>1. \A j \in DOMAIN stream' : j \in DOMAIN stream \/ j = Len(stream) + 1
                BY <3>4
            <4> QED
                BY <3>3, <3>4, <3>5, <4>1 DEF HasConnected
        <3>7. link' \notin opened' /\ opened' \subseteq 1 .. link'
            BY <1>0, <1>i, <2>1, <3>1
        <3>8. ConnectedInv' /\ OneLinkInv' /\ DownInv' /\ UpInv'
            BY <3>1, <3>6, <3>7 DEF HasConnected, ConnectedInv, OneLinkInv, DownInv, UpInv
        <3>9. CallingInv'
            <4>1. /\ Len(stream) + 1 \in DOMAIN stream'
                  /\ \A j \in DOMAIN stream' : ~(j > Len(stream) + 1)
                BY <3>4
            <4> QED
                BY <2>1, <3>3, <3>4, <3>7, <4>1 DEF CallingInv
        <3> QED
            BY <3>7, <3>8, <3>9 DEF StreamInv
    <2>3. CASE radio # "down"
        <3> DEFINE f == Frame("FAULT", "", link, 0)
        <3>1. Answers(<<f>>) /\ UNCHANGED <<radio, link>>
            BY <1>3, <2>3 DEF Dial
        <3>2. f \in Frames
            BY <1>0, NewFrame
        <3>3. f.k = "FAULT"
            BY DEF Frame
        <3> HIDE DEF f
        <3> QED
            BY <1>a, <2>1, <3>1, <3>2, <3>3
    <2> QED
        BY <2>2, <2>3
<1>4. CASE DialWait
    <2>1. UNCHANGED <<mode, state, radio, link, opened>>
        BY <1>4 DEF DialWait
    <2>2. CASE stream' = stream
        BY <1>u, <2>1, <2>2
    <2>3. CASE Answers(<<Frame("MYCALL", "", Message("dial").link, 0)>>)
        <3> DEFINE f == Frame("MYCALL", "", Message("dial").link, 0)
        <3>1. Message("dial") \in Frames
            BY <1>4, QueueTypes DEF DialWait, TypeInv, Receiver
        <3>2. f \in Frames
            <4>1. Message("dial").link \in 0 .. MaxLinks
                BY <3>1, FrameFacts
            <4> QED
                BY <4>1, NewFrame
        <3>3. f.k = "MYCALL"
            BY DEF Frame
        <3>4. Answers(<<f>>)
            BY <2>3
        <3> HIDE DEF f
        <3> QED
            BY <1>a, <2>1, <3>2, <3>3, <3>4
    <2> QED
        BY <1>4, <2>2, <2>3 DEF DialWait
<1>5. CASE DialDone \/ Listener \/ Accept \/ Read \/ CloseWait
    BY <1>5, <1>u DEF DialDone, Listener, Accept, Read, CloseWait
<1>6. CASE Close
    BY <1>6, <1>b, <1>u DEF Close, HangUp, Drop
<1>7. CASE Connects
    <2>1. stream = <<>> /\ radio' = "up" /\ UNCHANGED <<mode, state, opened>>
        BY <1>7 DEF Connects
    <2>2. CASE radio = "calling"
        <3> DEFINE f == Frame("CONNECTED", "", link, 0)
        <3>1. Answers(<<f>>) /\ link' = link
            BY <1>7, <2>2 DEF Connects
        <3>2. f.k = "CONNECTED" /\ f.link = link /\ ~Ending(f)
            BY DEF Frame, Ending
        <3> HIDE DEF f
        <3>3. stream' = <<f>>
            BY <2>1, <3>1 DEF Answers
        <3>4. DOMAIN stream' = {1} /\ stream'[1] = f
            BY <3>3
        <3>5. state # "DISC" /\ link \notin opened
            BY <1>i, <2>1, <2>2 DEF CallingInv
        <3>6. HasConnected'
            BY <3>2, <3>4 DEF HasConnected
        <3>7. ConnectedInv'
            BY <2>1, <3>1, <3>2, <3>4, <3>5 DEF ConnectedInv
        <3>8. OneLinkInv' /\ UpInv' /\ DownInv' /\ CallingInv'
            BY <2>1, <3>1, <3>2, <3>4, <3>5, <3>6 DEF OneLinkInv, UpInv, DownInv, CallingInv
        <3> QED
            BY <1>i, <2>1, <3>1, <3>7, <3>8 DEF StreamInv
    <2>3. CASE radio # "calling"
        <3> DEFINE f == Frame("TARGET", "", link + 1, 0)
                   g == Frame("NEWSTATE", "IRS", link + 1, 0)
                   h == Frame("CONNECTED", "", link + 1, 0)
        <3>1. Answers(<<f, g, h>>) /\ link' = link + 1 /\ mode = "listen"
            BY <1>7, <2>3 DEF Connects
        <3>2. /\ f.k = "TARGET" /\ g.k = "NEWSTATE" /\ h.k = "CONNECTED" /\ h.link = link + 1
              /\ ~Ending(f) /\ ~Ending(g) /\ ~Ending(h)
            BY DEF Frame, Ending
        <3> HIDE DEF f, g, h
        <3>3. stream' = <<f, g, h>>
            BY <2>1, <3>1 DEF Answers
        <3>4. /\ DOMAIN stream' = {1, 2, 3}
              /\ stream'[1] = f /\ stream'[2] = g /\ stream'[3] = h
            BY <3>3
        <3>5. link' \notin opened' /\ opened' \subseteq 1 .. link'
            BY <1>0, <1>i, <2>1, <3>1
        <3>6. HasConnected'
            BY <3>2, <3>4 DEF HasConnected
        <3>7. ConnectedInv'
            BY <2>1, <3>1, <3>2, <3>4, <3>5 DEF ConnectedInv
        <3>8. OneLinkInv' /\ UpInv' /\ DownInv' /\ CallingInv'
            BY <2>1, <3>1, <3>2, <3>4, <3>6 DEF OneLinkInv, UpInv, DownInv, CallingInv
        <3> QED
            BY <3>5, <3>7, <3>8 DEF StreamInv
    <2> QED
        BY <2>2, <2>3
<1>8. CASE RemoteData
    <2> DEFINE f == Frame("data", "", link, sent + 1)
    <2>1. Answers(<<f>>) /\ UNCHANGED <<mode, state, radio, link, opened>>
        BY <1>8 DEF RemoteData
    <2>2. f \in Frames
        <3>1. sent + 1 \in Nat
            BY <1>0
        <3> QED
            BY <1>0, <3>1, NewFrame
    <2>3. f.k = "data" /\ f.link = link
        BY DEF Frame
    <2> HIDE DEF f
    <2> QED
        BY <1>a, <2>1, <2>2, <2>3
<1>9. CASE LinkEnds
    BY <1>9, <1>b DEF LinkEnds, Drop
<1>10. CASE CloseTimeout
    BY <1>10, <1>b, <1>u DEF CloseTimeout, Drop
<1>11. CASE Disconnect
    BY <1>11, <1>b, <1>u DEF Disconnect, HangUp, Drop
<1> QED
    BY <1>1, <1>2, <1>3, <1>4, <1>5, <1>6, <1>7, <1>8, <1>9, <1>10, <1>11 DEF Next, Idle

-----------------------------------------------------------------------------
(* Receivers, and the order of the data                                    *)

LEMMA ShapeStep == TypeInv /\ ShapeInv /\ [Next]_vars => ShapeInv'
<1> SUFFICES ASSUME TypeInv, ShapeInv, [Next]_vars PROVE ShapeInv'
    OBVIOUS
<1>0. recv \in [Receiver -> Queue] /\ {"dial", "get", "listen", "close"} = Receiver
    BY DEF TypeInv, Receiver
<1>q. \A r \in Receiver : recv[r] \in Queue /\ recv[r].q \in Seq(Frames)
    BY <1>0 DEF Queue
<1> USE DEF ShapeInv, tncVars, userVars, radioVars, past
<1>1. ASSUME UNCHANGED <<mode, u, recv>> PROVE ShapeInv'
    BY <1>1
<1>2. CASE ControlLoop
    <2>1. PICK f : Handle(f) /\ UNCHANGED <<mode, u>>
        BY <1>2 DEF ControlLoop
    <2>2. CASE f.k = "data"
        BY <1>1, <2>1, <2>2 DEF Handle
    <2>3. CASE f.k # "data"
        <3>1. recv' = [r \in Receiver |-> IF recv[r].on THEN [recv[r] EXCEPT !.q = Append(@, f)]
                                          ELSE recv[r]]
            BY <2>1, <2>3 DEF Handle, Broadcast
        <3>2. \A r \in {"dial", "listen"} : /\ recv'[r].on = recv[r].on
                                            /\ ~recv[r].on => recv'[r].q = recv[r].q
            BY <1>0, <1>q, <3>1 DEF Queue
        <3> QED
            BY <2>1, <3>2
    <2> QED
        BY <2>2, <2>3
<1>3. CASE Dial
    <2>1. /\ mode = "dial" /\ u' = "call" /\ mode' = mode
          /\ recv' = [recv EXCEPT !["dial"] = Listening]
        BY <1>3 DEF Dial
    <2> QED
        BY <1>0, <2>1
<1>4. CASE DialWait
    <2>1. u = "call" /\ mode' = mode
        BY <1>4 DEF DialWait
    <2>2. CASE u' = "idle" /\ recv' = [recv EXCEPT !["dial"] = Closed]
        BY <1>0, <2>1, <2>2 DEF Closed
    <2>3. CASE u' = "get" /\ recv' = [recv EXCEPT !["dial"] = Closed, !["get"] = Listening]
        BY <1>0, <2>1, <2>3 DEF Closed
    <2>4. CASE u' = u /\ recv' = Next1("dial")
        BY <1>0, <2>1, <2>4 DEF Next1
    <2> QED
        BY <1>4, <2>2, <2>3, <2>4 DEF DialWait
<1>5. CASE DialDone
    <2>1. u = "get" /\ mode' = mode /\ u' \in {"open", "get"}
        BY <1>5 DEF DialDone
    <2>2. recv'["dial"] = recv["dial"] /\ recv'["listen"] = recv["listen"]
        BY <1>0, <1>5 DEF DialDone, Next1
    <2> QED
        BY <2>1, <2>2
<1>6. CASE Listener
    <2>1. /\ recv["listen"].q # <<>> /\ mode' = mode /\ u' = u
          /\ recv' = [recv EXCEPT !["listen"].q = Tail(@)]
        BY <1>6 DEF Listener, Next1
    <2> QED
        BY <1>0, <2>1
<1>7. CASE Accept
    BY <1>7 DEF Accept
<1>8. CASE Close
    <2>1. /\ u = "open" /\ u' = "close" /\ mode' = mode
          /\ recv' = [recv EXCEPT !["close"] = Listening]
        BY <1>8 DEF Close
    <2> QED
        BY <1>0, <2>1
<1>9. CASE CloseWait
    <2>1. u = "close" /\ u' \in {"close", "idle"} /\ mode' = mode
        BY <1>9 DEF CloseWait
    <2>2. recv'["dial"] = recv["dial"] /\ recv'["listen"] = recv["listen"]
        BY <1>0, <1>9 DEF CloseWait, Next1
    <2> QED
        BY <2>1, <2>2
<1>10. CASE Read \/ Disconnect \/ Connects \/ RemoteData \/ LinkEnds \/ UNCHANGED vars
    BY <1>1, <1>10 DEF Read, Disconnect, Connects, RemoteData, LinkEnds, vars
<1>11. CASE CloseTimeout
    <2>1. /\ u = "close" /\ u' = "idle" /\ mode' = mode
          /\ recv' = [recv EXCEPT !["close"] = Closed]
        BY <1>11 DEF CloseTimeout
    <2> QED
        BY <1>0, <2>1
<1> QED
    BY <1>2, <1>3, <1>4, <1>5, <1>6, <1>7, <1>8, <1>9, <1>10, <1>11 DEF Next, Idle

\* Something else than data is added
LEMMA KeptAdding ==
    ASSUME Ordered, DOMAIN stream \subseteq DOMAIN stream', link' = link, sent' = sent,
           \A j \in DOMAIN stream : stream'[j] = stream[j],
           \A j \in DOMAIN stream' : j \in DOMAIN stream \/ stream'[j].k # "data"
    PROVE  Ordered' /\ \A n : After(n) => After(n)'
<1>1. Coming' = Coming
    BY DEF Coming
<1>2. \A j \in Coming : stream'[j] = stream[j]
    BY DEF Coming
<1> QED
    BY <1>1, <1>2 DEF Ordered, After

\* A frame that is not data of the present link is taken
LEMMA KeptTaking ==
    ASSUME stream \in Seq(Frames), Ordered, NEW i \in DOMAIN stream, i \notin Coming,
           stream' = RemoveAt(stream, i), link' = link, sent' = sent
    PROVE  Ordered' /\ \A n : After(n) => After(n)'
<1>1. /\ \A j \in DOMAIN stream' : /\ Old(i, j) \in DOMAIN stream /\ Old(i, j) # i
                                   /\ stream'[j] = stream[Old(i, j)]
      /\ \A j, k \in DOMAIN stream' : j < k <=> Old(i, j) < Old(i, k)
      /\ \A m \in DOMAIN stream : m # i => \E j \in DOMAIN stream' : Old(i, j) = m
    BY Removed
<1>2. \A j \in DOMAIN stream' : j \in Coming' <=> Old(i, j) \in Coming
    BY <1>1 DEF Coming
<1>3. Coming' \subseteq DOMAIN stream' /\ Coming \subseteq DOMAIN stream
    BY DEF Coming
<1>4. Ordered'
    BY <1>1, <1>2, <1>3 DEF Ordered
<1>5. {stream[j].n : j \in Coming}' = {stream[j].n : j \in Coming}
    BY <1>1, <1>2, <1>3
<1> QED
    BY <1>4, <1>5 DEF After

\* The first data frame is taken, and it is of the present link
LEMMA FirstTaken ==
    ASSUME stream \in Seq(Frames), Ordered, NEW i \in Coming, sent \in Nat,
           \A j \in Coming : ~(j < i),
           stream' = RemoveAt(stream, i), link' = link, sent' = sent
    PROVE  /\ Ordered'
           /\ \A n \in 0 .. sent : After(n) =>
                stream[i].n = n + 1 /\ n + 1 \in 0 .. sent /\ After(n + 1)'
<1>0. i \in DOMAIN stream /\ Coming \subseteq DOMAIN stream /\ Coming' \subseteq DOMAIN stream'
      /\ DOMAIN stream = 1 .. Len(stream) /\ Len(stream) \in Nat
    BY DEF Coming
<1>1. /\ \A j \in DOMAIN stream' : /\ Old(i, j) \in DOMAIN stream /\ Old(i, j) # i
                                   /\ stream'[j] = stream[Old(i, j)]
      /\ \A j, k \in DOMAIN stream' : j < k <=> Old(i, j) < Old(i, k)
      /\ \A m \in DOMAIN stream : m # i => \E j \in DOMAIN stream' : Old(i, j) = m
    BY <1>0, Removed
<1>2. \A j \in DOMAIN stream' : j \in Coming' <=> Old(i, j) \in Coming
    BY <1>1 DEF Coming
<1>3. Ordered'
    BY <1>0, <1>1, <1>2 DEF Ordered
<1>4. ASSUME NEW n \in 0 .. sent, After(n)
      PROVE  stream[i].n = n + 1 /\ n + 1 \in 0 .. sent /\ After(n + 1)'
    <2>1. \A j \in Coming : stream[j].n \in n + 1 .. sent
        BY <1>4 DEF After
    <2>2. \A x \in n + 1 .. sent : \E j \in Coming : stream[j].n = x
        BY <1>4 DEF After
    <2>3. stream[i].n \in n + 1 .. sent
        BY <2>1
    <2>4. n \in Nat /\ n + 1 \in 0 .. sent /\ n + 1 \in n + 1 .. sent
        BY <2>3
    <2>5. PICK j \in Coming : stream[j].n = n + 1
        BY <2>2, <2>4
    <2>6. \A k \in Coming : k # i => stream[i].n < stream[k].n
        <3>1. \A k \in Coming : k # i => i < k
            BY <1>0
        <3> QED
            BY <3>1 DEF Ordered
    <2>7. stream[i].n = n + 1
        BY <2>3, <2>4, <2>5, <2>6
    <2>8. \A k \in Coming' : stream'[k].n \in n + 2 .. sent
        <3> SUFFICES ASSUME NEW k \in Coming' PROVE stream'[k].n \in n + 2 .. sent
            OBVIOUS
        <3>1. Old(i, k) \in Coming /\ Old(i, k) # i /\ stream'[k] = stream[Old(i, k)]
            BY <1>0, <1>1, <1>2
        <3>2. stream'[k].n \in n + 1 .. sent /\ stream[i].n < stream'[k].n
            BY <2>1, <2>6, <3>1
        <3> QED
            BY <2>4, <2>7, <3>2
    <2>9. ASSUME NEW x \in n + 2 .. sent PROVE \E k \in Coming' : stream'[k].n = x
        <3>1. x \in n + 1 .. sent /\ x # n + 1
            BY <2>4
        <3>2. PICK m \in Coming : stream[m].n = x
            BY <2>2, <3>1
        <3>3. m # i
            BY <2>7, <3>1, <3>2
        <3>4. PICK k \in DOMAIN stream' : Old(i, k) = m
            BY <1>0, <1>1, <3>3
        <3> QED
            BY <1>1, <1>2, <3>2, <3>4
    <2>10. {stream[k].n : k \in Coming}' = n + 2 .. sent
        BY <2>8, <2>9
    <2>11. n + 2 = (n + 1) + 1
        BY <2>4
    <2> QED
        BY <2>4, <2>7, <2>10, <2>11 DEF After
<1> QED
    BY <1>3, <1>4

\* The steps other than the control loop's
Elsewhere ==
    \/ Dial \/ DialWait \/ DialDone \/ Listener \/ Accept \/ Read
    \/ Close \/ CloseWait \/ CloseTimeout \/ Disconnect
    \/ Connects \/ RemoteData \/ LinkEnds \/ UNCHANGED vars

\* In those, either nothing changes, or there is a
\* new link, of which nothing has come
LEMMA FlowOther ==
    ASSUME TypeInv, Ordered, Elsewhere
    PROVE  /\ Ordered'
           /\ \/ link' = link /\ \A n \in 0 .. sent : After(n) => n \in 0 .. sent' /\ After(n)'
              \/ link' # link /\ 0 \in 0 .. sent' /\ After(0)'
<1>0. /\ stream \in Seq(Frames) /\ DOMAIN stream = 1 .. Len(stream) /\ Len(stream) \in Nat
      /\ link \in Nat /\ link \in 0 .. MaxLinks /\ sent \in Nat
    BY TNCAssumption DEF TypeInv, RadioTypes
<1> USE DEF tncVars, userVars, radioVars, past
<1>k. ASSUME DOMAIN stream \subseteq DOMAIN stream', link' = link, sent' = sent,
             \A j \in DOMAIN stream : stream'[j] = stream[j],
             \A j \in DOMAIN stream' : j \in DOMAIN stream \/ stream'[j].k # "data"
      PROVE  /\ Ordered' /\ link' = link
             /\ \A n \in 0 .. sent : After(n) => n \in 0 .. sent' /\ After(n)'
    BY <1>k, KeptAdding
<1>a. ASSUME NEW f \in Frames, Answers(<<f>>), f.k # "data", link' = link, sent' = sent
      PROVE  /\ Ordered' /\ link' = link
             /\ \A n \in 0 .. sent : After(n) => n \in 0 .. sent' /\ After(n)'
    <2>1. /\ DOMAIN stream' = 1 .. Len(stream) + 1
          /\ \A j \in DOMAIN stream : stream'[j] = stream[j]
          /\ stream'[Len(stream) + 1] = f
        BY <1>0, <1>a, Added
    <2>2. /\ DOMAIN stream \subseteq DOMAIN stream'
          /\ \A j \in DOMAIN stream' : j \in DOMAIN stream \/ stream'[j].k # "data"
        BY <1>0, <1>a, <2>1
    <2> QED
        BY <1>a, <1>k, <2>1, <2>2
<1>b. ASSUME NEW fs \in Ends(link), Answers(fs), link' = link, sent' = sent
      PROVE  /\ Ordered' /\ link' = link
             /\ \A n \in 0 .. sent : After(n) => n \in 0 .. sent' /\ After(n)'
    <2>1. /\ DOMAIN stream' = 1 .. Len(stream) + 2
          /\ \A j \in DOMAIN stream : stream'[j] = stream[j]
          /\ \A j \in {Len(stream) + 1, Len(stream) + 2} : stream'[j].k \in {"DISCONNECTED", "NEWSTATE"}
        BY <1>0, <1>b, EndsAdded
    <2>2. /\ DOMAIN stream \subseteq DOMAIN stream'
          /\ \A j \in DOMAIN stream' : j \in DOMAIN stream \/ stream'[j].k # "data"
        BY <1>0, <2>1
    <2> QED
        BY <1>b, <1>k, <2>1, <2>2
<1>u. ASSUME UNCHANGED <<stream, link, sent>>
      PROVE  /\ Ordered' /\ link' = link
             /\ \A n \in 0 .. sent : After(n) => n \in 0 .. sent' /\ After(n)'
    BY <1>u, <1>k
<1>1. CASE Dial
    <2>1. CASE radio = "down"
        <3> DEFINE f == Frame("NEWSTATE", "ISS", link + 1, 0)
        <3>1. Answers(<<f>>) /\ link' = link + 1 /\ sent' = 0 /\ link < MaxLinks
            BY <1>1, <2>1 DEF Dial
        <3>2. f \in Frames
            <4>1. link < MaxLinks /\ MaxLinks \in Nat
                BY <3>1, TNCAssumption
            <4>2. link + 1 \in 0 .. MaxLinks
                BY <1>0, <4>1
            <4> QED
                BY <4>2, NewFrame
        <3>3. f.k = "NEWSTATE"
            BY DEF Frame
        <3> HIDE DEF f
        <3>4. /\ DOMAIN stream' = 1 .. Len(stream) + 1
              /\ \A j \in DOMAIN stream : stream'[j] = stream[j]
              /\ stream'[Len(stream) + 1] = f
            BY <1>0, <3>1, <3>2, Added
        <3>5. \A j \in DOMAIN stream' : stream'[j].k = "data" => stream'[j].link <= link
            <4>1. \A j \in DOMAIN stream' : j \in DOMAIN stream \/ j = Len(stream) + 1
                BY <1>0, <3>4
            <4> QED
                BY <3>3, <3>4, <4>1 DEF Ordered
        <3>6. \A j \in DOMAIN stream' : stream'[j].k = "data" =>
                 stream'[j].link <= link' /\ stream'[j].link # link'
            <4>1. \A j \in DOMAIN stream' : stream'[j].link \in Nat
                BY <1>0, <3>2, <3>1, AnswerTypes, FrameFacts
            <4> QED
                BY <1>0, <3>1, <3>5, <4>1
        <3>7. Coming' = {}
            BY <3>6 DEF Coming
        <3>8. Ordered' /\ After(0)'
            BY <3>1, <3>6, <3>7 DEF Ordered, After
        <3> QED
            BY <1>0, <3>1, <3>8
    <2>2. CASE radio # "down"
        <3> DEFINE f == Frame("FAULT", "", link, 0)
        <3>1. Answers(<<f>>) /\ link' = link /\ sent' = sent
            BY <1>1, <2>2 DEF Dial
        <3>2. f \in Frames /\ f.k # "data"
            BY <1>0, NewFrame DEF Frame
        <3> HIDE DEF f
        <3> QED
            BY <1>a, <3>1, <3>2
    <2> QED
        BY <2>1, <2>2
<1>2. CASE DialWait
    <2>1. link' = link /\ sent' = sent
        BY <1>2 DEF DialWait
    <2>2. CASE stream' = stream
        BY <1>u, <2>1, <2>2
    <2>3. CASE Answers(<<Frame("MYCALL", "", Message("dial").link, 0)>>)
        <3> DEFINE f == Frame("MYCALL", "", Message("dial").link, 0)
        <3>1. Message("dial") \in Frames
            BY <1>2, QueueTypes DEF DialWait, TypeInv, Receiver
        <3>2. f \in Frames /\ f.k # "data"
            <4>1. Message("dial").link \in 0 .. MaxLinks
                BY <3>1, FrameFacts
            <4> QED
                BY <4>1, NewFrame DEF Frame
        <3>3. Answers(<<f>>)
            BY <2>3
        <3> HIDE DEF f
        <3> QED
            BY <1>a, <2>1, <3>2, <3>3
    <2> QED
        BY <1>2, <2>2, <2>3 DEF DialWait
<1>3. CASE DialDone \/ Listener \/ Accept \/ Read \/ CloseWait \/ UNCHANGED vars
    BY <1>3, <1>u DEF DialDone, Listener, Accept, Read, CloseWait, vars
<1>4. CASE Close \/ CloseTimeout \/ Disconnect \/ LinkEnds
    <2>1. /\ link' = link /\ sent' = sent
          /\ stream' = stream \/ \E fs \in Ends(link) : Answers(fs)
        BY <1>4 DEF Close, CloseTimeout, Disconnect, LinkEnds, HangUp, Drop
    <2> QED
        BY <1>b, <1>u, <2>1
<1>5. CASE Connects
    <2>1. stream = <<>>
        BY <1>5 DEF Connects
    <2>2. CASE radio = "calling"
        <3> DEFINE f == Frame("CONNECTED", "", link, 0)
        <3>1. Answers(<<f>>) /\ link' = link /\ sent' = sent
            BY <1>5, <2>2 DEF Connects
        <3>2. f \in Frames /\ f.k # "data"
            <4>1. link # 0
                BY <2>2 DEF TypeInv, RadioTypes
            <4> QED
                BY <1>0, <4>1, NewFrame DEF Frame
        <3> HIDE DEF f
        <3> QED
            BY <1>a, <3>1, <3>2
    <2>3. CASE radio # "calling"
        <3> DEFINE f == Frame("TARGET", "", link + 1, 0)
                   g == Frame("NEWSTATE", "IRS", link + 1, 0)
                   h == Frame("CONNECTED", "", link + 1, 0)
        <3>1. Answers(<<f, g, h>>) /\ link' = link + 1 /\ sent' = 0
            BY <1>5, <2>3 DEF Connects
        <3>2. f.k # "data" /\ g.k # "data" /\ h.k # "data"
            BY DEF Frame
        <3> HIDE DEF f, g, h
        <3>3. stream' = <<f, g, h>>
            BY <2>1, <3>1 DEF Answers
        <3>4. /\ DOMAIN stream' = {1, 2, 3}
              /\ stream'[1] = f /\ stream'[2] = g /\ stream'[3] = h
            BY <3>3
        <3>5. \A j \in DOMAIN stream' : stream'[j].k # "data"
            BY <3>2, <3>4
        <3>6. Coming' = {}
            BY <3>5 DEF Coming
        <3>7. Ordered' /\ After(0)'
            BY <3>1, <3>5, <3>6 DEF Ordered, After
        <3> QED
            BY <1>0, <3>1, <3>7
    <2> QED
        BY <2>2, <2>3
<1>6. CASE RemoteData
    <2> DEFINE f == Frame("data", "", link, sent + 1)
               m == Len(stream) + 1
    <2>1. Answers(<<f>>) /\ link' = link /\ sent' = sent + 1
        BY <1>6 DEF RemoteData
    <2>2. f \in Frames
        <3>1. sent + 1 \in Nat
            BY <1>0
        <3> QED
            BY <1>0, <3>1, NewFrame
    <2>3. f.k = "data" /\ f.link = link /\ f.n = sent + 1
        BY DEF Frame
    <2> HIDE DEF f
    <2>4. /\ DOMAIN stream' = 1 .. Len(stream) + 1
          /\ \A j \in DOMAIN stream : stream'[j] = stream[j]
          /\ stream'[m] = f
        BY <1>0, <2>1, <2>2, Added
    <2>5. \A j \in DOMAIN stream' : (j \in DOMAIN stream /\ stream'[j] = stream[j] /\ j < m) \/ j = m
        BY <1>0, <2>4
    <2>6. m \in DOMAIN stream' /\ DOMAIN stream \subseteq DOMAIN stream' /\ m \notin DOMAIN stream
        BY <1>0, <2>4
    <2> HIDE DEF m
    <2>7. Coming' = Coming \cup {m} /\ Coming \subseteq DOMAIN stream
        BY <2>1, <2>3, <2>4, <2>5, <2>6 DEF Coming
    <2>8. \A j \in Coming : stream'[j] = stream[j] /\ j < m
        BY <2>5, <2>6, <2>7
    <2>9. ASSUME NEW n \in 0 .. sent, After(n)
          PROVE  n \in 0 .. sent' /\ After(n)'
        <3>1. {stream[j].n : j \in Coming} = n + 1 .. sent
            BY <2>9 DEF After
        <3>2. {stream[j].n : j \in Coming}' = {stream[j].n : j \in Coming} \cup {sent + 1}
            BY <2>3, <2>4, <2>7, <2>8
        <3>3. (n + 1 .. sent) \cup {sent + 1} = n + 1 .. sent + 1
            BY <1>0
        <3>4. n \in 0 .. sent'
            BY <1>0, <2>1
        <3>5. {stream[j].n : j \in Coming}' = n + 1 .. sent'
            BY <2>1, <3>1, <3>2, <3>3
        <3> QED
            BY <3>4, <3>5 DEF After
    <2>10. \A j \in DOMAIN stream' : stream'[j].k = "data" => stream'[j].link <= link'
        BY <1>0, <2>1, <2>3, <2>4, <2>5 DEF Ordered
    <2>11. \A j \in Coming : stream[j].n \in Nat /\ stream[j].n < sent + 1
        <3>1. \A j \in DOMAIN stream : stream[j].n \in Nat
            BY <1>0, FrameFacts
        <3>2. \A j \in Coming : stream[j].n \in Nat /\ stream[j].n <= sent
            BY <2>7, <3>1 DEF Ordered
        <3> QED
            BY <1>0, <3>2
    <2>12. \A j \in Coming' : stream'[j].n <= sent'
        BY <1>0, <2>1, <2>3, <2>4, <2>7, <2>8, <2>11
    <2>13. ASSUME NEW j \in Coming', NEW k \in Coming', j < k
           PROVE  stream'[j].n < stream'[k].n
        <3>1. CASE k = m
            <4>1. j \in Coming
                BY <2>4, <2>6, <2>7, <2>13, <3>1, <1>0
            <4> QED
                BY <2>3, <2>4, <2>8, <2>11, <3>1, <4>1
        <3>2. CASE k # m
            <4>1. k \in Coming /\ k < m /\ k \in DOMAIN stream'
                BY <2>7, <2>8, <2>6, <3>2
            <4>2. j \in Coming
                <5>1. j # m
                    BY <1>0, <2>4, <2>6, <2>13, <4>1
                <5> QED
                    BY <2>7, <5>1
            <4> QED
                BY <2>8, <2>13, <4>1, <4>2 DEF Ordered
        <3> QED
            BY <3>1, <3>2
    <2> QED
        BY <2>1, <2>9, <2>10, <2>12, <2>13 DEF Ordered
<1> QED
    BY <1>1, <1>2, <1>3, <1>4, <1>5, <1>6 DEF Elsewhere

\* The control loop takes the data of a link in order
LEMMA FlowControl ==
    ASSUME TypeInv, Ordered, NEW i \in DOMAIN stream,
           \A j \in 1 .. i - 1 : IsTCP /\ (stream[j].k = "data") # (stream[i].k = "data"),
           stream' = RemoveAt(stream, i), link' = link, sent' = sent
    PROVE  /\ Ordered'
           /\ i \notin Coming => \A n : After(n) => After(n)'
           /\ i \in Coming => \A n \in 0 .. sent : After(n) =>
                stream[i].n = n + 1 /\ n + 1 \in 0 .. sent /\ After(n + 1)'
<1>0. stream \in Seq(Frames) /\ sent \in Nat
    BY TNCAssumption DEF TypeInv, RadioTypes
<1>1. CASE i \notin Coming
    BY <1>0, <1>1, KeptTaking
<1>2. CASE i \in Coming
    <2>1. \A j \in Coming : ~(j < i)
        <3>1. SUFFICES ASSUME NEW j \in Coming, j < i PROVE FALSE
            OBVIOUS
        <3>2. j \in 1 .. i - 1
            BY <1>0, <3>1 DEF Coming
        <3> QED
            BY <1>2, <3>2 DEF Coming
    <2> QED
        BY <1>0, <1>2, <2>1, FirstTaken
<1> QED
    BY <1>1, <1>2

LEMMA OrderedStep == TypeInv /\ Ordered /\ [Next]_vars => Ordered'
<1> SUFFICES ASSUME TypeInv, Ordered, [Next]_vars PROVE Ordered'
    OBVIOUS
<1>1. CASE ControlLoop
    BY <1>1, FlowControl DEF ControlLoop
<1>2. CASE Elsewhere
    BY <1>2, FlowOther
<1> QED
    BY <1>1, <1>2 DEF Next, Idle, Elsewhere

LEMMA FlowStep ==
    ASSUME TypeInv, Ordered, FlowInv, Elsewhere, thrown' = thrown,
           connected' /\ Present' # <<>> => connected /\ Present' = Present /\ link' = link
    PROVE  FlowInv'
<1>1. PICK n \in 0 .. sent : After(n) /\ (connected => Upto(Present, link, n, thrown))
    BY DEF FlowInv
<1>2. CASE link' = link /\ n \in 0 .. sent' /\ After(n)'
    BY <1>1, <1>2 DEF FlowInv, Upto
<1>3. CASE link' # link /\ 0 \in 0 .. sent' /\ After(0)'
    BY <1>3 DEF FlowInv, Upto
<1> QED
    BY <1>1, <1>2, <1>3, FlowOther

-----------------------------------------------------------------------------
(* Whose the present channel is                                            *)

\* Somebody counts on the present link: its connection, or Dial or the listener
\* that is about to make one
Needed ==
    \/ data # 0 \/ u = "get"
    \/ \E r \in {"dial", "listen"} : \E i \in DOMAIN recv[r].q : recv[r].q[i].k = "CONNECTED"

ClaimInv == PendingInv /\ GetInv /\ ConnInv /\ GotInv

\* A receiver has no CONNECTED that it did not have before
NoNews(r) ==
    \E d \in Int : \A i \in DOMAIN recv'[r].q : recv'[r].q[i].k = "CONNECTED" =>
        i + d \in DOMAIN recv[r].q /\ recv[r].q[i + d] = recv'[r].q[i]

LEMMA NeededAlive ==
    ASSUME ClaimInv
    PROVE  (Needed => Alive) /\ (connected => Needed) /\ (data = 0 /\ u # "get" => ~connected)
BY DEF ClaimInv, PendingInv, GetInv, ConnInv, Needed

\* A step after which those who count on the link still can
LEMMA NothingClaimed ==
    ASSUME TypeInv, TypeInv', ClaimInv, UNCHANGED <<connected, data, cur, chans, conns, thrown>>,
           opened \subseteq opened',
           Needed => Alive' /\ link' = link,
           u' = "get" <=> u = "get", u = "get" => open' = open,
           NoNews("dial"), NoNews("listen")
    PROVE  ClaimInv'
<1>0. /\ connected => Needed
      /\ \A i \in DOMAIN conns : conns'[i] = conns[i]
    BY NeededAlive
<1>1. PendingInv'
    <2> SUFFICES ASSUME NEW r \in {"dial", "listen"}, NEW i \in DOMAIN recv'[r].q,
                        recv'[r].q[i].k = "CONNECTED"
                 PROVE  /\ recv'[r].q[i].link = link' /\ Alive' /\ Unclaimed' /\ ~connected'
                        /\ \A j \in DOMAIN recv'[r].q : recv'[r].q[j].k = "CONNECTED" => j = i
        BY DEF PendingInv
    <2>1. PICK d \in Int : \A j \in DOMAIN recv'[r].q : recv'[r].q[j].k = "CONNECTED" =>
                              j + d \in DOMAIN recv[r].q /\ recv[r].q[j + d] = recv'[r].q[j]
        BY DEF NoNews
    <2>2. i + d \in DOMAIN recv[r].q /\ recv[r].q[i + d] = recv'[r].q[i]
        BY <2>1
    <2>3. /\ recv[r].q[i + d].link = link /\ Unclaimed /\ ~connected
          /\ \A j \in DOMAIN recv[r].q : recv[r].q[j].k = "CONNECTED" => j = i + d
        BY <2>2 DEF ClaimInv, PendingInv
    <2>4. Needed
        BY <2>2 DEF Needed
    <2>5. recv'[r].q[i].link = link' /\ Alive' /\ ~connected'
        BY <2>2, <2>3, <2>4
    <2>6. Unclaimed'
        BY <2>3, <2>4 DEF Unclaimed
    <2>7. ASSUME NEW j \in DOMAIN recv'[r].q, recv'[r].q[j].k = "CONNECTED" PROVE j = i
        <3>1. j + d = i + d
            BY <2>1, <2>3, <2>7
        <3>2. recv'[r].q \in Seq(Frames)
            BY DEF TypeInv, Receiver, Queue
        <3>3. i \in Int /\ j \in Int
            BY <3>2
        <3> QED
            BY <3>1, <3>3
    <2> QED
        BY <2>5, <2>6, <2>7
<1>2. GetInv'
    <2> SUFFICES ASSUME u' = "get" PROVE open' = link' /\ Alive' /\ Unclaimed' /\ connected'
        BY DEF GetInv
    <2>1. open = link /\ Unclaimed /\ connected /\ Needed
        BY <1>0 DEF ClaimInv, GetInv
    <2> QED
        BY <2>1 DEF Unclaimed
<1>3. ConnInv'
    <2>1. ConnInv
        BY DEF ClaimInv
    <2>2. data # 0 => Needed
        BY DEF Needed
    <2> QED
        BY <2>1, <2>2 DEF ConnInv
<1>4. GotInv'
    <2>1. \A i : Got(i)' = Got(i)
        BY DEF Got
    <2>2. Present' = Present
        BY <2>1 DEF Present
    <2>3. GotInv
        BY DEF ClaimInv
    <2> QED
        BY <1>0, <2>1, <2>2, <2>3 DEF GotInv, Of, Gapless, Follows
<1> QED
    BY <1>1, <1>2, <1>3, <1>4 DEF ClaimInv

\* The connection of the present link is made
LEMMA Claimed ==
    ASSUME TypeInv, TypeInv', ClaimInv, Alive, Alive', Unclaimed, NewConn(link),
           UNCHANGED <<cur, chans, link, opened, thrown>>, connected', u' # "get",
           \A r \in {"dial", "listen"} : \A i \in DOMAIN recv'[r].q : recv'[r].q[i].k # "CONNECTED",
           Of(chans[cur].q, link), Gapless(chans[cur].q, thrown)
    PROVE  ClaimInv' /\ Present' = chans[cur].q
<1>n. PICK new \in Nat : new = Len(conns) + 1
    <2>1. Len(conns) + 1 \in Nat
        BY DEF TypeInv, FieldTypes
    <2> QED
        BY <2>1
<1> DEFINE c == [ch |-> cur, link |-> link, got |-> <<>>, eof |-> FALSE]
<1>1. /\ conns \in Seq(Conn) /\ chans \in Seq(Chan) /\ cur \in DOMAIN chans
      /\ cur \in Nat /\ \A i \in DOMAIN conns : conns[i].ch \in Nat
    BY DEF TypeInv, FieldTypes, Conn
<1>2. /\ Len(conns) \in Nat /\ DOMAIN conns = 1 .. Len(conns) /\ DOMAIN conns' = 1 .. new
      /\ \A i \in DOMAIN conns : conns'[i] = conns[i]
      /\ conns'[new] = c /\ Len(conns') = new /\ data' = new
    BY <1>1, <1>n DEF NewConn
<1>3. c.ch = cur /\ c.link = link /\ c.got = <<>>
    OBVIOUS
<1> HIDE DEF c
<1>4. chans[cur].q \in Seq(Items)
    <2>1. chans[cur] \in Chan
        BY <1>1
    <2> QED
        BY <2>1, ChanFacts
<1>5. Got(new)' = chans[cur].q
    <2>1. Got(new)' = <<>> \o chans[cur].q
        BY <1>2, <1>3 DEF Got
    <2> QED
        BY <1>4, <2>1
<1>6. new # 0 /\ new \notin DOMAIN conns
      /\ \A i \in DOMAIN conns' : i \in DOMAIN conns \/ i = new
    BY <1>2, <1>n
<1>7. /\ Present' = chans[cur].q
      /\ \A i \in DOMAIN conns : Got(i)' = Got(i)
    BY <1>2, <1>5, <1>6 DEF Present, Got
<1>8. PendingInv' /\ GetInv'
    BY DEF PendingInv, GetInv
<1>9. ConnInv'
    <2>1. /\ \A i \in DOMAIN conns : conns[i].ch < cur
          /\ \A i, j \in DOMAIN conns : i < j => conns[i].ch < conns[j].ch
          /\ \A i \in DOMAIN conns : conns[i].link \in opened
        BY <1>2 DEF ClaimInv, ConnInv, Unclaimed
    <2>2. \A i \in DOMAIN conns' : i # data' => conns'[i].ch < cur'
        BY <1>2, <1>6, <2>1
    <2>3. \A i, j \in DOMAIN conns' : i < j => conns'[i].ch < conns'[j].ch
        <3> SUFFICES ASSUME NEW i \in DOMAIN conns', NEW j \in DOMAIN conns', i < j
                     PROVE  conns'[i].ch < conns'[j].ch
            OBVIOUS
        <3>1. i \in DOMAIN conns
            BY <1>2, <1>n
        <3> QED
            BY <1>2, <1>3, <1>6, <2>1, <3>1
    <2>4. \A i \in DOMAIN conns' : conns'[i].link \in opened'
        BY <1>2, <1>3, <1>6, <2>1 DEF Alive
    <2>5. data' = Len(conns') /\ conns'[data'].ch = cur' /\ conns'[data'].link = link'
        BY <1>2, <1>3
    <2>6. data' # 0
        BY <1>2, <1>6
    <2> QED
        BY <2>2, <2>3, <2>4, <2>5, <2>6 DEF ConnInv
<1>10. GotInv'
    <2>1. \A i \in DOMAIN conns : Of(Got(i), conns[i].link) /\ Gapless(Got(i), thrown)
        BY DEF ClaimInv, GotInv
    <2>2. \A i \in DOMAIN conns' : Of(Got(i), conns[i].link)' /\ Gapless(Got(i), thrown)'
        <3> SUFFICES ASSUME NEW i \in DOMAIN conns'
                     PROVE  Of(Got(i)', conns'[i].link) /\ Gapless(Got(i)', thrown')
            BY DEF Of, Gapless, Follows
        <3>1. CASE i \in DOMAIN conns
            BY <1>2, <1>7, <2>1, <3>1
        <3>2. CASE i = new
            BY <1>2, <1>3, <1>5, <3>2
        <3> QED
            BY <1>6, <3>1, <3>2
    <2>3. Of(Present', link') /\ Gapless(Present', thrown')
        BY <1>7
    <2> QED
        BY <2>2, <2>3 DEF GotInv, Of, Gapless, Follows
<1> QED
    BY <1>7, <1>8, <1>9, <1>10 DEF ClaimInv

\* What a reader takes from its channel it adds to what it has
LEMMA MovedHead ==
    ASSUME NEW S, NEW s \in Seq(S), NEW t \in Seq(S), t # <<>>
    PROVE  Append(s, Head(t)) \o Tail(t) = s \o t
<1>1. Len(t) \in Nat \ {0} /\ Head(t) = t[1] /\ Tail(t) \in Seq(S) /\ Len(Tail(t)) = Len(t) - 1
      /\ \A j \in 1 .. Len(t) - 1 : Tail(t)[j] = t[j + 1]
    OBVIOUS
<1>2. t[1] \in S
    BY <1>1
<1> DEFINE a == Append(s, t[1])
           b == Tail(t)
<1>3. a \in Seq(S) /\ Len(a) = Len(s) + 1 /\ a[Len(s) + 1] = t[1]
      /\ \A j \in 1 .. Len(s) : a[j] = s[j]
    BY <1>2
<1>4. b \in Seq(S) /\ Len(b) = Len(t) - 1 /\ \A j \in 1 .. Len(t) - 1 : b[j] = t[j + 1]
    BY <1>1
<1> HIDE DEF a, b
<1>5. /\ (a \o b) \in Seq(S) /\ Len(a \o b) = Len(s) + Len(t)
      /\ (s \o t) \in Seq(S) /\ Len(s \o t) = Len(s) + Len(t)
    <2>1. a \in Seq(S) /\ b \in Seq(S) /\ Len(a) = Len(s) + 1 /\ Len(b) = Len(t) - 1
        BY <1>3, <1>4
    <2>2. (a \o b) \in Seq(S) /\ Len(a \o b) = Len(a) + Len(b)
        BY <2>1
    <2>3. (s \o t) \in Seq(S) /\ Len(s \o t) = Len(s) + Len(t)
        OBVIOUS
    <2>4. Len(s) \in Nat /\ Len(t) \in Nat
        OBVIOUS
    <2> QED
        BY <2>1, <2>2, <2>3, <2>4
<1>6. ASSUME NEW j \in 1 .. Len(s) + Len(t) PROVE (a \o b)[j] = (s \o t)[j]
    <2>1. (a \o b)[j] = IF j <= Len(a) THEN a[j] ELSE b[j - Len(a)]
        BY <1>3, <1>4
    <2>2. (s \o t)[j] = IF j <= Len(s) THEN s[j] ELSE t[j - Len(s)]
        OBVIOUS
    <2>3. CASE j <= Len(s)
        BY <1>3, <2>1, <2>2, <2>3
    <2>4. CASE j = Len(s) + 1
        <3>1. j <= Len(a) /\ ~(j <= Len(s)) /\ j - Len(s) = 1
            BY <1>3, <2>4
        <3> QED
            BY <1>3, <2>1, <2>2, <2>4, <3>1
    <2>5. CASE j > Len(s) + 1
        <3>1. /\ ~(j <= Len(a)) /\ ~(j <= Len(s)) /\ j - Len(a) \in 1 .. Len(t) - 1
              /\ (j - Len(a)) + 1 = j - Len(s)
            BY <1>1, <1>3, <2>5
        <3> QED
            BY <1>4, <2>1, <2>2, <3>1
    <2>6. j <= Len(s) \/ j = Len(s) + 1 \/ j > Len(s) + 1
        <3>1. j \in Nat /\ Len(s) \in Nat
            OBVIOUS
        <3> QED
            BY <3>1
    <2> QED
        BY <2>3, <2>4, <2>5, <2>6
<1>7. a \o b = s \o t
    BY <1>5, <1>6
<1> QED
    BY <1>1, <1>7 DEF a, b

\* Reading changes nothing about what a connection is to have
LEMMA ReadClaims ==
    ASSUME TypeInv, TypeInv', ClaimInv, Read
    PROVE  ClaimInv' /\ Present' = Present
<1> USE DEF tncVars, userVars, radioVars, past
<1>0. /\ u = "open" /\ UNCHANGED <<connected, data, cur, recv, u, open, link, opened, mode, state, radio, stream, thrown>>
    BY DEF Read
<1>1. /\ conns \in Seq(Conn) /\ chans \in Seq(Chan) /\ cur \in DOMAIN chans
      /\ DOMAIN conns = 1 .. Len(conns) /\ Len(conns) \in Nat
      /\ data \in 0 .. Len(conns) /\ open \in DOMAIN conns
      /\ \A i \in DOMAIN conns : conns[i] \in Conn /\ conns[i].ch \in DOMAIN chans
    BY <1>0 DEF TypeInv, FieldTypes, UserTypes
<1> DEFINE c == conns[open].ch
<1>2. /\ DOMAIN conns' = DOMAIN conns /\ Len(conns') = Len(conns)
      /\ \A i \in DOMAIN conns : /\ conns'[i].ch = conns[i].ch /\ conns'[i].link = conns[i].link
                                 /\ i # open => conns'[i] = conns[i]
      /\ DOMAIN chans' = DOMAIN chans
      /\ \A i \in DOMAIN chans : i # c => chans'[i] = chans[i]
      /\ Got(open)' = Got(open)
    <2>1. CASE chans[c].q # <<>> /\ chans' = [chans EXCEPT ![c].q = Tail(@)]
               /\ conns' = [conns EXCEPT ![open].got = Append(@, Head(chans[c].q))]
        <3>1. conns[open].got \in Seq(Items) /\ chans[c] \in Chan /\ chans[c].q \in Seq(Items)
            <4>1. conns[open] \in Conn /\ chans[c] \in Chan
                BY <1>1
            <4> QED
                BY <4>1, ConnFacts, ChanFacts
        <3>2. conns'[open].got = Append(conns[open].got, Head(chans[c].q))
              /\ conns'[open].ch = conns[open].ch /\ conns'[open].link = conns[open].link
            BY <1>1, <2>1 DEF Conn
        <3>3. chans'[c].q = Tail(chans[c].q)
            BY <1>1, <2>1, <3>1 DEF Chan
        <3>4. Got(open)' = Append(conns[open].got, Head(chans[c].q)) \o Tail(chans[c].q)
            BY <1>0, <3>2, <3>3 DEF Got
        <3>5. Got(open)' = Got(open)
            BY <2>1, <3>1, <3>4, MovedHead DEF Got
        <3> QED
            BY <1>1, <2>1, <3>2, <3>5
    <2>2. CASE chans' = chans /\ conns' = [conns EXCEPT ![open].eof = TRUE]
        <3>1. conns'[open].got = conns[open].got
              /\ conns'[open].ch = conns[open].ch /\ conns'[open].link = conns[open].link
            BY <1>1, <2>2 DEF Conn
        <3>2. Got(open)' = Got(open)
            BY <1>0, <2>2, <3>1 DEF Got
        <3> QED
            BY <1>1, <2>2, <3>1, <3>2
    <2> QED
        BY <2>1, <2>2 DEF Read
<1>3. ASSUME NEW i \in DOMAIN conns PROVE Got(i)' = Got(i)
    <2>1. CASE i = open
        <3>1. Got(i)' = Got(open)'
            BY <1>0, <2>1 DEF Got
        <3> QED
            BY <1>2, <2>1, <3>1
    <2>2. CASE i # open
        <3>1. conns[i].ch # c
            <4>1. i < open \/ open < i
                BY <1>1, <2>2
            <4>2. conns[i].ch < c \/ c < conns[i].ch
                BY <1>1, <4>1 DEF ClaimInv, ConnInv
            <4>3. conns[i].ch \in Nat /\ c \in Nat
                BY <1>1 DEF Conn
            <4> QED
                BY <4>2, <4>3
        <3> QED
            BY <1>1, <1>2, <2>2, <3>1 DEF Got
    <2> QED
        BY <2>1, <2>2
<1>4. Present' = Present
    <2>1. CASE data # 0
        BY <1>0, <1>1, <1>3, <2>1 DEF Present
    <2>2. CASE data = 0
        <3>1. c < cur /\ c \in Nat /\ cur \in Nat
            BY <1>1, <2>2 DEF ClaimInv, ConnInv
        <3> QED
            BY <1>0, <1>1, <1>2, <2>2, <3>1 DEF Present
    <2> QED
        BY <2>1, <2>2
<1>5. Alive' <=> Alive
    BY <1>0 DEF Alive
<1>6. Unclaimed' <=> Unclaimed
    BY <1>0, <1>1, <1>2 DEF Unclaimed
<1>7. PendingInv' /\ GetInv'
    BY <1>0, <1>5, <1>6 DEF ClaimInv, PendingInv, GetInv
<1>8. ConnInv'
    <2>1. ConnInv
        BY DEF ClaimInv
    <2>2. data # 0 => data \in DOMAIN conns
        BY <1>1
    <2> QED
        BY <1>0, <1>2, <1>5, <2>1, <2>2 DEF ConnInv
<1>9. GotInv'
    <2>1. GotInv
        BY DEF ClaimInv
    <2>2. \A i \in DOMAIN conns' : Of(Got(i)', conns'[i].link) /\ Gapless(Got(i)', thrown')
        BY <1>0, <1>2, <1>3, <2>1 DEF GotInv
    <2>3. connected' => Of(Present', link') /\ Gapless(Present', thrown')
        BY <1>0, <1>4, <2>1 DEF GotInv
    <2>4. ~connected' => chans'[cur'].q = <<>>
        <3> SUFFICES ASSUME ~connected PROVE chans'[cur].q = <<>>
            BY <1>0
        <3>1. data = 0 /\ chans[cur].q = <<>>
            BY <2>1 DEF ClaimInv, ConnInv, GotInv
        <3> QED
            BY <1>0, <1>4, <3>1 DEF Present
    <2> QED
        BY <2>2, <2>3, <2>4 DEF GotInv, Of, Gapless, Follows
<1> QED
    BY <1>4, <1>7, <1>8, <1>9 DEF ClaimInv

LEMMA AppendOne ==
    ASSUME NEW S, NEW s \in Seq(S), NEW x \in S
    PROVE  Append(s, x) \in Seq(S) /\ Len(Append(s, x)) = Len(s) + 1
OBVIOUS

LEMMA AppendConcat ==
    ASSUME NEW S, NEW s \in Seq(S), NEW t \in Seq(S), NEW x \in S
    PROVE  s \o Append(t, x) = Append(s \o t, x)
<1> DEFINE a == Append(t, x)
           b == s \o t
<1>1. /\ a \in Seq(S) /\ Len(a) = Len(t) + 1 /\ a[Len(t) + 1] = x
      /\ \A j \in 1 .. Len(t) : a[j] = t[j]
    OBVIOUS
<1>2. /\ b \in Seq(S) /\ Len(b) = Len(s) + Len(t)
      /\ \A j \in 1 .. Len(s) : b[j] = s[j]
      /\ \A j \in Len(s) + 1 .. Len(s) + Len(t) : b[j] = t[j - Len(s)]
    OBVIOUS
<1> HIDE DEF a, b
<1>3. /\ (s \o a) \in Seq(S) /\ Len(s \o a) = Len(s) + Len(t) + 1
      /\ Append(b, x) \in Seq(S) /\ Len(Append(b, x)) = Len(s) + Len(t) + 1
    <2>1. a \in Seq(S) /\ b \in Seq(S) /\ Len(a) = Len(t) + 1 /\ Len(b) = Len(s) + Len(t)
        BY <1>1, <1>2
    <2>2. (s \o a) \in Seq(S) /\ Len(s \o a) = Len(s) + Len(a)
        BY <2>1
    <2>3. Append(b, x) \in Seq(S) /\ Len(Append(b, x)) = Len(b) + 1
        BY <2>1, AppendOne
    <2>4. Len(s) \in Nat /\ Len(t) \in Nat
        OBVIOUS
    <2> QED
        BY <2>1, <2>2, <2>3, <2>4
<1>4. ASSUME NEW j \in 1 .. Len(s) + Len(t) + 1 PROVE (s \o a)[j] = Append(b, x)[j]
    <2>1. (s \o a)[j] = IF j <= Len(s) THEN s[j] ELSE a[j - Len(s)]
        BY <1>1
    <2>2. Append(b, x)[j] = IF j <= Len(s) + Len(t) THEN b[j] ELSE x
        BY <1>2
    <2>3. CASE j <= Len(s)
        BY <1>2, <2>1, <2>2, <2>3
    <2>4. CASE j > Len(s) /\ j <= Len(s) + Len(t)
        <3>1. j - Len(s) \in 1 .. Len(t) /\ j \in Len(s) + 1 .. Len(s) + Len(t)
            BY <2>4
        <3> QED
            BY <1>1, <1>2, <2>1, <2>2, <2>4, <3>1
    <2>5. CASE j = Len(s) + Len(t) + 1
        <3>1. j - Len(s) = Len(t) + 1
            BY <2>5
        <3> QED
            BY <1>1, <2>1, <2>2, <2>5, <3>1
    <2>6. j <= Len(s) \/ (j > Len(s) /\ j <= Len(s) + Len(t)) \/ j = Len(s) + Len(t) + 1
        <3>1. j \in Nat /\ Len(s) \in Nat /\ Len(t) \in Nat /\ j <= Len(s) + Len(t) + 1
            OBVIOUS
        <3> QED
            BY <3>1
    <2> QED
        BY <2>3, <2>4, <2>5, <2>6
<1>5. s \o a = Append(b, x)
    BY <1>3, <1>4
<1> QED
    BY <1>5 DEF a, b

\* The next frame of a link goes on where the last one ended
LEMMA Grown ==
    ASSUME NEW s \in Seq(Items), NEW k \in Nat, NEW n \in Nat, NEW T,
           Of(s, k), Gapless(s, T), Upto(s, k, n, T)
    PROVE  LET t == Append(s, <<k, n + 1>>)
           IN  Of(t, k) /\ Gapless(t, T) /\ Upto(t, k, n + 1, T)
<1> DEFINE x == <<k, n + 1>>
           t == Append(s, x)
<1>1. x \in Items /\ x[1] = k /\ x[2] = n + 1
    BY DEF Items
<1> HIDE DEF x
<1>2. /\ t \in Seq(Items) /\ Len(t) = Len(s) + 1 /\ Len(s) \in Nat /\ t[Len(s) + 1] = x
      /\ \A j \in 1 .. Len(s) : t[j] = s[j]
      /\ DOMAIN t = 1 .. Len(s) + 1 /\ DOMAIN s = 1 .. Len(s)
    BY <1>1
<1> HIDE DEF t
<1>3. \A j \in DOMAIN t : j \in DOMAIN s \/ j = Len(s) + 1
    BY <1>2
<1>4. Of(t, k)
    BY <1>1, <1>2, <1>3 DEF Of
<1>5. Gapless(t, T)
    <2> SUFFICES ASSUME NEW j \in DOMAIN t, j + 1 \in DOMAIN t PROVE Follows(t[j], t[j + 1], T)
        BY DEF Gapless
    <2>1. j \in DOMAIN s
        BY <1>2
    <2>2. CASE j + 1 \in DOMAIN s
        BY <1>2, <2>1, <2>2 DEF Gapless
    <2>3. CASE j + 1 = Len(s) + 1
        <3>1. j = Len(s) /\ s # <<>> /\ t[j] = s[Len(s)] /\ t[j + 1] = x
            BY <1>2, <2>1, <2>3
        <3>2. s[Len(s)] \in Items
            BY <2>1, <3>1
        <3>3. s[Len(s)][2] \in Nat
            BY <3>2 DEF Items
        <3>4. s[Len(s)][2] <= n /\ \A m \in s[Len(s)][2] + 1 .. n : <<k, m>> \in T
            BY <3>1 DEF Upto
        <3>5. s[Len(s)][2] < x[2] /\ x[2] - 1 = n
            BY <1>1, <3>3, <3>4
        <3> QED
            BY <1>1, <3>1, <3>4, <3>5 DEF Follows
    <2> QED
        BY <1>3, <2>2, <2>3
<1>6. t[Len(t)][2] = n + 1
    BY <1>1, <1>2
<1>7. Upto(t, k, n + 1, T)
    BY <1>6 DEF Upto
<1> QED
    BY <1>4, <1>5, <1>7 DEF t, x

\* The next frame is thrown away
LEMMA Skipped ==
    ASSUME NEW s \in Seq(Items), NEW k \in Nat, NEW n \in Nat, NEW T, Upto(s, k, n, T)
    PROVE  Upto(s, k, n + 1, T \cup {<<k, n + 1>>})
<1> SUFFICES ASSUME s # <<>>
             PROVE  /\ s[Len(s)][2] <= n + 1
                    /\ \A m \in s[Len(s)][2] + 1 .. n + 1 : <<k, m>> \in T \cup {<<k, n + 1>>}
    BY DEF Upto
<1>1. s[Len(s)] \in Items
    OBVIOUS
<1>2. s[Len(s)][2] \in Nat
    BY <1>1 DEF Items
<1>3. s[Len(s)][2] <= n /\ \A m \in s[Len(s)][2] + 1 .. n : <<k, m>> \in T
    BY DEF Upto
<1>4. \A m \in s[Len(s)][2] + 1 .. n + 1 : m \in s[Len(s)][2] + 1 .. n \/ m = n + 1
    BY <1>2
<1>5. s[Len(s)][2] <= n + 1
    BY <1>2, <1>3
<1> QED
    BY <1>3, <1>4, <1>5

\* A frame that ends nothing leaves the link as it is
LEMMA StillAlive ==
    ASSUME TypeInv, NEW i \in DOMAIN stream, stream' = RemoveAt(stream, i), ~Ending(stream[i]),
           Alive, opened \subseteq opened', UNCHANGED <<mode, radio, link>>,
           state' = state \/ state' # "DISC"
    PROVE  Alive'
<1>1. stream \in Seq(Frames)
    BY DEF TypeInv, RadioTypes
<1>2. /\ \A j \in DOMAIN stream' : stream'[j] = stream[Old(i, j)]
      /\ \A m \in DOMAIN stream : m # i => \E j \in DOMAIN stream' : Old(i, j) = m
    BY <1>1, Removed
<1>3. (\E m \in DOMAIN stream : Ending(stream[m])) => \E j \in DOMAIN stream' : Ending(stream'[j])
    <2> SUFFICES ASSUME NEW m \in DOMAIN stream, Ending(stream[m])
                 PROVE  \E j \in DOMAIN stream' : Ending(stream'[j])
        OBVIOUS
    <2>1. m # i
        OBVIOUS
    <2>2. PICK j \in DOMAIN stream' : Old(i, j) = m
        BY <1>2, <2>1
    <2> QED
        BY <1>2, <2>2
<1> QED
    BY <1>3 DEF Alive

\* Data for the present connection, which has room for it
LEMMA DataClaims ==
    ASSUME TypeInv, TypeInv', StreamInv, Ordered, ClaimInv, FlowInv, connected,
           Len(chans[cur].q) < DataCap,
           NEW i \in DOMAIN stream, stream[i].k = "data",
           \A j \in 1 .. i - 1 : IsTCP /\ (stream[j].k = "data") # (stream[i].k = "data"),
           Handle(stream[i]), stream' = RemoveAt(stream, i),
           UNCHANGED <<mode, conns, userVars, radio, link, sent, budget>>
    PROVE  ClaimInv' /\ FlowInv'
<1> USE DEF userVars
<1> DEFINE f == stream[i]
<1>0. /\ stream \in Seq(Frames) /\ f \in Frames /\ f.n \in Nat /\ link \in Nat /\ sent \in Nat
      /\ conns \in Seq(Conn) /\ chans \in Seq(Chan) /\ cur \in DOMAIN chans
      /\ DOMAIN conns = 1 .. Len(conns) /\ Len(conns) \in Nat
      /\ data \in 0 .. Len(conns) /\ DOMAIN chans \subseteq Nat
      /\ \A m \in DOMAIN conns : conns[m] \in Conn /\ conns[m].ch \in DOMAIN chans
    BY TNCAssumption, FrameFacts DEF TypeInv, RadioTypes, FieldTypes
<1>1. /\ chans' = [chans EXCEPT ![cur].q = Append(@, <<f.link, f.n>>)]
      /\ UNCHANGED <<state, connected, data, cur, recv, opened, thrown>>
    <2>1. PassData(f) /\ UNCHANGED <<state, connected, data, cur, recv, opened>>
        BY DEF Handle
    <2>2. ~(Len(chans[cur].q) = DataCap)
        <3>1. chans[cur] \in Chan
            BY <1>0
        <3>2. Len(chans[cur].q) \in Nat /\ DataCap \in Nat
            BY <3>1, TNCAssumption, ChanFacts
        <3> QED
            BY <3>2
    <2> QED
        BY <2>1, <2>2 DEF PassData
<1>2. Alive /\ Needed
    BY NeededAlive
<1>3. f.link = link /\ i \in Coming
    BY <1>2 DEF StreamInv, OneLinkInv, Alive, Coming
<1>4. Alive'
    BY <1>1, <1>2, StillAlive DEF Ending
<1>5. PICK n \in 0 .. sent : After(n) /\ Upto(Present, link, n, thrown)
    BY DEF FlowInv
<1>6. f.n = n + 1 /\ n + 1 \in 0 .. sent' /\ After(n + 1)' /\ n \in Nat
    <2>1. \A k \in 0 .. sent : After(k) =>
            stream[i].n = k + 1 /\ k + 1 \in 0 .. sent /\ After(k + 1)'
        BY <1>3, FlowControl
    <2>2. f.n = n + 1 /\ n + 1 \in 0 .. sent /\ After(n + 1)'
        BY <1>5, <2>1
    <2> QED
        BY <1>0, <2>2
<1> DEFINE x == <<link, n + 1>>
<1>7. /\ DOMAIN chans' = DOMAIN chans /\ chans'[cur].q = Append(chans[cur].q, x)
      /\ \A c \in DOMAIN chans : c # cur => chans'[c] = chans[c]
    <2>1. chans[cur] \in Chan
        BY <1>0
    <2> QED
        BY <1>0, <1>1, <1>3, <1>6, <2>1 DEF Chan
<1>8. x \in Items /\ chans[cur].q \in Seq(Items)
    <2>1. chans[cur] \in Chan
        BY <1>0
    <2> QED
        BY <1>0, <1>6, <2>1, ChanFacts DEF Items
<1>9. \A m \in DOMAIN conns : m # data => Got(m)' = Got(m)
    <2> SUFFICES ASSUME NEW m \in DOMAIN conns, m # data PROVE Got(m)' = Got(m)
        OBVIOUS
    <2>1. conns[m].ch < cur /\ conns[m].ch \in Nat /\ cur \in Nat
        BY <1>0 DEF ClaimInv, ConnInv
    <2>2. conns[m].ch \in DOMAIN chans /\ conns[m].ch # cur
        BY <1>0, <2>1
    <2>3. chans'[conns[m].ch] = chans[conns[m].ch]
        BY <1>7, <2>2
    <2> QED
        BY <2>3 DEF Got
<1>10. Present' = Append(Present, x) /\ Present \in Seq(Items)
    <2>1. CASE data = 0
        BY <1>1, <1>7, <1>8, <2>1 DEF Present
    <2>2. CASE data # 0
        <3>1. data \in DOMAIN conns /\ conns[data].ch = cur /\ conns[data].got \in Seq(Items)
            BY <1>0, <2>2, ConnFacts DEF ClaimInv, ConnInv
        <3>2. Got(data)' = conns[data].got \o Append(chans[cur].q, x)
            BY <1>1, <1>7, <3>1 DEF Got
        <3>3. Got(data) = conns[data].got \o chans[cur].q /\ Got(data) \in Seq(Items)
            BY <1>8, <3>1 DEF Got
        <3>4. Got(data)' = Append(Got(data), x)
            <4>1. conns[data].got \o Append(chans[cur].q, x) = Append(conns[data].got \o chans[cur].q, x)
                <5>1. /\ conns[data].got \in Seq(Items) /\ chans[cur].q \in Seq(Items)
                      /\ x \in Items
                    BY <1>8, <3>1
                <5>2. \A s, t \in Seq(Items) : \A y \in Items : s \o Append(t, y) = Append(s \o t, y)
                    BY AppendConcat
                <5> HIDE DEF x
                <5> QED
                    BY <5>1, <5>2, Zenon
            <4> QED
                BY <3>2, <3>3, <4>1
        <3>5. Present' = Got(data)'
            BY <1>1, <2>2 DEF Present
        <3>6. Present = Got(data)
            BY <2>2 DEF Present
        <3> QED
            BY <3>3, <3>4, <3>5, <3>6
    <2> QED
        BY <2>1, <2>2
<1>11. Of(Present, link) /\ Gapless(Present, thrown)
    BY DEF ClaimInv, GotInv
<1>12. /\ Of(Present', link) /\ Gapless(Present', thrown')
       /\ Upto(Present', link, n + 1, thrown')
    BY <1>0, <1>1, <1>5, <1>6, <1>10, <1>11, Grown
<1>13. FlowInv'
    BY <1>6, <1>12 DEF FlowInv, Upto
<1>14. Unclaimed' <=> Unclaimed
    BY <1>1 DEF Unclaimed
<1>15. PendingInv' /\ GetInv' /\ ConnInv'
    BY <1>1, <1>4, <1>14 DEF ClaimInv, PendingInv, GetInv, ConnInv
<1>16. GotInv'
    <2>1. \A m \in DOMAIN conns : Of(Got(m), conns[m].link) /\ Gapless(Got(m), thrown)
        BY DEF ClaimInv, GotInv
    <2>2. data # 0 => Got(data)' = Present' /\ conns[data].link = link
        BY <1>1 DEF Present, ClaimInv, ConnInv
    <2>3. ASSUME NEW m \in DOMAIN conns' PROVE Of(Got(m)', conns'[m].link) /\ Gapless(Got(m)', thrown')
        <3>1. CASE m # data
            BY <1>1, <1>9, <2>1, <3>1
        <3>2. CASE m = data
            <4>1. data # 0
                BY <1>0, <3>2
            <4>2. Got(m)' = Present'
                <5>1. Got(m)' = Got(data)'
                    BY <1>1, <3>2 DEF Got
                <5> QED
                    BY <2>2, <4>1, <5>1
            <4> QED
                BY <1>12, <2>2, <3>2, <4>1, <4>2
        <3> QED
            BY <3>1, <3>2
    <2> QED
        BY <1>1, <1>12, <2>3 DEF GotInv, Of, Gapless, Follows
<1> QED
    BY <1>13, <1>15, <1>16 DEF ClaimInv

\* Data for the present connection, whose channel is full
LEMMA ThrownClaims ==
    ASSUME TypeInv, TypeInv', StreamInv, Ordered, ClaimInv, FlowInv, connected,
           ~(Len(chans[cur].q) < DataCap),
           NEW i \in DOMAIN stream, stream[i].k = "data",
           \A j \in 1 .. i - 1 : IsTCP /\ (stream[j].k = "data") # (stream[i].k = "data"),
           Handle(stream[i]), stream' = RemoveAt(stream, i),
           UNCHANGED <<mode, conns, userVars, radio, link, sent, budget>>
    PROVE  ClaimInv' /\ FlowInv'
<1> USE DEF userVars
<1> DEFINE f == stream[i]
<1>0. /\ stream \in Seq(Frames) /\ f \in Frames /\ f.n \in Nat /\ link \in Nat /\ sent \in Nat
      /\ conns \in Seq(Conn) /\ chans \in Seq(Chan) /\ cur \in DOMAIN chans
      /\ data \in 0 .. Len(conns) /\ DOMAIN conns = 1 .. Len(conns) /\ Len(conns) \in Nat
      /\ \A m \in DOMAIN conns : conns[m] \in Conn /\ conns[m].ch \in DOMAIN chans
    BY TNCAssumption, FrameFacts DEF TypeInv, RadioTypes, FieldTypes
<1>1. /\ thrown' = thrown \cup {<<f.link, f.n>>}
      /\ UNCHANGED <<chans, state, connected, data, cur, recv, opened>>
    BY DEF Handle, PassData
<1>2. Alive /\ Needed
    BY NeededAlive
<1>3. f.link = link /\ i \in Coming
    BY <1>2 DEF StreamInv, OneLinkInv, Alive, Coming
<1>4. Alive'
    BY <1>1, <1>2, StillAlive DEF Ending
<1>5. PICK n \in 0 .. sent : After(n) /\ Upto(Present, link, n, thrown)
    BY DEF FlowInv
<1>6. f.n = n + 1 /\ n + 1 \in 0 .. sent' /\ After(n + 1)' /\ n \in Nat
    <2>1. \A k \in 0 .. sent : After(k) =>
            stream[i].n = k + 1 /\ k + 1 \in 0 .. sent /\ After(k + 1)'
        BY <1>3, FlowControl
    <2>2. f.n = n + 1 /\ n + 1 \in 0 .. sent /\ After(n + 1)'
        BY <1>5, <2>1
    <2> QED
        BY <1>0, <2>2
<1>7. (\A m : Got(m)' = Got(m)) /\ Present' = Present
    <2>1. \A m : Got(m)' = Got(m)
        BY <1>1 DEF Got
    <2> QED
        BY <1>1, <2>1 DEF Present
<1>8. Present \in Seq(Items)
    <2>1. \A c \in DOMAIN chans : chans[c].q \in Seq(Items)
        <3>1. \A c \in DOMAIN chans : chans[c] \in Chan
            BY <1>0
        <3> QED
            BY <3>1, ChanFacts
    <2>2. CASE data = 0
        BY <1>0, <2>1, <2>2 DEF Present
    <2>3. CASE data # 0
        <3>1. data \in DOMAIN conns
            BY <1>0, <2>3
        <3>2. conns[data].got \in Seq(Items) /\ chans[conns[data].ch].q \in Seq(Items)
            BY <1>0, <2>1, <3>1, ConnFacts
        <3> QED
            BY <2>3, <3>2 DEF Present, Got
    <2> QED
        BY <2>2, <2>3
<1>9. thrown' = thrown \cup {<<link, n + 1>>}
    BY <1>1, <1>3, <1>6
<1>10. Upto(Present', link, n + 1, thrown')
    BY <1>0, <1>5, <1>6, <1>7, <1>8, <1>9, Skipped
<1>11. FlowInv'
    BY <1>6, <1>10 DEF FlowInv, Upto
<1>12. Unclaimed' <=> Unclaimed
    BY <1>1 DEF Unclaimed
<1>13. PendingInv' /\ GetInv' /\ ConnInv'
    BY <1>1, <1>4, <1>12 DEF ClaimInv, PendingInv, GetInv, ConnInv
<1>14. GotInv'
    <2>1. \A t : Gapless(t, thrown) => Gapless(t, thrown')
        BY <1>1 DEF Gapless, Follows
    <2>2. GotInv
        BY DEF ClaimInv
    <2>3. \A m \in DOMAIN conns' : Of(Got(m)', conns'[m].link) /\ Gapless(Got(m)', thrown')
        BY <1>7, <2>1, <2>2 DEF GotInv
    <2>4. Of(Present', link') /\ Gapless(Present', thrown')
        BY <1>7, <2>1, <2>2 DEF GotInv
    <2> QED
        BY <1>1, <2>3, <2>4 DEF GotInv, Of, Gapless, Follows
<1> QED
    BY <1>11, <1>13, <1>14 DEF ClaimInv

\* What a receiver has after a message is broadcast
LEMMA BroadcastFacts ==
    ASSUME recv \in [Receiver -> Queue], NEW f \in Frames, Broadcast(f), NEW r \in Receiver
    PROVE  /\ recv[r].q \in Seq(Frames)
           /\ recv'[r].q = recv[r].q \/ recv'[r].q = Append(recv[r].q, f)
           /\ f.k # "CONNECTED" => NoNews(r)
<1>1. recv[r].q \in Seq(Frames)
    BY DEF Queue
<1>2. recv'[r].q = recv[r].q \/ recv'[r].q = Append(recv[r].q, f)
    <2>1. recv'[r] = IF recv[r].on THEN [recv[r] EXCEPT !.q = Append(@, f)] ELSE recv[r]
        BY DEF Broadcast
    <2>2. recv[r] \in Queue
        OBVIOUS
    <2>3. [recv[r] EXCEPT !.q = Append(@, f)].q = Append(recv[r].q, f)
        BY <2>2 DEF Queue
    <2> QED
        BY <2>1, <2>3
<1>3. ASSUME f.k # "CONNECTED" PROVE NoNews(r)
    <2>1. ASSUME NEW i \in DOMAIN recv'[r].q, recv'[r].q[i].k = "CONNECTED"
          PROVE  i + 0 \in DOMAIN recv[r].q /\ recv[r].q[i + 0] = recv'[r].q[i]
        <3>1. CASE recv'[r].q = recv[r].q
            <4>1. i + 0 = i
                BY <1>1, <3>1
            <4> QED
                BY <3>1, <4>1
        <3>2. CASE recv'[r].q = Append(recv[r].q, f)
            BY <1>1, <1>3, <2>1, <3>2
        <3> QED
            BY <1>2, <3>1, <3>2
    <2>2. 0 \in Int
        OBVIOUS
    <2> QED
        BY <2>1, <2>2 DEF NoNews
<1> QED
    BY <1>1, <1>2, <1>3

\* The control loop passes CONNECTED on
LEMMA ConnectedClaims ==
    ASSUME TypeInv, TypeInv', StreamInv, ClaimInv,
           NEW i \in DOMAIN stream, stream[i].k = "CONNECTED",
           Handle(stream[i]), stream' = RemoveAt(stream, i),
           UNCHANGED <<mode, conns, userVars, radio, link, sent, budget>>
    PROVE  ClaimInv' /\ ~connected'
<1> USE DEF userVars
<1> DEFINE f == stream[i]
<1>0. stream \in Seq(Frames) /\ f \in Frames /\ recv \in [Receiver -> Queue]
    BY DEF TypeInv, RadioTypes
<1>1. /\ UNCHANGED <<state, chans, cur, connected, data, thrown>> /\ opened' = opened \cup {f.link}
      /\ Broadcast(f)
    BY DEF Handle
<1>2. /\ f.link = link /\ link \notin opened /\ radio # "calling"
      /\ mode = "dial" => state # "DISC"
    BY DEF StreamInv, ConnectedInv
<1>3. ~Needed /\ ~connected /\ data = 0 /\ u # "get"
    <2>1. ~Alive
        BY <1>2 DEF Alive
    <2> QED
        BY <2>1, NeededAlive DEF Needed
<1>4. Alive'
    <2>1. /\ \A j \in DOMAIN stream' : stream'[j] = stream[Old(i, j)]
          /\ \A m \in DOMAIN stream : m # i => \E j \in DOMAIN stream' : Old(i, j) = m
        BY <1>0, Removed
    <2>2. radio = "down" => \E m \in DOMAIN stream : Ending(stream[m])
        BY DEF StreamInv, DownInv, HasConnected
    <2>3. radio = "down" => \E j \in DOMAIN stream' : Ending(stream'[j])
        <3> SUFFICES ASSUME NEW m \in DOMAIN stream, Ending(stream[m])
                     PROVE  \E j \in DOMAIN stream' : Ending(stream'[j])
            BY <2>2
        <3>1. m # i
            BY DEF Ending
        <3>2. PICK j \in DOMAIN stream' : Old(i, j) = m
            BY <2>1, <3>1
        <3> QED
            BY <2>1, <3>2
    <2>4. radio \in {"down", "calling", "up"}
        BY DEF TypeInv, RadioTypes
    <2> QED
        BY <1>1, <1>2, <2>3, <2>4 DEF Alive
<1>5. Unclaimed'
    BY <1>1, <1>2, <1>3 DEF Unclaimed, ClaimInv, ConnInv
<1>6. PendingInv'
    <2> SUFFICES ASSUME NEW r \in {"dial", "listen"}, NEW m \in DOMAIN recv'[r].q,
                        recv'[r].q[m].k = "CONNECTED"
                 PROVE  /\ recv'[r].q[m].link = link' /\ Alive' /\ Unclaimed' /\ ~connected'
                        /\ \A j \in DOMAIN recv'[r].q : recv'[r].q[j].k = "CONNECTED" => j = m
        BY DEF PendingInv
    <2>1. /\ recv[r].q \in Seq(Frames)
          /\ recv'[r].q = recv[r].q \/ recv'[r].q = Append(recv[r].q, f)
        BY <1>0, <1>1, BroadcastFacts DEF Receiver
    <2>2. \A j \in DOMAIN recv[r].q : recv[r].q[j].k # "CONNECTED"
        BY <1>3 DEF Needed
    <2> HIDE DEF f
    <2>3. recv'[r].q = Append(recv[r].q, f)
        BY <2>1, <2>2
    <2>4. \A j \in DOMAIN recv'[r].q : recv'[r].q[j].k = "CONNECTED" =>
             j = Len(recv[r].q) + 1 /\ recv'[r].q[j] = f
        <3>1. \A j \in DOMAIN recv'[r].q :
                 \/ j \in DOMAIN recv[r].q /\ recv'[r].q[j] = recv[r].q[j]
                 \/ j = Len(recv[r].q) + 1 /\ recv'[r].q[j] = f
            BY <1>0, <2>1, <2>3
        <3> QED
            BY <2>2, <3>1
    <2> QED
        BY <1>1, <1>2, <1>3, <1>4, <1>5, <2>4
<1>7. GetInv' /\ ConnInv'
    BY <1>1, <1>3 DEF ClaimInv, GetInv, ConnInv
<1>8. GotInv'
    <2>1. \A m : Got(m)' = Got(m)
        BY <1>1 DEF Got
    <2> QED
        BY <1>1, <1>3, <2>1 DEF ClaimInv, GotInv, Of, Gapless, Follows
<1> QED
    BY <1>1, <1>3, <1>6, <1>7, <1>8 DEF ClaimInv

\* eof ends the present connection
LEMMA EofClaims ==
    ASSUME TypeInv, ClaimInv, NEW f, Eof(f), data # 0, UNCHANGED <<conns, u, opened, thrown>>,
           NoNews("dial"), NoNews("listen")
    PROVE  ClaimInv' /\ ~connected'
<1> DEFINE closed == [chans EXCEPT ![cur].closed = TRUE]
           none   == [q |-> <<>>, closed |-> FALSE]
<1>1. /\ chans' = Append(closed, none) /\ cur' = Len(chans) + 1
      /\ connected' = FALSE /\ data' = 0
    BY DEF Eof
<1>2. /\ chans \in Seq(Chan) /\ cur \in DOMAIN chans /\ chans[cur] \in Chan
      /\ \A m \in DOMAIN conns : conns[m].ch \in DOMAIN chans
      /\ \A m \in DOMAIN conns : conns[m].ch \in Nat
    BY DEF TypeInv, FieldTypes, Conn
<1>3. none \in Chan /\ none.q = <<>>
    BY <1>2, ChanFacts
<1>4. /\ closed \in Seq(Chan) /\ Len(closed) = Len(chans)
      /\ \A c \in DOMAIN chans : closed[c].q = chans[c].q
    <2> DEFINE c1 == [chans[cur] EXCEPT !.closed = TRUE]
    <2>1. c1 \in Chan /\ c1.q = chans[cur].q
        BY <1>2, ChanFacts
    <2>2. closed = [chans EXCEPT ![cur] = c1]
        OBVIOUS
    <2> HIDE DEF c1, closed
    <2> QED
        BY <1>2, <2>1, <2>2
<1> HIDE DEF closed, none
<1>5. /\ \A c \in DOMAIN chans : chans'[c].q = chans[c].q
      /\ chans'[cur'].q = <<>> /\ Len(chans) \in Nat /\ DOMAIN chans = 1 .. Len(chans)
    BY <1>1, <1>2, <1>3, <1>4
<1>6. \A m \in DOMAIN conns : Got(m)' = Got(m)
    BY <1>2, <1>5 DEF Got
<1>7. u # "get" /\ \A r \in {"dial", "listen"} : \A m \in DOMAIN recv[r].q : recv[r].q[m].k # "CONNECTED"
    BY DEF ClaimInv, PendingInv, GetInv, Unclaimed
<1>8. PendingInv' /\ GetInv'
    BY <1>7 DEF PendingInv, GetInv, NoNews
<1>9. ConnInv'
    <2>1. \A m \in DOMAIN conns : conns[m].ch < Len(chans) + 1
        BY <1>2, <1>5
    <2>2. /\ \A m, j \in DOMAIN conns : m < j => conns[m].ch < conns[j].ch
          /\ \A m \in DOMAIN conns : conns[m].link \in opened
        BY DEF ClaimInv, ConnInv
    <2> QED
        BY <1>1, <2>1, <2>2 DEF ConnInv
<1>10. GotInv'
    <2>1. \A m \in DOMAIN conns : Of(Got(m), conns[m].link) /\ Gapless(Got(m), thrown)
        BY DEF ClaimInv, GotInv
    <2>2. \A m \in DOMAIN conns' : Of(Got(m)', conns'[m].link) /\ Gapless(Got(m)', thrown')
        BY <1>6, <2>1
    <2> QED
        BY <1>1, <1>5, <2>2 DEF GotInv, Of, Gapless, Follows
<1> QED
    BY <1>1, <1>8, <1>9, <1>10 DEF ClaimInv

\* The control loop ends the link
LEMMA EndingClaims ==
    ASSUME TypeInv, TypeInv', StreamInv, ClaimInv, orphans' = {},
           NEW i \in DOMAIN stream, Ending(stream[i]),
           Handle(stream[i]), stream' = RemoveAt(stream, i),
           UNCHANGED <<mode, conns, userVars, radio, link, sent, budget>>
    PROVE  ClaimInv' /\ ~connected'
<1> USE DEF userVars
<1> DEFINE f == stream[i]
<1>0. stream \in Seq(Frames) /\ f \in Frames /\ recv \in [Receiver -> Queue]
    BY DEF TypeInv, RadioTypes
<1>1. Eof(f) /\ opened' = opened /\ Broadcast(f) /\ f.k # "CONNECTED" /\ thrown' = thrown
    BY DEF Handle, Ending
<1>2. NoNews("dial") /\ NoNews("listen")
    BY <1>0, <1>1, BroadcastFacts DEF Receiver
<1>3. CASE data = 0
    <2>1. /\ UNCHANGED <<chans, cur, connected, data>>
          /\ ~(f.link \in opened /\ \A m \in DOMAIN conns : conns[m].link # f.link)
        BY <1>1, <1>3 DEF Eof
    <2>2. Needed => Unclaimed
        BY <1>3 DEF Needed, ClaimInv, PendingInv, GetInv
    <2>3. Needed => link \in opened /\ f.link = link
        BY NeededAlive DEF Alive, StreamInv, OneLinkInv
    <2>4. ~Needed
        BY <2>1, <2>2, <2>3 DEF Unclaimed
    <2>5. ClaimInv'
        BY <1>1, <1>2, <2>1, <2>4, NothingClaimed
    <2> QED
        BY <2>1, <2>4, <2>5, NeededAlive
<1>4. CASE data # 0
    BY <1>1, <1>2, <1>4, EofClaims
<1> QED
    BY <1>3, <1>4

LEMMA ControlClaims ==
    ASSUME TypeInv, TypeInv', StreamInv, Ordered, ClaimInv, FlowInv, ControlLoop, orphans' = {}
    PROVE  ClaimInv' /\ FlowInv'
<1> USE DEF userVars
<1>1. PICK i \in DOMAIN stream :
        /\ \A j \in 1 .. i - 1 : IsTCP /\ (stream[j].k = "data") # (stream[i].k = "data")
        /\ Handle(stream[i]) /\ stream' = RemoveAt(stream, i)
        /\ UNCHANGED <<mode, conns, userVars, radio, link, sent, budget>>
    BY DEF ControlLoop
<1> DEFINE f == stream[i]
<1>0. stream \in Seq(Frames) /\ f \in Frames /\ recv \in [Receiver -> Queue] /\ sent \in Nat
    BY TNCAssumption DEF TypeInv, RadioTypes
\* The data on its way
<1>f. PICK n \in 0 .. sent : After(n) /\ (connected => Upto(Present, link, n, thrown))
    BY DEF FlowInv
<1>g. ASSUME ~connected' PROVE FlowInv'
    <2>1. CASE i \notin Coming
        <3>1. After(n)'
            BY <1>1, <1>f, <2>1, FlowControl
        <3> QED
            BY <1>1, <1>g, <3>1 DEF FlowInv
    <2>2. CASE i \in Coming
        <3>1. After(n + 1)' /\ n + 1 \in 0 .. sent
            BY <1>1, <1>f, <2>2, FlowControl
        <3> QED
            BY <1>1, <1>g, <3>1 DEF FlowInv
    <2> QED
        BY <2>1, <2>2
<1>2. CASE f.k = "data" /\ connected
    BY <1>1, <1>2, DataClaims, ThrownClaims
<1>3. CASE f.k = "data" /\ ~connected
    <2>1. UNCHANGED <<chans, state, connected, data, cur, recv, opened, orphans, thrown>>
        BY <1>1, <1>3 DEF Handle, PassData
    <2>2. Alive => Alive'
        BY <1>1, <1>3, <2>1, StillAlive DEF Ending
    <2>3. \A r \in {"dial", "listen"} : NoNews(r)
        <3> SUFFICES ASSUME NEW r \in {"dial", "listen"} PROVE NoNews(r)
            OBVIOUS
        <3>1. recv[r].q \in Seq(Frames)
            BY <1>0 DEF Receiver, Queue
        <3>2. \A m \in DOMAIN recv'[r].q : m + 0 = m
            BY <2>1, <3>1
        <3> QED
            BY <2>1, <3>2 DEF NoNews
    <2>4. ClaimInv'
        BY <1>1, <2>1, <2>2, <2>3, NeededAlive, NothingClaimed
    <2> QED
        BY <1>3, <1>g, <2>1, <2>4
<1>4. CASE f.k = "CONNECTED"
    BY <1>1, <1>4, <1>g, ConnectedClaims
<1>5. CASE Ending(f)
    BY <1>1, <1>5, <1>g, EndingClaims
<1>6. CASE f.k \notin {"data", "CONNECTED"} /\ ~Ending(f)
    <2>1. /\ UNCHANGED <<chans, connected, data, cur, opened, orphans, thrown>> /\ Broadcast(f)
          /\ state' = IF f.k = "NEWSTATE" THEN f.v ELSE state
        BY <1>1, <1>6 DEF Handle, Ending
    <2>2. state' = state \/ state' # "DISC"
        BY <1>6, <2>1 DEF Ending
    <2>3. Alive => Alive'
        BY <1>1, <1>6, <2>1, <2>2, StillAlive
    <2>4. NoNews("dial") /\ NoNews("listen")
        BY <1>0, <1>6, <2>1, BroadcastFacts DEF Receiver
    <2>5. ClaimInv'
        BY <1>1, <2>1, <2>3, <2>4, NeededAlive, NothingClaimed
    <2>6. Present' = Present
        BY <1>1, <2>1 DEF Present, Got
    <2>7. After(n)'
        <3>1. i \notin Coming
            BY <1>6 DEF Coming
        <3> QED
            BY <1>1, <1>f, <3>1, FlowControl
    <2> QED
        BY <1>1, <1>f, <2>1, <2>5, <2>6, <2>7 DEF FlowInv, Upto
<1> QED
    BY <1>2, <1>3, <1>4, <1>5, <1>6

LEMMA FewerNews ==
    ASSUME NEW r, recv[r].q \in Seq(Frames),
           \/ recv'[r].q = recv[r].q \/ recv'[r].q = <<>>
           \/ recv[r].q # <<>> /\ recv'[r].q = Tail(recv[r].q)
    PROVE  NoNews(r)
<1>1. CASE recv'[r].q = recv[r].q
    <2>1. 0 \in Int /\ \A m \in DOMAIN recv[r].q : m + 0 = m
        OBVIOUS
    <2> QED
        BY <1>1, <2>1 DEF NoNews
<1>2. CASE recv'[r].q = <<>>
    <2>1. 0 \in Int /\ DOMAIN recv'[r].q = {}
        BY <1>2
    <2> QED
        BY <2>1 DEF NoNews
<1>3. CASE recv[r].q # <<>> /\ recv'[r].q = Tail(recv[r].q)
    <2>1. 1 \in Int /\ \A m \in DOMAIN recv'[r].q :
             m + 1 \in DOMAIN recv[r].q /\ recv[r].q[m + 1] = recv'[r].q[m]
        BY <1>3
    <2> QED
        BY <2>1 DEF NoNews
<1> QED
    BY <1>1, <1>2, <1>3

LEMMA Prefix ==
    ASSUME stream \in Seq(Frames), NEW fs \in Seq(Frames), Answers(fs)
    PROVE  \A j \in DOMAIN stream : j \in DOMAIN stream' /\ stream'[j] = stream[j]
BY DEF Answers

LEMMA AliveAdding ==
    ASSUME Alive, UNCHANGED <<mode, state, link, opened>>,
           \A j \in DOMAIN stream : j \in DOMAIN stream' /\ stream'[j] = stream[j],
           radio' = radio \/ (radio' = "down" /\ \E j \in DOMAIN stream' : Ending(stream'[j]))
    PROVE  Alive'
BY DEF Alive

\* A step outside the control loop that makes no connection
LEMMA Quiet ==
    ASSUME TypeInv, TypeInv', Ordered, ClaimInv, FlowInv, Elsewhere,
           UNCHANGED <<connected, data, cur, chans, conns, opened, thrown>>,
           Needed => Alive' /\ link' = link,
           u' = "get" <=> u = "get", u = "get" => open' = open,
           NoNews("dial"), NoNews("listen")
    PROVE  ClaimInv' /\ FlowInv'
<1>1. ClaimInv'
    BY NothingClaimed
<1>2. Present' = Present
    BY DEF Present, Got
<1>3. connected => link' = link
    BY NeededAlive
<1> QED
    BY <1>1, <1>2, <1>3, FlowStep

LEMMA DialClaims ==
    ASSUME TypeInv, TypeInv', Ordered, ShapeInv, ClaimInv, FlowInv, Dial \/ DialWait \/ DialDone
    PROVE  ClaimInv' /\ FlowInv'
<1> USE DEF tncVars, userVars, radioVars, past
<1>0. /\ recv \in [Receiver -> Queue] /\ stream \in Seq(Frames) /\ {"dial", "get", "listen", "close"} = Receiver
      /\ \A r \in Receiver : recv[r] \in Queue /\ recv[r].q \in Seq(Frames)
    BY DEF TypeInv, Receiver, RadioTypes, Queue
<1>e. Elsewhere
    BY DEF Elsewhere
<1>1. CASE Dial
    <2>1. /\ mode = "dial" /\ state = "DISC" /\ u = "idle" /\ u' = "call"
          /\ recv' = [recv EXCEPT !["dial"] = Listening]
          /\ UNCHANGED <<mode, state, connected, data, cur, chans, conns, opened, thrown>>
        BY <1>1 DEF Dial
    <2>2. ~Alive
        BY <2>1 DEF Alive
    <2>3. ~Needed
        BY <2>2, NeededAlive
    <2>4. recv'["dial"].q = <<>> /\ recv'["listen"].q = recv["listen"].q
        BY <1>0, <2>1 DEF Listening
    <2>5. NoNews("dial") /\ NoNews("listen")
        BY <1>0, <2>4, FewerNews
    <2> QED
        BY <1>e, <2>1, <2>3, <2>5, Quiet
<1>2. CASE DialWait
    <2>1. /\ u = "call" /\ recv["dial"].q # <<>>
          /\ UNCHANGED <<mode, state, data, cur, chans, conns, radio, link, opened, thrown>>
        BY <1>2 DEF DialWait
    <2>2. CASE UNCHANGED <<connected, open, stream>> /\ u' # "get"
               /\ recv' \in {[recv EXCEPT !["dial"] = Closed], Next1("dial")}
        <3>1. \/ recv'["dial"].q = <<>>
              \/ recv'["dial"].q = Tail(recv["dial"].q)
            <4>1. CASE recv' = [recv EXCEPT !["dial"] = Closed]
                BY <1>0, <4>1 DEF Closed
            <4>2. CASE recv' = Next1("dial")
                <5>1. recv'["dial"] = [recv["dial"] EXCEPT !.q = Tail(@)]
                    BY <1>0, <4>2 DEF Next1
                <5>2. recv["dial"] \in Queue
                    BY <1>0
                <5>3. [recv["dial"] EXCEPT !.q = Tail(@)].q = Tail(recv["dial"].q)
                    BY <5>2 DEF Queue
                <5> QED
                    BY <5>1, <5>3
            <4> QED
                BY <2>2, <4>1, <4>2
        <3>2. recv'["listen"].q = recv["listen"].q
            BY <1>0, <2>2 DEF Next1
        <3>3. NoNews("dial") /\ NoNews("listen")
            BY <1>0, <2>1, <3>1, <3>2, FewerNews
        <3>4. Alive => Alive'
            BY <2>1, <2>2 DEF Alive
        <3> QED
            BY <1>e, <2>1, <2>2, <3>3, <3>4, NeededAlive, Quiet
    <2>3. CASE Message("dial").k = "CONNECTED" /\ connected' = TRUE /\ u' = "get"
               /\ open' = Message("dial").link
               /\ recv' = [recv EXCEPT !["dial"] = Closed, !["get"] = Listening]
               /\ Answers(<<Frame("MYCALL", "", Message("dial").link, 0)>>)
        <3>1. Message("dial") = recv["dial"].q[1] /\ 1 \in DOMAIN recv["dial"].q
            BY <1>0, <2>1 DEF Message
        <3>2. Message("dial").link = link /\ Alive /\ Unclaimed /\ ~connected
            BY <2>3, <3>1 DEF ClaimInv, PendingInv
        <3>3. Alive'
            <4> DEFINE f == Frame("MYCALL", "", Message("dial").link, 0)
            <4>1. f \in Frames
                <5>1. link \in 0 .. MaxLinks
                    BY DEF TypeInv, RadioTypes
                <5> QED
                    BY <3>2, <5>1, NewFrame
            <4>2. Answers(<<f>>)
                BY <2>3
            <4> HIDE DEF f
            <4>3. <<f>> \in Seq(Frames)
                BY <4>1
            <4> QED
                BY <1>0, <2>1, <3>2, <4>2, <4>3, Prefix, AliveAdding
        <3>4. recv'["dial"].q = <<>> /\ recv'["listen"].q = <<>>
            BY <1>0, <2>1, <2>3 DEF Closed, ShapeInv
        <3>5. Unclaimed' /\ data = 0
            BY <2>1, <3>2 DEF Unclaimed
        <3>6. chans[cur].q = <<>>
            BY <3>2 DEF ClaimInv, GotInv
        <3>7. Present' = <<>>
            BY <2>1, <3>5, <3>6 DEF Present
        <3>8. PendingInv'
            <4>1. \A r \in {"dial", "listen"} : DOMAIN recv'[r].q = {}
                BY <3>4
            <4> QED
                BY <4>1 DEF PendingInv
        <3>9. GetInv'
            BY <2>1, <2>3, <3>2, <3>3, <3>5 DEF GetInv
        <3>10. ConnInv'
            BY <2>1, <2>3, <3>5 DEF ClaimInv, ConnInv
        <3>11. GotInv'
            <4>1. \A m : Got(m)' = Got(m)
                BY <2>1 DEF Got
            <4>2. DOMAIN <<>> = {}
                OBVIOUS
            <4>3. Of(<<>>, link) /\ Gapless(<<>>, thrown)
                BY <4>2 DEF Of, Gapless, Follows
            <4> QED
                BY <2>1, <2>3, <3>7, <4>1, <4>3 DEF ClaimInv, GotInv, Of, Gapless, Follows
        <3>12. FlowInv'
            BY <1>e, <2>1, <3>7, FlowStep
        <3> QED
            BY <3>8, <3>9, <3>10, <3>11, <3>12 DEF ClaimInv
    <2> QED
        BY <1>2, <2>1, <2>2, <2>3 DEF DialWait
<1>3. CASE DialDone
    <2>1. /\ u = "get" /\ UNCHANGED <<mode, state, connected, cur, chans, stream, radio, link, opened, thrown>>
        BY <1>3 DEF DialDone
    <2>2. open = link /\ Alive /\ Unclaimed /\ connected
        BY <2>1 DEF ClaimInv, GetInv
    <2>3. Alive'
        BY <2>1, <2>2 DEF Alive
    <2>4. recv'["dial"].q = recv["dial"].q /\ recv'["listen"].q = recv["listen"].q
        BY <1>0, <1>3 DEF DialDone, Next1
    <2>5. CASE Message("get").k = "MYCALL"
        <3>1. NewConn(link) /\ u' = "open"
            BY <1>3, <2>2, <2>5 DEF DialDone
        <3>2. \A r \in {"dial", "listen"} : \A i \in DOMAIN recv'[r].q : recv'[r].q[i].k # "CONNECTED"
            BY <2>2, <2>4 DEF ClaimInv, PendingInv
        <3>3. data = 0 /\ Present = chans[cur].q
            BY <2>2 DEF Unclaimed, Present
        <3>4. Of(chans[cur].q, link) /\ Gapless(chans[cur].q, thrown)
            BY <2>2, <3>3 DEF ClaimInv, GotInv
        <3>5. ClaimInv' /\ Present' = chans[cur].q
            BY <2>1, <2>2, <2>3, <3>1, <3>2, <3>4, Claimed
        <3> QED
            BY <1>e, <2>1, <2>2, <3>3, <3>5, FlowStep
    <2>6. CASE Message("get").k # "MYCALL"
        <3>1. UNCHANGED <<conns, data, u, open>>
            BY <1>3, <2>6 DEF DialDone
        <3>2. NoNews("dial") /\ NoNews("listen")
            BY <1>0, <2>4, FewerNews
        <3> QED
            BY <1>e, <2>1, <2>3, <3>1, <3>2, Quiet
    <2> QED
        BY <2>5, <2>6
<1> QED
    BY <1>1, <1>2, <1>3

LEMMA ListenerClaims ==
    ASSUME TypeInv, TypeInv', Ordered, ShapeInv, ClaimInv, FlowInv, Listener
    PROVE  ClaimInv' /\ FlowInv'
<1> USE DEF tncVars, userVars, radioVars, past
<1>0. /\ recv \in [Receiver -> Queue] /\ {"dial", "get", "listen", "close"} = Receiver
      /\ \A r \in Receiver : recv[r] \in Queue /\ recv[r].q \in Seq(Frames)
    BY DEF TypeInv, Receiver, Queue
<1>1. /\ recv["listen"].q # <<>> /\ recv' = Next1("listen")
      /\ UNCHANGED <<mode, state, cur, chans, u, open, stream, radio, link, opened, thrown>>
    BY DEF Listener
<1>2. recv'["listen"].q = Tail(recv["listen"].q) /\ recv'["dial"].q = recv["dial"].q
    BY <1>0, <1>1 DEF Next1, Queue
<1>3. NoNews("dial") /\ NoNews("listen")
    BY <1>0, <1>1, <1>2, FewerNews
<1>4. Alive => Alive'
    BY <1>1 DEF Alive
<1>e. Elsewhere
    BY DEF Elsewhere
<1>5. CASE UNCHANGED <<conns, data, connected>>
    BY <1>1, <1>3, <1>4, <1>5, <1>e, NeededAlive, Quiet
<1>6. CASE Message("listen").k = "CONNECTED" /\ NewConn(Message("listen").link) /\ connected' = TRUE
    <2>1. Message("listen") = recv["listen"].q[1] /\ 1 \in DOMAIN recv["listen"].q
        BY <1>0, <1>1 DEF Message
    <2>2. /\ Message("listen").link = link /\ Alive /\ Unclaimed /\ ~connected
          /\ \A j \in DOMAIN recv["listen"].q : recv["listen"].q[j].k = "CONNECTED" => j = 1
        BY <1>6, <2>1 DEF ClaimInv, PendingInv
    <2>3. mode # "dial" /\ recv["dial"].q = <<>> /\ u # "get"
        BY <1>1 DEF ShapeInv
    <2>4. \A r \in {"dial", "listen"} : \A i \in DOMAIN recv'[r].q : recv'[r].q[i].k # "CONNECTED"
        <3>1. \A i \in DOMAIN recv'["dial"].q : recv'["dial"].q[i].k # "CONNECTED"
            BY <1>2, <2>3
        <3>2. ASSUME NEW i \in DOMAIN recv'["listen"].q PROVE recv'["listen"].q[i].k # "CONNECTED"
            <4>1. /\ i + 1 \in DOMAIN recv["listen"].q /\ i + 1 # 1
                  /\ recv["listen"].q[i + 1] = recv'["listen"].q[i]
                <5>1. recv["listen"].q \in Seq(Frames)
                    BY <1>0
                <5>2. \A t \in Seq(Frames) : t # <<>> =>
                         \A j \in DOMAIN Tail(t) : j + 1 \in DOMAIN t /\ j + 1 # 1 /\ t[j + 1] = Tail(t)[j]
                    OBVIOUS
                <5> QED
                    BY <1>1, <1>2, <5>1, <5>2
            <4> QED
                BY <2>2, <4>1
        <3> QED
            BY <3>1, <3>2
    <2>5. chans[cur].q = <<>>
        BY <2>2 DEF ClaimInv, GotInv
    <2>6. Of(chans[cur].q, link) /\ Gapless(chans[cur].q, thrown)
        <3>1. DOMAIN chans[cur].q = {}
            BY <2>5
        <3> QED
            BY <3>1 DEF Of, Gapless, Follows
    <2>7. connected'
        BY <1>6
    <2>8. NewConn(link)
        BY <1>6, <2>2
    <2>9. ClaimInv' /\ Present' = chans[cur].q
        BY <1>1, <1>4, <2>2, <2>3, <2>4, <2>6, <2>7, <2>8, Claimed
    <2> QED
        BY <1>1, <1>e, <2>5, <2>9, FlowStep
<1> QED
    BY <1>5, <1>6 DEF Listener

\* The other steps of the user and of the radio
LEMMA OtherClaims ==
    ASSUME TypeInv, TypeInv', Ordered, ClaimInv, FlowInv,
           \/ Accept \/ Close \/ CloseWait \/ CloseTimeout
           \/ Connects \/ RemoteData \/ LinkEnds \/ UNCHANGED vars
    PROVE  ClaimInv' /\ FlowInv'
<1> USE DEF tncVars, userVars, radioVars, past
<1>0. /\ recv \in [Receiver -> Queue] /\ {"dial", "get", "listen", "close"} = Receiver
      /\ \A r \in Receiver : recv[r] \in Queue /\ recv[r].q \in Seq(Frames)
      /\ stream \in Seq(Frames) /\ link \in Nat /\ link \in 0 .. MaxLinks /\ sent \in Nat
    BY TNCAssumption DEF TypeInv, Receiver, Queue, RadioTypes
<1>e. Elsewhere
    BY DEF Elsewhere
<1>1. UNCHANGED <<mode, state, connected, data, cur, chans, conns, opened, thrown>>
    BY DEF Accept, Close, CloseWait, CloseTimeout, Connects, RemoteData, LinkEnds, vars
<1>2. recv'["dial"].q = recv["dial"].q /\ recv'["listen"].q = recv["listen"].q
    BY <1>0 DEF Accept, Close, CloseWait, CloseTimeout, Connects, RemoteData, LinkEnds, vars, Next1
<1>3. NoNews("dial") /\ NoNews("listen")
    BY <1>0, <1>2, FewerNews
<1>4. (u' = "get" <=> u = "get") /\ (u = "get" => open' = open)
    BY DEF Accept, Close, CloseWait, CloseTimeout, Connects, RemoteData, LinkEnds, vars
<1>5. Needed => Alive' /\ link' = link
    <2> SUFFICES ASSUME Alive PROVE Alive' /\ link' = link
        BY NeededAlive
    <2>1. CASE Accept \/ CloseWait \/ UNCHANGED vars
        BY <2>1 DEF Accept, CloseWait, vars, Alive
    <2>2. CASE UNCHANGED <<stream, radio, link>>
        BY <1>1, <2>2 DEF Alive
    <2>3. CASE radio' = "down" /\ link' = link /\ \E fs \in Ends(link) : Answers(fs)
        <3>1. /\ \A j \in DOMAIN stream : j \in DOMAIN stream' /\ stream'[j] = stream[j]
              /\ Len(stream) + 1 \in DOMAIN stream' /\ Ending(stream'[Len(stream) + 1])
            BY <1>0, <2>3, EndsAdded
        <3> QED
            BY <1>1, <2>3, <3>1, AliveAdding
    <2>4. CASE Connects
        BY <2>4 DEF Connects, Alive, TypeInv, RadioTypes
    <2>5. CASE RemoteData
        <3> DEFINE f == Frame("data", "", link, sent + 1)
        <3>1. f \in Frames
            <4>1. sent + 1 \in Nat
                BY <1>0
            <4> QED
                BY <1>0, <4>1, NewFrame
        <3>2. Answers(<<f>>) /\ radio' = radio /\ link' = link
            BY <2>5 DEF RemoteData
        <3> HIDE DEF f
        <3>3. <<f>> \in Seq(Frames)
            BY <3>1
        <3> QED
            BY <1>0, <1>1, <3>2, <3>3, Prefix, AliveAdding
    <2> QED
        BY <2>1, <2>2, <2>3, <2>4, <2>5 DEF Close, CloseTimeout, LinkEnds, HangUp, Drop
<1> QED
    BY <1>1, <1>3, <1>4, <1>5, <1>e, Quiet

\* Disconnect ends the connection it finds
LEMMA DisconnectClaims ==
    ASSUME TypeInv, TypeInv', Ordered, ClaimInv, FlowInv, Disconnect
    PROVE  ClaimInv' /\ FlowInv'
<1> USE DEF userVars
<1>0. /\ recv \in [Receiver -> Queue] /\ {"dial", "get", "listen", "close"} = Receiver
      /\ \A r \in Receiver : recv[r].q \in Seq(Frames)
      /\ stream \in Seq(Frames) /\ link \in 0 .. MaxLinks
    BY DEF TypeInv, Receiver, Queue, RadioTypes
<1>e. Elsewhere
    BY DEF Elsewhere
<1>1. UNCHANGED <<mode, state, conns, recv, u, open, link, opened, thrown>>
    BY DEF Disconnect
<1>2. NoNews("dial") /\ NoNews("listen")
    BY <1>0, <1>1, FewerNews
<1>3. CASE UNCHANGED <<chans, cur, connected, data>>
    <2>1. Alive => Alive'
        <3> SUFFICES ASSUME Alive PROVE Alive'
            OBVIOUS
        <3>1. CASE UNCHANGED <<stream, radio>>
            BY <1>1, <3>1 DEF Alive
        <3>2. CASE Drop
            <4>1. /\ \A j \in DOMAIN stream : j \in DOMAIN stream' /\ stream'[j] = stream[j]
                  /\ Len(stream) + 1 \in DOMAIN stream' /\ Ending(stream'[Len(stream) + 1])
                  /\ radio' = "down"
                BY <1>0, <3>2, EndsAdded DEF Drop
            <4> QED
                BY <1>1, <4>1, AliveAdding
        <3> QED
            BY <3>1, <3>2 DEF Disconnect, HangUp
    <2> QED
        BY <1>1, <1>2, <1>3, <1>e, <2>1, NeededAlive, Quiet
<1>4. CASE Eof(Frame("", "", 0, 0)) /\ data # 0
    <2>1. ClaimInv' /\ ~connected'
        BY <1>1, <1>2, <1>4, EofClaims
    <2> QED
        BY <1>1, <1>e, <2>1, FlowStep
<1> QED
    BY <1>3, <1>4 DEF Disconnect, Eof

-----------------------------------------------------------------------------
(* The theorems                                                            *)

LEMMA LinkInit == Init => LinkInv
<1> SUFFICES ASSUME Init PROVE LinkInv
    OBVIOUS
<1>1. /\ connected = FALSE /\ data = 0 /\ cur = 1 /\ conns = <<>> /\ DOMAIN conns = {}
      /\ stream = <<>> /\ DOMAIN stream = {} /\ u = "idle" /\ link = 0 /\ sent = 0
      /\ chans = <<[q |-> <<>>, closed |-> FALSE]>>
    BY DEF Init
<1>2. \A r \in {"dial", "listen"} : recv[r].q = <<>> /\ DOMAIN recv[r].q = {}
    BY DEF Init, Receiver
<1>3. ~recv["dial"].on /\ (mode = "dial" => ~recv["listen"].on)
    BY DEF Init, Receiver
<1>4. ShapeInv
    BY <1>1, <1>2, <1>3 DEF ShapeInv
<1>5. Coming = {}
    BY <1>1 DEF Coming
<1>6. Ordered
    BY <1>1, <1>5 DEF Ordered
<1>7. PendingInv /\ GetInv
    BY <1>1, <1>2 DEF PendingInv, GetInv
<1>8. ConnInv
    BY <1>1 DEF ConnInv
<1>9. chans[cur].q = <<>>
    BY <1>1
<1>10. GotInv
    BY <1>1, <1>9 DEF GotInv
<1>11. FlowInv
    <2>1. After(0) /\ 0 \in 0 .. sent
        BY <1>1, <1>5 DEF After
    <2> QED
        BY <1>1, <2>1 DEF FlowInv
<1> QED
    BY <1>4, <1>6, <1>7, <1>8, <1>10, <1>11, StreamInit DEF LinkInv

LEMMA LinkStep == TypeInv /\ TypeInv' /\ LinkInv /\ [Next]_vars => LinkInv'
<1> SUFFICES ASSUME TypeInv, TypeInv', LinkInv, [Next]_vars PROVE LinkInv'
    OBVIOUS
<1>1. StreamInv' /\ ShapeInv' /\ Ordered'
    BY StreamStep, ShapeStep, OrderedStep DEF LinkInv
<1>2. ASSUME orphans' = {} PROVE ClaimInv' /\ FlowInv'
    <2>1. orphans \subseteq orphans'
        <3>1. CASE ControlLoop
            BY <3>1 DEF ControlLoop, Handle, Eof
        <3>2. CASE Disconnect
            BY <3>2 DEF Disconnect, Eof
        <3>3. CASE ~ControlLoop /\ ~Disconnect
            BY <3>3 DEF Next, Dial, DialWait, DialDone, Listener, Accept, Read, Close, CloseWait,
                        CloseTimeout, Connects, RemoteData, LinkEnds, Idle, vars, past
        <3> QED
            BY <3>1, <3>2, <3>3
    <2>2. StreamInv /\ ShapeInv /\ Ordered /\ ClaimInv /\ FlowInv
        BY <1>2, <2>1 DEF LinkInv, ClaimInv
    <2>3. CASE ControlLoop
        BY <1>2, <2>2, <2>3, ControlClaims
    <2>4. CASE Dial \/ DialWait \/ DialDone
        BY <2>2, <2>4, DialClaims
    <2>5. CASE Listener
        BY <2>2, <2>5, ListenerClaims
    <2>6. CASE Read
        <3>1. ClaimInv' /\ Present' = Present
            BY <2>2, <2>6, ReadClaims
        <3>2. Elsewhere /\ link' = link /\ connected' = connected /\ thrown' = thrown
            BY <2>6 DEF Elsewhere, Read, radioVars, past
        <3> QED
            BY <2>2, <3>1, <3>2, FlowStep
    <2>7. CASE \/ Accept \/ Close \/ CloseWait \/ CloseTimeout
               \/ Connects \/ RemoteData \/ LinkEnds \/ UNCHANGED vars
        BY <2>2, <2>7, OtherClaims
    <2>8. CASE Disconnect
        BY <2>2, <2>8, DisconnectClaims
    <2> QED
        BY <2>3, <2>4, <2>5, <2>6, <2>7, <2>8 DEF Next, Idle
<1> QED
    BY <1>1, <1>2 DEF LinkInv, ClaimInv

\* The inductive invariant about the links and their connections: while no link
\* ended before its tncConn was made, whoever waits for CONNECTED, calls MyCall or
\* has a connection counts on the present link, and the frames passed to
\* tnc.dataIn are that link's, one after the other but for those thrown away.
THEOREM LinkInvariant == Spec => [](TypeInv /\ LinkInv)
<1>1. Init => TypeInv /\ LinkInv
    BY TypeInit, LinkInit
<1>2. (TypeInv /\ LinkInv) /\ [Next]_vars => (TypeInv /\ LinkInv)'
    BY TypeStep, LinkStep
<1> QED
    BY <1>1, <1>2, PTL DEF Spec

\* What a connection is said to have received is what it has got, or also what
\* its channel holds
LEMMA ReceivedGot ==
    ASSUME TypeInv, GotInv, NEW i \in DOMAIN conns
    PROVE  Received(i) \in Seq(Items) /\ Of(Received(i), conns[i].link) /\ Gapless(Received(i), thrown)
<1>1. /\ conns[i] \in Conn /\ conns[i].ch \in DOMAIN chans /\ chans \in Seq(Chan)
    BY DEF TypeInv, FieldTypes
<1>2. conns[i].got \in Seq(Items) /\ chans[conns[i].ch].q \in Seq(Items)
    <2>1. chans[conns[i].ch] \in Chan
        BY <1>1
    <2> QED
        BY <1>1, <2>1, ConnFacts, ChanFacts
<1>3. Got(i) \in Seq(Items) /\ Of(Got(i), conns[i].link) /\ Gapless(Got(i), thrown)
    BY <1>2 DEF Got, GotInv
<1>4. CASE Received(i) = Got(i)
    BY <1>3, <1>4
<1>5. CASE Received(i) = conns[i].got
    <2>1. /\ DOMAIN conns[i].got \subseteq DOMAIN Got(i)
          /\ \A j \in DOMAIN conns[i].got : Got(i)[j] = conns[i].got[j]
        <3>1. \A a, b \in Seq(Items) : /\ DOMAIN a \subseteq DOMAIN (a \o b)
                                       /\ \A j \in DOMAIN a : (a \o b)[j] = a[j]
            OBVIOUS
        <3> QED
            BY <1>2, <3>1 DEF Got
    <2> QED
        BY <1>2, <1>3, <1>5, <2>1 DEF Of, Gapless, Follows
<1>6. conns[i].got \o <<>> = conns[i].got
    BY <1>2
<1> QED
    BY <1>4, <1>5, <1>6 DEF Received, Got

\* A connection reads data of its own link only, for any number of links and
\* frames, in both modes and over one stream or two, unless a link ended before
\* its tncConn was made.
THEOREM OwnLink == Spec => []ReadsOwnLink
<1>1. TypeInv /\ LinkInv => ReadsOwnLink
    <2> SUFFICES ASSUME TypeInv, LinkInv, NEW i \in DOMAIN conns, orphans = {},
                        NEW j \in 1 .. Len(Received(i))
                 PROVE  Received(i)[j][1] = conns[i].link
        BY DEF ReadsOwnLink
    <2>1. Received(i) \in Seq(Items) /\ Of(Received(i), conns[i].link)
        BY ReceivedGot DEF LinkInv
    <2>2. j \in DOMAIN Received(i)
        BY <2>1
    <2> QED
        BY <2>1, <2>2 DEF Of
<1> QED
    BY <1>1, LinkInvariant, PTL

\* What a connection reads has no holes but the frames that found tnc.dataIn full
\* for a minute, in the same generality and for any capacity of tnc.dataIn.
THEOREM WithoutHoles == Spec => []NoHoles
<1>1. TypeInv /\ LinkInv => NoHoles
    <2> SUFFICES ASSUME TypeInv, LinkInv, NEW i \in DOMAIN conns, orphans = {},
                        NEW j \in 1 .. Len(Received(i)) - 1
                 PROVE  Follows(Received(i)[j], Received(i)[j + 1], thrown)
        BY DEF NoHoles, Follows
    <2>1. Received(i) \in Seq(Items) /\ Gapless(Received(i), thrown)
        BY ReceivedGot DEF LinkInv
    <2>2. j \in DOMAIN Received(i) /\ j + 1 \in DOMAIN Received(i)
        BY <2>1
    <2> QED
        BY <2>1, <2>2 DEF Gapless
<1> QED
    BY <1>1, LinkInvariant, PTL
=============================================================================
