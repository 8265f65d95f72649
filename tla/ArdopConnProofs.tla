---------------------------- MODULE ArdopConnProofs ----------------------------
(***************************************************************************)
(* Why Flush may trust the flushLock, for any number of Writes before it   *)
(* and whatever the serial line damages.                                   *)
(*                                                                         *)
(* The lock is closed by the goroutine in Write when it gets a report that *)
(* the control loop has handled before, and opened by the control loop     *)
(* when it handles a report of an empty queue.  The reports are numbered   *)
(* by the chunks that the TNC had queued when it made them; the numbers    *)
(* never fall on the way to the control loop, so the report that opens the *)
(* lock counts at least what the one counted that closed it.               *)
(***************************************************************************)
EXTENDS ArdopConn, TLAPS

In(s, S) == \E i \in DOMAIN s : s[i] \in S
Once(s, S) == \A i, j \in DOMAIN s : s[i] \in S /\ s[j] \in S => i = j

Writer == {"write"}
Closer == {"close"}

(* The BUFFER reports that count fewer than x chunks, or more. *)
Under(x) == {m \in Msg : m.cmd = "BUFFER" /\ m.k < x}
Over(x) == {m \in Msg : m.cmd = "BUFFER" /\ m.k > x}
Sorted(s) ==
    \A i, j \in DOMAIN s :
      i < j /\ s[i].cmd = "BUFFER" /\ s[j].cmd = "BUFFER" => s[i].k <= s[j].k

(* No report that the control loop has still to handle counts fewer. *)
Ahead(x) == x <= Len(taken) /\ ~In(line, Under(x))

(* Reports that count more than one still to be handled. *)
Late == {m \in Msg : m.cmd = "BUFFER" /\ ~Ahead(m.k)}

(* Reports of an empty queue that count what is not transmitted. *)
Wrong == {m \in Msg : m.cmd = "BUFFER" /\ m.n = 0 /\ m.k > Len(aired)}

(* A receiver is registered once, while its owner uses it. *)
Registered ==
    /\ Once(reg, Writer) /\ Once(reg, Closer) /\ Once(togo, Writer) /\ Once(togo, Closer)
    /\ In(reg, Writer) => pcW \in {"send", "wait", "panic"}
    /\ In(reg, Closer) => pcC \in {"send", "wait", "abort", "panic"}

(* Write has a chunk. *)
WriterInv == pcW \in {"listen", "send", "wait"} => next \in Chunk

(* The reports on their way to the control loop. *)
ReportInv ==
    /\ tnc = "connected" => Len(taken) = Len(aired) + Len(queue)
    /\ ~In(line, Over(Len(taken))) /\ ~In(line, Wrong)
    /\ Sorted(line)

(* The reports that it has handled and Write has not seen yet, and the one *)
(* that ended the last Write, were made before those.                      *)
HandledInv ==
    /\ ~In(ctl, Late) /\ cast \notin Late /\ ~In(msgs["write"], Late)
    /\ Ahead(seen)

(* Whoever finds the lock open has what Write saw counted transmitted. *)
LockInv ==
    /\ ~locked => seen <= Len(aired)
    /\ pcW = "flush" /\ "flush" \notin waiters => seen <= Len(aired)
    /\ FlushCoversCounted

ConnInv == TypeOK /\ Registered /\ WriterInv /\ ReportInv /\ HandledInv /\ LockInv
-----------------------------------------------------------------------------
(***************************************************************************)
(* Sequences.                                                              *)
(***************************************************************************)

(* The empty sequence holds nothing. *)
LEMMA EmptyFacts ==
    ASSUME NEW S
    PROVE  ~In(<<>>, S) /\ Once(<<>>, S)
BY DEF In, Once

(* What an appended element adds. *)
LEMMA AppendFacts ==
    ASSUME NEW T, NEW S, NEW s \in Seq(T), NEW m \in T
    PROVE  /\ In(Append(s, m), S) <=> In(s, S) \/ m \in S
           /\ Once(s, S) /\ (m \notin S \/ ~In(s, S)) => Once(Append(s, m), S)
<1> DEFINE t == Append(s, m)
<1>1. /\ t \in Seq(T) /\ Len(t) = Len(s) + 1 /\ Len(s) \in Nat
      /\ DOMAIN s = 1 .. Len(s) /\ DOMAIN t = 1 .. (Len(s) + 1)
      /\ \A i \in DOMAIN s : t[i] = s[i]
      /\ t[Len(s) + 1] = m
    OBVIOUS
<1> HIDE DEF t
<1>2. \A i \in DOMAIN t : i \in DOMAIN s \/ i = Len(s) + 1
    BY <1>1
<1>3. In(t, S) <=> In(s, S) \/ m \in S
    BY <1>1, <1>2 DEF In
<1>4. Once(s, S) /\ (m \notin S \/ ~In(s, S)) => Once(t, S)
    BY <1>1, <1>2 DEF In, Once
<1> QED
    BY <1>3, <1>4 DEF t

(* What is left when the first element is taken. *)
LEMMA TailFacts ==
    ASSUME NEW T, NEW S, NEW s \in Seq(T), s # <<>>
    PROVE  /\ Head(s) \in T /\ Tail(s) \in Seq(T) /\ Len(Tail(s)) = Len(s) - 1
           /\ In(s, S) <=> Head(s) \in S \/ In(Tail(s), S)
           /\ Once(s, S) => Once(Tail(s), S) /\ (Head(s) \in S => ~In(Tail(s), S))
<1>1. /\ Head(s) \in T /\ Tail(s) \in Seq(T) /\ Len(Tail(s)) = Len(s) - 1
      /\ Len(s) \in Nat /\ Len(s) > 0 /\ DOMAIN s = 1 .. Len(s)
      /\ DOMAIN Tail(s) = 1 .. (Len(s) - 1)
      /\ Head(s) = s[1]
      /\ \A i \in DOMAIN Tail(s) : Tail(s)[i] = s[i + 1]
    OBVIOUS
<1>2. \A i \in DOMAIN Tail(s) : i + 1 \in DOMAIN s /\ i + 1 # 1 /\ i \in Nat
    BY <1>1
<1>3. \A i \in DOMAIN s : i = 1 \/ (i - 1 \in DOMAIN Tail(s) /\ (i - 1) + 1 = i)
    BY <1>1
<1>4. 1 \in DOMAIN s
    BY <1>1
<1>5. In(s, S) <=> Head(s) \in S \/ In(Tail(s), S)
    BY <1>1, <1>2, <1>3, <1>4 DEF In
<1>6. ASSUME Once(s, S) PROVE Once(Tail(s), S) /\ (Head(s) \in S => ~In(Tail(s), S))
    <2>1. \A i, j \in DOMAIN Tail(s) : i + 1 = j + 1 => i = j
        BY <1>1
    <2> QED
        BY <1>1, <1>2, <1>4, <1>6, <2>1 DEF In, Once
<1> QED
    BY <1>1, <1>5, <1>6

LEMMA ConcatFacts ==
    ASSUME NEW T, NEW a \in Seq(T), NEW b \in Seq(T)
    PROVE  /\ a \o b \in Seq(T) /\ Len(a \o b) = Len(a) + Len(b)
           /\ \A i \in 1 .. Len(a) + Len(b) :
                (a \o b)[i] = IF i <= Len(a) THEN a[i] ELSE b[i - Len(a)]
OBVIOUS

(* A receiver that is taken out is gone, and nothing is added. *)
LEMMA WithoutFacts ==
    ASSUME NEW s \in Seq(Receiver), NEW r, NEW S, Once(s, {r})
    PROVE  /\ Without(s, r) \in Seq(Receiver) /\ Len(Without(s, r)) <= Len(s)
           /\ ~In(Without(s, r), {r})
           /\ In(Without(s, r), S) => In(s, S)
           /\ Once(s, S) => Once(Without(s, r), S)
<1>1. CASE ~In(s, {r})
    <2>1. Without(s, r) = s
        BY <1>1 DEF Without, In
    <2> QED
        BY <1>1, <2>1
<1>2. CASE In(s, {r})
    <2>1. PICK k \in DOMAIN s : s[k] = r /\ Without(s, r) = RemoveAt(s, k)
        BY <1>2 DEF Without, In
    <2> DEFINE t == Without(s, r)
    <2>2. Len(s) \in Nat /\ DOMAIN s = 1 .. Len(s) /\ k \in 1 .. Len(s)
        OBVIOUS
    <2>3. /\ SubSeq(s, 1, k - 1) \in Seq(Receiver) /\ Len(SubSeq(s, 1, k - 1)) = k - 1
          /\ \A i \in 1 .. k - 1 : SubSeq(s, 1, k - 1)[i] = s[i]
        BY <2>2
    <2>4. /\ SubSeq(s, k + 1, Len(s)) \in Seq(Receiver)
          /\ Len(SubSeq(s, k + 1, Len(s))) = Len(s) - k
          /\ \A i \in 1 .. Len(s) - k : SubSeq(s, k + 1, Len(s))[i] = s[i + k]
        BY <2>2
    <2>5. t = SubSeq(s, 1, k - 1) \o SubSeq(s, k + 1, Len(s))
        BY <2>1 DEF RemoveAt
    <2> HIDE DEF t
    <2>6. /\ t \in Seq(Receiver) /\ Len(t) = Len(s) - 1 /\ DOMAIN t = 1 .. (Len(s) - 1)
          /\ \A i \in DOMAIN t : t[i] = IF i < k THEN s[i] ELSE s[i + 1]
        <3> DEFINE a == SubSeq(s, 1, k - 1)
                   b == SubSeq(s, k + 1, Len(s))
        <3>1. a \in Seq(Receiver) /\ b \in Seq(Receiver) /\ t = a \o b
            BY <2>3, <2>4, <2>5
        <3>2. /\ Len(a) = k - 1 /\ (\A i \in 1 .. k - 1 : a[i] = s[i])
              /\ Len(b) = Len(s) - k /\ (\A i \in 1 .. Len(s) - k : b[i] = s[i + k])
            BY <2>3, <2>4
        <3> HIDE DEF a, b
        <3>3. /\ t \in Seq(Receiver) /\ Len(t) = Len(a) + Len(b)
              /\ \A i \in 1 .. Len(a) + Len(b) : t[i] = IF i <= Len(a) THEN a[i] ELSE b[i - Len(a)]
            BY <3>1, ConcatFacts
        <3>4. Len(a) + Len(b) = Len(s) - 1 /\ DOMAIN t = 1 .. (Len(s) - 1)
            BY <2>2, <3>2, <3>3
        <3>5. ASSUME NEW i \in 1 .. (Len(s) - 1) PROVE t[i] = IF i < k THEN s[i] ELSE s[i + 1]
            <4>1. CASE i < k
                <5>1. i \in 1 .. k - 1 /\ i <= Len(a)
                    BY <2>2, <3>2, <4>1
                <5> QED
                    BY <3>2, <3>3, <3>4, <3>5, <4>1, <5>1
            <4>2. CASE ~(i < k)
                <5>1. i - Len(a) \in 1 .. Len(s) - k /\ ~(i <= Len(a)) /\ (i - Len(a)) + k = i + 1
                    BY <2>2, <3>2, <4>2
                <5> QED
                    BY <3>2, <3>3, <3>4, <3>5, <4>2, <5>1
            <4> QED
                BY <4>1, <4>2
        <3> QED
            BY <3>3, <3>4, <3>5
    <2> DEFINE f(i) == IF i < k THEN i ELSE i + 1
    <2>7. \A i \in DOMAIN t : f(i) \in DOMAIN s /\ f(i) # k /\ t[i] = s[f(i)]
        BY <2>2, <2>6
    <2>8. \A i, j \in DOMAIN t : f(i) = f(j) => i = j
        BY <2>2, <2>6
    <2>9. Len(t) <= Len(s)
        BY <2>2, <2>6
    <2> HIDE DEF f
    <2>10. ~In(t, {r}) /\ (In(t, S) => In(s, S))
        BY <2>1, <2>7 DEF In, Once
    <2>11. Once(s, S) => Once(t, S)
        BY <2>7, <2>8 DEF Once
    <2> QED
        BY <2>6, <2>9, <2>10, <2>11 DEF t
<1> QED
    BY <1>1, <1>2

(* Two receivers, each registered once. *)
LEMMA FewReceivers ==
    ASSUME NEW s \in Seq(Receiver), Once(s, Writer), Once(s, Closer),
           ~In(s, Writer) \/ ~In(s, Closer)
    PROVE  Len(s) <= 1
<1> SUFFICES ASSUME Len(s) > 1 PROVE FALSE
    OBVIOUS
<1>1. Len(s) \in Nat /\ 1 \in DOMAIN s /\ 2 \in DOMAIN s
    OBVIOUS
<1>2. s[1] \in Receiver /\ s[2] \in Receiver
    BY <1>1
<1> QED
    BY <1>1, <1>2 DEF Receiver, Writer, Closer, In, Once

(* Frames and reports, by what they are. *)
LEMMA FrameFacts ==
    /\ \A c \in Chunk : [data |-> c] \in Frame
    /\ \A f \in Frame : "data" \in DOMAIN f => f.data \in Chunk
    /\ \A c \in {"DISCONNECT", "ABORT"} : Report(c) \in Frame
<1>1. \A f \in [data : Chunk] : DOMAIN f = {"data"} /\ f.data \in Chunk
    OBVIOUS
<1>2. \A f \in [cmd : {"DISCONNECT", "ABORT"}] : DOMAIN f = {"cmd"}
    OBVIOUS
<1>3. \A c \in {"DISCONNECT", "ABORT"} : Report(c) \in [cmd : {"DISCONNECT", "ABORT"}]
    BY DEF Report
<1> QED
    BY <1>1, <1>2, <1>3 DEF Frame

LEMMA MsgFacts ==
    /\ \A n, k \in Nat : /\ Buffer(n, k) \in Msg /\ Buffer(n, k).cmd = "BUFFER"
                         /\ Buffer(n, k).n = n /\ Buffer(n, k).k = k
    /\ \A c \in {"CRCFAULT", "DISCONNECTED", "PTT", "EOF"} :
         Report(c) \in Msg /\ Report(c).cmd # "BUFFER"
    /\ \A m \in Msg : m.cmd = "BUFFER" => m.n \in Nat /\ m.k \in Nat
<1>1. \A n, k : Buffer(n, k).cmd = "BUFFER" /\ Buffer(n, k).n = n /\ Buffer(n, k).k = k
    BY DEF Buffer
<1>2. \A c : Report(c).cmd = c
    BY DEF Report
<1>3. \A n, k \in Nat : Buffer(n, k) \in Msg
    BY DEF Msg, Buffer
<1>4. \A c \in {"CRCFAULT", "DISCONNECTED", "PTT", "EOF"} : Report(c) \in Msg
    BY DEF Msg, Report
<1>5. \A m \in Msg : m.cmd = "BUFFER" => m.n \in Nat /\ m.k \in Nat
    BY DEF Msg
<1> HIDE DEF Msg
<1> QED
    BY <1>1, <1>2, <1>3, <1>4, <1>5

(* A sorted sequence of reports stays sorted. *)
LEMMA SortedTail ==
    ASSUME NEW s \in Seq(Msg), s # <<>>, Sorted(s)
    PROVE  Sorted(Tail(s)) /\ (Head(s).cmd = "BUFFER" => ~In(Tail(s), Under(Head(s).k)))
<1> DEFINE t == Tail(s)
<1>1. /\ Len(s) \in Nat /\ Len(s) > 0 /\ DOMAIN s = 1 .. Len(s)
      /\ DOMAIN t = 1 .. (Len(s) - 1) /\ Head(s) = s[1] /\ Head(s) \in Msg
      /\ \A i \in DOMAIN t : t[i] = s[i + 1]
    OBVIOUS
<1> HIDE DEF t
<1>2. \A i \in DOMAIN t : i + 1 \in DOMAIN s /\ 1 < i + 1 /\ s[i + 1] \in Msg
    BY <1>1
<1>3. \A i, j \in DOMAIN t : i < j => i + 1 < j + 1
    BY <1>1
<1>4. Sorted(t)
    BY <1>1, <1>2, <1>3 DEF Sorted
<1>5. ASSUME Head(s).cmd = "BUFFER" PROVE ~In(t, Under(Head(s).k))
    <2> SUFFICES ASSUME NEW i \in DOMAIN t, t[i].cmd = "BUFFER", t[i].k < Head(s).k PROVE FALSE
        BY DEF In, Under
    <2>1. 1 \in DOMAIN s /\ s[1].cmd = "BUFFER" /\ s[i + 1].cmd = "BUFFER"
        BY <1>1, <1>5
    <2>2. s[1].k <= s[i + 1].k
        BY <1>2, <2>1 DEF Sorted
    <2>3. s[1].k \in Nat /\ s[i + 1].k \in Nat
        BY <1>1, <1>2, <2>1, MsgFacts
    <2> QED
        BY <1>1, <2>2, <2>3
<1> QED
    BY <1>4, <1>5 DEF t

LEMMA SortedAppend ==
    ASSUME NEW s \in Seq(Msg), NEW m \in Msg, Sorted(s),
           m.cmd = "BUFFER" => ~In(s, Over(m.k))
    PROVE  Sorted(Append(s, m))
<1> DEFINE t == Append(s, m)
<1>1. /\ Len(s) \in Nat /\ DOMAIN s = 1 .. Len(s) /\ DOMAIN t = 1 .. (Len(s) + 1)
      /\ \A i \in DOMAIN s : t[i] = s[i] /\ s[i] \in Msg
      /\ t[Len(s) + 1] = m
    OBVIOUS
<1> HIDE DEF t
<1>2. \A i \in DOMAIN t : i \in DOMAIN s \/ i = Len(s) + 1
    BY <1>1
<1> SUFFICES ASSUME NEW i \in DOMAIN t, NEW j \in DOMAIN t, i < j,
                    t[i].cmd = "BUFFER", t[j].cmd = "BUFFER"
             PROVE  t[i].k <= t[j].k
    BY DEF Sorted, t
<1>3. i \in DOMAIN s
    BY <1>1, <1>2
<1>4. CASE j \in DOMAIN s
    BY <1>1, <1>3, <1>4 DEF Sorted
<1>5. CASE j = Len(s) + 1
    <2>1. s[i] \notin Over(m.k) /\ s[i].cmd = "BUFFER" /\ m.cmd = "BUFFER" /\ t[j] = m
        BY <1>1, <1>3, <1>5 DEF In
    <2>2. s[i].k \in Nat /\ m.k \in Nat /\ s[i] \in Msg
        BY <1>1, <1>3, <2>1, MsgFacts
    <2> QED
        BY <1>1, <1>3, <2>1, <2>2 DEF Over
<1> QED
    BY <1>2, <1>4, <1>5
-----------------------------------------------------------------------------
-----------------------------------------------------------------------------
(***************************************************************************)
(* Types.                                                                  *)
(***************************************************************************)
LEMMA Constants ==
    /\ MaxWrites \in Nat /\ MaxNoise \in Nat /\ MaxFaults \in Nat
    /\ TxCap \in Nat /\ LineCap \in Nat /\ RecvCap \in Nat /\ RecvCap > 0
BY ConnAssumption

LEMMA EmptySeq == \A T : <<>> \in Seq(T) /\ Len(<<>>) = 0
OBVIOUS

LEMMA ConnInit == Init => ConnInv
<1> SUFFICES ASSUME Init PROVE ConnInv
    OBVIOUS
<1> USE DEF Init
<1>1. TypeOK
    <2>1. Report("PTT") \in Msg
        BY MsgFacts
    <2> QED
        <3>1. msgs \in [Receiver -> Seq(Msg)] /\ \A r \in Receiver : Len(msgs[r]) <= RecvCap
            BY Constants, EmptySeq
        <3>2. tx \in [{"data", "ctrl"} -> Seq(Frame)]
            BY EmptySeq
        <3>3. /\ buffer \in Nat /\ next \in 1 .. (MaxWrites + 1) /\ try \in 1 .. 3
              /\ noise \in 0 .. MaxNoise /\ faults \in 0 .. MaxFaults
            BY Constants
        <3>4. /\ reg \in Seq(Receiver) /\ togo \in Seq(Receiver) /\ Len(reg) <= 2 /\ Len(togo) <= 2
              /\ ctl \in Seq(Msg) /\ Len(ctl) <= 1 /\ line \in Seq(Msg) /\ Len(line) <= LineCap
              /\ queue \in Seq(Chunk) /\ taken \in Seq(Chunk) /\ aired \in Seq(Chunk)
            BY Constants, EmptySeq
        <3> QED
            BY <2>1, <3>1, <3>2, <3>3, <3>4 DEF TypeOK
<1>2. /\ msgs["write"] = <<>> /\ line = <<>> /\ ctl = <<>> /\ queue = <<>>
      /\ togo = <<>> /\ reg = <<>> /\ taken = <<>> /\ aired = <<>>
    BY DEF Receiver
<1>3. Registered /\ WriterInv
    BY <1>2, EmptyFacts DEF Registered, WriterInv
<1>4. ReportInv
    BY <1>2, EmptyFacts, EmptySeq DEF ReportInv, Sorted
<1>5. HandledInv
    <2>1. cast \notin Late
        BY MsgFacts DEF Late
    <2> QED
        BY <1>2, <2>1, EmptyFacts, EmptySeq DEF HandledInv, Ahead
<1>6. LockInv
    BY <1>2, EmptySeq DEF LockInv, FlushCoversCounted
<1> QED
    BY <1>1, <1>3, <1>4, <1>5, <1>6 DEF ConnInv

(* What a function that returns does to its receiver. *)
LEMMA ClosedReceiver ==
    ASSUME TypeOK, Registered, NEW r \in Receiver, CloseReceiver(r)
    PROVE  /\ reg' \in Seq(Receiver) /\ Len(reg') <= 2
           /\ togo' \in Seq(Receiver) /\ Len(togo') <= 2
           /\ \A S \in {Writer, Closer} :
                /\ In(reg', S) => In(reg, S)
                /\ In(togo', S) => In(togo, S)
                /\ Once(reg', S) /\ Once(togo', S)
           /\ ~In(reg', {r}) /\ ~In(togo', {r})
           /\ msgs' \in [Receiver -> Seq(Msg)] /\ msgs'[r] = <<>>
           /\ \A q \in Receiver : q # r => msgs'[q] = msgs[q]
           /\ gone' \subseteq Receiver /\ cast' = cast /\ exited' = exited
<1>1. /\ reg' = Without(reg, r) /\ togo' = Without(togo, r)
      /\ msgs' = [msgs EXCEPT ![r] = <<>>] /\ gone' = gone \ {r}
      /\ cast' = cast /\ exited' = exited
    BY DEF CloseReceiver
<1>2. /\ reg \in Seq(Receiver) /\ togo \in Seq(Receiver) /\ Len(reg) <= 2 /\ Len(togo) <= 2
      /\ msgs \in [Receiver -> Seq(Msg)] /\ gone \subseteq Receiver
    BY DEF TypeOK
<1>3. {r} \in {Writer, Closer}
    BY DEF Receiver, Writer, Closer
<1>4. \A S \in {Writer, Closer} : Once(reg, S) /\ Once(togo, S)
    BY DEF Registered
<1>5. Once(reg, {r}) /\ Once(togo, {r})
    BY <1>3, <1>4
<1>6. \A S \in {Writer, Closer} :
        /\ reg' \in Seq(Receiver) /\ Len(reg') <= Len(reg) /\ ~In(reg', {r})
        /\ In(reg', S) => In(reg, S)
        /\ Once(reg', S)
    BY <1>1, <1>2, <1>4, <1>5, WithoutFacts
<1>7. \A S \in {Writer, Closer} :
        /\ togo' \in Seq(Receiver) /\ Len(togo') <= Len(togo) /\ ~In(togo', {r})
        /\ In(togo', S) => In(togo, S)
        /\ Once(togo', S)
    BY <1>1, <1>2, <1>4, <1>5, WithoutFacts
<1>8. Len(reg) \in Nat /\ Len(togo) \in Nat /\ Len(reg') \in Nat /\ Len(togo') \in Nat
    BY <1>2, <1>6, <1>7
<1>9. Len(reg') <= 2 /\ Len(togo') <= 2
    BY <1>2, <1>6, <1>7, <1>8
<1>10. /\ msgs' \in [Receiver -> Seq(Msg)] /\ msgs'[r] = <<>>
       /\ \A q \in Receiver : q # r => msgs'[q] = msgs[q]
    BY <1>1, <1>2, EmptySeq
<1> QED
    BY <1>1, <1>2, <1>6, <1>7, <1>9, <1>10

(* A goroutine takes the next message of its receiver. *)
LEMMA TakenMsg ==
    ASSUME TypeOK, NEW r \in Receiver, msgs[r] # <<>>, NextMsg(r)
    PROVE  /\ msgs' \in [Receiver -> Seq(Msg)] /\ msgs'[r] = Tail(msgs[r])
           /\ \A q \in Receiver : q # r => msgs'[q] = msgs[q]
           /\ \A q \in Receiver : Len(msgs'[q]) <= RecvCap
           /\ UNCHANGED <<reg, togo, cast, gone, exited>>
<1>1. msgs[r] \in Seq(Msg) /\ Len(msgs[r]) <= RecvCap
    BY DEF TypeOK
<1>2. Tail(msgs[r]) \in Seq(Msg) /\ Len(Tail(msgs[r])) = Len(msgs[r]) - 1 /\ Len(msgs[r]) \in Nat
    BY <1>1, TailFacts
<1>3. Len(Tail(msgs[r])) <= RecvCap
    BY <1>1, <1>2, Constants
<1> QED
    BY <1>2, <1>3 DEF NextMsg, TypeOK

(* The wires and the queue. *)
LEMMA Transferred ==
    ASSUME TypeOK, NEW kind \in {"data", "ctrl"}, NEW f \in Frame, Transfer(kind, f)
    PROVE  /\ tx' \in [{"data", "ctrl"} -> Seq(Frame)]
           /\ \E s \in {"data", "ctrl"} :
                /\ tx'[s] = Append(tx[s], f)
                /\ \A t \in {"data", "ctrl"} : t # s => tx'[t] = tx[t]
<1>1. Stream(kind) \in {"data", "ctrl"}
    BY DEF Stream
<1>2. tx[Stream(kind)] \in Seq(Frame) /\ tx \in [{"data", "ctrl"} -> Seq(Frame)]
    BY <1>1 DEF TypeOK
<1>3. Append(tx[Stream(kind)], f) \in Seq(Frame)
    BY <1>2
<1> QED
    BY <1>1, <1>2, <1>3 DEF Transfer

LEMMA Accepted ==
    ASSUME TypeOK, NEW s \in {"data", "ctrl"}, tx[s] # <<>>, Accept(s)
    PROVE  /\ tx' \in [{"data", "ctrl"} -> Seq(Frame)] /\ tx[s] \in Seq(Frame)
           /\ Head(tx[s]) \in Frame /\ tx'[s] = Tail(tx[s])
           /\ \A t \in {"data", "ctrl"} : t # s => tx'[t] = tx[t]
<1>1. tx \in [{"data", "ctrl"} -> Seq(Frame)] /\ tx[s] \in Seq(Frame)
    BY DEF TypeOK
<1>2. Tail(tx[s]) \in Seq(Frame) /\ Head(tx[s]) \in Frame
    BY <1>1, TailFacts
<1> QED
    BY <1>1, <1>2 DEF Accept

LEMMA Emitted ==
    ASSUME TypeOK, NEW m \in Msg, Emit(m)
    PROVE  line' = Append(line, m) /\ line' \in Seq(Msg) /\ Len(line') <= LineCap
<1>1. line \in Seq(Msg) /\ Len(line) < LineCap /\ line' = Append(line, m) /\ Len(line) \in Nat
    BY DEF TypeOK, Emit
<1>2. line' \in Seq(Msg) /\ Len(line') = Len(line) + 1
    BY <1>1
<1> QED
    BY <1>1, <1>2, Constants

LEMMA Consumed ==
    ASSUME TypeOK, line # <<>>, line' = Tail(line)
    PROVE  line' \in Seq(Msg) /\ Len(line') <= LineCap /\ Head(line) \in Msg
<1>1. line \in Seq(Msg) /\ Len(line) <= LineCap /\ Len(line) \in Nat
    BY DEF TypeOK
<1>2. line' \in Seq(Msg) /\ Len(line') = Len(line) - 1 /\ Head(line) \in Msg
    BY <1>1, TailFacts
<1> QED
    BY <1>1, <1>2, Constants

LEMMA TypeStep ==
    ASSUME ConnInv, Next PROVE TypeOK'
<1>0. TypeOK /\ Registered /\ WriterInv
    BY DEF ConnInv
<1> USE <1>0
<1>1. CASE HandleReport
    <2>1. line' \in Seq(Msg) /\ Len(line') <= LineCap /\ Head(line) \in Msg /\ ctl' = <<Head(line)>>
        BY <1>1, Consumed DEF HandleReport
    <2>2. ctl' \in Seq(Msg) /\ Len(ctl') <= 1
        BY <2>1
    <2>3. /\ buffer' \in Nat /\ locked' \in BOOLEAN /\ waiters' \subseteq {"flush", "close"}
          /\ eof' \in BOOLEAN
        <3>1. Head(line).cmd = "BUFFER" => Head(line).n \in Nat
            BY <2>1, MsgFacts
        <3>2. UpdateBuffer(Head(line).n) \/ UNCHANGED <<buffer, locked, waiters>>
            BY <1>1 DEF HandleReport
        <3>3. buffer' \in Nat
            BY <1>1, <3>1 DEF HandleReport, UpdateBuffer, TypeOK
        <3>4. locked' \in BOOLEAN /\ waiters' \subseteq {"flush", "close"}
            BY <3>2 DEF UpdateBuffer, TypeOK
        <3>5. eof' \in BOOLEAN
            BY <1>1 DEF HandleReport
        <3> QED
            BY <3>3, <3>4, <3>5
    <2> QED
        BY <1>1, <2>1, <2>2, <2>3 DEF HandleReport, TypeOK, writer, caster, past
<1>2. CASE CloseTNC
    <2>1. line' \in Seq(Msg) /\ Len(line') <= LineCap
        BY <1>2, Consumed DEF CloseTNC
    <2> QED
        BY <1>2, <2>1 DEF CloseTNC, TypeOK, writer, caster, past
<1>3. CASE Broadcast
    <2>1. Head(ctl) \in Msg
        BY <1>3, TailFacts DEF Broadcast, TypeOK
    <2> QED
        BY <1>3, <2>1, EmptySeq DEF Broadcast, TypeOK, conn, writer, modem, past
<1>4. CASE Deliver
    <2>1. /\ togo' \in Seq(Receiver) /\ Len(togo') = Len(togo) - 1 /\ Head(togo) \in Receiver
          /\ togo' = Tail(togo)
        BY <1>4, TailFacts DEF Deliver, TypeOK
    <2>2. PICK r \in Receiver : Len(msgs[r]) < RecvCap /\ msgs' = [msgs EXCEPT ![r] = Append(@, cast)]
        BY <1>4, <2>1 DEF Deliver
    <2>3. msgs[r] \in Seq(Msg) /\ cast \in Msg /\ Len(msgs[r]) \in Nat /\ msgs \in [Receiver -> Seq(Msg)]
        BY DEF TypeOK
    <2>4. Append(msgs[r], cast) \in Seq(Msg) /\ Len(Append(msgs[r], cast)) = Len(msgs[r]) + 1
        BY <2>3
    <2>5. msgs' \in [Receiver -> Seq(Msg)] /\ \A q \in Receiver : Len(msgs'[q]) <= RecvCap
        BY <2>2, <2>3, <2>4, Constants DEF TypeOK
    <2>6. Len(togo') <= 2
        BY <2>1 DEF TypeOK
    <2> QED
        <3>1. UNCHANGED <<buffer, locked, waiters, eof, pcW, try, next, stop, pcC, reg, cast, gone,
                          exited, ctl, closed, tx, line, queue, tnc, taken, aired, ok, flushed,
                          seen, flushedTo, noise, faults>>
            BY <1>4 DEF Deliver, conn, writer, loop, modem, past
        <3>2. togo' \in Seq(Receiver) /\ Len(togo') <= 2
            BY <2>1, <2>6
        <3>3. msgs' \in [Receiver -> Seq(Msg)] /\ \A q \in Receiver : Len(msgs'[q]) <= RecvCap
            BY <2>5
        <3> HIDE <1>0
        <3>4. TypeOK
            BY <1>0
        <3> QED
            BY <3>1, <3>2, <3>3, <3>4 DEF TypeOK
<1>5. CASE ReceiverTimeout
    <2>1. /\ togo' \in Seq(Receiver) /\ Len(togo') = Len(togo) - 1 /\ Head(togo) \in Receiver
        BY <1>5, TailFacts DEF ReceiverTimeout, TypeOK
    <2>2. PICK r \in Receiver : gone' = gone \cup {r} /\ reg' = Without(reg, r)
        BY <1>5, <2>1 DEF ReceiverTimeout
    <2>3. Once(reg, {r}) /\ reg \in Seq(Receiver)
        BY DEF Registered, Receiver, Writer, Closer, TypeOK
    <2>4. reg' \in Seq(Receiver) /\ Len(reg') <= Len(reg)
        BY <2>2, <2>3, WithoutFacts
    <2>5. Len(togo') <= 2 /\ Len(reg') <= 2
        BY SMTT(30), <2>1, <2>3, <2>4 DEF TypeOK
    <2> QED
        BY SMTT(30), <1>5, <2>1, <2>2, <2>4, <2>5 DEF ReceiverTimeout, TypeOK, conn, writer, loop, modem, past
<1>6. CASE Exit
    <2>1. {reg[i] : i \in DOMAIN reg} \subseteq Receiver
        BY DEF TypeOK
    <2> QED
        BY <1>6, <2>1, EmptySeq DEF Exit, TypeOK, conn, writer, loop, modem, past
<1>7. CASE WriteListen \/ CloseListen
    <2>1. PICK r \in Receiver : Listen(r) /\ ~In(reg, {r})
        BY <1>7 DEF WriteListen, CloseListen, Registered, Receiver, Writer, Closer
    <2>2. Len(reg) <= 1 /\ reg \in Seq(Receiver)
        BY <2>1, FewReceivers DEF Registered, Receiver, Writer, Closer, TypeOK
    <2>3. reg' \in Seq(Receiver) /\ Len(reg') <= 2
        BY <2>1, <2>2 DEF Listen
    <2>4. /\ UNCHANGED <<conn, try, next, stop, loop, modem, past>>
          /\ UNCHANGED <<togo, cast, msgs, gone, exited>>
        BY <1>7 DEF WriteListen, CloseListen, Listen, writer
    <2>5. pcW' \in {pcW, "send"} /\ pcC' \in {pcC, "send"}
        BY <1>7 DEF WriteListen, CloseListen, writer
    <2> QED
        BY <2>3, <2>4, <2>5 DEF TypeOK, conn, loop, modem, past
<1>8. CASE WriteSend
    <2>1. next \in Chunk /\ [data |-> next] \in Frame
        BY <1>8, FrameFacts DEF WriteSend, WriterInv
    <2>2. tx' \in [{"data", "ctrl"} -> Seq(Frame)] /\ pcW' \in {"wait", "panic"}
        BY <1>8, <2>1, Transferred DEF WriteSend, TypeOK
    <2> QED
        BY <1>8, <2>2 DEF WriteSend, TypeOK, conn, caster, loop, past
<1>9. CASE WriteWait
    <2>0. "write" \in Receiver /\ msgs["write"] # <<>> /\ next \in Chunk /\ pcW = "wait"
        BY <1>9 DEF WriteWait, Receiver, WriterInv
    <2>1. /\ UNCHANGED <<buffer, waiters, eof, pcC, ctl, closed, tx, line, queue, tnc, taken, aired,
                         flushed, flushedTo, noise, faults>>
          /\ locked' \in BOOLEAN
        BY <1>9 DEF WriteWait, TypeOK, loop, modem
    <2>5. seen' \in Nat
        <3>1. Head(msgs["write"]) \in Msg
            BY <2>0, TailFacts DEF TypeOK
        <3> QED
            BY <1>9, <3>1, MsgFacts DEF WriteWait, TypeOK
    <2>2. \/ /\ \E chunks \in {{next}, {}} : \E s \in {stop, TRUE} : WriteReturn(chunks, s)
             /\ try' = try
          \/ /\ try' = try + 1 /\ try # 3 /\ pcW' = "send" /\ NextMsg("write")
             /\ UNCHANGED <<next, stop, ok>>
          \/ NextMsg("write") /\ UNCHANGED <<pcW, try, next, stop, ok>>
        BY <1>9 DEF WriteWait, MaxTries
    <2>3. CASE \E chunks \in {{next}, {}} : \E s \in {stop, TRUE} : WriteReturn(chunks, s)
        <3>1. /\ CloseReceiver("write") /\ next' = next + 1 /\ pcW' = "idle"
              /\ ok' \subseteq ok \cup {next} /\ ok \subseteq ok' /\ stop' \in BOOLEAN
            BY <2>3 DEF WriteReturn, TypeOK
        <3>2. /\ reg' \in Seq(Receiver) /\ Len(reg') <= 2 /\ togo' \in Seq(Receiver) /\ Len(togo') <= 2
              /\ msgs' \in [Receiver -> Seq(Msg)] /\ msgs'["write"] = <<>>
              /\ \A q \in Receiver : q # "write" => msgs'[q] = msgs[q]
              /\ gone' \subseteq Receiver /\ cast' = cast /\ exited' = exited
            BY <2>0, <3>1, ClosedReceiver
        <3>3. \A q \in Receiver : Len(msgs'[q]) <= RecvCap
            <4>1. \A q \in Receiver : Len(msgs[q]) <= RecvCap
                BY DEF TypeOK
            <4>2. Len(msgs'["write"]) <= RecvCap
                BY <3>2, EmptySeq, Constants
            <4> QED
                BY <3>2, <4>1, <4>2
        <3>4. next' \in 1 .. (MaxWrites + 1) /\ ok' \subseteq Chunk /\ flushed' \subseteq ok'
            BY <2>0, <2>1, <3>1, Constants DEF TypeOK, Chunk
        <3>5. try' \in 1 .. 3
            BY <1>9, <2>3 DEF WriteWait, TypeOK, WriteReturn, MaxTries
        <3> QED
            BY <2>1, <2>5, <3>1, <3>2, <3>3, <3>4, <3>5 DEF TypeOK
    <2>4. CASE NextMsg("write")
        <3>1. /\ msgs' \in [Receiver -> Seq(Msg)] /\ \A q \in Receiver : Len(msgs'[q]) <= RecvCap
              /\ UNCHANGED <<reg, togo, cast, gone, exited>>
            BY <2>0, <2>4, TakenMsg
        <3>2. CASE pcW' = "send" /\ try' = try + 1 /\ try # 3 /\ UNCHANGED <<next, stop, ok>>
            BY <2>1, <2>5, <3>1, <3>2 DEF TypeOK
        <3>3. CASE UNCHANGED <<pcW, try, next, stop, ok>>
            BY <2>1, <2>5, <3>1, <3>3 DEF TypeOK
        <3>4. CASE \E chunks \in {{next}, {}} : \E s \in {stop, TRUE} : WriteReturn(chunks, s)
            BY <2>3, <3>4
        <3> QED
            BY <2>2, <3>2, <3>3, <3>4
    <2> QED
        BY <2>2, <2>3, <2>4
<1>10. CASE WriteEOF
    <2>1. /\ CloseReceiver("write") /\ next' = next + 1 /\ pcW' = "idle" /\ ok' = ok /\ stop' = TRUE
          /\ UNCHANGED <<buffer, locked, waiters, eof, try, pcC, ctl, closed, tx, line, queue, tnc,
                         taken, aired, flushed, seen, flushedTo, noise, faults>>
          /\ "write" \in Receiver /\ next \in Chunk
        BY <1>10 DEF WriteEOF, WriteReturn, WriterInv, conn, loop, modem, Receiver
    <2>2. /\ reg' \in Seq(Receiver) /\ Len(reg') <= 2 /\ togo' \in Seq(Receiver) /\ Len(togo') <= 2
          /\ msgs' \in [Receiver -> Seq(Msg)] /\ msgs'["write"] = <<>>
          /\ \A q \in Receiver : q # "write" => msgs'[q] = msgs[q]
          /\ gone' \subseteq Receiver /\ cast' = cast /\ exited' = exited
        BY <2>1, ClosedReceiver
    <2>3. \A q \in Receiver : Len(msgs'[q]) <= RecvCap
        <3>1. \A q \in Receiver : Len(msgs[q]) <= RecvCap
            BY DEF TypeOK
        <3>2. Len(msgs'["write"]) <= RecvCap
            BY <2>2, EmptySeq, Constants
        <3> QED
            BY <2>2, <3>1, <3>2
    <2>4. next' \in 1 .. (MaxWrites + 1)
        BY <2>1, Constants DEF Chunk
    <2> QED
        BY <2>1, <2>2, <2>3, <2>4 DEF TypeOK
<1>11. CASE CallWrite \/ CallFlush \/ FlushReturn
    <2>1. /\ UNCHANGED <<buffer, locked, eof, next, pcC, reg, togo, cast, msgs, gone, exited, ctl,
                         closed, tx, line, queue, tnc, taken, aired, ok, seen, noise, faults>>
        BY <1>11 DEF CallWrite, CallFlush, FlushReturn, conn, caster, loop, modem, past
    <2>2. /\ waiters' \subseteq {"flush", "close"} /\ flushed' \subseteq ok'
          /\ pcW' \in {"idle", "listen", "flush"} /\ try' \in 1 .. 3 /\ flushedTo' \in Nat
        <3>1. CASE CallWrite
            BY <3>1 DEF CallWrite, TypeOK, conn, past
        <3>2. CASE CallFlush
            BY <3>2 DEF CallFlush, WaitChan, TypeOK, past
        <3>3. CASE FlushReturn
            BY <3>3 DEF FlushReturn, TypeOK
        <3> QED
            BY <1>11, <3>1, <3>2, <3>3
    <2>3. stop' \in BOOLEAN
        BY <1>11 DEF CallWrite, CallFlush, FlushReturn, TypeOK
    <2> QED
        BY <2>1, <2>2, <2>3 DEF TypeOK
<1>12. CASE CallClose \/ CloseFlushed \/ CloseTimeout
    <2>1. /\ UNCHANGED <<buffer, locked, eof, pcW, try, next, stop, reg, togo, cast, msgs, gone,
                         exited, ctl, closed, tx, line, queue, tnc, past>>
        BY <1>12 DEF CallClose, CloseFlushed, CloseTimeout, conn, writer, caster, loop, modem
    <2>2. waiters' \subseteq {"flush", "close"} /\ pcC' \in {"flush", "listen", "abort"}
        BY <1>12 DEF CallClose, CloseFlushed, CloseTimeout, WaitChan, TypeOK, conn
    <2> QED
        BY <2>1, <2>2 DEF TypeOK, past
<1>13. CASE CloseSend
    <2>1. tx' \in [{"data", "ctrl"} -> Seq(Frame)] /\ pcC' \in {"wait", "panic"}
        BY <1>13, FrameFacts, Transferred DEF CloseSend, TypeOK
    <2> QED
        BY <1>13, <2>1 DEF CloseSend, TypeOK, conn, writer, caster, loop, past
<1>14. CASE CloseWait \/ CloseAbort
    <2>0. "close" \in Receiver /\ \A q \in Receiver : Len(msgs[q]) <= RecvCap
        BY DEF Receiver, TypeOK
    <2>1. /\ UNCHANGED <<buffer, locked, waiters, eof, pcW, try, next, stop, ctl, closed, line, queue,
                         tnc, taken, aired, ok, flushed, seen, flushedTo, noise, faults>>
          /\ pcC' \in {"wait", "done", "panic"}
        BY <1>14 DEF CloseWait, CloseAbort, conn, writer, loop, modem, past
    <2>2. tx' \in [{"data", "ctrl"} -> Seq(Frame)]
        BY <1>14, FrameFacts, Transferred DEF CloseWait, CloseAbort, TypeOK, modem
    <2>3. CASE CloseReceiver("close")
        <3>1. /\ reg' \in Seq(Receiver) /\ Len(reg') <= 2 /\ togo' \in Seq(Receiver) /\ Len(togo') <= 2
              /\ msgs' \in [Receiver -> Seq(Msg)] /\ msgs'["close"] = <<>>
              /\ \A q \in Receiver : q # "close" => msgs'[q] = msgs[q]
              /\ gone' \subseteq Receiver /\ cast' = cast /\ exited' = exited
            BY <2>0, <2>3, ClosedReceiver
        <3>2. Len(msgs'["close"]) <= RecvCap
            BY <3>1, EmptySeq, Constants
        <3>3. \A q \in Receiver : Len(msgs'[q]) <= RecvCap
            BY <2>0, <3>1, <3>2
        <3> QED
            BY SMTT(30), <2>1, <2>2, <3>1, <3>3 DEF TypeOK
    <2>4. CASE msgs["close"] # <<>> /\ NextMsg("close")
        <3>1. /\ msgs' \in [Receiver -> Seq(Msg)] /\ \A q \in Receiver : Len(msgs'[q]) <= RecvCap
              /\ UNCHANGED <<reg, togo, cast, gone, exited>>
            BY <2>0, <2>4, TakenMsg
        <3> QED
            BY <2>1, <2>2, <3>1 DEF TypeOK
    <2> QED
        BY <1>14, <2>3, <2>4 DEF CloseWait, CloseAbort
<1>15. CASE TakeData
    <2>1. PICK s \in {"data", "ctrl"} :
             /\ Arrives(s, "data") /\ Accept(s)
             /\ \/ /\ tnc = "connected"
                   /\ queue' = Append(queue, Head(tx[s]).data) /\ taken' = Append(taken, Head(tx[s]).data)
                   /\ Emit(Buffer(Len(queue) + 1, Len(taken) + 1))
                \/ UNCHANGED <<queue, taken, line>>
        BY <1>15 DEF TakeData, TypeOK
    <2>2. tx' \in [{"data", "ctrl"} -> Seq(Frame)] /\ Head(tx[s]) \in Frame
        BY <2>1, Accepted DEF Arrives
    <2>3. Head(tx[s]).data \in Chunk
        BY <2>1, <2>2, FrameFacts DEF Arrives
    <2>4. queue' \in Seq(Chunk) /\ taken' \in Seq(Chunk)
        <3>1. queue \in Seq(Chunk) /\ taken \in Seq(Chunk)
            BY DEF TypeOK
        <3>2. \A c \in Chunk : Append(queue, c) \in Seq(Chunk) /\ Append(taken, c) \in Seq(Chunk)
            BY <3>1
        <3> QED
            BY <2>1, <2>3, <3>1, <3>2
    <2>5. line' \in Seq(Msg) /\ Len(line') <= LineCap
        <3>1. CASE Emit(Buffer(Len(queue) + 1, Len(taken) + 1))
            <4>1. Len(queue) + 1 \in Nat /\ Len(taken) + 1 \in Nat
                BY DEF TypeOK
            <4> QED
                BY <3>1, <4>1, MsgFacts, Emitted
        <3>2. CASE line' = line
            BY <3>2 DEF TypeOK
        <3> QED
            BY <2>1, <3>1, <3>2
    <2> QED
        BY SMTT(30), <1>15, <2>2, <2>4, <2>5 DEF TakeData, TypeOK, conn, writer, caster, loop
<1>16. CASE DamagedData
    <2>1. tx' \in [{"data", "ctrl"} -> Seq(Frame)]
        BY <1>16, Accepted DEF DamagedData, Arrives
    <2>2. line' \in Seq(Msg) /\ Len(line') <= LineCap
        BY <1>16, MsgFacts, Emitted DEF DamagedData
    <2>3. faults' \in 0 .. MaxFaults
        BY <1>16, Constants DEF DamagedData, TypeOK
    <2> QED
        BY SMTT(30), <1>16, <2>1, <2>2, <2>3 DEF DamagedData, TypeOK, conn, writer, caster, loop
<1>17. CASE Transmit
    <2>1. Head(queue) \in Chunk /\ queue' \in Seq(Chunk) /\ Len(queue) \in Nat \ {0}
        BY <1>17, TailFacts DEF Transmit, TypeOK
    <2>2. Buffer(Len(queue) - 1, Len(taken)) \in Msg
        <3>1. Len(queue) - 1 \in Nat /\ Len(taken) \in Nat
            BY <2>1 DEF TypeOK
        <3> QED
            BY <3>1, MsgFacts
    <2>3. line' \in Seq(Msg) /\ Len(line') <= LineCap
        BY <1>17, <2>2, Emitted DEF Transmit
    <2>4. aired' \in Seq(Chunk)
        BY <1>17, <2>1 DEF Transmit, TypeOK
    <2> QED
        BY SMTT(30), <1>17, <2>1, <2>3, <2>4 DEF Transmit, TypeOK, conn, writer, caster, loop
<1>18. CASE Hangup
    <2>1. line' \in Seq(Msg) /\ Len(line') <= LineCap
        BY <1>18, MsgFacts, Emitted DEF Hangup
    <2> QED
        BY <1>18, <2>1, EmptySeq DEF Hangup, TypeOK, conn, writer, caster, loop, past
<1>19. CASE TakeCommand
    <2>1. tx' \in [{"data", "ctrl"} -> Seq(Frame)]
        BY <1>19, Accepted DEF TakeCommand, Arrives
    <2>2. line' \in Seq(Msg) /\ Len(line') <= LineCap /\ queue' \in Seq(Chunk)
          /\ tnc' \in {"connected", "disconnected", "dead"}
        <3>1. CASE tnc' = "disconnected" /\ queue' = <<>> /\ Emit(Report("DISCONNECTED"))
            BY <3>1, MsgFacts, Emitted, EmptySeq
        <3>2. CASE UNCHANGED <<tnc, queue, line>>
            BY <3>2 DEF TypeOK
        <3> QED
            BY <1>19, <3>1, <3>2 DEF TakeCommand
    <2> QED
        BY SMTT(30), <1>19, <2>1, <2>2 DEF TakeCommand, TypeOK, conn, writer, caster, loop, past
<1>20. CASE OtherReport
    <2>1. line' \in Seq(Msg) /\ Len(line') <= LineCap
        BY <1>20, MsgFacts, Emitted DEF OtherReport
    <2>2. noise' \in 0 .. MaxNoise
        BY <1>20, Constants DEF OtherReport, TypeOK
    <2> QED
        BY <1>20, <2>1, <2>2 DEF OtherReport, TypeOK, conn, writer, caster, loop
<1>21. CASE Die
    <2>1. line' \in Seq(Msg) /\ Len(line') <= LineCap
        BY <1>21, MsgFacts, Emitted DEF Die
    <2> QED
        BY <1>21, <2>1 DEF Die, TypeOK, conn, writer, caster, loop, past
<1> QED
    BY <1>1, <1>2, <1>3, <1>4, <1>5, <1>6, <1>7, <1>8, <1>9, <1>10, <1>11, <1>12, <1>13, <1>14,
       <1>15, <1>16, <1>17, <1>18, <1>19, <1>20, <1>21
       DEF Next, ControlLoop, Broadcaster, WriteStep, CloseStep, ModemStep
-----------------------------------------------------------------------------
(***************************************************************************)
(* The receivers.                                                          *)
(***************************************************************************)
LEMMA RegisteredStep ==
    ASSUME ConnInv, Next PROVE Registered'
<1>0. TypeOK /\ Registered
    BY DEF ConnInv
<1>1. CASE Broadcast
    BY <1>0, <1>1 DEF Broadcast, Registered, writer
<1>2. CASE Deliver
    <2>1. togo \in Seq(Receiver) /\ togo # <<>> /\ togo' = Tail(togo)
        BY <1>0, <1>2 DEF Deliver, TypeOK
    <2>2. Once(togo', Writer) /\ Once(togo', Closer)
        BY <1>0, <2>1, TailFacts DEF Registered
    <2> QED
        BY <1>0, <1>2, <2>2 DEF Deliver, Registered, writer
<1>3. CASE ReceiverTimeout
    <2>1. /\ togo \in Seq(Receiver) /\ togo # <<>> /\ togo' = Tail(togo) /\ reg \in Seq(Receiver)
          /\ reg' = Without(reg, Head(togo)) /\ Head(togo) \in Receiver
        BY <1>0, <1>3, TailFacts DEF ReceiverTimeout, TypeOK
    <2>2. Once(togo', Writer) /\ Once(togo', Closer)
        BY <1>0, <2>1, TailFacts DEF Registered
    <2>3. Once(reg, {Head(togo)})
        BY <1>0, <2>1 DEF Registered, Receiver, Writer, Closer
    <2>4. \A S \in {Writer, Closer} : (In(reg', S) => In(reg, S)) /\ Once(reg', S)
        <3>1. \A S \in {Writer, Closer} : Once(reg, S)
            BY <1>0 DEF Registered
        <3> QED
            BY <2>1, <2>3, <3>1, WithoutFacts
    <2> QED
        BY <1>0, <1>3, <2>2, <2>4 DEF ReceiverTimeout, Registered, writer
<1>4. CASE Exit
    <2>1. \A S \in {Writer, Closer} : ~In(reg', S) /\ Once(reg', S)
        BY <1>4, EmptyFacts DEF Exit
    <2> QED
        BY <1>0, <1>4, <2>1 DEF Exit, Registered, writer
<1>5. CASE WriteListen
    <2>1. reg' = Append(reg, "write") /\ ~In(reg, Writer) /\ reg \in Seq(Receiver) /\ togo' = togo
        BY <1>0, <1>5 DEF WriteListen, Listen, Registered, TypeOK
    <2>2. "write" \in Receiver /\ "write" \in Writer /\ "write" \notin Closer
        BY DEF Receiver, Writer, Closer
    <2>3. (In(reg', Closer) => In(reg, Closer)) /\ Once(reg', Closer) /\ Once(reg', Writer)
        BY <1>0, <2>1, <2>2, AppendFacts DEF Registered
    <2> QED
        BY <1>0, <1>5, <2>1, <2>3 DEF WriteListen, Registered
<1>6. CASE CloseListen
    <2>1. reg' = Append(reg, "close") /\ ~In(reg, Closer) /\ reg \in Seq(Receiver) /\ togo' = togo
        BY <1>0, <1>6 DEF CloseListen, Listen, Registered, TypeOK
    <2>2. "close" \in Receiver /\ "close" \notin Writer /\ "close" \in Closer
        BY DEF Receiver, Writer, Closer
    <2>3. (In(reg', Writer) => In(reg, Writer)) /\ Once(reg', Closer) /\ Once(reg', Writer)
        BY <1>0, <2>1, <2>2, AppendFacts DEF Registered
    <2> QED
        BY <1>0, <1>6, <2>1, <2>3 DEF CloseListen, Registered, writer
<1>7. CASE WriteWait \/ WriteEOF
    <2>1. \/ CloseReceiver("write") /\ pcC' = pcC
          \/ NextMsg("write") /\ pcC' = pcC /\ pcW' \in {"send", "wait"}
        BY <1>7 DEF WriteWait, WriteEOF, WriteReturn
    <2>2. CASE CloseReceiver("write") /\ pcC' = pcC
        <3>1. "write" \in Receiver
            BY DEF Receiver
        <3>2. /\ \A S \in {Writer, Closer} :
                  (In(reg', S) => In(reg, S)) /\ Once(reg', S) /\ Once(togo', S)
              /\ ~In(reg', {"write"})
            BY <1>0, <2>2, <3>1, ClosedReceiver
        <3> QED
            BY <1>0, <2>2, <3>2 DEF Registered, Writer
    <2>3. CASE NextMsg("write") /\ pcC' = pcC /\ pcW' \in {"send", "wait"}
        BY <1>0, <2>3 DEF Registered, NextMsg
    <2> QED
        BY <2>1, <2>2, <2>3
<1>8. CASE CloseWait \/ CloseAbort
    <2>1. \/ CloseReceiver("close") /\ pcW' = pcW
          \/ NextMsg("close") /\ pcW' = pcW /\ pcC' = "wait"
        BY <1>8 DEF CloseWait, CloseAbort, writer
    <2>2. CASE CloseReceiver("close") /\ pcW' = pcW
        <3>1. "close" \in Receiver
            BY DEF Receiver
        <3>2. /\ \A S \in {Writer, Closer} :
                  (In(reg', S) => In(reg, S)) /\ Once(reg', S) /\ Once(togo', S)
              /\ ~In(reg', {"close"})
            BY <1>0, <2>2, <3>1, ClosedReceiver
        <3> QED
            BY <1>0, <2>2, <3>2 DEF Registered, Closer
    <2>3. CASE NextMsg("close") /\ pcW' = pcW /\ pcC' = "wait"
        BY <1>0, <2>3 DEF Registered, NextMsg
    <2> QED
        BY <2>1, <2>2, <2>3
<1>9. CASE WriteSend \/ CallWrite \/ CallFlush \/ FlushReturn
    BY <1>0, <1>9 DEF WriteSend, CallWrite, CallFlush, FlushReturn, Registered, caster
<1>10. CASE CloseSend \/ CallClose \/ CloseFlushed \/ CloseTimeout
    BY <1>0, <1>10 DEF CloseSend, CallClose, CloseFlushed, CloseTimeout, Registered, caster, writer
<1>11. CASE HandleReport \/ CloseTNC \/ TakeData \/ DamagedData \/ Transmit \/ Hangup \/ TakeCommand
            \/ OtherReport \/ Die
    <2>1. UNCHANGED <<reg, togo, pcW, pcC>>
        BY <1>11 DEF HandleReport, CloseTNC, TakeData, DamagedData, Transmit, Hangup, TakeCommand,
                     OtherReport, Die, writer, caster
    <2> QED
        BY <1>0, <2>1 DEF Registered
<1> QED
    BY <1>1, <1>2, <1>3, <1>4, <1>5, <1>6, <1>7, <1>8, <1>9, <1>10, <1>11
       DEF Next, ControlLoop, Broadcaster, WriteStep, CloseStep, ModemStep
-----------------------------------------------------------------------------
(***************************************************************************)

LEMMA WriterStep ==
    ASSUME ConnInv, Next PROVE WriterInv'
<1>0. WriterInv
    BY DEF ConnInv
<1>1. CASE CallWrite
    BY <1>1 DEF CallWrite, WriterInv
<1>2. CASE WriteListen \/ WriteSend
    BY <1>0, <1>2 DEF WriteListen, WriteSend, WriterInv
<1>3. CASE WriteWait \/ WriteEOF
    BY <1>0, <1>3 DEF WriteWait, WriteEOF, WriteReturn, WriterInv
<1>4. CASE CallFlush \/ FlushReturn
    BY <1>4 DEF CallFlush, FlushReturn, WriterInv
<1>5. CASE ControlLoop \/ Broadcaster \/ CloseStep \/ CallClose \/ ModemStep \/ Transmit
            \/ DamagedData \/ Hangup \/ OtherReport \/ Die
    <2>1. UNCHANGED <<pcW, next>>
        BY <1>5 DEF ControlLoop, HandleReport, CloseTNC, Broadcast, Broadcaster, Deliver,
             ReceiverTimeout, Exit, CloseStep, CloseFlushed, CloseListen, CloseSend, CloseWait,
             CloseTimeout, CloseAbort, CallClose, ModemStep, TakeData, TakeCommand, Transmit,
             DamagedData, Hangup, OtherReport, Die, writer
    <2> QED
        BY <1>0, <2>1 DEF WriterInv
<1> QED
    BY <1>1, <1>2, <1>3, <1>4, <1>5 DEF Next, WriteStep
-----------------------------------------------------------------------------
(***************************************************************************)
(* The reports on their way to the control loop.                           *)
(***************************************************************************)

(* What a step does to them. *)
LineKept == UNCHANGED <<line, taken, aired>>
LineTaken == line # <<>> /\ line' = Tail(line) /\ UNCHANGED <<taken, aired>>
LineOther ==
    /\ \E m \in Msg : m.cmd # "BUFFER" /\ line' = Append(line, m)
    /\ UNCHANGED <<taken, aired>>
LineQueued ==
    /\ \E n \in Nat : n # 0 /\ line' = Append(line, Buffer(n, Len(taken) + 1))
    /\ Len(taken') = Len(taken) + 1 /\ aired' = aired
LineAired ==
    /\ tnc = "connected" /\ Len(queue) \in Nat \ {0}
    /\ line' = Append(line, Buffer(Len(queue) - 1, Len(taken)))
    /\ taken' = taken /\ Len(aired') = Len(aired) + 1

LEMMA LineStep ==
    ASSUME TypeOK, Next
    PROVE  LineKept \/ LineTaken \/ LineOther \/ LineQueued \/ LineAired
<1>1. CASE HandleReport \/ CloseTNC
    BY <1>1 DEF HandleReport, CloseTNC, LineTaken, past
<1>2. CASE TakeData
    <2>1. \/ UNCHANGED <<taken, line>>
          \/ /\ \E c : taken' = Append(taken, c)
             /\ line' = Append(line, Buffer(Len(queue) + 1, Len(taken) + 1))
        BY <1>2 DEF TakeData, Emit
    <2>2. Len(queue) + 1 \in Nat /\ Len(queue) + 1 # 0 /\ taken \in Seq(Chunk)
        BY DEF TypeOK
    <2>3. \A c : taken' = Append(taken, c) => Len(taken') = Len(taken) + 1
        BY <2>2
    <2>4. aired' = aired
        BY <1>2 DEF TakeData
    <2> QED
        BY <2>1, <2>2, <2>3, <2>4 DEF LineKept, LineQueued
<1>3. CASE Transmit
    <2>1. queue \in Seq(Chunk) /\ queue # <<>> /\ aired \in Seq(Chunk)
        BY <1>3 DEF Transmit, TypeOK
    <2>2. Len(queue) \in Nat \ {0}
        BY <2>1
    <2>3. Len(aired') = Len(aired) + 1
        BY <1>3, <2>1 DEF Transmit
    <2> QED
        BY <1>3, <2>2, <2>3 DEF Transmit, Emit, LineAired
<1>4. CASE DamagedData \/ OtherReport
    BY <1>4, MsgFacts DEF DamagedData, OtherReport, Emit, LineOther
<1>5. CASE Hangup \/ Die
    BY <1>5, MsgFacts DEF Hangup, Die, Emit, LineOther, past
<1>6. CASE TakeCommand
    BY <1>6, MsgFacts DEF TakeCommand, Emit, LineOther, LineKept, past
<1>7. CASE Broadcast \/ Broadcaster \/ CallWrite \/ CallFlush \/ CallClose
    BY <1>7 DEF Broadcast, Broadcaster, Deliver, ReceiverTimeout, Exit, CallWrite, CallFlush,
                CallClose, LineKept, modem, past
<1>8. CASE WriteStep
    BY <1>8 DEF WriteStep, WriteListen, WriteSend, WriteWait, WriteEOF, FlushReturn, LineKept,
                modem, past
<1>9. CASE CloseStep
    BY <1>9 DEF CloseStep, CloseFlushed, CloseListen, CloseSend, CloseWait, CloseTimeout,
                CloseAbort, LineKept, modem, past
<1> QED
    BY <1>1, <1>2, <1>3, <1>4, <1>5, <1>6, <1>7, <1>8, <1>9
       DEF Next, ControlLoop, ModemStep

(* The numbers of chunks, as natural numbers. *)
LEMMA Lengths ==
    ASSUME TypeOK
    PROVE  Len(taken) \in Nat /\ Len(aired) \in Nat /\ Len(queue) \in Nat
           /\ seen \in Nat /\ line \in Seq(Msg)
BY DEF TypeOK

(* A report of a chunk count is never overtaken. *)
LEMMA AheadStep ==
    ASSUME ConnInv, Next, NEW x \in Nat, Ahead(x)
    PROVE  Ahead(x)'
<1>0. TypeOK /\ x <= Len(taken) /\ ~In(line, Under(x))
    BY DEF ConnInv, Ahead
<1>1. Len(taken) \in Nat /\ line \in Seq(Msg)
    BY <1>0, Lengths
<1>2. CASE LineKept
    BY <1>0, <1>2 DEF LineKept, Ahead
<1>3. CASE LineTaken
    <2>1. ~In(line', Under(x))
        BY <1>0, <1>1, <1>3, TailFacts DEF LineTaken
    <2> QED
        BY <1>0, <1>3, <2>1 DEF LineTaken, Ahead
<1>4. CASE LineOther
    <2>1. PICK m \in Msg : m.cmd # "BUFFER" /\ line' = Append(line, m)
        BY <1>4 DEF LineOther
    <2>2. m \notin Under(x)
        BY <2>1 DEF Under
    <2>3. ~In(line', Under(x))
        BY <1>0, <1>1, <2>1, <2>2, AppendFacts
    <2> QED
        BY <1>0, <1>4, <2>3 DEF LineOther, Ahead
<1>5. CASE LineQueued
    <2>1. PICK n \in Nat : line' = Append(line, Buffer(n, Len(taken) + 1))
        BY <1>5 DEF LineQueued
    <2>2. Len(taken) + 1 \in Nat /\ ~(Len(taken) + 1 < x)
        BY <1>0, <1>1
    <2>3. /\ Buffer(n, Len(taken) + 1) \in Msg
          /\ Buffer(n, Len(taken) + 1).k = Len(taken) + 1
        BY <2>2, MsgFacts
    <2>4. Buffer(n, Len(taken) + 1) \notin Under(x)
        BY <2>2, <2>3 DEF Under
    <2>5. ~In(line', Under(x))
        BY <1>0, <1>1, <2>1, <2>3, <2>4, AppendFacts
    <2>6. x <= Len(taken')
        BY <1>0, <1>1, <1>5 DEF LineQueued
    <2> QED
        BY <2>5, <2>6 DEF Ahead
<1>6. CASE LineAired
    <2>1. Len(queue) - 1 \in Nat /\ ~(Len(taken) < x) /\ taken' = taken
        BY <1>0, <1>1, <1>6 DEF LineAired
    <2>2. /\ Buffer(Len(queue) - 1, Len(taken)) \in Msg
          /\ Buffer(Len(queue) - 1, Len(taken)).k = Len(taken)
        BY <1>1, <2>1, MsgFacts
    <2>3. Buffer(Len(queue) - 1, Len(taken)) \notin Under(x)
        BY <2>1, <2>2 DEF Under
    <2>4. ~In(line', Under(x))
        BY <1>0, <1>1, <1>6, <2>2, <2>3, AppendFacts DEF LineAired
    <2> QED
        BY <1>0, <2>1, <2>4 DEF Ahead
<1> QED
    BY <1>0, <1>2, <1>3, <1>4, <1>5, <1>6, LineStep

LEMMA LateStep ==
    ASSUME ConnInv, Next PROVE Late' \subseteq Late
<1> SUFFICES ASSUME NEW m \in Msg, m.cmd = "BUFFER", Ahead(m.k) PROVE Ahead(m.k)'
    BY DEF Late
<1> QED
    BY AheadStep, MsgFacts

LEMMA LateNext ==
    \A m : m \in Late' <=> /\ m \in Msg /\ m.cmd = "BUFFER"
                           /\ ~(m.k <= Len(taken') /\ ~In(line', Under(m.k)))
BY DEF Late, Ahead, In

(* A smaller set holds less. *)
LEMMA InSubset ==
    ASSUME NEW s, NEW S, NEW T, S \subseteq T, ~In(s, T) PROVE ~In(s, S)
BY DEF In

(* Numbers in the queue: what is queued and transmitted adds up. *)
LEMMA AddsUp ==
    ASSUME ConnInv, Next
    PROVE  (tnc = "connected" => Len(taken) = Len(aired) + Len(queue))'
<1>0. TypeOK /\ ReportInv
    BY DEF ConnInv
<1>1. CASE TakeData
    <2>1. \/ UNCHANGED <<queue, taken>>
          \/ \E c : queue' = Append(queue, c) /\ taken' = Append(taken, c)
        BY <1>1 DEF TakeData
    <2>2. UNCHANGED <<tnc, aired>>
        BY <1>1 DEF TakeData
    <2>3. queue \in Seq(Chunk) /\ taken \in Seq(Chunk)
        BY <1>0 DEF TypeOK
    <2>4. \A c : Len(Append(queue, c)) = Len(queue) + 1 /\ Len(Append(taken, c)) = Len(taken) + 1
        BY <2>3
    <2>5. Len(queue) \in Nat /\ Len(taken) \in Nat /\ Len(aired) \in Nat
        BY <1>0, Lengths
    <2>6. CASE UNCHANGED <<queue, taken>>
        BY <1>0, <2>2, <2>6 DEF ReportInv
    <2>7. CASE \E c : queue' = Append(queue, c) /\ taken' = Append(taken, c)
        BY <1>0, <2>2, <2>4, <2>5, <2>7 DEF ReportInv
    <2> QED
        BY <2>1, <2>6, <2>7
<1>2. CASE Transmit
    <2>1. queue \in Seq(Chunk) /\ queue # <<>> /\ queue' = Tail(queue) /\ tnc = "connected"
          /\ aired \in Seq(Chunk) /\ aired' = Append(aired, Head(queue)) /\ taken' = taken
        BY <1>0, <1>2 DEF Transmit, TypeOK
    <2>2. /\ Len(queue') = Len(queue) - 1 /\ Len(aired') = Len(aired) + 1
        BY <2>1
    <2> QED
        <3>1. Len(taken) = Len(aired) + Len(queue)
            BY <1>0, <2>1 DEF ReportInv
        <3>2. Len(queue) \in Nat /\ Len(aired) \in Nat
            BY <1>0, Lengths
        <3>3. Len(taken') = Len(aired') + Len(queue')
            BY <2>1, <2>2, <3>1, <3>2
        <3> QED
            BY <3>3
<1>3. CASE Hangup \/ Die
    BY <1>3 DEF Hangup, Die
<1>4. CASE TakeCommand
    BY <1>0, <1>4 DEF TakeCommand, ReportInv, past
<1>5. CASE DamagedData \/ OtherReport \/ ControlLoop \/ Broadcaster
    <2>1. UNCHANGED <<tnc, taken, aired, queue>>
        BY <1>5 DEF DamagedData, OtherReport, ControlLoop, HandleReport, CloseTNC, Broadcast,
             Broadcaster, Deliver, ReceiverTimeout, Exit, modem, past
    <2> QED
        BY <1>0, <2>1 DEF ReportInv
<1>6. CASE CallWrite \/ CallFlush \/ CallClose \/ WriteStep \/ CloseStep
    <2>1. UNCHANGED <<tnc, taken, aired, queue>>
        BY <1>6 DEF CallWrite, CallFlush, CallClose, WriteStep, WriteListen, WriteSend, WriteWait,
             WriteEOF, FlushReturn, CloseStep, CloseFlushed, CloseListen, CloseSend, CloseWait,
             CloseTimeout, CloseAbort, modem, past
    <2> QED
        BY <1>0, <2>1 DEF ReportInv
<1> QED
    BY <1>1, <1>2, <1>3, <1>4, <1>5, <1>6 DEF Next, ModemStep

LEMMA ReportStep ==
    ASSUME ConnInv, Next PROVE ReportInv'
<1>0. TypeOK /\ ReportInv
    BY DEF ConnInv
<1>1. /\ ~In(line, Over(Len(taken))) /\ ~In(line, Wrong) /\ Sorted(line)
      /\ tnc = "connected" => Len(taken) = Len(aired) + Len(queue)
    BY <1>0 DEF ReportInv
<1>n. /\ Len(taken) \in Nat /\ Len(aired) \in Nat /\ line \in Seq(Msg)
    BY <1>0, Lengths
<1> DEFINE Good == ~In(line', Over(Len(taken'))) /\ ~In(line', Wrong') /\ Sorted(line')
<1>2. ASSUME LineKept PROVE Good
    BY <1>1, <1>2 DEF LineKept, Wrong
<1>3. ASSUME LineTaken PROVE Good
    <2>1. Wrong' = Wrong /\ Over(Len(taken')) = Over(Len(taken))
        BY <1>3 DEF LineTaken, Wrong
    <2>2. ~In(line', Over(Len(taken))) /\ ~In(line', Wrong)
        BY <1>1, <1>n, <1>3, TailFacts DEF LineTaken
    <2>3. Sorted(line')
        BY <1>1, <1>n, <1>3, SortedTail DEF LineTaken
    <2> QED
        BY <2>1, <2>2, <2>3
<1>4. ASSUME LineOther PROVE Good
    <2>1. PICK m \in Msg : m.cmd # "BUFFER" /\ line' = Append(line, m)
        BY <1>4 DEF LineOther
    <2>2. Wrong' = Wrong /\ Over(Len(taken')) = Over(Len(taken))
        BY <1>4 DEF LineOther, Wrong
    <2>3. m \notin Wrong /\ m \notin Over(Len(taken))
        BY <2>1 DEF Wrong, Over
    <2>4. ~In(line', Over(Len(taken))) /\ ~In(line', Wrong)
        BY <1>1, <1>n, <2>1, <2>3, AppendFacts
    <2>5. Sorted(line')
        BY <1>1, <1>n, <2>1, SortedAppend
    <2> QED
        BY <2>2, <2>4, <2>5
<1>5. ASSUME LineQueued PROVE Good
    <2>1. PICK n \in Nat : n # 0 /\ line' = Append(line, Buffer(n, Len(taken) + 1))
        BY <1>5 DEF LineQueued
    <2> DEFINE m == Buffer(n, Len(taken) + 1)
    <2>2. Len(taken) + 1 \in Nat
        BY <1>n
    <2>3. m \in Msg /\ m.n = n /\ m.k = Len(taken) + 1
        BY <2>2, MsgFacts
    <2>4. Wrong' = Wrong /\ Len(taken') = Len(taken) + 1
        BY <1>5 DEF LineQueued, Wrong
    <2>5. line' = Append(line, m)
        BY <2>1
    <2> HIDE DEF m
    <2>6. \A k \in Nat : k > Len(taken) + 1 => k > Len(taken)
        BY <1>n
    <2>7. Over(Len(taken) + 1) \subseteq Over(Len(taken))
        BY <2>6, MsgFacts DEF Over
    <2>8. ~In(line, Over(Len(taken) + 1))
        BY <1>1, <2>7, InSubset
    <2>9. m \notin Wrong /\ m \notin Over(Len(taken) + 1)
        BY <2>1, <2>2, <2>3 DEF Wrong, Over
    <2>10. ~In(line', Over(Len(taken) + 1)) /\ ~In(line', Wrong)
        BY <1>1, <1>n, <2>3, <2>5, <2>8, <2>9, AppendFacts
    <2>11. Sorted(line')
        BY <1>1, <1>n, <2>3, <2>5, <2>8, SortedAppend
    <2> QED
        BY <2>4, <2>10, <2>11
<1>6. ASSUME LineAired PROVE Good
    <2> DEFINE m == Buffer(Len(queue) - 1, Len(taken))
    <2>1. /\ Len(queue) - 1 \in Nat /\ Len(queue) \in Nat /\ taken' = taken
          /\ line' = Append(line, m) /\ Len(aired') = Len(aired) + 1
          /\ Len(taken) = Len(aired) + Len(queue)
        BY <1>1, <1>6 DEF LineAired
    <2>2. m \in Msg /\ m.n = Len(queue) - 1 /\ m.k = Len(taken)
        BY <1>n, <2>1, MsgFacts
    <2> HIDE DEF m
    <2>3. \A k \in Nat : k > Len(aired) + 1 => k > Len(aired)
        BY <1>n
    <2>4. Wrong' \subseteq Wrong
        BY <2>1, <2>3, MsgFacts DEF Wrong
    <2>5. m.n = 0 => ~(m.k > Len(aired'))
        BY <1>n, <2>1, <2>2
    <2>6. m \notin Wrong' /\ m \notin Over(Len(taken))
        <3>1. m \notin Wrong'
            BY <2>5 DEF Wrong
        <3>2. ~(m.k > Len(taken))
            BY <1>n, <2>2
        <3> QED
            BY <3>1, <3>2 DEF Over
    <2>7. ~In(line, Wrong')
        BY <1>1, <2>4, InSubset
    <2>8. ~In(line', Over(Len(taken))) /\ ~In(line', Wrong')
        BY <1>1, <1>n, <2>1, <2>2, <2>6, <2>7, AppendFacts
    <2>9. Sorted(line')
        BY <1>1, <1>n, <2>1, <2>2, SortedAppend
    <2> QED
        BY <2>1, <2>8, <2>9
<1>7. Good
    BY <1>0, <1>2, <1>3, <1>4, <1>5, <1>6, LineStep
<1> QED
    BY <1>7, AddsUp DEF ReportInv
-----------------------------------------------------------------------------
(***************************************************************************)
(* The reports that the control loop has handled.                          *)
(***************************************************************************)
LEMMA HandledStep ==
    ASSUME ConnInv, Next PROVE HandledInv'
<1>0. TypeOK /\ ReportInv /\ HandledInv
    BY DEF ConnInv
<1>l. Late' \subseteq Late
    BY LateStep
<1>n. /\ seen \in Nat /\ line \in Seq(Msg) /\ ctl \in Seq(Msg) /\ cast \in Msg
      /\ msgs["write"] \in Seq(Msg) /\ Ahead(seen)
    BY <1>0, Lengths DEF TypeOK, Receiver, HandledInv
<1>s. ASSUME seen' = seen PROVE Ahead(seen)'
    BY <1>n, <1>s, AheadStep DEF Ahead
<1>k. /\ ~In(ctl, Late') /\ cast \notin Late' /\ ~In(msgs["write"], Late')
    BY <1>0, <1>l, InSubset DEF HandledInv
<1>1. CASE HandleReport
    <2>1. /\ line # <<>> /\ line' = Tail(line) /\ ctl' = <<Head(line)>> /\ taken' = taken
          /\ UNCHANGED <<cast, msgs, seen>>
        BY <1>1 DEF HandleReport, caster, past
    <2>2. Head(line) \in Msg
        BY <1>n, <2>1, TailFacts
    <2>3. ASSUME Head(line).cmd = "BUFFER" PROVE Head(line).k <= Len(taken') /\ ~In(line', Under(Head(line).k))
        <3>1. ~In(line', Under(Head(line).k))
            BY <1>0, <1>n, <2>1, <2>3, SortedTail DEF ReportInv
        <3>2. Head(line) \notin Over(Len(taken))
            BY <1>0, <1>n, <2>1, TailFacts DEF ReportInv
        <3>3. Head(line).k \in Nat /\ Len(taken) \in Nat
            BY <1>0, <2>2, <2>3, MsgFacts, Lengths
        <3>4. Head(line).k <= Len(taken)
            BY <2>2, <2>3, <3>2, <3>3 DEF Over
        <3> QED
            BY <2>1, <3>1, <3>4
    <2>4. Head(line) \notin Late'
        BY <2>3, LateNext
    <2>5. ~In(ctl', Late')
        BY <2>1, <2>4 DEF In
    <2> QED
        BY <1>k, <1>s, <2>1, <2>5 DEF HandledInv
<1>2. CASE Broadcast
    <2>1. ctl # <<>> /\ cast' = Head(ctl) /\ ctl' = <<>> /\ UNCHANGED <<msgs, seen>>
        BY <1>2 DEF Broadcast, past
    <2>2. Head(ctl) \notin Late'
        BY <1>n, <1>k, <2>1, TailFacts
    <2> QED
        BY <1>k, <1>s, <2>1, <2>2, EmptyFacts DEF HandledInv
<1>3. CASE Deliver
    <2>1. PICK r : msgs' = [msgs EXCEPT ![r] = Append(@, cast)] /\ UNCHANGED <<ctl, cast, seen>>
        BY <1>3 DEF Deliver, loop, past
    <2>2. msgs \in [Receiver -> Seq(Msg)] /\ "write" \in Receiver
        BY <1>0 DEF TypeOK, Receiver
    <2>3. msgs'["write"] \in {msgs["write"], Append(msgs["write"], cast)}
        BY <2>1, <2>2
    <2>4. ~In(msgs'["write"], Late')
        BY <1>n, <1>k, <2>3, AppendFacts
    <2> QED
        BY <1>k, <1>s, <2>1, <2>4 DEF HandledInv
<1>4. CASE WriteWait
    <2> DEFINE m == Head(msgs["write"])
    <2>0. /\ msgs["write"] # <<>> /\ UNCHANGED <<ctl, line, taken>>
          /\ seen' = IF m.cmd = "BUFFER" THEN m.k ELSE seen
        BY <1>4 DEF WriteWait, loop, modem
    <2>1. CloseReceiver("write") \/ NextMsg("write")
        BY <1>4 DEF WriteWait, WriteReturn
    <2>2. cast' = cast /\ msgs'["write"] \in {<<>>, Tail(msgs["write"])}
        BY <1>0, <2>1 DEF CloseReceiver, NextMsg, TypeOK, Receiver
    <2>3. ~In(msgs'["write"], Late')
        <3>1. ~In(<<>>, Late')
            BY EmptyFacts
        <3>2. ~In(Tail(msgs["write"]), Late')
            BY <1>n, <1>k, <2>0, TailFacts
        <3> QED
            BY <2>2, <3>1, <3>2
    <2>4. m \in Msg /\ m \notin Late
        BY <1>0, <1>n, <2>0, TailFacts DEF HandledInv
    <2> HIDE DEF m
    <2>5. Ahead(seen')
        BY <1>n, <2>0, <2>4 DEF Late
    <2>6. Ahead(seen)'
        BY <2>0, <2>5 DEF Ahead
    <2> QED
        BY <1>k, <2>0, <2>2, <2>3, <2>6 DEF HandledInv
<1>5. CASE WriteEOF \/ CloseWait \/ CloseAbort
    <2>1. \/ CloseReceiver("write") \/ CloseReceiver("close")
          \/ NextMsg("close")
        BY <1>5 DEF WriteEOF, WriteReturn, CloseWait, CloseAbort
    <2>2. ctl' = ctl
        BY <1>5 DEF WriteEOF, CloseWait, CloseAbort, loop
    <2>3. cast' = cast /\ msgs'["write"] \in {<<>>, msgs["write"]}
        BY <1>0, <2>1 DEF CloseReceiver, NextMsg, TypeOK, Receiver
    <2>4. ~In(msgs'["write"], Late')
        BY <1>k, <2>3, EmptyFacts
    <2>5. Ahead(seen)'
        <3>1. seen' = seen
            BY <1>5 DEF WriteEOF, CloseWait, CloseAbort, past
        <3> QED
            BY <1>n, <3>1, AheadStep DEF Ahead
    <2> QED
        BY <1>k, <2>2, <2>3, <2>4, <2>5 DEF HandledInv
<1>6. CASE CloseTNC \/ ReceiverTimeout \/ Exit \/ WriteListen \/ WriteSend \/ FlushReturn
            \/ CloseFlushed \/ CloseListen \/ CloseSend \/ CloseTimeout
            \/ CallWrite \/ CallFlush \/ CallClose \/ ModemStep \/ Transmit \/ DamagedData
            \/ Hangup \/ OtherReport \/ Die
    <2>1. UNCHANGED <<ctl, cast, msgs, seen>>
        BY <1>6 DEF CloseTNC, ReceiverTimeout, Exit, WriteListen, WriteSend, FlushReturn, Listen,
             CloseFlushed, CloseListen, CloseSend, CloseTimeout, CallWrite, CallFlush, CallClose,
             ModemStep, TakeData, TakeCommand, Transmit, DamagedData, Hangup, OtherReport, Die,
             caster, loop, past
    <2>2. Ahead(seen)'
        BY <1>n, <2>1, AheadStep DEF Ahead
    <2> QED
        BY <1>k, <2>1, <2>2 DEF HandledInv
<1> QED
    BY <1>1, <1>2, <1>3, <1>4, <1>5, <1>6
       DEF Next, ControlLoop, Broadcaster, WriteStep, CloseStep
-----------------------------------------------------------------------------
(***************************************************************************)
(* The lock.                                                               *)
(***************************************************************************)

(* What is transmitted stays transmitted. *)
LEMMA AiredGrows ==
    ASSUME TypeOK, Next, NEW x \in Nat, x <= Len(aired) PROVE x <= Len(aired')
<1>1. Len(aired) \in Nat
    BY Lengths
<1>2. Len(aired') \in {Len(aired), Len(aired) + 1}
    BY LineStep DEF LineKept, LineTaken, LineOther, LineQueued, LineAired
<1> QED
    BY <1>1, <1>2

LEMMA LockStep ==
    ASSUME ConnInv, Next PROVE LockInv'
<1>0. TypeOK /\ ReportInv /\ HandledInv /\ LockInv
    BY DEF ConnInv
<1>n. /\ seen \in Nat /\ flushedTo \in Nat /\ Len(aired) \in Nat /\ line \in Seq(Msg)
      /\ locked \in BOOLEAN
    BY <1>0, Lengths DEF TypeOK
<1>a. \A x \in Nat : x <= Len(aired) => x <= Len(aired')
    BY <1>0, AiredGrows
<1>f. flushedTo <= Len(aired)
    BY <1>0 DEF LockInv, FlushCoversCounted
<1>1. CASE HandleReport
    <2> DEFINE m == Head(line)
    <2>1. /\ line # <<>> /\ UNCHANGED <<pcW, seen, flushedTo, aired>>
          /\ \/ m.cmd = "BUFFER" /\ UpdateBuffer(m.n)
             \/ UNCHANGED <<locked, waiters>>
        BY <1>1 DEF HandleReport, writer, past
    <2>2. m \in Msg /\ m \notin Under(seen) /\ m \notin Wrong
        BY <1>0, <1>n, <2>1, TailFacts DEF HandledInv, Ahead, ReportInv
    <2> HIDE DEF m
    <2>3. CASE m.cmd = "BUFFER" /\ UpdateBuffer(m.n) /\ m.n = 0
        <3>1. m.k \in Nat
            BY <2>2, <2>3, MsgFacts
        <3>2. ~(m.k < seen) /\ ~(m.k > Len(aired))
            BY <2>2, <2>3 DEF Under, Wrong
        <3>3. seen <= Len(aired)
            BY <1>n, <3>1, <3>2
        <3> QED
            BY <1>f, <2>1, <3>3 DEF LockInv, FlushCoversCounted
    <2>4. CASE m.cmd = "BUFFER" /\ UpdateBuffer(m.n) /\ m.n # 0
        <3>1. locked' = locked /\ waiters' = waiters
            BY <1>n, <2>4 DEF UpdateBuffer
        <3> QED
            BY <1>0, <2>1, <3>1 DEF LockInv, FlushCoversCounted
    <2>5. CASE UNCHANGED <<locked, waiters>>
        BY <1>0, <2>1, <2>5 DEF LockInv, FlushCoversCounted
    <2> QED
        BY <2>1, <2>3, <2>4, <2>5
<1>2. CASE WriteWait
    <2> DEFINE m == Head(msgs["write"])
    <2>1. /\ UNCHANGED <<aired, flushedTo, waiters>> /\ pcW' # "flush"
          /\ locked' = (locked \/ m.cmd = "BUFFER")
          /\ seen' = IF m.cmd = "BUFFER" THEN m.k ELSE seen
        BY <1>2 DEF WriteWait, WriteReturn, Locks
    <2> QED
        BY <1>0, <1>n, <2>1 DEF LockInv, FlushCoversCounted
<1>3. CASE CallFlush
    <2>1. /\ waiters' = IF locked THEN waiters \cup {"flush"} ELSE waiters
          /\ UNCHANGED <<locked, seen, flushedTo, aired>>
        BY <1>3 DEF CallFlush, WaitChan, past
    <2> QED
        BY <1>0, <1>n, <2>1 DEF LockInv, FlushCoversCounted
<1>4. CASE FlushReturn
    <2>1. /\ UNCHANGED <<locked, seen, aired>> /\ pcW = "flush" /\ pcW' = "idle"
          /\ ("flush" \notin waiters /\ flushedTo' = seen) \/ flushedTo' = flushedTo
        BY <1>4 DEF FlushReturn
    <2> QED
        BY <1>0, <2>1 DEF LockInv, FlushCoversCounted
<1>5. CASE CallClose \/ CloseFlushed
    <2>1. /\ UNCHANGED <<pcW, locked, seen, flushedTo, aired>>
          /\ "flush" \in waiters => "flush" \in waiters'
        BY <1>5 DEF CallClose, CloseFlushed, WaitChan, writer, past
    <2> QED
        BY <1>0, <2>1 DEF LockInv, FlushCoversCounted
<1>6. CASE CallWrite \/ WriteListen \/ WriteSend \/ WriteEOF
    <2>1. UNCHANGED <<locked, seen, flushedTo, aired>> /\ pcW' # "flush"
        BY <1>6 DEF CallWrite, WriteListen, WriteSend, WriteEOF, WriteReturn, conn, past
    <2> QED
        BY <1>0, <2>1 DEF LockInv, FlushCoversCounted
<1>7. CASE CloseTNC \/ Broadcast \/ Broadcaster \/ CloseListen \/ CloseSend \/ CloseWait
            \/ CloseTimeout \/ CloseAbort \/ ModemStep \/ Transmit \/ DamagedData \/ Hangup
            \/ OtherReport \/ Die
    <2>1. UNCHANGED <<pcW, locked, waiters, seen, flushedTo>>
        BY <1>7 DEF CloseTNC, Broadcast, Broadcaster, Deliver, ReceiverTimeout, Exit, CloseListen,
             CloseSend, CloseWait, CloseTimeout, CloseAbort, ModemStep, TakeData, TakeCommand,
             Transmit, DamagedData, Hangup, OtherReport, Die, conn, writer, past
    <2> QED
        BY <1>0, <1>n, <1>a, <2>1 DEF LockInv, FlushCoversCounted
<1> QED
    BY <1>1, <1>2, <1>3, <1>4, <1>5, <1>6, <1>7 DEF Next, ControlLoop, WriteStep, CloseStep
-----------------------------------------------------------------------------
LEMMA ConnStep ==
    ASSUME ConnInv, [Next]_vars PROVE ConnInv'
<1>1. CASE Next
    BY <1>1, TypeStep, RegisteredStep, WriterStep, ReportStep, HandledStep, LockStep DEF ConnInv
<1>2. CASE UNCHANGED vars
    <2> USE <1>2 DEF vars
    <2>1. TypeOK' /\ Registered' /\ WriterInv'
        BY DEF ConnInv, TypeOK, Registered, WriterInv
    <2>2. Wrong' = Wrong /\ (\A x : Ahead(x)' <=> Ahead(x))
        BY DEF Wrong, Ahead
    <2>3. Late' = Late
        BY <2>2 DEF Late
    <2>4. ReportInv'
        BY <2>2 DEF ConnInv, ReportInv
    <2>5. HandledInv'
        BY <2>2, <2>3 DEF ConnInv, HandledInv, Ahead
    <2>6. LockInv'
        BY DEF ConnInv, LockInv, FlushCoversCounted
    <2> QED
        BY <2>1, <2>4, <2>5, <2>6 DEF ConnInv
<1> QED
    BY <1>1, <1>2

(* The reports reach the control loop in the order of what they count, and *)
(* the lock is open only when what Write saw counted is transmitted.       *)
THEOREM ConnInvariant == Spec => []ConnInv
<1>1. Init => ConnInv
    BY ConnInit
<1>2. ConnInv /\ [Next]_vars => ConnInv'
    BY ConnStep
<1> QED
    BY <1>1, <1>2, PTL DEF Spec

(* The connection's variables have their types: above all, Write makes at  *)
(* most three attempts and a receiver is registered only once.             *)
THEOREM TypeCorrect == Spec => []TypeOK
<1>1. ConnInv => TypeOK
    BY DEF ConnInv
<1> QED
    BY <1>1, ConnInvariant, PTL

(* When Flush returns without an error, what the report that ended the     *)
(* last Write counted has been transmitted (tncConn.Write and Flush, the   *)
(* flushLock, updateBuffer).                                               *)
THEOREM FlushCovers == Spec => []FlushCoversCounted
<1>1. ConnInv => FlushCoversCounted
    BY DEF ConnInv, LockInv
<1> QED
    BY <1>1, ConnInvariant, PTL
=============================================================================
