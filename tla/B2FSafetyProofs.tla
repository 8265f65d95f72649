---------------------------- MODULE B2FSafetyProofs ----------------------------
(***************************************************************************)
(* The protocol invariant, and what it says of the mailboxes:              *)
(* SentImpliesReceived and DataMatchesProposal.                            *)
(***************************************************************************)
EXTENDS B2FInvariant, B2FExchangeProofs

(***************************************************************************)
(* Sequences of units.                                                     *)
(***************************************************************************)

LEMMA AppendFacts ==
    ASSUME NEW S, NEW s \in Seq(S), NEW u \in S
    PROVE  /\ Append(s, u) \in Seq(S) /\ Append(s, u) # <<>>
           /\ Len(Append(s, u)) = Len(s) + 1
           /\ DOMAIN Append(s, u) = 1..(Len(s) + 1)
           /\ DOMAIN s = 1..Len(s) /\ Len(s) \in Nat
           /\ \A i \in 1..Len(s) : Append(s, u)[i] = s[i]
           /\ Append(s, u)[Len(s) + 1] = u
OBVIOUS

LEMMA Singleton ==
    ASSUME NEW u
    PROVE  <<u>> # <<>> /\ DOMAIN <<u>> = {1} /\ Len(<<u>>) = 1 /\ <<u>>[1] = u
OBVIOUS

LEMMA NoElement ==
    ASSUME NEW S, NEW s \in Seq(S), \A k \in DOMAIN s : FALSE
    PROVE  s = <<>>
<1>1. Len(s) \in Nat /\ DOMAIN s = 1..Len(s)
    OBVIOUS
<1>2. Len(s) = 0
    BY <1>1
<1> QED
    BY <1>2

LEMMA TailFacts ==
    ASSUME NEW S, NEW s \in Seq(S), s # <<>>
    PROVE  /\ Tail(s) \in Seq(S) /\ Head(s) = s[1] /\ 1 \in DOMAIN s
           /\ Len(s) \in Nat \ {0} /\ Len(Tail(s)) = Len(s) - 1
           /\ DOMAIN Tail(s) = 1..(Len(s) - 1) /\ DOMAIN s = 1..Len(s)
           /\ \A i \in 1..(Len(s) - 1) : Tail(s)[i] = s[i + 1]
OBVIOUS

LEMMA PrefixFacts ==
    ASSUME NEW S, NEW s \in Seq(S), NEW n \in 0..Len(s)
    PROVE  /\ SubSeq(s, 1, n) \in Seq(S) /\ Len(SubSeq(s, 1, n)) = n
           /\ DOMAIN SubSeq(s, 1, n) = 1..n /\ DOMAIN s = 1..Len(s)
           /\ \A i \in 1..n : SubSeq(s, 1, n)[i] = s[i]
           /\ s = <<>> => SubSeq(s, 1, n) = <<>>
OBVIOUS

(* A unit that is not data does not disturb the order of the data. *)
LEMMA InOrderAppendOther ==
    ASSUME NEW w \in Seq(Unit), NEW u \in Unit, u.type # "data", NEW b, NEW t,
           InOrder(w, b, t)
    PROVE  InOrder(Append(w, u), b, t)
<1> DEFINE x == Append(w, u)
<1>1. /\ DOMAIN x = 1..(Len(w) + 1) /\ DOMAIN w = 1..Len(w) /\ Len(w) \in Nat
      /\ \A i \in 1..Len(w) : x[i] = w[i]
      /\ x[Len(w) + 1] = u
    BY AppendFacts
<1> HIDE DEF x
<1>2. \A k : IsData(x, k) <=> IsData(w, k)
    BY <1>1 DEF IsData
<1>3. \A k : IsData(w, k) => k \in DOMAIN w /\ x[k] = w[k]
    BY <1>1 DEF IsData
<1>4. InOrder(x, b, t)
    BY <1>1, <1>2, <1>3 DEF InOrder
<1> QED
    BY <1>4 DEF x

(* The beginning of a wire is in order if the wire is. *)
LEMMA InOrderPrefix ==
    ASSUME NEW w \in Seq(Unit), NEW n \in 0..Len(w), NEW b, NEW t, InOrder(w, b, t)
    PROVE  InOrder(SubSeq(w, 1, n), b, t)
<1> DEFINE x == SubSeq(w, 1, n)
<1>1. /\ DOMAIN x = 1..n /\ DOMAIN w = 1..Len(w)
      /\ \A i \in 1..n : x[i] = w[i]
    BY PrefixFacts
<1> HIDE DEF x
<1>2. \A k : IsData(x, k) <=> IsData(w, k) /\ k \in 1..n
    BY <1>1 DEF IsData
<1>3. InOrder(x, b, t)
    <2> SUFFICES ASSUME NEW k \in DOMAIN x, IsData(x, k)
                 PROVE  /\ \A l \in DOMAIN x :
                             IsData(x, l) /\ x[k].mid = x[l].mid => k = l
                        /\ \E j \in t :
                             /\ b[j] = x[k].mid
                             /\ \A i \in t : i < j =>
                                  \E l \in 1..(k - 1) :
                                     IsData(x, l) /\ x[l].mid = b[i]
        BY DEF InOrder
    <2>1. k \in DOMAIN w /\ IsData(w, k) /\ x[k] = w[k] /\ k <= n
        BY <1>1, <1>2
    <2>2. \A l \in DOMAIN x : IsData(x, l) /\ x[k].mid = x[l].mid => k = l
        BY <1>1, <1>2, <2>1 DEF InOrder
    <2>3. PICK j \in t :
             /\ b[j] = w[k].mid
             /\ \A i \in t : i < j =>
                  \E l \in 1..(k - 1) : IsData(w, l) /\ w[l].mid = b[i]
        BY <2>1 DEF InOrder
    <2>4. ASSUME NEW i \in t, i < j
          PROVE  \E l \in 1..(k - 1) : IsData(x, l) /\ x[l].mid = b[i]
        BY <1>1, <1>2, <2>1, <2>3, <2>4
    <2> QED
        BY <2>1, <2>2, <2>3, <2>4
<1> QED
    BY <1>3 DEF x

(* The first data on the wire is the message whose turn it is. *)
LEMMA InOrderHead ==
    ASSUME NEW w \in Seq(Unit), NEW b, Distinct(b), NEW t, t \subseteq DOMAIN b, t \subseteq Nat,
           InOrder(w, b, t), w # <<>>, Head(w).type = "data",
           NEW i \in t, IsNext(i, t)
    PROVE  b[i] = Head(w).mid
<1>1. IsData(w, 1) /\ Head(w) = w[1] /\ 1 \in DOMAIN w
    BY TailFacts DEF IsData
<1>2. PICK j \in t :
         /\ b[j] = w[1].mid
         /\ \A k \in t : k < j =>
              \E l \in 1..(1 - 1) : IsData(w, l) /\ w[l].mid = b[k]
    BY <1>1 DEF InOrder
<1>3. j = i
    BY <1>2 DEF IsNext
<1> QED
    BY <1>1, <1>2, <1>3

(* Reading the first data takes its index off the awaited ones. *)
LEMMA InOrderTail ==
    ASSUME NEW w \in Seq(Unit), NEW b, Distinct(b), NEW t, t \subseteq DOMAIN b, t \subseteq Nat,
           InOrder(w, b, t), w # <<>>, Head(w).type = "data",
           NEW i \in t, b[i] = Head(w).mid
    PROVE  /\ InOrder(Tail(w), b, t \ {i})
           /\ t = {i} => \A k : ~IsData(Tail(w), k)
<1> DEFINE x == Tail(w)
<1>1. /\ Head(w) = w[1] /\ 1 \in DOMAIN w /\ Len(w) \in Nat \ {0}
      /\ DOMAIN x = 1..(Len(w) - 1) /\ DOMAIN w = 1..Len(w)
      /\ \A k \in 1..(Len(w) - 1) : x[k] = w[k + 1]
    BY TailFacts
<1> HIDE DEF x
<1>2. ASSUME NEW k, IsData(x, k)
      PROVE  k \in Nat /\ k >= 1 /\ IsData(w, k + 1) /\ x[k] = w[k + 1]
    BY <1>1, <1>2 DEF IsData
<1>3. IsData(w, 1) /\ w[1].mid = b[i]
    BY <1>1 DEF IsData
<1>4. ASSUME NEW k \in DOMAIN x, IsData(x, k)
      PROVE  /\ \A l \in DOMAIN x : IsData(x, l) /\ x[k].mid = x[l].mid => k = l
             /\ \E j \in t \ {i} :
                  /\ b[j] = x[k].mid
                  /\ \A h \in t \ {i} : h < j =>
                       \E l \in 1..(k - 1) : IsData(x, l) /\ x[l].mid = b[h]
    <2>1. k \in Nat /\ k >= 1 /\ k + 1 \in DOMAIN w /\ IsData(w, k + 1) /\ x[k] = w[k + 1]
        BY <1>1, <1>2, <1>4
    <2>2. ASSUME NEW l \in DOMAIN x, IsData(x, l), x[k].mid = x[l].mid PROVE k = l
        <3>1. l \in Nat /\ l + 1 \in DOMAIN w /\ IsData(w, l + 1) /\ x[l] = w[l + 1]
            BY <1>1, <1>2, <2>2
        <3>2. k + 1 = l + 1
            BY <2>1, <2>2, <3>1 DEF InOrder
        <3> QED
            BY <2>1, <3>1, <3>2
    <2>3. PICK j \in t :
             /\ b[j] = w[k + 1].mid
             /\ \A h \in t : h < j =>
                  \E l \in 1..((k + 1) - 1) : IsData(w, l) /\ w[l].mid = b[h]
        BY <2>1 DEF InOrder
    <2>4. w[1].mid # w[k + 1].mid
        BY <1>1, <1>3, <2>1 DEF InOrder
    <2>5. j # i
        BY <1>3, <2>3, <2>4
    <2>6. ASSUME NEW h \in t \ {i}, h < j
          PROVE  \E l \in 1..(k - 1) : IsData(x, l) /\ x[l].mid = b[h]
        <3>1. PICK l \in 1..((k + 1) - 1) : IsData(w, l) /\ w[l].mid = b[h]
            BY <2>3, <2>6
        <3>2. b[h] # b[i]
            BY <2>6 DEF Distinct
        <3>3. l # 1
            BY <3>1, <3>2, <1>3
        <3>4. l - 1 \in 1..(k - 1) /\ l - 1 \in DOMAIN x /\ x[l - 1] = w[l]
            BY <3>1, <3>3, <2>1, <1>1 DEF IsData
        <3> QED
            BY <3>1, <3>4 DEF IsData
    <2> QED
        BY <2>1, <2>2, <2>3, <2>5, <2>6
<1>5. InOrder(x, b, t \ {i})
    BY <1>4 DEF InOrder
<1>6. ASSUME t = {i} PROVE \A k : ~IsData(x, k)
    BY <1>4, <1>6 DEF IsData
<1> QED
    BY <1>5, <1>6 DEF x

(* Writing the next message keeps the order. *)
LEMMA InOrderAppendData ==
    ASSUME NEW w \in Seq(Unit), NEW b, NEW t, NEW s, s \subseteq t, t \subseteq Nat,
           Distinct(b), t \subseteq DOMAIN b,
           InOrder(w, b, t), Before(w, b, t, s), AllSent(w, b, t, s),
           NEW i \in s, IsNext(i, s), NEW u \in Unit, u.type = "data", u.mid = b[i]
    PROVE  /\ InOrder(Append(w, u), b, t)
           /\ Before(Append(w, u), b, t, s \ {i})
           /\ AllSent(Append(w, u), b, t, s \ {i})
<1> DEFINE x == Append(w, u)
<1>1. /\ DOMAIN x = 1..(Len(w) + 1) /\ DOMAIN w = 1..Len(w) /\ Len(w) \in Nat
      /\ \A k \in 1..Len(w) : x[k] = w[k]
      /\ x[Len(w) + 1] = u
    BY AppendFacts
<1> HIDE DEF x
<1>2. IsData(x, Len(w) + 1)
    BY <1>1 DEF IsData
<1>3. ASSUME NEW k, IsData(w, k) PROVE IsData(x, k) /\ x[k] = w[k] /\ k \in 1..Len(w)
    BY <1>1, <1>3 DEF IsData
<1>4. ASSUME NEW k, IsData(x, k), k # Len(w) + 1 PROVE IsData(w, k) /\ x[k] = w[k] /\ k \in 1..Len(w)
    BY <1>1, <1>4 DEF IsData
<1>5. ASSUME NEW k, IsData(w, k) PROVE w[k].mid # b[i]
    BY <1>5 DEF Before, IsData
<1>6. InOrder(x, b, t)
    <2> SUFFICES ASSUME NEW k \in DOMAIN x, IsData(x, k)
                 PROVE  /\ \A l \in DOMAIN x : IsData(x, l) /\ x[k].mid = x[l].mid => k = l
                        /\ \E j \in t :
                             /\ b[j] = x[k].mid
                             /\ \A h \in t : h < j =>
                                  \E l \in 1..(k - 1) : IsData(x, l) /\ x[l].mid = b[h]
        BY DEF InOrder
    <2>1. CASE k = Len(w) + 1
        <3>1. \A l \in DOMAIN x : IsData(x, l) /\ x[k].mid = x[l].mid => k = l
            BY <1>1, <1>4, <1>5, <2>1
        <3>2. ASSUME NEW h \in t, h < i
              PROVE  \E l \in 1..(k - 1) : IsData(x, l) /\ x[l].mid = b[h]
            <4>0. h \in Nat /\ i \in Nat
                OBVIOUS
            <4>a. ~(i <= h)
                BY <3>2, <4>0
            <4>1. h \in t \ s
                BY <4>a, IsNext(i, s) DEF IsNext
            <4>2. PICK l \in DOMAIN w : IsData(w, l) /\ w[l].mid = b[h]
                BY <4>1 DEF AllSent
            <4> QED
                BY <4>2, <1>1, <1>3, <2>1
        <3> QED
            BY <1>1, <2>1, <3>1, <3>2
    <2>2. CASE k # Len(w) + 1
        <3>1. IsData(w, k) /\ x[k] = w[k] /\ k \in 1..Len(w)
            BY <1>4, <2>2
        <3>2. \A l \in DOMAIN x : IsData(x, l) /\ x[k].mid = x[l].mid => k = l
            BY <1>1, <1>4, <1>5, <3>1 DEF InOrder
        <3>3. PICK j \in t :
                 /\ b[j] = w[k].mid
                 /\ \A h \in t : h < j =>
                      \E l \in 1..(k - 1) : IsData(w, l) /\ w[l].mid = b[h]
            BY <3>1, <1>1 DEF InOrder
        <3>4. ASSUME NEW h \in t, h < j
              PROVE  \E l \in 1..(k - 1) : IsData(x, l) /\ x[l].mid = b[h]
            BY <3>3, <3>4, <1>3
        <3> QED
            BY <3>1, <3>2, <3>3, <3>4
    <2> QED
        BY <2>1, <2>2
<1>7. Before(x, b, t, s \ {i})
    <2> SUFFICES ASSUME NEW k \in DOMAIN x, NEW j \in t, NEW h \in s \ {i},
                        IsData(x, k), x[k].mid = b[j]
                 PROVE  j < h
        BY DEF Before
    <2>1. CASE k = Len(w) + 1
        <3>1. j = i
            BY <2>1, <1>1 DEF Distinct
        <3>2. i <= h /\ i # h
            BY IsNext(i, s) DEF IsNext
        <3>3. i \in Nat /\ h \in Nat
            OBVIOUS
        <3> QED
            BY <3>1, <3>2, <3>3
    <2>2. CASE k # Len(w) + 1
        BY <2>2, <1>1, <1>4 DEF Before
    <2> QED
        BY <2>1, <2>2
<1>8. AllSent(x, b, t, s \ {i})
    <2> SUFFICES ASSUME NEW j \in t \ (s \ {i})
                 PROVE  \E k \in DOMAIN x : IsData(x, k) /\ x[k].mid = b[j]
        BY DEF AllSent
    <2>1. CASE j = i
        BY <2>1, <1>1, <1>2
    <2>2. CASE j # i
        <3>1. PICK k \in DOMAIN w : IsData(w, k) /\ w[k].mid = b[j]
            BY <2>2 DEF AllSent
        <3> QED
            BY <3>1, <1>1, <1>3
    <2> QED
        BY <2>1, <2>2
<1> QED
    BY <1>6, <1>7, <1>8 DEF x

(***************************************************************************)
(* The steps.                                                              *)
(***************************************************************************)

(* A step of one peer: what it does to its own variables, and what it       *)
(* leaves of the remote's.                                                  *)
RemoteSame(q) ==
    /\ pc'[q] = pc[q] /\ props'[q] = props[q] /\ todo'[q] = todo[q]
    /\ acc'[q] = acc[q] /\ rej'[q] = rej[q]
    /\ Held(q)' = Held(q) /\ Stored(q)' = Stored(q)

LEMMA SplitPeers ==
    ASSUME NEW p \in Peer, PairInv(p, Other(p))', PairInv(Other(p), p)'
    PROVE  ProtocolInv'
BY OtherPeer DEF ProtocolInv

(* A session that ends, in whatever way, disturbs nothing: the remote still *)
(* finds no confirmation of what has not been stored.                       *)
LEMMA ReturnKeeps ==
    ASSUME TypeOK, TypeOK', ProtocolInv, NEW p \in Peer, NEW r, NEW w \in Wires, Return(p, r, w),
           NEW u \in Unit,
           \/ w = wire
           \/ w = Put(wire, p, u) /\ (u.type = "***" \/ (u.type = "FQ" /\ pc[p] = "send")),
           Held(p) \subseteq Held(p)', Held(Other(p))' = Held(Other(p)),
           UNCHANGED <<statReceived, master, up>>
    PROVE  ProtocolInv'
<1> DEFINE q == Other(p)
<1>p. q \in Peer /\ q # p /\ Other(q) = p
    BY OtherPeer
<1>i. PairInv(p, q) /\ PairInv(q, p)
    BY <1>p DEF ProtocolInv
<1>0. /\ pc'[p] = "idle" /\ wire'[p] = <<>> /\ todo'[p] = {}
      /\ acc'[p] = {} /\ rej'[p] = {} /\ Held(p) \subseteq Held(p)'
      /\ Stored(p) \subseteq Stored(p)'
      /\ RemoteSame(q) /\ master' = master /\ up' = up
    BY <1>p DEF Return, TypeOK, RemoteSame, Stored
<1>1. \/ wire'[q] = wire[q]
      \/ /\ wire'[q] = Append(wire[q], u) /\ Alive(q)
         /\ u.type = "***" \/ (u.type = "FQ" /\ pc[p] = "send")
    BY <1>p DEF Return, TypeOK, Put, Wires, Reaches, Alive
<1>2. wire[q] \in Seq(Unit) /\ wire[p] \in Seq(Unit)
    BY <1>p DEF TypeOK
<1> HIDE DEF q
<1>3. FrameInv(p)'
    BY <1>0, <1>i DEF PairInv, FrameInv, Alive
<1>4. FrameInv(q)'
    BY <1>0, <1>1, <1>i DEF PairInv, FrameInv, Alive, RemoteSame
<1>5. HandshakeInv(p, q)'
    BY <1>0, <1>i DEF PairInv, HandshakeInv, Alive, RemoteSame
<1>6. HandshakeInv(q, p)'
    BY SMTT(60), <1>0, <1>1, <1>2, <1>i DEF PairInv, HandshakeInv, Alive, RemoteSame
<1>7. WireInv(p, q)'
    BY <1>0, <1>i DEF PairInv, WireInv, Alive, RemoteSame
<1>8. WireInv(q, p)'
    BY <1>0, <1>i DEF PairInv, WireInv, Alive, RemoteSame
<1>9. TurnInv(p, q)'
    BY <1>0 DEF TurnInv, Alive
<1>10. TurnInv(q, p)'
    BY <1>0 DEF TurnInv, Alive
<1>11. AnswerInv(p, q)'
    BY <1>0 DEF AnswerInv
<1>a. ASSUME wire'[q] # wire[q]
      PROVE  /\ wire'[q] = Append(wire[q], u) /\ Alive(q)
             /\ DOMAIN wire'[q] = 1..(Len(wire[q]) + 1)
             /\ DOMAIN wire[q] = 1..Len(wire[q]) /\ Len(wire[q]) \in Nat
             /\ \A i \in 1..Len(wire[q]) : wire'[q][i] = wire[q][i]
             /\ wire'[q][Len(wire[q]) + 1] = u
             /\ u.type = "***" \/ (u.type = "FQ" /\ pc[p] = "send")
    BY <1>1, <1>2, <1>a, AppendFacts
<1>12. AnswerInv(q, p)'
    <2>1. CASE wire'[q] = wire[q]
        BY <1>0, <1>i, <2>1 DEF PairInv, AnswerInv, Alive, RemoteSame
    <2>2. CASE wire'[q] # wire[q]
        <3>1. \A i \in DOMAIN wire[q] : wire[q][i].type = "FS" => pc[p] # "send"
            BY <1>i DEF PairInv, AnswerInv, Alive
        <3>2. ASSUME NEW k \in DOMAIN wire'[q], wire'[q][k].type = "FS"
              PROVE  k \in DOMAIN wire[q] /\ wire'[q][k] = wire[q][k] /\ u.type = "***"
            BY <1>a, <2>2, <3>1, <3>2
        <3>3. ASSUME NEW k \in DOMAIN wire'[q], k \notin DOMAIN wire[q]
              PROVE  wire'[q][k] = u
            BY <1>a, <2>2, <3>3
        <3> QED
            BY SMTT(60), <1>0, <1>i, <1>a, <2>2, <3>2, <3>3 DEF PairInv, AnswerInv, Alive, RemoteSame
    <2> QED
        BY <2>1, <2>2
<1>13. DataInv(p)'
    BY <1>0 DEF DataInv, IsData, InOrder
<1>14. DataInv(q)'
    <2>1. CASE wire'[q] = wire[q]
        BY <1>0, <1>i, <2>1 DEF PairInv, DataInv, RemoteSame
    <2>2. CASE wire'[q] # wire[q]
        <3>1. InOrder(wire'[q], props'[q], todo'[q])
            BY <1>0, <1>i, <1>2, <1>a, <2>2, InOrderAppendOther
               DEF PairInv, DataInv, RemoteSame
        <3>2. \A k \in DOMAIN wire'[q] :
                 wire'[q][k].type \in {"F>", "data"} =>
                    k \in DOMAIN wire[q] /\ wire'[q][k] = wire[q][k]
            BY <1>a, <2>2
        <3> QED
            BY <1>0, <1>i, <3>1, <3>2 DEF PairInv, DataInv, IsData, RemoteSame
    <2> QED
        BY <2>1, <2>2
<1>15. SendInv(p, q)'
    BY <1>0 DEF SendInv, Alive
<1>16. SendInv(q, p)'
    BY <1>0 DEF SendInv, Alive
<1>17. OwedInv(p, q)'
    BY <1>0 DEF OwedInv
<1>18. OwedInv(q, p)'
    <2>1. CASE wire'[q] = wire[q]
        BY <1>0, <1>i, <2>1 DEF PairInv, OwedInv, Taken, Alive, RemoteSame
    <2>2. CASE wire'[q] # wire[q]
        <3>1. ~(pc[p] = "receive" /\ u.type = "FQ")
            BY <1>a, <2>2
        <3>2. u.type = "FQ" /\ pc[q] \in {"send", "confirm"} => Taken(q) \subseteq Stored(p)
            BY <1>a, <1>i, <2>2 DEF PairInv, OwedInv, Alive
        <3> QED
            BY SMTT(30), <1>0, <1>i, <1>a, <2>2, <3>2
               DEF PairInv, OwedInv, Taken, Alive, RemoteSame, Confirming
    <2> QED
        BY <2>1, <2>2
<1> QED
    BY <1>3, <1>4, <1>5, <1>6, <1>7, <1>8, <1>9, <1>10, <1>11, <1>12, <1>13,
       <1>14, <1>15, <1>16, <1>17, <1>18, SplitPeers DEF PairInv, q

(* A step of p inside handleOutbound that neither reads nor writes. *)
LEMMA LocalKeeps ==
    ASSUME TypeOK, ProtocolInv, NEW p \in Peer, RemoteSame(Other(p)), todo'[p] = todo[p],
           UNCHANGED <<wire, inbox, torn, statReceived, master, up>>,
           \/ /\ pc[p] = "outbound" /\ pc'[p] \in {"propose", "send"}
              /\ acc'[p] = acc[p] /\ rej'[p] = rej[p]
           \/ /\ BlockSent(p) /\ pc'[p] = "send" /\ acc'[p] = acc[p]
              /\ rej'[p] \subseteq rej[p]
           \/ /\ BlockSent(p) /\ pc'[p] = (IF acc[p] = {} THEN "outbound" ELSE "confirm")
              /\ acc'[p] = acc[p] /\ rej'[p] = {}
           \/ /\ pc[p] = "confirm" /\ pc'[p] = "mark"
              /\ wire[p] # <<>> /\ Head(wire[p]).type \in Confirming
              /\ acc'[p] = acc[p] /\ rej'[p] = rej[p]
           \/ /\ pc[p] = "mark" /\ pc'[p] = "mark" /\ acc'[p] \subseteq acc[p]
              /\ rej'[p] = rej[p]
           \/ /\ pc[p] = "mark" /\ pc'[p] = "inbound" /\ acc[p] = {}
              /\ acc'[p] = acc[p] /\ rej'[p] = rej[p]
    PROVE  ProtocolInv'
<1> DEFINE q == Other(p)
<1>p. q \in Peer /\ q # p /\ Other(q) = p
    BY OtherPeer
<1>i. PairInv(p, q) /\ PairInv(q, p)
    BY <1>p DEF ProtocolInv
<1>0. /\ todo[p] = {} /\ todo'[p] = {}
      /\ pc[p] \in {"outbound", "send", "confirm", "mark"}
      /\ pc'[p] \in {"outbound", "propose", "send", "confirm", "mark", "inbound"}
      /\ Alive(p) /\ Alive(p)' /\ RemoteSame(q)
      /\ Held(p)' = Held(p) /\ Stored(p)' = Stored(p)
    BY DEF TypeOK, Live, BlockSent, Alive, Held, Stored
<1>1. acc'[p] \subseteq acc[p] /\ rej'[p] \subseteq rej[p]
    BY DEF BlockSent
<1>2. (pc'[p] # "inbound" \/ acc[p] = {})
      /\ (pc'[p] \in {"outbound", "propose"} => acc[p] = {})
      /\ (pc'[p] \in {"send", "confirm"} => acc'[p] = acc[p])
    BY <1>i DEF PairInv, FrameInv, BlockSent
<1>3. Listening(p) => Listening(p)'
    BY <1>0 DEF Listening, BlockSent
<1>4. /\ pc'[p] \in {"outbound", "propose"} \/ (pc'[p] = "send" /\ acc'[p] = {})
      => pc[p] = "outbound" \/ (pc[p] = "send" /\ acc[p] = {})
    BY <1>0 DEF BlockSent
<1>5. \A i \in DOMAIN wire[p] : wire[p][i].type # "data"
    BY <1>0, <1>i DEF PairInv, DataInv, IsData
<1>6. pc[p] = "confirm" =>
         wire[p] # <<>> /\ 1 \in DOMAIN wire[p] /\ wire[p][1].type \in Confirming
    BY TailFacts DEF TypeOK, BlockSent
<1>7. Taken(p) = acc[p] /\ Taken(p)' = acc'[p]
    BY <1>0 DEF Taken
<1> HIDE DEF q
<1>11. FrameInv(p)' /\ FrameInv(q)'
    BY <1>0, <1>1, <1>2, <1>i DEF PairInv, FrameInv, RemoteSame, Alive
<1>12. HandshakeInv(p, q)' /\ HandshakeInv(q, p)'
    BY <1>0, <1>i DEF PairInv, HandshakeInv, RemoteSame, Alive
<1>13. WireInv(p, q)'
    BY <1>0, <1>3, <1>i DEF PairInv, WireInv, RemoteSame, Alive
<1>14. WireInv(q, p)'
    <2>1. ASSUME NEW k \in DOMAIN wire[q], wire[q][k].type # "handshake"
          PROVE  /\ wire[p] = <<>> /\ wire[q][k].type = "data"
                 /\ pc[p] = "send" /\ wire[q][k].mid \in acc[p]
        BY <1>0, <1>6, <1>i, <2>1 DEF PairInv, WireInv
    <2>2. pc[p] = "send" /\ acc[p] # {} => pc'[p] \in {"send", "confirm"} /\ acc'[p] = acc[p]
        BY DEF BlockSent
    <2> QED
        BY <1>0, <2>1, <2>2 DEF WireInv, Listening
<1>15. TurnInv(p, q)' /\ TurnInv(q, p)'
    BY <1>0, <1>3, <1>4, <1>i DEF PairInv, TurnInv, RemoteSame, Alive, Listening
<1>16. AnswerInv(p, q)' /\ AnswerInv(q, p)'
    BY <1>0, <1>i DEF PairInv, AnswerInv, RemoteSame, Alive
<1>17. DataInv(p)' /\ DataInv(q)'
    BY <1>0, <1>5, <1>i DEF PairInv, DataInv, InOrder, IsData, RemoteSame
<1>18. SendInv(p, q)' /\ SendInv(q, p)'
    BY <1>0, <1>i DEF PairInv, SendInv, RemoteSame, Alive
<1>19. OwedInv(p, q)'
    <2>1. pc'[p] \in {"send", "confirm"} => acc'[p] = {} \/ pc[p] \in {"send", "confirm"}
        BY <1>0, <1>2, <1>i DEF PairInv, FrameInv, BlockSent
    <2>2. pc'[p] = "mark" => acc'[p] \subseteq Stored(q)
        BY <1>0, <1>1, <1>6, <1>7, <1>i DEF PairInv, OwedInv, BlockSent
    <2> QED
        BY <1>0, <1>1, <1>2, <1>7, <1>i, <2>1, <2>2 DEF PairInv, OwedInv, RemoteSame, Alive
<1>20. OwedInv(q, p)'
    BY <1>0, <1>i DEF PairInv, OwedInv, Taken, RemoteSame, Alive
<1> QED
    BY <1>11, <1>12, <1>13, <1>14, <1>15, <1>16, <1>17, <1>18, <1>19, <1>20, SplitPeers
       DEF PairInv, q

(* What a write of p does to the two wires. *)
LEMMA PutFacts ==
    ASSUME NEW w \in Wires, NEW p \in Peer, NEW u
    PROVE  /\ Put(w, p, u)[p] = w[p]
           /\ Reaches(p) => Put(w, p, u)[Other(p)] = Append(w[Other(p)], u)
           /\ ~Reaches(p) => Put(w, p, u)[Other(p)] = w[Other(p)]
BY OtherPeer DEF Put, Wires

(* What a read of p does to the two wires. *)
LEMMA TakeFacts ==
    ASSUME TypeOK, NEW p \in Peer, wire[p] # <<>>
    PROVE  /\ Take(p) \in Wires /\ Take(p)[p] = Tail(wire[p])
           /\ Take(p)[Other(p)] = wire[Other(p)]
           /\ Head(wire[p]) = wire[p][1] /\ 1 \in DOMAIN wire[p]
           /\ Len(wire[p]) \in Nat \ {0} /\ DOMAIN wire[p] = 1..Len(wire[p])
           /\ DOMAIN Tail(wire[p]) = 1..(Len(wire[p]) - 1)
           /\ Len(Tail(wire[p])) = Len(wire[p]) - 1
           /\ Tail(wire[p]) \in Seq(Unit)
           /\ \A k \in 1..(Len(wire[p]) - 1) : Tail(wire[p])[k] = wire[p][k + 1]
<1>1. wire[p] \in Seq(Unit) /\ wire \in Wires
    BY DEF TypeOK, Wires
<1> QED
    BY <1>1, TailFacts, TakeType, OtherPeer DEF Take, Wires

LEMMA StartKeeps ==
    ASSUME TypeOK, ProtocolInv, NEW p \in Peer, Start(p)
    PROVE  ProtocolInv'
<1> DEFINE q == Other(p)
<1>p. q \in Peer /\ q # p /\ Other(q) = p
    BY OtherPeer
<1>i. PairInv(p, q) /\ PairInv(q, p)
    BY <1>p DEF ProtocolInv
<1>0. /\ pc[p] = "start" /\ pc'[p] = "handshake" /\ RemoteSame(q)
      /\ props' = props /\ todo' = todo /\ acc' = acc /\ rej' = rej
      /\ Held(p)' = Held(p) /\ Stored(p)' = Stored(p) /\ master' = master /\ up' = up
    BY <1>p DEF Start, TypeOK, RemoteSame, Held, Stored, Goto, mailbox, frame, stats
<1>1. wire \in Wires
    BY DEF TypeOK, Wires
<1>2. Alive(q) => wire[q] = <<>>
    BY <1>0, <1>i DEF PairInv, HandshakeInv
<1>3. /\ wire'[p] = wire[p]
      /\ \/ wire'[q] = wire[q]
         \/ /\ p = master /\ Alive(q) /\ pc[q] \in {"start", "handshake"}
            /\ wire'[q] = <<Line("handshake")>>
    BY <1>0, <1>1, <1>2, <1>i, PutFacts
       DEF Start, SendHandshake, Reaches, Alive, PairInv, HandshakeInv
<1>4. ASSUME wire'[q] # wire[q]
      PROVE  /\ p = master /\ Alive(q) /\ pc[q] \in {"start", "handshake"}
             /\ wire'[q] # <<>> /\ DOMAIN wire'[q] = {1} /\ Len(wire'[q]) = 1
             /\ wire'[q][1].type = "handshake"
    <2>1. Line("handshake").type = "handshake"
        BY DEF Line
    <2>2. wire'[q] = <<Line("handshake")>>
        BY <1>3, <1>4
    <2> QED
        BY <1>3, <1>4, <2>1, <2>2, Singleton
<1> HIDE DEF q
<1>11. FrameInv(p)' /\ FrameInv(q)'
    BY <1>0, <1>3, <1>4, <1>i DEF PairInv, FrameInv, RemoteSame, Alive
<1>12. HandshakeInv(p, q)' /\ HandshakeInv(q, p)'
    BY <1>0, <1>2, <1>3, <1>4, <1>p, <1>i DEF PairInv, HandshakeInv, RemoteSame, Alive
<1>13. WireInv(p, q)'
    BY <1>0, <1>3, <1>4, <1>i DEF PairInv, WireInv, RemoteSame, Alive, Listening
<1>14. WireInv(q, p)'
    BY <1>0, <1>3, <1>4, <1>i DEF PairInv, WireInv, RemoteSame, Alive, Listening
<1>15. TurnInv(p, q)' /\ TurnInv(q, p)'
    BY <1>0, <1>3, <1>4, <1>i DEF PairInv, TurnInv, RemoteSame, Alive, Listening
<1>16. AnswerInv(p, q)' /\ AnswerInv(q, p)'
    BY <1>0, <1>3, <1>4, <1>i DEF PairInv, AnswerInv, RemoteSame, Alive
<1>17. DataInv(p)' /\ DataInv(q)'
    BY <1>0, <1>3, <1>4, <1>i DEF PairInv, DataInv, InOrder, IsData, RemoteSame
<1>18. SendInv(p, q)' /\ SendInv(q, p)'
    BY <1>0, <1>3, <1>4, <1>i DEF PairInv, SendInv, RemoteSame, Alive
<1>19. OwedInv(p, q)' /\ OwedInv(q, p)'
    BY <1>0, <1>3, <1>4, <1>i DEF PairInv, OwedInv, Taken, RemoteSame, Alive
<1> QED
    BY <1>11, <1>12, <1>13, <1>14, <1>15, <1>16, <1>17, <1>18, <1>19, SplitPeers
       DEF PairInv, q

(* The handshake is over for p, or an error line of a dead remote is skipped. *)
LEMMA MasterKeeps ==
    ASSUME TypeOK, ProtocolInv, NEW p \in Peer, MasterHandshake(p) \/ SkipErrorLine(p)
    PROVE  ProtocolInv'
<1> DEFINE q == Other(p)
<1>p. q \in Peer /\ q # p /\ Other(q) = p
    BY OtherPeer
<1>i. PairInv(p, q) /\ PairInv(q, p)
    BY <1>p DEF ProtocolInv
<1>0. /\ pc[p] = "handshake" /\ RemoteSame(q) /\ wire[p] # <<>>
      /\ pc'[p] \in {"inbound", "handshake"}
      /\ props' = props /\ todo' = todo /\ acc' = acc /\ rej' = rej
      /\ Held(p)' = Held(p) /\ Stored(p)' = Stored(p) /\ master' = master /\ up' = up
    BY <1>p DEF MasterHandshake, SkipErrorLine, Receives, TypeOK, RemoteSame, Goto,
                Held, Stored, mailbox, frame, stats
<1>m. pc'[p] = "inbound" => p = master
    BY <1>0 DEF MasterHandshake, SkipErrorLine
<1>1. /\ wire'[p] = Tail(wire[p]) /\ wire'[q] = wire[q]
      /\ Len(wire[p]) \in Nat \ {0} /\ DOMAIN wire[p] = 1..Len(wire[p])
      /\ DOMAIN wire'[p] = 1..(Len(wire[p]) - 1) /\ Len(wire'[p]) = Len(wire[p]) - 1
      /\ \A k \in 1..(Len(wire[p]) - 1) : wire'[p][k] = wire[p][k + 1]
    BY ZenonT(60), <1>0, <1>p, TakeFacts DEF MasterHandshake, SkipErrorLine, Receives
<1>2. /\ wire[q] = <<>>
      /\ pc'[p] = "handshake" => ~Alive(q)
    <2>1. CASE MasterHandshake(p)
        <3>1. /\ 2 \in DOMAIN wire[p] /\ wire[p][2].type # "handshake"
              /\ pc'[p] = "inbound"
            BY <2>1, <1>1 DEF MasterHandshake, Confirming, Goto, TypeOK
        <3> QED
            BY <3>1, <1>i DEF PairInv, WireInv, FrameInv
    <2>2. CASE SkipErrorLine(p)
        BY <2>2, <1>0, <1>1, <1>i, TakeFacts DEF SkipErrorLine, Receives, PairInv, WireInv, FrameInv
    <2> QED
        BY <2>1, <2>2
<1>3. \A k \in DOMAIN wire'[p] : k + 1 \in DOMAIN wire[p] /\ wire'[p][k] = wire[p][k + 1] /\ k \in Nat /\ k >= 1
    BY <1>1
<1>4. \A k \in DOMAIN wire'[p] : wire'[p][k].type \notin {"handshake", "FS", "data"}
    BY <1>0, <1>3, <1>i DEF PairInv, HandshakeInv, AnswerInv, DataInv, IsData
<1> HIDE DEF q
<1>11. FrameInv(p)' /\ FrameInv(q)'
    BY <1>0, <1>1, <1>i DEF PairInv, FrameInv, RemoteSame, Alive
<1>12. HandshakeInv(p, q)' /\ HandshakeInv(q, p)'
    BY <1>0, <1>m, <1>1, <1>2, <1>4, <1>p, <1>i DEF PairInv, HandshakeInv, RemoteSame, Alive
<1>13. WireInv(p, q)'
    BY <1>0, <1>1, <1>2, <1>3, <1>i DEF PairInv, WireInv, RemoteSame, Alive, Listening
<1>14. WireInv(q, p)'
    BY <1>1, <1>2 DEF WireInv
<1>15. TurnInv(p, q)' /\ TurnInv(q, p)'
    BY <1>0, <1>1, <1>2, <1>i DEF PairInv, TurnInv, RemoteSame, Alive, Listening
<1>16. AnswerInv(p, q)' /\ AnswerInv(q, p)'
    BY <1>1, <1>2, <1>4 DEF AnswerInv
<1>17. DataInv(p)' /\ DataInv(q)'
    BY <1>1, <1>2, <1>3, <1>4, <1>i DEF PairInv, DataInv, InOrder, IsData
<1>18. SendInv(p, q)' /\ SendInv(q, p)'
    BY <1>0, <1>i DEF PairInv, SendInv, RemoteSame, Alive
<1>19. OwedInv(p, q)' /\ OwedInv(q, p)'
    BY <1>0, <1>1, <1>2, <1>i DEF PairInv, OwedInv, Taken, RemoteSame, Alive
<1> QED
    BY <1>11, <1>12, <1>13, <1>14, <1>15, <1>16, <1>17, <1>18, <1>19, SplitPeers
       DEF PairInv, q

LEMMA SlaveKeeps ==
    ASSUME TypeOK, ProtocolInv, NEW p \in Peer, SlaveHandshake(p)
    PROVE  ProtocolInv'
<1> DEFINE q == Other(p)
<1>p. q \in Peer /\ q # p /\ Other(q) = p
    BY OtherPeer
<1>i. PairInv(p, q) /\ PairInv(q, p)
    BY <1>p DEF ProtocolInv
<1>0. /\ pc[p] = "handshake" /\ pc'[p] = "outbound" /\ RemoteSame(q)
      /\ wire[p] # <<>> /\ p # master /\ q = master
      /\ props' = props /\ todo' = todo /\ acc' = acc /\ rej' = rej
      /\ Held(p)' = Held(p) /\ Stored(p)' = Stored(p) /\ master' = master /\ up' = up
    BY <1>p, OtherPeer DEF SlaveHandshake, Receives, TypeOK, RemoteSame, Held, Stored, Goto,
                            mailbox, frame, stats
<1>1. /\ wire'[p] = Tail(wire[p])
      /\ wire'[q] = wire[q] \/ (Alive(q) /\ wire'[q] = Append(wire[q], Line("handshake")))
    BY <1>0, <1>p, TakeFacts, PutFacts DEF SlaveHandshake, SendHandshake, Reaches, Alive
<1>2. /\ Len(wire[p]) \in Nat \ {0} /\ DOMAIN wire[p] = 1..Len(wire[p])
      /\ DOMAIN wire'[p] = 1..(Len(wire[p]) - 1)
      /\ \A k \in 1..(Len(wire[p]) - 1) : wire'[p][k] = wire[p][k + 1]
      /\ wire[p][1].type = "handshake" /\ 1 \in DOMAIN wire[p]
      /\ wire'[p] \in Seq(Unit)
    BY <1>0, <1>1, TakeFacts DEF SlaveHandshake, Receives
<1>3. /\ wire[q] = <<>>
      /\ Alive(q) => wire'[p] = <<>> /\ pc[q] = "handshake"
    <2>1. Alive(q) => Len(wire[p]) = 1 /\ pc[q] = "handshake"
        BY <1>0, <1>2, <1>i DEF PairInv, HandshakeInv
    <2>2. Len(wire[p]) = 1 => wire'[p] = <<>>
        BY <1>2, NoElement
    <2>3. wire[q] = <<>>
        BY <1>0, <1>i DEF PairInv, HandshakeInv, FrameInv
    <2> QED
        BY <2>1, <2>2, <2>3
<1>4. ASSUME wire'[q] # <<>>
      PROVE  /\ Alive(q) /\ DOMAIN wire'[q] = {1} /\ wire'[q][1].type = "handshake"
    <2>1. Line("handshake").type = "handshake"
        BY DEF Line
    <2>2. Alive(q) /\ wire'[q] = <<Line("handshake")>>
        BY <1>1, <1>3, <1>4
    <2> QED
        BY <2>1, <2>2, Singleton
<1>5. \A k \in DOMAIN wire'[p] : k + 1 \in DOMAIN wire[p] /\ wire'[p][k] = wire[p][k + 1] /\ k \in Nat /\ k >= 1
    BY <1>2
<1>6. \A k \in DOMAIN wire'[p] : wire'[p][k].type \notin {"handshake", "FS", "data"}
    BY <1>0, <1>5, <1>i DEF PairInv, HandshakeInv, AnswerInv, DataInv, IsData
<1> HIDE DEF q
<1>11. FrameInv(p)' /\ FrameInv(q)'
    BY <1>0, <1>4, <1>i DEF PairInv, FrameInv, RemoteSame, Alive
<1>12. HandshakeInv(p, q)' /\ HandshakeInv(q, p)'
    BY <1>0, <1>3, <1>4, <1>6 DEF HandshakeInv, RemoteSame, Alive
<1>13. WireInv(p, q)' /\ WireInv(q, p)'
    BY <1>0, <1>3, <1>4 DEF WireInv, RemoteSame, Alive
<1>15. TurnInv(p, q)' /\ TurnInv(q, p)'
    BY <1>0, <1>3 DEF TurnInv, RemoteSame, Alive, Listening
<1>16. AnswerInv(p, q)' /\ AnswerInv(q, p)'
    BY <1>4, <1>6 DEF AnswerInv
<1>17. DataInv(p)' /\ DataInv(q)'
    BY <1>4, <1>5, <1>6, <1>i DEF PairInv, DataInv, InOrder, IsData
<1>18. SendInv(p, q)' /\ SendInv(q, p)'
    BY <1>0, <1>3 DEF SendInv, RemoteSame, Alive
<1>19. OwedInv(p, q)' /\ OwedInv(q, p)'
    BY <1>0, <1>3, <1>i DEF PairInv, OwedInv, RemoteSame, Alive
<1> QED
    BY <1>11, <1>12, <1>13, <1>15, <1>16, <1>17, <1>18, <1>19, SplitPeers
       DEF PairInv, q

(* A block is proposed, or a turn without messages is handed over. *)
LEMMA ProposeKeeps ==
    ASSUME TypeOK, ProtocolInv, NEW p \in Peer,
           RemoteSame(Other(p)), todo' = todo, acc' = acc, rej' = rej,
           UNCHANGED <<inbox, torn, statReceived, master, up>>,
           NEW u \in Unit, wire' = Put(wire, p, u),
           \/ /\ pc[p] = "propose" /\ pc'[p] = "answer" /\ Distinct(props'[p])
              /\ u.type = "F>" /\ u.block = props'[p]
           \/ /\ BlockSent(p) /\ pc'[p] = "confirm" /\ acc[p] = {} /\ rej[p] = {}
              /\ u.type = "FF"
    PROVE  ProtocolInv'
<1> DEFINE q == Other(p)
<1>p. q \in Peer /\ q # p /\ Other(q) = p
    BY OtherPeer
<1>i. PairInv(p, q) /\ PairInv(q, p)
    BY <1>p DEF ProtocolInv
<1>0. /\ pc[p] = "propose" \/ (pc[p] = "send" /\ todo[p] = {})
      /\ acc[p] = {} /\ rej[p] = {} /\ todo[p] = {} /\ Alive(p) /\ Alive(p)'
      /\ pc'[p] \in {"answer", "confirm"} /\ RemoteSame(q)
      /\ Held(p)' = Held(p) /\ Stored(p)' = Stored(p)
    BY <1>i DEF TypeOK, Live, Alive, BlockSent, PairInv, FrameInv, Held, Stored
<1>1. /\ wire'[p] = wire[p] /\ wire[p] \in Seq(Unit) /\ wire[q] \in Seq(Unit)
      /\ wire'[q] = wire[q] \/ (Alive(q) /\ wire'[q] = Append(wire[q], u))
    BY ZenonT(60), <1>p, PutFacts DEF Reaches, Alive, TypeOK, Wires
<1>2. ASSUME wire'[q] # wire[q]
      PROVE  /\ Alive(q) /\ wire'[q] = Append(wire[q], u)
             /\ Len(wire'[q]) = Len(wire[q]) + 1
             /\ DOMAIN wire'[q] = 1..(Len(wire[q]) + 1)
             /\ DOMAIN wire[q] = 1..Len(wire[q]) /\ Len(wire[q]) \in Nat
             /\ \A k \in 1..Len(wire[q]) : wire'[q][k] = wire[q][k]
             /\ wire'[q][Len(wire[q]) + 1] = u
    BY <1>1, <1>2, AppendFacts
<1>3. Alive(q) => wire[p] = <<>> /\ Listening(q) /\ Listening(q)'
    BY <1>0, <1>i DEF PairInv, TurnInv, Listening, RemoteSame
<1>4. \A k \in DOMAIN wire[q] : wire[q][k].type = "handshake"
    BY <1>0, <1>i DEF PairInv, WireInv
<1>5. \A k \in DOMAIN wire'[q] : \/ k \in DOMAIN wire[q] /\ wire'[q][k] = wire[q][k]
                                 \/ k = Len(wire'[q]) /\ wire'[q][k] = u /\ Alive(q)
    BY <1>2
<1>6. \A k \in DOMAIN wire[p] : wire[p][k].type \notin {"handshake", "FS", "data"}
    BY <1>0, <1>i DEF PairInv, HandshakeInv, AnswerInv, DataInv, IsData
<1>7. u.type \in {"F>", "FF"}
    OBVIOUS
<1> HIDE DEF q
<1>11. FrameInv(p)' /\ FrameInv(q)'
    BY <1>0, <1>1, <1>i DEF PairInv, FrameInv, RemoteSame, Alive
<1>12. HandshakeInv(p, q)'
    BY <1>0, <1>1, <1>3, <1>6, <1>i DEF PairInv, HandshakeInv, RemoteSame, Alive
<1>13. HandshakeInv(q, p)'
    BY <1>0, <1>4, <1>5, <1>7, <1>i DEF PairInv, HandshakeInv, RemoteSame, Alive
<1>14. WireInv(p, q)'
    BY <1>0, <1>1, <1>3 DEF WireInv, RemoteSame, Alive
<1>15. WireInv(q, p)'
    BY <1>0, <1>1, <1>3, <1>4, <1>5 DEF WireInv
<1>16. TurnInv(p, q)' /\ TurnInv(q, p)'
    BY <1>0, <1>3 DEF TurnInv, RemoteSame, Alive, Listening
<1>17. AnswerInv(p, q)' /\ AnswerInv(q, p)'
    BY <1>1, <1>4, <1>5, <1>6, <1>7 DEF AnswerInv
<1>18. DataInv(p)'
    BY <1>1, <1>6, <1>i DEF PairInv, DataInv, InOrder, IsData
<1>19. DataInv(q)'
    BY <1>4, <1>5, <1>7 DEF DataInv, InOrder, IsData
<1>20. SendInv(p, q)' /\ SendInv(q, p)'
    BY <1>0, <1>3 DEF SendInv, RemoteSame, Alive, Listening
<1>21. OwedInv(p, q)' /\ OwedInv(q, p)'
    BY <1>0, <1>i DEF PairInv, OwedInv, Taken, RemoteSame, Alive
<1> QED
    BY <1>11, <1>12, <1>13, <1>14, <1>15, <1>16, <1>17, <1>18, <1>19, <1>20, <1>21,
       SplitPeers DEF PairInv, q

LEMMA ReadAnswerKeeps ==
    ASSUME TypeOK, ProtocolInv, NEW p \in Peer, ReadAnswer(p)
    PROVE  ProtocolInv'
<1> DEFINE q == Other(p)
           b == props[p]
           answers == Head(wire[p]).answers
           accepted == AnsweredWith(b, answers, "Accept")
<1>p. q \in Peer /\ q # p /\ Other(q) = p
    BY OtherPeer
<1>i. PairInv(p, q) /\ PairInv(q, p)
    BY <1>p DEF ProtocolInv
<1>0. /\ pc[p] = "answer" /\ pc'[p] = "send" /\ RemoteSame(q) /\ wire[p] # <<>>
      /\ props' = props /\ acc' = acc /\ todo'[p] = accepted
      /\ rej'[p] = {b[i] : i \in AnsweredWith(b, answers, "Reject")}
      /\ Held(p)' = Held(p) /\ Stored(p)' = Stored(p) /\ master' = master /\ up' = up
      /\ wire' = Take(p)
    BY <1>p DEF ReadAnswer, Receives, TypeOK, RemoteSame, Held, Stored, Goto, mailbox, stats
<1>1. /\ wire[p][1].type = "FS" /\ wire[p][1].answers = answers
      /\ wire'[q] = wire[q] /\ wire'[p] \in Seq(Unit)
      /\ \A k \in DOMAIN wire'[p] : k + 1 \in DOMAIN wire[p] /\ wire'[p][k] = wire[p][k + 1]
                                    /\ k + 1 # 1
      /\ 1 \in DOMAIN wire[p]
    <2>1. Head(wire[p]).type = "FS"
        BY DEF ReadAnswer, Receives
    <2>2. /\ wire[p][1] = Head(wire[p]) /\ 1 \in DOMAIN wire[p]
          /\ wire'[q] = wire[q] /\ wire'[p] \in Seq(Unit)
        BY <1>0, TakeFacts
    <2>3. /\ Len(wire[p]) \in Nat \ {0} /\ DOMAIN wire[p] = 1..Len(wire[p])
          /\ DOMAIN wire'[p] = 1..(Len(wire[p]) - 1)
          /\ \A k \in 1..(Len(wire[p]) - 1) : wire'[p][k] = wire[p][k + 1]
        BY <1>0, TakeFacts
    <2> QED
        BY <2>1, <2>2, <2>3
<1> HIDE DEF answers, accepted
<1>2. /\ \A k \in DOMAIN wire'[p] : wire'[p][k].type = "***"
      /\ rej'[p] \subseteq Held(q)
      /\ \/ ~Alive(q)
         \/ pc[q] = "inbound" /\ accepted = {}
         \/ pc[q] = "receive" /\ props[q] = b /\ todo[q] = accepted
    BY <1>0, <1>1, <1>i DEF PairInv, AnswerInv, AnsweredWith, accepted
<1>3. acc[p] = {} /\ Distinct(b)
    BY <1>0, <1>i DEF PairInv, FrameInv
<1>4. Alive(q) => wire'[p] = <<>>
    BY SMTT(60), <1>1, <1>2, <1>i, NoElement DEF PairInv, WireInv
<1>5. wire[q] = <<>>
    BY <1>1, <1>i DEF PairInv, WireInv, FrameInv
<1>6. pc[q] = "receive" => todo[q] # {}
    BY <1>i DEF PairInv, FrameInv
<1>7. Taken(p)' = {b[i] : i \in accepted}
    BY <1>0, <1>3 DEF Taken
<1> HIDE DEF q, b
<1>11. FrameInv(p)' /\ FrameInv(q)'
    BY <1>0, <1>1, <1>i DEF PairInv, FrameInv, RemoteSame, Alive
<1>12. HandshakeInv(p, q)' /\ HandshakeInv(q, p)'
    BY <1>0, <1>1, <1>2, <1>4, <1>5 DEF HandshakeInv, RemoteSame, Alive
<1>13. WireInv(p, q)' /\ WireInv(q, p)'
    BY <1>0, <1>1, <1>4, <1>5 DEF WireInv, RemoteSame, Alive
<1>14. TurnInv(p, q)'
    BY <1>0, <1>2 DEF TurnInv, RemoteSame, Alive
<1>15. TurnInv(q, p)'
    BY <1>0, <1>2, <1>4, <1>6 DEF TurnInv, Listening, RemoteSame, Alive
<1>16. AnswerInv(p, q)' /\ AnswerInv(q, p)'
    BY <1>1, <1>2, <1>5 DEF AnswerInv
<1>17. DataInv(p)' /\ DataInv(q)'
    BY <1>1, <1>2, <1>5 DEF DataInv, InOrder, IsData
<1>18. SendInv(p, q)'
    BY <1>0, <1>2 DEF SendInv, RemoteSame, Alive
<1>19. SendInv(q, p)'
    BY <1>0, <1>1, <1>2, <1>4, <1>5 DEF SendInv, Before, AllSent, IsData, RemoteSame, Alive, b
<1>20. OwedInv(p, q)'
    BY <1>0, <1>2, <1>7 DEF OwedInv, Confirming, RemoteSame, Alive
<1>21. OwedInv(q, p)'
    BY <1>0, <1>2, <1>i DEF PairInv, FrameInv, OwedInv, RemoteSame, Alive
<1> QED
    BY <1>11, <1>12, <1>13, <1>14, <1>15, <1>16, <1>17, <1>18, <1>19, <1>20, <1>21,
       SplitPeers DEF PairInv, q

LEMMA WriteKeeps ==
    ASSUME TypeOK, ProtocolInv, NEW p \in Peer, WriteMessage(p)
    PROVE  ProtocolInv'
<1> DEFINE q == Other(p)
<1>p. q \in Peer /\ q # p /\ Other(q) = p
    BY OtherPeer
<1>i. PairInv(p, q) /\ PairInv(q, p)
    BY <1>p DEF ProtocolInv
<1>h. PICK i \in todo[p] :
         /\ IsNext(i, todo[p])
         /\ wire' = Put(wire, p, Data(props[p][i]))
         /\ acc' = [acc EXCEPT ![p] = @ \cup {props[p][i]}]
         /\ todo' = [todo EXCEPT ![p] = @ \ {i}]
    BY DEF WriteMessage
<1> DEFINE u == Data(props[p][i])
<1>0. /\ pc[p] = "send" /\ pc'[p] = "send" /\ RemoteSame(q) /\ todo[p] # {}
      /\ props' = props /\ acc'[p] = acc[p] \cup {props[p][i]} /\ todo'[p] = todo[p] \ {i}
      /\ rej' = rej /\ Held(p)' = Held(p) /\ Stored(p)' = Stored(p) /\ master' = master /\ up' = up
    BY <1>h, <1>p DEF WriteMessage, TypeOK, RemoteSame, Held, Stored, mailbox, stats
<1>1. /\ todo[p] \subseteq DOMAIN props[p] /\ todo[p] \subseteq Nat /\ todo[q] \subseteq Nat
      /\ wire[q] \in Seq(Unit) /\ wire[p] \in Seq(Unit)
      /\ props[p][i] \in Mid
      /\ pc[q] = "receive" => todo[q] \subseteq DOMAIN props[q]
    BY <1>0, <1>p DEF TypeOK, Live
<1>2. u \in Unit /\ u.type = "data" /\ u.mid = props[p][i]
    BY <1>1, UnitTypes DEF Data
<1> HIDE DEF u
<1>3. /\ wire'[p] = wire[p]
      /\ \/ wire'[q] = wire[q] /\ (up => ~Alive(q))
         \/ Alive(q) /\ up /\ wire'[q] = Append(wire[q], u)
    <2>1. wire \in Wires
        BY DEF TypeOK, Wires
    <2>2. wire' = Put(wire, p, u)
        BY <1>h DEF u
    <2> QED
        BY <2>1, <2>2, PutFacts DEF Reaches, Alive
<1>4. Alive(q) => /\ pc[q] = "receive" /\ props[q] = props[p] /\ todo[p] \subseteq todo[q]
                  /\ wire[p] = <<>> /\ Distinct(props[q])
                  /\ Before(wire[q], props[q], todo[q], todo[p])
                  /\ up => AllSent(wire[q], props[q], todo[q], todo[p])
    BY <1>0, <1>i DEF PairInv, SendInv, FrameInv
<1>5. ASSUME wire'[q] # wire[q]
      PROVE  /\ Alive(q) /\ up
             /\ InOrder(wire'[q], props[q], todo[q])
             /\ Before(wire'[q], props[q], todo[q], todo'[p])
             /\ AllSent(wire'[q], props[q], todo[q], todo'[p])
             /\ DOMAIN wire'[q] = 1..(Len(wire[q]) + 1)
             /\ DOMAIN wire[q] = 1..Len(wire[q]) /\ Len(wire[q]) \in Nat
             /\ \A k \in 1..Len(wire[q]) : wire'[q][k] = wire[q][k]
             /\ wire'[q][Len(wire[q]) + 1] = u
    <2>1. Alive(q) /\ up /\ wire'[q] = Append(wire[q], u)
        BY <1>3, <1>5
    <2>2. InOrder(wire[q], props[q], todo[q])
        BY <1>i DEF PairInv, DataInv
    <2>3. /\ InOrder(Append(wire[q], u), props[q], todo[q])
          /\ Before(Append(wire[q], u), props[q], todo[q], todo[p] \ {i})
          /\ AllSent(Append(wire[q], u), props[q], todo[q], todo[p] \ {i})
        BY <1>h, <1>1, <1>2, <1>4, <2>1, <2>2, InOrderAppendData
    <2>4. todo'[p] = todo[p] \ {i}
        BY <1>0
    <2> QED
        BY <1>1, <1>2, <2>1, <2>3, <2>4, AppendFacts
<1>6. \A k \in DOMAIN wire'[q] : \/ k \in DOMAIN wire[q] /\ wire'[q][k] = wire[q][k]
                                 \/ wire'[q][k] = u /\ Alive(q)
    BY <1>5
<1>7. Taken(p)' = Taken(p)
    BY <1>0, <1>h DEF Taken
<1>8. acc'[p] # {} /\ Alive(p) /\ Alive(p)'
    BY <1>0 DEF Alive
<1>9. \A k \in DOMAIN wire[p] : wire[p][k].type \notin {"handshake", "FS", "data"}
    BY <1>0, <1>i DEF PairInv, HandshakeInv, AnswerInv, DataInv, IsData
<1>10. \A k \in DOMAIN wire[q] : wire[q][k].type = "data" /\ wire[q][k].mid \in acc[p]
    <2>1. wire[q] # <<>> => Alive(q)
        BY <1>i DEF PairInv, FrameInv
    <2> QED
        BY <1>0, <1>4, <1>8, <1>i, <2>1 DEF PairInv, WireInv, HandshakeInv
<1> HIDE DEF q
<1>11. FrameInv(p)' /\ FrameInv(q)'
    BY <1>0, <1>3, <1>8, <1>i DEF PairInv, FrameInv, RemoteSame, Alive
<1>12. HandshakeInv(p, q)' /\ HandshakeInv(q, p)'
    BY <1>0, <1>2, <1>3, <1>4, <1>6, <1>9, <1>10 DEF HandshakeInv, RemoteSame, Alive
<1>13. WireInv(p, q)'
    BY <1>0, <1>3, <1>4 DEF WireInv, RemoteSame, Alive
<1>14. WireInv(q, p)'
    BY <1>0, <1>2, <1>3, <1>4, <1>6, <1>10, <1>i DEF PairInv, FrameInv, WireInv
<1>15. TurnInv(p, q)' /\ TurnInv(q, p)'
    BY <1>0, <1>4, <1>8 DEF TurnInv, RemoteSame, Alive
<1>16. AnswerInv(p, q)' /\ AnswerInv(q, p)'
    BY <1>2, <1>3, <1>6, <1>9, <1>10 DEF AnswerInv
<1>17. DataInv(p)'
    BY <1>3, <1>9, <1>i DEF PairInv, DataInv, InOrder, IsData
<1>18. DataInv(q)'
    <2>1. InOrder(wire[q], props[q], todo[q])
        BY <1>i DEF PairInv, DataInv
    <2>2. InOrder(wire'[q], props'[q], todo'[q])
        BY <1>0, <1>5, <2>1 DEF RemoteSame
    <2>3. wire'[q] # <<>> => Alive(q)
        BY <1>5, <1>i DEF PairInv, FrameInv
    <2>4. \A k \in DOMAIN wire'[q] : wire'[q][k].type = "data"
        BY <1>2, <1>6, <1>10
    <2> QED
        BY <1>0, <1>4, <2>2, <2>3, <2>4 DEF DataInv, IsData, RemoteSame
<1>19. SendInv(p, q)'
    BY <1>0, <1>4 DEF SendInv, RemoteSame, Alive
<1>20. SendInv(q, p)'
    <2>1. Alive(q) => Before(wire'[q], props[q], todo[q], todo'[p])
        BY <1>0, <1>4, <1>5 DEF Before
    <2> QED
        BY <1>0, <1>3, <1>4, <1>5, <2>1 DEF SendInv, RemoteSame, Alive
<1>21. OwedInv(p, q)'
    BY <1>0, <1>3, <1>7, <1>i DEF PairInv, OwedInv, RemoteSame, Alive
<1>22. OwedInv(q, p)'
    BY <1>0, <1>4, <1>i DEF PairInv, FrameInv, OwedInv, RemoteSame, Alive
<1> QED
    BY <1>11, <1>12, <1>13, <1>14, <1>15, <1>16, <1>17, <1>18, <1>19, <1>20, <1>21,
       <1>22, SplitPeers DEF PairInv, q

(* A line that ends the remote's turn is read. *)
LEMMA TurnTakenKeeps ==
    ASSUME TypeOK, ProtocolInv, NEW p \in Peer, ReadEmptyBlock(p) \/ ReadNoMore(p)
    PROVE  ProtocolInv'
<1> DEFINE q == Other(p)
<1>p. q \in Peer /\ q # p /\ Other(q) = p
    BY OtherPeer
<1>i. PairInv(p, q) /\ PairInv(q, p)
    BY <1>p DEF ProtocolInv
<1>0. /\ pc[p] = "inbound" /\ pc'[p] = "outbound" /\ RemoteSame(q) /\ wire[p] # <<>>
      /\ Head(wire[p]).type \in {"F>", "FF"}
      /\ props' = props /\ acc' = acc /\ todo' = todo /\ rej' = rej
      /\ Held(p)' = Held(p) /\ Stored(p)' = Stored(p) /\ master' = master /\ up' = up
      /\ wire' = Take(p)
    BY <1>p DEF ReadEmptyBlock, ReadNoMore, Receives, TypeOK, RemoteSame, Held, Stored, Goto,
               mailbox, frame, stats
<1>1. /\ wire[p][1].type \in {"F>", "FF"} /\ 1 \in DOMAIN wire[p]
      /\ wire'[q] = wire[q] /\ wire'[p] \in Seq(Unit)
      /\ Len(wire[p]) \in Nat \ {0} /\ DOMAIN wire[p] = 1..Len(wire[p])
      /\ DOMAIN wire'[p] = 1..(Len(wire[p]) - 1)
      /\ \A k \in 1..(Len(wire[p]) - 1) : wire'[p][k] = wire[p][k + 1]
    BY <1>0, TakeFacts
<1>2. \A k \in DOMAIN wire'[p] : k + 1 \in DOMAIN wire[p] /\ wire'[p][k] = wire[p][k + 1]
                                 /\ k \in Nat /\ k >= 1
    BY <1>1
<1>3. /\ wire[q] = <<>>
      /\ Alive(q) => pc[q] \in {"answer", "confirm"} /\ wire'[p] = <<>>
    <2>1. wire[q] = <<>>
        BY <1>1, <1>i DEF PairInv, WireInv, FrameInv
    <2>2. Alive(q) => pc[q] \in {"answer", "confirm"} /\ Len(wire[p]) = 1
        BY <1>1, <1>i DEF PairInv, WireInv
    <2>3. Len(wire[p]) = 1 => wire'[p] = <<>>
        BY <1>1, NoElement
    <2> QED
        BY <2>1, <2>2, <2>3
<1>4. \A k \in DOMAIN wire'[p] : wire'[p][k].type \notin {"handshake", "FS", "data"}
    BY <1>0, <1>2, <1>i DEF PairInv, HandshakeInv, AnswerInv, DataInv, IsData
<1> HIDE DEF q
<1>11. FrameInv(p)' /\ FrameInv(q)'
    BY <1>0, <1>1, <1>i DEF PairInv, FrameInv, RemoteSame, Alive
<1>12. HandshakeInv(p, q)' /\ HandshakeInv(q, p)'
    BY <1>0, <1>1, <1>3, <1>4 DEF HandshakeInv, RemoteSame, Alive
<1>13. WireInv(p, q)' /\ WireInv(q, p)'
    BY <1>0, <1>1, <1>3 DEF WireInv, RemoteSame, Alive
<1>14. TurnInv(p, q)' /\ TurnInv(q, p)'
    BY <1>0, <1>3 DEF TurnInv, Listening, RemoteSame, Alive
<1>15. AnswerInv(p, q)' /\ AnswerInv(q, p)'
    BY <1>1, <1>3, <1>4 DEF AnswerInv
<1>16. DataInv(p)' /\ DataInv(q)'
    BY SMTT(60), <1>1, <1>2, <1>3, <1>4, <1>i DEF PairInv, DataInv, InOrder, IsData
<1>17. SendInv(p, q)' /\ SendInv(q, p)'
    BY <1>0, <1>3 DEF SendInv, RemoteSame, Alive
<1>18. OwedInv(p, q)' /\ OwedInv(q, p)'
    BY <1>0, <1>1, <1>3, <1>i DEF PairInv, OwedInv, Taken, RemoteSame, Alive
<1> QED
    BY <1>11, <1>12, <1>13, <1>14, <1>15, <1>16, <1>17, <1>18, SplitPeers DEF PairInv, q

LEMMA ReadBlockKeeps ==
    ASSUME TypeOK, ProtocolInv, NEW p \in Peer, ReadBlock(p)
    PROVE  ProtocolInv'
<1> DEFINE q == Other(p)
           b == Head(wire[p]).block
           answers == [i \in 1..Len(b) |->
                          IF \E j \in 1..(i - 1) : b[j] = b[i] THEN "Defer"
                          ELSE GetInboundAnswer(p, b[i])]
           accepted == {i \in 1..Len(b) : answers[i] = "Accept"}
<1>p. q \in Peer /\ q # p /\ Other(q) = p
    BY OtherPeer
<1>i. PairInv(p, q) /\ PairInv(q, p)
    BY <1>p DEF ProtocolInv
<1>0. /\ pc[p] = "inbound" /\ wire[p] # <<>>
      /\ Head(wire[p]).type = "F>"
      /\ todo' = [todo EXCEPT ![p] = accepted]
      /\ pc' = [pc EXCEPT ![p] = AfterAnswer(accepted)]
      /\ props' = IF accepted = {} THEN props ELSE [props EXCEPT ![p] = b]
      /\ wire' = Put(Take(p), p, Answers(answers))
      /\ acc' = acc /\ rej' = rej
      /\ Held(p)' = Held(p) /\ Stored(p)' = Stored(p) /\ master' = master /\ up' = up
      /\ Held(q)' = Held(q) /\ Stored(q)' = Stored(q)
    <2>1. /\ pc[p] = "inbound" /\ Receives(p, "F>")
          /\ todo' = [todo EXCEPT ![p] = accepted]
          /\ Goto(p, AfterAnswer(accepted))
          /\ props' = IF accepted = {} THEN props ELSE [props EXCEPT ![p] = b]
        BY DEF ReadBlock
    <2>2. wire' = Put(Take(p), p, Answers(answers))
        BY DEF ReadBlock
    <2>3. UNCHANGED <<mailbox, acc, rej, stats, master, up>>
        BY ZenonT(60) DEF ReadBlock
    <2> HIDE DEF b, answers, accepted
    <2>4. /\ Held(p)' = Held(p) /\ Stored(p)' = Stored(p)
          /\ Held(q)' = Held(q) /\ Stored(q)' = Stored(q)
        BY <2>3 DEF Held, Stored, mailbox, stats
    <2> QED
        BY <2>1, <2>2, <2>3, <2>4 DEF Receives, Goto
<1>1. /\ wire[p][1] = Head(wire[p]) /\ 1 \in DOMAIN wire[p]
      /\ Len(wire[p]) \in Nat \ {0} /\ DOMAIN wire[p] = 1..Len(wire[p])
      /\ Take(p) \in Wires /\ Take(p)[p] = Tail(wire[p]) /\ Take(p)[q] = wire[q]
      /\ DOMAIN Tail(wire[p]) = 1..(Len(wire[p]) - 1) /\ Tail(wire[p]) \in Seq(Unit)
      /\ \A k \in 1..(Len(wire[p]) - 1) : Tail(wire[p])[k] = wire[p][k + 1]
    BY <1>0, TakeFacts
<1>2. b \in Seq(Mid) /\ DOMAIN b = 1..Len(b)
    BY SMTT(60), <1>0, <1>1, UnitContents DEF TypeOK
<1>3. Distinct(b)
    BY <1>0, <1>1, <1>i DEF PairInv, DataInv
<1>4. /\ Len(answers) = Len(b) /\ DOMAIN answers = 1..Len(b)
      /\ \A k \in 1..Len(b) : answers[k] = "Reject" => b[k] \in Held(p)
      /\ accepted = AnsweredWith(b, answers, "Accept")
    <2>1. Len(b) \in Nat
        BY <1>2
    <2>2. \A k \in 1..Len(b) : answers[k] = "Reject" => b[k] \in Held(p)
        BY DEF GetInboundAnswer, Held
    <2>3. accepted = AnsweredWith(b, answers, "Accept")
        BY <1>2 DEF AnsweredWith
    <2> HIDE DEF accepted, b
    <2>4. Len(answers) = Len(b) /\ DOMAIN answers = 1..Len(b)
        BY <2>1
    <2> QED
        BY <2>2, <2>3, <2>4
<1> HIDE DEF answers, b, accepted
<1>5. /\ RemoteSame(q) /\ wire'[p] = Tail(wire[p])
      /\ todo'[p] = accepted
      /\ \/ accepted = {} /\ pc'[p] = "inbound"
         \/ accepted # {} /\ pc'[p] = "receive" /\ props'[p] = b
    BY <1>0, <1>1, <1>p, PutFacts DEF TypeOK, RemoteSame, AfterAnswer
<1>6. wire'[q] = wire[q] \/ (Alive(q) /\ wire'[q] = Append(wire[q], Answers(answers)))
    BY <1>0, <1>1, PutFacts DEF Reaches, Alive
<1>7. /\ wire[q] = <<>>
      /\ Alive(q) => pc[q] = "answer" /\ props[q] = b /\ wire'[p] = <<>>
    <2>1. wire[q] = <<>>
        BY <1>0, <1>1, <1>i DEF PairInv, WireInv, FrameInv
    <2>2. Alive(q) => pc[q] = "answer" /\ props[q] = b /\ Len(wire[p]) = 1
        BY <1>0, <1>1, <1>i DEF PairInv, WireInv, b
    <2>3. Len(wire[p]) = 1 => Tail(wire[p]) = <<>>
        BY <1>1, NoElement
    <2> QED
        BY <1>5, <2>1, <2>2, <2>3
<1>8. ASSUME wire'[q] # <<>>
      PROVE  /\ Alive(q) /\ DOMAIN wire'[q] = {1}
             /\ wire'[q][1].type = "FS" /\ wire'[q][1].answers = answers
    <2>1. Answers(answers).type = "FS" /\ Answers(answers).answers = answers
        BY DEF Answers
    <2>2. Alive(q) /\ wire'[q] = <<Answers(answers)>>
        BY <1>6, <1>7, <1>8
    <2> QED
        BY <2>1, <2>2, Singleton
<1>9. \A k \in DOMAIN wire'[p] : k + 1 \in DOMAIN wire[p] /\ wire'[p][k] = wire[p][k + 1]
                                 /\ k \in Nat /\ k >= 1
    BY <1>1, <1>5
<1>10. \A k \in DOMAIN wire'[p] : wire'[p][k].type \notin {"handshake", "FS", "data"}
    BY <1>0, <1>9, <1>i DEF PairInv, HandshakeInv, AnswerInv, DataInv, IsData
<1> HIDE DEF q
<1>11. FrameInv(p)' /\ FrameInv(q)'
    BY <1>0, <1>3, <1>5, <1>8, <1>i DEF PairInv, FrameInv, RemoteSame, Alive
<1>12. HandshakeInv(p, q)' /\ HandshakeInv(q, p)'
    BY <1>5, <1>7, <1>8, <1>10 DEF HandshakeInv, RemoteSame, Alive
<1>13. WireInv(p, q)' /\ WireInv(q, p)'
    BY <1>5, <1>7, <1>8 DEF WireInv, RemoteSame, Alive
<1>14. TurnInv(p, q)' /\ TurnInv(q, p)'
    BY <1>5, <1>7 DEF TurnInv, RemoteSame, Alive
<1>15. AnswerInv(p, q)'
    BY <1>10 DEF AnswerInv
<1>16. AnswerInv(q, p)'
    BY <1>0, <1>2, <1>4, <1>5, <1>7, <1>8 DEF AnswerInv, RemoteSame, Alive
<1>17. DataInv(p)' /\ DataInv(q)'
    BY <1>8, <1>9, <1>10, <1>i DEF PairInv, DataInv, InOrder, IsData
<1>18. SendInv(p, q)' /\ SendInv(q, p)'
    BY <1>5, <1>7 DEF SendInv, RemoteSame, Alive
<1>19. OwedInv(p, q)' /\ OwedInv(q, p)'
    BY <1>0, <1>5, <1>7, <1>i DEF PairInv, FrameInv, OwedInv, RemoteSame, Alive
<1> QED
    BY <1>11, <1>12, <1>13, <1>14, <1>15, <1>16, <1>17, <1>18, <1>19, SplitPeers
       DEF PairInv, q

LEMMA ReceiveKeeps ==
    ASSUME TypeOK, ProtocolInv, NEW p \in Peer, ReceiveMessage(p)
    PROVE  ProtocolInv'
<1> DEFINE q == Other(p)
           m == Head(wire[p]).mid
           b == props[p]
           t == todo[p]
<1>p. q \in Peer /\ q # p /\ Other(q) = p
    BY OtherPeer
<1>i. PairInv(p, q) /\ PairInv(q, p)
    BY <1>p DEF ProtocolInv
<1>h. PICK i \in todo[p] :
         /\ IsNext(i, todo[p])
         /\ statReceived' = [statReceived EXCEPT ![p] = @ \cup {props[p][i]}]
         /\ todo' = [todo EXCEPT ![p] = @ \ {i}]
         /\ IF todo[p] = {i}
            THEN props' = [props EXCEPT ![p] = <<>>] /\ pc' = [pc EXCEPT ![p] = "outbound"]
            ELSE UNCHANGED <<props, pc>>
    BY DEF ReceiveMessage, Goto
<1>0. /\ pc[p] = "receive" /\ wire[p] # <<>> /\ Head(wire[p]).type = "data"
      /\ wire' = Take(p) /\ acc' = acc /\ rej' = rej /\ master' = master /\ up' = up
      /\ inbox' = [inbox EXCEPT ![p] = @ \cup {m}]
      /\ torn' = [torn EXCEPT ![p] = @ \ {m}]
    BY DEF ReceiveMessage, ReadCompressed, Receives
<1>1. /\ wire[p][1] = Head(wire[p]) /\ 1 \in DOMAIN wire[p] /\ wire[p] \in Seq(Unit)
      /\ Len(wire[p]) \in Nat \ {0} /\ DOMAIN wire[p] = 1..Len(wire[p])
      /\ wire'[p] = Tail(wire[p]) /\ wire'[q] = wire[q]
      /\ DOMAIN wire'[p] = 1..(Len(wire[p]) - 1) /\ wire'[p] \in Seq(Unit)
      /\ \A k \in 1..(Len(wire[p]) - 1) : wire'[p][k] = wire[p][k + 1]
    BY ZenonT(60), <1>0, TakeFacts DEF TypeOK
<1>2. /\ Distinct(b) /\ t \subseteq DOMAIN b /\ t \subseteq Nat /\ InOrder(wire[p], b, t)
      /\ acc[p] = {} /\ rej[p] = {}
    BY <1>0, <1>i DEF PairInv, FrameInv, DataInv, TypeOK, Live
<1>n. i \in t /\ IsNext(i, t)
    BY <1>h
<1> HIDE DEF b, t
<1>3. b[i] = m
    BY <1>0, <1>1, <1>2, <1>n, InOrderHead
<1>4. /\ InOrder(wire'[p], b, t \ {i})
      /\ t = {i} => \A k : ~IsData(wire'[p], k)
    <2>1. /\ InOrder(Tail(wire[p]), b, t \ {i})
          /\ t = {i} => \A k : ~IsData(Tail(wire[p]), k)
        BY ZenonT(60), <1>0, <1>1, <1>2, <1>n, <1>3, InOrderTail
    <2> QED
        BY <1>1, <2>1
<1>5. /\ RemoteSame(q) /\ todo'[p] = t \ {i}
      /\ Held(p)' = Held(p) \cup {m} /\ Stored(p)' = Stored(p) \cup {m}
      /\ \/ t = {i} /\ pc'[p] = "outbound"
         \/ t # {i} /\ t \ {i} # {} /\ pc'[p] = "receive" /\ props'[p] = b
    <2>1. /\ inbox'[p] = inbox[p] \cup {m} /\ torn'[p] = torn[p] \ {m}
          /\ statReceived'[p] = statReceived[p] \cup {m}
        BY <1>0, <1>h, <1>3 DEF TypeOK, b
    <2>2. /\ inbox'[q] = inbox[q] /\ torn'[q] = torn[q]
          /\ statReceived'[q] = statReceived[q]
        BY <1>0, <1>h, <1>p DEF TypeOK
    <2>3. /\ Held(p)' = Held(p) \cup {m} /\ Stored(p)' = Stored(p) \cup {m}
          /\ Held(q)' = Held(q) /\ Stored(q)' = Stored(q)
        BY <2>1, <2>2 DEF Held, Stored
    <2> QED
        BY <1>0, <1>h, <1>p, <2>3 DEF TypeOK, RemoteSame, b, t
<1>6. /\ wire[q] = <<>>
      /\ Alive(q) => pc[q] \in {"send", "confirm"} /\ m \in acc[q]
    BY <1>0, <1>1, <1>i DEF PairInv, WireInv, FrameInv
<1> HIDE DEF m
<1>7. \A k \in DOMAIN wire'[p] : k + 1 \in DOMAIN wire[p] /\ wire'[p][k] = wire[p][k + 1]
                                 /\ k \in Nat /\ k >= 1
    BY <1>1
<1>8. \A k \in DOMAIN wire'[p] : wire'[p][k].type \notin {"handshake", "FS"}
    BY <1>0, <1>7, <1>i DEF PairInv, HandshakeInv, AnswerInv
<1>9. ASSUME Alive(q)
      PROVE  \A k \in DOMAIN wire'[p] : wire'[p][k].type = "data" /\ wire'[p][k].mid \in acc[q]
    BY <1>6, <1>7, <1>8, <1>9, <1>i DEF PairInv, WireInv
<1>10. ASSUME pc[q] = "send", todo[q] # {}
       PROVE  /\ todo[q] \subseteq t \ {i} /\ props[q] = b /\ wire[q] = <<>>
              /\ Before(wire'[p], b, t \ {i}, todo[q])
              /\ up => AllSent(wire'[p], b, t \ {i}, todo[q])
    <2>1. /\ props[q] = b /\ todo[q] \subseteq t /\ Before(wire[p], b, t, todo[q])
          /\ up => AllSent(wire[p], b, t, todo[q])
        BY <1>0, <1>10, <1>i DEF PairInv, SendInv, Alive, b, t
    <2>2. i \notin todo[q]
        <3>1. IsData(wire[p], 1) /\ wire[p][1].mid = b[i]
            BY <1>0, <1>1, <1>3 DEF IsData, m
        <3>2. \A j \in todo[q] : i < j
            BY <1>1, <1>n, <2>1, <3>1 DEF Before
        <3> QED
            BY <3>2, <1>2, <1>n
    <2>3. Before(wire'[p], b, t \ {i}, todo[q])
        <3>1. ASSUME NEW k, IsData(wire'[p], k)
              PROVE  IsData(wire[p], k + 1) /\ k + 1 \in DOMAIN wire[p] /\ wire'[p][k] = wire[p][k + 1]
            BY <1>7, <3>1 DEF IsData
        <3> QED
            BY <2>1, <3>1 DEF Before
    <2>4. ASSUME up PROVE AllSent(wire'[p], b, t \ {i}, todo[q])
        <3> SUFFICES ASSUME NEW j \in (t \ {i}) \ todo[q]
                     PROVE  \E k \in DOMAIN wire'[p] : IsData(wire'[p], k) /\ wire'[p][k].mid = b[j]
            BY DEF AllSent
        <3>1. PICK k \in DOMAIN wire[p] : IsData(wire[p], k) /\ wire[p][k].mid = b[j]
            BY <2>1, <2>4 DEF AllSent
        <3>2. b[j] # b[i]
            BY <1>2, <1>n DEF Distinct
        <3>3. k # 1
            BY <3>1, <3>2, <1>1, <1>3 DEF m
        <3>4. k - 1 \in DOMAIN wire'[p] /\ wire'[p][k - 1] = wire[p][k]
            BY <1>1, <3>1, <3>3
        <3> QED
            BY <3>1, <3>4 DEF IsData
    <2> QED
        BY <1>6, <2>1, <2>2, <2>3, <2>4
<1>11. ASSUME pc'[p] = "outbound", Alive(q)
       PROVE  wire'[p] = <<>> /\ Listening(q)
    <2>1. t = {i}
        BY <1>5, <1>11
    <2>2. \A k \in DOMAIN wire'[p] : FALSE
        BY <2>1, <1>4, <1>9, <1>11 DEF IsData
    <2>3. ~(pc[q] = "send" /\ todo[q] # {})
        BY <2>1, <1>10
    <2> QED
        BY <1>1, <1>6, <1>11, <2>2, <2>3, NoElement DEF Listening
<1> HIDE DEF q
<1>21. FrameInv(p)' /\ FrameInv(q)'
    BY <1>0, <1>1, <1>2, <1>5, <1>i DEF PairInv, FrameInv, RemoteSame, Alive
<1>22. HandshakeInv(p, q)' /\ HandshakeInv(q, p)'
    BY <1>0, <1>1, <1>5, <1>6, <1>8 DEF HandshakeInv, RemoteSame, Alive
<1>23. WireInv(p, q)' /\ WireInv(q, p)'
    BY <1>0, <1>1, <1>5, <1>6, <1>9 DEF WireInv, RemoteSame, Alive
<1>24. TurnInv(p, q)'
    <2>1. Alive(q) => m \in acc[q]
        BY <1>6
    <2> QED
        BY <1>0, <1>1, <1>5, <1>6, <2>1 DEF TurnInv, Listening, RemoteSame, Alive
<1>25. TurnInv(q, p)'
    BY <1>0, <1>2, <1>5, <1>11 DEF TurnInv, Listening, RemoteSame, Alive
<1>26. AnswerInv(p, q)' /\ AnswerInv(q, p)'
    BY <1>1, <1>6, <1>8 DEF AnswerInv
<1>27. DataInv(p)'
    <2>1. CASE t = {i}
        BY <2>1, <1>4, <1>7, <1>i DEF PairInv, DataInv, InOrder, IsData
    <2>2. CASE t # {i}
        BY <2>2, <1>4, <1>5, <1>7, <1>i DEF PairInv, DataInv, b
    <2> QED
        BY <2>1, <2>2
<1>28. DataInv(q)'
    BY <1>1, <1>6 DEF DataInv, InOrder, IsData
<1>29. SendInv(p, q)'
    <2>1. ASSUME pc[q] = "send", todo[q] # {} PROVE t # {i}
        BY <2>1, <1>10
    <2> QED
        BY <1>0, <1>1, <1>5, <1>10, <2>1 DEF SendInv, RemoteSame, Alive
<1>30. SendInv(q, p)'
    BY <1>5 DEF SendInv
<1>31. OwedInv(p, q)'
    BY <1>0, <1>2, <1>5 DEF OwedInv
<1>32. OwedInv(q, p)'
    <2>1. Taken(q)' = Taken(q)
        BY <1>0, <1>5 DEF Taken, RemoteSame
    <2>2. ASSUME NEW j \in t, b[j] # m PROVE t # {i} /\ j \in todo'[p]
        BY <2>2, <1>3, <1>5
    <2> QED
        BY <1>0, <1>1, <1>5, <2>1, <2>2, <1>i DEF PairInv, OwedInv, RemoteSame, Alive, b, t
<1> QED
    BY <1>21, <1>22, <1>23, <1>24, <1>25, <1>26, <1>27, <1>28, <1>29, <1>30, <1>31,
       <1>32, SplitPeers DEF PairInv, q

(* A broken link only takes units away, from the end. *)
LEMMA LinkKeeps ==
    ASSUME TypeOK, ProtocolInv, LinkFailure
    PROVE  ProtocolInv'
<1> SUFFICES ASSUME NEW p \in Peer PROVE PairInv(p, Other(p))'
    BY DEF ProtocolInv
<1> DEFINE q == Other(p)
<1>p. q \in Peer /\ q # p /\ Other(q) = p
    BY OtherPeer
<1>i. PairInv(p, q)
    BY DEF ProtocolInv
<1>0. /\ pc' = pc /\ props' = props /\ acc' = acc /\ todo' = todo /\ rej' = rej
      /\ Held(q)' = Held(q) /\ Stored(q)' = Stored(q) /\ master' = master /\ ~up'
    BY DEF LinkFailure, Held, Stored, mailbox, frame, stats
<1>1. ASSUME NEW r \in Peer
      PROVE  /\ wire[r] \in Seq(Unit)
             /\ \E n \in 0..Len(wire[r]) : wire'[r] = SubSeq(wire[r], 1, n)
    BY DEF LinkFailure, TypeOK, Peer
<1>2. wire[q] = <<>> => wire'[q] = <<>>
    BY <1>1, <1>p, PrefixFacts
<1>3. PICK n \in 0..Len(wire[p]) : wire'[p] = SubSeq(wire[p], 1, n)
    BY <1>1
<1>4. /\ DOMAIN wire'[p] = 1..n /\ Len(wire'[p]) = n /\ DOMAIN wire[p] = 1..Len(wire[p])
      /\ \A k \in 1..n : wire'[p][k] = wire[p][k]
      /\ wire[p] = <<>> => wire'[p] = <<>>
      /\ Len(wire[p]) \in Nat
    BY <1>1, <1>3, PrefixFacts
<1>5. \A k \in DOMAIN wire'[p] : /\ k \in DOMAIN wire[p] /\ wire'[p][k] = wire[p][k]
                                 /\ k = Len(wire[p]) => k = Len(wire'[p])
                                 /\ Len(wire[p]) = 1 => Len(wire'[p]) = 1
    BY <1>4
<1>6. InOrder(wire'[p], props[p], todo[p])
    BY <1>1, <1>3, <1>i, InOrderPrefix DEF PairInv, DataInv
<1> HIDE DEF q
<1>11. FrameInv(p)'
    BY <1>0, <1>4, <1>i DEF PairInv, FrameInv, Alive
<1>12. HandshakeInv(p, q)'
    BY <1>0, <1>4, <1>5, <1>i DEF PairInv, HandshakeInv, Alive
<1>13. WireInv(p, q)'
    BY <1>0, <1>2, <1>5, <1>i DEF PairInv, WireInv, Alive, Listening
<1>14. TurnInv(p, q)'
    BY <1>0, <1>2, <1>i DEF PairInv, TurnInv, Alive, Listening
<1>15. AnswerInv(p, q)'
    <2>1. ASSUME NEW k \in DOMAIN wire'[p], wire'[p][k].type = "FS"
          PROVE  /\ k = 1 /\ wire'[p][k] = wire[p][k] /\ k \in DOMAIN wire[p]
                 /\ \A j \in DOMAIN wire'[p] : j # 1 => wire'[p][j].type = "***"
        BY <1>5, <1>i, <2>1 DEF PairInv, AnswerInv
    <2> QED
        BY ZenonT(60), <1>0, <2>1, <1>i DEF PairInv, AnswerInv, Alive
<1>16. DataInv(p)'
    BY <1>0, <1>5, <1>6, <1>i DEF PairInv, DataInv, IsData
<1>17. SendInv(p, q)'
    <2>1. Before(wire[p], props[p], todo[p], todo[q]) => Before(wire'[p], props[p], todo[p], todo[q])
        BY <1>5 DEF Before, IsData
    <2> QED
        BY <1>0, <1>2, <2>1, <1>i DEF PairInv, SendInv, Alive
<1>18. OwedInv(p, q)'
    BY <1>0, <1>5, <1>i DEF PairInv, OwedInv, Taken, Alive
<1> QED
    BY <1>11, <1>12, <1>13, <1>14, <1>15, <1>16, <1>17, <1>18 DEF PairInv, q

LEMMA ConnectKeeps ==
    ASSUME TypeOK, ProtocolInv, Connect
    PROVE  ProtocolInv'
<1> SUFFICES ASSUME NEW p \in Peer, NEW q \in Peer PROVE PairInv(p, q)'
    BY OtherPeer DEF ProtocolInv
<1>1. /\ pc'[p] = "start" /\ pc'[q] = "start" /\ wire'[p] = <<>> /\ wire'[q] = <<>>
      /\ todo' = todo /\ acc' = acc /\ rej' = rej
    BY DEF Connect, mailbox, frame
<1>2. acc[p] = {} /\ rej[p] = {}
    BY OtherPeer DEF Connect, ProtocolInv, PairInv, FrameInv
<1>3. FrameInv(p)' /\ HandshakeInv(p, q)' /\ WireInv(p, q)' /\ TurnInv(p, q)'
    BY <1>1, <1>2 DEF FrameInv, HandshakeInv, WireInv, TurnInv, Alive
<1>4. AnswerInv(p, q)' /\ DataInv(p)' /\ SendInv(p, q)' /\ OwedInv(p, q)'
    BY <1>1, <1>2 DEF AnswerInv, DataInv, InOrder, IsData, SendInv, OwedInv
<1> QED
    BY <1>3, <1>4 DEF PairInv

(***************************************************************************)
(* The mailboxes.                                                 *)
(***************************************************************************)

(* The order of a sorted block has no room for the same message twice. *)
LEMMA BlockDistinct ==
    ASSUME NEW n \in Nat, NEW S, S \subseteq Mid, NEW b \in [1..n -> S], IsBlock(b, S)
    PROVE  Distinct(b) /\ b \in Seq(Mid)
<1>1. \A i, j \in DOMAIN b : i < j => b[i] # b[j]
    BY RankAssumption DEF IsBlock
<1> QED
    BY <1>1 DEF Distinct

LEMMA OutboundStepKeeps ==
    ASSUME TypeOK, TypeOK', ProtocolInv, SentIsHeld, NEW p \in Peer, OutboundStep(p)
    PROVE  ProtocolInv' /\ SentIsHeld'
<1> USE DEF mailbox, frame, stats, history
<1> DEFINE q == Other(p)
<1>p. q \in Peer /\ q # p /\ Other(q) = p
    BY OtherPeer
<1>i. PairInv(p, q)
    BY DEF ProtocolInv
<1>w. wire \in Wires
    BY DEF TypeOK, Wires
<1>s. ASSUME UNCHANGED <<sent, inbox, torn>> PROVE SentIsHeld'
    BY <1>s DEF SentIsHeld, Held
<1>r. ASSUME NEW m \in Held(q), SetSent(p, m), UNCHANGED <<inbox, torn>> PROVE SentIsHeld'
    BY <1>r, <1>p DEF SetSent, SentIsHeld, Held, TypeOK
<1>1. CASE CheckOutbound(p)
    <2>1. /\ RemoteSame(q) /\ todo'[p] = todo[p]
          /\ pc[p] = "outbound" /\ pc'[p] \in {"propose", "send"}
        BY <1>1, <1>p DEF CheckOutbound, Goto, RemoteSame, Held, Stored, TypeOK
    <2> QED
        BY <2>1, <1>1, <1>s, LocalKeeps DEF CheckOutbound
<1>2. CASE Propose(p)
    <2>1. Outbound(p) \subseteq Mid /\ Cardinality(Outbound(p)) \in Nat
        <3>1. Outbound(p) \subseteq Mid
            BY DEF Outbound, LoadOutbox, TypeOK
        <3> QED
            BY <3>1, SetsAssumption, FS_Subset, FS_CardinalityType
    <2>n. PICK n \in Nat : \E b \in [1..n -> Outbound(p)] :
             /\ IsBlock(b, Outbound(p))
             /\ props' = [props EXCEPT ![p] = b]
             /\ wire' = Put(wire, p, Block(b))
        BY <2>1, <1>2, BoundsAssumption DEF Propose
    <2>2. PICK b \in [1..n -> Outbound(p)] :
             /\ IsBlock(b, Outbound(p))
             /\ props' = [props EXCEPT ![p] = b]
             /\ wire' = Put(wire, p, Block(b))
        BY <2>n
    <2>3. Distinct(b) /\ b \in Seq(Mid)
        BY <2>1, <2>2, BlockDistinct
    <2>4. /\ RemoteSame(q) /\ props'[p] = b /\ pc[p] = "propose" /\ pc'[p] = "answer"
        BY <1>2, <1>p, <2>2 DEF Propose, Goto, RemoteSame, Held, Stored, TypeOK
    <2>5. Block(b) \in Unit /\ Block(b).type = "F>" /\ Block(b).block = b
        BY <2>3, UnitTypes DEF Block
    <2> QED
        BY <2>2, <2>3, <2>4, <2>5, <1>2, <1>s, ProposeKeeps DEF Propose
<1>3. CASE ReadAnswer(p)
    BY <1>3, <1>s, ReadAnswerKeeps DEF ReadAnswer
<1>4. CASE WriteMessage(p)
    BY <1>4, <1>s, WriteKeeps DEF WriteMessage
<1>5. CASE ReportRejected(p)
    <2>1. PICK m \in rej[p] : SetSent(p, m) /\ rej' = [rej EXCEPT ![p] = @ \ {m}]
        BY <1>5 DEF ReportRejected
    <2>2. /\ RemoteSame(q) /\ todo'[p] = todo[p] /\ BlockSent(p) /\ pc'[p] = "send"
          /\ acc'[p] = acc[p] /\ rej'[p] \subseteq rej[p]
        BY <1>5, <1>p, <2>1 DEF ReportRejected, BlockSent, RemoteSame, Held, Stored, TypeOK
    <2>3. m \in Held(q)
        BY <2>1, <1>i DEF PairInv, OwedInv
    <2> QED
        BY <2>1, <2>2, <2>3, <1>5, <1>r, LocalKeeps DEF ReportRejected
<1>6. CASE ProposeMore(p)
    <2>1. /\ RemoteSame(q) /\ todo'[p] = todo[p] /\ BlockSent(p) /\ acc[p] = {}
          /\ pc'[p] = "outbound" /\ acc'[p] = acc[p] /\ rej'[p] = {}
        BY <1>6, <1>p DEF ProposeMore, AfterBlock, Goto, RemoteSame, Held, Stored, TypeOK
    <2> QED
        BY <2>1, <1>6, <1>s, LocalKeeps DEF ProposeMore
<1>7. CASE Turnover(p)
    <2>1. /\ RemoteSame(q) /\ todo'[p] = todo[p] /\ BlockSent(p) /\ rej[p] = {}
          /\ pc'[p] = "confirm" /\ acc' = acc /\ rej' = rej
        BY <1>7, <1>p DEF Turnover, Goto, RemoteSame, Held, Stored, TypeOK
    <2>2. CASE AfterBlock(p) = "implied" /\ wire' = wire
        <3>1. acc[p] # {}
            BY <2>2 DEF AfterBlock
        <3> QED
            BY <2>1, <2>2, <3>1, <1>7, <1>s, LocalKeeps DEF Turnover
    <2>3. CASE AfterBlock(p) = "FF" /\ wire' = Put(wire, p, Line("FF"))
        <3>1. acc[p] = {}
            BY <2>3 DEF AfterBlock
        <3>2. Line("FF") \in Unit /\ Line("FF").type = "FF"
            BY UnitTypes DEF Line
        <3> QED
            BY <2>1, <2>3, <3>1, <3>2, <1>7, <1>s, ProposeKeeps DEF Turnover
    <2> QED
        BY <1>7, <2>2, <2>3 DEF Turnover
<1>8. CASE Quit(p)
    <2>1. Line("FQ") \in Unit /\ Line("FQ").type = "FQ"
        BY UnitTypes DEF Line
    <2>2. Put(wire, p, Line("FQ")) \in Wires
        BY <1>w, <2>1, PutType
    <2>3. Return(p, "ok", Put(wire, p, Line("FQ"))) /\ pc[p] = "send"
        BY <1>8 DEF Quit, BlockSent
    <2> QED
        BY <1>8, <2>1, <2>2, <2>3, <1>s, ReturnKeeps DEF Quit, Held
<1>9. CASE Confirmed(p)
    <2>1. /\ RemoteSame(q) /\ todo'[p] = todo[p] /\ pc[p] = "confirm" /\ pc'[p] = "mark"
          /\ wire[p] # <<>> /\ Head(wire[p]).type \in Confirming
        BY <1>9, <1>p DEF Confirmed, Goto, RemoteSame, Held, Stored, TypeOK
    <2> QED
        BY <2>1, <1>9, <1>s, LocalKeeps DEF Confirmed
<1>10. CASE ReportSent(p)
    <2>1. PICK m \in acc[p] : SetSent(p, m) /\ acc' = [acc EXCEPT ![p] = @ \ {m}]
        BY <1>10 DEF ReportSent
    <2>2. /\ RemoteSame(q) /\ todo'[p] = todo[p] /\ pc[p] = "mark" /\ pc'[p] = "mark"
          /\ acc'[p] \subseteq acc[p] /\ rej'[p] = rej[p]
        BY <1>10, <1>p, <2>1 DEF ReportSent, RemoteSame, Held, Stored, TypeOK
    <2>3. m \in Held(q)
        BY <2>1, <2>2, <1>i DEF PairInv, OwedInv, Stored
    <2> QED
        BY <2>1, <2>2, <2>3, <1>10, <1>r, LocalKeeps DEF ReportSent
<1>11. CASE EndTurn(p)
    <2>1. /\ RemoteSame(q) /\ todo'[p] = todo[p] /\ pc[p] = "mark" /\ pc'[p] = "inbound"
        BY <1>11, <1>p DEF EndTurn, Goto, RemoteSame, Held, Stored, TypeOK
    <2> QED
        BY <2>1, <1>11, <1>s, LocalKeeps DEF EndTurn
<1> QED
    BY <1>1, <1>2, <1>3, <1>4, <1>5, <1>6, <1>7, <1>8, <1>9, <1>10, <1>11 DEF OutboundStep

LEMMA InboundStepKeeps ==
    ASSUME TypeOK, TypeOK', ProtocolInv, SentIsHeld, NEW p \in Peer,
           HandshakeStep(p) \/ InboundStep(p)
    PROVE  ProtocolInv' /\ SentIsHeld'
<1> USE DEF mailbox, frame, stats, history
<1>s. ASSUME UNCHANGED <<sent, inbox, torn>> PROVE SentIsHeld'
    BY <1>s DEF SentIsHeld, Held
<1>1. CASE HandshakeStep(p)
    BY <1>1, <1>s, StartKeeps, SlaveKeeps, MasterKeeps
       DEF HandshakeStep, Start, SlaveHandshake, MasterHandshake, SkipErrorLine
<1>2. CASE ReadEmptyBlock(p) \/ ReadNoMore(p)
    BY SMTT(60), <1>2, <1>s, TurnTakenKeeps DEF ReadEmptyBlock, ReadNoMore
<1>3. CASE ReadBlock(p)
    BY ZenonT(60), <1>3, <1>s, ReadBlockKeeps DEF ReadBlock
<1>4. CASE ReadQuit(p)
    <2>1. Return(p, "ok", wire) /\ wire \in Wires
        BY <1>4 DEF ReadQuit, TypeOK, Wires
    <2>2. Line("FF") \in Unit
        BY UnitTypes
    <2> QED
        BY <1>4, <1>s, <2>1, <2>2, ReturnKeeps DEF ReadQuit, Held
<1>5. CASE ReceiveMessage(p)
    <2>1. \A r \in Peer : Held(r) \subseteq Held(r)'
        BY <1>5 DEF ReceiveMessage, TypeOK, Held
    <2> QED
        BY <1>5, <2>1, ReceiveKeeps, OtherPeer DEF ReceiveMessage, SentIsHeld
<1> QED
    BY <1>1, <1>2, <1>3, <1>4, <1>5 DEF InboundStep

LEMMA FailureKeeps ==
    ASSUME TypeOK, TypeOK', ProtocolInv, SentIsHeld, NEW p \in Peer,
           FailureStep(p) \/ PrepareFails(p) \/ ReceiveFails(p) \/ Crash(p)
    PROVE  ProtocolInv' /\ SentIsHeld'
<1> USE DEF mailbox, frame, stats, history
<1>1. wire \in Wires
    BY DEF TypeOK, Wires
<1>2. Line("***") \in Unit /\ Line("***").type = "***"
    BY UnitTypes DEF Line
<1>3. Put(wire, p, Line("***")) \in Wires
    BY <1>1, <1>2, PutType
<1>4. /\ UNCHANGED <<sent, statReceived, master, up>>
      /\ Tear(p) \/ UNCHANGED <<inbox, torn>>
    BY DEF FailureStep, WriteFails, ProtocolError, ConnLost, PrepareFails, ReceiveFails,
           Crash
<1>t. Held(p) \subseteq Held(p)' /\ Held(Other(p))' = Held(Other(p))
    <2>1. CASE UNCHANGED <<inbox, torn>>
        BY <2>1 DEF Held
    <2>2. CASE Tear(p)
        <3> DEFINE m == Head(wire[p]).mid
        <3>1. /\ inbox'[p] = inbox[p] \ {m} /\ torn'[p] = torn[p] \cup {m}
              /\ inbox'[Other(p)] = inbox[Other(p)] /\ torn'[Other(p)] = torn[Other(p)]
            BY <2>2, OtherPeer DEF Tear, TypeOK
        <3> HIDE DEF m
        <3> QED
            BY <3>1 DEF Held
    <2> QED
        BY <1>4, <2>1, <2>2
<1>5. \/ Return(p, "lost", wire) \/ Return(p, "crashed", wire)
      \/ Return(p, "error", Put(wire, p, Line("***")))
    BY DEF FailureStep, WriteFails, ProtocolError, ConnLost, PrepareFails, ReceiveFails,
           Crash
<1>6. ProtocolInv'
    BY <1>1, <1>2, <1>3, <1>4, <1>t, <1>5, ReturnKeeps
<1> QED
    BY <1>4, <1>t, <1>6, OtherPeer DEF SentIsHeld

LEMMA SafetyStep ==
    ASSUME TypeOK, TypeOK', ProtocolInv, SentIsHeld, [Next]_vars
    PROVE  ProtocolInv' /\ SentIsHeld'
<1> USE DEF mailbox, frame, stats, history
<1>1. CASE Connect
    BY <1>1, ConnectKeeps DEF Connect, SentIsHeld, Held
<1>2. CASE \E p \in Peer : SessionStep(p)
    BY <1>2, OutboundStepKeeps, InboundStepKeeps, FailureKeeps DEF SessionStep
<1>3. CASE LinkFailure
    BY <1>3, LinkKeeps DEF LinkFailure, SentIsHeld, Held
<1>4. CASE \E p \in Peer : PrepareFails(p) \/ ReceiveFails(p) \/ Crash(p)
    BY <1>4, FailureKeeps
<1>5. CASE UNCHANGED vars \/ \E p \in Peer : BeginAddOut(p) \/ EndAddOut(p) \/ OpenFails(p)
    <2>1. UNCHANGED <<pc, props, todo, acc, rej, wire, inbox, torn, sent, statReceived,
                     master, up>>
        BY <1>5 DEF vars, BeginAddOut, EndAddOut, OpenFails
    <2>2. \A p, q \in Peer : PairInv(p, q) => PairInv(p, q)'
        BY SMTT(60), <2>1 DEF PairInv, FrameInv, HandshakeInv, WireInv, TurnInv, AnswerInv, DataInv,
                    SendInv, OwedInv, Taken, Alive, Listening, Held, Stored
    <2> QED
        BY <2>1, <2>2, OtherPeer DEF ProtocolInv, SentIsHeld, Held
<1> QED
    BY <1>1, <1>2, <1>3, <1>4, <1>5 DEF Next, FaultStep

LEMMA SafetyInit ==
    ASSUME Init
    PROVE  ProtocolInv /\ SentIsHeld
<1>1. ASSUME NEW p \in Peer, NEW q \in Peer PROVE PairInv(p, q)
    <2>1. /\ pc[p] = "idle" /\ pc[q] = "idle" /\ wire[p] = <<>> /\ wire[q] = <<>>
          /\ acc[p] = {} /\ rej[p] = {}
        BY <1>1 DEF Init
    <2>2. FrameInv(p) /\ HandshakeInv(p, q) /\ WireInv(p, q) /\ TurnInv(p, q)
        BY <2>1 DEF FrameInv, HandshakeInv, WireInv, TurnInv, Alive
    <2>3. AnswerInv(p, q) /\ DataInv(p) /\ SendInv(p, q) /\ OwedInv(p, q)
        BY <2>1 DEF AnswerInv, DataInv, InOrder, IsData, SendInv, OwedInv
    <2> QED
        BY <2>2, <2>3 DEF PairInv
<1>2. SentIsHeld
    BY DEF Init, SentIsHeld
<1> QED
    BY <1>1, <1>2, OtherPeer DEF ProtocolInv

(* Whatever the messages, their order, the size of the blocks, the faults    *)
(* and what they leave on disk, the two sessions keep the protocol invariant *)
(* and a message in /sent/ has a file in the remote's /in/.                  *)
THEOREM ProtocolInvariant == Spec => [](ProtocolInv /\ SentIsHeld)
<1>1. Init => ProtocolInv /\ SentIsHeld
    BY SafetyInit
<1>2. TypeOK /\ TypeOK' /\ (ProtocolInv /\ SentIsHeld) /\ [Next]_vars
      => (ProtocolInv /\ SentIsHeld)'
    BY SafetyStep
<1> QED
    BY <1>1, <1>2, TypeCorrect, PTL DEF Spec

(* Which steps touch the directories. *)
LEMMA MailboxFrame ==
    ASSUME [Next]_vars
    PROVE  \/ UNCHANGED mailbox
           \/ \E p \in Peer : \/ BeginAddOut(p) \/ EndAddOut(p) \/ ReportRejected(p)
                              \/ ReportSent(p) \/ ReceiveMessage(p)
                              \/ (ReceiveFails(p) \/ Crash(p)) /\ Tear(p)
                                 /\ UNCHANGED <<out, writing, sent>>
<1> USE DEF mailbox
<1>1. CASE Connect \/ LinkFailure \/ UNCHANGED vars
    BY <1>1 DEF Connect, LinkFailure, vars
<1>2. ASSUME NEW p \in Peer, HandshakeStep(p) PROVE UNCHANGED mailbox
    BY <1>2 DEF HandshakeStep, Start, SlaveHandshake, MasterHandshake, SkipErrorLine
<1>3. ASSUME NEW p \in Peer, OutboundStep(p)
      PROVE  UNCHANGED mailbox \/ ReportRejected(p) \/ ReportSent(p)
    BY <1>3 DEF OutboundStep, CheckOutbound, Propose, ReadAnswer, WriteMessage,
                ProposeMore, Turnover, Quit, Confirmed, EndTurn
<1>4. ASSUME NEW p \in Peer, InboundStep(p)
      PROVE  UNCHANGED mailbox \/ ReceiveMessage(p)
    BY <1>4 DEF InboundStep, ReadEmptyBlock, ReadBlock, ReadNoMore, ReadQuit
<1>5. ASSUME NEW p \in Peer, FailureStep(p) \/ PrepareFails(p) \/ OpenFails(p)
      PROVE  UNCHANGED mailbox
    BY <1>5 DEF FailureStep, WriteFails, ProtocolError, ConnLost, PrepareFails, OpenFails
<1>6. ASSUME NEW p \in Peer, ReceiveFails(p) \/ Crash(p)
      PROVE  UNCHANGED mailbox \/ (Tear(p) /\ UNCHANGED <<out, writing, sent>>)
    BY <1>6 DEF ReceiveFails, Crash
<1> QED
    BY <1>1, <1>2, <1>3, <1>4, <1>5, <1>6 DEF Next, SessionStep, FaultStep

(* No file is cut short when a failed write leaves none behind. *)
LEMMA WholeStep ==
    ASSUME ~TornWrites, TypeOK, Whole, [Next]_vars
    PROVE  Whole'
<1>1. torn' = torn \/ \E p \in Peer : ReceiveMessage(p)
    BY MailboxFrame DEF mailbox, BeginAddOut, EndAddOut, ReportRejected, ReportSent, Tear
<1>2. ASSUME NEW p \in Peer, ReceiveMessage(p) PROVE Whole'
    <2>1. torn' = [torn EXCEPT ![p] = @ \ {Head(wire[p]).mid}]
        BY <1>2 DEF ReceiveMessage
    <2> QED
        BY <2>1 DEF Whole, TypeOK
<1> QED
    BY <1>1, <1>2 DEF Whole

LEMMA NothingTorn ==
    ASSUME ~TornWrites
    PROVE  Spec => []Whole
<1>1. Init => Whole
    BY DEF Init, Whole
<1>2. TypeOK /\ Whole /\ [Next]_vars => Whole'
    BY WholeStep
<1> QED
    BY <1>1, <1>2, TypeCorrect, PTL DEF Spec

(* When a failed write leaves no file behind, a message that                 *)
(* DirHandler.SetSent has moved to /sent/ is a complete file in the remote's *)
(* /in/, whatever broke on the way.                                          *)
THEOREM SentIsReceived ==
    ASSUME ~TornWrites
    PROVE  Spec => []SentImpliesReceived
<1>1. SentIsHeld /\ Whole => SentImpliesReceived
    BY OtherPeer DEF SentIsHeld, Held, Whole, SentImpliesReceived
<1> QED
    BY <1>1, ProtocolInvariant, NothingTorn, PTL

(* handleInbound stores every message under the proposal it was accepted     *)
(* for: positions alone tie data to proposals, and suffice.                  *)
THEOREM DataIsProposed == Spec => []DataMatchesProposal
<1>1. ASSUME TypeOK, ProtocolInv PROVE DataMatchesProposal
    <2> SUFFICES ASSUME NEW p \in Peer, pc[p] = "receive", Receives(p, "data"),
                        NEW i \in todo[p], IsNext(i, todo[p])
                 PROVE  Head(wire[p]).mid = props[p][i]
        BY DEF DataMatchesProposal
    <2>1. PairInv(p, Other(p))
        BY <1>1 DEF ProtocolInv
    <2>2. Distinct(props[p]) /\ InOrder(wire[p], props[p], todo[p])
        BY <2>1 DEF PairInv, FrameInv, DataInv
    <2>3. /\ todo[p] \subseteq DOMAIN props[p] /\ todo[p] \subseteq Nat
          /\ wire[p] \in Seq(Unit)
        BY <1>1 DEF TypeOK, Live
    <2>4. wire[p] # <<>> /\ Head(wire[p]).type = "data"
        BY DEF Receives
    <2> QED
        BY <2>2, <2>3, <2>4, InOrderHead
<1>2. TypeOK /\ ProtocolInv => DataMatchesProposal
    BY <1>1
<1> QED
    BY <1>2, TypeCorrect, ProtocolInvariant, PTL
=============================================================================
