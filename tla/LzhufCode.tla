----------------------------- MODULE LzhufCode -----------------------------
(***************************************************************************)
(* The compression of package lzhuf, as operators on records: the adaptive *)
(* Huffman tree, the search tree that finds earlier occurrences of the     *)
(* text, the Writer that compresses into a framed byte sequence and the    *)
(* Reader that restores it.                                                *)
(*                                                                         *)
(* The sizes of the code (an alphabet of 256 bytes, a window of 2048, a    *)
(* lookahead of 60) are parameters; the width of a byte, of the bit        *)
(* register and of the checksum, and the position tables, are the code's.  *)
(***************************************************************************)
EXTENDS Integers, Sequences, SequencesExt, Bitwise

CONSTANTS
    Alphabet,    \* number of byte values of the text                (256)
    N,           \* size of the window, a power of two              (2048)
    F,           \* size of the lookahead buffer                      (60)
    Threshold,   \* a match must be longer than this                   (2)
    MaxFreq,     \* frequency of the root that has the tree rebuilt (32768)
    Space        \* the byte the window is filled with               (' ')

ASSUME LzhufAssumption ==
    /\ Alphabet \in Nat \ {0} /\ Space \in 0..Alphabet-1
    /\ Threshold \in Nat /\ F > Threshold /\ N > 2*F
    /\ \E k \in 1..16 : N = 2^k

NIL     == N
NumChar == Alphabet - Threshold + F
T       == 2*NumChar - 1
R       == T - 1

\* The reader starts at N - R where the writer starts at N - F. Positions are
\* relative, so the two agree when the spaces in front of both are enough.
ASSUME ReaderStart == N - R >= F /\ N - R <= N - F

Upto(m, n) == [i \in 1..(n - m + 1) |-> m + i - 1]

-----------------------------------------------------------------------------
(* The adaptive Huffman tree: nodes 0..R in the order of their frequency,  *)
(* the leaf of symbol c where prnt[c + T] says.                            *)

newLZHUFF ==
    LET leaves == [freq |-> [i \in 0..T |-> IF i < NumChar THEN 1
                                            ELSE IF i = T THEN 65535 ELSE 0],
                   prnt |-> [i \in 0..(T + NumChar - 1) |->
                                IF i >= T THEN i - T ELSE 0],
                   son  |-> [i \in 0..R |-> IF i < NumChar THEN i + T ELSE 0]]
        Join(h, j) == LET i == 2*(j - NumChar) IN
            [freq |-> [h.freq EXCEPT ![j] = h.freq[i] + h.freq[i+1]],
             son  |-> [h.son EXCEPT ![j] = i],
             prnt |-> [h.prnt EXCEPT ![i] = j, ![i+1] = j]]
    IN  FoldLeft(Join, leaves, Upto(NumChar, R))

\* The parents that follow from the children
WithParents(h, prnt) ==
    LET Parent(q) == CHOOSE i \in 0..R : h.son[i] = q \/ (h.son[i] = q-1 /\ q < T)
    IN  [freq |-> h.freq, son |-> h.son,
         prnt |-> [q \in DOMAIN prnt |-> IF q = R THEN prnt[R] ELSE Parent(q)]]

reconst(h) ==
    LET leaf   == SelectSeq(Upto(0, R), LAMBDA i : h.son[i] >= T)
        halved == [freq |-> [i \in 0..T |-> IF i < NumChar
                                            THEN (h.freq[leaf[i+1]] + 1) \div 2
                                            ELSE h.freq[i]],
                   son  |-> [i \in 0..R |-> IF i < NumChar
                                            THEN h.son[leaf[i+1]] ELSE h.son[i]]]
        Connect(g, j) ==
            LET i     == 2*(j - NumChar)
                first == g.freq[i] + g.freq[i+1]
                k     == CHOOSE k \in 1..j :
                            /\ g.freq[k-1] <= first
                            /\ \A m \in k..j-1 : g.freq[m] > first
                Shift(f, x) == [m \in DOMAIN f |->
                                  IF m = k THEN x
                                  ELSE IF m \in k+1..j THEN f[m-1] ELSE f[m]]
            IN  [freq |-> Shift(g.freq, first), son |-> Shift(g.son, i)]
    IN  WithParents(FoldLeft(Connect, halved, Upto(NumChar, R)), h.prnt)

\* Where a node whose frequency became k moves to: past all the lighter ones
Rightmost(freq, c, k) ==
    CHOOSE l \in c+1..R : k <= freq[l+1] /\ \A m \in c+2..l : k > freq[m]

\* Mutant of SwapNodes: the second child keeps its old parent
SwapNodesOneChild(h, c, l) ==
    [freq |-> [h.freq EXCEPT ![c] = h.freq[l], ![l] = h.freq[c]],
     son  |-> [h.son EXCEPT ![l] = h.son[c], ![c] = h.son[l]],
     prnt |-> [h.prnt EXCEPT ![h.son[c]] = l, ![h.son[l]] = c]]

SwapNodes(h, c, l) ==
    LET i == h.son[c]
        j == h.son[l]
        Point(prnt, q, at) == IF q < T THEN [prnt EXCEPT ![q] = at, ![q+1] = at]
                              ELSE [prnt EXCEPT ![q] = at]
    IN  [freq |-> [h.freq EXCEPT ![c] = h.freq[l], ![l] = h.freq[c]],
         son  |-> [h.son EXCEPT ![l] = i, ![c] = j],
         prnt |-> Point(Point(h.prnt, i, l), j, c)]

\* One more for the node c and all nodes above it, each moved to where its
\* frequency belongs
RECURSIVE Climb(_, _)
Ascend(h, l) == IF h.prnt[l] = 0 THEN h ELSE Climb(h, h.prnt[l])

Reorder(h, c) ==
    IF h.freq[c] <= h.freq[c+1] \/ T + 1 <= c + 2 THEN Ascend(h, c)
    ELSE LET l == Rightmost(h.freq, c, h.freq[c]) IN Ascend(SwapNodes(h, c, l), l)

Climb(h, c) == Reorder([h EXCEPT !.freq[c] = @ + 1], c)

ClimbFrom(h, leaf) == Climb(h, h.prnt[leaf])

update(h, c) == ClimbFrom(IF h.freq[R] = MaxFreq THEN reconst(h) ELSE h, c + T)

-----------------------------------------------------------------------------
(* The search tree: for every first symbol c a binary tree, rooted at      *)
(* rson[N+1+c], of the window positions whose text starts with c.          *)

InitTree ==
    [dad  |-> [i \in 0..N |-> IF i < N THEN NIL ELSE 0],
     lson |-> [i \in 0..N |-> 0],
     rson |-> [i \in 0..N+Alphabet |-> IF i > N THEN NIL ELSE 0]]

\* Put q where p hangs from its parent
Hang(t, p, q) ==
    IF t.rson[t.dad[p]] = p THEN [t EXCEPT !.rson[t.dad[p]] = q]
                            ELSE [t EXCEPT !.lson[t.dad[p]] = q]

RECURSIVE RightEnd(_, _)
RightEnd(t, q) == IF t.rson[q] = NIL THEN q ELSE RightEnd(t, t.rson[q])

\* Mutant of JoinSons: q also stays where it was
JoinSonsTwice(t, p) ==
    LET q == RightEnd(t, t.lson[p])
    IN  [t EXCEPT !.rson[q] = t.rson[p],
                  !.lson[q] = IF q = t.lson[p] THEN @ ELSE t.lson[p],
                  !.dad = [@ EXCEPT ![t.rson[p]] = q,
                                    ![t.lson[p]] = IF q = t.lson[p] THEN @ ELSE q]]

\* The two children of p joined under the greatest node of the left one
JoinSons(t, p) ==
    LET q  == RightEnd(t, t.lson[p])
        up == t.dad[q]
        t1 == IF q = t.lson[p] THEN t
              ELSE [t EXCEPT !.rson[up] = t.lson[q],
                             !.dad = [@ EXCEPT ![t.lson[q]] = up, ![t.lson[p]] = q],
                             !.lson[q] = t.lson[p]]
    IN  [t1 EXCEPT !.rson[q] = t.rson[p], !.dad[t.rson[p]] = q]

DeleteNode(t, p) ==
    LET q == IF t.rson[p] = NIL THEN t.lson[p]
             ELSE IF t.lson[p] = NIL THEN t.rson[p]
             ELSE RightEnd(t, t.lson[p])
        joined == IF NIL \in {t.rson[p], t.lson[p]} THEN t ELSE JoinSons(t, p)
        moved  == Hang([joined EXCEPT !.dad[q] = joined.dad[p]], p, q)
    IN  IF t.dad[p] = NIL THEN t ELSE [moved EXCEPT !.dad[p] = NIL]

\* p's place is taken by r, which has the same text
Replace(t, p, r) ==
    LET t1 == [t EXCEPT !.lson[r] = t.lson[p], !.rson[r] = t.rson[p],
                        !.dad = [@ EXCEPT ![r] = t.dad[p], ![t.lson[p]] = r,
                                          ![t.rson[p]] = r]]
    IN  [Hang(t1, p, r) EXCEPT !.dad[p] = NIL]

\* Length of the common text at r and p, whose first symbols are the same
Common(text, r, p) ==
    CHOOSE i \in 1..F : /\ \A m \in 1..i-1 : text[r+m] = text[p+m]
                        /\ i < F => text[r+i] # text[p+i]

Distance(r, p) == ((r - p) % N) - 1

\* A longer match, or one as long and nearer, is remembered
Noted(z, r, p, i) ==
    IF \/ i <= Threshold \/ i < z.matchLength
       \/ i = z.matchLength /\ Distance(r, p) >= z.matchPosition
    THEN z
    ELSE [z EXCEPT !.matchLength = i, !.matchPosition = Distance(r, p)]

RECURSIVE Descend(_, _, _, _)
Descend(z, r, p, right) ==
    LET q == IF right THEN z.tree.rson[p] ELSE z.tree.lson[p]
        i == Common(z.textBuf, r, q)
        n == Noted(z, r, q, i)
    IN  IF q = NIL
        THEN [z EXCEPT !.tree = IF right
                THEN [@ EXCEPT !.rson[p] = r, !.dad[r] = p]
                ELSE [@ EXCEPT !.lson[p] = r, !.dad[r] = p]]
        ELSE IF i = F THEN [n EXCEPT !.tree = Replace(@, q, r)]
        ELSE Descend(n, r, q, z.textBuf[r+i] >= z.textBuf[q+i])

InsertNode(z, r) ==
    Descend([z EXCEPT !.tree.rson[r] = NIL, !.tree.lson[r] = NIL,
                      !.matchLength = 0],
            r, N + 1 + z.textBuf[r], TRUE)

-----------------------------------------------------------------------------
(* The tables of the position code, as <<value, how often>> runs           *)

RECURSIVE Runs(_)
Runs(rs) == IF rs = <<>> THEN <<>>
            ELSE [i \in 1..Head(rs)[2] |-> Head(rs)[1]] \o Runs(Tail(rs))

\* n consecutive multiples of step from start on, each repeated
Ladder(start, step, n, times) ==
    [i \in 1..(n * times) |-> start + step * ((i - 1) \div times)]

pLen == Runs(<< <<3,1>>, <<4,3>>, <<5,8>>, <<6,12>>, <<7,24>>, <<8,16>> >>)
pCode == <<0>> \o Ladder(32, 16, 3, 1) \o Ladder(80, 8, 8, 1)
         \o Ladder(144, 4, 12, 1) \o Ladder(192, 2, 24, 1) \o Ladder(240, 1, 16, 1)
dLen == Runs(<< <<3,32>>, <<4,48>>, <<5,64>>, <<6,48>>, <<7,48>>, <<8,16>> >>)
dCode == Ladder(0, 1, 1, 32) \o Ladder(1, 1, 3, 16) \o Ladder(4, 1, 8, 8)
         \o Ladder(12, 1, 12, 4) \o Ladder(24, 1, 24, 2) \o Ladder(48, 1, 16, 1)

-----------------------------------------------------------------------------
(* The Writer                                                              *)

NewWriter ==
    [huff |-> newLZHUFF, tree |-> InitTree,
     textBuf |-> [i \in 0..N+F-2 |-> IF i < N - F THEN Space ELSE 0],
     matchLength |-> 0, matchPosition |-> 0,
     buf |-> <<>>, putbuf |-> 0, putlen |-> 0,
     len |-> 0, r |-> N - F, s |-> 0, lastMatchLength |-> 0,
     preFilled |-> FALSE, fileSize |-> 0]

\* The l first bits of the 16-bit word c go out
putCode(w, l, c) ==
    LET put  == w.putbuf | shiftR(c, w.putlen)
        bits == w.putlen + l
    IN  IF bits < 8 THEN [w EXCEPT !.putbuf = put, !.putlen = bits]
        ELSE IF bits < 16
        THEN [w EXCEPT !.buf = Append(@, put \div 256), !.putlen = bits - 8,
                       !.putbuf = (put % 256) * 256]
        ELSE [w EXCEPT !.buf = @ \o <<put \div 256, put % 256>>, !.putlen = bits - 16,
                       !.putbuf = LET k == l - (bits - 16) IN (c % 2^(16 - k)) * 2^k]

\* The path from the root to node k, as a length and a left-aligned word
RECURSIVE Path(_, _, _, _)
Path(prnt, k, j, i) ==
    LET i1 == shiftR(i, 1) + (IF k % 2 = 1 THEN 32768 ELSE 0)
    IN  IF prnt[k] = R THEN <<j + 1, i1>> ELSE Path(prnt, prnt[k], j + 1, i1)

encodeChar(w, c) ==
    LET code == Path(w.huff.prnt, w.huff.prnt[c + T], 0, 0)
    IN  [putCode(w, code[1], code[2]) EXCEPT !.huff = update(w.huff, c)]

encodePosition(w, c) ==
    LET i == c \div 64
    IN  putCode(putCode(w, pLen[i+1], pCode[i+1] * 256), 6, (c % 64) * 1024)

encode(w) ==
    LET m == IF w.matchLength > w.len THEN w.len ELSE w.matchLength
    IN  IF w.len = 0 THEN w
        ELSE IF m <= Threshold
        THEN [encodeChar(w, w.textBuf[w.r]) EXCEPT !.matchLength = 1,
                                                   !.lastMatchLength = 1]
        ELSE [encodePosition(encodeChar(w, Alphabet - 1 - Threshold + m),
                             w.matchPosition)
                EXCEPT !.matchLength = m, !.lastMatchLength = m]

\* Mutant of advance: the copy of the first F-1 bytes behind the window is not kept
advanceNoMirror(w, c) ==
    LET w1 == IF c = <<>> THEN w
              ELSE [w EXCEPT !.len = @ + 1, !.textBuf[w.s] = c[1]]
        w2 == [InsertNode(w1, w.r) EXCEPT !.lastMatchLength = @ - 1]
        w3 == IF w2.lastMatchLength = 0 THEN encode(w2) ELSE w2
    IN  [w3 EXCEPT !.tree = DeleteNode(@, w.s),
                   !.s = (@ + 1) % N, !.r = (@ + 1) % N, !.len = @ - 1]

\* One byte leaves the lookahead buffer; c is the byte that enters it, if any
advance(w, c) ==
    LET w1 == IF c = <<>> THEN w
              ELSE [w EXCEPT !.len = @ + 1,
                     !.textBuf = [i \in DOMAIN @ |->
                        IF i = w.s \/ (w.s < F - 1 /\ i = w.s + N)
                        THEN c[1] ELSE @[i]]]
        w2 == [InsertNode(w1, w.r) EXCEPT !.lastMatchLength = @ - 1]
        w3 == IF w2.lastMatchLength = 0 THEN encode(w2) ELSE w2
    IN  [w3 EXCEPT !.tree = DeleteNode(@, w.s),
                   !.s = (@ + 1) % N, !.r = (@ + 1) % N, !.len = @ - 1]

\* Write, for every byte of its argument
WriteByte(w, c) ==
    LET filled == [w EXCEPT !.textBuf[w.r + w.len] = c, !.len = @ + 1,
                            !.fileSize = @ + 1]
    IN  IF w.preFilled THEN [advance(w, <<c>>) EXCEPT !.fileSize = @ + 1]
        ELSE [InsertNode(filled, w.r - filled.len) EXCEPT
                !.lastMatchLength = 1, !.preFilled = (filled.len = F)]

RECURSIVE Drain(_)
Drain(w) == IF w.len > 0 THEN Drain(advance(w, <<>>)) ELSE w

encodeEnd(w) ==
    IF w.putlen = 0 THEN w.buf ELSE Append(w.buf, w.putbuf \div 256)

-----------------------------------------------------------------------------
(* The checksum: CRC-16 with the polynomial 0x1021, two zero bytes behind  *)

crc16tab ==
    LET Bit(s, i) == IF s >= 32768 THEN ((2*s) % 65536) ^^ 4129 ELSE 2*s
    IN  [b \in 0..255 |-> FoldLeft(Bit, b * 256, Upto(1, 8))]

udpCRC16(sum, cp) == (((sum * 256) % 65536) ^^ crc16tab[sum \div 256]) ^^ cp

crc(p) == FoldLeft(udpCRC16, 0, p \o <<0, 0>>)

\* A word as n bytes, the least significant first
LittleEndian(v, n) == [i \in 1..n |-> (v \div 2^(8*(i-1))) % 256]
Uint16(b) == b[1] + 256*b[2]
Int32(b)  == b[1] + 256*b[2] + 65536*b[3]
             + 16777216*(IF b[4] < 128 THEN b[4] ELSE b[4] - 256)

\* Close: the lookahead buffer is drained, then everything goes out behind
\* the checksum and the size
Finish(w) == encode(Drain(w))
FileOf(w) ==
    LET data == LittleEndian(w.fileSize, 4) \o encodeEnd(w)
    IN  LittleEndian(crc(data), 2) \o data

Compress(text) == FileOf(Finish(FoldLeft(WriteByte, NewWriter, text)))

-----------------------------------------------------------------------------
(* The Reader: head is the size as it was read, in the stream behind it,   *)
(* bit the number of bits taken from it.                                   *)

NewReader(file) ==
    IF Len(file) < 6 THEN [err |-> "EOF"]
    ELSE [huff |-> newLZHUFF,
          textBuf |-> [i \in 0..N-1 |-> IF i < N - F THEN Space ELSE 0],
          crc |-> Uint16(file), size |-> Int32(SubSeq(file, 3, 6)),
          head |-> SubSeq(file, 3, 6), in |-> SubSeq(file, 7, Len(file)), bit |-> 0,
          biterr |-> FALSE, err |-> "nil", pos |-> 0, r |-> N - R, buf |-> <<>>]

\* The bits k+1 .. k+n of a byte sequence as a number
BitsAt(bytes, k, n) ==
    FoldLeft(LAMBDA v, i : 2*v + ((bytes[(i \div 8) + 1] \div 2^(7 - (i % 8))) % 2),
             0, Upto(k, k + n - 1))

\* ReadBits: <<reader, value>>. A read past the end yields 0, takes nothing
\* and leaves its mark.
ReadBits(d, n) ==
    IF d.bit + n <= 8 * Len(d.in)
    THEN <<[d EXCEPT !.bit = @ + n], BitsAt(d.in, d.bit, n)>>
    ELSE <<[d EXCEPT !.biterr = TRUE], 0>>

RECURSIVE WalkDown(_, _)
WalkDown(d, c) ==
    IF c >= T THEN <<d, c - T>>
    ELSE LET b == ReadBits(d, 1) IN WalkDown(b[1], d.huff.son[c + b[2]])

decodeChar(d) ==
    LET x == WalkDown(d, d.huff.son[R])
    IN  <<[x[1] EXCEPT !.huff = update(@, x[2])], x[2]>>

decodePosition(d) ==
    LET x    == ReadBits(d, 8)
        More(y, k) == LET b == ReadBits(y[1], 1) IN <<b[1], 2*y[2] + b[2]>>
        low  == FoldLeft(More, x, Upto(1, dLen[x[2] + 1] - 2))
    IN  <<low[1], (dCode[x[2] + 1] * 64) + (low[2] % 64)>>

\* A decoded byte: into the window and to the caller, or kept for the next call
Emit(d, out, k, c) ==
    LET d1 == [d EXCEPT !.textBuf[d.r] = c, !.r = (@ + 1) % N, !.pos = @ + 1]
    IN  IF Len(out) < k THEN <<d1, Append(out, c)>>
        ELSE <<[d1 EXCEPT !.buf = Append(@, c)], out>>

CopyMatch(d, out, k, len) ==
    LET x    == decodePosition(d)
        from == x[1].r - x[2] - 1
        Step(y, i) == Emit(y[1], y[2], k, y[1].textBuf[(from + i) % N])
    IN  FoldLeft(Step, <<x[1], out>>, Upto(0, len - 1))

\* What was decoded, x, goes to the caller, or is a match to be copied
Expand(x, out, k) ==
    IF x[2] < Alphabet THEN Emit(x[1], out, k, x[2])
    ELSE CopyMatch(x[1], out, k, x[2] - (Alphabet - 1) + Threshold)

\* y is the reader and what the caller has got
RECURSIVE ReadLoop(_, _)
ReadLoop(y, k) ==
    IF Len(y[2]) >= k \/ y[1].biterr \/ y[1].pos >= y[1].size THEN y
    ELSE ReadLoop(Expand(decodeChar(y[1]), y[2], k), k)

\* Read into k bytes: <<reader, the bytes, the error>>
Read(d, k) ==
    LET n == IF Len(d.buf) < k THEN Len(d.buf) ELSE k
    IN  IF d.biterr
        THEN <<[d EXCEPT !.err = "ErrUnexpectedEOF"], <<>>, "ErrUnexpectedEOF">>
        ELSE IF d.pos = d.size /\ d.buf = <<>> THEN <<d, <<>>, "EOF">>
        ELSE ReadLoop(<<[d EXCEPT !.buf = SubSeq(@, n + 1, Len(@))],
                        SubSeq(d.buf, 1, n)>>, k)
             \o <<"nil">>

\* The crcWriter: what was read. The source is buffered, so the first bit
\* has all of a stream up to 4096 bytes copied to it.
Summed(d) == IF d.bit > 0 \/ d.biterr THEN d.head \o d.in ELSE d.head

\* Mutant of CloseReader: only the size is compared
CloseReaderNoCRC(d) ==
    CASE d.err # "nil" \/ d.biterr -> "ErrUnexpectedEOF"
      [] OTHER -> IF d.size # d.pos - Len(d.buf) THEN "ErrChecksum" ELSE "nil"

CloseReader(d) ==
    CASE d.err # "nil" \/ d.biterr -> "ErrUnexpectedEOF"
      [] OTHER -> IF crc(Summed(d)) # d.crc \/ d.size # d.pos - Len(d.buf)
                  THEN "ErrChecksum" ELSE "nil"
=============================================================================
