-------------------------------- MODULE Lzhuf -------------------------------
(***************************************************************************)
(* One message through package lzhuf: a Writer compresses the text it is   *)
(* given byte by byte and is closed; the file it made may be damaged; a    *)
(* Reader opens it, is read with buffers of any size and is closed.        *)
(***************************************************************************)
EXTENDS LzhufCode, FiniteSets

CONSTANTS
    MaxWrites,   \* bound: calls of Write
    Starts,      \* longer texts the first Write may be given
    MaxDamaged,  \* bound: length of the texts whose file is damaged
    ReadSizes    \* the sizes of the buffers given to Read

ASSUME LzhufBounds ==
    /\ MaxWrites \in Nat /\ MaxDamaged \in Nat /\ ReadSizes \subseteq Nat \ {0}
    /\ Starts \subseteq Seq(0..Alphabet-1)

VARIABLES
    phase,    \* "writing", "closed", "reading", "eof", "failed", "done"
    w,        \* the Writer
    text,     \* what was written
    writes,   \* how many calls of Write there were
    file,     \* what the closed Writer put out
    damaged,  \* the file was changed
    d,        \* the Reader
    got,      \* what the calls of Read returned
    result    \* what Close of the Reader returned

vars == <<phase, w, text, writes, file, damaged, d, got, result>>

Init ==
    /\ phase = "writing" /\ w = NewWriter /\ text = <<>> /\ writes = 0 /\ file = <<>>
    /\ damaged = FALSE /\ d = <<>> /\ got = <<>> /\ result = "none"

Write(p) ==
    /\ phase = "writing" /\ writes < MaxWrites
    /\ w' = FoldLeft(WriteByte, w, p)
    /\ text' = text \o p
    /\ writes' = writes + 1
    /\ UNCHANGED <<phase, file, damaged, d, got, result>>

WriterClose ==
    /\ phase = "writing"
    /\ phase' = "closed"
    /\ w' = Finish(w)
    /\ file' = FileOf(w')
    /\ UNCHANGED <<text, writes, damaged, d, got, result>>

\* One bit of the file is wrong, or its end is missing
FlipBit ==
    /\ phase = "closed" /\ ~damaged /\ Len(text) <= MaxDamaged
    /\ \E i \in DOMAIN file, b \in 0..7 : file' = [file EXCEPT ![i] = @ ^^ (2^b)]
    /\ damaged' = TRUE
    /\ UNCHANGED <<phase, w, text, writes, d, got, result>>

Truncate ==
    /\ phase = "closed" /\ ~damaged /\ Len(text) <= MaxDamaged
    /\ \E n \in 0..(Len(file) - 1) : file' = SubSeq(file, 1, n)
    /\ damaged' = TRUE
    /\ UNCHANGED <<phase, w, text, writes, d, got, result>>

Open ==
    /\ phase = "closed"
    /\ d' = NewReader(file)
    /\ phase' = IF d'.err = "nil" THEN "reading" ELSE "failed"
    /\ UNCHANGED <<w, text, writes, file, damaged, got, result>>

ReadCall(k) ==
    /\ phase = "reading"
    /\ LET x == Read(d, k) IN
        /\ d' = x[1]
        /\ got' = got \o x[2]
        /\ phase' = CASE x[3] = "nil" -> "reading"
                      [] x[3] = "EOF" -> "eof"
                      [] OTHER -> "failed"
    /\ UNCHANGED <<w, text, writes, file, damaged, result>>

ReaderClose ==
    /\ phase \in {"reading", "eof", "failed"}
    /\ result' = IF DOMAIN d = {"err"} THEN d.err ELSE CloseReader(d)
    /\ phase' = "done"
    /\ UNCHANGED <<w, text, writes, file, damaged, d, got>>

Finished == phase = "done" /\ UNCHANGED vars

Next ==
    \/ \E c \in 0..Alphabet-1 : Write(<<c>>)
    \/ writes = 0 /\ \E p \in Starts : Write(p)
    \/ WriterClose \/ FlipBit \/ Truncate \/ Open
    \/ \E k \in ReadSizes : ReadCall(k)
    \/ ReaderClose \/ Finished

Spec == Init /\ [][Next]_vars

-----------------------------------------------------------------------------
\* What was written is what is read: an undamaged file gives back the text in
\* order, whatever the sizes of the reads; no Read of it fails, or returns
\* nothing before the end; and Close finds nothing wrong once all was read.
\* Behind it are the two copies of the adaptive tree, the window the Reader
\* starts at another place than the Writer, and the matches kept for the next
\* Read.
RoundTrip ==
    ~damaged /\ phase \notin {"writing", "closed"} =>
        /\ IsPrefix(got, text) /\ phase # "failed"
        /\ phase = "eof" => got = text /\ d.huff = w.huff
        /\ phase = "reading" /\ got # text => Len(Read(d, 1)[2]) = 1
        /\ phase = "done" /\ got = text => result = "nil"

\* "Data consistency should be verified by calling Close": when the file was
\* damaged, Close returns nil only if the whole text was read nevertheless.
CloseVouches == result = "nil" /\ damaged => got = text

\* A Huffman tree: frequencies in order, every inner node the sum of its two
\* children, parents and children consistent, and every symbol a leaf of it
HuffmanTree(h) ==
    /\ \A i \in 0..R-1 : h.freq[i] <= h.freq[i+1]
    /\ \A i \in 0..R : h.son[i] < T =>
        /\ h.freq[i] = h.freq[h.son[i]] + h.freq[h.son[i] + 1]
        /\ h.prnt[h.son[i]] = i /\ h.prnt[h.son[i] + 1] = i
    /\ \A c \in 0..NumChar-1 : h.son[h.prnt[c + T]] = c + T
    /\ h.freq[R] <= MaxFreq /\ h.prnt[R] = 0

\* The positions in the search tree, and those next to a node of it
Registered == {p \in 0..N-1 : w.tree.dad[p] # NIL}
Root(c) == N + 1 + c
Sons(p) == (IF p > N THEN {w.tree.rson[p]} ELSE {w.tree.rson[p], w.tree.lson[p]}) \ {NIL}

RECURSIVE Below(_)
Below(p) == Sons(p) \cup UNION {Below(q) : q \in Sons(p)}

\* The search tree after any number of insertNode and deleteNode: every
\* registered position hangs from its parent on one side, its children point
\* back to it and no two nodes share a child; every position is below the root
\* of one symbol, is the beginning of a text with that symbol, and no other is.
SearchTree ==
    LET Nodes == Registered \cup {Root(c) : c \in 0..Alphabet-1}
    IN  /\ \A p \in Registered :
            /\ w.tree.dad[p] \in Nodes
            /\ p \in Sons(w.tree.dad[p])
            /\ w.tree.rson[p] = w.tree.lson[p] => w.tree.rson[p] = NIL
        /\ \A p \in Nodes : \A q \in Sons(p) : q \in Registered /\ w.tree.dad[q] = p
        /\ \A c \in 0..Alphabet-1 :
             Below(Root(c)) = {p \in Registered : w.textBuf[p] = c}

\* The bits come back: two codes of 1 to 16 bits, put out behind any number of
\* pending bits, are read again as they were, and so is every position through
\* its table code, with nothing behind it taken. The small alphabet of a run
\* has short codes only, so this is looked at by itself, before the first byte.
Pending(k) == [buf |-> <<>>, putbuf |-> 0, putlen |-> k]

Inverted ==
    text = <<>> /\ phase = "writing" =>
        /\ \A k \in 0..7, l1, l2 \in 1..16 :
            \A c1 \in {1, 2^l1 - 1}, c2 \in {2^(l2-1), 2^l2 - 1} :
                LET x   == putCode(putCode(Pending(k), l1, c1 * 2^(16-l1)),
                                   l2, c2 * 2^(16-l2))
                    out == encodeEnd(x)
                IN  /\ BitsAt(out, k, l1) = c1 /\ BitsAt(out, k + l1, l2) = c2
                    /\ 8 * Len(x.buf) + x.putlen = k + l1 + l2
        /\ \A c \in 0..(64*32 - 1), k \in {0, 3, 7} :
                LET x == encodePosition(Pending(k), c)
                    y == decodePosition([in |-> encodeEnd(x), bit |-> k,
                                         biterr |-> FALSE])
                IN  /\ y[2] = c /\ ~y[1].biterr
                    /\ y[1].bit = 8 * Len(x.buf) + x.putlen

\* Codes are unambiguous: update and reconst keep a Huffman tree on both sides,
\* with the order of frequencies that update relies on; and what putCode and the
\* tables of the position code put out, the Reader takes for the same values.
CodesSound ==
    /\ HuffmanTree(w.huff)
    /\ phase \in {"reading", "eof"} => HuffmanTree(d.huff)
    /\ Inverted
=============================================================================
