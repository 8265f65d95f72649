------------------------------ MODULE Message ------------------------------
(***************************************************************************)
(* A Winlink message: a header, a body and attachments, how it is composed,*)
(* put out as bytes and read back.                                         *)
(*                                                                         *)
(* A byte is one of the digits, which stand for themselves, a separator, a *)
(* letter, or a header's name together with the colon and the space behind *)
(* it. Of the header the fields are kept that decide how the rest is read: *)
(* Body and File have the sizes of the sections, Date makes a message      *)
(* unreadable, Mid names it. Character sets are left out: text is ASCII.   *)
(***************************************************************************)
EXTENDS Integers, Sequences, SequencesExt

CONSTANTS
    LineLimit,   \* characters of a line before its CRLF                (998)
    ScanLimit    \* the largest token of a bufio.Scanner              (65536)

ASSUME MessageAssumption == LineLimit \in Nat \ {0} /\ ScanLimit \in Nat

CR == 10
LF == 11
SP == 12
KeyByte == [Mid |-> 13, Body |-> 14, Date |-> 15, File |-> 16]
LetterA == 17

Keys == DOMAIN KeyByte
CRLF == <<CR, LF>>

\* Index of the first b in s, 0 when there is none
IndexOf(s, b) == SelectInSeq(s, LAMBDA x : x = b)

\* %d and Atoi, whose errors nobody looks at
RECURSIVE Itoa(_)
Itoa(n) == IF n < 10 THEN <<n>> ELSE Append(Itoa(n \div 10), n % 10)

Number(s) == IF \A i \in DOMAIN s : s[i] <= 9
             THEN FoldLeft(LAMBDA v, c : 10*v + c, 0, s) ELSE 0

IsSpace(b) == b \in {CR, LF, SP}

RECURSIVE trimLeftSpace(_)
trimLeftSpace(s) == IF s # <<>> /\ IsSpace(Head(s)) THEN trimLeftSpace(Tail(s)) ELSE s

TrimString(s) == Reverse(trimLeftSpace(Reverse(trimLeftSpace(s))))

DropCR(line) == IF line # <<>> /\ Last(line) = CR THEN Front(line) ELSE line

-----------------------------------------------------------------------------
(* Composing                                                               *)

Add(h, k, v) == [h EXCEPT ![k] = Append(@, v)]
Set(h, k, v) == [h EXCEPT ![k] = <<v>>]
Get(h, k)    == IF h[k] = <<>> THEN <<>> ELSE h[k][1]

\* One of the date layouts has digits only
ParseDate(v) == \A i \in DOMAIN v : v[i] <= 9

NewMessage(mid, date) ==
    [header |-> Set(Set([k \in Keys |-> <<>>], "Mid", mid), "Date", date),
     body |-> <<>>, files |-> <<>>]

\* What a Scanner makes of a string: the lines that end in LF, and a last one
\* if it is not empty. One that does not fit ends the scan.
Cut(str) ==
    LET Next1(a, b) == IF b = LF THEN <<Append(a[1], a[2]), <<>>>>
                       ELSE <<a[1], Append(a[2], b)>>
    IN  FoldLeft(Next1, << <<>>, <<>> >>, str)

Fitting(full, rest) ==
    LET long == {i \in DOMAIN full : Len(full[i]) + 1 > ScanLimit}
    IN  IF long # {} THEN SubSeq(full, 1, (CHOOSE i \in long : \A j \in long : i <= j) - 1)
        ELSE IF rest = <<>> \/ Len(rest) >= ScanLimit THEN full
        ELSE Append(full, rest)

Scan(cut) == Fitting(cut[1], cut[2])

\* A line in pieces of at most LineLimit characters, an empty one in one piece
Wrap(line) ==
    LET n == IF line = <<>> THEN 1 ELSE 1 + (Len(line) - 1) \div LineLimit
        End(i) == IF i = n THEN Len(line) ELSE i*LineLimit
    IN  FlattenSeq([i \in 1..n |-> SubSeq(line, (i-1)*LineLimit + 1, End(i)) \o CRLF])

WrapAll(lines) == FlattenSeq([i \in DOMAIN lines |-> Wrap(DropCR(lines[i]))])

StringToBody(str) == WrapAll(Scan(Cut(str)))

WithBody(m, bytes) ==
    [m EXCEPT !.header = Set(@, "Body", Itoa(Len(bytes))), !.body = bytes]

SetBody(m, str) == WithBody(m, StringToBody(str))

AddFile(m, name, data) ==
    [m EXCEPT !.files = Append(@, [name |-> name, data |-> data, err |-> "nil"]),
              !.header = Add(@, "File", Itoa(Len(data)) \o <<SP>> \o name)]

-----------------------------------------------------------------------------
(* Writing                                                                 *)

HeaderLines(h, k) ==
    FlattenSeq([i \in DOMAIN h[k] |-> <<KeyByte[k]>> \o TrimString(h[k][i]) \o CRLF])

\* Mid first, then the other fields in the order of their names
HeaderWrite(h) ==
    IF Get(h, "Mid") = <<>> THEN <<>>
    ELSE <<KeyByte["Mid"]>> \o Get(h, "Mid") \o CRLF
         \o HeaderLines(h, "Body") \o HeaderLines(h, "Date") \o HeaderLines(h, "File")

\* Write; a date that cannot be parsed is an error, and nothing is written
Bytes(m) ==
    IF ~ParseDate(Get(m.header, "Date")) THEN <<>>
    ELSE HeaderWrite(m.header) \o CRLF \o m.body
         \o (IF m.files # <<>> THEN CRLF ELSE <<>>)
         \o FlattenSeq([i \in DOMAIN m.files |-> m.files[i].data \o CRLF])

-----------------------------------------------------------------------------
(* Reading                                                                 *)

\* The header: [err, header, rest]. The input that ends before an empty line,
\* and a line without a name, are errors.
RECURSIVE HeaderFrom(_, _)
HeaderLine(line, rest, h) ==
    IF line = <<>> THEN [err |-> "nil", header |-> h, rest |-> rest]
    ELSE IF \A k \in Keys : line[1] # KeyByte[k]
    THEN [err |-> "malformed", header |-> h, rest |-> rest]
    ELSE HeaderFrom(rest, Add(h, CHOOSE k \in Keys : line[1] = KeyByte[k],
                              TrimString(Tail(line))))

HeaderFrom(s, h) ==
    IF ~Contains(s, LF) THEN [err |-> "EOF", header |-> h, rest |-> <<>>]
    ELSE HeaderLine(DropCR(SubSeq(s, 1, IndexOf(s, LF) - 1)),
                    SubSeq(s, IndexOf(s, LF) + 1, Len(s)), h)

ReadMIMEHeader(s) == HeaderFrom(s, [k \in Keys |-> <<>>])

\* Mutant of readSection: that bytes are missing is not looked at
readSectionShort(s, readN) ==
    LET n    == IF Len(s) < readN THEN Len(s) ELSE readN
        left == SubSeq(s, n + 1, Len(s))
        e    == IF Contains(left, LF) THEN IndexOf(left, LF) ELSE Len(left)
    IN  [data |-> SubSeq(s, 1, n),
         rest |-> SubSeq(left, e + 1, Len(left)),
         err  |-> IF Contains(left, LF) /\ SubSeq(left, 1, e) # CRLF
                  THEN "unexpected end of section" ELSE "nil"]

\* A section of readN bytes and its CRLF, which may be missing at the end of the
\* input. The line that follows the bytes is taken in any case. (Of data that is
\* cut short only the part that was read is kept here.)
readSection(s, readN) ==
    LET n    == IF Len(s) < readN THEN Len(s) ELSE readN
        left == SubSeq(s, n + 1, Len(s))
        e    == IF Contains(left, LF) THEN IndexOf(left, LF) ELSE Len(left)
    IN  [data |-> SubSeq(s, 1, n),
         rest |-> SubSeq(left, e + 1, Len(left)),
         err  |-> CASE n # readN -> "ErrUnexpectedEOF"
                    [] n = readN /\ Contains(left, LF) /\ SubSeq(left, 1, e) # CRLF
                         -> "unexpected end of section"
                    [] OTHER -> "nil"]

\* The attachments, as the File fields say. err is that of the last one read.
WithFile(x, name, sec) ==
    [x EXCEPT !.files = Append(@, [name |-> name, data |-> sec.data, err |-> sec.err]),
              !.rest = sec.rest, !.err = sec.err]

ReadFile(x, value) ==
    LET i == IndexOf(value, SP)
    IN  IF i = 0
        THEN [x EXCEPT !.files = Append(@, [name |-> <<>>, data |-> <<>>, err |-> "parse"])]
        ELSE WithFile(x, SubSeq(value, i + 1, Len(value)),
                      readSection(x.rest, Number(SubSeq(value, 1, i - 1))))

CheckDate(x) ==
    IF x.err = "nil" /\ ~ParseDate(Get(x.header, "Date")) THEN [x EXCEPT !.err = "date"] ELSE x

ReadFiles(h, sec) ==
    LET x == [err |-> sec.err, header |-> h, body |-> sec.data, files |-> <<>>,
              rest |-> sec.rest]
    IN  IF sec.err # "nil" THEN x ELSE CheckDate(FoldLeft(ReadFile, x, h["File"]))

ReadSections(x) ==
    IF x.err # "nil"
    THEN [err |-> x.err, header |-> x.header, body |-> <<>>, files |-> <<>>, rest |-> <<>>]
    ELSE ReadFiles(x.header, readSection(x.rest, Number(Get(x.header, "Body"))))

ReadFrom(s) == ReadSections(ReadMIMEHeader(trimLeftSpace(s)))

-----------------------------------------------------------------------------
\* x, which ReadFrom has returned, is the message m
SameMessage(x, m) == x.header = m.header /\ x.body = m.body /\ x.files = m.files

\* Of the first n bytes of a message: all of them are read as that message; fewer
\* only if all sections are there, unless the last attachment is empty, which is
\* read without an error after one that is cut; and an attachment without an
\* error of its own is whole.
CutFound(m, x, whole) ==
    /\ whole => x.err = "nil" /\ SameMessage(x, m)
    /\ x.err = "nil" /\ (m.files # <<>> => Last(m.files).data # <<>>) => SameMessage(x, m)
    /\ \A i \in DOMAIN x.files :
        x.files[i].err = "nil" => x.files[i].data = m.files[i].data

ReadsBack(m, bytes) ==
    \A n \in 0..Len(bytes) : CutFound(m, ReadFrom(SubSeq(bytes, 1, n)), n = Len(bytes))

\* A text whose lines the Scanner takes keeps all its characters, in lines that are
\* not too long, and is not changed again when it is set once more
Letters(s) == SelectSeq(s, LAMBDA b : b \notin {CR, LF})

TextKept(str, body) ==
    /\ Letters(body) = Letters(str)
    /\ \A i \in DOMAIN body : i + LineLimit + 1 \in DOMAIN body =>
            \E j \in i..i+LineLimit+1 : body[j] = LF
    /\ StringToBody(body) = body
=============================================================================
