------------------------------ MODULE Transfer ------------------------------
(***************************************************************************)
(* The messages of one block between two stations, byte by byte: the       *)
(* proposals are read and answered, the answer line is parsed by the       *)
(* sender, and every accepted message is compressed, framed                *)
(* (SOH header, STX chunks, EOT checksum), carried over a link that may    *)
(* damage bytes or end, read, decompressed and parsed.                     *)
(*                                                                         *)
(* B2FExchange has the turns of the session around this.                   *)
(***************************************************************************)
EXTENDS LzhufCode, Message

CONSTANTS
    Mids,          \* message identifiers
    Mail,          \* Mail[m]: the message
    Title,         \* the title of every message, as bytes
    MaxMsgLength,  \* size of a chunk                                   (125)
    OffsetLimit,   \* largest offset of the binary protocol          (999999)
    MaxProps,      \* bound: proposals in a block                         (5)
    MaxAltered,    \* bound: bytes damaged on the link
    MaxOffsets,    \* bound: offset requests in an answer line
    Strs,          \* texts that are set as the body of a message
    Attachments,   \* what attachments contain
    MaxCalls       \* bound: calls of SetBody and AddFile for a message

ASSUME TransferAssumption ==
    /\ \A m \in Mids : Bytes(Mail[m]) \in Seq(0..Alphabet-1)
    /\ Title \in Seq(1..255)
    /\ MaxMsgLength \in 1..255 /\ MaxProps \in Nat /\ MaxAltered \in Nat

NUL == 0
SOH == 1
STX == 2
EOT == 4
NoMid == "no mid"

VARIABLES
    phase,     \* "propose", "answer", "transfer", "over", "foreign", "failed"
    sprops,    \* the sender's proposals, in the order of their lines
    rprops,    \* the receiver's, as it parsed them
    asked,     \* what a foreign station meant by its answer line
    tx,        \* writeCompressed: the rest of the data, the sum and the step
    wire,      \* bytes on their way
    up,        \* the link is there
    altered,   \* how many bytes were damaged
    rx,        \* readCompressed
    delivered  \* the messages read: what ProcessInbound was given, or what failed

vars == <<phase, sprops, rprops, asked, tx, wire, up, altered, rx, delivered>>

-----------------------------------------------------------------------------
(* Proposals                                                               *)

\* NewProposal, with the fields its line has
Proposal(m, data) ==
    [code |-> "C", mid |-> m, compressedData |-> data,
     compressedSize |-> Len(data), answer |-> "none", offset |-> 0]

NewProposal(m) == Proposal(m, Compress(Bytes(Mail[m])))

\* A proposal of the older protocols: its line is not looked into
OtherProposal == [code |-> "A", mid |-> NoMid, compressedData |-> <<>>,
                  compressedSize |-> 0, answer |-> "none", offset |-> 0]

parseProposal(p) == [p EXCEPT !.compressedData = <<>>]

\* Mutant of writeProposalsAnswer: duplicates are not looked for
writeProposalsAnswerDups(props, handler) ==
    [i \in DOMAIN props |->
        IF props[i].code # "C" THEN "Defer" ELSE handler[props[i].mid]]

\* The answers, one for every proposal: a second proposal of the same message
\* and the older kinds are deferred, the handler answers the others
writeProposalsAnswer(props, handler) ==
    [i \in DOMAIN props |->
        IF \/ \E j \in 1..i-1 : props[j].mid = props[i].mid
           \/ props[i].code # "C"
        THEN "Defer" ELSE handler[props[i].mid]]

\* The characters of an answer line: + - = and, for an offset, ! and digits
Plus == 43
Minus == 45
Equals == 61
Bang == 33
DigitChars == 48..57

AnswerChar(a) ==
    CASE a = "Accept" -> Plus [] a = "Reject" -> Minus [] a = "Defer" -> Equals

\* Atoi: the number a run of digits stands for, 0 when it is none
Atoi(str) == IF \A i \in DOMAIN str : str[i] \in DigitChars
             THEN FoldLeft(LAMBDA v, c : 10*v + (c - 48), 0, str) ELSE 0

\* The answers are applied one by one; an offset request takes everything up
\* to the last digit of the line
RECURSIVE ParseAnswers(_, _, _)
ParseAnswers(str, props, i) ==
    LET rest   == Tail(str)
        digits == {k \in DOMAIN rest : rest[k] \in DigitChars}
        idx    == CHOOSE k \in digits : \A j \in digits : j <= k
        offset == Atoi(SubSeq(rest, 1, idx))
        Given(a) == [props EXCEPT ![i].answer = a]
    IN  IF str = <<>> THEN [err |-> FALSE, props |-> props]
        ELSE IF i > Len(props) THEN [err |-> TRUE, props |-> props]
        ELSE CASE Head(str) = Plus -> ParseAnswers(rest, Given("Accept"), i + 1)
               [] Head(str) = Minus -> ParseAnswers(rest, Given("Reject"), i + 1)
               [] Head(str) = Equals -> ParseAnswers(rest, Given("Defer"), i + 1)
               [] Head(str) = Bang /\ digits # {} ->
                    ParseAnswers(SubSeq(rest, idx + 1, Len(rest)),
                        [Given("Accept") EXCEPT ![i].offset =
                            IF offset > OffsetLimit THEN 0 ELSE offset], i + 1)
               [] OTHER -> [err |-> TRUE, props |-> props]

parseProposalAnswer(str, props) == ParseAnswers(str, props, 1)

Accepted(props) == SelectSeq(props, LAMBDA p : p.answer = "Accept")

-----------------------------------------------------------------------------
(* One frame                                                               *)

\* The offset of a message between two of these stations is always 0 ("0" = 48)
Header == <<SOH, (Len(Title) + 3) % 256>> \o Title \o <<NUL, 48, NUL>>

Chunk(buffer) ==
    LET n == IF Len(buffer) < MaxMsgLength THEN Len(buffer) ELSE MaxMsgLength
    IN  SubSeq(buffer, 1, n)

Sum(bytes) == FoldLeft(LAMBDA a, b : (a + b) % 256, 0, bytes)

NewFrame == [st |-> "soh", headerLength |-> 0, title |-> <<>>, offsetStr |-> <<>>,
             length |-> 0, buf |-> <<>>, sum |-> 0, err |-> "nil"]

Fail(f) == [f EXCEPT !.err = "error"]

\* The end of the header
CheckHeader(f) ==
    IF \/ f.headerLength # Len(f.title) + Len(f.offsetStr) + 2
       \/ f.offsetStr = <<>> \/ \E i \in DOMAIN f.offsetStr : f.offsetStr[i] \notin DigitChars
       \/ Atoi(f.offsetStr) # 0
    THEN Fail(f) ELSE [f EXCEPT !.st = "cmd"]

\* Mutant of CheckFrame: the sum is not looked at
CheckFrameNoSum(f, p) ==
    IF p.compressedSize # Len(f.buf) THEN Fail(f) ELSE [f EXCEPT !.st = "eot"]

\* The end of the frame
CheckFrame(f, p) ==
    IF f.sum # 0 \/ p.compressedSize # Len(f.buf) THEN Fail(f)
    ELSE [f EXCEPT !.st = "eot"]

\* readCompressed takes one more byte
ReadCompressedByte(f, p, c) ==
    CASE f.st = "soh"    -> IF c = SOH THEN [f EXCEPT !.st = "hlen"] ELSE Fail(f)
      [] f.st = "hlen"   -> [f EXCEPT !.st = "title", !.headerLength = c]
      [] f.st = "title"  -> IF c = NUL THEN [f EXCEPT !.st = "offset"]
                            ELSE [f EXCEPT !.title = Append(@, c)]
      [] f.st = "offset" -> IF c = NUL THEN CheckHeader(f)
                            ELSE [f EXCEPT !.offsetStr = Append(@, c)]
      [] f.st = "cmd"    -> CASE c = STX -> [f EXCEPT !.st = "dlen"]
                              [] c = EOT -> [f EXCEPT !.st = "sum"]
                              [] OTHER -> Fail(f)
      [] f.st = "dlen"   -> [f EXCEPT !.st = "data", !.length = IF c = 0 THEN 256 ELSE c]
      [] f.st = "data"   -> [f EXCEPT !.buf = Append(@, c), !.sum = (@ + c) % 256,
                                      !.length = @ - 1,
                                      !.st = IF f.length = 1 THEN "cmd" ELSE "data"]
      [] f.st = "sum"    -> CheckFrame([f EXCEPT !.sum = (@ + c) % 256], p)

\* readCompressed at the end of the stream: only the last byte of a frame is
\* read without a look at the error, as if it were 0
ReadCompressedEOF(f, p) == IF f.st = "sum" THEN CheckFrame(f, p) ELSE Fail(f)

\* Data: everything that can be read. An error is a panic, a Read that brings
\* neither a byte nor an error is repeated for ever; Close is not called.
RECURSIVE CopyAll(_, _)
CopyOn(x, out) ==
    CASE x[3] = "EOF" -> [how |-> "ok", text |-> out]
      [] x[3] = "nil" /\ x[2] = <<>> -> [how |-> "hang", text |-> out]
      [] x[3] = "nil" /\ x[2] # <<>> -> CopyAll(x[1], out \o x[2])
      [] OTHER -> [how |-> "panic", text |-> out]

CopyAll(d, out) ==
    IF d.err # "nil" THEN [how |-> "panic", text |-> out] ELSE CopyOn(Read(d, 64), out)

Data(compressed) == CopyAll(NewReader(compressed), <<>>)

\* Proposal.Message: what was decompressed, parsed
Parsed(x) ==
    IF x.err # "nil" THEN [how |-> "error", msg |-> <<>>]
    ELSE [how |-> "ok", msg |-> [header |-> x.header, body |-> x.body, files |-> x.files]]

ParseData(read) == IF read.how # "ok" THEN [how |-> read.how, msg |-> <<>>]
                   ELSE Parsed(ReadFrom(read.text))

-----------------------------------------------------------------------------
NoTx == [i |-> 1, st |-> "header", buffer |-> <<>>, checksum |-> 0]

Init ==
    /\ phase = "propose" /\ sprops = <<>> /\ rprops = <<>> /\ asked = <<>>
    /\ tx = NoTx /\ wire = <<>> /\ up = TRUE /\ altered = 0
    /\ rx = NewFrame /\ delivered = <<>>

\* A block of proposals: from this program, or from a gateway that proposes a
\* message twice or in an older format
Propose ==
    /\ phase = "propose"
    /\ \E n \in 1..MaxProps : \E b \in [1..n -> Mids \cup {NoMid}] :
        sprops' = [i \in 1..n |-> IF b[i] = NoMid THEN OtherProposal
                                  ELSE NewProposal(b[i])]
    /\ rprops' = [i \in DOMAIN sprops' |-> parseProposal(sprops'[i])]
    /\ phase' = "answer"
    /\ UNCHANGED <<asked, tx, wire, up, altered, rx, delivered>>

\* The receiver answers, the sender parses its line
Answer ==
    /\ phase = "answer"
    /\ \E handler \in [Mids -> {"Accept", "Reject", "Defer"}] :
        LET answers == writeProposalsAnswer(rprops, handler)
            parsed  == parseProposalAnswer([i \in DOMAIN answers |->
                                               AnswerChar(answers[i])], sprops)
        IN  /\ rprops' = [i \in DOMAIN rprops |-> [rprops[i] EXCEPT !.answer = answers[i]]]
            /\ sprops' = parsed.props
            /\ phase' = CASE parsed.err -> "failed"
                          [] ~parsed.err /\ Accepted(rprops') = <<>> -> "over"
                          [] OTHER -> "transfer"
    /\ UNCHANGED <<asked, tx, wire, up, altered, rx, delivered>>

\* The receiver is another program, which may ask for a message from an offset
Meant == [a : {"Accept", "Reject", "Defer"}, offset : {0}]
         \cup [a : {"Offset"}, offset : {0, 1, 10, OffsetLimit, OffsetLimit + 1}]
Digits(n) == LET c == <<48 + (n \div 100), 48 + ((n \div 10) % 10), 48 + (n % 10)>>
             IN  IF n < 10 THEN Tail(Tail(c)) ELSE IF n < 100 THEN Tail(c) ELSE c
Said(m) == IF m.a = "Offset" THEN <<Bang>> \o Digits(m.offset) ELSE <<AnswerChar(m.a)>>

AnswerFromOther ==
    /\ phase = "answer"
    /\ \E as \in [DOMAIN sprops -> Meant] :
        LET line   == FoldLeft(LAMBDA l, m : l \o Said(m), <<>>, as)
            parsed == parseProposalAnswer(line, sprops)
        IN  /\ Len(SelectSeq(as, LAMBDA m : m.a = "Offset")) <= MaxOffsets
            /\ asked' = as
            /\ sprops' = parsed.props
            /\ phase' = IF parsed.err THEN "failed" ELSE "foreign"
    /\ UNCHANGED <<rprops, tx, wire, up, altered, rx, delivered>>

-----------------------------------------------------------------------------
(* writeCompressed for each accepted proposal                              *)

Sending == phase = "transfer" /\ up /\ tx.i <= Len(Accepted(sprops))

SendHeader ==
    /\ Sending /\ tx.st = "header"
    /\ wire' = wire \o Header
    /\ tx' = [tx EXCEPT !.st = "data", !.checksum = 0,
                        !.buffer = Accepted(sprops)[tx.i].compressedData]
    /\ UNCHANGED <<phase, sprops, rprops, asked, up, altered, rx, delivered>>

\* Mutant of SendChunk: a full chunk is announced whatever is left
SendChunkFull ==
    /\ Sending /\ tx.st = "data" /\ tx.buffer # <<>>
    /\ LET c == Chunk(tx.buffer) IN
        /\ wire' = wire \o <<STX, MaxMsgLength>> \o c
        /\ tx' = [tx EXCEPT !.buffer = SubSeq(@, Len(c) + 1, Len(@)),
                            !.checksum = (@ + Sum(c)) % 256]
    /\ UNCHANGED <<phase, sprops, rprops, asked, up, altered, rx, delivered>>

SendChunk ==
    /\ Sending /\ tx.st = "data" /\ tx.buffer # <<>>
    /\ LET c == Chunk(tx.buffer) IN
        /\ wire' = wire \o <<STX, Len(c)>> \o c
        /\ tx' = [tx EXCEPT !.buffer = SubSeq(@, Len(c) + 1, Len(@)),
                            !.checksum = (@ + Sum(c)) % 256]
    /\ UNCHANGED <<phase, sprops, rprops, asked, up, altered, rx, delivered>>

SendEnd ==
    /\ Sending /\ tx.st = "data" /\ tx.buffer = <<>>
    /\ wire' = wire \o <<EOT, (-tx.checksum) % 256>>
    /\ tx' = [tx EXCEPT !.i = @ + 1, !.st = "header"]
    /\ UNCHANGED <<phase, sprops, rprops, asked, up, altered, rx, delivered>>

-----------------------------------------------------------------------------
(* The link                                                                *)

Alter ==
    /\ phase = "transfer" /\ altered < MaxAltered
    /\ \E i \in DOMAIN wire :
        \E c \in ({wire[i] ^^ (2^b) : b \in 0..7} \cup {NUL, STX, EOT}) \ {wire[i]} :
            wire' = [wire EXCEPT ![i] = c]
    /\ altered' = altered + 1
    /\ UNCHANGED <<phase, sprops, rprops, asked, tx, up, rx, delivered>>

Disconnect ==
    /\ phase = "transfer" /\ up
    /\ up' = FALSE
    /\ UNCHANGED <<phase, sprops, rprops, asked, tx, wire, altered, rx, delivered>>

-----------------------------------------------------------------------------
(* handleInbound fetches the accepted messages                             *)

Current == Accepted(rprops)[Len(delivered) + 1]

\* What is done with the frame after one more byte, or the end of the stream
Take(f) ==
    CASE f.err # "nil" -> /\ phase' = "failed" /\ rx' = f
                          /\ UNCHANGED delivered
      [] f.err = "nil" /\ f.st # "eot" -> rx' = f /\ UNCHANGED <<phase, delivered>>
      [] OTHER ->
            /\ rx' = NewFrame
            /\ \E x \in {ParseData(Data(f.buf))} :
                /\ delivered' = Append(delivered, [mid |-> Current.mid, how |-> x.how,
                                                  msg |-> x.msg])
                /\ phase' = IF x.how # "ok" THEN "failed"
                            ELSE IF Len(delivered') = Len(Accepted(rprops)) THEN "over"
                            ELSE "transfer"

\* The next byte that was sent, or, on a link that has ended, the end of the stream
Receive ==
    /\ phase = "transfer" /\ (wire # <<>> \/ ~up)
    /\ wire' = IF wire = <<>> THEN wire ELSE Tail(wire)
    /\ \E f \in {IF wire = <<>> THEN ReadCompressedEOF(rx, Current)
                 ELSE ReadCompressedByte(rx, Current, Head(wire))} : Take(f)
    /\ UNCHANGED <<sprops, rprops, asked, tx, up, altered>>

Ended == phase \in {"over", "foreign", "failed"} /\ UNCHANGED vars

Next ==
    \/ Propose \/ Answer \/ AnswerFromOther
    \/ SendHeader \/ SendChunk \/ SendEnd
    \/ Alter \/ Disconnect
    \/ Receive
    \/ Ended

Spec == Init /\ [][Next]_vars
-----------------------------------------------------------------------------
\* Both sides have the same answers after the answer line: what the receiver
\* decided, or what another program meant (an offset above the limit of the
\* protocol counting as 0), is what parseProposalAnswer finds for the proposal
\* in the same place. No message is accepted twice and none of a kind that
\* cannot be read. With two offset requests in a line it does not hold: the
\* first takes the digits of the last (MaxOffsets).
AnswersAgree ==
    /\ phase = "foreign" => \A i \in DOMAIN sprops :
        /\ sprops[i].answer = IF asked[i].a = "Offset" THEN "Accept" ELSE asked[i].a
        /\ sprops[i].offset = IF asked[i].offset > OffsetLimit THEN 0 ELSE asked[i].offset
    /\ phase \in {"transfer", "over"} =>
        /\ \A i \in DOMAIN sprops : /\ sprops[i].answer = rprops[i].answer
                                    /\ sprops[i].mid = rprops[i].mid
        /\ LET acc == Accepted(rprops) IN
            /\ \A i \in DOMAIN acc : acc[i].code = "C"
            /\ \A i, j \in DOMAIN acc : acc[i].mid = acc[j].mid => i = j
    /\ sprops # <<>> /\ asked # <<>> => phase # "failed"

\* A frame that passes the checks of readCompressed holds the message that was
\* proposed: Data, which panics on an error and has no bound on empty reads, can
\* decompress it, ReadFrom can parse it, and what the mailbox is given under the
\* proposal's identifier has the header, the body and the attachments that were
\* sent. No single byte damaged on the link, in a header, a chunk, a length or a
\* checksum, and no end of the stream gets past these checks.
DeliveredIsSent ==
    \A i \in DOMAIN delivered :
        delivered[i].how = "ok" /\ delivered[i].msg = Mail[delivered[i].mid]

\* On a link that damages nothing and stays up the receiver finds no error,
\* gets the accepted messages in their order, and is never left waiting for a
\* byte: when the sender has sent everything and everything was read, all of
\* them are delivered. The frames of a block are neither too long nor too short.
CleanLinkDelivers ==
    /\ altered = 0 /\ up => phase # "failed"
    /\ \A i \in DOMAIN delivered : delivered[i].mid = Accepted(sprops)[i].mid
    /\ /\ altered = 0 /\ up /\ phase = "transfer"
       /\ tx.i > Len(Accepted(sprops))
       => wire # <<>>

\* Every message that calls of SetBody and AddFile make, in any order and over
\* one another, is put out as bytes that ReadFrom takes for that message; of
\* a file that was cut anywhere (the mailbox writes without a temporary file) it
\* takes none for whole that is not, see CutFound. And SetBody loses no character
\* of a text whose lines a Scanner takes, however they end and wherever they are
\* broken. Looked at by itself, before the first proposal.
Calls == [op : {"SetBody"}, arg : Strs] \cup [op : {"AddFile"}, arg : Attachments]

Composed(calls) ==
    FoldLeft(LAMBDA m, c : IF c.op = "SetBody" THEN SetBody(m, c.arg)
                           ELSE AddFile(m, <<LetterA>>, c.arg),
             NewMessage(<<1>>, <<2>>), calls)

Kept(m) == ReadsBack(m, Bytes(m))

MessagesKept ==
    phase = "propose" =>
        /\ \A n \in 0..MaxCalls : \A calls \in [1..n -> Calls] : Kept(Composed(calls))
        /\ \A str \in Strs : TextKept(str, StringToBody(str))
=============================================================================
