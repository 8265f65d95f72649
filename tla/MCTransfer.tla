----------------------------- MODULE MCTransfer -----------------------------
(* A message with an attachment and one with a body, both from files of the *)
(* outbox, which need not have a date; texts with line ends of all kinds    *)
(* around lines as long as a line may be, and one character longer.         *)
EXTENDS Transfer

MCMail  == [m \in Mids |-> IF m = "m1" THEN AddFile(NewMessage(<<1>>, <<>>), <<LetterA>>, <<5>>)
                           ELSE WithBody(NewMessage(<<2>>, <<>>), <<3>>)]
MCTitle == <<84, 105>>

MCStrs == {<<>>, <<LF>>, <<CR>>, <<3>>, <<3, CR, LF, 4>>, <<3, LF, LF, 4, LF>>, <<3, 4, 5>>,
           <<3, 4, 5, 6, CR, LF>>, <<3, 4, CR, 5, 6, 7, 8, LF, SP>>, <<3, 4, 5, CR, CR, LF>>}
MCAttachments == {<<>>, <<6>>, <<CR, LF>>, <<7, LF, 8>>}
=============================================================================
