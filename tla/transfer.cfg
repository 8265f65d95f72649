CONSTANTS
    Alphabet = 18
    N = 64
    F = 3
    Threshold = 1
    MaxFreq = 99
    Space = 12
    Mids = {"m1", "m2"}
    Mail <- MCMail
    Title <- MCTitle
    MaxMsgLength = 8
    OffsetLimit = 99
    MaxProps = 2
    MaxAltered = 1
    MaxOffsets = 1
    LineLimit = 3
    ScanLimit = 9
    Strs <- MCStrs
    Attachments <- MCAttachments
    MaxCalls = 3
SPECIFICATION Spec
INVARIANTS AnswersAgree DeliveredIsSent CleanLinkDelivers MessagesKept
