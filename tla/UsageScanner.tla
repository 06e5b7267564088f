----------------------------- MODULE UsageScanner -----------------------------
(***************************************************************************)
(* The scanner that reads a copy of every reply of a model, in the pieces  *)
(* in which it is written, and picks out token counts and stop reason.     *)
(*                                                                         *)
(*   anthropic/usage.go   UsageScanner                                     *)
(*                                                                         *)
(* A stream is read line by line, any other reply as one body; neither is  *)
(* held beyond MaxScanned bytes.  One of the four token counts stands for  *)
(* all of them: mergeUsage treats them alike.                              *)
(***************************************************************************)
EXTENDS Integers, Sequences

CONSTANTS
  Byte,         \* the bytes other than the newline
  Newline,
  Reason,       \* the stop reasons a reply may name
  None,         \* no stop reason
  Payload(_),   \* what merge finds in a line or a body
  MaxScanned,   \* maxScannedBody
  MaxReply      \* bound on the bytes of a reply

Symbol == Byte \cup {Newline}

\* The replies, lines and pieces of at most that length.
Text == UNION {[1 .. n -> Symbol] : n \in 0 .. MaxReply}

\* Bytes that are no JSON or mention none of the keys tell nothing, and so does
\* an empty line or body.
ASSUME ScannerAssumption ==
  /\ Newline \notin Byte
  /\ None \notin Reason
  /\ MaxScanned \in Nat
  /\ MaxReply \in Nat
  /\ \A text \in Text : Payload(text) \in [tokens : Nat, reason : Reason \cup {None}]
  /\ Payload(<<>>) = [tokens |-> 0, reason |-> None]

VARIABLES
  stream,      \* the reply is a text/event-stream
  todo,        \* the rest of the piece Write was called with
  buf,         \* UsageScanner.buf
  skipLine,    \* UsageScanner.skipLine
  tooLarge,    \* UsageScanner.tooLarge
  usage,       \* UsageScanner.usage
  stopReason,  \* UsageScanner.stopReason
  reported,    \* Report was called
  reply        \* the bytes of the reply up to todo

vars == <<stream, todo, buf, skipLine, tooLarge, usage, stopReason, reported, reply>>

Init ==
  /\ stream \in BOOLEAN
  /\ todo = <<>>
  /\ buf = <<>>
  /\ skipLine = FALSE
  /\ tooLarge = FALSE
  /\ usage = 0
  /\ stopReason = None
  /\ reported = FALSE
  /\ reply = <<>>

-----------------------------------------------------------------------------

\* Slip: the last count replaces the one before it.
MergeLast(payload) ==
  /\ usage' = Payload(payload).tokens
  /\ stopReason' = IF Payload(payload).reason = None
                   THEN stopReason ELSE Payload(payload).reason

\* The highest count of all frames, and the last reason given.
Merge(payload) ==
  /\ usage' = IF Payload(payload).tokens > usage THEN Payload(payload).tokens ELSE usage
  /\ stopReason' = IF Payload(payload).reason = None
                   THEN stopReason ELSE Payload(payload).reason

\* Slip: only the new bytes are measured.
FitsAlone(piece) == Len(piece) <= MaxScanned

\* Bytes that no longer fit drop what is held, and all that follows them.
Fits(piece) == Len(buf) + Len(piece) <= MaxScanned

\* A piece of the reply comes in; Write works on it before the next one does.
Write(piece) ==
  /\ todo = <<>>
  /\ ~reported
  /\ Len(reply) + Len(piece) <= MaxReply
  /\ todo' = piece
  /\ UNCHANGED <<stream, buf, skipLine, tooLarge, usage, stopReason, reported, reply>>

WriteBody ==
  /\ ~stream
  /\ todo # <<>>
  /\ tooLarge' = (tooLarge \/ ~Fits(todo))
  /\ buf' = IF tooLarge' THEN <<>> ELSE buf \o todo
  /\ reply' = reply \o todo
  /\ todo' = <<>>
  /\ UNCHANGED <<stream, skipLine, usage, stopReason, reported>>

\* The position of the first newline of what Write has still to read.
Ends(end) ==
  /\ end \in DOMAIN todo
  /\ todo[end] = Newline
  /\ \A k \in 1 .. end - 1 : todo[k] # Newline

\* No newline is left: hold the rest.
HoldRest ==
  /\ stream
  /\ todo # <<>>
  /\ \A k \in DOMAIN todo : todo[k] # Newline
  /\ skipLine' = (skipLine \/ ~Fits(todo))
  /\ buf' = IF skipLine' THEN <<>> ELSE buf \o todo
  /\ reply' = reply \o todo
  /\ todo' = <<>>
  /\ UNCHANGED <<stream, tooLarge, usage, stopReason, reported>>

\* Slip: a line that was too long makes the scanner skip all that follow.
EndLineSkipping ==
  /\ stream
  /\ \E end \in DOMAIN todo :
       /\ Ends(end)
       /\ LET rest == SubSeq(todo, 1, end - 1) IN
            IF skipLine \/ ~Fits(rest)
            THEN skipLine' = TRUE /\ UNCHANGED <<usage, stopReason>>
            ELSE skipLine' = FALSE /\ Merge(buf \o rest)
       /\ reply' = reply \o SubSeq(todo, 1, end)
       /\ todo' = SubSeq(todo, end + 1, Len(todo))
  /\ buf' = <<>>
  /\ UNCHANGED <<stream, tooLarge, reported>>

\* Slip: the newline stays in front of what is still to be read.
EndLineBefore ==
  /\ stream
  /\ \E end \in DOMAIN todo :
       /\ Ends(end)
       /\ LET rest == SubSeq(todo, 1, end - 1) IN
            IF skipLine \/ ~Fits(rest)
            THEN UNCHANGED <<usage, stopReason>>
            ELSE Merge(buf \o rest)
       /\ reply' = reply \o SubSeq(todo, 1, end)
       /\ todo' = SubSeq(todo, end, Len(todo))
  /\ skipLine' = FALSE
  /\ buf' = <<>>
  /\ UNCHANGED <<stream, tooLarge, reported>>

\* hold and endLine for the part up to the newline.
EndLine ==
  /\ stream
  /\ \E end \in DOMAIN todo :
       /\ Ends(end)
       /\ LET rest == SubSeq(todo, 1, end - 1) IN
            IF skipLine \/ ~Fits(rest)
            THEN UNCHANGED <<usage, stopReason>>
            ELSE Merge(buf \o rest)
       /\ reply' = reply \o SubSeq(todo, 1, end)
       /\ todo' = SubSeq(todo, end + 1, Len(todo))
  /\ skipLine' = FALSE
  /\ buf' = <<>>
  /\ UNCHANGED <<stream, tooLarge, reported>>

\* newEvent asks once, when the handler is done writing.
Report ==
  /\ todo = <<>>
  /\ ~reported
  /\ reported' = TRUE
  /\ IF ~stream /\ buf # <<>>
     THEN Merge(buf) /\ buf' = <<>>
     ELSE UNCHANGED <<buf, usage, stopReason>>
  /\ UNCHANGED <<stream, todo, skipLine, tooLarge, reply>>

Next ==
  \/ \E piece \in Text \ {<<>>} : Write(piece)
  \/ WriteBody
  \/ HoldRest
  \/ EndLine
  \/ Report

Spec == Init /\ [][Next]_vars

-----------------------------------------------------------------------------
(* Properties.                                                             *)

TypeOK ==
  /\ stream \in BOOLEAN
  /\ todo \in Seq(Symbol)
  /\ buf \in Seq(Symbol)
  /\ skipLine \in BOOLEAN
  /\ tooLarge \in BOOLEAN
  /\ usage \in Nat
  /\ stopReason \in Reason \cup {None}
  /\ reported \in BOOLEAN
  /\ reply \in Seq(Symbol)
  /\ Len(reply) + Len(todo) <= MaxReply

\* The comment on maxScannedBody: the memory of a scanner does not grow with the
\* output of the model.
HeldIsBounded == Len(buf) <= MaxScanned

\* A complete text lies between two positions: the line between a line's end (or
\* the start) and the next newline, or the whole of a body that was reported.
LineBetween(from, to) ==
  /\ from = 0 \/ reply[from] = Newline
  /\ to \in DOMAIN reply
  /\ reply[to] = Newline
  /\ \A k \in from + 1 .. to - 1 : reply[k] # Newline

Complete(from, to) ==
  IF stream THEN LineBetween(from, to)
            ELSE reported /\ from = 0 /\ to = Len(reply) + 1

\* What the reply tells, cut into texts without regard to the pieces it was
\* written in; a text that is too long tells nothing.
Told(from, to) == Payload(SubSeq(reply, from + 1, to - 1))

Scanned ==
  {t \in (0 .. Len(reply)) \X (1 .. Len(reply) + 1) :
     /\ t[1] < t[2]
     /\ t[2] - t[1] - 1 <= MaxScanned
     /\ Complete(t[1], t[2])}

\* However a reply is cut into pieces, the scanner reports the highest count of
\* its texts.
UsageIsHighest ==
  /\ \A t \in Scanned : Told(t[1], t[2]).tokens <= usage
  /\ usage # 0 => \E t \in Scanned : Told(t[1], t[2]).tokens = usage

\* However a reply is cut into pieces, the scanner reports the stop reason of the
\* last text that has one.
ReasonIsLast ==
  IF stopReason = None
  THEN \A t \in Scanned : Told(t[1], t[2]).reason = None
  ELSE \E t \in Scanned :
         /\ Told(t[1], t[2]).reason = stopReason
         /\ \A u \in Scanned : Told(u[1], u[2]).reason # None => u[2] <= t[2]
=============================================================================
