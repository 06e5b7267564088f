----------------------------- MODULE WatchClient -----------------------------
(***************************************************************************)
(* `sitka watch`: it reads the event stream of a gateway line by line and  *)
(* prints a line for every event.                                          *)
(*                                                                         *)
(*   cli/watch.go     watch, writeEvent                                    *)
(*   events/wire.go   Encoder, Decoder                                     *)
(*                                                                         *)
(* The connection carries lines.  It may be cut anywhere, also inside a     *)
(* line; what was written and not yet received is lost from that point on. *)
(* A client learns of the cut when it has read what is left: a host that    *)
(* vanishes without closing its connections, for which the handler's pings  *)
(* keep the stream busy, is left out.                                       *)
(***************************************************************************)
EXTENDS Integers, Sequences, SequencesExt

CONSTANTS
  Events,      \* what a gateway reports
  Oversize     \* those whose line exceeds maxFrameSize

ASSUME WatchAssumption == Oversize \subseteq Events

VARIABLES
  wpc,       \* "new", "read" or "failed": watch returns errors only
  conn,      \* "none", "open" or "cut"
  wire,      \* the lines on their way
  written,   \* the events the gateway wrote to the stream
  printed    \* the events that were printed

client == <<wpc, printed>>
stream == <<conn, wire, written>>
watchVars == <<client, stream>>

WatchInit ==
  /\ wpc = "new"
  /\ conn = "none"
  /\ wire = <<>>
  /\ written = <<>>
  /\ printed = <<>>

Line(kind) == [kind |-> kind]

\* Encode: the name of the event, its data, and a blank line; Ping: a comment.
Frame(event) == <<Line("event"), [kind |-> "data", event |-> event], Line("blank")>>
PingFrame == <<Line("comment"), Line("blank")>>

-----------------------------------------------------------------------------
(* The client.                                                             *)

Dialled ==
  /\ wpc' = "read"
  /\ conn' = "open"
  /\ wire' = PingFrame
  /\ UNCHANGED <<written, printed>>

\* The gateway cannot be reached, or what answers is none.
DialFails ==
  /\ wpc' = "failed"
  /\ UNCHANGED <<stream, printed>>

\* Slip: what cannot be decoded is taken for an event without fields.
NextLineLax ==
  /\ wpc = "read"
  /\ wire # <<>>
  /\ wire' = Tail(wire)
  /\ LET line == Head(wire) IN
       CASE line.kind = "data" /\ line.event \notin Oversize ->
              printed' = Append(printed, line.event) /\ UNCHANGED wpc
         [] line.kind = "data" /\ line.event \in Oversize -> wpc' = "failed" /\ UNCHANGED printed
         [] line.kind = "part" -> printed' = Append(printed, "") /\ UNCHANGED wpc
         [] OTHER -> UNCHANGED client
  /\ UNCHANGED <<conn, written>>

\* Slip: every event is read by a decoder of its own, which takes with it what
\* it has read ahead.
NextLineAnew ==
  /\ wpc = "read"
  /\ wire # <<>>
  /\ LET line == Head(wire) IN
       IF line.kind = "data"
       THEN wire' = <<>> /\ printed' = Append(printed, line.event)
       ELSE wire' = Tail(wire) /\ UNCHANGED printed
  /\ UNCHANGED <<wpc, conn, written>>

\* A turn of the loop of Next: an event is printed, other lines are skipped;
\* data that cannot be decoded, and a line beyond the bound, end the command.
NextLine ==
  /\ wpc = "read"
  /\ wire # <<>>
  /\ wire' = Tail(wire)
  /\ LET line == Head(wire) IN
       CASE line.kind = "data" /\ line.event \notin Oversize ->
              printed' = Append(printed, line.event) /\ UNCHANGED wpc
         [] line.kind = "data" /\ line.event \in Oversize -> wpc' = "failed" /\ UNCHANGED printed
         [] line.kind = "part" -> wpc' = "failed" /\ UNCHANGED printed
         [] OTHER -> UNCHANGED client
  /\ UNCHANGED <<conn, written>>

\* The output cannot be written to, or the user has had enough.
Quit ==
  /\ wpc = "read"
  /\ wpc' = "failed"
  /\ UNCHANGED <<stream, printed>>

\* Slip: the end of the stream is skipped like a blank line.
StreamEndsUnseen ==
  /\ wpc = "read"
  /\ conn = "cut"
  /\ wire = <<>>
  /\ UNCHANGED watchVars

\* io.EOF and any other error of the connection
StreamEnds ==
  /\ wpc = "read"
  /\ conn = "cut"
  /\ wire = <<>>
  /\ wpc' = "failed"
  /\ UNCHANGED <<stream, printed>>

-----------------------------------------------------------------------------
(* The connection.                                                         *)

Written(event) ==
  /\ wire' = wire \o Frame(event)
  /\ written' = Append(written, event)
  /\ UNCHANGED <<conn, client>>

\* The lines that are received when the connection is cut: those before some
\* line, and perhaps part of it, which is the end of a data line or nothing to
\* the decoder.
Remainders ==
  {SubSeq(wire, 1, n) : n \in 0 .. Len(wire)}
    \cup {Append(SubSeq(wire, 1, n - 1), Line("part")) : n \in {k \in DOMAIN wire : wire[k].kind = "data"}}

Severed ==
  /\ conn' = IF conn = "open" THEN "cut" ELSE conn
  /\ wire' \in Remainders
  /\ UNCHANGED <<written, client>>

Watching == NextLine \/ StreamEnds

-----------------------------------------------------------------------------
(* Properties.                                                             *)

WatchTypeOK ==
  /\ wpc \in {"new", "read", "failed"}
  /\ conn \in {"none", "open", "cut"}
  /\ written \in Seq(Events)
  /\ printed \in Seq(Events)

\* Wherever the connection is cut, what is printed is what the gateway reported,
\* in order and from the first on: never an event that was received in part.
PrintedIsPrefix == IsPrefix(printed, written)
=============================================================================
