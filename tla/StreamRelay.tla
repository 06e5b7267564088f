----------------------------- MODULE StreamRelay -----------------------------
(***************************************************************************)
(* One streamed reply of an OpenAI-compatible provider: the handler        *)
(* goroutine that reads the upstream's chunks and writes Anthropic events, *)
(* the goroutine that writes keep-alive pings to the same SSEWriter, the   *)
(* upstream, and the connection to the client.                             *)
(*                                                                         *)
(*   provider/openaicompat/stream.go   stream, pinger                      *)
(*   translate/stream.go               Stream, streamState                 *)
(*   openai/stream.go                  StreamReader                        *)
(*   anthropic/sse.go                  SSEWriter                           *)
(*                                                                         *)
(* One step of the handler is what it does up to and including one event   *)
(* it sends.  A Send is one step because SSEWriter holds its mutex over    *)
(* the write and the flush.  When a ping is due is the matter of the       *)
(* module Keepalive; here a ping may come at any time.                     *)
(***************************************************************************)
EXTENDS Integers, Sequences

CONSTANTS
  Text,        \* names the source of a text block
  ToolIndex,   \* the call indices an upstream uses
  NoIndex,     \* a tool call fragment that carries no index
  Chunks,      \* the chunks an upstream may send, as sequences of fragments
  MaxHeard     \* bound on the fragments of one reply

FinishReason == {"stop", "length", "tool_calls", "content_filter", "other"}

(***************************************************************************)
(* A chunk is the sequence of its fragments in the order consume looks at  *)
(* them: the text, the tool calls, the finish reason.  The text of a       *)
(* refusal, which the reader decodes and consume looks at nowhere, may be  *)
(* in any place.  An empty sequence is a chunk without choices, or one     *)
(* that carries none of these.                                             *)
(***************************************************************************)
Fragment ==
  [kind : {"text"}] \cup
  [kind : {"refusal"}] \cup
  [kind : {"call"}, index : ToolIndex \cup {NoIndex}, args : BOOLEAN] \cup
  [kind : {"finish"}, reason : FinishReason]

ASSUME RelayAssumption ==
  /\ Text \notin ToolIndex
  /\ NoIndex \notin ToolIndex
  /\ Chunks \subseteq Seq(Fragment)
  /\ MaxHeard \in Nat

VARIABLES
  upstream,    \* "streaming", "ended" (marker or end of body) or "broken"
  heard,       \* the fragments of every chunk read so far
  next,        \* the position in heard of the fragment to handle next
  hpc,         \* where the handler goroutine is
  failure,     \* why Stream returns an error, "none" when it does not
  started,     \* streamState.started
  nextIndex,   \* streamState.nextIndex
  openBlocks,  \* streamState.openBlocks; only ever appended in rising order
  textIndex,   \* streamState.textIndex
  textOpen,    \* streamState.textOpen
  toolBlocks,  \* streamState.toolBlocks, Absent for a missing key
  stopReason,  \* streamState.stopReason, "null" for nil
  closed,      \* SSEWriter.closed
  ppc,         \* where the pinger goroutine is
  stopping,    \* the channel pinger.stopped is closed
  conn,        \* the connection: "up", "stalled", "gone" or "broken"
  phase, blocks, told   \* what was written to it: see MessageStream

reply  == <<phase, blocks, told>>
state  == <<started, nextIndex, openBlocks, textIndex, textOpen, toolBlocks, stopReason>>
reader == <<upstream, heard, next>>
pinger == <<ppc, stopping>>
vars   == <<reader, hpc, failure, state, closed, pinger, conn, reply>>

Absent == -1

Known(index) == toolBlocks[index] # Absent

StopReason == {"end_turn", "max_tokens", "tool_use", "refusal"}

\* Slip: an unknown finish reason is handed on as it is.
UnknownHandedOn(reason) ==
  CASE reason = "stop"           -> "end_turn"
    [] reason = "length"         -> "max_tokens"
    [] reason = "tool_calls"     -> "tool_use"
    [] reason = "content_filter" -> "refusal"
    [] OTHER                     -> reason

\* stopReason of translate/stopreason.go.
Translated(reason) ==
  CASE reason = "stop"           -> "end_turn"
    [] reason = "length"         -> "max_tokens"
    [] reason = "tool_calls"     -> "tool_use"
    [] reason = "content_filter" -> "refusal"
    [] OTHER                     -> "null"

FinalStopReason == IF stopReason = "null" THEN "end_turn" ELSE stopReason

-----------------------------------------------------------------------------
(* The handler and the fragment it is at.                                  *)

AtFragment(kind) ==
  /\ hpc = "relay"
  /\ next \in DOMAIN heard
  /\ heard[next].kind = kind

Call == heard[next]

Init ==
  /\ upstream = "streaming"
  /\ heard = <<>>
  /\ next = 1
  /\ hpc = "read"
  /\ failure = "none"
  /\ started = FALSE
  /\ nextIndex = 0
  /\ openBlocks = {}
  /\ textIndex = 0
  /\ textOpen = FALSE
  /\ toolBlocks = [i \in ToolIndex |-> Absent]
  /\ stopReason = "null"
  /\ closed = FALSE
  /\ ppc = "select"
  /\ stopping = FALSE
  /\ conn = "up"
  /\ phase = "idle"
  /\ blocks = <<>>
  /\ told = {}

(***************************************************************************)
(* SSEWriter.Send.  A write to a client that left may still be accepted,   *)
(* for the bytes go to a buffer first; once a write failed all later ones  *)
(* do.  A write to a client that does not read waits.  A closed writer     *)
(* drops the event and reports success.                                    *)
(***************************************************************************)
Writes(ok) ==
  /\ conn # "stalled"
  /\ IF closed THEN ok /\ UNCHANGED conn
     ELSE \/ ok /\ conn # "broken" /\ UNCHANGED conn
          \/ ~ok /\ conn # "up" /\ conn' = "broken"

\* The handler sends an event: when that fails, Stream returns.
Sends(ok, then) ==
  /\ Writes(ok)
  /\ hpc' = IF ok THEN then ELSE "unwind"
  /\ failure' = IF ok \/ failure # "none" THEN failure ELSE "write"
  /\ UNCHANGED <<closed, pinger>>

Lands(ok) == ok /\ ~closed

\* What the client has after a block start, delta and stop with that index.
Opened(index, source) ==
  Append(blocks, [index |-> index, source |-> source, open |-> TRUE, pieces |-> <<>>])
Longer(block, piece) == [block EXCEPT !.pieces = Append(@, piece)]
Shut(block) == [block EXCEPT !.open = FALSE]
Extended(index, piece) ==
  [b \in DOMAIN blocks |->
     IF blocks[b].index = index THEN Longer(blocks[b], piece) ELSE blocks[b]]
Stopped(index) ==
  [b \in DOMAIN blocks |->
     IF blocks[b].index = index THEN Shut(blocks[b]) ELSE blocks[b]]

-----------------------------------------------------------------------------
(* StreamReader.Next and the upstream it reads.                            *)

ReadChunk(chunk) ==
  /\ hpc = "read"
  /\ upstream = "streaming"
  /\ Len(heard) + Len(chunk) <= MaxHeard
  /\ heard' = heard \o chunk
  /\ hpc' = IF started THEN "relay" ELSE "start"
  /\ UNCHANGED <<upstream, next, failure, state, closed, pinger, conn, reply>>

\* The reply is complete, or cut off, or goes on with a line that is no chunk.
UpstreamEnds(how) ==
  /\ upstream = "streaming"
  /\ upstream' = how
  /\ UNCHANGED <<heard, next, hpc, failure, state, closed, pinger, conn, reply>>

\* Stream leaves its loop and calls finish.
ReadEnd ==
  /\ hpc = "read"
  /\ upstream = "ended"
  /\ hpc' = IF started THEN "close" ELSE "finish"
  /\ UNCHANGED <<reader, failure, state, closed, pinger, conn, reply>>

\* Slip: a failed read makes Stream return without the error event.
ReadFailsUnreported ==
  /\ hpc = "read"
  /\ upstream = "broken" \/ conn \in {"gone", "broken"}
  /\ hpc' = "unwind"
  /\ failure' = "read"
  /\ UNCHANGED <<reader, state, closed, pinger, conn, reply>>

\* The client's leaving cancels the request context, and with it the read.
ReadFails ==
  /\ hpc = "read"
  /\ upstream = "broken" \/ conn \in {"gone", "broken"}
  /\ hpc' = "fail"
  /\ failure' = "read"
  /\ UNCHANGED <<reader, state, closed, pinger, conn, reply>>

-----------------------------------------------------------------------------
(* consume, start, writeText, writeToolCall.                               *)

SendMessageStart ==
  /\ hpc \in {"start", "finish"}
  /\ started' = TRUE
  /\ \E ok \in BOOLEAN :
       /\ Sends(ok, IF hpc = "start" THEN "relay" ELSE "close")
       /\ phase' = IF Lands(ok) THEN "open" ELSE phase
  /\ UNCHANGED <<reader, nextIndex, openBlocks, textIndex, textOpen, toolBlocks,
                 stopReason, blocks, told>>

OpenText ==
  /\ AtFragment("text")
  /\ ~textOpen
  /\ nextIndex' = nextIndex + 1
  /\ openBlocks' = openBlocks \cup {nextIndex}
  /\ \E ok \in BOOLEAN :
       /\ Sends(ok, "relay")
       /\ blocks' = IF Lands(ok) THEN Opened(nextIndex, Text) ELSE blocks
       /\ textOpen' = ok
       /\ textIndex' = IF ok THEN nextIndex ELSE textIndex
  /\ UNCHANGED <<reader, started, toolBlocks, stopReason, phase, told>>

WriteText ==
  /\ AtFragment("text")
  /\ textOpen
  /\ \E ok \in BOOLEAN :
       /\ Sends(ok, "relay")
       /\ blocks' = IF Lands(ok) THEN Extended(textIndex, next) ELSE blocks
       /\ next' = IF ok THEN next + 1 ELSE next
  /\ UNCHANGED <<upstream, heard, state, phase, told>>

\* ErrToolCallIndex: Stream returns at once, whatever it has sent so far.
RejectCall ==
  /\ AtFragment("call")
  /\ Call.index = NoIndex
  /\ hpc' = "unwind"
  /\ failure' = "index"
  /\ UNCHANGED <<reader, state, closed, pinger, conn, reply>>

AtNewCall == AtFragment("call") /\ Call.index # NoIndex /\ ~Known(Call.index)
AtKnownCall == AtFragment("call") /\ Call.index # NoIndex /\ Known(Call.index)

CloseText ==
  /\ AtNewCall
  /\ textOpen
  /\ textOpen' = FALSE
  /\ openBlocks' = openBlocks \ {textIndex}
  /\ \E ok \in BOOLEAN :
       /\ Sends(ok, "relay")
       /\ blocks' = IF Lands(ok) THEN Stopped(textIndex) ELSE blocks
  /\ UNCHANGED <<reader, started, nextIndex, textIndex, toolBlocks, stopReason, phase, told>>

\* Slip: the fragment that opens a call is done with once the block is open.
OpenToolOnly ==
  /\ AtNewCall
  /\ ~textOpen
  /\ nextIndex' = nextIndex + 1
  /\ openBlocks' = openBlocks \cup {nextIndex}
  /\ next' = next + 1
  /\ \E ok \in BOOLEAN :
       /\ Sends(ok, "relay")
       /\ blocks' = IF Lands(ok) THEN Opened(nextIndex, Call.index) ELSE blocks
       /\ toolBlocks' = IF ok THEN [toolBlocks EXCEPT ![Call.index] = nextIndex]
                              ELSE toolBlocks
  /\ UNCHANGED <<upstream, heard, started, textIndex, textOpen, stopReason, phase, told>>

OpenTool ==
  /\ AtNewCall
  /\ ~textOpen
  /\ nextIndex' = nextIndex + 1
  /\ openBlocks' = openBlocks \cup {nextIndex}
  /\ \E ok \in BOOLEAN :
       /\ Sends(ok, "relay")
       /\ blocks' = IF Lands(ok) THEN Opened(nextIndex, Call.index) ELSE blocks
       /\ toolBlocks' = IF ok THEN [toolBlocks EXCEPT ![Call.index] = nextIndex]
                              ELSE toolBlocks
  /\ UNCHANGED <<reader, started, textIndex, textOpen, stopReason, phase, told>>

\* Slip: arguments go to the block that was opened last.
WriteArgumentsToLast ==
  /\ AtKnownCall
  /\ Call.args
  /\ \E ok \in BOOLEAN :
       /\ Sends(ok, "relay")
       /\ blocks' = IF Lands(ok) THEN Extended(nextIndex - 1, next) ELSE blocks
       /\ next' = IF ok THEN next + 1 ELSE next
  /\ UNCHANGED <<upstream, heard, state, phase, told>>

WriteArguments ==
  /\ AtKnownCall
  /\ Call.args
  /\ \E ok \in BOOLEAN :
       /\ Sends(ok, "relay")
       /\ blocks' = IF Lands(ok) THEN Extended(toolBlocks[Call.index], next) ELSE blocks
       /\ next' = IF ok THEN next + 1 ELSE next
  /\ UNCHANGED <<upstream, heard, state, phase, told>>

SkipArguments ==
  /\ AtKnownCall
  /\ ~Call.args
  /\ next' = next + 1
  /\ UNCHANGED <<upstream, heard, hpc, failure, state, closed, pinger, conn, reply>>

\* The words in which a model refuses have no event: consume passes over them.
SkipRefusal ==
  /\ AtFragment("refusal")
  /\ next' = next + 1
  /\ UNCHANGED <<upstream, heard, hpc, failure, state, closed, pinger, conn, reply>>

\* Slip: an unknown finish reason takes back the one before it.
NoteFinishAlways ==
  /\ AtFragment("finish")
  /\ next' = next + 1
  /\ stopReason' = Translated(Call.reason)
  /\ UNCHANGED <<upstream, heard, hpc, failure, started, nextIndex, openBlocks,
                 textIndex, textOpen, toolBlocks, closed, pinger, conn, reply>>

NoteFinish ==
  /\ AtFragment("finish")
  /\ next' = next + 1
  /\ stopReason' = IF Translated(Call.reason) = "null"
                   THEN stopReason ELSE Translated(Call.reason)
  /\ UNCHANGED <<upstream, heard, hpc, failure, started, nextIndex, openBlocks,
                 textIndex, textOpen, toolBlocks, closed, pinger, conn, reply>>

EndChunk ==
  /\ hpc = "relay"
  /\ next \notin DOMAIN heard
  /\ hpc' = "read"
  /\ UNCHANGED <<reader, failure, state, closed, pinger, conn, reply>>

-----------------------------------------------------------------------------
(* finish, closeAll, fail.                                                 *)

\* closeAll stops the open blocks in the order they were opened.
CloseBlock ==
  /\ hpc = "close"
  /\ textOpen' = FALSE
  /\ \E index \in openBlocks :
       /\ \A other \in openBlocks : index <= other
       /\ openBlocks' = openBlocks \ {index}
       /\ \E ok \in BOOLEAN :
            /\ Sends(ok, "close")
            /\ blocks' = IF Lands(ok) THEN Stopped(index) ELSE blocks
  /\ UNCHANGED <<reader, started, nextIndex, textIndex, toolBlocks, stopReason, phase, told>>

\* Slip: the message is summed up while blocks are still open.
SendMessageDeltaEarly ==
  /\ hpc = "close"
  /\ \E ok \in BOOLEAN :
       /\ Sends(ok, "stop")
       /\ phase' = IF Lands(ok) THEN "summed" ELSE phase
       /\ told' = IF Lands(ok) THEN {FinalStopReason} ELSE told
  /\ UNCHANGED <<reader, state, blocks>>

SendMessageDelta ==
  /\ hpc = "close"
  /\ openBlocks = {}
  /\ \E ok \in BOOLEAN :
       /\ Sends(ok, "stop")
       /\ phase' = IF Lands(ok) THEN "summed" ELSE phase
       /\ told' = IF Lands(ok) THEN {FinalStopReason} ELSE told
  /\ UNCHANGED <<reader, state, blocks>>

SendMessageStop ==
  /\ hpc = "stop"
  /\ \E ok \in BOOLEAN :
       /\ Sends(ok, "unwind")
       /\ phase' = IF Lands(ok) THEN "stopped" ELSE phase
  /\ UNCHANGED <<reader, state, blocks, told>>

SendError ==
  /\ hpc = "fail"
  /\ \E ok \in BOOLEAN :
       /\ Sends(ok, "unwind")
       /\ phase' = IF Lands(ok) THEN "failed" ELSE phase
  /\ UNCHANGED <<reader, state, blocks, told>>

-----------------------------------------------------------------------------
(* The deferred calls of stream: pings.stop, then sse.Close.               *)

\* Slip: stop waits for the pinger without telling it.
StopPingsSilently ==
  /\ hpc = "unwind"
  /\ hpc' = "join"
  /\ UNCHANGED <<reader, failure, state, closed, pinger, conn, reply>>

StopPings ==
  /\ hpc = "unwind"
  /\ stopping' = TRUE
  /\ hpc' = "join"
  /\ UNCHANGED <<reader, failure, state, closed, ppc, conn, reply>>

\* Slip: stop does not wait for the pinger to end.
JoinNobody ==
  /\ hpc = "join"
  /\ hpc' = "shut"
  /\ UNCHANGED <<reader, failure, state, closed, pinger, conn, reply>>

JoinPinger ==
  /\ hpc = "join"
  /\ ppc = "done"
  /\ hpc' = "shut"
  /\ UNCHANGED <<reader, failure, state, closed, pinger, conn, reply>>

CloseWriter ==
  /\ hpc = "shut"
  /\ closed' = TRUE
  /\ hpc' = "returned"
  /\ UNCHANGED <<reader, failure, state, pinger, conn, reply>>

-----------------------------------------------------------------------------
(* The pinger, and the client at the other end of the connection.          *)

\* A tick after which PingIfIdle goes on to Send.
PingDue ==
  /\ ppc = "select"
  /\ ppc' = "send"
  /\ UNCHANGED <<reader, hpc, failure, state, closed, stopping, conn, reply>>

SendPing ==
  /\ ppc = "send"
  /\ \E ok \in BOOLEAN :
       /\ Writes(ok)
       /\ ppc' = IF ok THEN "select" ELSE "done"
  /\ UNCHANGED <<reader, hpc, failure, state, closed, stopping, reply>>

PingerStops ==
  /\ ppc = "select"
  /\ stopping
  /\ ppc' = "done"
  /\ UNCHANGED <<reader, hpc, failure, state, closed, stopping, conn, reply>>

ClientTurns(from, to) ==
  /\ hpc # "returned"
  /\ conn = from
  /\ conn' = to
  /\ UNCHANGED <<reader, hpc, failure, state, closed, pinger, reply>>

ClientLeaves == ClientTurns("up", "gone") \/ ClientTurns("stalled", "gone")
ClientStalls == ClientTurns("up", "stalled")
ClientResumes == ClientTurns("stalled", "up")

-----------------------------------------------------------------------------

\* What the handler does without waiting for the upstream.
Sending ==
  \/ SendMessageStart
  \/ OpenText \/ WriteText
  \/ CloseText \/ OpenTool \/ WriteArguments
  \/ CloseBlock \/ SendMessageDelta \/ SendMessageStop
  \/ SendError

Computing ==
  \/ ReadEnd
  \/ RejectCall \/ SkipArguments \/ SkipRefusal \/ NoteFinish \/ EndChunk
  \/ StopPings \/ JoinPinger \/ CloseWriter

Pinging == PingDue \/ SendPing \/ PingerStops

Outside ==
  \/ \E chunk \in Chunks : ReadChunk(chunk)
  \/ \E how \in {"ended", "broken"} : UpstreamEnds(how)
  \/ ClientLeaves \/ ClientStalls \/ ClientResumes

Next == Sending \/ Computing \/ ReadFails \/ Pinging \/ Outside

Spec == Init /\ [][Next]_vars

(***************************************************************************)
(* The Go scheduler runs a goroutine that can run.  A write that waits for *)
(* the client goes on whenever the client reads, so a client that reads    *)
(* now and again lets it end.  A select takes any of its ready cases, so   *)
(* a closed channel is not passed over for ever.  A cancelled request      *)
(* closes the upstream connection, so of the reads after it one fails.     *)
(* Nothing is assumed of the upstream or the client.                       *)
(***************************************************************************)
Fairness ==
  /\ SF_vars(Sending)
  /\ WF_vars(Computing)
  /\ SF_vars(ReadFails)
  /\ SF_vars(SendPing)
  /\ SF_vars(PingerStops)

FairSpec == Spec /\ Fairness

-----------------------------------------------------------------------------
(* Properties.                                                             *)

MS == INSTANCE MessageStream WITH Piece <- 1 .. MaxHeard

HandlerAt == {"read", "start", "relay", "finish", "close", "stop", "fail",
              "unwind", "join", "shut", "returned"}

ReaderOK ==
  /\ upstream \in {"streaming", "ended", "broken"}
  /\ heard \in Seq(Fragment)
  /\ Len(heard) <= MaxHeard
  /\ next \in Nat \ {0}

StateOK ==
  /\ started \in BOOLEAN
  /\ nextIndex \in Nat
  /\ openBlocks \subseteq Nat
  /\ textIndex \in Nat
  /\ textOpen \in BOOLEAN
  /\ toolBlocks \in [ToolIndex -> Nat \cup {Absent}]
  /\ stopReason \in StopReason \cup {"null"}

ControlOK ==
  /\ hpc \in HandlerAt
  /\ failure \in {"none", "read", "index", "write"}
  /\ closed \in BOOLEAN
  /\ ppc \in {"select", "send", "done"}
  /\ stopping \in BOOLEAN
  /\ conn \in {"up", "stalled", "gone", "broken"}

ReplyOK ==
  /\ phase \in MS!Phase
  /\ blocks \in Seq(MS!Block)
  /\ told \subseteq StopReason

\* Every variable stays within the values the Go types and the protocol allow.
TypeOK == ReaderOK /\ StateOK /\ ControlOK /\ ReplyOK

\* The position of the fragment a piece of a block was written from is that of
\* a text fragment in a text block, and in a tool_use block that of a fragment
\* of the same call: interleaved calls are never mixed up (writeText,
\* writeToolCall and their map from call index to block index).
Faithful ==
  \A b \in DOMAIN blocks : \A k \in DOMAIN blocks[b].pieces :
    LET piece == blocks[b].pieces[k] IN
      /\ piece \in DOMAIN heard
      /\ IF blocks[b].source = Text
         THEN heard[piece].kind = "text"
         ELSE heard[piece].kind = "call" /\ heard[piece].index = blocks[b].source

HasContent(fragment) ==
  fragment.kind = "text" \/ (fragment.kind = "call" /\ fragment.args)

\* A message that reached message_stop holds all content and all calls that the
\* upstream sent up to the end of its stream, and every call it named has a
\* block even when its arguments were empty.  Of what the model says only the
\* text of a refusal is not held: it is lost in every message (SkipRefusal).
Whole ==
  phase = "stopped" =>
    \A k \in DOMAIN heard :
      /\ HasContent(heard[k]) =>
           \E b \in DOMAIN blocks : \E j \in DOMAIN blocks[b].pieces :
             blocks[b].pieces[j] = k
      /\ heard[k].kind = "call" =>
           \E b \in DOMAIN blocks : blocks[b].source = heard[k].index

\* The reason reported with the message is the last one the upstream gave that
\* has a translation, "end_turn" when it gave none (finalStopReason).
LastReason ==
  LET given == {k \in DOMAIN heard :
                  heard[k].kind = "finish" /\ Translated(heard[k].reason) # "null"}
  IN IF given = {} THEN {"end_turn"}
     ELSE {Translated(heard[k].reason) : k \in {j \in given : \A i \in given : i <= j}}

ToldLastReason == phase \in {"summed", "stopped"} => told = LastReason

\* When the handler has returned no goroutine of its own can touch the
\* response any more ("so that no ping can reach the response after the
\* handler returns", the comment on pinger.stop).
PingerJoined == hpc = "returned" => ppc = "done" /\ closed

\* A client that stayed connected was told how the message ended, with a
\* message_stop or an error event, unless the upstream sent a tool call
\* fragment without an index (see ErrorReported).
Ended ==
  (hpc = "returned" /\ conn \in {"up", "stalled"} /\ failure # "index")
    => phase \in {"stopped", "failed"}

\* The comment in Provider.stream says that an error of Stream was already
\* reported to the client by an error event.
ErrorReported ==
  (hpc = "returned" /\ conn \in {"up", "stalled"} /\ failure # "none")
    => phase = "failed"

\* What is written to the client is a well-formed message in progress at every
\* step: the protocol of MessageStream is implemented.
WellFormed == MS!Spec

\* The handler gives up its goroutine, its connection and its upstream once the
\* upstream is over or the client has left, except while a client that keeps
\* the connection open without ever reading holds it: no write has a deadline.
Returns ==
  (upstream # "streaming" \/ conn \in {"gone", "broken"})
    ~> (hpc = "returned" \/ [](conn = "stalled"))
=============================================================================
