------------------------------- MODULE Gateway -------------------------------
(***************************************************************************)
(* One request on its way through the gateway: the routing, the provider's *)
(* reply, and the event that reports it.                                   *)
(*                                                                         *)
(*   server/observe.go          observe, replyRecorder, newEvent           *)
(*   server/server.go           Handler, dispatch, peekRequest             *)
(*   provider/openaicompat      Messages, CountTokens, stream, writeMessage *)
(*   provider/anthropicpass     forward, reportTransportFailure            *)
(*                                                                         *)
(* httputil.ReverseProxy and net/http are modelled from how they are used: *)
(* informational statuses of the upstream are handed on before the reply's *)
(* own, the first of those that are not informational is what the client   *)
(* gets, and a copy of the reply that breaks off panics with               *)
(* ErrAbortHandler.                                                        *)
(*                                                                         *)
(* A body is counted in pieces, one for each Write.                        *)
(***************************************************************************)
EXTENDS Router

CONSTANTS
  Config,        \* the ids of the configured providers
  ModelIDs,      \* the model ids clients ask for
  UpstreamCodes, \* the statuses an upstream replies with
  Interim,       \* informational statuses, 1xx
  None,          \* no model, no event
  MaxPieces      \* bound on the pieces of one reply

Success == 200 .. 299

ASSUME GatewayAssumption ==
  /\ Config \in Seq(String) /\ Validate(Config) /\ New(Config)
  /\ ModelIDs \subseteq String \ {EmptyString}
  /\ UpstreamCodes \subseteq 200 .. 599
  /\ Interim \subseteq 100 .. 199
  /\ None \notin ModelIDs
  /\ {None, Fallback} \cap ByPrefix(Config) = {}
  /\ MaxPieces \in Nat

Path == {"messages", "count_tokens", "other"}

\* What a watcher is told of a request; its headers, method, path and times
\* are left out, and its tokens stand for the pieces they were read from.
Event ==
  [status   : 100 .. 599,
   model    : ModelIDs \cup {None},
   provider : ByPrefix(Config) \cup {Fallback, None},
   pieces   : Nat]

VARIABLES
  request,   \* path, model and stream flag of the request
  pc,        \* where its goroutine is
  route,     \* the routeRecord: the model and the provider, None for none
  status,    \* replyRecorder.status
  scanner,   \* "unset" before the first Write, then "on" or "off"
  scanned,   \* the pieces the usage scanner was given
  asked,     \* the provider whose upstream was sent the request
  sent,      \* the status net/http sent, 0 for none yet
  interim,   \* an informational status was sent
  body,      \* the pieces handed to net/http
  event      \* what was published

vars == <<request, pc, route, status, scanner, scanned, asked, sent, interim, body, event>>

recorder == <<status, scanner, scanned, sent, interim, body>>

Init ==
  /\ request \in [path : Path, model : ModelIDs, stream : BOOLEAN]
  /\ pc = "serve"
  /\ route = [model |-> None, provider |-> None]
  /\ status = 0
  /\ scanner = "unset"
  /\ scanned = 0
  /\ asked = None
  /\ sent = 0
  /\ interim = FALSE
  /\ body = 0
  /\ event = None

-----------------------------------------------------------------------------
(* replyRecorder on top of net/http.                                       *)

\* Slip: the recorder leaves WriteHeader to the writer it wraps.
WriteHeaderUnseen(code) ==
  /\ UNCHANGED status
  /\ IF code \in Interim
     THEN interim' = TRUE /\ UNCHANGED sent
     ELSE sent' = (IF sent = 0 THEN code ELSE sent) /\ UNCHANGED interim

\* status stays 0 until the first of WriteHeader and Write.
WriteHeader(code) ==
  /\ status' = IF status = 0 THEN code ELSE status
  /\ IF code \in Interim
     THEN interim' = TRUE /\ UNCHANGED sent
     ELSE sent' = (IF sent = 0 THEN code ELSE sent) /\ UNCHANGED interim

\* Slip: only a streamed reply is scanned.
ScanStreams ==
  /\ scanner' = IF scanner = "unset"
                THEN IF route.model # None /\ request.stream THEN "on" ELSE "off"
                ELSE scanner
  /\ scanned' = IF scanner' = "on" THEN scanned + 1 ELSE scanned

\* scan decides on the first piece; only a routed request is scanned.
Scan ==
  /\ scanner' = IF scanner = "unset"
                THEN IF route.model # None THEN "on" ELSE "off"
                ELSE scanner
  /\ scanned' = IF scanner' = "on" THEN scanned + 1 ELSE scanned

WritePiece ==
  /\ body < MaxPieces
  /\ status' = IF status = 0 THEN 200 ELSE status
  /\ sent' = IF sent = 0 THEN 200 ELSE sent
  /\ body' = body + 1
  /\ Scan
  /\ UNCHANGED interim

\* WriteError, and any other reply that is written in one go.
Answer(code) ==
  /\ WriteHeader(code)
  /\ body' = body + 1
  /\ Scan
  /\ pc' = "observe"
  /\ UNCHANGED <<request, route, asked, event>>

-----------------------------------------------------------------------------
(* dispatch and the paths that do not go through it.                       *)

\* ServeMux: what is not the gateway's own goes to the passthrough.
PassOn ==
  /\ pc = "serve"
  /\ request.path = "other"
  /\ pc' = "proxy"
  /\ asked' = Fallback
  /\ UNCHANGED <<request, route, recorder, event>>

\* The body is too large, or cannot be read.
TooLarge ==
  /\ pc = "serve"
  /\ request.path # "other"
  /\ Answer(413)

\* peekRequest: the body is no JSON, or names no model.
Unroutable ==
  /\ pc = "serve"
  /\ request.path # "other"
  /\ Answer(400)

\* Slip: the results of Route are swapped.
DispatchSwapped ==
  /\ pc = "serve"
  /\ request.path # "other"
  /\ LET to == Route(Config, request.model) IN
       /\ route' = [model |-> request.model, provider |-> to.model]
       /\ pc' = IF to.provider = Fallback THEN "proxy" ELSE request.path
       /\ asked' = IF to.provider = Fallback THEN Fallback ELSE asked
  /\ UNCHANGED <<request, recorder, event>>

\* Slip: the record names the passthrough whatever the route is.
DispatchUnnamed ==
  /\ pc = "serve"
  /\ request.path # "other"
  /\ LET to == Route(Config, request.model) IN
       /\ route' = [model |-> request.model, provider |-> Fallback]
       /\ pc' = IF to.provider = Fallback THEN "proxy" ELSE request.path
       /\ asked' = IF to.provider = Fallback THEN Fallback ELSE asked
  /\ UNCHANGED <<request, recorder, event>>

Dispatch ==
  /\ pc = "serve"
  /\ request.path # "other"
  /\ LET to == Route(Config, request.model) IN
       /\ route' = [model |-> request.model, provider |-> to.provider]
       /\ pc' = IF to.provider = Fallback THEN "proxy" ELSE request.path
       /\ asked' = IF to.provider = Fallback THEN Fallback ELSE asked
  /\ UNCHANGED <<request, recorder, event>>

-----------------------------------------------------------------------------
(* The OpenAI-compatible provider.                                         *)

CountTokens ==
  /\ pc = "count_tokens"
  /\ Answer(404)

\* Messages cannot decode the request, or translate it.
Untranslatable ==
  /\ pc = "messages"
  /\ Answer(400)

\* It cannot encode the translation, or merge the effort fields into it.
Refuse ==
  /\ pc = "messages"
  /\ Answer(500)

Send ==
  /\ pc = "messages"
  /\ asked' = Route(Config, request.model).provider
  /\ pc' = "upstream"
  /\ UNCHANGED <<request, route, recorder, event>>

SendFails ==
  /\ pc = "upstream"
  /\ Answer(502)

\* writeUpstreamError keeps the status.
RelayError ==
  /\ pc = "upstream"
  /\ \E code \in UpstreamCodes \ Success : Answer(code)

\* writeMessage: the reply is translated, or cannot be.
RelayMessage ==
  /\ pc = "upstream"
  /\ ~request.stream
  /\ \E code \in {200, 502} : Answer(code)

\* writeMessage: Encode fails before it writes, and net/http sends an empty
\* reply when the handler returns.
RelayNothing ==
  /\ pc = "upstream"
  /\ ~request.stream
  /\ sent' = 200
  /\ pc' = "observe"
  /\ UNCHANGED <<request, route, status, scanner, scanned, asked, interim, body, event>>

\* stream: NewSSEWriter sends the header, the events follow (StreamRelay says
\* which) until Stream returns.
OpenStream ==
  /\ pc = "upstream"
  /\ request.stream
  /\ WriteHeader(200)
  /\ pc' = "stream"
  /\ UNCHANGED <<request, route, scanner, scanned, asked, body, event>>

StreamPiece ==
  /\ pc = "stream"
  /\ WritePiece
  /\ UNCHANGED <<request, pc, route, asked, event>>

CloseStream ==
  /\ pc = "stream"
  /\ pc' = "observe"
  /\ UNCHANGED <<request, route, recorder, asked, event>>

-----------------------------------------------------------------------------
(* The passthrough: httputil.ReverseProxy.                                 *)

ForwardInterim ==
  /\ pc = "proxy"
  /\ \E code \in Interim : WriteHeader(code)
  /\ UNCHANGED <<request, pc, route, scanner, scanned, asked, body, event>>

TransportFails ==
  /\ pc = "proxy"
  /\ Answer(502)

ForwardHeader ==
  /\ pc = "proxy"
  /\ \E code \in UpstreamCodes : WriteHeader(code)
  /\ pc' = "copy"
  /\ UNCHANGED <<request, route, scanner, scanned, asked, body, event>>

CopyPiece ==
  /\ pc = "copy"
  /\ WritePiece
  /\ UNCHANGED <<request, pc, route, asked, event>>

CopyEnds ==
  /\ pc = "copy"
  /\ pc' = "observe"
  /\ UNCHANGED <<request, route, recorder, asked, event>>

\* The upstream breaks off or the client has left: the panic passes through
\* observe, which does not recover from it.
CopyBreaks ==
  /\ pc = "copy"
  /\ pc' = "aborted"
  /\ UNCHANGED <<request, route, recorder, asked, event>>

-----------------------------------------------------------------------------
(* observe, once the handler returned.                                     *)

StatusCode == IF status = 0 THEN 200 ELSE status

Observe ==
  /\ pc = "observe"
  /\ event' = [status   |-> StatusCode,
               model    |-> route.model,
               provider |-> route.provider,
               pieces   |-> scanned]
  /\ pc' = "done"
  /\ UNCHANGED <<request, route, recorder, asked>>

Next ==
  \/ PassOn \/ TooLarge \/ Unroutable \/ Dispatch
  \/ CountTokens \/ Untranslatable \/ Refuse \/ Send \/ SendFails \/ RelayError
  \/ RelayMessage \/ RelayNothing
  \/ OpenStream \/ StreamPiece \/ CloseStream
  \/ ForwardInterim \/ TransportFails \/ ForwardHeader
  \/ CopyPiece \/ CopyEnds \/ CopyBreaks
  \/ Observe

Spec == Init /\ [][Next]_vars

-----------------------------------------------------------------------------
(* Properties.                                                             *)

TypeOK ==
  /\ request \in [path : Path, model : ModelIDs, stream : BOOLEAN]
  /\ pc \in {"serve", "messages", "count_tokens", "upstream", "stream", "proxy",
             "copy", "observe", "done", "aborted"}
  /\ route.model \in ModelIDs \cup {None}
  /\ route.provider \in ByPrefix(Config) \cup {Fallback, None}
  /\ status \in Nat
  /\ scanner \in {"unset", "on", "off"}
  /\ scanned \in Nat
  /\ asked \in ByPrefix(Config) \cup {Fallback, None}
  /\ sent \in Nat
  /\ interim \in BOOLEAN
  /\ body \in Nat
  /\ event \in Event \cup {None}

Reported == event # None

\* The event's status is the one the client saw, unless the passthrough handed
\* on an informational status first.
StatusIsTold == (Reported /\ ~interim) => event.status = sent

\* The tokens of an event are read from the whole reply, from its first piece to
\* its last, if the request reached a model, and from nothing otherwise.
ReplyIsScanned ==
  Reported => event.pieces = IF event.model = None THEN 0 ELSE body

\* The event names the provider whose upstream got the request, and no provider
\* of the file gets one it was not routed by its prefix.
RouteIsTold ==
  /\ (Reported /\ event.model # None /\ asked # None) => event.provider = asked
  /\ asked \in ByPrefix(Config) =>
       request.path # "other" /\ <<Head(request.model)>> = asked

\* The comment on observe: it turns every request into one event.
EveryRequestReported == pc \in {"done", "aborted"} => Reported

\* The comment on statusCode: it names the status the client saw.
StatusIsSeen == Reported => event.status = sent
=============================================================================
