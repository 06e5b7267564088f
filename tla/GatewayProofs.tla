----------------------------- MODULE GatewayProofs -----------------------------
(***************************************************************************)
(* What the gateway reports of a request is what happened, for every        *)
(* configuration, every model id and every length of a reply.               *)
(*                                                                         *)
(* The recorder and net/http are told the same things in the same order, so *)
(* their statuses differ only by an informational status or by a handler    *)
(* that wrote nothing; and the scanner is set up by the first piece, which  *)
(* comes after the route is known.                                          *)
(***************************************************************************)
EXTENDS Gateway, TLAPS

\* Where the request was sent, and what the route record says of that.
Routed ==
  /\ pc = "serve" => route.model = None /\ asked = None
  /\ route.model # None =>
       /\ route.model = request.model
       /\ request.path # "other"
       /\ route.provider = Route(Config, request.model).provider
       /\ asked \in {None, route.provider}
  /\ pc \in {"messages", "count_tokens", "upstream", "stream"} => route.model # None
  /\ asked # None => asked = Fallback \/ route.model # None

\* The two records of the status.
Seen ==
  /\ status \in {0} \cup 100 .. 599
  /\ sent \in {0} \cup 200 .. 599
  /\ interim \/ status = sent \/ (status = 0 /\ sent = 200 /\ pc \in {"observe", "done"})
  /\ pc \in {"stream", "copy", "observe", "done", "aborted"} => sent # 0
  /\ pc \in {"serve", "messages", "count_tokens", "upstream"} => status = 0 /\ sent = 0

\* The scanner was given all of the reply to a routed request.
Pieces ==
  /\ scanner = "unset" <=> body = 0
  /\ pc = "serve" => body = 0
  /\ scanner = "on" => route.model # None
  /\ scanner = "off" => route.model = None
  /\ scanned = IF scanner = "on" THEN body ELSE 0

\* The event was made of the records as they are.
Noted ==
  event # None =>
    /\ pc = "done"
    /\ event = [status |-> StatusCode, model |-> route.model,
                provider |-> route.provider, pieces |-> scanned]

IInv == TypeOK /\ Routed /\ Seen /\ Pieces /\ Noted

-----------------------------------------------------------------------------

\* A route leads to the provider whose id is the first segment, or falls back.
LEMMA RouteLeads ==
  ASSUME NEW m \in ModelIDs
  PROVE  LET to == Route(Config, m).provider IN
           /\ to \in ByPrefix(Config) \cup {Fallback}
           /\ to # Fallback => to = <<Head(m)>>
  BY DEF Route

\* The answers of the gateway itself, of any of its statuses.
LEMMA AnswerKeeps ==
  ASSUME IInv, NEW code \in 200 .. 599, pc \notin {"stream", "copy", "observe", "done", "aborted"},
         Answer(code)
  PROVE  IInv'
<1> USE DEF IInv
<1>1. code \notin Interim
  BY GatewayAssumption DEF GatewayAssumption
<1>2. /\ status' = IF status = 0 THEN code ELSE status
      /\ sent' = IF sent = 0 THEN code ELSE sent
      /\ body' = body + 1 /\ pc' = "observe"
      /\ UNCHANGED <<request, route, asked, event, interim>>
  BY <1>1 DEF Answer, WriteHeader
<1>3. /\ scanner' = IF scanner = "unset" THEN IF route.model # None THEN "on" ELSE "off" ELSE scanner
      /\ scanned' = IF scanner' = "on" THEN scanned + 1 ELSE scanned
  BY DEF Answer, Scan
<1>4. event = None
  BY DEF Noted
<1>5. TypeOK'
  BY <1>2, <1>3 DEF TypeOK, Seen
<1>6. Routed'
  BY <1>2 DEF Routed
<1>7. Seen'
  BY <1>2 DEF Seen
<1>8. Pieces'
  BY <1>2, <1>3 DEF Pieces, TypeOK
<1>9. Noted'
  BY <1>2, <1>4 DEF Noted
<1> QED
  BY <1>5, <1>6, <1>7, <1>8, <1>9

\* A piece of a reply whose header was sent.
LEMMA PieceKeeps ==
  ASSUME IInv, pc \in {"stream", "copy"}, WritePiece, UNCHANGED <<request, pc, route, asked, event>>
  PROVE  IInv'
<1> USE DEF IInv
<1>1. sent # 0 /\ event = None
  BY DEF Seen, Noted
<1>2. /\ status' = IF status = 0 THEN 200 ELSE status
      /\ sent' = sent /\ body' = body + 1 /\ interim' = interim
  BY <1>1 DEF WritePiece
<1>3. /\ scanner' = IF scanner = "unset" THEN IF route.model # None THEN "on" ELSE "off" ELSE scanner
      /\ scanned' = IF scanner' = "on" THEN scanned + 1 ELSE scanned
  BY DEF WritePiece, Scan
<1>5. TypeOK'
  BY <1>2, <1>3 DEF TypeOK, Seen
<1>6. Routed'
  BY DEF Routed
<1>7. Seen'
  BY <1>1, <1>2 DEF Seen
<1>8. Pieces'
  BY <1>2, <1>3 DEF Pieces, TypeOK
<1>9. Noted'
  BY <1>1 DEF Noted
<1> QED
  BY <1>5, <1>6, <1>7, <1>8, <1>9

\* A header: informational, after which the passthrough goes on, or the reply's.
LEMMA HeaderKeeps ==
  ASSUME IInv, NEW code \in Interim \cup 200 .. 599, pc \in {"upstream", "proxy"},
         WriteHeader(code),
         pc' \in {"stream", "copy", "proxy"},
         pc' = "stream" => pc = "upstream",
         pc' # "proxy" => code \in 200 .. 599,
         UNCHANGED <<request, route, scanner, scanned, asked, body, event>>
  PROVE  IInv'
<1> USE DEF IInv
<1>1. event = None
  BY DEF Noted
<1>2. /\ status' = IF status = 0 THEN code ELSE status
      /\ code \in Interim => interim' /\ sent' = sent
      /\ code \notin Interim => sent' = (IF sent = 0 THEN code ELSE sent) /\ interim' = interim
  BY DEF WriteHeader
<1>3. /\ code \in 200 .. 599 => code \notin Interim
      /\ code \in 100 .. 599
  BY GatewayAssumption DEF GatewayAssumption
<1>4. interim' \in BOOLEAN
  BY DEF TypeOK, WriteHeader
<1>5. TypeOK'
  BY <1>2, <1>3, <1>4 DEF TypeOK, Seen
<1>6. Routed'
  BY DEF Routed
<1>7. Seen'
  BY <1>2, <1>3 DEF Seen
<1>8. Pieces'
  BY DEF Pieces
<1>9. Noted'
  BY <1>1 DEF Noted
<1> QED
  BY <1>5, <1>6, <1>7, <1>8, <1>9

\* Nothing but the request's goroutine moves on.
LEMMA MoveKeeps ==
  ASSUME IInv, event = None, UNCHANGED <<request, route, recorder, asked, event>>,
         pc \in {"stream", "copy"}, pc' \in {"observe", "aborted"}
  PROVE  IInv'
<1> USE DEF IInv, recorder
<1>1. TypeOK'
  BY DEF TypeOK
<1>2. Routed'
  BY DEF Routed
<1>3. Seen'
  BY DEF Seen
<1>4. Pieces'
  BY DEF Pieces
<1>5. Noted'
  BY DEF Noted
<1> QED
  BY <1>1, <1>2, <1>3, <1>4, <1>5

\* The passthrough or a provider is found for the request.
LEMMA DispatchKeeps ==
  ASSUME IInv, Dispatch
  PROVE  IInv'
<1> USE DEF IInv
<1> DEFINE to == Route(Config, request.model)
<1>1. /\ pc = "serve" /\ request.path \in {"messages", "count_tokens"}
      /\ request.model \in ModelIDs /\ request.model # None
  BY GatewayAssumption DEF Dispatch, TypeOK, Path, GatewayAssumption
<1>2. to.provider \in ByPrefix(Config) \cup {Fallback}
  BY <1>1, RouteLeads
<1>3. /\ route' = [model |-> request.model, provider |-> to.provider]
      /\ pc' = IF to.provider = Fallback THEN "proxy" ELSE request.path
      /\ asked' = IF to.provider = Fallback THEN Fallback ELSE asked
      /\ UNCHANGED <<request, recorder, event>>
  BY DEF Dispatch
<1> HIDE DEF to
<1>4. TypeOK'
  BY <1>1, <1>2, <1>3 DEF TypeOK, recorder
<1>5. Routed'
  BY <1>1, <1>2, <1>3 DEF Routed, to
<1>6. Seen'
  BY <1>1, <1>3 DEF Seen, recorder
<1>7. Pieces'
  BY <1>1, <1>3 DEF Pieces, TypeOK, recorder
<1>8. Noted'
  BY <1>1, <1>3 DEF Noted
<1> QED
  BY <1>4, <1>5, <1>6, <1>7, <1>8

\* The request is sent to its upstream, without a route or along it.
LEMMA AskingKeeps ==
  ASSUME IInv, PassOn \/ Send
  PROVE  IInv'
<1> USE DEF IInv, recorder
<1>1. /\ pc \in {"serve", "messages"} /\ pc' \in {"proxy", "upstream"}
      /\ UNCHANGED <<request, route, recorder, event>>
  BY DEF PassOn, Send
<1>2. PassOn => asked' = Fallback /\ route.model = None /\ pc' = "proxy"
  BY DEF PassOn, Routed
<1>3. Send => /\ asked' = route.provider /\ route.model # None
              /\ asked' \in ByPrefix(Config) \cup {Fallback}
  <2>1. Send => request.model \in ModelIDs
    BY DEF TypeOK
  <2> QED
    BY <2>1, RouteLeads DEF Send, Routed
<1>4. TypeOK'
  BY <1>1, <1>2, <1>3 DEF TypeOK
<1>5. Routed'
  BY <1>1, <1>2, <1>3 DEF Routed, Send, PassOn
<1>6. Seen'
  BY <1>1 DEF Seen
<1>7. Pieces'
  BY <1>1 DEF Pieces
<1>8. Noted'
  BY <1>1 DEF Noted
<1> QED
  BY <1>4, <1>5, <1>6, <1>7, <1>8

\* A handler that wrote nothing.
LEMMA NothingKeeps ==
  ASSUME IInv, RelayNothing
  PROVE  IInv'
<1> USE DEF IInv
<1>1. /\ pc = "upstream" /\ pc' = "observe" /\ sent' = 200
      /\ UNCHANGED <<request, route, status, scanner, scanned, asked, interim, body, event>>
  BY DEF RelayNothing
<1>2. TypeOK'
  BY <1>1 DEF TypeOK
<1>3. Routed'
  BY <1>1 DEF Routed
<1>4. Seen'
  BY <1>1 DEF Seen
<1>5. Pieces'
  BY <1>1 DEF Pieces
<1>6. Noted'
  BY <1>1 DEF Noted
<1> QED
  BY <1>2, <1>3, <1>4, <1>5, <1>6

\* The event is made.
LEMMA ObserveKeeps ==
  ASSUME IInv, Observe
  PROVE  IInv'
<1> USE DEF IInv, recorder
<1>1. /\ pc = "observe" /\ pc' = "done"
      /\ event' = [status |-> StatusCode, model |-> route.model,
                   provider |-> route.provider, pieces |-> scanned]
      /\ UNCHANGED <<request, route, recorder, asked>>
  BY DEF Observe
<1>2. StatusCode \in 100 .. 599
  BY DEF StatusCode, Seen
<1>3. TypeOK'
  BY <1>1, <1>2 DEF TypeOK, Event
<1>4. Routed'
  BY <1>1 DEF Routed
<1>5. Seen'
  BY <1>1 DEF Seen
<1>6. Pieces'
  BY <1>1 DEF Pieces
<1>7. Noted'
  BY <1>1 DEF Noted, StatusCode
<1> QED
  BY <1>3, <1>4, <1>5, <1>6, <1>7

-----------------------------------------------------------------------------

\* The invariant that ties the event to the reply and to the route.
THEOREM Invariant == Spec => []IInv
<1>1. Init => IInv
  <2> SUFFICES ASSUME Init
               PROVE  IInv
    OBVIOUS
  <2>1. TypeOK
    BY DEF Init, TypeOK
  <2>2. Routed /\ Seen /\ Pieces /\ Noted
    BY DEF Init, Routed, Seen, Pieces, Noted
  <2> QED
    BY <2>1, <2>2 DEF IInv
<1>2. IInv /\ [Next]_vars => IInv'
  <2> SUFFICES ASSUME IInv, [Next]_vars
               PROVE  IInv'
    OBVIOUS
  <2>1. CASE PassOn \/ Send
    BY <2>1, AskingKeeps
  <2>2. CASE Dispatch
    BY <2>2, DispatchKeeps
  <2>3. CASE TooLarge
    BY <2>3, AnswerKeeps DEF TooLarge
  <2>4. CASE Unroutable
    BY <2>4, AnswerKeeps DEF Unroutable
  <2>5. CASE CountTokens
    BY <2>5, AnswerKeeps DEF CountTokens
  <2>6. CASE Untranslatable
    BY <2>6, AnswerKeeps DEF Untranslatable
  <2>7. CASE Refuse
    BY <2>7, AnswerKeeps DEF Refuse
  <2>8. CASE SendFails
    BY <2>8, AnswerKeeps DEF SendFails
  <2>9. CASE RelayError
    <3>1. PICK code \in UpstreamCodes : Answer(code)
      BY <2>9 DEF RelayError
    <3>2. code \in 200 .. 599
      BY GatewayAssumption DEF GatewayAssumption
    <3> QED
      BY <2>9, <3>1, <3>2, AnswerKeeps DEF RelayError
  <2>10. CASE RelayMessage
    <3>1. PICK code \in {200, 502} : Answer(code)
      BY <2>10 DEF RelayMessage
    <3> QED
      BY <2>10, <3>1, AnswerKeeps DEF RelayMessage
  <2>11. CASE RelayNothing
    BY <2>11, NothingKeeps
  <2>12. CASE OpenStream
    BY <2>12, HeaderKeeps DEF OpenStream
  <2>13. CASE StreamPiece \/ CopyPiece
    BY <2>13, PieceKeeps DEF StreamPiece, CopyPiece
  <2>14. CASE CloseStream \/ CopyEnds \/ CopyBreaks
    <3>1. event = None
      BY <2>14 DEF CloseStream, CopyEnds, CopyBreaks, IInv, Noted
    <3> QED
      BY <2>14, <3>1, MoveKeeps DEF CloseStream, CopyEnds, CopyBreaks
  <2>15. CASE ForwardInterim
    <3>1. PICK code \in Interim : WriteHeader(code)
      BY <2>15 DEF ForwardInterim
    <3> QED
      BY <2>15, <3>1, HeaderKeeps DEF ForwardInterim
  <2>16. CASE TransportFails
    BY <2>16, AnswerKeeps DEF TransportFails
  <2>17. CASE ForwardHeader
    <3>1. PICK code \in UpstreamCodes : WriteHeader(code)
      BY <2>17 DEF ForwardHeader
    <3>2. code \in 200 .. 599
      BY GatewayAssumption DEF GatewayAssumption
    <3> QED
      BY <2>17, <3>1, <3>2, HeaderKeeps DEF ForwardHeader
  <2>18. CASE Observe
    BY <2>18, ObserveKeeps
  <2>19. CASE UNCHANGED vars
    <3>1. TypeOK'
      BY <2>19 DEF IInv, vars, TypeOK
    <3>2. Routed' /\ Seen' /\ Pieces'
      BY <2>19 DEF IInv, vars, Routed, Seen, Pieces
    <3>3. Noted'
      BY <2>19 DEF IInv, vars, Noted, StatusCode
    <3> QED
      BY <3>1, <3>2, <3>3 DEF IInv
  <2> QED
    BY <2>1, <2>2, <2>3, <2>4, <2>5, <2>6, <2>7, <2>8, <2>9, <2>10, <2>11, <2>12,
       <2>13, <2>14, <2>15, <2>16, <2>17, <2>18, <2>19 DEF Next
<1> QED
  BY <1>1, <1>2, PTL DEF Spec

\* What the records and the event can be.
THEOREM TypeCorrect == Spec => []TypeOK
<1>1. IInv => TypeOK
  BY DEF IInv
<1> QED
  BY <1>1, Invariant, PTL

\* The event's status is the one the client saw, unless an informational status
\* came before it.
THEOREM EventTellsStatus == Spec => []StatusIsTold
<1>1. IInv => StatusIsTold
  BY DEF IInv, Noted, Seen, StatusCode, StatusIsTold, Reported
<1> QED
  BY <1>1, Invariant, PTL

\* The tokens of an event are those of the whole reply, or of nothing.
THEOREM WholeReplyIsScanned == Spec => []ReplyIsScanned
<1>1. IInv => ReplyIsScanned
  BY DEF IInv, TypeOK, Noted, Pieces, ReplyIsScanned, Reported
<1> QED
  BY <1>1, Invariant, PTL

\* The event names the provider that was asked, and a provider is asked only
\* along its prefix.
THEOREM EventTellsRoute == Spec => []RouteIsTold
<1>1. IInv => RouteIsTold
  <2> SUFFICES ASSUME IInv
               PROVE  RouteIsTold
    OBVIOUS
  <2>1. (Reported /\ event.model # None /\ asked # None) => event.provider = asked
    BY DEF IInv, Noted, Routed, Reported
  <2>2. ASSUME asked \in ByPrefix(Config)
        PROVE  request.path # "other" /\ <<Head(request.model)>> = asked
    <3>1. asked # None /\ asked # Fallback
      BY <2>2, GatewayAssumption DEF GatewayAssumption
    <3>2. /\ route.model # None /\ request.path # "other"
          /\ asked = Route(Config, request.model).provider
      BY <3>1 DEF IInv, Routed
    <3>3. request.model \in ModelIDs
      BY DEF IInv, TypeOK
    <3> QED
      BY <3>1, <3>2, <3>3, RouteLeads
  <2> QED
    BY <2>1, <2>2 DEF RouteIsTold
<1> QED
  BY <1>1, Invariant, PTL
=============================================================================
