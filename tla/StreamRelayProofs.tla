-------------------------- MODULE StreamRelayProofs --------------------------
(***************************************************************************)
(* The relay of one streamed reply is correct for every upstream: any set  *)
(* of chunks, any call indices, any length.  The proofs rest on one        *)
(* inductive invariant, IInv, which says how streamState and what was      *)
(* written to the client belong together.                                  *)
(***************************************************************************)
EXTENDS StreamRelay, SequenceTheorems, TLAPS

Relaying == hpc \in {"read", "start", "relay", "finish", "close"}
Unwinding == hpc \in {"unwind", "join", "shut", "returned"}

\* Where the handler is says what it has sent of the message's frame.
Frame ==
  /\ Relaying => /\ failure = "none"
                 /\ phase = IF started THEN "open" ELSE "idle"
  /\ hpc \in {"relay", "close"} => started
  /\ hpc \in {"start", "finish"} => ~started
  /\ hpc = "stop" => phase = "summed" /\ failure = "none"
  /\ hpc = "fail" => phase \in {"idle", "open"} /\ failure = "read"
  /\ closed => hpc = "returned"

\* The fragments before next are dealt with; a message is only ended after all.
Handled ==
  /\ next <= Len(heard) + 1
  /\ hpc \in {"read", "finish", "close", "stop"} => next = Len(heard) + 1
  /\ phase \in {"summed", "stopped"} =>
       next = Len(heard) + 1 /\ ~Relaying /\ hpc # "fail"

Numbered == \A b \in DOMAIN blocks : blocks[b].index = b - 1

\* streamState and the blocks the client has agree while events are sent.
Agreement ==
  Relaying =>
    /\ nextIndex = Len(blocks)
    /\ \A i \in openBlocks : i < Len(blocks)
    /\ \A b \in DOMAIN blocks : blocks[b].open <=> (b - 1) \in openBlocks

\* The text block streamState calls open is the one that is open.
TextAgreement ==
  (Relaying /\ hpc # "close") =>
    /\ textOpen => textIndex \in openBlocks /\ blocks[textIndex + 1].source = Text
    /\ \A b \in DOMAIN blocks :
         blocks[b].source = Text /\ blocks[b].open => textOpen /\ textIndex = b - 1

\* toolBlocks maps every call to its one block, which stays open to the end.
ToolAgreement ==
  (Relaying /\ hpc # "close") =>
    /\ \A i \in ToolIndex :
         Known(i) => /\ toolBlocks[i] \in openBlocks
                     /\ blocks[toolBlocks[i] + 1].source = i
    /\ \A b \in DOMAIN blocks :
         blocks[b].source # Text => toolBlocks[blocks[b].source] = b - 1

\* No piece comes from a fragment that is not dealt with yet.
PiecesHandled ==
  \A b \in DOMAIN blocks : \A k \in DOMAIN blocks[b].pieces : blocks[b].pieces[k] < next

\* Every fragment that is dealt with is where it belongs.
Delivered ==
  \A k \in DOMAIN heard : k < next =>
    /\ HasContent(heard[k]) =>
         \E b \in DOMAIN blocks : \E j \in DOMAIN blocks[b].pieces :
           blocks[b].pieces[j] = k
    /\ heard[k].kind = "call" =>
         \E b \in DOMAIN blocks : blocks[b].source = heard[k].index

Telling(k) == heard[k].kind = "finish" /\ Translated(heard[k].reason) # "null"

\* stopReason is the translation of the last telling finish reason so far.
ReasonKept ==
  IF stopReason = "null"
  THEN \A k \in DOMAIN heard : k < next => ~Telling(k)
  ELSE \E k \in DOMAIN heard :
         /\ k < next
         /\ Telling(k)
         /\ Translated(heard[k].reason) = stopReason
         /\ \A j \in DOMAIN heard : j < next /\ Telling(j) => j <= k

ReasonTold == phase \in {"summed", "stopped"} => told = {FinalStopReason}

Shutdown ==
  /\ hpc \in {"shut", "returned"} => ppc = "done"
  /\ hpc = "returned" => closed
  /\ Unwinding => \/ failure = "index"
                  \/ conn \in {"gone", "broken"}
                  \/ phase \in {"stopped", "failed"}

Books == Numbered /\ Agreement /\ TextAgreement /\ ToolAgreement
Content == PiecesHandled /\ Faithful /\ Delivered

IInv ==
  /\ TypeOK /\ Frame /\ Handled /\ Shutdown
  /\ ReasonKept /\ ReasonTold
  /\ Books /\ Content

-----------------------------------------------------------------------------
(* The three ways an event changes the blocks.                             *)

\* openBlock adds one empty open block at the end and leaves the others alone.
LEMMA OpenedBlocks ==
  ASSUME blocks \in Seq(MS!Block), NEW index \in Nat, NEW source \in MS!Source
  PROVE  /\ Opened(index, source) \in Seq(MS!Block)
         /\ Len(Opened(index, source)) = Len(blocks) + 1
         /\ \A b \in DOMAIN blocks : Opened(index, source)[b] = blocks[b]
         /\ Opened(index, source)[Len(blocks) + 1]
              = [index |-> index, source |-> source, open |-> TRUE, pieces |-> <<>>]
<1> DEFINE new == [index |-> index, source |-> source, open |-> TRUE, pieces |-> <<>>]
<1>1. new \in MS!Block
  BY DEF MS!Block
<1> HIDE DEF new
<1>2. /\ Append(blocks, new) \in Seq(MS!Block)
      /\ Len(Append(blocks, new)) = Len(blocks) + 1
      /\ \A b \in 1 .. Len(blocks) : Append(blocks, new)[b] = blocks[b]
      /\ Append(blocks, new)[Len(blocks) + 1] = new
  BY <1>1, AppendProperties
<1> QED
  BY <1>2 DEF Opened, new

\* A delta adds its piece to the block of that index and changes nothing else.
LEMMA ExtendedBlocks ==
  ASSUME blocks \in Seq(MS!Block), NEW index \in Nat, NEW piece \in 1 .. MaxHeard
  PROVE  /\ Extended(index, piece) \in Seq(MS!Block)
         /\ Len(Extended(index, piece)) = Len(blocks)
         /\ \A b \in DOMAIN blocks :
              /\ Extended(index, piece)[b].index = blocks[b].index
              /\ Extended(index, piece)[b].source = blocks[b].source
              /\ Extended(index, piece)[b].open = blocks[b].open
              /\ Extended(index, piece)[b].pieces =
                   IF blocks[b].index = index THEN Append(blocks[b].pieces, piece)
                                              ELSE blocks[b].pieces
<1>1. \A b \in 1 .. Len(blocks) : blocks[b] \in MS!Block
  OBVIOUS
<1>2. ASSUME NEW b \in 1 .. Len(blocks)
      PROVE  /\ Extended(index, piece)[b] \in MS!Block
             /\ Extended(index, piece)[b].index = blocks[b].index
             /\ Extended(index, piece)[b].source = blocks[b].source
             /\ Extended(index, piece)[b].open = blocks[b].open
             /\ Extended(index, piece)[b].pieces =
                  IF blocks[b].index = index THEN Append(blocks[b].pieces, piece)
                                             ELSE blocks[b].pieces
  <2>1. blocks[b] \in MS!Block
    BY <1>1
  <2>2. blocks[b].pieces \in Seq(1 .. MaxHeard)
    BY <2>1 DEF MS!Block
  <2> DEFINE more == Append(blocks[b].pieces, piece)
  <2>3. more \in Seq(1 .. MaxHeard)
    BY <2>2, AppendProperties
  <2>4. Longer(blocks[b], piece) = [blocks[b] EXCEPT !.pieces = more]
    BY DEF Longer
  <2> HIDE DEF more
  <2>5. /\ Longer(blocks[b], piece) \in MS!Block
        /\ Longer(blocks[b], piece).index = blocks[b].index
        /\ Longer(blocks[b], piece).source = blocks[b].source
        /\ Longer(blocks[b], piece).open = blocks[b].open
        /\ Longer(blocks[b], piece).pieces = more
    BY <2>1, <2>3, <2>4 DEF MS!Block
  <2>6. Extended(index, piece)[b] =
          IF blocks[b].index = index THEN Longer(blocks[b], piece) ELSE blocks[b]
    BY DEF Extended
  <2> QED
    BY <2>1, <2>5, <2>6 DEF more
<1>3. DOMAIN blocks = 1 .. Len(blocks)
  OBVIOUS
<1>4. Extended(index, piece) \in [1 .. Len(blocks) -> MS!Block]
  <2> DEFINE block(b) == IF blocks[b].index = index THEN Longer(blocks[b], piece) ELSE blocks[b]
  <2>1. \A b \in 1 .. Len(blocks) : block(b) \in MS!Block
    BY <1>2, <1>3 DEF Extended
  <2>2. Extended(index, piece) = [b \in 1 .. Len(blocks) |-> block(b)]
    BY <1>3 DEF Extended
  <2> HIDE DEF block
  <2> QED
    BY <2>1, <2>2
<1>5. Extended(index, piece) \in Seq(MS!Block) /\ Len(Extended(index, piece)) = Len(blocks)
  BY <1>4, LenProperties
<1> QED
  BY <1>2, <1>3, <1>5

\* A stop closes the block of that index and changes nothing else.
LEMMA StoppedBlocks ==
  ASSUME blocks \in Seq(MS!Block), NEW index \in Nat
  PROVE  /\ Stopped(index) \in Seq(MS!Block)
         /\ Len(Stopped(index)) = Len(blocks)
         /\ \A b \in DOMAIN blocks :
              /\ Stopped(index)[b].index = blocks[b].index
              /\ Stopped(index)[b].source = blocks[b].source
              /\ Stopped(index)[b].pieces = blocks[b].pieces
              /\ Stopped(index)[b].open <=> blocks[b].open /\ blocks[b].index # index
<1>1. DOMAIN blocks = 1 .. Len(blocks)
  OBVIOUS
<1>2. ASSUME NEW b \in 1 .. Len(blocks)
      PROVE  /\ Shut(blocks[b]) \in MS!Block
             /\ Shut(blocks[b]).index = blocks[b].index
             /\ Shut(blocks[b]).source = blocks[b].source
             /\ Shut(blocks[b]).pieces = blocks[b].pieces
             /\ ~Shut(blocks[b]).open
  <2>1. blocks[b] \in MS!Block
    OBVIOUS
  <2> QED
    BY <2>1 DEF Shut, MS!Block
<1> DEFINE block(b) == IF blocks[b].index = index THEN Shut(blocks[b]) ELSE blocks[b]
<1>3. Stopped(index) = [b \in 1 .. Len(blocks) |-> block(b)]
  BY <1>1 DEF Stopped
<1>4. ASSUME NEW b \in 1 .. Len(blocks)
      PROVE  /\ block(b) \in MS!Block
             /\ block(b).index = blocks[b].index
             /\ block(b).source = blocks[b].source
             /\ block(b).pieces = blocks[b].pieces
             /\ block(b).open <=> blocks[b].open /\ blocks[b].index # index
  <2>1. blocks[b] \in MS!Block
    OBVIOUS
  <2> QED
    BY <1>2, <2>1 DEF MS!Block
<1> HIDE DEF block
<1>5. Stopped(index) \in [1 .. Len(blocks) -> MS!Block]
  BY <1>3, <1>4
<1>6. Stopped(index) \in Seq(MS!Block) /\ Len(Stopped(index)) = Len(blocks)
  BY <1>5, LenProperties
<1>7. \A b \in 1 .. Len(blocks) : Stopped(index)[b] = block(b)
  BY <1>3
<1> QED
  BY <1>1, <1>4, <1>6, <1>7

\* A chunk is added after what was heard.
LEMMA HeardMore ==
  ASSUME RelayAssumption, heard \in Seq(Fragment), NEW chunk \in Chunks
  PROVE  /\ heard \o chunk \in Seq(Fragment)
         /\ Len(heard \o chunk) = Len(heard) + Len(chunk)
         /\ Len(chunk) \in Nat
         /\ \A k \in DOMAIN heard : (heard \o chunk)[k] = heard[k]
<1>1. chunk \in Seq(Fragment)
  BY DEF RelayAssumption
<1> QED
  BY <1>1, ConcatProperties
-----------------------------------------------------------------------------
(* Type correctness.                                                       *)

\* A call that carries an index names one of the upstream's calls.
LEMMA CallIndex ==
  ASSUME ReaderOK, AtFragment("call"), Call.index # NoIndex
  PROVE  Call.index \in ToolIndex
<1>1. heard[next] \in Fragment
  BY DEF ReaderOK, AtFragment
<1> QED
  BY <1>1 DEF AtFragment, Call, Fragment

\* The position of a fragment at hand is one a piece can have.
LEMMA PiecePosition ==
  ASSUME ReaderOK, next \in DOMAIN heard
  PROVE  next \in 1 .. MaxHeard
BY RelayAssumption DEF ReaderOK, RelayAssumption

\* What leaves the reader's variables alone keeps their types.
LEMMA ReaderOKStable == ReaderOK /\ UNCHANGED reader => ReaderOK'
BY DEF ReaderOK, reader

\* What leaves streamState alone keeps its types.
LEMMA StateOKStable == StateOK /\ UNCHANGED state => StateOK'
BY DEF StateOK, state

\* What leaves the reply alone keeps its types.
LEMMA ReplyOKStable == ReplyOK /\ UNCHANGED reply => ReplyOK'
BY DEF ReplyOK, reply

\* What leaves the control of handler, pinger and client alone keeps its types.
LEMMA ControlOKStable ==
  ControlOK /\ UNCHANGED <<hpc, failure, closed, pinger, conn>> => ControlOK'
BY DEF ControlOK, pinger

\* A send moves the handler on or makes it unwind, and disturbs nothing else.
LEMMA ControlOKSends ==
  ASSUME ControlOK, NEW ok, NEW then \in HandlerAt, Sends(ok, then)
  PROVE  ControlOK'
BY DEF ControlOK, Sends, Writes, pinger, HandlerAt

\* Every step keeps the types of the reader: only ReadChunk adds fragments, and
\* within the bound.
LEMMA ReaderStep == ReaderOK /\ [Next]_vars => ReaderOK'
<1> SUFFICES ASSUME ReaderOK, [Next]_vars
             PROVE  ReaderOK'
  OBVIOUS
<1> USE DEF ReaderOK, reader
<1>1. CASE Sending
  BY <1>1 DEF Sending, SendMessageStart, OpenText, WriteText, CloseText, OpenTool,
     WriteArguments, CloseBlock, SendMessageDelta, SendMessageStop, SendError
<1>2. CASE Computing
  BY <1>2 DEF Computing, ReadEnd, RejectCall, SkipArguments, SkipRefusal, NoteFinish,
     EndChunk, StopPings, JoinPinger, CloseWriter
<1>3. CASE ReadFails \/ Pinging \/ UNCHANGED vars
  BY <1>3 DEF ReadFails, Pinging, PingDue, SendPing, PingerStops, vars
<1>4. ASSUME NEW chunk \in Chunks, ReadChunk(chunk)
      PROVE  ReaderOK'
  BY <1>4, RelayAssumption, HeardMore DEF ReadChunk
<1>5. ASSUME NEW how \in {"ended", "broken"}, UpstreamEnds(how)
      PROVE  ReaderOK'
  BY <1>5 DEF UpstreamEnds
<1>6. CASE ClientLeaves \/ ClientStalls \/ ClientResumes
  BY <1>6 DEF ClientLeaves, ClientStalls, ClientResumes, ClientTurns
<1> QED
  BY <1>1, <1>2, <1>3, <1>4, <1>5, <1>6 DEF Next, Outside

\* Every step leaves handler, pinger, writer and connection in one of their states.
LEMMA ControlStep == ControlOK /\ [Next]_vars => ControlOK'
<1> SUFFICES ASSUME ControlOK, [Next]_vars
             PROVE  ControlOK'
  OBVIOUS
<1>1. CASE Sending
  <2>1. \E ok \in BOOLEAN : \E then \in HandlerAt : Sends(ok, then)
    BY <1>1 DEF Sending, SendMessageStart, OpenText, WriteText, CloseText, OpenTool,
       WriteArguments, CloseBlock, SendMessageDelta, SendMessageStop, SendError, HandlerAt
  <2> QED
    BY <2>1, ControlOKSends
<1>2. CASE Computing
  BY <1>2 DEF Computing, ReadEnd, RejectCall, SkipArguments, SkipRefusal, NoteFinish, ControlOK,
     EndChunk, StopPings, JoinPinger, CloseWriter, pinger, HandlerAt
<1>3. CASE ReadFails
  BY <1>3 DEF ReadFails, ControlOK, pinger, HandlerAt
<1>4. CASE Pinging
  BY <1>4 DEF Pinging, PingDue, SendPing, PingerStops, Writes, ControlOK, pinger
<1>5. ASSUME NEW chunk \in Chunks, ReadChunk(chunk)
      PROVE  ControlOK'
  BY <1>5 DEF ReadChunk, ControlOK, pinger, HandlerAt
<1>6. ASSUME NEW how \in {"ended", "broken"}, UpstreamEnds(how)
      PROVE  ControlOK'
  BY <1>6, ControlOKStable DEF UpstreamEnds
<1>7. CASE ClientLeaves \/ ClientStalls \/ ClientResumes
  BY <1>7 DEF ClientLeaves, ClientStalls, ClientResumes, ClientTurns, ControlOK, pinger
<1>8. CASE UNCHANGED vars
  BY <1>8, ControlOKStable DEF vars
<1> QED
  BY <1>1, <1>2, <1>3, <1>4, <1>5, <1>6, <1>7, <1>8 DEF Next, Outside

\* Every step keeps the types of streamState; a call's index is one of ToolIndex
\* when its block is opened.
LEMMA StateStep == ReaderOK /\ StateOK /\ [Next]_vars => StateOK'
<1> SUFFICES ASSUME ReaderOK, StateOK, [Next]_vars
             PROVE  StateOK'
  OBVIOUS
<1> USE DEF state
<1>1. CASE SendMessageStart \/ OpenText \/ CloseText
  <2>1. CASE SendMessageStart
    BY <2>1 DEF SendMessageStart, StateOK
  <2>2. CASE OpenText
    BY <2>2 DEF OpenText, StateOK
  <2>3. CASE CloseText
    BY <2>3 DEF CloseText, StateOK
  <2> QED
    BY <1>1, <2>1, <2>2, <2>3
<1>2. CASE OpenTool
  <2>1. Call.index \in ToolIndex
    BY <1>2, CallIndex DEF OpenTool, AtNewCall
  <2> QED
    BY <1>2, <2>1 DEF OpenTool, StateOK
<1>3. CASE CloseBlock
  BY <1>3 DEF CloseBlock, StateOK
<1>4. CASE NoteFinish
  <2>1. Translated(Call.reason) \in StopReason \cup {"null"}
    BY DEF Translated, StopReason
  <2> QED
    BY <1>4, <2>1 DEF NoteFinish, StateOK
<1>5. CASE WriteText \/ WriteArguments \/ SendMessageDelta \/ SendMessageStop \/ SendError
  BY <1>5, StateOKStable
     DEF WriteText, WriteArguments, SendMessageDelta, SendMessageStop, SendError
<1>6. CASE \/ ReadEnd \/ RejectCall \/ SkipArguments \/ SkipRefusal \/ EndChunk
           \/ StopPings \/ JoinPinger \/ CloseWriter
  BY <1>6, StateOKStable DEF ReadEnd, RejectCall, SkipArguments, SkipRefusal,
     EndChunk, StopPings, JoinPinger, CloseWriter
<1>7. CASE ReadFails \/ Pinging \/ Outside \/ UNCHANGED vars
  BY <1>7, StateOKStable DEF ReadFails, Pinging, PingDue, SendPing, PingerStops, vars,
     Outside, ReadChunk, UpstreamEnds, ClientLeaves, ClientStalls, ClientResumes, ClientTurns
<1> QED
  BY <1>1, <1>2, <1>3, <1>4, <1>5, <1>6, <1>7 DEF Next, Sending, Computing

\* Every step keeps the types of what the client was sent.
LEMMA ReplyStep == ReaderOK /\ StateOK /\ ReplyOK /\ [Next]_vars => ReplyOK'
<1> SUFFICES ASSUME ReaderOK, StateOK, ReplyOK, [Next]_vars
             PROVE  ReplyOK'
  OBVIOUS
<1> USE DEF MS!Phase, reply
<1>1. blocks \in Seq(MS!Block)
  BY DEF ReplyOK
<1>2. CASE SendMessageStart \/ SendMessageStop \/ SendError
  BY <1>2 DEF SendMessageStart, SendMessageStop, SendError, ReplyOK
<1>3. CASE SendMessageDelta
  BY <1>3 DEF SendMessageDelta, FinalStopReason, StateOK, ReplyOK, StopReason
<1>4. CASE OpenText
  <2>1. Opened(nextIndex, Text) \in Seq(MS!Block)
    BY <1>1, OpenedBlocks DEF MS!Source, StateOK
  <2> QED
    BY <1>4, <2>1 DEF OpenText, ReplyOK
<1>5. CASE WriteText
  <2>1. Extended(textIndex, next) \in Seq(MS!Block)
    BY <1>1, <1>5, ExtendedBlocks, PiecePosition DEF WriteText, AtFragment, StateOK
  <2> QED
    BY <1>5, <2>1 DEF WriteText, ReplyOK
<1>6. CASE CloseText
  <2>1. Stopped(textIndex) \in Seq(MS!Block)
    BY <1>1, StoppedBlocks DEF StateOK
  <2> QED
    BY <1>6, <2>1 DEF CloseText, ReplyOK
<1>7. CASE OpenTool
  <2>1. Call.index \in ToolIndex
    BY <1>7, CallIndex DEF OpenTool, AtNewCall
  <2>2. Opened(nextIndex, Call.index) \in Seq(MS!Block)
    BY <1>1, <2>1, OpenedBlocks DEF MS!Source, StateOK
  <2> QED
    BY <1>7, <2>2 DEF OpenTool, ReplyOK
<1>8. CASE WriteArguments
  <2>1. Call.index \in ToolIndex
    BY <1>8, CallIndex DEF WriteArguments, AtKnownCall
  <2>2. toolBlocks[Call.index] \in Nat
    BY <1>8, <2>1 DEF WriteArguments, AtKnownCall, Known, StateOK
  <2>3. Extended(toolBlocks[Call.index], next) \in Seq(MS!Block)
    BY <1>1, <1>8, <2>2, ExtendedBlocks, PiecePosition
       DEF WriteArguments, AtKnownCall, AtFragment
  <2> QED
    BY <1>8, <2>3 DEF WriteArguments, ReplyOK
<1>9. CASE CloseBlock
  <2>1. \A index \in openBlocks : Stopped(index) \in Seq(MS!Block)
    BY <1>1, StoppedBlocks DEF StateOK
  <2> QED
    BY <1>9, <2>1 DEF CloseBlock, ReplyOK
<1>10. CASE Computing \/ ReadFails \/ Pinging \/ Outside \/ UNCHANGED vars
  BY <1>10, ReplyOKStable DEF Computing, ReadEnd, RejectCall, SkipArguments, SkipRefusal, NoteFinish,
     EndChunk, StopPings, JoinPinger, CloseWriter, ReadFails, Pinging, PingDue, SendPing,
     PingerStops, vars, Outside, ReadChunk, UpstreamEnds, ClientLeaves, ClientStalls,
     ClientResumes, ClientTurns
<1> QED
  BY <1>2, <1>3, <1>4, <1>5, <1>6, <1>7, <1>8, <1>9, <1>10 DEF Next, Sending

\* A stream that is about to begin has the right types.
LEMMA InitType == Init => TypeOK
<1> SUFFICES ASSUME Init
             PROVE  TypeOK
  OBVIOUS
<1>1. ReaderOK
  BY RelayAssumption DEF RelayAssumption, Init, ReaderOK
<1>2. StateOK
  BY DEF Init, StateOK
<1>3. ControlOK
  BY DEF Init, ControlOK, HandlerAt
<1>4. ReplyOK
  BY DEF Init, ReplyOK, MS!Phase
<1> QED
  BY <1>1, <1>2, <1>3, <1>4 DEF TypeOK

\* Every step keeps the type invariant.
LEMMA TypeStep == TypeOK /\ [Next]_vars => TypeOK'
BY ReaderStep, StateStep, ControlStep, ReplyStep DEF TypeOK

\* Every variable keeps its type for ever, whatever the upstream sends.
THEOREM TypeCorrect == Spec => []TypeOK
BY InitType, TypeStep, PTL DEF Spec

-----------------------------------------------------------------------------
(* The frame of the message: which events have gone out, and why the       *)
(* handler is where it is.                                                 *)

\* While the handler is in Stream the writer is open: a send either goes out,
\* or fails, breaks the connection and makes the handler unwind.
LEMMA SendsOutcome ==
  ASSUME Frame, hpc # "returned", NEW ok \in BOOLEAN, NEW then, Sends(ok, then)
  PROVE  /\ Lands(ok) = ok
         /\ ok => hpc' = then /\ failure' = failure /\ conn' = conn
         /\ ~ok => /\ hpc' = "unwind" /\ conn' = "broken" /\ failure' # "none"
                   /\ failure # "none" => failure' = failure
         /\ closed' = closed /\ ppc' = ppc
BY DEF Frame, Sends, Writes, Lands, pinger

Quiet == UNCHANGED <<hpc, failure, started, closed, phase>>

\* Every step keeps the frame: where the handler is agrees with what was started,
\* sent and closed.
LEMMA FrameStep == TypeOK /\ Frame /\ [Next]_vars => Frame'
<1> SUFFICES ASSUME TypeOK, Frame, [Next]_vars
             PROVE  Frame'
  OBVIOUS
<1> USE DEF Relaying
<1>1. CASE SendMessageStart
  <2>1. PICK ok \in BOOLEAN :
          /\ Sends(ok, IF hpc = "start" THEN "relay" ELSE "close")
          /\ phase' = IF Lands(ok) THEN "open" ELSE phase
    BY <1>1 DEF SendMessageStart
  <2> QED
    BY <1>1, <2>1, SendsOutcome DEF SendMessageStart, Frame
<1>2. CASE OpenText \/ WriteText \/ CloseText \/ OpenTool \/ WriteArguments
  <2>1. /\ hpc = "relay" /\ UNCHANGED <<started, phase>>
        /\ \E ok \in BOOLEAN : Sends(ok, "relay")
    BY <1>2 DEF OpenText, WriteText, CloseText, OpenTool, WriteArguments,
       AtFragment, AtNewCall, AtKnownCall, state
  <2> QED
    BY <2>1, SendsOutcome DEF Frame
<1>3. CASE CloseBlock
  <2>1. hpc = "close" /\ UNCHANGED <<started, phase>> /\ \E ok \in BOOLEAN : Sends(ok, "close")
    BY <1>3 DEF CloseBlock
  <2> QED
    BY <2>1, SendsOutcome DEF Frame
<1>4. CASE SendMessageDelta
  <2>1. PICK ok \in BOOLEAN :
          Sends(ok, "stop") /\ phase' = IF Lands(ok) THEN "summed" ELSE phase
    BY <1>4 DEF SendMessageDelta
  <2> QED
    BY <1>4, <2>1, SendsOutcome DEF SendMessageDelta, Frame
<1>5. CASE SendMessageStop \/ SendError
  <2>1. hpc \in {"stop", "fail"} /\ \E ok \in BOOLEAN : Sends(ok, "unwind")
    BY <1>5 DEF SendMessageStop, SendError
  <2> QED
    BY <2>1, SendsOutcome DEF Frame
<1>6. CASE Computing
  <2>1. CASE ReadEnd \/ RejectCall \/ EndChunk
    BY <2>1 DEF ReadEnd, RejectCall, EndChunk, AtFragment, Frame, state, reply
  <2>2. CASE SkipArguments \/ SkipRefusal \/ NoteFinish
    BY <2>2 DEF SkipArguments, SkipRefusal, NoteFinish, Frame, state, reply
  <2>3. CASE StopPings \/ JoinPinger \/ CloseWriter
    BY <2>3 DEF StopPings, JoinPinger, CloseWriter, Frame, reply
  <2> QED
    BY <1>6, <2>1, <2>2, <2>3 DEF Computing
<1>7. CASE ReadFails
  BY <1>7 DEF ReadFails, Frame, state, reply
<1>8. CASE Pinging \/ UNCHANGED vars
  <2>1. Quiet
    BY <1>8 DEF Pinging, PingDue, SendPing, PingerStops, vars, Quiet, state, reply
  <2> QED
    BY <2>1 DEF Quiet, Frame
<1>9. ASSUME NEW chunk \in Chunks, ReadChunk(chunk)
      PROVE  Frame'
  BY <1>9 DEF ReadChunk, Frame, state, reply
<1>10. CASE \/ \E how \in {"ended", "broken"} : UpstreamEnds(how)
            \/ ClientLeaves \/ ClientStalls \/ ClientResumes
  <2>1. Quiet
    BY <1>10 DEF UpstreamEnds, ClientLeaves, ClientStalls, ClientResumes, ClientTurns,
       Quiet, state, reply
  <2> QED
    BY <2>1 DEF Quiet, Frame
<1> QED
  BY <1>1, <1>2, <1>3, <1>4, <1>5, <1>6, <1>7, <1>8, <1>9, <1>10 DEF Next, Sending, Outside

\* Every step keeps to the fragments that were heard: the handler never goes past
\* the end of them, and only reads on when it is through.
LEMMA HandledStep == TypeOK /\ Frame /\ Handled /\ [Next]_vars => Handled'
<1> SUFFICES ASSUME TypeOK, Frame, Handled, [Next]_vars
             PROVE  Handled'
  OBVIOUS
<1>t. /\ next \in Nat \ {0} /\ Len(heard) \in Nat
      /\ DOMAIN heard = 1 .. Len(heard)
  BY LenProperties DEF TypeOK, ReaderOK
<1> USE DEF Relaying, reader
<1>1. CASE SendMessageStart
  <2>1. PICK ok \in BOOLEAN :
          /\ Sends(ok, IF hpc = "start" THEN "relay" ELSE "close")
          /\ phase' = IF Lands(ok) THEN "open" ELSE phase
    BY <1>1 DEF SendMessageStart
  <2> QED
    BY <1>1, <2>1, SendsOutcome DEF SendMessageStart, Frame, Handled
<1>2. CASE OpenText \/ CloseText \/ OpenTool
  <2>1. /\ hpc = "relay" /\ UNCHANGED <<heard, next, phase>>
        /\ \E ok \in BOOLEAN : Sends(ok, "relay")
    BY <1>2 DEF OpenText, CloseText, OpenTool, AtFragment, AtNewCall
  <2> QED
    BY <2>1, SendsOutcome DEF Handled, Frame
<1>3. CASE WriteText \/ WriteArguments
  <2>1. /\ hpc = "relay" /\ UNCHANGED <<heard, phase>> /\ next \in DOMAIN heard
        /\ \E ok \in BOOLEAN : Sends(ok, "relay")
        /\ next' \in {next, next + 1}
    BY <1>3 DEF WriteText, WriteArguments, AtFragment, AtKnownCall
  <2> QED
    BY <1>t, <2>1, SendsOutcome DEF Handled, Frame
<1>4. CASE CloseBlock
  <2>1. /\ hpc = "close" /\ UNCHANGED <<heard, next, phase>>
        /\ \E ok \in BOOLEAN : Sends(ok, "close")
    BY <1>4 DEF CloseBlock
  <2> QED
    BY <2>1, SendsOutcome DEF Handled, Frame
<1>5. CASE SendMessageDelta
  <2>1. PICK ok \in BOOLEAN :
          Sends(ok, "stop") /\ phase' = IF Lands(ok) THEN "summed" ELSE phase
    BY <1>5 DEF SendMessageDelta
  <2> QED
    BY <1>5, <2>1, SendsOutcome DEF SendMessageDelta, Frame, Handled
<1>6. CASE SendMessageStop
  <2>1. hpc = "stop" /\ UNCHANGED <<heard, next>> /\ \E ok \in BOOLEAN : Sends(ok, "unwind")
    BY <1>6 DEF SendMessageStop
  <2> QED
    BY <2>1, SendsOutcome DEF Handled, Frame
<1>7. CASE SendError
  <2>1. PICK ok \in BOOLEAN :
          Sends(ok, "unwind") /\ phase' = IF Lands(ok) THEN "failed" ELSE phase
    BY <1>7 DEF SendError
  <2> QED
    BY <1>7, <2>1, SendsOutcome DEF SendError, Frame, Handled
<1>8. CASE Computing
  <2>1. CASE ReadEnd \/ RejectCall
    BY <2>1 DEF ReadEnd, RejectCall, AtFragment, Frame, Handled, reply
  <2>2. CASE EndChunk
    BY <1>t, <2>2 DEF EndChunk, Frame, Handled, reply
  <2>3. CASE SkipArguments \/ SkipRefusal \/ NoteFinish
    <3>1. /\ hpc = "relay" /\ UNCHANGED <<hpc, heard, phase>>
          /\ next \in DOMAIN heard /\ next' = next + 1
      BY <2>3 DEF SkipArguments, SkipRefusal, NoteFinish, AtFragment, AtKnownCall, reply
    <3> QED
      BY <1>t, <3>1 DEF Handled, Frame
  <2>4. CASE StopPings \/ JoinPinger \/ CloseWriter
    BY <2>4 DEF StopPings, JoinPinger, CloseWriter, Frame, Handled, reply
  <2> QED
    BY <1>8, <2>1, <2>2, <2>3, <2>4 DEF Computing
<1>9. CASE ReadFails
  BY <1>9 DEF ReadFails, Frame, Handled, reply
<1>10. ASSUME NEW chunk \in Chunks, ReadChunk(chunk)
       PROVE  Handled'
  <2>1. Len(heard') = Len(heard) + Len(chunk) /\ Len(chunk) \in Nat
    BY <1>10, HeardMore, RelayAssumption DEF ReadChunk, TypeOK, ReaderOK
  <2> QED
    BY <1>t, <1>10, <2>1 DEF ReadChunk, Frame, Handled, reply
<1>11. CASE \/ \E how \in {"ended", "broken"} : UpstreamEnds(how)
            \/ ClientLeaves \/ ClientStalls \/ ClientResumes
            \/ Pinging \/ UNCHANGED vars
  <2>1. UNCHANGED <<hpc, heard, next, phase>>
    BY <1>11 DEF UpstreamEnds, ClientLeaves, ClientStalls, ClientResumes, ClientTurns,
       Pinging, PingDue, SendPing, PingerStops, vars, reply
  <2> QED
    BY <2>1 DEF Handled
<1> QED
  BY <1>1, <1>2, <1>3, <1>4, <1>5, <1>6, <1>7, <1>8, <1>9, <1>10, <1>11
     DEF Next, Sending, Outside

\* The pinger has ended before the writer is closed, and Stream only returns
\* early because of a call without an index or a client that has left.
LEMMA ShutdownStep == TypeOK /\ Frame /\ Shutdown /\ [Next]_vars => Shutdown'
<1> SUFFICES ASSUME TypeOK, Frame, Shutdown, [Next]_vars
             PROVE  Shutdown'
  OBVIOUS
<1> USE DEF Relaying, Unwinding
<1>1. CASE /\ Sending /\ ~SendError /\ ~SendMessageStop
  <2>1. PICK ok \in BOOLEAN, then \in {"relay", "close", "stop"} : Sends(ok, then)
    BY <1>1 DEF Sending, SendMessageStart, OpenText, WriteText, CloseText, OpenTool,
       WriteArguments, CloseBlock, SendMessageDelta
  <2>2. hpc \notin {"unwind", "join", "shut", "returned"}
    BY <1>1 DEF Sending, SendMessageStart, OpenText, WriteText, CloseText, OpenTool,
       WriteArguments, CloseBlock, SendMessageDelta, AtFragment, AtNewCall, AtKnownCall
  <2> QED
    BY <2>1, <2>2, SendsOutcome DEF Shutdown
<1>2. CASE SendError
  <2>1. PICK ok \in BOOLEAN :
          Sends(ok, "unwind") /\ phase' = IF Lands(ok) THEN "failed" ELSE phase
    BY <1>2 DEF SendError
  <2> QED
    BY <1>2, <2>1, SendsOutcome DEF SendError, Shutdown
<1>3. CASE SendMessageStop
  <2>1. PICK ok \in BOOLEAN :
          Sends(ok, "unwind") /\ phase' = IF Lands(ok) THEN "stopped" ELSE phase
    BY <1>3 DEF SendMessageStop
  <2> QED
    BY <1>3, <2>1, SendsOutcome DEF SendMessageStop, Shutdown
<1>4. CASE \/ ReadEnd \/ RejectCall \/ SkipArguments \/ SkipRefusal \/ NoteFinish \/ EndChunk \/ ReadFails
           \/ \E chunk \in Chunks : ReadChunk(chunk)
  <2>1. /\ hpc \in {"read", "relay"}
        /\ hpc' \in {"close", "finish", "unwind", "relay", "read", "fail", "start"}
        /\ hpc' = "unwind" => failure' = "index"
    BY <1>4 DEF ReadEnd, RejectCall, SkipArguments, SkipRefusal, NoteFinish, EndChunk, ReadFails, ReadChunk,
       AtFragment, AtKnownCall
  <2> QED
    BY <2>1 DEF Shutdown
<1>5. CASE StopPings \/ JoinPinger \/ CloseWriter
  BY <1>5 DEF StopPings, JoinPinger, CloseWriter, Shutdown, pinger, reply
<1>6. CASE Pinging
  BY <1>6 DEF Pinging, PingDue, SendPing, PingerStops, Writes, Shutdown, reply
<1>7. CASE \/ \E how \in {"ended", "broken"} : UpstreamEnds(how)
           \/ ClientLeaves \/ ClientStalls \/ ClientResumes
           \/ UNCHANGED vars
  <2>1. UNCHANGED <<hpc, failure, closed, ppc, phase>> /\ (conn' = conn \/ conn \in {"up", "stalled"})
    BY <1>7 DEF UpstreamEnds, ClientLeaves, ClientStalls, ClientResumes, ClientTurns,
       vars, reply, pinger
  <2> QED
    BY <2>1 DEF Shutdown
<1> QED
  BY <1>1, <1>2, <1>3, <1>4, <1>5, <1>6, <1>7 DEF Next, Sending, Computing, Outside

-----------------------------------------------------------------------------
(* The stop reason.                                                        *)

\* Passing a fragment that tells no reason keeps the reason.
LEMMA ReasonPassed ==
  ASSUME ReaderOK, ReasonKept, next \in DOMAIN heard, ~Telling(next),
         next' = next + 1, UNCHANGED <<heard, stopReason>>
  PROVE  ReasonKept'
<1>1. DOMAIN heard = 1 .. Len(heard) /\ Len(heard) \in Nat /\ next \in Nat
  BY LenProperties DEF ReaderOK
<1>2. \A k \in DOMAIN heard : k < next' <=> k < next \/ k = next
  BY <1>1
<1> QED
  BY <1>2 DEF ReasonKept, Telling

\* Every step keeps stopReason the last translated reason of the fragments that
\* were handled (NoteFinish).
LEMMA ReasonKeptStep == TypeOK /\ Handled /\ ReasonKept /\ [Next]_vars => ReasonKept'
<1> SUFFICES ASSUME TypeOK, Handled, ReasonKept, [Next]_vars
             PROVE  ReasonKept'
  OBVIOUS
<1>t. ReaderOK /\ DOMAIN heard = 1 .. Len(heard) /\ Len(heard) \in Nat /\ next \in Nat
  BY LenProperties DEF TypeOK, ReaderOK
<1>1. ASSUME UNCHANGED <<heard, next, stopReason>>
      PROVE  ReasonKept'
  BY <1>1 DEF ReasonKept, Telling
<1>2. CASE \/ SendMessageStart \/ OpenText \/ CloseText \/ OpenTool
           \/ CloseBlock \/ SendMessageDelta \/ SendMessageStop \/ SendError
  BY <1>1, <1>2 DEF SendMessageStart, OpenText, CloseText, OpenTool, CloseBlock,
     SendMessageDelta, SendMessageStop, SendError, reader, state
<1>3. CASE WriteText \/ WriteArguments
  <2>1. /\ UNCHANGED <<heard, stopReason>> /\ next' \in {next, next + 1}
        /\ next \in DOMAIN heard /\ ~Telling(next)
    BY <1>3 DEF WriteText, WriteArguments, AtFragment, AtKnownCall, Telling, state
  <2> QED
    BY <1>1, <1>t, <2>1, ReasonPassed
<1>4. CASE SkipArguments \/ SkipRefusal
  <2>1. /\ UNCHANGED <<heard, stopReason>> /\ next' = next + 1
        /\ next \in DOMAIN heard /\ ~Telling(next)
    BY <1>4 DEF SkipArguments, SkipRefusal, AtFragment, AtKnownCall, Telling, state
  <2> QED
    BY <1>t, <2>1, ReasonPassed
<1>5. CASE NoteFinish
  <2>1. /\ next \in DOMAIN heard /\ heard[next].kind = "finish"
        /\ next' = next + 1 /\ heard' = heard
        /\ stopReason' = IF Translated(heard[next].reason) = "null"
                         THEN stopReason ELSE Translated(heard[next].reason)
    BY <1>5 DEF NoteFinish, AtFragment, Call
  <2>2. CASE Translated(heard[next].reason) = "null"
    <3>1. ~Telling(next) /\ stopReason' = stopReason
      BY <2>1, <2>2 DEF Telling
    <3> QED
      BY <1>t, <2>1, <3>1, ReasonPassed
  <2>3. CASE Translated(heard[next].reason) # "null"
    <3>1. Telling(next) /\ stopReason' = Translated(heard[next].reason) /\ stopReason' # "null"
      BY <2>1, <2>3 DEF Telling
    <3>2. \A j \in DOMAIN heard : j < next' => j <= next
      BY <1>t, <2>1
    <3>3. PICK n \in DOMAIN heard : n = next
      BY <2>1
    <3>4. /\ n \in DOMAIN heard' /\ n < next' /\ Telling(n)'
          /\ Translated(heard'[n].reason) = stopReason'
          /\ \A j \in DOMAIN heard' : j < next' /\ Telling(j)' => j <= n
      BY <1>t, <2>1, <3>1, <3>2, <3>3 DEF Telling
    <3> QED
      BY <3>1, <3>4 DEF ReasonKept
  <2> QED
    BY <2>2, <2>3
<1>6. CASE \/ ReadEnd \/ RejectCall \/ EndChunk \/ StopPings \/ JoinPinger \/ CloseWriter
           \/ ReadFails \/ Pinging \/ UNCHANGED vars
  BY <1>1, <1>6 DEF ReadEnd, RejectCall, EndChunk, StopPings, JoinPinger, CloseWriter,
     ReadFails, Pinging, PingDue, SendPing, PingerStops, vars, reader, state
<1>7. ASSUME NEW chunk \in Chunks, ReadChunk(chunk)
      PROVE  ReasonKept'
  <2>1. /\ UNCHANGED <<next, stopReason>>
        /\ \A k \in DOMAIN heard : heard'[k] = heard[k]
        /\ Len(heard') = Len(heard) + Len(chunk) /\ Len(chunk) \in Nat
        /\ DOMAIN heard' = 1 .. Len(heard')
    BY <1>7, <1>t, RelayAssumption, HeardMore, LenProperties DEF ReadChunk, state, ReaderOK
  <2>2. \A k : k \in DOMAIN heard' /\ k < next <=> k \in DOMAIN heard /\ k < next
    BY <1>t, <2>1 DEF Handled
  <2>3. \A k \in DOMAIN heard : Telling(k)' <=> Telling(k)
    BY <2>1 DEF Telling
  <2>4. CASE stopReason = "null"
    BY <2>1, <2>2, <2>3, <2>4 DEF ReasonKept
  <2>5. CASE stopReason # "null"
    BY <2>1, <2>2, <2>3, <2>5 DEF ReasonKept
  <2> QED
    BY <2>4, <2>5
<1>8. CASE \/ \E how \in {"ended", "broken"} : UpstreamEnds(how)
           \/ ClientLeaves \/ ClientStalls \/ ClientResumes
  BY <1>1, <1>8 DEF UpstreamEnds, ClientLeaves, ClientStalls, ClientResumes, ClientTurns,
     reader, state
<1> QED
  BY <1>2, <1>3, <1>4, <1>5, <1>6, <1>7, <1>8 DEF Next, Sending, Computing, Outside

\* Every step keeps the reason that was sent the one the handler has.
LEMMA ReasonToldStep == TypeOK /\ Frame /\ ReasonTold /\ [Next]_vars => ReasonTold'
<1> SUFFICES ASSUME TypeOK, Frame, ReasonTold, [Next]_vars
             PROVE  ReasonTold'
  OBVIOUS
<1>1. ASSUME UNCHANGED <<phase, told, stopReason>>
      PROVE  ReasonTold'
  BY <1>1 DEF ReasonTold, FinalStopReason
<1>2. CASE SendMessageStart \/ SendError
  BY <1>2 DEF SendMessageStart, SendError, ReasonTold, FinalStopReason, state
<1>3. CASE SendMessageDelta
  BY <1>3, <1>1 DEF SendMessageDelta, ReasonTold, FinalStopReason, state
<1>4. CASE SendMessageStop
  BY <1>4 DEF SendMessageStop, Frame, ReasonTold, FinalStopReason, state
<1>5. CASE OpenText \/ CloseText \/ OpenTool \/ CloseBlock \/ WriteText \/ WriteArguments
  BY <1>1, <1>5 DEF OpenText, CloseText, OpenTool, CloseBlock, WriteText, WriteArguments, state
<1>6. CASE NoteFinish
  BY <1>6 DEF NoteFinish, AtFragment, Frame, Relaying, ReasonTold, reply
<1>7. CASE \/ ReadEnd \/ RejectCall \/ SkipArguments \/ SkipRefusal \/ EndChunk
           \/ StopPings \/ JoinPinger \/ CloseWriter \/ ReadFails \/ Pinging \/ Outside \/ UNCHANGED vars
  BY <1>1, <1>7 DEF ReadEnd, RejectCall, SkipArguments, SkipRefusal, EndChunk, StopPings, JoinPinger,
     CloseWriter, ReadFails, Pinging, PingDue, SendPing, PingerStops, vars, state, reply,
     Outside, ReadChunk, UpstreamEnds, ClientLeaves, ClientStalls, ClientResumes, ClientTurns
<1> QED
  BY <1>2, <1>3, <1>4, <1>5, <1>6, <1>7 DEF Next, Sending, Computing

-----------------------------------------------------------------------------
(* streamState and the blocks of the client.                               *)

\* The books keep while block positions, sources and openness do.
LEMMA BooksKept ==
  ASSUME TypeOK, Books, TypeOK',
         UNCHANGED <<nextIndex, openBlocks, textIndex, textOpen, toolBlocks>>,
         Len(blocks') = Len(blocks),
         \A b \in DOMAIN blocks : /\ blocks'[b].index = blocks[b].index
                                  /\ blocks'[b].source = blocks[b].source
                                  /\ blocks'[b].open <=> blocks[b].open,
         Relaying' => Relaying /\ (hpc = "close" => hpc' = "close")
  PROVE  Books'
<1>1. /\ DOMAIN blocks = 1 .. Len(blocks) /\ DOMAIN blocks' = 1 .. Len(blocks')
      /\ openBlocks \subseteq Nat /\ textIndex \in Nat
      /\ \A i \in ToolIndex : toolBlocks[i] \in Nat \cup {Absent}
  BY LenProperties DEF TypeOK, StateOK, ReplyOK
<1>2. DOMAIN blocks' = DOMAIN blocks
  BY <1>1
<1>3. Numbered'
  BY <1>2 DEF Books, Numbered
<1>4. Agreement'
  BY <1>2 DEF Books, Agreement
<1>5. ASSUME Relaying', hpc' # "close"
      PROVE  /\ textOpen' => textIndex' \in openBlocks' /\ blocks'[textIndex' + 1].source = Text
             /\ \A i \in ToolIndex :
                  Known(i)' => /\ toolBlocks'[i] \in openBlocks'
                               /\ blocks'[toolBlocks'[i] + 1].source = i
  <2>1. Relaying /\ hpc # "close"
    BY <1>5
  <2>2. \A i \in openBlocks : i + 1 \in DOMAIN blocks
    BY <1>1, <2>1 DEF Books, Agreement
  <2> QED
    BY <2>1, <2>2 DEF Books, TextAgreement, ToolAgreement, Known
<1>6. TextAgreement'
  BY <1>2, <1>5 DEF Books, TextAgreement
<1>7. ToolAgreement'
  BY <1>2, <1>5 DEF Books, ToolAgreement
<1> QED
  BY <1>3, <1>4, <1>6, <1>7 DEF Books

\* Once Stream has returned, streamState no longer matters.
LEMMA BooksShut ==
  ASSUME Books, ~Relaying', blocks' = blocks
  PROVE  Books'
BY DEF Books, Numbered, Agreement, TextAgreement, ToolAgreement

\* A new block takes the next number; it is the only open text block if it is one.
LEMMA BooksOpened ==
  ASSUME TypeOK, Books, TypeOK', Relaying, hpc # "close", ~textOpen,
         NEW source \in MS!Source,
         blocks' = Opened(nextIndex, source),
         nextIndex' = nextIndex + 1,
         openBlocks' = openBlocks \cup {nextIndex},
         IF source = Text
         THEN textOpen' /\ textIndex' = nextIndex /\ toolBlocks' = toolBlocks
         ELSE /\ ~textOpen' /\ ~Known(source)
              /\ toolBlocks' = [toolBlocks EXCEPT ![source] = nextIndex]
  PROVE  Books'
<1> DEFINE n == Len(blocks)
<1>1. /\ n \in Nat /\ nextIndex = n
      /\ DOMAIN blocks = 1 .. n
      /\ openBlocks \subseteq Nat
      /\ toolBlocks \in [ToolIndex -> Nat \cup {Absent}]
      /\ blocks \in Seq(MS!Block)
  BY LenProperties DEF TypeOK, StateOK, ReplyOK, Books, Agreement
<1>2. /\ DOMAIN blocks' = 1 .. n + 1 /\ Len(blocks') = n + 1
      /\ \A b \in 1 .. n : blocks'[b] = blocks[b]
      /\ blocks'[n + 1].index = n /\ blocks'[n + 1].source = source /\ blocks'[n + 1].open
  <2>1. blocks' \in Seq(MS!Block)
    BY DEF TypeOK, ReplyOK
  <2>2. DOMAIN blocks' = 1 .. Len(blocks')
    BY <2>1
  <2>3. /\ Len(blocks') = n + 1
        /\ \A b \in DOMAIN blocks : blocks'[b] = blocks[b]
        /\ blocks'[n + 1] = [index |-> nextIndex, source |-> source, open |-> TRUE,
                              pieces |-> <<>>]
    <3>1. nextIndex \in Nat /\ blocks \in Seq(MS!Block)
      BY <1>1
    <3>2. /\ Len(Opened(nextIndex, source)) = Len(blocks) + 1
          /\ \A b \in DOMAIN blocks : Opened(nextIndex, source)[b] = blocks[b]
          /\ Opened(nextIndex, source)[Len(blocks) + 1]
               = [index |-> nextIndex, source |-> source, open |-> TRUE, pieces |-> <<>>]
      BY <3>1, OpenedBlocks
    <3> QED
      BY <3>2
  <2>4. blocks'[n + 1].index = n /\ blocks'[n + 1].source = source
    BY <1>1, <2>3
  <2>5. blocks'[n + 1].open
    BY <2>3
  <2> QED
    BY <1>1, <2>2, <2>3, <2>4, <2>5
<1>3. Numbered'
  BY <1>1, <1>2 DEF Books, Numbered
<1>4. /\ \A i \in openBlocks : i < n
      /\ \A b \in 1 .. n : blocks[b].open <=> (b - 1) \in openBlocks
  BY <1>1 DEF Books, Agreement
<1>5. Agreement'
  <2>1. \A b \in 1 .. n + 1 : blocks'[b].open <=> (b - 1) \in openBlocks'
    <3>1. ASSUME NEW b \in 1 .. n PROVE blocks'[b].open <=> (b - 1) \in openBlocks'
      BY <1>1, <1>2, <1>4
    <3>2. (n + 1) - 1 \in openBlocks'
      BY <1>1
    <3> QED
      BY <1>1, <1>2, <3>1, <3>2
  <2> QED
    BY <1>1, <1>2, <1>4, <2>1 DEF Agreement
<1>6. \A b \in 1 .. n : blocks[b].source = Text => ~blocks[b].open
  BY <1>1 DEF Books, TextAgreement
<1>7. TextAgreement'
  BY <1>1, <1>2, <1>6 DEF TextAgreement
<1>8. ToolAgreement'
  <2>1. /\ \A i \in ToolIndex : Known(i) => /\ toolBlocks[i] \in openBlocks
                                            /\ blocks[toolBlocks[i] + 1].source = i
        /\ \A b \in 1 .. n : blocks[b].source # Text => toolBlocks[blocks[b].source] = b - 1
    BY <1>1 DEF Books, ToolAgreement
  <2>2. \A i \in openBlocks : i + 1 \in 1 .. n
    BY <1>1, <1>4
  <2>3. ASSUME NEW b \in 1 .. n PROVE blocks[b].source \in MS!Source
    <3>1. blocks[b] \in MS!Block
      BY <1>1
    <3> QED
      BY <3>1 DEF MS!Block
  <2>4. CASE source = Text
    BY <1>1, <1>2, <2>1, <2>2, <2>4 DEF ToolAgreement, Known
  <2>5. CASE source # Text
    <3>1. source \in ToolIndex /\ toolBlocks'[source] = n
      BY <1>1, <2>5 DEF MS!Source
    <3>2. \A i \in ToolIndex : i # source => toolBlocks'[i] = toolBlocks[i]
      BY <1>1, <2>5
    <3>3. \A b \in 1 .. n : blocks[b].source # source
      BY <1>1, <2>1, <2>5, <3>1 DEF Known, Absent
    <3>4. ASSUME NEW i \in ToolIndex, Known(i)'
          PROVE  toolBlocks'[i] \in openBlocks' /\ blocks'[toolBlocks'[i] + 1].source = i
      <4>1. CASE i = source
        BY <1>1, <1>2, <3>1, <4>1
      <4>2. CASE i # source
        BY <1>1, <1>2, <2>1, <2>2, <3>2, <3>4, <4>2 DEF Known
      <4> QED
        BY <4>1, <4>2
    <3>5. ASSUME NEW b \in 1 .. n + 1, blocks'[b].source # Text
          PROVE  toolBlocks'[blocks'[b].source] = b - 1
      <4>1. CASE b \in 1 .. n
        BY <1>2, <2>1, <2>3, <3>2, <3>3, <3>5, <4>1 DEF MS!Source
      <4>2. CASE b = n + 1
        BY <1>1, <1>2, <3>1, <4>2
      <4> QED
        BY <1>1, <4>1, <4>2
    <3> QED
      BY <1>2, <3>4, <3>5 DEF ToolAgreement
  <2> QED
    BY <2>4, <2>5
<1> QED
  BY <1>3, <1>5, <1>7, <1>8 DEF Books

\* Closing a block takes it off the open ones; when it is the text block, no
\* text is open any more, and when the message is being closed, nothing of
\* streamState but the open blocks is looked at again.
LEMMA BooksStopped ==
  ASSUME TypeOK, Books, TypeOK', Relaying,
         NEW index \in openBlocks,
         blocks' = Stopped(index),
         openBlocks' = openBlocks \ {index},
         UNCHANGED <<nextIndex, textIndex, toolBlocks>>,
         ~textOpen',
         \/ hpc # "close" /\ textOpen /\ index = textIndex
         \/ hpc' = "close"
  PROVE  Books'
<1> DEFINE n == Len(blocks)
<1>1. /\ n \in Nat /\ nextIndex = n
      /\ DOMAIN blocks = 1 .. n
      /\ openBlocks \subseteq Nat
      /\ blocks \in Seq(MS!Block)
      /\ \A b \in 1 .. n : blocks[b].index = b - 1
      /\ \A i \in openBlocks : i < n
      /\ \A b \in 1 .. n : blocks[b].open <=> (b - 1) \in openBlocks
  BY LenProperties DEF TypeOK, StateOK, ReplyOK, Books, Agreement, Numbered
<1>2. /\ DOMAIN blocks' = 1 .. n /\ Len(blocks') = n
      /\ \A b \in 1 .. n : /\ blocks'[b].index = blocks[b].index
                           /\ blocks'[b].source = blocks[b].source
                           /\ blocks'[b].open <=> blocks[b].open /\ b - 1 # index
  <2>1. blocks' \in Seq(MS!Block)
    BY DEF TypeOK, ReplyOK
  <2>2. DOMAIN blocks' = 1 .. Len(blocks')
    BY <2>1
  <2>3. index \in Nat
    BY <1>1
  <2>4. /\ Len(blocks') = n
        /\ \A b \in DOMAIN blocks :
             /\ blocks'[b].index = blocks[b].index
             /\ blocks'[b].source = blocks[b].source
             /\ blocks'[b].open <=> blocks[b].open /\ blocks[b].index # index
    <3>1. blocks \in Seq(MS!Block)
      BY <1>1
    <3>2. /\ Len(Stopped(index)) = Len(blocks)
          /\ \A b \in DOMAIN blocks :
               /\ Stopped(index)[b].index = blocks[b].index
               /\ Stopped(index)[b].source = blocks[b].source
               /\ Stopped(index)[b].open <=> blocks[b].open /\ blocks[b].index # index
      BY <2>3, <3>1, StoppedBlocks
    <3> QED
      BY <3>2
  <2> QED
    BY <1>1, <2>2, <2>4
<1>3. Numbered'
  BY <1>1, <1>2 DEF Numbered
<1>4. Agreement'
  BY <1>1, <1>2 DEF Agreement
<1>5. CASE hpc' = "close"
  BY <1>3, <1>4, <1>5 DEF Books, TextAgreement, ToolAgreement
<1>6. CASE hpc # "close" /\ textOpen /\ index = textIndex
  <2>1. /\ blocks[index + 1].source = Text
        /\ \A b \in 1 .. n : blocks[b].source = Text /\ blocks[b].open => index = b - 1
    BY <1>1, <1>6 DEF Books, TextAgreement
  <2>2. TextAgreement'
    BY <1>1, <1>2, <2>1 DEF TextAgreement
  <2>3. /\ \A i \in ToolIndex : Known(i) => /\ toolBlocks[i] \in openBlocks
                                            /\ blocks[toolBlocks[i] + 1].source = i
        /\ \A b \in 1 .. n : blocks[b].source # Text => toolBlocks[blocks[b].source] = b - 1
    BY <1>1, <1>6 DEF Books, ToolAgreement
  <2>4. ASSUME NEW i \in ToolIndex, Known(i)'
        PROVE  toolBlocks'[i] \in openBlocks' /\ blocks'[toolBlocks'[i] + 1].source = i
    <3>1. Known(i) /\ toolBlocks'[i] = toolBlocks[i]
      BY <2>4 DEF Known
    <3>2. i # Text
      BY RelayAssumption DEF RelayAssumption
    <3>3. toolBlocks[i] # index
      BY <2>1, <2>3, <3>1, <3>2
    <3>4. toolBlocks[i] + 1 \in 1 .. n
      <4>1. toolBlocks[i] \in openBlocks
        BY <2>3, <3>1
      <4>2. toolBlocks[i] \in Nat /\ toolBlocks[i] < n
        BY <1>1, <4>1
      <4> QED
        BY <1>1, <4>2
    <3> QED
      BY <1>2, <2>3, <3>1, <3>3, <3>4
  <2>5. ToolAgreement'
    BY <1>2, <2>3, <2>4 DEF ToolAgreement
  <2> QED
    BY <1>3, <1>4, <2>2, <2>5 DEF Books
<1> QED
  BY <1>5, <1>6

\* Every step keeps the handler's indices and open blocks in agreement with the
\* blocks the client was sent.
LEMMA BooksStep ==
  TypeOK /\ TypeOK' /\ Frame /\ Books /\ [Next]_vars => Books'
<1> SUFFICES ASSUME TypeOK, TypeOK', Frame, Books, [Next]_vars
             PROVE  Books'
  OBVIOUS
<1> DEFINE Still == UNCHANGED <<nextIndex, openBlocks, textIndex, textOpen, toolBlocks, blocks>>
<1>1. ASSUME Still, Relaying' => Relaying /\ (hpc = "close" => hpc' = "close")
      PROVE  Books'
  BY <1>1, BooksKept
<1>2. CASE SendMessageStart
  <2>1. PICK ok \in BOOLEAN : Sends(ok, IF hpc = "start" THEN "relay" ELSE "close")
    BY <1>2 DEF SendMessageStart
  <2>2. hpc \in {"start", "finish"} /\ Still
    BY <1>2 DEF SendMessageStart
  <2> QED
    BY <1>1, <2>1, <2>2, SendsOutcome DEF Relaying
<1>3. CASE OpenText
  <2>1. PICK ok \in BOOLEAN :
          /\ Sends(ok, "relay")
          /\ blocks' = IF Lands(ok) THEN Opened(nextIndex, Text) ELSE blocks
          /\ textOpen' = ok
          /\ textIndex' = IF ok THEN nextIndex ELSE textIndex
    BY <1>3 DEF OpenText
  <2>2. /\ hpc = "relay" /\ ~textOpen /\ Text \in MS!Source
        /\ nextIndex' = nextIndex + 1 /\ openBlocks' = openBlocks \cup {nextIndex}
        /\ toolBlocks' = toolBlocks
    BY <1>3 DEF OpenText, AtFragment, MS!Source
  <2>3. CASE ok
    BY <2>1, <2>2, <2>3, SendsOutcome, BooksOpened DEF Relaying
  <2>4. CASE ~ok
    BY <2>1, <2>2, <2>4, SendsOutcome, BooksShut DEF Relaying
  <2> QED
    BY <2>3, <2>4
<1>4. CASE OpenTool
  <2>1. PICK ok \in BOOLEAN :
          /\ Sends(ok, "relay")
          /\ blocks' = IF Lands(ok) THEN Opened(nextIndex, Call.index) ELSE blocks
          /\ toolBlocks' = IF ok THEN [toolBlocks EXCEPT ![Call.index] = nextIndex]
                                 ELSE toolBlocks
    BY <1>4 DEF OpenTool
  <2>2. /\ hpc = "relay" /\ ~textOpen /\ textOpen' = textOpen /\ ~Known(Call.index)
        /\ Call.index \in ToolIndex
        /\ nextIndex' = nextIndex + 1 /\ openBlocks' = openBlocks \cup {nextIndex}
    BY <1>4, CallIndex DEF OpenTool, AtNewCall, AtFragment, TypeOK
  <2>3. Call.index \in MS!Source /\ Call.index # Text
    BY <2>2, RelayAssumption DEF MS!Source, RelayAssumption
  <2>4. CASE ok
    BY <2>1, <2>2, <2>3, <2>4, SendsOutcome, BooksOpened DEF Relaying
  <2>5. CASE ~ok
    BY <2>1, <2>2, <2>5, SendsOutcome, BooksShut DEF Relaying
  <2> QED
    BY <2>4, <2>5
<1>5. CASE CloseText
  <2>1. PICK ok \in BOOLEAN :
          Sends(ok, "relay") /\ blocks' = IF Lands(ok) THEN Stopped(textIndex) ELSE blocks
    BY <1>5 DEF CloseText
  <2>2. /\ hpc = "relay" /\ textOpen /\ ~textOpen'
        /\ openBlocks' = openBlocks \ {textIndex}
        /\ UNCHANGED <<nextIndex, textIndex, toolBlocks>>
    BY <1>5 DEF CloseText, AtNewCall, AtFragment
  <2>3. textIndex \in openBlocks
    BY <2>2 DEF Books, TextAgreement, Relaying
  <2>4. CASE ok
    BY <2>1, <2>2, <2>3, <2>4, SendsOutcome, BooksStopped DEF Relaying
  <2>5. CASE ~ok
    BY <2>1, <2>2, <2>5, SendsOutcome, BooksShut DEF Relaying
  <2> QED
    BY <2>4, <2>5
<1>6. CASE CloseBlock
  <2>1. PICK index \in openBlocks, ok \in BOOLEAN :
          /\ openBlocks' = openBlocks \ {index}
          /\ Sends(ok, "close")
          /\ blocks' = IF Lands(ok) THEN Stopped(index) ELSE blocks
    BY <1>6 DEF CloseBlock
  <2>2. hpc = "close" /\ ~textOpen' /\ UNCHANGED <<nextIndex, textIndex, toolBlocks>>
    BY <1>6 DEF CloseBlock
  <2>3. CASE ok
    BY <2>1, <2>2, <2>3, SendsOutcome, BooksStopped DEF Relaying
  <2>4. CASE ~ok
    BY <2>1, <2>2, <2>4, SendsOutcome, BooksShut DEF Relaying
  <2> QED
    BY <2>3, <2>4
<1>7. ASSUME hpc = "relay", next \in DOMAIN heard, NEW index \in Nat, NEW ok \in BOOLEAN,
             Sends(ok, "relay"), state' = state,
             blocks' = IF Lands(ok) THEN Extended(index, next) ELSE blocks
      PROVE  Books'
  <2>1. UNCHANGED <<nextIndex, openBlocks, textIndex, textOpen, toolBlocks>>
    BY <1>7 DEF state
  <2>2. CASE ok
    <3>1. blocks' = Extended(index, next)
      BY <1>7, <2>2, SendsOutcome
    <3>2. blocks \in Seq(MS!Block) /\ next \in 1 .. MaxHeard
      BY <1>7, PiecePosition DEF TypeOK, ReplyOK
    <3>3. /\ Len(blocks') = Len(blocks)
          /\ \A b \in DOMAIN blocks : /\ blocks'[b].index = blocks[b].index
                                      /\ blocks'[b].source = blocks[b].source
                                      /\ blocks'[b].open <=> blocks[b].open
      <4>1. /\ Len(Extended(index, next)) = Len(blocks)
            /\ \A b \in DOMAIN blocks :
                 /\ Extended(index, next)[b].index = blocks[b].index
                 /\ Extended(index, next)[b].source = blocks[b].source
                 /\ Extended(index, next)[b].open = blocks[b].open
        BY <3>2, ExtendedBlocks
      <4> QED
        BY <3>1, <4>1
    <3> QED
      BY <1>7, <2>1, <3>3, BooksKept DEF Relaying
  <2>3. CASE ~ok
    BY <1>7, <2>3, SendsOutcome, BooksShut DEF Relaying
  <2> QED
    BY <2>2, <2>3
<1>8. CASE WriteText
  <2>1. textIndex \in Nat
    BY DEF TypeOK, StateOK
  <2> QED
    BY <1>7, <1>8, <2>1 DEF WriteText, AtFragment
<1>9. CASE WriteArguments
  <2>1. Call.index \in ToolIndex
    BY <1>9, CallIndex DEF WriteArguments, AtKnownCall, TypeOK
  <2>2. toolBlocks[Call.index] \in Nat
    BY <1>9, <2>1 DEF WriteArguments, AtKnownCall, Known, TypeOK, StateOK
  <2> QED
    BY <1>7, <1>9, <2>2 DEF WriteArguments, AtKnownCall, AtFragment
<1>10. CASE SendMessageDelta \/ SendMessageStop \/ SendError
  <2>1. Still
    BY <1>10 DEF SendMessageDelta, SendMessageStop, SendError, state
  <2>2. /\ hpc \in {"close", "stop", "fail"}
        /\ \E ok \in BOOLEAN, then \in {"stop", "unwind"} : Sends(ok, then)
    BY <1>10 DEF SendMessageDelta, SendMessageStop, SendError
  <2> QED
    BY <1>1, <2>1, <2>2, SendsOutcome DEF Relaying
<1>11. CASE Computing \/ ReadFails
  <2>1. Still
    BY <1>11 DEF Computing, ReadEnd, RejectCall, SkipArguments, SkipRefusal, NoteFinish, EndChunk,
       StopPings, JoinPinger, CloseWriter, ReadFails, state, reply
  <2>2. Relaying' => Relaying /\ (hpc = "close" => hpc' = "close")
    BY <1>11 DEF Computing, ReadEnd, RejectCall, SkipArguments, SkipRefusal, NoteFinish, EndChunk,
       StopPings, JoinPinger, CloseWriter, ReadFails, AtFragment, AtKnownCall, Relaying
  <2> QED
    BY <1>1, <2>1, <2>2
<1>12. CASE \E chunk \in Chunks : ReadChunk(chunk)
  BY <1>1, <1>12 DEF ReadChunk, state, reply, Relaying
<1>13. CASE \/ \E how \in {"ended", "broken"} : UpstreamEnds(how)
            \/ ClientLeaves \/ ClientStalls \/ ClientResumes
            \/ Pinging \/ UNCHANGED vars
  BY <1>1, <1>13 DEF UpstreamEnds, ClientLeaves, ClientStalls, ClientResumes, ClientTurns,
     Pinging, PingDue, SendPing, PingerStops, vars, state, reply, Relaying
<1> QED
  BY <1>2, <1>3, <1>4, <1>5, <1>6, <1>8, <1>9, <1>10, <1>11, <1>12, <1>13
     DEF Next, Sending, Outside

-----------------------------------------------------------------------------
(* The content of the blocks.                                              *)

\* Content keeps while the blocks keep their sources and pieces.
LEMMA ContentKept ==
  ASSUME Content, UNCHANGED <<heard, next>>,
         DOMAIN blocks' = DOMAIN blocks,
         \A b \in DOMAIN blocks : /\ blocks'[b].source = blocks[b].source
                                  /\ blocks'[b].pieces = blocks[b].pieces
  PROVE  Content'
<1>1. PiecesHandled'
  BY DEF Content, PiecesHandled
<1>2. Faithful'
  BY DEF Content, Faithful
<1>3. Delivered'
  BY DEF Content, Delivered, HasContent
<1> QED
  BY <1>1, <1>2, <1>3 DEF Content

\* A new block has no pieces yet.
LEMMA ContentOpened ==
  ASSUME TypeOK, Content, UNCHANGED <<heard, next>>, TypeOK',
         NEW source \in MS!Source, blocks' = Opened(nextIndex, source)
  PROVE  Content'
<1> DEFINE n == Len(blocks)
<1>1. /\ n \in Nat /\ DOMAIN blocks = 1 .. n
      /\ blocks \in Seq(MS!Block) /\ nextIndex \in Nat
  BY LenProperties DEF TypeOK, StateOK, ReplyOK
<1>2. /\ Len(blocks') = n + 1
      /\ \A b \in DOMAIN blocks : blocks'[b] = blocks[b]
      /\ blocks'[n + 1] = [index |-> nextIndex, source |-> source, open |-> TRUE, pieces |-> <<>>]
  <2>1. /\ Len(Opened(nextIndex, source)) = Len(blocks) + 1
        /\ \A b \in DOMAIN blocks : Opened(nextIndex, source)[b] = blocks[b]
        /\ Opened(nextIndex, source)[Len(blocks) + 1]
             = [index |-> nextIndex, source |-> source, open |-> TRUE, pieces |-> <<>>]
    BY <1>1, OpenedBlocks
  <2> QED
    BY <2>1
<1>3. DOMAIN blocks' = 1 .. n + 1
  <2>1. blocks' \in Seq(MS!Block)
    BY DEF TypeOK, ReplyOK
  <2> QED
    BY <1>2, <2>1
<1>4. blocks'[n + 1].pieces = <<>>
  BY <1>2
<1>5. /\ \A b \in 1 .. n : blocks'[b] = blocks[b]
      /\ \A b \in DOMAIN blocks' : b \in 1 .. n \/ b = n + 1
  BY <1>1, <1>2, <1>3
<1>6. DOMAIN blocks'[n + 1].pieces = {}
  BY <1>4
<1>7. PiecesHandled'
  BY <1>1, <1>5, <1>6 DEF Content, PiecesHandled
<1>8. Faithful'
  BY <1>1, <1>5, <1>6 DEF Content, Faithful
<1>9. Delivered'
  BY <1>1, <1>3, <1>5 DEF Content, Delivered, HasContent
<1> QED
  BY <1>7, <1>8, <1>9 DEF Content

\* Passing a fragment without content, whose call has its block if it is a call.
LEMMA ContentPassed ==
  ASSUME ReaderOK, Content, UNCHANGED <<heard, blocks>>, next' = next + 1,
         next \in DOMAIN heard, ~HasContent(heard[next]),
         heard[next].kind = "call" =>
           \E b \in DOMAIN blocks : blocks[b].source = heard[next].index
  PROVE  Content'
<1>1. /\ next \in Nat /\ DOMAIN heard = 1 .. Len(heard) /\ Len(heard) \in Nat
      /\ \A k \in DOMAIN heard : k < next' <=> k < next \/ k = next
      /\ \A k \in Int : k < next => k < next'
  BY LenProperties DEF ReaderOK
<1>2. PiecesHandled'
  <2>1. \A b \in DOMAIN blocks : \A k \in DOMAIN blocks[b].pieces :
          blocks[b].pieces[k] < next /\ blocks[b].pieces[k] \in DOMAIN heard
    BY DEF Content, PiecesHandled, Faithful
  <2> QED
    BY <1>1, <2>1 DEF PiecesHandled
<1>3. Faithful'
  BY DEF Content, Faithful
<1>4. Delivered'
  BY <1>1 DEF Content, Delivered, HasContent
<1> QED
  BY <1>2, <1>3, <1>4 DEF Content

\* A chunk is heard after all that was dealt with.
LEMMA ContentHeard ==
  ASSUME ReaderOK, Handled, Content, NEW chunk \in Chunks, heard' = heard \o chunk,
         UNCHANGED <<next, blocks>>
  PROVE  Content'
<1>1. /\ next \in Nat /\ DOMAIN heard = 1 .. Len(heard) /\ Len(heard) \in Nat
      /\ heard \in Seq(Fragment)
  BY LenProperties DEF ReaderOK
<1>2. /\ heard' \in Seq(Fragment)
      /\ Len(heard') = Len(heard) + Len(chunk) /\ Len(chunk) \in Nat
      /\ \A k \in DOMAIN heard : heard'[k] = heard[k]
  <2>1. /\ heard \o chunk \in Seq(Fragment)
        /\ Len(heard \o chunk) = Len(heard) + Len(chunk)
        /\ Len(chunk) \in Nat
        /\ \A k \in DOMAIN heard : (heard \o chunk)[k] = heard[k]
    BY <1>1, RelayAssumption, HeardMore
  <2> QED
    BY <2>1
<1>3. DOMAIN heard' = 1 .. Len(heard')
  BY <1>2
<1>4. /\ \A k : k \in DOMAIN heard => k \in DOMAIN heard'
      /\ \A k : k \in DOMAIN heard' /\ k < next => k \in DOMAIN heard
  BY <1>1, <1>2, <1>3 DEF Handled
<1>5. PiecesHandled'
  BY DEF Content, PiecesHandled
<1>6. Faithful'
  BY <1>2, <1>4 DEF Content, Faithful
<1>7. Delivered'
  BY <1>2, <1>4 DEF Content, Delivered, HasContent
<1> QED
  BY <1>5, <1>6, <1>7 DEF Content

\* The fragment at hand is written to the block of its source.
LEMMA ContentExtended ==
  ASSUME TypeOK, Numbered, Content, next \in DOMAIN heard, next' = next + 1, heard' = heard,
         NEW index \in Nat, index < Len(blocks),
         blocks' = Extended(index, next),
         IF blocks[index + 1].source = Text
         THEN heard[next].kind = "text"
         ELSE heard[next].kind = "call" /\ heard[next].index = blocks[index + 1].source
  PROVE  Content'
<1> DEFINE n == Len(blocks)
<1>1. /\ n \in Nat /\ DOMAIN blocks = 1 .. n /\ blocks \in Seq(MS!Block)
      /\ next \in Nat /\ DOMAIN heard = 1 .. Len(heard) /\ Len(heard) \in Nat
      /\ next \in 1 .. MaxHeard
      /\ \A k \in DOMAIN heard : k < next' <=> k < next \/ k = next
      /\ \A b \in 1 .. n : blocks[b].index = b - 1
  BY LenProperties, PiecePosition DEF TypeOK, ReaderOK, ReplyOK, Numbered
<1>2. /\ Len(Extended(index, next)) = Len(blocks)
      /\ Extended(index, next) \in Seq(MS!Block)
      /\ \A b \in DOMAIN blocks :
           /\ Extended(index, next)[b].source = blocks[b].source
           /\ Extended(index, next)[b].pieces =
                IF blocks[b].index = index THEN Append(blocks[b].pieces, next)
                                           ELSE blocks[b].pieces
  <2>1. blocks \in Seq(MS!Block) /\ next \in 1 .. MaxHeard
    BY <1>1
  <2> QED
    BY <2>1, ExtendedBlocks
<1> DEFINE at == index + 1
           old == blocks[at].pieces
<1>3. /\ DOMAIN blocks' = 1 .. n
      /\ at \in 1 .. n
      /\ \A b \in 1 .. n : blocks'[b].source = blocks[b].source
      /\ \A b \in 1 .. n : b # at => blocks'[b].pieces = blocks[b].pieces
      /\ blocks'[at].pieces = Append(old, next)
  <2>1. /\ DOMAIN blocks' = 1 .. n
        /\ \A b \in 1 .. n : blocks'[b].source = blocks[b].source
    <3>1. blocks' \in Seq(MS!Block) /\ Len(blocks') = n
      BY <1>2
    <3>2. DOMAIN blocks' = 1 .. n
      BY <3>1
    <3> QED
      BY <1>1, <1>2, <3>2
  <2>2. at \in 1 .. n /\ \A b \in 1 .. n : blocks[b].index = index <=> b = at
    BY <1>1
  <2>3. \A b \in 1 .. n : b # at => blocks'[b].pieces = blocks[b].pieces
    BY <1>1, <1>2, <2>2
  <2>4. blocks'[at].pieces = Append(old, next)
    BY <1>1, <1>2, <2>2
  <2> QED
    BY <2>1, <2>2, <2>3, <2>4
<1>4. old \in Seq(1 .. MaxHeard)
  <2>1. blocks[at] \in MS!Block
    BY <1>1, <1>3
  <2> QED
    BY <2>1 DEF MS!Block
<1>5. /\ Len(old) \in Nat
      /\ DOMAIN old = 1 .. Len(old)
      /\ DOMAIN blocks'[at].pieces = 1 .. Len(old) + 1
      /\ \A j \in DOMAIN old : blocks'[at].pieces[j] = old[j]
      /\ blocks'[at].pieces[Len(old) + 1] = next
  <2>1. /\ Len(old) \in Nat
        /\ DOMAIN old = 1 .. Len(old)
        /\ Len(Append(old, next)) = Len(old) + 1
        /\ Append(old, next) \in Seq(1 .. MaxHeard)
        /\ \A j \in 1 .. Len(old) : Append(old, next)[j] = old[j]
        /\ Append(old, next)[Len(old) + 1] = next
    BY <1>1, <1>4, AppendProperties, LenProperties
  <2>2. DOMAIN Append(old, next) = 1 .. Len(old) + 1
    BY <2>1, LenProperties
  <2> QED
    BY <1>3, <2>1, <2>2
<1> HIDE DEF n, at, old
<1>6. ASSUME NEW b \in 1 .. n, NEW j \in DOMAIN blocks'[b].pieces
      PROVE  \/ j \in DOMAIN blocks[b].pieces /\ blocks'[b].pieces[j] = blocks[b].pieces[j]
             \/ b = at /\ blocks'[b].pieces[j] = next
  <2>1. CASE b # at
    BY <1>3, <2>1
  <2>2. CASE b = at
    <3>1. j \in DOMAIN old \/ j = Len(old) + 1
      BY <1>5, <1>6, <2>2
    <3> QED
      BY <1>5, <2>2, <3>1 DEF old
  <2> QED
    BY <2>1, <2>2
<1>7. PiecesHandled'
  <2>1. \A b \in DOMAIN blocks : \A k \in DOMAIN blocks[b].pieces :
          blocks[b].pieces[k] < next /\ blocks[b].pieces[k] \in DOMAIN heard
    BY DEF Content, PiecesHandled, Faithful
  <2>2. next < next'
    BY <1>1
  <2>3. \A b \in 1 .. n : \A k \in DOMAIN blocks[b].pieces : blocks[b].pieces[k] < next'
    BY <1>1, <2>1 DEF n
  <2> QED
    BY <1>3, <1>6, <2>2, <2>3 DEF PiecesHandled
<1>8. Faithful'
  <2>1. IF blocks[at].source = Text
        THEN heard[next].kind = "text"
        ELSE heard[next].kind = "call" /\ heard[next].index = blocks[at].source
    BY DEF at
  <2>2. \A b \in 1 .. n : \A k \in DOMAIN blocks[b].pieces :
          /\ blocks[b].pieces[k] \in DOMAIN heard
          /\ IF blocks[b].source = Text
             THEN heard[blocks[b].pieces[k]].kind = "text"
             ELSE heard[blocks[b].pieces[k]].kind = "call"
                    /\ heard[blocks[b].pieces[k]].index = blocks[b].source
    BY <1>1 DEF Content, Faithful, n
  <2> QED
    BY <1>3, <1>6, <2>1, <2>2 DEF Faithful
<1>9. ASSUME NEW k \in DOMAIN heard, k < next'
      PROVE  /\ HasContent(heard[k]) =>
                  \E b \in 1 .. n : \E j \in DOMAIN blocks'[b].pieces : blocks'[b].pieces[j] = k
             /\ heard[k].kind = "call" => \E b \in 1 .. n : blocks'[b].source = heard[k].index
  <2>1. CASE k < next
    <3>1. /\ HasContent(heard[k]) =>
                \E b \in 1 .. n : \E j \in DOMAIN blocks[b].pieces : blocks[b].pieces[j] = k
          /\ heard[k].kind = "call" => \E b \in 1 .. n : blocks[b].source = heard[k].index
      BY <1>1, <2>1 DEF Content, Delivered, n
    <3>2. \A b \in 1 .. n : \A j \in DOMAIN blocks[b].pieces :
            j \in DOMAIN blocks'[b].pieces /\ blocks'[b].pieces[j] = blocks[b].pieces[j]
      <4>1. ASSUME NEW j \in DOMAIN old
            PROVE  j \in DOMAIN blocks'[at].pieces /\ blocks'[at].pieces[j] = old[j]
        BY <1>5
      <4> QED
        BY <1>3, <4>1 DEF old
    <3> QED
      BY <1>3, <3>1, <3>2
  <2>2. CASE k = next
    <3>1. /\ Len(old) + 1 \in DOMAIN blocks'[at].pieces
          /\ blocks'[at].pieces[Len(old) + 1] = k
      BY <1>5, <2>2
    <3>2. HasContent(heard[k]) =>
            \E b \in 1 .. n : \E j \in DOMAIN blocks'[b].pieces : blocks'[b].pieces[j] = k
      BY <1>3, <3>1
    <3>3. heard[k].kind = "call" => blocks'[at].source = heard[k].index
      BY <1>3, <2>2 DEF at
    <3> QED
      BY <1>3, <3>2, <3>3
  <2> QED
    BY <1>1, <1>9, <2>1, <2>2
<1>10. Delivered'
  BY <1>3, <1>9 DEF Delivered, HasContent
<1> QED
  BY <1>7, <1>8, <1>10 DEF Content

\* The block a known call is written to is the block of that call, and it is open.
LEMMA KnownCallBlock ==
  ASSUME TypeOK, Books, AtKnownCall
  PROVE  LET index == toolBlocks[Call.index] IN
           /\ index \in Nat /\ index < Len(blocks)
           /\ index + 1 \in DOMAIN blocks
           /\ blocks[index + 1].source = Call.index
           /\ blocks[index + 1].open
           /\ blocks[index + 1].source # Text
<1>1. Call.index \in ToolIndex /\ hpc = "relay"
  BY CallIndex DEF AtKnownCall, AtFragment, TypeOK
<1>2. /\ toolBlocks[Call.index] \in openBlocks
      /\ blocks[toolBlocks[Call.index] + 1].source = Call.index
  BY <1>1 DEF AtKnownCall, Books, ToolAgreement, Relaying
<1>3. /\ DOMAIN blocks = 1 .. Len(blocks) /\ Len(blocks) \in Nat
      /\ toolBlocks[Call.index] \in Nat
  BY <1>2, LenProperties DEF TypeOK, ReplyOK, StateOK
<1>4. /\ toolBlocks[Call.index] < Len(blocks)
      /\ \A b \in DOMAIN blocks : blocks[b].open <=> (b - 1) \in openBlocks
  BY <1>1, <1>2 DEF Books, Agreement, Relaying
<1>5. Call.index # Text
  BY <1>1, RelayAssumption DEF RelayAssumption
<1>6. (toolBlocks[Call.index] + 1) - 1 = toolBlocks[Call.index]
  BY <1>3
<1>7. toolBlocks[Call.index] + 1 \in DOMAIN blocks
  BY <1>3, <1>4
<1> QED
  BY <1>2, <1>3, <1>4, <1>5, <1>6, <1>7

\* The block text is written to is a text block, and it is open.
LEMMA TextBlock ==
  ASSUME TypeOK, Books, hpc = "relay", textOpen
  PROVE  /\ textIndex \in Nat /\ textIndex < Len(blocks)
         /\ textIndex \in openBlocks
         /\ textIndex + 1 \in DOMAIN blocks
         /\ blocks[textIndex + 1].source = Text
         /\ blocks[textIndex + 1].open
<1>1. textIndex \in openBlocks /\ blocks[textIndex + 1].source = Text
  BY DEF Books, TextAgreement, Relaying
<1>2. /\ DOMAIN blocks = 1 .. Len(blocks) /\ Len(blocks) \in Nat /\ textIndex \in Nat
  BY LenProperties DEF TypeOK, ReplyOK, StateOK
<1>3. /\ textIndex < Len(blocks)
      /\ \A b \in DOMAIN blocks : blocks[b].open <=> (b - 1) \in openBlocks
  BY <1>1 DEF Books, Agreement, Relaying
<1>4. (textIndex + 1) - 1 = textIndex /\ textIndex + 1 \in DOMAIN blocks
  BY <1>2, <1>3
<1> QED
  BY <1>1, <1>2, <1>3, <1>4

\* Stopping a block takes nothing from what the blocks hold.
LEMMA ContentStopped ==
  ASSUME TypeOK, TypeOK', Content, UNCHANGED <<heard, next>>,
         NEW index \in Nat, blocks' = Stopped(index)
  PROVE  Content'
<1>1. blocks \in Seq(MS!Block) /\ blocks' \in Seq(MS!Block)
  BY DEF TypeOK, ReplyOK
<1>2. /\ Len(Stopped(index)) = Len(blocks)
      /\ \A b \in DOMAIN blocks : /\ Stopped(index)[b].source = blocks[b].source
                                  /\ Stopped(index)[b].pieces = blocks[b].pieces
  BY <1>1, StoppedBlocks
<1>3. DOMAIN blocks' = 1 .. Len(blocks') /\ DOMAIN blocks = 1 .. Len(blocks)
  BY <1>1
<1>4. DOMAIN blocks' = DOMAIN blocks
  BY <1>2, <1>3
<1> QED
  BY <1>2, <1>4, ContentKept

\* Every step keeps the fragments that were handled in the blocks of their source.
LEMMA ContentStep ==
  TypeOK /\ TypeOK' /\ Frame /\ Handled /\ Books /\ Content /\ [Next]_vars => Content'
<1> SUFFICES ASSUME TypeOK, TypeOK', Frame, Handled, Books, Content, [Next]_vars
             PROVE  Content'
  OBVIOUS
<1>1. ASSUME UNCHANGED <<heard, next, blocks>>
      PROVE  Content'
  BY <1>1, ContentKept
<1>2. CASE \/ SendMessageStart \/ SendMessageDelta \/ SendMessageStop \/ SendError
  BY <1>1, <1>2 DEF SendMessageStart, SendMessageDelta, SendMessageStop, SendError, reader
<1>3. CASE OpenText
  <2>1. UNCHANGED <<heard, next>> /\ Text \in MS!Source
    BY <1>3 DEF OpenText, reader, MS!Source
  <2>2. blocks' = Opened(nextIndex, Text) \/ blocks' = blocks
    BY <1>3 DEF OpenText
  <2> QED
    BY <1>1, <2>1, <2>2, ContentOpened
<1>4. CASE OpenTool
  <2>1. UNCHANGED <<heard, next>>
    BY <1>4 DEF OpenTool, reader
  <2>2. Call.index \in MS!Source
    BY <1>4, CallIndex DEF OpenTool, AtNewCall, MS!Source, TypeOK
  <2>3. blocks' = Opened(nextIndex, Call.index) \/ blocks' = blocks
    BY <1>4 DEF OpenTool
  <2> QED
    BY <1>1, <2>1, <2>2, <2>3, ContentOpened
<1>5. CASE CloseText
  <2>1. UNCHANGED <<heard, next>> /\ (blocks' = Stopped(textIndex) \/ blocks' = blocks)
    BY <1>5 DEF CloseText, reader
  <2>2. textIndex \in Nat
    BY DEF TypeOK, StateOK
  <2> QED
    BY <1>1, <2>1, <2>2, ContentStopped
<1>6. CASE CloseBlock
  <2>1. PICK index \in openBlocks : blocks' = Stopped(index) \/ blocks' = blocks
    BY <1>6 DEF CloseBlock
  <2>2. UNCHANGED <<heard, next>> /\ index \in Nat
    BY <1>6 DEF CloseBlock, reader, TypeOK, StateOK
  <2> QED
    BY <1>1, <2>1, <2>2, ContentStopped
<1>7. CASE WriteText
  <2>1. PICK ok \in BOOLEAN :
          /\ Sends(ok, "relay")
          /\ blocks' = IF Lands(ok) THEN Extended(textIndex, next) ELSE blocks
          /\ next' = IF ok THEN next + 1 ELSE next
    BY <1>7 DEF WriteText
  <2>2. /\ hpc = "relay" /\ textOpen /\ next \in DOMAIN heard /\ heard[next].kind = "text"
        /\ heard' = heard
    BY <1>7 DEF WriteText, AtFragment
  <2>3. CASE ok
    <3>1. blocks' = Extended(textIndex, next) /\ next' = next + 1
      BY <2>1, <2>2, <2>3, SendsOutcome
    <3>2. textIndex \in Nat /\ textIndex < Len(blocks) /\ blocks[textIndex + 1].source = Text
      BY <2>2, TextBlock
    <3> QED
      BY <2>2, <3>1, <3>2, ContentExtended DEF Books
  <2>4. CASE ~ok
    BY <1>1, <2>1, <2>2, <2>4 DEF Lands
  <2> QED
    BY <2>3, <2>4
<1>8. CASE WriteArguments
  <2>1. PICK ok \in BOOLEAN :
          /\ Sends(ok, "relay")
          /\ blocks' = IF Lands(ok) THEN Extended(toolBlocks[Call.index], next) ELSE blocks
          /\ next' = IF ok THEN next + 1 ELSE next
    BY <1>8 DEF WriteArguments
  <2>2. /\ hpc = "relay" /\ AtKnownCall /\ next \in DOMAIN heard /\ heard[next].kind = "call"
        /\ heard' = heard /\ Call = heard[next]
    BY <1>8 DEF WriteArguments, AtKnownCall, AtFragment, Call
  <2>3. CASE ok
    <3>1. blocks' = Extended(toolBlocks[Call.index], next) /\ next' = next + 1
      BY <2>1, <2>2, <2>3, SendsOutcome
    <3>2. /\ toolBlocks[Call.index] \in Nat /\ toolBlocks[Call.index] < Len(blocks)
          /\ blocks[toolBlocks[Call.index] + 1].source = heard[next].index
          /\ blocks[toolBlocks[Call.index] + 1].source # Text
      BY <2>2, KnownCallBlock
    <3> QED
      BY <2>2, <3>1, <3>2, ContentExtended DEF Books
  <2>4. CASE ~ok
    BY <1>1, <2>1, <2>2, <2>4 DEF Lands
  <2> QED
    BY <2>3, <2>4
<1>9. CASE SkipArguments
  <2>1. /\ AtKnownCall /\ next \in DOMAIN heard /\ ~HasContent(heard[next])
        /\ UNCHANGED <<heard, blocks>> /\ next' = next + 1 /\ Call = heard[next]
    BY <1>9 DEF SkipArguments, AtKnownCall, AtFragment, Call, HasContent, reply
  <2>2. \E b \in DOMAIN blocks : blocks[b].source = heard[next].index
    BY <2>1, KnownCallBlock
  <2> QED
    BY <2>1, <2>2, ContentPassed DEF TypeOK
<1>10. CASE NoteFinish \/ SkipRefusal
  <2>1. /\ next \in DOMAIN heard /\ ~HasContent(heard[next]) /\ heard[next].kind # "call"
        /\ UNCHANGED <<heard, blocks>> /\ next' = next + 1
    BY <1>10 DEF NoteFinish, SkipRefusal, AtFragment, HasContent, reply
  <2> QED
    BY <2>1, ContentPassed DEF TypeOK
<1>11. CASE \/ ReadEnd \/ RejectCall \/ EndChunk \/ StopPings \/ JoinPinger \/ CloseWriter
            \/ ReadFails \/ Pinging \/ UNCHANGED vars
  BY <1>1, <1>11 DEF ReadEnd, RejectCall, EndChunk, StopPings, JoinPinger, CloseWriter,
     ReadFails, Pinging, PingDue, SendPing, PingerStops, vars, reader, reply
<1>12. ASSUME NEW chunk \in Chunks, ReadChunk(chunk)
       PROVE  Content'
  BY <1>12, ContentHeard DEF ReadChunk, reply, TypeOK
<1>13. CASE \/ \E how \in {"ended", "broken"} : UpstreamEnds(how)
            \/ ClientLeaves \/ ClientStalls \/ ClientResumes
  BY <1>1, <1>13 DEF UpstreamEnds, ClientLeaves, ClientStalls, ClientResumes, ClientTurns,
     reader, reply
<1> QED
  BY <1>2, <1>3, <1>4, <1>5, <1>6, <1>7, <1>8, <1>9, <1>10, <1>11, <1>12, <1>13
     DEF Next, Sending, Computing, Outside

-----------------------------------------------------------------------------
(* The theorems.                                                           *)

\* The inductive invariant: streamState, what was read and what was written
\* belong together at every step.
THEOREM Invariant == Spec => []IInv
<1>1. Init => IInv
  <2> SUFFICES ASSUME Init
               PROVE  IInv
    OBVIOUS
  <2>1. TypeOK
    BY InitType
  <2>2. Frame /\ Shutdown
    BY DEF Init, Frame, Shutdown, Relaying, Unwinding
  <2>3. Handled
    BY DEF Init, Handled, Relaying
  <2>4. ReasonKept /\ ReasonTold
    BY DEF Init, ReasonKept, ReasonTold
  <2>5. Numbered /\ Agreement
    BY DEF Init, Numbered, Agreement
  <2>6. TextAgreement
    BY DEF Init, TextAgreement
  <2>7. ToolAgreement
    BY DEF Init, ToolAgreement, Known
  <2>8. Content
    BY DEF Init, Content, PiecesHandled, Faithful, Delivered
  <2> QED
    BY <2>1, <2>2, <2>3, <2>4, <2>5, <2>6, <2>7, <2>8 DEF IInv, Books
<1>2. IInv /\ [Next]_vars => IInv'
  <2> SUFFICES ASSUME IInv, [Next]_vars
               PROVE  IInv'
    OBVIOUS
  <2>1. TypeOK'
    BY TypeStep DEF IInv
  <2> QED
    BY <2>1, FrameStep, HandledStep, ShutdownStep, ReasonKeptStep, ReasonToldStep,
       BooksStep, ContentStep DEF IInv
<1> QED
  BY <1>1, <1>2, PTL DEF Spec

\* Text and the arguments of interleaved calls never end up in a block of
\* another source, however the upstream mixes its fragments.
THEOREM ContentIsFaithful == Spec => []Faithful
<1>1. IInv => Faithful
  BY DEF IInv, Content
<1> QED
  BY <1>1, Invariant, PTL

\* A message that was ended with message_stop lacks no content and no call that
\* the upstream sent: all it can lack is the text of a refusal.
THEOREM MessageIsWhole == Spec => []Whole
<1>1. IInv => Whole
  <2> SUFFICES ASSUME IInv, phase = "stopped", NEW k \in DOMAIN heard
               PROVE  /\ HasContent(heard[k]) =>
                           \E b \in DOMAIN blocks : \E j \in DOMAIN blocks[b].pieces :
                             blocks[b].pieces[j] = k
                      /\ heard[k].kind = "call" =>
                           \E b \in DOMAIN blocks : blocks[b].source = heard[k].index
    BY DEF Whole
  <2>1. DOMAIN heard = 1 .. Len(heard) /\ Len(heard) \in Nat
    BY LenProperties DEF IInv, TypeOK, ReaderOK
  <2>2. next = Len(heard) + 1
    BY DEF IInv, Handled
  <2>3. k < next
    BY <2>1, <2>2
  <2> QED
    BY <2>3 DEF IInv, Content, Delivered
<1> QED
  BY <1>1, Invariant, PTL

\* The client is told the last stop reason the upstream gave, or end_turn.
THEOREM ReasonIsLast == Spec => []ToldLastReason
<1>1. IInv => ToldLastReason
  <2> SUFFICES ASSUME IInv, phase \in {"summed", "stopped"}
               PROVE  told = LastReason
    BY DEF ToldLastReason
  <2> DEFINE given == {k \in DOMAIN heard :
                         heard[k].kind = "finish" /\ Translated(heard[k].reason) # "null"}
             latest == {j \in given : \A i \in given : i <= j}
  <2>1. DOMAIN heard = 1 .. Len(heard) /\ Len(heard) \in Nat /\ next = Len(heard) + 1
    BY LenProperties DEF IInv, TypeOK, ReaderOK, Handled
  <2>2. \A k \in DOMAIN heard : k < next
    BY <2>1
  <2>3. told = {FinalStopReason}
    BY DEF IInv, ReasonTold
  <2>4. LastReason = IF given = {} THEN {"end_turn"}
                     ELSE {Translated(heard[k].reason) : k \in latest}
    BY DEF LastReason
  <2>5. CASE stopReason = "null"
    <3>1. given = {}
      BY <2>2, <2>5 DEF IInv, ReasonKept, Telling
    <3> QED
      BY <2>3, <2>4, <2>5, <3>1 DEF FinalStopReason
  <2>6. CASE stopReason # "null"
    <3>1. PICK n \in DOMAIN heard :
            /\ Telling(n)
            /\ Translated(heard[n].reason) = stopReason
            /\ \A j \in DOMAIN heard : j < next /\ Telling(j) => j <= n
      BY <2>6 DEF IInv, ReasonKept
    <3>2. n \in given /\ \A i \in given : i <= n
      BY <2>2, <3>1 DEF Telling
    <3>3. \A j \in latest : j = n
      BY <2>1, <3>2
    <3>4. latest = {n}
      BY <3>2, <3>3
    <3> HIDE DEF given, latest
    <3>5. LastReason = {Translated(heard[n].reason)}
      BY <2>4, <3>2, <3>4
    <3> QED
      BY <2>3, <2>6, <3>1, <3>5 DEF FinalStopReason
  <2> QED
    BY <2>5, <2>6
<1> QED
  BY <1>1, Invariant, PTL

\* No goroutine of the handler is left to write to a response that is finished.
THEOREM PingerIsJoined == Spec => []PingerJoined
<1>1. IInv => PingerJoined
  BY DEF IInv, Shutdown, PingerJoined
<1> QED
  BY <1>1, Invariant, PTL

\* A client that stayed got a message_stop or an error event, but for a
\* tool call fragment without an index.
THEOREM MessageIsEnded == Spec => []Ended
<1>1. IInv => Ended
  BY DEF IInv, Shutdown, Unwinding, Ended
<1> QED
  BY <1>1, Invariant, PTL

-----------------------------------------------------------------------------
(* The relay implements MessageStream.                                     *)

\* With the blocks numbered, extending by index is extending one element.
LEMMA ExtendedIsExcept ==
  ASSUME blocks \in Seq(MS!Block), Numbered, NEW index \in 0 .. Len(blocks) - 1, NEW piece
  PROVE  Extended(index, piece)
           = [blocks EXCEPT ![MS!At(index)].pieces = Append(@, piece)]
<1>1. /\ blocks = [b \in DOMAIN blocks |-> blocks[b]]
      /\ \A b \in DOMAIN blocks : blocks[b].index = index <=> b = index + 1
      /\ index + 1 \in DOMAIN blocks
  BY LenProperties DEF Numbered
<1>2. [blocks EXCEPT ![MS!At(index)].pieces = Append(@, piece)]
        = [blocks EXCEPT ![index + 1] = Longer(blocks[index + 1], piece)]
  BY DEF MS!At, Longer
<1>3. Extended(index, piece)
        = [b \in DOMAIN blocks |-> IF b = index + 1 THEN Longer(blocks[b], piece) ELSE blocks[b]]
  BY <1>1 DEF Extended
<1>4. [blocks EXCEPT ![index + 1] = Longer(blocks[index + 1], piece)]
        = [b \in DOMAIN blocks |-> IF b = index + 1 THEN Longer(blocks[b], piece) ELSE blocks[b]]
  BY <1>1
<1> QED
  BY <1>2, <1>3, <1>4

\* Likewise stopping by index.
LEMMA StoppedIsExcept ==
  ASSUME blocks \in Seq(MS!Block), Numbered, NEW index \in 0 .. Len(blocks) - 1
  PROVE  Stopped(index) = [blocks EXCEPT ![MS!At(index)].open = FALSE]
<1>1. /\ blocks = [b \in DOMAIN blocks |-> blocks[b]]
      /\ \A b \in DOMAIN blocks : blocks[b].index = index <=> b = index + 1
      /\ index + 1 \in DOMAIN blocks
  BY LenProperties DEF Numbered
<1>2. [blocks EXCEPT ![MS!At(index)].open = FALSE]
        = [blocks EXCEPT ![index + 1] = Shut(blocks[index + 1])]
  BY DEF MS!At, Shut
<1>3. Stopped(index)
        = [b \in DOMAIN blocks |-> IF b = index + 1 THEN Shut(blocks[b]) ELSE blocks[b]]
  BY <1>1 DEF Stopped
<1>4. [blocks EXCEPT ![index + 1] = Shut(blocks[index + 1])]
        = [b \in DOMAIN blocks |-> IF b = index + 1 THEN Shut(blocks[b]) ELSE blocks[b]]
  BY <1>1
<1> QED
  BY <1>2, <1>3, <1>4

\* Every step of the relay is a step of the message, or none of its business.
LEMMA StreamStep == IInv /\ [Next]_vars => [MS!Next]_MS!vars
<1> SUFFICES ASSUME IInv, [Next]_vars
             PROVE  [MS!Next]_MS!vars
  OBVIOUS
<1>t. /\ TypeOK /\ Frame /\ Books /\ PiecesHandled /\ Numbered
      /\ blocks \in Seq(MS!Block)
      /\ DOMAIN blocks = 1 .. Len(blocks) /\ Len(blocks) \in Nat
  BY LenProperties DEF IInv, TypeOK, ReplyOK, Books, Content
<1>1. ASSUME UNCHANGED reply
      PROVE  [MS!Next]_MS!vars
  BY <1>1 DEF MS!vars, reply
<1>2. CASE SendMessageStart
  <2>1. UNCHANGED reply \/ (phase' = "open" /\ UNCHANGED <<blocks, told>>)
    BY <1>2 DEF SendMessageStart, reply
  <2>2. phase = "idle"
    BY <1>2, <1>t DEF SendMessageStart, Frame, Relaying
  <2> QED
    BY <1>1, <2>1, <2>2 DEF MS!Next, MS!MessageStart
<1>3. ASSUME hpc = "relay", ~textOpen, UNCHANGED <<phase, told>>,
             NEW source \in MS!Source,
             source # Text => source \in ToolIndex /\ ~Known(source),
             blocks' = Opened(nextIndex, source)
      PROVE  MS!BlockStart(source)
  <2>1. phase = "open" /\ nextIndex = Len(blocks)
    BY <1>3, <1>t DEF Frame, Relaying, Books, Agreement
  <2>2. \A i \in DOMAIN blocks : blocks[i].open => blocks[i].source # Text
    BY <1>3, <1>t DEF Books, TextAgreement, Relaying
  <2>3. ASSUME source # Text, NEW i \in DOMAIN blocks
        PROVE  blocks[i].source # source
    <3>1. blocks[i].source # Text => toolBlocks[blocks[i].source] = i - 1
      BY <1>3, <1>t, <2>3 DEF Books, ToolAgreement, Relaying
    <3>2. toolBlocks[source] = Absent /\ i - 1 # Absent
      BY <1>3, <1>t, <2>3 DEF Known, Absent
    <3> QED
      BY <2>3, <3>1, <3>2
  <2> QED
    BY <1>3, <2>1, <2>2, <2>3 DEF MS!BlockStart, Opened
<1>4. CASE OpenText
  <2>1. /\ hpc = "relay" /\ ~textOpen /\ UNCHANGED <<phase, told>>
        /\ Text \in MS!Source
        /\ blocks' = Opened(nextIndex, Text) \/ blocks' = blocks
    BY <1>4 DEF OpenText, AtFragment, MS!Source
  <2> QED
    BY <1>1, <1>3, <2>1 DEF MS!Next, reply
<1>5. CASE OpenTool
  <2>1. /\ hpc = "relay" /\ ~textOpen /\ UNCHANGED <<phase, told>>
        /\ Call.index \in ToolIndex /\ ~Known(Call.index)
        /\ blocks' = Opened(nextIndex, Call.index) \/ blocks' = blocks
    BY <1>5, <1>t, CallIndex DEF OpenTool, AtNewCall, AtFragment, TypeOK
  <2>2. Call.index \in MS!Source
    BY <2>1 DEF MS!Source
  <2> QED
    BY <1>1, <1>3, <2>1, <2>2 DEF MS!Next, reply
<1>6. ASSUME hpc = "relay", next \in DOMAIN heard, UNCHANGED <<phase, told>>,
             NEW index \in Nat, index < Len(blocks), blocks[index + 1].open,
             blocks' = Extended(index, next)
      PROVE  [MS!Next]_MS!vars
  <2>1. index \in MS!Indices /\ next \in 1 .. MaxHeard
    BY <1>6, <1>t, PiecePosition DEF MS!Indices, TypeOK
  <2>2. blocks' = [blocks EXCEPT ![MS!At(index)].pieces = Append(@, next)]
    BY <1>6, <1>t, <2>1, ExtendedIsExcept DEF MS!Indices
  <2>3. phase = "open"
    BY <1>6, <1>t DEF Frame, Relaying
  <2>4. MS!BlockDelta(index, next)
    BY <1>6, <1>t, <2>1, <2>2, <2>3 DEF MS!BlockDelta, PiecesHandled, MS!At
  <2> QED
    BY <2>1, <2>4 DEF MS!Next
<1>7. CASE WriteText
  <2>1. /\ hpc = "relay" /\ textOpen /\ next \in DOMAIN heard /\ UNCHANGED <<phase, told>>
        /\ blocks' = Extended(textIndex, next) \/ blocks' = blocks
    BY <1>7 DEF WriteText, AtFragment
  <2>2. textIndex \in Nat /\ textIndex < Len(blocks) /\ blocks[textIndex + 1].open
    BY <1>t, <2>1, TextBlock
  <2> QED
    BY <1>1, <1>6, <2>1, <2>2 DEF reply
<1>8. CASE WriteArguments
  <2>1. /\ AtKnownCall /\ hpc = "relay" /\ next \in DOMAIN heard /\ UNCHANGED <<phase, told>>
        /\ blocks' = Extended(toolBlocks[Call.index], next) \/ blocks' = blocks
    BY <1>8 DEF WriteArguments, AtKnownCall, AtFragment
  <2>2. /\ toolBlocks[Call.index] \in Nat /\ toolBlocks[Call.index] < Len(blocks)
        /\ blocks[toolBlocks[Call.index] + 1].open
    BY <1>t, <2>1, KnownCallBlock
  <2> QED
    BY <1>1, <1>6, <2>1, <2>2 DEF reply
<1>9. ASSUME hpc \in {"relay", "close"}, UNCHANGED <<phase, told>>,
             NEW index \in openBlocks, blocks' = Stopped(index)
      PROVE  [MS!Next]_MS!vars
  <2>1. /\ phase = "open" /\ index < Len(blocks)
        /\ \A b \in DOMAIN blocks : blocks[b].open <=> (b - 1) \in openBlocks
    BY <1>9, <1>t DEF Frame, Relaying, Books, Agreement
  <2>2. index \in Nat
    BY <1>t, <1>9 DEF TypeOK, StateOK
  <2>3. index \in MS!Indices /\ index + 1 \in DOMAIN blocks /\ (index + 1) - 1 = index
    BY <1>t, <2>1, <2>2 DEF MS!Indices
  <2>4. blocks' = [blocks EXCEPT ![MS!At(index)].open = FALSE]
    BY <1>9, <1>t, <2>3, StoppedIsExcept DEF MS!Indices
  <2>5. blocks[MS!At(index)].open
    BY <1>9, <2>1, <2>3 DEF MS!At
  <2>6. MS!BlockStop(index)
    BY <1>9, <2>1, <2>4, <2>5 DEF MS!BlockStop
  <2> QED
    BY <2>3, <2>6 DEF MS!Next
<1>10. CASE CloseText
  <2>1. /\ hpc = "relay" /\ textOpen /\ UNCHANGED <<phase, told>>
        /\ blocks' = Stopped(textIndex) \/ blocks' = blocks
    BY <1>10 DEF CloseText, AtNewCall, AtFragment
  <2>2. textIndex \in openBlocks
    BY <1>t, <2>1, TextBlock
  <2> QED
    BY <1>1, <1>9, <2>1, <2>2 DEF reply
<1>11. CASE CloseBlock
  <2>1. /\ hpc = "close" /\ UNCHANGED <<phase, told>>
        /\ \E index \in openBlocks : blocks' = Stopped(index) \/ blocks' = blocks
    BY <1>11 DEF CloseBlock
  <2> QED
    BY <1>1, <1>9, <2>1 DEF reply
<1>12. CASE SendMessageDelta
  <2>1. \/ UNCHANGED reply
        \/ phase' = "summed" /\ told' = {FinalStopReason} /\ UNCHANGED blocks
    BY <1>12 DEF SendMessageDelta, reply
  <2>2. phase = "open" /\ \A i \in DOMAIN blocks : ~blocks[i].open
    BY <1>12, <1>t DEF SendMessageDelta, Frame, Relaying, Books, Agreement
  <2>3. FinalStopReason \in StopReason
    BY <1>t DEF TypeOK, StateOK, FinalStopReason, StopReason
  <2> QED
    BY <1>1, <2>1, <2>2, <2>3 DEF MS!Next, MS!MessageDelta
<1>13. CASE SendMessageStop
  <2>1. UNCHANGED reply \/ (phase' = "stopped" /\ UNCHANGED <<blocks, told>>)
    BY <1>13 DEF SendMessageStop, reply
  <2>2. phase = "summed"
    BY <1>13, <1>t DEF SendMessageStop, Frame
  <2> QED
    BY <1>1, <2>1, <2>2 DEF MS!Next, MS!MessageStop
<1>14. CASE SendError
  <2>1. UNCHANGED reply \/ (phase' = "failed" /\ UNCHANGED <<blocks, told>>)
    BY <1>14 DEF SendError, reply
  <2>2. phase \in {"idle", "open"}
    BY <1>14, <1>t DEF SendError, Frame
  <2> QED
    BY <1>1, <2>1, <2>2 DEF MS!Next, MS!Error
<1>15. CASE Computing \/ ReadFails \/ Pinging \/ Outside \/ UNCHANGED vars
  BY <1>1, <1>15 DEF Computing, ReadEnd, RejectCall, SkipArguments, SkipRefusal, NoteFinish, EndChunk,
     StopPings, JoinPinger, CloseWriter, ReadFails, Pinging, PingDue, SendPing, PingerStops,
     Outside, ReadChunk, UpstreamEnds, ClientLeaves, ClientStalls, ClientResumes,
     ClientTurns, vars
<1> QED
  BY <1>2, <1>4, <1>5, <1>7, <1>8, <1>10, <1>11, <1>12, <1>13, <1>14, <1>15
     DEF Next, Sending

\* What the client is sent is a well-formed message in progress, for every
\* upstream and whenever the client leaves.
THEOREM StreamImplementsMessage == Spec => WellFormed
<1>1. Init => MS!Init
  BY DEF Init, MS!Init
<1> QED
  BY <1>1, StreamStep, Invariant, PTL DEF Spec, MS!Spec, WellFormed
=============================================================================
