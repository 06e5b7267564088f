---------------------------- MODULE MessageStream ----------------------------
(***************************************************************************)
(* What a streamed reply promises to a client of the Anthropic Messages    *)
(* API, whatever produces it: the message opens once, content blocks are   *)
(* numbered from zero without a gap, a delta goes to a block that is open, *)
(* every block is closed before the message reports its stop reason, and   *)
(* nothing follows message_stop or an error.                               *)
(*                                                                         *)
(* The state is what a client has put together from the events it read.    *)
(* A piece of content is its position in the upstream reply, a number: the *)
(* pieces of the whole message arrive in the order the model made them.    *)
(*                                                                         *)
(* An open text block is always the last block.  A tool_use block may stay *)
(* open beside the blocks opened after it, because an upstream may go on   *)
(* filling several calls at once.                                          *)
(***************************************************************************)
EXTENDS Integers, Sequences

CONSTANTS
  Text,        \* the source of a text block
  ToolIndex,   \* the sources of tool_use blocks: the upstream's call indices
  StopReason,  \* the stop reasons of the Messages API
  Piece        \* the positions a piece of content can have upstream

VARIABLES
  phase,       \* how far the message has come
  blocks,      \* the content blocks, in the order of their index
  told         \* the set of stop reasons the client has been told

vars == <<phase, blocks, told>>

Phase == {"idle", "open", "summed", "stopped", "failed"}

Source == {Text} \cup ToolIndex

Block == [index : Nat, source : Source, open : BOOLEAN, pieces : Seq(Piece)]

\* The first index is 0, the first element of a TLA+ sequence is 1.
At(index) == index + 1

Indices == 0 .. Len(blocks) - 1

-----------------------------------------------------------------------------

Init ==
  /\ phase = "idle"
  /\ blocks = <<>>
  /\ told = {}

MessageStart ==
  /\ phase = "idle"
  /\ phase' = "open"
  /\ UNCHANGED <<blocks, told>>

BlockStart(source) ==
  /\ phase = "open"
  /\ \A i \in DOMAIN blocks : blocks[i].open => blocks[i].source # Text
  /\ source # Text => \A i \in DOMAIN blocks : blocks[i].source # source
  /\ blocks' = Append(blocks, [index |-> Len(blocks), source |-> source,
                              open |-> TRUE, pieces |-> <<>>])
  /\ UNCHANGED <<phase, told>>

BlockDelta(index, piece) ==
  /\ phase = "open"
  /\ blocks[At(index)].open
  /\ \A i \in DOMAIN blocks :
       \A k \in DOMAIN blocks[i].pieces : blocks[i].pieces[k] < piece
  /\ blocks' = [blocks EXCEPT ![At(index)].pieces = Append(@, piece)]
  /\ UNCHANGED <<phase, told>>

BlockStop(index) ==
  /\ phase = "open"
  /\ blocks[At(index)].open
  /\ blocks' = [blocks EXCEPT ![At(index)].open = FALSE]
  /\ UNCHANGED <<phase, told>>

MessageDelta(reason) ==
  /\ phase = "open"
  /\ \A i \in DOMAIN blocks : ~blocks[i].open
  /\ phase' = "summed"
  /\ told' = {reason}
  /\ UNCHANGED blocks

MessageStop ==
  /\ phase = "summed"
  /\ phase' = "stopped"
  /\ UNCHANGED <<blocks, told>>

Error ==
  /\ phase \in {"idle", "open"}
  /\ phase' = "failed"
  /\ UNCHANGED <<blocks, told>>

Next ==
  \/ MessageStart
  \/ \E source \in Source : BlockStart(source)
  \/ \E index \in Indices, piece \in Piece : BlockDelta(index, piece)
  \/ \E index \in Indices : BlockStop(index)
  \/ \E reason \in StopReason : MessageDelta(reason)
  \/ MessageStop
  \/ Error

Spec == Init /\ [][Next]_vars
=============================================================================
