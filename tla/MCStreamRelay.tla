---------------------------- MODULE MCStreamRelay ----------------------------
(* Small upstreams for TLC: two calls, text, and the ways chunks mix them.   *)
EXTENDS StreamRelay

T == [kind |-> "text"]
R == [kind |-> "refusal"]
C(index, args) == [kind |-> "call", index |-> index, args |-> args]
F(reason) == [kind |-> "finish", reason |-> reason]

\* Text; a call that opens without arguments; arguments; a chunk that carries
\* text and a call; one that carries two calls; reasons known and unknown;
\* a refusal; a chunk without choices.
MCChunks ==
  {<<>>, <<T>>, <<F("tool_calls")>>, <<F("other")>>, <<R>>, <<C(NoIndex, TRUE)>>}
    \cup {<<C(i, a)>> : i \in ToolIndex, a \in BOOLEAN}
    \cup {<<T, C(i, TRUE), F("stop")>> : i \in ToolIndex}
    \cup {<<C(i, TRUE), C(j, TRUE)>> : i, j \in ToolIndex}
=============================================================================
