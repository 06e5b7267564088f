---------------------------- MODULE MCUsageScanner ----------------------------
(* Every text tells something of its own length and of its last byte, so that *)
(* a text cut short, joined or skipped shows.                                 *)
EXTENDS UsageScanner

MCPayload(text) ==
  [tokens |-> Len(text), reason |-> IF text = <<>> THEN None ELSE text[Len(text)]]
=============================================================================
