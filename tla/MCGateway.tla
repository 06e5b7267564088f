------------------------------ MODULE MCGateway ------------------------------
(* Two providers, and model ids with and without a prefix of theirs.         *)
EXTENDS Gateway

MCSegment == {"", "claude", "openai", "groq", "gpt", "5"}
MCPlain == MCSegment \ {""}
MCReserved == {"claude"}
MCConfig == <<<<"openai">>, <<"groq">>>>
MCModelIDs ==
  {<<"claude", "5">>, <<"openai", "gpt", "5">>, <<"groq", "openai">>, <<"openai", "">>, <<"gpt">>}
MCInterim == {103}
MCCodes == {200, 429, 529}
=============================================================================
