--------------------------- MODULE MCModelsListing ---------------------------
(* Two providers whose models' names have separators of their own, and files *)
(* that Validate refuses.                                                    *)
EXTENDS ModelsListing

MCSegment == {"", "claude", "openai", "groq", "gpt", "5"}
MCPlain == MCSegment \ {""}
MCReserved == {"claude"}

MCConfigs ==
  {<<>>, <<<<"openai">>>>, <<<<"openai">>, <<"groq">>>>, <<<<"groq">>, <<"openai">>>>,
   <<<<"claude">>>>, <<<<"openai">>, <<"openai">>>>, <<<<"gpt", "5">>, <<"openai">>>>, <<<<"">>>>}

MCCatalogs ==
  {<<>>, <<<<"gpt", "5">>, <<"gpt">>>>, <<<<"openai", "gpt">>>>, <<<<"">>, <<"", "groq">>>>}

MCFromAPI == {<<>>, <<<<"claude", "5">>, <<"claude">>>>}
=============================================================================
