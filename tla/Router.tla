-------------------------------- MODULE Router --------------------------------
(***************************************************************************)
(* Which provider serves a model id, and which configurations there are.   *)
(*                                                                         *)
(*   config/validate.go   Provider.validateID                              *)
(*   router/router.go     New, Route                                       *)
(*   provider/openaicompat/models.go   the id a model is listed under      *)
(*                                                                         *)
(* A string is the sequence of its segments, which "-" separates; "a--b"   *)
(* has an empty one in the middle, "" is the sequence of one empty one.    *)
(* Joining two strings with "-" is concatenation.                          *)
(***************************************************************************)
EXTENDS Integers, Sequences

CONSTANTS
  Segment,    \* the strings without "-"
  Empty,      \* the empty string
  Plain,      \* those that match providerIDPattern
  Reserved,   \* reservedProviderIDs
  Fallback    \* the Anthropic passthrough

ASSUME RouterAssumption ==
  /\ Empty \in Segment
  /\ Plain \subseteq Segment \ {Empty}
  /\ Reserved \subseteq Plain

String == Seq(Segment) \ {<<>>}

EmptyString == <<Empty>>

-----------------------------------------------------------------------------

\* validateID of every provider, one after the other: an id that is not well
\* formed does not take its name.
WellFormedID(id) == \E s \in Plain \ Reserved : id = <<s>>

Validate(ids) ==
  \A i \in DOMAIN ids :
    /\ WellFormedID(ids[i])
    /\ \A j \in 1 .. i - 1 : ids[j] # ids[i]

\* New refuses an empty name and one that an earlier provider has.
New(ids) ==
  \A i \in DOMAIN ids :
    /\ ids[i] # EmptyString
    /\ \A j \in 1 .. i - 1 : ids[j] # ids[i]

ByPrefix(ids) == {ids[i] : i \in DOMAIN ids}

\* Slip: the model id is cut at its last separator.
RouteByLast(ids, modelID) ==
  LET prefix == SubSeq(modelID, 1, Len(modelID) - 1)
      rest   == <<modelID[Len(modelID)]>>
  IN IF /\ Len(modelID) > 1
        /\ rest # EmptyString
        /\ prefix \in ByPrefix(ids)
     THEN [provider |-> prefix, model |-> rest]
     ELSE [provider |-> Fallback, model |-> modelID]

\* Cut at the first separator; a model id with nothing behind it stays whole.
Route(ids, modelID) ==
  IF /\ Len(modelID) > 1
     /\ Tail(modelID) # EmptyString
     /\ <<Head(modelID)>> \in ByPrefix(ids)
  THEN [provider |-> <<Head(modelID)>>, model |-> Tail(modelID)]
  ELSE [provider |-> Fallback, model |-> modelID]

\* What a provider lists a model of its upstream under.
ListedAs(id, model) == id \o model
=============================================================================
