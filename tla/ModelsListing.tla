---------------------------- MODULE ModelsListing ----------------------------
(***************************************************************************)
(* GET /v1/models: the handler asks every provider at once and joins what  *)
(* they answer.                                                            *)
(*                                                                         *)
(*   server/server.go                  handleModels                        *)
(*   cli/serve.go                      serve, build: which providers       *)
(*   provider/openaicompat/models.go   Models                              *)
(*   provider/anthropicpass/models.go  Models                              *)
(*                                                                         *)
(* Each provider is asked by a goroutine of its own, which writes to its   *)
(* own element of lists or errs.  All share one context, which ends after  *)
(* modelsTimeout or when the client leaves.                                *)
(***************************************************************************)
EXTENDS Router

CONSTANTS
  Configs,    \* the provider ids a configuration file may name
  Catalogs,   \* the lists of model names an upstream may have
  FromAPI     \* the lists the Anthropic API may have

ASSUME ListingAssumption ==
  /\ Configs \subseteq Seq(String)
  /\ Catalogs \subseteq Seq(String)
  /\ FromAPI \subseteq Seq({id \in String : Head(id) \in Reserved})

VARIABLES
  ids,       \* the provider ids of the configuration file
  hpc,       \* where serve, and then the handler, is
  context,   \* the context the providers are asked in: "live" or "done"
  asking,    \* the goroutines that have not called wg.Done
  lists,     \* the answers, element 0 that of the fallback
  errs,      \* the goroutines that noted an error
  next,      \* the list that is joined next
  models,    \* the lists before it, one behind the other
  reply      \* what the client is sent: None, an error or a list

join == <<next, models>>
vars == <<ids, hpc, context, asking, lists, errs, join, reply>>

NoReply == [kind |-> "none"]
Failure == [kind |-> "error"]
Listing(entries) == [kind |-> "list", models |-> entries]

\* The fallback comes first, then the providers in the order of the file.
Asked == 0 .. Len(ids)

Init ==
  /\ ids \in Configs
  /\ hpc = "load"
  /\ context = "live"
  /\ asking = {}
  /\ lists = [i \in Asked |-> <<>>]
  /\ errs = {}
  /\ next = 0
  /\ models = <<>>
  /\ reply = NoReply

\* A file that does not validate stops sitka before it listens.
Load ==
  /\ hpc = "load"
  /\ hpc' = IF Validate(ids) /\ New(ids) THEN "serve" ELSE "refused"
  /\ UNCHANGED <<ids, context, asking, lists, errs, join, reply>>

\* A listing is requested; the context's time starts and the goroutines do.
Start ==
  /\ hpc = "serve"
  /\ hpc' = "wait"
  /\ asking' = Asked
  /\ UNCHANGED <<ids, context, lists, errs, join, reply>>

\* The ids a provider gives its models, and the entries they stand for.
Entry(i, model) ==
  [id       |-> IF i = 0 THEN model ELSE ListedAs(ids[i], model),
   provider |-> IF i = 0 THEN Fallback ELSE ids[i],
   model    |-> model]

Answers(i, names) ==
  /\ i \in asking
  /\ lists' = [lists EXCEPT ![i] = [k \in DOMAIN names |-> Entry(i, names[k])]]
  /\ asking' = asking \ {i}
  /\ UNCHANGED <<ids, hpc, context, errs, join, reply>>

\* Slip: the call does not get the handler's context.
FailsAlone(i) ==
  /\ i \in asking
  /\ context = "live"
  /\ errs' = errs \cup {i}
  /\ asking' = asking \ {i}
  /\ UNCHANGED <<ids, hpc, context, lists, join, reply>>

\* The upstream is not reached, refuses, or says what cannot be decoded; or the
\* context ended first.
Fails(i) ==
  /\ i \in asking
  /\ errs' = errs \cup {i}
  /\ asking' = asking \ {i}
  /\ UNCHANGED <<ids, hpc, context, lists, join, reply>>

\* modelsTimeout passes, or the client leaves.
Expire ==
  /\ hpc = "wait"
  /\ context = "live"
  /\ context' = "done"
  /\ UNCHANGED <<ids, hpc, asking, lists, errs, join, reply>>

\* Slip: the handler does not wait for the goroutines.
GatherEarly ==
  /\ hpc = "wait"
  /\ IF errs = {} THEN hpc' = "join" /\ UNCHANGED reply
                  ELSE hpc' = "replied" /\ reply' = Failure
  /\ UNCHANGED <<ids, context, asking, lists, errs, join>>

\* wg.Wait returns; one error is enough for an error reply.
Gather ==
  /\ hpc = "wait"
  /\ asking = {}
  /\ IF errs = {} THEN hpc' = "join" /\ UNCHANGED reply
                  ELSE hpc' = "replied" /\ reply' = Failure
  /\ UNCHANGED <<ids, context, asking, lists, errs, join>>

\* One turn of the loop over lists.
Join ==
  /\ hpc = "join"
  /\ next \in Asked
  /\ models' = models \o lists[next]
  /\ next' = next + 1
  /\ UNCHANGED <<ids, hpc, context, asking, lists, errs, reply>>

Reply ==
  /\ hpc = "join"
  /\ next \notin Asked
  /\ hpc' = "replied"
  /\ reply' = Listing(models)
  /\ UNCHANGED <<ids, context, asking, lists, errs, join>>

Next ==
  \/ Load
  \/ Start
  \/ \E i \in asking :
       \/ \E names \in IF i = 0 THEN FromAPI ELSE Catalogs : Answers(i, names)
       \/ Fails(i)
  \/ Expire
  \/ Gather
  \/ Join
  \/ Reply

Spec == Init /\ [][Next]_vars

(***************************************************************************)
(* A call whose context is done fails, if its answer is not there yet: a   *)
(* goroutine does not stay in it.  While the context lives, an upstream    *)
(* owes no answer, but the context does not live for ever.                 *)
(***************************************************************************)
FairSpec ==
  /\ Spec
  /\ WF_vars(\E i \in asking : context = "done" /\ Fails(i))
  /\ WF_vars(Expire)
  /\ WF_vars(Gather \/ Join \/ Reply)

-----------------------------------------------------------------------------
(* Properties.                                                             *)

\* Every id of a listing reaches the provider it was listed for, under the name
\* its upstream listed: a client can use what it is shown.
ListedIdsRoute ==
  reply.kind = "list" =>
    \A k \in DOMAIN reply.models :
      LET entry == reply.models[k] IN
        entry.model # EmptyString =>
          Route(ids, entry.id) = [provider |-> entry.provider, model |-> entry.model]

\* A listing shows all there is and nothing else, each provider's models behind
\* those of the provider before it in the file, in whatever order the answers
\* came; no goroutine is left that could still write to it.
ListingIsWhole ==
  hpc = "replied" =>
    /\ asking = {}
    /\ reply.kind = "list" <=> errs = {}
    /\ reply.kind = "list" =>
         \A i, j \in Asked : \A m \in DOMAIN lists[i] : \A n \in DOMAIN lists[j] :
           \E k, l \in DOMAIN reply.models :
             /\ reply.models[k] = lists[i][m]
             /\ reply.models[l] = lists[j][n]
             /\ i < j => k < l
    /\ reply.kind = "list" =>
         \A k \in DOMAIN reply.models :
           \E i \in Asked : \E m \in DOMAIN lists[i] : reply.models[k] = lists[i][m]

\* "a slow upstream must not hold the response open": a request is answered
\* though no upstream ever answers.
Answered == hpc = "wait" ~> hpc = "replied"
=============================================================================
