------------------------- MODULE ModelsListingProofs -------------------------
(***************************************************************************)
(* Routing undoes listing, for every configuration that is accepted, and so *)
(* what is listed can be used; a listing is whole in whatever order the    *)
(* providers answer.                                                       *)
(***************************************************************************)
EXTENDS ModelsListing, SequenceTheorems, TLAPS

-----------------------------------------------------------------------------
(* Routing.                                                                *)

\* A configuration that Validate accepts is one New builds a router from: serve
\* never fails on the ids of a file that was loaded.
THEOREM ValidIsBuilt ==
  ASSUME NEW configured \in Seq(String), Validate(configured)
  PROVE  New(configured)
  BY RouterAssumption DEF RouterAssumption, Validate, New, WellFormedID, EmptyString

\* A model id that a provider lists reaches that provider, which hands on to its
\* upstream the name the upstream listed, whatever "-" that name contains.
THEOREM RouteUndoesListing ==
  ASSUME NEW configured \in Seq(String), Validate(configured),
         NEW i \in DOMAIN configured,
         NEW model \in String, model # EmptyString
  PROVE  Route(configured, ListedAs(configured[i], model)) = [provider |-> configured[i], model |-> model]
<1>1. PICK s \in Plain \ Reserved : configured[i] = <<s>>
  BY DEF Validate, WellFormedID
<1>2. s \in Segment /\ model \in Seq(Segment) /\ model # <<>>
  BY RouterAssumption DEF RouterAssumption, String
<1> DEFINE listed == <<s>> \o model
<1>3. ListedAs(configured[i], model) = listed
  BY <1>1 DEF ListedAs
<1>4. /\ Len(listed) > 1
      /\ Head(listed) = s
      /\ Tail(listed) = model
  <2>1. Len(model) > 0 /\ Len(model) \in Nat
    BY <1>2
  <2>2. listed \in Seq(Segment) /\ Len(listed) = 1 + Len(model)
    BY <1>2
  <2>3. Head(listed) = s
    BY <1>2, <2>1, <2>2
  <2>4. Tail(listed) = model
    <3>1. Tail(listed) \in Seq(Segment) /\ Len(Tail(listed)) = Len(model)
      BY <1>2, <2>1, <2>2
    <3>2. \A k \in 1 .. Len(model) : Tail(listed)[k] = model[k]
      BY <1>2, <2>1, <2>2
    <3> HIDE DEF listed
    <3> QED
      BY <1>2, <3>1, <3>2, SeqEqual
  <2> QED
    BY <2>1, <2>2, <2>3, <2>4
<1>5. <<s>> \in ByPrefix(configured)
  BY <1>1 DEF ByPrefix
<1> HIDE DEF listed
<1> QED
  BY <1>1, <1>3, <1>4, <1>5 DEF Route

\* A model id under a reserved prefix, as those of Anthropic are, goes to the
\* passthrough unchanged whatever else is configured.
THEOREM ReservedStaysWithFallback ==
  ASSUME NEW configured \in Seq(String), Validate(configured),
         NEW modelID \in String, Head(modelID) \in Reserved
  PROVE  Route(configured, modelID) = [provider |-> Fallback, model |-> modelID]
<1>1. \A i \in DOMAIN configured : configured[i] # <<Head(modelID)>>
  BY DEF Validate, WellFormedID
<1>2. <<Head(modelID)>> \notin ByPrefix(configured)
  BY <1>1 DEF ByPrefix
<1> QED
  BY <1>2 DEF Route

-----------------------------------------------------------------------------
(* Listing.                                                                *)

\* The entries there can be.
Entries == {Entry(i, model) : i \in Asked, model \in String}

\* What can be listed for provider i: a name of its own, or, of the passthrough,
\* one that Anthropic has.
Named(i, entry) ==
  \E model \in String :
    /\ i = 0 => Head(model) \in Reserved
    /\ entry = Entry(i, model)

\* Where the handler is says what has been joined and what was sent.
Stage ==
  /\ hpc \in {"load", "serve", "refused", "wait", "join", "replied"}
  /\ ids \in Seq(String)
  /\ hpc \in {"serve", "wait", "join", "replied"} => Validate(ids)
  /\ hpc \in {"load", "serve", "refused", "wait"} => next = 0 /\ models = <<>>
  /\ hpc # "wait" => asking = {}
  /\ asking \subseteq Asked
  /\ hpc # "replied" => reply = NoReply
  /\ hpc = "join" => errs = {}
  /\ hpc = "replied" => \/ errs # {} /\ reply = Failure
                        \/ errs = {} /\ next = Len(ids) + 1 /\ reply = Listing(models)

\* A list holds names of its provider.
Lists ==
  /\ lists \in [Asked -> Seq(Entries)]
  /\ \A i \in Asked : \A m \in DOMAIN lists[i] : Named(i, lists[i][m])

\* The lists before next are joined, in their order, and nothing else is.
InPlace ==
  \A i, j \in 0 .. next - 1 : \A m \in DOMAIN lists[i] : \A n \in DOMAIN lists[j] :
    \E k, l \in DOMAIN models :
      models[k] = lists[i][m] /\ models[l] = lists[j][n] /\ (i < j => k < l)

FromLists ==
  \A k \in DOMAIN models :
    \E i \in 0 .. next - 1 : \E m \in DOMAIN lists[i] : models[k] = lists[i][m]

Joined ==
  /\ next \in 0 .. Len(ids) + 1
  /\ models \in Seq(Entries)
  /\ InPlace
  /\ FromLists

IInv == Stage /\ Lists /\ Joined

-----------------------------------------------------------------------------
(* Steps.                                                                  *)

\* An answer, of the passthrough or of a provider, is a list of its names.
LEMMA AnswerIsNamed ==
  ASSUME Stage, NEW i \in Asked, NEW names \in IF i = 0 THEN FromAPI ELSE Catalogs
  PROVE  LET list == [k \in DOMAIN names |-> Entry(i, names[k])]
         IN  list \in Seq(Entries) /\ \A m \in DOMAIN list : Named(i, list[m])
<1> DEFINE list == [k \in DOMAIN names |-> Entry(i, names[k])]
<1>1. names \in Seq(String) /\ \A k \in DOMAIN names : i = 0 => Head(names[k]) \in Reserved
  <2>1. CASE i = 0
    <3>1. names \in Seq({id \in String : Head(id) \in Reserved})
      BY <2>1, ListingAssumption DEF ListingAssumption
    <3>2. \A k \in DOMAIN names : names[k] \in String /\ Head(names[k]) \in Reserved
      BY <3>1
    <3>3. names \in Seq(String)
      BY <3>1, SeqMonotonic
    <3> QED
      BY <3>2, <3>3
  <2>2. CASE i # 0
    BY <2>2, ListingAssumption DEF ListingAssumption
  <2> QED
    BY <2>1, <2>2
<1>2. Len(names) \in Nat /\ DOMAIN names = 1 .. Len(names) /\ \A k \in DOMAIN names : names[k] \in String
  BY <1>1
<1>3. \A k \in DOMAIN names : Entry(i, names[k]) \in Entries
  BY <1>2 DEF Entries
<1>4. list \in [1 .. Len(names) -> Entries]
  BY <1>2, <1>3
<1>5. list \in Seq(Entries)
  BY <1>2, <1>4, SeqDef
<1>6. \A m \in DOMAIN list : Named(i, list[m])
  BY <1>1, <1>2 DEF Named
<1> QED
  BY <1>5, <1>6

\* A list that is joined goes behind those before it.
LEMMA JoinKeeps ==
  ASSUME IInv, Join
  PROVE  Joined'
<1>1. /\ ids \in Seq(String) /\ Len(ids) \in Nat
      /\ next \in 0 .. Len(ids) /\ next \in Nat /\ next' = next + 1
      /\ lists' = lists /\ ids' = ids
      /\ models' = models \o lists[next]
      /\ models \in Seq(Entries) /\ lists[next] \in Seq(Entries)
  BY DEF IInv, Stage, Lists, Joined, Join, Asked
<1>2. PICK list \in Seq(Entries) : list = lists[next]
  BY <1>1
<1>3. /\ Len(models) \in Nat /\ DOMAIN models = 1 .. Len(models)
      /\ Len(list) \in Nat /\ DOMAIN list = 1 .. Len(list)
  BY <1>1, <1>2
<1>4. /\ models' \in Seq(Entries) /\ DOMAIN models' = 1 .. Len(models) + Len(list)
      /\ \A k \in DOMAIN models : models'[k] = models[k]
      /\ \A m \in DOMAIN list : models'[Len(models) + m] = list[m]
  <2>1. models' = models \o list
    BY <1>1, <1>2
  <2>2. models' \in Seq(Entries) /\ Len(models') = Len(models) + Len(list)
    BY <1>1, <2>1, ConcatProperties
  <2>3. \A k \in 1 .. Len(models) + Len(list) :
          models'[k] = IF k <= Len(models) THEN models[k] ELSE list[k - Len(models)]
    BY <1>1, <2>1, ConcatProperties
  <2> QED
    BY <1>3, <2>2, <2>3
<1>5. \A k \in DOMAIN models : k \in DOMAIN models' /\ k <= Len(models)
  BY <1>3, <1>4
<1>6. \A m \in DOMAIN list : Len(models) + m \in DOMAIN models' /\ \A k \in DOMAIN models : k < Len(models) + m
  BY <1>3, <1>4
<1>7. Entries' = Entries
  BY <1>1 DEF Entries, Entry, Asked
<1>8. ASSUME NEW i \in 0 .. next, NEW j \in 0 .. next,
             NEW m \in DOMAIN lists[i], NEW n \in DOMAIN lists[j]
      PROVE  \E k, l \in DOMAIN models' :
               models'[k] = lists[i][m] /\ models'[l] = lists[j][n] /\ (i < j => k < l)
  <2>1. CASE i < next /\ j < next
    <3>1. i \in 0 .. next - 1 /\ j \in 0 .. next - 1
      BY <1>1, <2>1
    <3>2. PICK k \in DOMAIN models, l \in DOMAIN models :
            models[k] = lists[i][m] /\ models[l] = lists[j][n] /\ (i < j => k < l)
      BY <3>1 DEF IInv, Joined, InPlace
    <3> QED
      BY <1>4, <1>5, <3>2
  <2>2. CASE i < next /\ j = next
    <3>1. i \in 0 .. next - 1
      BY <1>1, <2>2
    <3>2. PICK k \in DOMAIN models : models[k] = lists[i][m]
      BY <3>1 DEF IInv, Joined, InPlace
    <3>3. n \in DOMAIN list /\ list[n] = lists[j][n]
      BY <1>2, <2>2
    <3> QED
      BY <1>4, <1>5, <1>6, <3>2, <3>3
  <2>3. CASE i = next /\ j < next
    <3>1. j \in 0 .. next - 1 /\ ~(i < j)
      BY <1>1, <2>3
    <3>2. PICK l \in DOMAIN models : models[l] = lists[j][n]
      BY <3>1 DEF IInv, Joined, InPlace
    <3>3. m \in DOMAIN list /\ list[m] = lists[i][m]
      BY <1>2, <2>3
    <3> QED
      BY <1>4, <1>5, <1>6, <3>1, <3>2, <3>3
  <2>4. CASE i = next /\ j = next
    <3>1. /\ m \in DOMAIN list /\ list[m] = lists[i][m]
          /\ n \in DOMAIN list /\ list[n] = lists[j][n]
          /\ ~(i < j)
      BY <1>1, <1>2, <2>4
    <3> QED
      BY <1>4, <1>6, <3>1
  <2>5. (i < next \/ i = next) /\ (j < next \/ j = next)
    <3>1. next \in Nat
      BY <1>1
    <3> QED
      BY <3>1
  <2> QED
    BY <2>1, <2>2, <2>3, <2>4, <2>5, Zenon
<1>9. FromLists'
  <2> SUFFICES ASSUME NEW k \in DOMAIN models'
               PROVE  \E i \in 0 .. next : \E m \in DOMAIN lists[i] : models'[k] = lists[i][m]
    BY <1>1 DEF FromLists
  <2>1. CASE k \in DOMAIN models
    <3>1. PICK i \in 0 .. next - 1 : \E m \in DOMAIN lists[i] : models[k] = lists[i][m]
      BY <2>1 DEF IInv, Joined, FromLists
    <3>2. i \in 0 .. next
      BY <1>1
    <3> QED
      BY <1>4, <2>1, <3>1, <3>2
  <2>2. CASE k \notin DOMAIN models
    <3>1. k - Len(models) \in DOMAIN list /\ k = Len(models) + (k - Len(models))
      BY <1>3, <1>4, <2>2
    <3>2. models'[k] = list[k - Len(models)]
      BY <1>4, <3>1
    <3>3. next \in 0 .. next
      BY <1>1
    <3> QED
      BY <1>2, <3>1, <3>2, <3>3
  <2> QED
    BY <2>1, <2>2
<1>10. 0 .. next' - 1 = 0 .. next /\ lists' = lists
  BY <1>1
<1>11. InPlace'
  <2>1. \A i, j \in 0 .. next' - 1 : \A m \in DOMAIN lists'[i] : \A n \in DOMAIN lists'[j] :
          \E k, l \in DOMAIN models' :
            models'[k] = lists'[i][m] /\ models'[l] = lists'[j][n] /\ (i < j => k < l)
    <3> SUFFICES ASSUME NEW i \in 0 .. next' - 1, NEW j \in 0 .. next' - 1,
                        NEW m \in DOMAIN lists'[i], NEW n \in DOMAIN lists'[j]
                 PROVE  \E k, l \in DOMAIN models' :
                          models'[k] = lists'[i][m] /\ models'[l] = lists'[j][n] /\ (i < j => k < l)
      OBVIOUS
    <3>1. i \in 0 .. next /\ j \in 0 .. next /\ m \in DOMAIN lists[i] /\ n \in DOMAIN lists[j]
      BY <1>10
    <3>2. \E k, l \in DOMAIN models' :
            models'[k] = lists[i][m] /\ models'[l] = lists[j][n] /\ (i < j => k < l)
      BY <1>8, <3>1
    <3> QED
      BY <1>10, <3>2
  <2> QED
    BY <2>1 DEF InPlace
<1> QED
  BY <1>1, <1>4, <1>7, <1>9, <1>11 DEF Joined

\* The invariant is kept by every step.
LEMMA StepKeeps == IInv /\ [Next]_vars => IInv'
<1> SUFFICES ASSUME IInv, [Next]_vars
             PROVE  IInv'
  OBVIOUS
<1>1. Stage /\ Lists /\ Joined
  BY DEF IInv
<1>2. CASE Load
  <2>1. UNCHANGED <<ids, asking, lists, errs, next, models, reply>>
    BY <1>2 DEF Load, join
  <2>2. Stage'
    BY <1>1, <1>2, <2>1 DEF Load, Stage, Asked, Validate, WellFormedID
  <2> QED
    BY <1>1, <2>1, <2>2 DEF IInv, Lists, Joined, InPlace, FromLists, Entries, Entry, Asked, Named
<1>3. CASE Start
  <2>1. UNCHANGED <<ids, lists, errs, next, models, reply>>
    BY <1>3 DEF Start, join
  <2>2. Stage'
    BY <1>1, <1>3, <2>1 DEF Start, Stage, Asked, Validate, WellFormedID
  <2> QED
    BY <1>1, <2>1, <2>2 DEF IInv, Lists, Joined, InPlace, FromLists, Entries, Entry, Asked, Named
<1>4. ASSUME NEW i \in asking, NEW names \in IF i = 0 THEN FromAPI ELSE Catalogs, Answers(i, names)
      PROVE  IInv'
  <2>1. UNCHANGED <<ids, hpc, errs, next, models, reply>> /\ i \in Asked /\ hpc = "wait"
    BY <1>1, <1>4 DEF Answers, join, Stage
  <2>2. Stage'
    BY <1>1, <1>4, <2>1 DEF Answers, Stage, Asked, Validate, WellFormedID
  <2>3. Lists'
    <3> DEFINE list == [k \in DOMAIN names |-> Entry(i, names[k])]
    <3>1. list \in Seq(Entries) /\ \A m \in DOMAIN list : Named(i, list[m])
      BY <1>1, <1>4, <2>1, AnswerIsNamed
    <3>2. lists' = [lists EXCEPT ![i] = list]
      BY <1>4 DEF Answers
    <3> HIDE DEF list
    <3>3. lists' \in [Asked -> Seq(Entries)]
      BY <1>1, <3>1, <3>2 DEF Lists
    <3>4. \A j \in Asked : \A m \in DOMAIN lists'[j] : Named(j, lists'[j][m])
      BY <1>1, <2>1, <3>1, <3>2 DEF Lists
    <3>5. Entries' = Entries /\ Asked' = Asked /\ \A j, e : Named(j, e)' <=> Named(j, e)
      BY <2>1 DEF Entries, Entry, Asked, Named
    <3> QED
      BY <3>3, <3>4, <3>5 DEF Lists
  <2>4. Joined'
    <3>1. next = 0 /\ models = <<>> /\ Len(ids) \in Nat
      BY <1>1, <2>1 DEF Stage
    <3>2. InPlace' /\ FromLists'
      BY <2>1, <3>1 DEF InPlace, FromLists
    <3>3. next' \in 0 .. Len(ids') + 1 /\ models' \in Seq(Entries')
      BY <2>1, <3>1
    <3> QED
      BY <3>2, <3>3 DEF Joined
  <2> QED
    BY <2>2, <2>3, <2>4 DEF IInv
<1>5. ASSUME NEW i \in asking, Fails(i)
      PROVE  IInv'
  <2>1. UNCHANGED <<ids, hpc, lists, next, models, reply>> /\ hpc = "wait"
    BY <1>1, <1>5 DEF Fails, join, Stage
  <2>2. Stage'
    BY <1>1, <1>5, <2>1 DEF Fails, Stage, Asked, Validate, WellFormedID
  <2> QED
    BY <1>1, <2>1, <2>2 DEF IInv, Lists, Joined, InPlace, FromLists, Entries, Entry, Asked, Named
<1>6. CASE Expire \/ UNCHANGED vars
  <2>1. UNCHANGED <<ids, hpc, asking, lists, errs, next, models, reply>>
    BY <1>6 DEF Expire, vars, join
  <2>2. Stage'
    BY <1>1, <2>1 DEF Stage, Asked, Validate, WellFormedID
  <2> QED
    BY <1>1, <2>1, <2>2 DEF IInv, Lists, Joined, InPlace, FromLists, Entries, Entry, Asked, Named
<1>7. CASE Gather
  <2>1. UNCHANGED <<ids, asking, lists, errs, next, models>> /\ hpc = "wait" /\ asking = {}
    BY <1>7 DEF Gather, join
  <2>2. \/ errs = {} /\ hpc' = "join" /\ reply' = reply
        \/ errs # {} /\ hpc' = "replied" /\ reply' = Failure
    BY <1>7 DEF Gather
  <2>3. Stage'
    BY <1>1, <2>1, <2>2 DEF Stage, Asked, Validate, WellFormedID
  <2> QED
    BY <1>1, <2>1, <2>3 DEF IInv, Lists, Joined, InPlace, FromLists, Entries, Entry, Asked, Named
<1>8. CASE Join
  <2>1. UNCHANGED <<ids, hpc, asking, lists, errs, reply>> /\ hpc = "join"
    BY <1>8 DEF Join
  <2>2. Stage'
    BY <1>1, <2>1 DEF Stage, Asked, Validate, WellFormedID
  <2>3. Lists'
    BY <1>1, <2>1 DEF Lists, Entries, Entry, Asked, Named
  <2> QED
    BY <1>8, <2>2, <2>3, JoinKeeps DEF IInv
<1>9. CASE Reply
  <2>1. /\ UNCHANGED <<ids, asking, lists, errs, next, models>>
        /\ hpc = "join" /\ hpc' = "replied" /\ reply' = Listing(models)
    BY <1>9 DEF Reply, join
  <2>2. next = Len(ids) + 1
    BY <1>1, <1>9 DEF Reply, Stage, Joined, Asked
  <2>3. Stage'
    BY <1>1, <2>1, <2>2 DEF Stage, Asked, Validate, WellFormedID, Listing
  <2> QED
    BY <1>1, <2>1, <2>3 DEF IInv, Lists, Joined, InPlace, FromLists, Entries, Entry, Asked, Named
<1> QED
  BY <1>2, <1>3, <1>4, <1>5, <1>6, <1>7, <1>8, <1>9 DEF Next

\* The lists before next are joined in their order, whatever the providers, the
\* models they have and the order they answer in.
THEOREM Invariant == Spec => []IInv
<1>1. Init => IInv
  <2> SUFFICES ASSUME Init
               PROVE  IInv
    OBVIOUS
  <2>1. ids \in Seq(String) /\ Len(ids) \in Nat
    BY ListingAssumption DEF ListingAssumption, Init
  <2>2. Stage
    BY <2>1 DEF Init, Stage
  <2>3. Lists
    BY DEF Init, Lists
  <2>4. Joined
    BY <2>1 DEF Init, Joined, InPlace, FromLists
  <2> QED
    BY <2>2, <2>3, <2>4 DEF IInv
<1> QED
  BY <1>1, StepKeeps, PTL DEF Spec

\* What a client is shown it can use: every id of a listing reaches the provider
\* that it was listed for, under the name that its upstream listed.
THEOREM ListingIsUsable == Spec => []ListedIdsRoute
<1>1. IInv => ListedIdsRoute
  <2> SUFFICES ASSUME IInv, reply.kind = "list",
                      NEW k \in DOMAIN reply.models, reply.models[k].model # EmptyString
               PROVE  Route(ids, reply.models[k].id)
                        = [provider |-> reply.models[k].provider, model |-> reply.models[k].model]
    BY DEF ListedIdsRoute
  <2>1. /\ ids \in Seq(String) /\ Validate(ids) /\ next = Len(ids) + 1 /\ Len(ids) \in Nat
        /\ reply = Listing(models)
    BY DEF IInv, Stage, NoReply, Failure, Listing
  <2>2. reply.models = models
    BY <2>1 DEF Listing
  <2>3. PICK i \in 0 .. next - 1 : \E m \in DOMAIN lists[i] : models[k] = lists[i][m]
    BY <2>2 DEF IInv, Joined, FromLists
  <2>4. i \in Asked
    BY <2>1, <2>3 DEF Asked
  <2>5. PICK model \in String : /\ i = 0 => Head(model) \in Reserved
                                /\ models[k] = Entry(i, model)
    BY <2>3, <2>4 DEF IInv, Lists, Named
  <2>6. CASE i = 0
    <3>1. models[k] = [id |-> model, provider |-> Fallback, model |-> model]
      BY <2>5, <2>6 DEF Entry
    <3>2. Route(ids, model) = [provider |-> Fallback, model |-> model]
      BY <2>1, <2>5, <2>6, ReservedStaysWithFallback
    <3> QED
      BY <2>2, <3>1, <3>2
  <2>7. CASE i # 0
    <3>1. models[k] = [id |-> ListedAs(ids[i], model), provider |-> ids[i], model |-> model]
      BY <2>5, <2>7 DEF Entry
    <3>2. i \in DOMAIN ids /\ model # EmptyString
      BY <2>1, <2>2, <2>4, <2>7, <3>1 DEF Asked
    <3>3. Route(ids, ListedAs(ids[i], model)) = [provider |-> ids[i], model |-> model]
      BY <2>1, <2>5, <3>2, RouteUndoesListing
    <3> QED
      BY <2>2, <3>1, <3>3
  <2> QED
    BY <2>6, <2>7
<1> QED
  BY <1>1, Invariant, PTL

\* A listing is whole, in the order of the file, and an error is an error of the
\* whole: in whatever order the providers answer or fail.
THEOREM ListingIsComplete == Spec => []ListingIsWhole
<1>1. IInv => ListingIsWhole
  <2> SUFFICES ASSUME IInv, hpc = "replied"
               PROVE  ListingIsWhole
    BY DEF ListingIsWhole
  <2>1. asking = {}
    BY DEF IInv, Stage
  <2>2. CASE errs # {}
    <3>1. reply = Failure /\ reply.kind # "list"
      BY <2>2 DEF IInv, Stage, Failure
    <3> QED
      BY <2>1, <2>2, <3>1 DEF ListingIsWhole
  <2>3. CASE errs = {}
    <3>1. reply = Listing(models) /\ next = Len(ids) + 1 /\ ids \in Seq(String)
      BY <2>3 DEF IInv, Stage
    <3>2. reply.kind = "list" /\ reply.models = models
      BY <3>1 DEF Listing
    <3>3. Asked = 0 .. next - 1
      BY <3>1 DEF Asked
    <3>4. InPlace /\ FromLists
      BY DEF IInv, Joined
    <3> QED
      BY <2>1, <2>3, <3>2, <3>3, <3>4 DEF ListingIsWhole, InPlace, FromLists
  <2> QED
    BY <2>2, <2>3
<1> QED
  BY <1>1, Invariant, PTL
=============================================================================
