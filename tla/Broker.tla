-------------------------------- MODULE Broker --------------------------------
(***************************************************************************)
(* The fan-out of finished requests to whoever is watching.                *)
(*                                                                         *)
(*   events/broker.go   Subscribe, its cancel function, Publish            *)
(*   server/watch.go    handleWatch, the one subscriber of the broker      *)
(*   server/observe.go  observe, the one publisher: every request, and so  *)
(*                      also every watch request once its handler returned *)
(*                                                                         *)
(* Publish holds the mutex while it offers the event to one channel after  *)
(* the other; a receive from a channel needs no mutex and comes in         *)
(* between.  Subscribe and cancel hold the mutex for one step.             *)
(*                                                                         *)
(* An event is the number of its Publish in the order the mutex was taken. *)
(***************************************************************************)
EXTENDS Integers, Sequences

CONSTANTS
  Watchers,   \* watch requests, each of them one subscription
  Requests,   \* all other requests
  Buffer,     \* subscriberBuffer
  Free        \* the mutex is not held

ASSUME BrokerAssumption ==
  /\ Watchers \cap Requests = {}
  /\ Free \notin Watchers \cup Requests
  /\ Buffer \in Nat \ {0}

Publishers == Watchers \cup Requests

VARIABLES
  lock,         \* the publisher that holds Broker.mu between two steps, or Free
  subscribers,  \* Broker.subscribers
  buf,          \* the channel of each watcher
  closed,       \* the watchers whose channel is closed
  pending,      \* the subscribers Publish has still to range over
  published,    \* how many Publish calls have taken the mutex
  ppc,          \* where each request's observe is
  wpc,          \* where each watch handler is
  holding,      \* the event a watch handler took from its channel, 0 for none
  connected,    \* the watchers whose client is there
  seen,         \* the events written to each watcher's stream
  since,        \* published at the time the watcher got its response header
  lost          \* the events each watcher was not given because its channel was full

broker  == <<lock, subscribers, closed, pending, published>>
watcher == <<wpc, holding, connected, seen, since>>
vars    == <<broker, buf, ppc, watcher, lost>>

Init ==
  /\ lock = Free
  /\ subscribers = {}
  /\ buf = [w \in Watchers |-> <<>>]
  /\ closed = {}
  /\ pending = {}
  /\ published = 0
  /\ ppc = [p \in Publishers |-> "serving"]
  /\ wpc = [w \in Watchers |-> "new"]
  /\ holding = [w \in Watchers |-> 0]
  /\ connected = Watchers
  /\ seen = [w \in Watchers |-> <<>>]
  /\ since = [w \in Watchers |-> 0]
  /\ lost = [w \in Watchers |-> {}]

-----------------------------------------------------------------------------
(* observe and Publish.                                                    *)

\* The wrapped handler returns; that of a watcher when handleWatch has.
Served(p) ==
  /\ ppc[p] = "serving"
  /\ p \in Watchers => wpc[p] = "left"
  /\ ppc' = [ppc EXCEPT ![p] = "publish"]
  /\ UNCHANGED <<broker, buf, watcher, lost>>

StartPublish(p) ==
  /\ ppc[p] = "publish"
  /\ lock = Free
  /\ lock' = p
  /\ published' = published + 1
  /\ pending' = subscribers
  /\ ppc' = [ppc EXCEPT ![p] = "offer"]
  /\ UNCHANGED <<subscribers, closed, buf, watcher, lost>>

\* Slip: a watcher is among the subscribers more than once.
OfferAgain(p, w) ==
  /\ lock = p
  /\ w \in pending
  /\ IF Len(buf[w]) < Buffer
     THEN buf' = [buf EXCEPT ![w] = Append(@, published)] /\ UNCHANGED lost
     ELSE lost' = [lost EXCEPT ![w] = @ \cup {published}] /\ UNCHANGED buf
  /\ UNCHANGED <<lock, subscribers, closed, pending, published, ppc, watcher>>

\* Slip: a full channel makes room by losing its first event.
OfferInstead(p, w) ==
  /\ lock = p
  /\ w \in pending
  /\ pending' = pending \ {w}
  /\ buf' = [buf EXCEPT ![w] = Append(IF Len(@) < Buffer THEN @ ELSE Tail(@), published)]
  /\ UNCHANGED <<lock, subscribers, closed, published, ppc, watcher, lost>>

\* Slip: the last place of a channel is never used.
OfferOneLess(p, w) ==
  /\ lock = p
  /\ w \in pending
  /\ pending' = pending \ {w}
  /\ IF Len(buf[w]) < Buffer - 1
     THEN buf' = [buf EXCEPT ![w] = Append(@, published)] /\ UNCHANGED lost
     ELSE lost' = [lost EXCEPT ![w] = @ \cup {published}] /\ UNCHANGED buf
  /\ UNCHANGED <<lock, subscribers, closed, published, ppc, watcher>>

\* Slip: the select of Publish has no default.
OfferWaiting(p, w) ==
  /\ lock = p
  /\ w \in pending
  /\ Len(buf[w]) < Buffer
  /\ pending' = pending \ {w}
  /\ buf' = [buf EXCEPT ![w] = Append(@, published)]
  /\ UNCHANGED <<lock, subscribers, closed, published, ppc, watcher, lost>>

\* One turn of the range loop: a send if there is room, and otherwise nothing.
Offer(p, w) ==
  /\ lock = p
  /\ w \in pending
  /\ pending' = pending \ {w}
  /\ IF Len(buf[w]) < Buffer
     THEN buf' = [buf EXCEPT ![w] = Append(@, published)] /\ UNCHANGED lost
     ELSE lost' = [lost EXCEPT ![w] = @ \cup {published}] /\ UNCHANGED buf
  /\ UNCHANGED <<lock, subscribers, closed, published, ppc, watcher>>

EndPublish(p) ==
  /\ lock = p
  /\ pending = {}
  /\ lock' = Free
  /\ ppc' = [ppc EXCEPT ![p] = "done"]
  /\ UNCHANGED <<subscribers, closed, pending, published, buf, watcher, lost>>

-----------------------------------------------------------------------------
(* handleWatch.                                                            *)

Goto(w, label) == wpc' = [wpc EXCEPT ![w] = label]

Subscribe(w) ==
  /\ wpc[w] = "new"
  /\ lock = Free
  /\ subscribers' = subscribers \cup {w}
  /\ Goto(w, "header")
  /\ UNCHANGED <<lock, closed, pending, published, buf, ppc, holding, connected, seen, since, lost>>

\* The header goes out with the first ping; a write may only fail, and need not
\* fail at once, when the client is gone.
Greet(w) ==
  /\ wpc[w] = "header"
  /\ \/ Goto(w, "select") /\ since' = [since EXCEPT ![w] = published]
     \/ w \notin connected /\ Goto(w, "leave") /\ UNCHANGED since
  /\ UNCHANGED <<broker, buf, ppc, holding, connected, seen, lost>>

Receive(w) ==
  /\ wpc[w] = "select"
  /\ buf[w] # <<>>
  /\ holding' = [holding EXCEPT ![w] = Head(buf[w])]
  /\ buf' = [buf EXCEPT ![w] = Tail(@)]
  /\ Goto(w, "encode")
  /\ UNCHANGED <<broker, ppc, connected, seen, since, lost>>

\* Slip: the handler returns after the first event.
EncodeOnce(w) ==
  /\ wpc[w] = "encode"
  /\ holding' = [holding EXCEPT ![w] = 0]
  /\ Goto(w, "leave")
  /\ seen' = [seen EXCEPT ![w] = Append(@, holding[w])]
  /\ UNCHANGED <<broker, buf, ppc, connected, since, lost>>

Encode(w) ==
  /\ wpc[w] = "encode"
  /\ holding' = [holding EXCEPT ![w] = 0]
  /\ \/ Goto(w, "select") /\ seen' = [seen EXCEPT ![w] = Append(@, holding[w])]
     \/ w \notin connected /\ Goto(w, "leave") /\ UNCHANGED seen
  /\ UNCHANGED <<broker, buf, ppc, connected, since, lost>>

\* Slip: the handler returns and has deferred nothing.
NoticeGoneOnly(w) ==
  /\ wpc[w] = "select"
  /\ w \notin connected
  /\ Goto(w, "returned")
  /\ UNCHANGED <<broker, buf, ppc, holding, connected, seen, since, lost>>

\* The request context is done, or the ping of the ticker cannot be written.
NoticeGone(w) ==
  /\ wpc[w] = "select"
  /\ w \notin connected
  /\ Goto(w, "leave")
  /\ UNCHANGED <<broker, buf, ppc, holding, connected, seen, since, lost>>

\* Slip: cancel does without the mutex.
CancelUnlocked(w) ==
  /\ wpc[w] = "leave"
  /\ subscribers' = subscribers \ {w}
  /\ closed' = closed \cup {w}
  /\ Goto(w, "left")
  /\ UNCHANGED <<lock, pending, published, buf, ppc, holding, connected, seen, since, lost>>

\* Slip: cancel closes the channel and leaves it among the subscribers.
CancelHalf(w) ==
  /\ wpc[w] = "leave"
  /\ lock = Free
  /\ closed' = closed \cup {w}
  /\ Goto(w, "left")
  /\ UNCHANGED <<lock, subscribers, pending, published, buf, ppc, holding, connected, seen,
                 since, lost>>

\* The deferred cancel.
Cancel(w) ==
  /\ wpc[w] = "leave"
  /\ lock = Free
  /\ subscribers' = subscribers \ {w}
  /\ closed' = closed \cup {w}
  /\ Goto(w, "left")
  /\ UNCHANGED <<lock, pending, published, buf, ppc, holding, connected, seen, since, lost>>

ClientLeaves(w) ==
  /\ w \in connected
  /\ connected' = connected \ {w}
  /\ UNCHANGED <<broker, buf, ppc, wpc, holding, seen, since, lost>>

-----------------------------------------------------------------------------

Publishing(p) ==
  \/ StartPublish(p)
  \/ \E w \in Watchers : Offer(p, w)
  \/ EndPublish(p)

Watching(w) ==
  \/ Subscribe(w) \/ Greet(w)
  \/ Receive(w) \/ Encode(w)
  \/ NoticeGone(w) \/ Cancel(w)

Next ==
  \/ \E p \in Publishers : Served(p) \/ Publishing(p)
  \/ \E w \in Watchers : Watching(w) \/ ClientLeaves(w)

Spec == Init /\ [][Next]_vars

\* sync.Mutex hands itself to a waiter that has waited for long, so a publisher
\* gets it in the end.  Nothing is assumed of the watchers: one whose client
\* does not read is stuck in a write for ever.
FairSpec == Spec /\ \A p \in Publishers : SF_vars(Publishing(p))

\* The watchers whose client reads or goes away: their writes end, they get the
\* mutex, and a select does not pass over a ready case for ever.
WatchersGoOn ==
  \A w \in Watchers :
    /\ WF_vars(Greet(w) \/ Encode(w))
    /\ SF_vars(Receive(w))
    /\ SF_vars(NoticeGone(w))
    /\ SF_vars(Cancel(w))

-----------------------------------------------------------------------------
(* Properties.                                                             *)

Elements(s) == {s[i] : i \in DOMAIN s}

TypeOK ==
  /\ lock \in Publishers \cup {Free}
  /\ subscribers \subseteq Watchers
  /\ buf \in [Watchers -> Seq(Nat)]
  /\ closed \subseteq Watchers
  /\ pending \subseteq Watchers
  /\ published \in Nat
  /\ ppc \in [Publishers -> {"serving", "publish", "offer", "done"}]
  /\ wpc \in [Watchers -> {"new", "header", "select", "encode", "leave", "left"}]
  /\ holding \in [Watchers -> Nat]
  /\ connected \subseteq Watchers
  /\ seen \in [Watchers -> Seq(Nat)]
  /\ since \in [Watchers -> Nat]
  /\ lost \in [Watchers -> SUBSET Nat]

\* Publish never offers to a channel that cancel has closed, which would panic
\* in the goroutine of an unrelated request.
NoSendOnClosed == \A w \in pending : w \notin closed

\* What a watcher has read, has in hand and has in its channel are events in the
\* order of their publication, none of them twice.
InOrder ==
  \A w \in Watchers :
    /\ \A i, j \in DOMAIN seen[w] : i < j => seen[w][i] < seen[w][j]
    /\ \A i, j \in DOMAIN buf[w] : i < j => buf[w][i] < buf[w][j]
    /\ \A i \in DOMAIN seen[w] : \A j \in DOMAIN buf[w] : seen[w][i] < buf[w][j]
    /\ holding[w] # 0 =>
         /\ \A i \in DOMAIN seen[w] : seen[w][i] < holding[w]
         /\ \A j \in DOMAIN buf[w] : holding[w] < buf[w][j]

\* "Subscribe before the first byte, so that a watcher which has read the
\* response header misses nothing that happens next": an event published after
\* the header is written, in hand, in the channel, or about to be offered; it is
\* missing only if the channel was full, which takes a whole buffer of events.
NothingMissed ==
  \A w \in Watchers : wpc[w] \in {"select", "encode"} =>
    \A e \in since[w] + 1 .. published :
      \/ e \in Elements(seen[w]) \cup {holding[w]} \cup Elements(buf[w])
      \/ e \in lost[w] /\ Buffer < e
      \/ e = published /\ w \in pending

\* "Serving a request must never wait on a watcher": whatever the watchers do,
\* a Publish that was called returns.
PublishReturns ==
  \A p \in Publishers : ppc[p] = "publish" ~> ppc[p] = "done"

\* A watcher that went away gives its subscription back, if no write to it hangs.
LeavesWhenGone ==
  WatchersGoOn =>
    \A w \in Watchers : (w \in subscribers /\ w \notin connected) ~> w \notin subscribers

\* What is in the channel of a watcher that stays and reads gets to it.
Arrives ==
  WatchersGoOn =>
    \A w \in Watchers : buf[w] # <<>> ~> (buf[w] = <<>> \/ w \notin connected)
=============================================================================
