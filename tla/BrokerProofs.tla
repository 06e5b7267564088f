----------------------------- MODULE BrokerProofs -----------------------------
(***************************************************************************)
(* The safety of the broker for every number of watchers and requests and  *)
(* every size of the subscribers' channels.                                *)
(*                                                                         *)
(* Two facts carry it.  Between two steps the mutex is held by the request *)
(* that is offering an event, and as long as one is, the subscribers stay  *)
(* what they were when it began.  And a watcher that has still to be       *)
(* offered the event being published holds only earlier ones.              *)
(***************************************************************************)
EXTENDS Broker, SequenceTheorems, TLAPS

Subscribed == {"header", "select", "encode", "leave"}

\* The mutex and what it protects.
Exclusive ==
  /\ \A p \in Publishers : lock = p <=> ppc[p] = "offer"
  /\ pending # {} => lock # Free
  /\ lock # Free => published # 0
  /\ pending \subseteq subscribers
  /\ \A w \in Watchers : w \in subscribers <=> wpc[w] \in Subscribed
  /\ \A w \in Watchers : w \in closed <=> wpc[w] = "left"

\* An event that w may have already.
Past(w, e) == e <= published /\ (w \in pending => e < published)

Aged(w) ==
  /\ \A i \in DOMAIN seen[w] : Past(w, seen[w][i])
  /\ \A i \in DOMAIN buf[w] : Past(w, buf[w][i])
  /\ Past(w, holding[w])

\* Events have numbers from 1, so the kth in a channel is at least k.
Numbered(w) ==
  /\ \A k \in DOMAIN buf[w] : k <= buf[w][k]
  /\ holding[w] # 0 <=> wpc[w] = "encode"

Sorted(w) ==
  /\ \A i, j \in DOMAIN seen[w] : i < j => seen[w][i] < seen[w][j]
  /\ \A i, j \in DOMAIN buf[w] : i < j => buf[w][i] < buf[w][j]
  /\ \A i \in DOMAIN seen[w] : \A j \in DOMAIN buf[w] : seen[w][i] < buf[w][j]
  /\ holding[w] # 0 =>
       /\ \A i \in DOMAIN seen[w] : seen[w][i] < holding[w]
       /\ \A j \in DOMAIN buf[w] : holding[w] < buf[w][j]

\* Where an event that w is owed can be.
Has(w, e) ==
  \/ \E i \in DOMAIN seen[w] : seen[w][i] = e
  \/ holding[w] = e
  \/ \E i \in DOMAIN buf[w] : buf[w][i] = e
  \/ e \in lost[w]
  \/ e = published /\ w \in pending

Owed(w) ==
  wpc[w] \in {"select", "encode"} => \A e \in since[w] + 1 .. published : Has(w, e)

Late(w) == \A e \in lost[w] : Buffer < e

Channel(w) == Aged(w) /\ Numbered(w) /\ Sorted(w) /\ Owed(w) /\ Late(w)

IInv == TypeOK /\ Exclusive /\ \A w \in Watchers : Channel(w)

-----------------------------------------------------------------------------
(* Types.                                                                  *)

\* What every variable is at the start.
LEMMA InitType == Init => TypeOK
<1> SUFFICES ASSUME Init
             PROVE  TypeOK
  OBVIOUS
<1>1. <<>> \in Seq(Nat)
  OBVIOUS
<1> QED
  BY <1>1 DEF Init, TypeOK

\* Every step stays within the types.
LEMMA TypeStep == TypeOK /\ [Next]_vars => TypeOK'
<1> SUFFICES ASSUME TypeOK, [Next]_vars
             PROVE  TypeOK'
  OBVIOUS
<1> USE DEF TypeOK, broker, watcher
<1>1. ASSUME NEW p \in Publishers, Served(p)
      PROVE  TypeOK'
  BY <1>1 DEF Served
<1>2. ASSUME NEW p \in Publishers, StartPublish(p)
      PROVE  TypeOK'
  BY <1>2 DEF StartPublish
<1>3. ASSUME NEW p \in Publishers, NEW w \in Watchers, Offer(p, w)
      PROVE  TypeOK'
  <2>1. Append(buf[w], published) \in Seq(Nat)
    OBVIOUS
  <2>2. buf' \in [Watchers -> Seq(Nat)]
    BY <1>3, <2>1 DEF Offer
  <2>3. lost' \in [Watchers -> SUBSET Nat]
    <3>1. lost[w] \cup {published} \in SUBSET Nat
      OBVIOUS
    <3> QED
      BY <1>3, <3>1 DEF Offer
  <2> QED
    BY <1>3, <2>2, <2>3 DEF Offer
<1>4. ASSUME NEW p \in Publishers, EndPublish(p)
      PROVE  TypeOK'
  BY <1>4 DEF EndPublish
<1>5. ASSUME NEW w \in Watchers, Subscribe(w)
      PROVE  TypeOK'
  BY <1>5 DEF Subscribe, Goto
<1>6. ASSUME NEW w \in Watchers, Greet(w)
      PROVE  TypeOK'
  <2>1. wpc' \in [Watchers -> {"new", "header", "select", "encode", "leave", "left"}]
    BY <1>6 DEF Greet, Goto
  <2>2. since' \in [Watchers -> Nat]
    BY <1>6 DEF Greet
  <2> QED
    BY <1>6, <2>1, <2>2 DEF Greet
<1>7. ASSUME NEW w \in Watchers, Receive(w)
      PROVE  TypeOK'
  <2>1. Head(buf[w]) \in Nat /\ Tail(buf[w]) \in Seq(Nat)
    BY <1>7 DEF Receive
  <2> QED
    BY <1>7, <2>1 DEF Receive, Goto
<1>8. ASSUME NEW w \in Watchers, Encode(w)
      PROVE  TypeOK'
  <2>1. Append(seen[w], holding[w]) \in Seq(Nat)
    OBVIOUS
  <2>2. seen' \in [Watchers -> Seq(Nat)]
    BY <1>8, <2>1 DEF Encode
  <2> QED
    BY <1>8, <2>2 DEF Encode, Goto
<1>9. ASSUME NEW w \in Watchers, NoticeGone(w) \/ Cancel(w) \/ ClientLeaves(w)
      PROVE  TypeOK'
  BY <1>9 DEF NoticeGone, Cancel, ClientLeaves, Goto
<1>10. CASE UNCHANGED vars
  BY <1>10 DEF vars
<1> QED
  BY <1>1, <1>2, <1>3, <1>4, <1>5, <1>6, <1>7, <1>8, <1>9, <1>10
     DEF Next, Publishing, Watching

-----------------------------------------------------------------------------
(* The mutex.                                                              *)

\* The mutex is with the publisher, and subscribers come and go without it only.
LEMMA ExclusiveStep == TypeOK /\ Exclusive /\ [Next]_vars => Exclusive'
<1> SUFFICES ASSUME TypeOK, Exclusive, [Next]_vars
             PROVE  Exclusive'
  OBVIOUS
<1> USE BrokerAssumption DEF BrokerAssumption, Publishers, Subscribed, TypeOK, Exclusive,
          broker, watcher
<1>1. ASSUME NEW p \in Publishers, Served(p)
      PROVE  Exclusive'
  BY <1>1 DEF Served
<1>2. ASSUME NEW p \in Publishers, StartPublish(p)
      PROVE  Exclusive'
  BY <1>2 DEF StartPublish
<1>3. ASSUME NEW p \in Publishers, NEW w \in Watchers, Offer(p, w)
      PROVE  Exclusive'
  BY <1>3 DEF Offer
<1>4. ASSUME NEW p \in Publishers, EndPublish(p)
      PROVE  Exclusive'
  BY <1>4 DEF EndPublish
<1>5. ASSUME NEW w \in Watchers, Subscribe(w)
      PROVE  Exclusive'
  BY <1>5 DEF Subscribe, Goto
<1>6. ASSUME NEW w \in Watchers, Greet(w)
      PROVE  Exclusive'
  BY <1>6 DEF Greet, Goto
<1>7. ASSUME NEW w \in Watchers, Receive(w)
      PROVE  Exclusive'
  BY <1>7 DEF Receive, Goto
<1>8. ASSUME NEW w \in Watchers, Encode(w)
      PROVE  Exclusive'
  BY <1>8 DEF Encode, Goto
<1>9. ASSUME NEW w \in Watchers, NoticeGone(w)
      PROVE  Exclusive'
  BY <1>9 DEF NoticeGone, Goto
<1>10. ASSUME NEW w \in Watchers, Cancel(w)
       PROVE  Exclusive'
  BY <1>10 DEF Cancel, Goto
<1>11. ASSUME NEW w \in Watchers, ClientLeaves(w)
       PROVE  Exclusive'
  BY <1>11 DEF ClientLeaves
<1>12. CASE UNCHANGED vars
  BY <1>12 DEF vars
<1> QED
  BY <1>1, <1>2, <1>3, <1>4, <1>5, <1>6, <1>7, <1>8, <1>9, <1>10, <1>11, <1>12
     DEF Next, Publishing, Watching

-----------------------------------------------------------------------------
(* The channel of one watcher.                                             *)

\* What is not touched stays as it was.
LEMMA ChannelStable ==
  ASSUME NEW u \in Watchers, Channel(u),
         seen'[u] = seen[u], buf'[u] = buf[u], holding'[u] = holding[u],
         wpc'[u] = wpc[u], since'[u] = since[u], lost'[u] = lost[u],
         published' = published, u \in pending' <=> u \in pending
  PROVE  Channel(u)'
<1>1. Aged(u)'
  BY DEF Channel, Aged, Past
<1>2. Numbered(u)' /\ Sorted(u)' /\ Late(u)'
  BY DEF Channel, Numbered, Sorted, Late
<1>3. Owed(u)'
  BY DEF Channel, Owed, Has
<1> QED
  BY <1>1, <1>2, <1>3 DEF Channel

\* A watcher that turns to something else than its events keeps what it has.
LEMMA ChannelLeft ==
  ASSUME NEW u \in Watchers, Channel(u),
         seen'[u] = seen[u], buf'[u] = buf[u], holding'[u] = holding[u],
         since'[u] = since[u], lost'[u] = lost[u],
         published' = published, u \in pending' <=> u \in pending,
         wpc[u] # "encode", wpc'[u] \notin {"select", "encode"}
  PROVE  Channel(u)'
<1>1. Aged(u)'
  BY DEF Channel, Aged, Past
<1>2. Numbered(u)' /\ Sorted(u)' /\ Late(u)'
  BY DEF Channel, Numbered, Sorted, Late
<1>3. Owed(u)'
  BY DEF Owed
<1> QED
  BY <1>1, <1>2, <1>3 DEF Channel

\* A new event is owed to all subscribers, and all of them are to be offered it.
LEMMA StartPublishChannel ==
  ASSUME TypeOK, Exclusive, NEW p \in Publishers, StartPublish(p),
         NEW u \in Watchers, Channel(u)
  PROVE  Channel(u)'
<1> USE DEF TypeOK
<1>1. /\ UNCHANGED <<seen, buf, holding, wpc, since, lost>>
      /\ published' = published + 1
      /\ pending = {}
      /\ pending' = subscribers
  BY DEF StartPublish, Exclusive, watcher
<1>2. Aged(u)'
  <2>1. \A e \in Nat : Past(u, e) => e < published'
    BY <1>1 DEF Past
  <2>2. \A i \in DOMAIN seen[u] : seen[u][i] \in Nat
    OBVIOUS
  <2>3. \A i \in DOMAIN buf[u] : buf[u][i] \in Nat
    OBVIOUS
  <2>4. holding[u] \in Nat
    OBVIOUS
  <2> QED
    BY <1>1, <2>1, <2>2, <2>3, <2>4 DEF Channel, Aged, Past
<1>3. Numbered(u)' /\ Sorted(u)' /\ Late(u)'
  BY <1>1 DEF Channel, Numbered, Sorted, Late
<1>4. Owed(u)'
  <2> SUFFICES ASSUME wpc[u] \in {"select", "encode"}, NEW e \in since[u] + 1 .. published + 1
               PROVE  Has(u, e)'
    BY <1>1 DEF Owed
  <2>1. CASE e = published + 1
    <3>1. u \in subscribers
      BY DEF Exclusive, Subscribed
    <3> QED
      BY <1>1, <2>1, <3>1 DEF Has
  <2>2. CASE e # published + 1
    <3>1. e \in since[u] + 1 .. published
      BY <2>2
    <3>2. Has(u, e)
      BY <3>1 DEF Channel, Owed
    <3> QED
      BY <1>1, <3>2 DEF Has
  <2> QED
    BY <2>1, <2>2
<1> QED
  BY <1>2, <1>3, <1>4 DEF Channel

\* An event is put behind earlier ones, or dropped because the channel is full.
LEMMA OfferChannel ==
  ASSUME TypeOK, Exclusive, NEW p \in Publishers, NEW w \in Watchers, Offer(p, w), Channel(w)
  PROVE  Channel(w)'
<1> USE DEF TypeOK
<1> DEFINE b == buf[w]
<1>1. /\ UNCHANGED <<seen, holding, wpc, since, published>>
      /\ w \in pending /\ w \notin pending'
      /\ published \in Nat \ {0}
  BY BrokerAssumption DEF BrokerAssumption, Offer, Exclusive, watcher, Publishers
<1>2. /\ \A i \in DOMAIN seen[w] : seen[w][i] < published
      /\ \A i \in DOMAIN b : b[i] < published
      /\ holding[w] < published
  BY <1>1 DEF Channel, Aged, Past
<1>3. /\ b \in Seq(Nat) /\ seen[w] \in Seq(Nat) /\ holding[w] \in Nat
      /\ \A i \in DOMAIN b : b[i] \in Nat
      /\ \A i \in DOMAIN seen[w] : seen[w][i] \in Nat
  OBVIOUS
<1>4. \A e \in since[w] + 1 .. published :
        Has(w, e) => Has(w, e)' \/ e = published
  <2>1. CASE Len(b) < Buffer
    <3>1. buf'[w] = Append(b, published) /\ lost' = lost
      BY <2>1 DEF Offer
    <3>2. \A i \in DOMAIN b : i \in DOMAIN buf'[w] /\ buf'[w][i] = b[i]
      BY <1>3, <3>1
    <3> HIDE DEF b
    <3> QED
      BY <1>1, <3>1, <3>2 DEF Has, b
  <2>2. CASE ~(Len(b) < Buffer)
    <3>1. buf' = buf /\ lost[w] \subseteq lost'[w]
      BY <2>2 DEF Offer
    <3> QED
      BY <1>1, <3>1 DEF Has
  <2> QED
    BY <2>1, <2>2
<1>5. CASE Len(b) < Buffer
  <2> DEFINE c == Append(b, published)
  <2>1. buf'[w] = c /\ lost' = lost
    BY <1>5 DEF Offer
  <2>2. /\ DOMAIN c = 1 .. Len(b) + 1
        /\ DOMAIN b = 1 .. Len(b)
        /\ Len(b) \in Nat
        /\ \A i \in 1 .. Len(b) : c[i] = b[i]
        /\ c[Len(b) + 1] = published
    BY <1>3
  <2> HIDE DEF c, b
  <2>10. \A j \in DOMAIN c : c[j] = published \/ (j \in DOMAIN b /\ c[j] = b[j])
    <3> SUFFICES ASSUME NEW j \in DOMAIN c
                 PROVE  c[j] = published \/ (j \in DOMAIN b /\ c[j] = b[j])
      OBVIOUS
    <3>1. CASE j = Len(b) + 1
      BY <2>2, <3>1
    <3>2. CASE j # Len(b) + 1
      BY <2>2, <3>2
    <3> QED
      BY <3>1, <3>2
  <2>3. \A i \in DOMAIN c : c[i] <= published
    <3> SUFFICES ASSUME NEW i \in DOMAIN c
                 PROVE  c[i] <= published
      OBVIOUS
    <3>1. CASE c[i] = published
      BY <1>1, <3>1
    <3>2. CASE i \in DOMAIN b /\ c[i] = b[i]
      <4>1. b[i] < published /\ b[i] \in Nat
        BY <1>2, <1>3, <3>2 DEF b
      <4> QED
        BY <1>1, <3>2, <4>1
    <3> QED
      BY <2>10, <3>1, <3>2
  <2>4. Aged(w)'
    BY <1>1, <1>2, <2>1, <2>3 DEF Channel, Aged, Past
  <2>5. Numbered(w)'
    <3>1. \A k \in DOMAIN c : k <= c[k]
      <4>1. \A k \in 1 .. Len(b) : k <= c[k]
        BY <2>2 DEF Channel, Numbered, b
      <4>2. Len(b) + 1 <= published
        <5>1. CASE Len(b) = 0
          BY <1>1, <5>1
        <5>2. CASE Len(b) # 0
          <6>1. Len(b) \in DOMAIN b
            BY <2>2, <5>2
          <6>2. Len(b) <= b[Len(b)] /\ b[Len(b)] < published /\ b[Len(b)] \in Nat
            BY <1>2, <1>3, <6>1 DEF Channel, Numbered, b
          <6> QED
            BY <1>1, <2>2, <6>2
        <5> QED
          BY <5>1, <5>2
      <4> QED
        BY <2>2, <4>1, <4>2
    <3> QED
      BY <1>1, <2>1, <3>1 DEF Channel, Numbered
  <2>6. Sorted(w)'
    <3>1. \A i, j \in DOMAIN c : i < j => c[i] < c[j]
      <4>1. \A i, j \in DOMAIN b : i < j => b[i] < b[j]
        BY DEF Channel, Sorted, b
      <4> SUFFICES ASSUME NEW i \in DOMAIN c, NEW j \in DOMAIN c, i < j
                   PROVE  c[i] < c[j]
        OBVIOUS
      <4>2. i \in DOMAIN b /\ c[i] = b[i]
        BY <2>2
      <4>3. CASE j = Len(b) + 1
        BY <1>2, <2>2, <4>2, <4>3
      <4>4. CASE j # Len(b) + 1
        <5>1. j \in DOMAIN b /\ c[j] = b[j]
          BY <2>2, <4>4
        <5> QED
          BY <4>1, <4>2, <5>1
      <4> QED
        BY <4>3, <4>4
    <3>2. \A i \in DOMAIN seen[w] : \A j \in DOMAIN c : seen[w][i] < c[j]
      <4>1. \A i \in DOMAIN seen[w] : \A j \in DOMAIN b : seen[w][i] < b[j]
        BY DEF Channel, Sorted, b
      <4>2. \A j \in DOMAIN c : c[j] = published \/ (j \in DOMAIN b /\ c[j] = b[j])
        BY <2>10
      <4> SUFFICES ASSUME NEW i \in DOMAIN seen[w], NEW j \in DOMAIN c
                   PROVE  seen[w][i] < c[j]
        OBVIOUS
      <4>3. CASE c[j] = published
        BY <1>2, <4>3
      <4>4. CASE j \in DOMAIN b /\ c[j] = b[j]
        BY <4>1, <4>4
      <4> QED
        BY <4>2, <4>3, <4>4
    <3>3. holding[w] # 0 => \A j \in DOMAIN c : holding[w] < c[j]
      <4>1. holding[w] # 0 => \A j \in DOMAIN b : holding[w] < b[j]
        BY DEF Channel, Sorted, b
      <4>2. \A j \in DOMAIN c : c[j] = published \/ (j \in DOMAIN b /\ c[j] = b[j])
        BY <2>10
      <4> SUFFICES ASSUME holding[w] # 0, NEW j \in DOMAIN c
                   PROVE  holding[w] < c[j]
        OBVIOUS
      <4>3. CASE c[j] = published
        BY <1>2, <4>3
      <4>4. CASE j \in DOMAIN b /\ c[j] = b[j]
        BY <4>1, <4>4
      <4> QED
        BY <4>2, <4>3, <4>4
    <3>4. /\ \A i, j \in DOMAIN seen[w] : i < j => seen[w][i] < seen[w][j]
          /\ holding[w] # 0 => \A i \in DOMAIN seen[w] : seen[w][i] < holding[w]
      BY DEF Channel, Sorted
    <3> QED
      BY <1>1, <2>1, <3>1, <3>2, <3>3, <3>4 DEF Sorted
  <2>7. Has(w, published)'
    <3>1. Len(b) + 1 \in DOMAIN c
      BY <2>2
    <3> QED
      BY <1>1, <2>1, <2>2, <3>1 DEF Has
  <2>8. Owed(w)'
    BY <1>1, <1>4, <2>7 DEF Channel, Owed
  <2>9. Late(w)'
    BY <2>1 DEF Channel, Late
  <2> QED
    BY <2>4, <2>5, <2>6, <2>8, <2>9 DEF Channel
<1>6. CASE ~(Len(b) < Buffer)
  <2>1. buf' = buf /\ lost'[w] = lost[w] \cup {published}
    BY <1>6 DEF Offer
  <2>2. Aged(w)'
    BY <1>1, <1>2, <2>1 DEF Channel, Aged, Past
  <2>3. Numbered(w)' /\ Sorted(w)'
    BY <1>1, <2>1 DEF Channel, Numbered, Sorted
  <2>4. Has(w, published)'
    BY <1>1, <2>1 DEF Has
  <2>5. Owed(w)'
    BY <1>1, <1>4, <2>4 DEF Channel, Owed
  <2>6. Late(w)'
    <3>1. Len(b) \in DOMAIN b /\ Buffer <= Len(b) /\ Len(b) \in Nat
      BY <1>3, <1>6, BrokerAssumption DEF BrokerAssumption
    <3>2. Len(b) <= b[Len(b)] /\ b[Len(b)] < published /\ b[Len(b)] \in Nat
      BY <1>2, <1>3, <3>1 DEF Channel, Numbered
    <3>3. Buffer < published
      BY <1>1, <3>1, <3>2, BrokerAssumption DEF BrokerAssumption
    <3> QED
      BY <2>1, <3>3 DEF Channel, Late
  <2> QED
    BY <2>2, <2>3, <2>5, <2>6 DEF Channel
<1> QED
  BY <1>5, <1>6

\* The header is out: from here on every event is owed, and there is none yet.
LEMMA GreetChannel ==
  ASSUME TypeOK, NEW w \in Watchers, Greet(w), Channel(w)
  PROVE  Channel(w)'
<1> USE DEF TypeOK
<1>1. /\ UNCHANGED <<seen, buf, holding, lost, published, pending>>
      /\ wpc[w] = "header"
  BY DEF Greet, broker
<1>2. /\ wpc'[w] \in {"select", "leave"}
      /\ wpc'[w] = "select" => since'[w] = published
  BY DEF Greet, Goto
<1>3. Aged(w)' /\ Sorted(w)' /\ Late(w)'
  BY <1>1 DEF Channel, Aged, Past, Sorted, Late
<1>4. Numbered(w)'
  BY <1>1, <1>2 DEF Channel, Numbered
<1>5. Owed(w)'
  BY <1>1, <1>2 DEF Owed
<1> QED
  BY <1>3, <1>4, <1>5 DEF Channel

\* The first event of the channel is the earliest, and later than those seen.
LEMMA ReceiveChannel ==
  ASSUME TypeOK, NEW w \in Watchers, Receive(w), Channel(w)
  PROVE  Channel(w)'
<1> USE DEF TypeOK
<1> DEFINE b == buf[w]
           c == Tail(b)
<1>1. /\ UNCHANGED <<seen, since, lost, published, pending>>
      /\ wpc[w] = "select" /\ wpc'[w] = "encode"
      /\ holding'[w] = b[1]
      /\ buf'[w] = c
  BY DEF Receive, Goto, broker
<1>2. /\ b \in Seq(Nat) /\ b # <<>> /\ Len(b) \in Nat
      /\ DOMAIN b = 1 .. Len(b)
      /\ 1 \in DOMAIN b
      /\ DOMAIN c = 1 .. Len(b) - 1
      /\ \A k \in DOMAIN c : k + 1 \in DOMAIN b /\ c[k] = b[k + 1]
      /\ \A k \in DOMAIN b : b[k] \in Nat
  BY DEF Receive
<1>3. /\ \A i \in DOMAIN b : Past(w, b[i]) /\ i <= b[i]
      /\ \A i, j \in DOMAIN b : i < j => b[i] < b[j]
      /\ \A i \in DOMAIN seen[w] : \A j \in DOMAIN b : seen[w][i] < b[j]
      /\ holding[w] = 0
  BY <1>1 DEF Channel, Aged, Numbered, Sorted
<1> HIDE DEF b, c
<1>4. Aged(w)'
  <2>1. \A i \in DOMAIN seen[w] : Past(w, seen[w][i])
    BY DEF Channel, Aged
  <2>2. \A k \in DOMAIN c : Past(w, c[k])
    BY <1>2, <1>3
  <2>3. Past(w, b[1])
    BY <1>2, <1>3
  <2> QED
    BY <1>1, <2>1, <2>2, <2>3 DEF Aged, Past
<1>5. Numbered(w)'
  <2>1. \A k \in DOMAIN c : k <= c[k]
    BY <1>2, <1>3
  <2>2. b[1] # 0
    <3>1. 1 <= b[1] /\ b[1] \in Nat
      BY <1>2, <1>3
    <3> QED
      BY <3>1
  <2> QED
    BY <1>1, <2>1, <2>2 DEF Numbered
<1>6. Sorted(w)'
  <2>1. \A i, j \in DOMAIN seen[w] : i < j => seen[w][i] < seen[w][j]
    BY DEF Channel, Sorted
  <2>2. \A i, j \in DOMAIN c : i < j => c[i] < c[j]
    <3> SUFFICES ASSUME NEW i \in DOMAIN c, NEW j \in DOMAIN c, i < j
                 PROVE  c[i] < c[j]
      OBVIOUS
    <3>1. i + 1 < j + 1
      BY <1>2
    <3> QED
      BY <1>2, <1>3, <3>1
  <2>3. \A i \in DOMAIN seen[w] : \A j \in DOMAIN c : seen[w][i] < c[j]
    BY <1>2, <1>3
  <2>4. \A i \in DOMAIN seen[w] : seen[w][i] < b[1]
    BY <1>2, <1>3
  <2>5. \A j \in DOMAIN c : b[1] < c[j]
    <3> SUFFICES ASSUME NEW j \in DOMAIN c
                 PROVE  b[1] < c[j]
      OBVIOUS
    <3>1. 1 < j + 1
      BY <1>2
    <3> QED
      BY <1>2, <1>3, <3>1
  <2> QED
    BY <1>1, <2>1, <2>2, <2>3, <2>4, <2>5 DEF Sorted
<1>7. Owed(w)'
  <2> SUFFICES ASSUME NEW e \in since[w] + 1 .. published
               PROVE  Has(w, e)'
    BY <1>1 DEF Owed
  <2>1. Has(w, e) /\ e # 0
    BY <1>1 DEF Channel, Owed
  <2>2. CASE \E i \in DOMAIN b : b[i] = e
    <3>1. PICK i \in DOMAIN b : b[i] = e
      BY <2>2
    <3>2. CASE i = 1
      BY <1>1, <3>1, <3>2 DEF Has
    <3>3. CASE i # 1
      <4>1. i \in 1 .. Len(b) /\ Len(b) \in Nat
        BY <1>2
      <4> DEFINE k == i - 1
      <4>2. k \in 1 .. Len(b) - 1 /\ k + 1 = i
        BY <3>3, <4>1
      <4> HIDE DEF k
      <4>3. k \in DOMAIN c /\ c[k] = b[k + 1]
        BY <1>2, <4>2
      <4>4. k \in DOMAIN c /\ c[k] = e
        BY <3>1, <4>2, <4>3
      <4> QED
        BY <1>1, <4>4 DEF Has
    <3> QED
      BY <3>2, <3>3
  <2>3. CASE ~\E i \in DOMAIN b : b[i] = e
    BY <1>1, <1>3, <2>1, <2>3 DEF Has, b
  <2> QED
    BY <2>2, <2>3
<1>8. Late(w)'
  BY <1>1 DEF Channel, Late
<1> QED
  BY <1>4, <1>5, <1>6, <1>7, <1>8 DEF Channel

\* The event in hand is written behind those seen, or the watcher is given up.
LEMMA EncodeChannel ==
  ASSUME TypeOK, NEW w \in Watchers, Encode(w), Channel(w)
  PROVE  Channel(w)'
<1> USE DEF TypeOK
<1> DEFINE s == seen[w]
           h == holding[w]
<1>1. /\ UNCHANGED <<buf, since, lost, published, pending>>
      /\ wpc[w] = "encode"
      /\ holding'[w] = 0
  BY DEF Encode, broker
<1>2. /\ s \in Seq(Nat) /\ h \in Nat
      /\ \A i \in DOMAIN s : s[i] \in Nat
      /\ \A j \in DOMAIN buf[w] : buf[w][j] \in Nat
  OBVIOUS
<1>3. h # 0
  BY <1>1 DEF Channel, Numbered
<1>4. Past(w, 0)
  BY <1>2, <1>3 DEF Channel, Aged, Past
<1>5. CASE wpc'[w] = "select" /\ seen'[w] = Append(s, h)
  <2> DEFINE t == Append(s, h)
  <2>1. /\ Len(s) \in Nat /\ DOMAIN s = 1 .. Len(s)
        /\ DOMAIN t = 1 .. Len(s) + 1
        /\ \A i \in DOMAIN s : i \in DOMAIN t /\ t[i] = s[i]
        /\ t[Len(s) + 1] = h
    BY <1>2
  <2>2. seen'[w] = t
    BY <1>5
  <2>3. /\ \A i, j \in DOMAIN s : i < j => s[i] < s[j]
        /\ \A i \in DOMAIN s : \A j \in DOMAIN buf[w] : s[i] < buf[w][j]
        /\ \A i \in DOMAIN s : s[i] < h
        /\ \A j \in DOMAIN buf[w] : h < buf[w][j]
        /\ \A i, j \in DOMAIN buf[w] : i < j => buf[w][i] < buf[w][j]
    BY <1>3 DEF Channel, Sorted
  <2>4. \A i \in DOMAIN s : Past(w, s[i])
    BY DEF Channel, Aged
  <2>5. Past(w, h) /\ \A j \in DOMAIN buf[w] : Past(w, buf[w][j])
    BY DEF Channel, Aged
  <2> HIDE DEF s, t
  <2>6. Aged(w)'
    <3>1. \A i \in DOMAIN t : Past(w, t[i])
      BY <2>1, <2>4, <2>5
    <3> QED
      BY <1>1, <1>4, <2>2, <2>5, <3>1 DEF Aged, Past
  <2>7. Numbered(w)'
    BY <1>1, <1>5 DEF Channel, Numbered
  <2>8. Sorted(w)'
    <3>1. \A i, j \in DOMAIN t : i < j => t[i] < t[j]
      <4> SUFFICES ASSUME NEW i \in DOMAIN t, NEW j \in DOMAIN t, i < j
                   PROVE  t[i] < t[j]
        OBVIOUS
      <4>1. i \in DOMAIN s /\ t[i] = s[i]
        BY <2>1
      <4>2. CASE j = Len(s) + 1
        BY <2>1, <2>3, <4>1, <4>2
      <4>3. CASE j # Len(s) + 1
        <5>1. j \in DOMAIN s /\ t[j] = s[j]
          BY <2>1, <4>3
        <5> QED
          BY <2>3, <4>1, <5>1
      <4> QED
        BY <4>2, <4>3
    <3>2. \A i \in DOMAIN t : \A j \in DOMAIN buf[w] : t[i] < buf[w][j]
      <4>1. \A i \in DOMAIN t : t[i] = h \/ (i \in DOMAIN s /\ t[i] = s[i])
        BY <2>1
      <4> QED
        BY <2>3, <4>1
    <3> QED
      BY <1>1, <2>2, <2>3, <3>1, <3>2 DEF Sorted
  <2>9. Owed(w)'
    <3> SUFFICES ASSUME NEW e \in since[w] + 1 .. published
                 PROVE  Has(w, e)'
      BY <1>1 DEF Owed
    <3>1. Has(w, e)
      BY <1>1 DEF Channel, Owed
    <3>2. CASE e = h
      <4>1. Len(s) + 1 \in DOMAIN t
        BY <2>1
      <4> QED
        BY <2>1, <2>2, <3>2, <4>1 DEF Has
    <3>3. CASE \E i \in DOMAIN s : s[i] = e
      BY <2>1, <2>2, <3>3 DEF Has
    <3>4. CASE ~(e = h \/ \E i \in DOMAIN s : s[i] = e)
      BY <1>1, <3>1, <3>4 DEF Has, s
    <3> QED
      BY <3>2, <3>3, <3>4
  <2>10. Late(w)'
    BY <1>1 DEF Channel, Late
  <2> QED
    BY <2>6, <2>7, <2>8, <2>9, <2>10 DEF Channel
<1>6. CASE wpc'[w] = "leave" /\ seen'[w] = s
  <2>1. Aged(w)'
    BY <1>1, <1>4, <1>6 DEF Channel, Aged, Past
  <2>2. Numbered(w)' /\ Late(w)'
    BY <1>1, <1>6 DEF Channel, Numbered, Late
  <2>3. Sorted(w)'
    BY <1>1, <1>6 DEF Channel, Sorted
  <2>4. Owed(w)'
    BY <1>6 DEF Owed
  <2> QED
    BY <2>1, <2>2, <2>3, <2>4 DEF Channel
<1> QED
  BY <1>5, <1>6 DEF Encode, Goto

\* No step harms the channel of any watcher.
LEMMA ChannelStep ==
  ASSUME TypeOK, Exclusive, [Next]_vars, NEW u \in Watchers, Channel(u)
  PROVE  Channel(u)'
<1> USE DEF TypeOK, broker, watcher
<1>1. ASSUME NEW p \in Publishers, Served(p) \/ EndPublish(p)
      PROVE  Channel(u)'
  BY <1>1, ChannelStable DEF Served, EndPublish
<1>2. ASSUME NEW p \in Publishers, StartPublish(p)
      PROVE  Channel(u)'
  BY <1>2, StartPublishChannel
<1>3. ASSUME NEW p \in Publishers, NEW w \in Watchers, Offer(p, w)
      PROVE  Channel(u)'
  <2>1. CASE u = w
    BY <1>3, <2>1, OfferChannel
  <2>2. CASE u # w
    <3>1. /\ UNCHANGED <<seen, holding, wpc, since, published>>
          /\ u \in pending' <=> u \in pending
      BY <1>3, <2>2 DEF Offer
    <3>2. buf'[u] = buf[u] /\ lost'[u] = lost[u]
      BY <1>3, <2>2 DEF Offer
    <3> QED
      BY <3>1, <3>2, ChannelStable
  <2> QED
    BY <2>1, <2>2
<1>4. ASSUME NEW w \in Watchers, Subscribe(w) \/ NoticeGone(w) \/ Cancel(w)
      PROVE  Channel(u)'
  <2>1. CASE u = w
    BY <1>4, <2>1, ChannelLeft DEF Subscribe, NoticeGone, Cancel, Goto
  <2>2. CASE u # w
    BY <1>4, <2>2, ChannelStable DEF Subscribe, NoticeGone, Cancel, Goto
  <2> QED
    BY <2>1, <2>2
<1>5. ASSUME NEW w \in Watchers, Greet(w)
      PROVE  Channel(u)'
  <2>1. CASE u = w
    BY <1>5, <2>1, GreetChannel
  <2>2. CASE u # w
    <3>1. since'[u] = since[u] /\ wpc'[u] = wpc[u]
      BY <1>5, <2>2 DEF Greet, Goto
    <3> QED
      BY <1>5, <3>1, ChannelStable DEF Greet
  <2> QED
    BY <2>1, <2>2
<1>6. ASSUME NEW w \in Watchers, Receive(w)
      PROVE  Channel(u)'
  <2>1. CASE u = w
    BY <1>6, <2>1, ReceiveChannel
  <2>2. CASE u # w
    BY <1>6, <2>2, ChannelStable DEF Receive, Goto
  <2> QED
    BY <2>1, <2>2
<1>7. ASSUME NEW w \in Watchers, Encode(w)
      PROVE  Channel(u)'
  <2>1. CASE u = w
    BY <1>7, <2>1, EncodeChannel
  <2>2. CASE u # w
    <3>1. seen'[u] = seen[u] /\ wpc'[u] = wpc[u] /\ holding'[u] = holding[u]
      BY <1>7, <2>2 DEF Encode, Goto
    <3> QED
      BY <1>7, <3>1, ChannelStable DEF Encode
  <2> QED
    BY <2>1, <2>2
<1>8. ASSUME NEW w \in Watchers, ClientLeaves(w)
      PROVE  Channel(u)'
  BY <1>8, ChannelStable DEF ClientLeaves
<1>9. CASE UNCHANGED vars
  BY <1>9, ChannelStable DEF vars
<1> QED
  BY <1>1, <1>2, <1>3, <1>4, <1>5, <1>6, <1>7, <1>8, <1>9 DEF Next, Publishing, Watching

-----------------------------------------------------------------------------
(* The theorems.                                                           *)

\* Every variable stays within its type.
THEOREM TypeCorrect == Spec => []TypeOK
<1> QED
  BY InitType, TypeStep, PTL DEF Spec

\* The inductive invariant: the mutex protects the subscribers, and every channel
\* is in order and short of nothing.
THEOREM Invariant == Spec => []IInv
<1>1. Init => IInv
  <2> SUFFICES ASSUME Init
               PROVE  IInv
    OBVIOUS
  <2>1. TypeOK
    BY InitType
  <2>2. Exclusive
    BY BrokerAssumption DEF BrokerAssumption, Publishers, Init, Exclusive, Subscribed
  <2>3. ASSUME NEW w \in Watchers
        PROVE  Channel(w)
    <3>1. /\ seen[w] = <<>> /\ buf[w] = <<>> /\ holding[w] = 0 /\ lost[w] = {}
          /\ published = 0 /\ pending = {} /\ wpc[w] = "new"
      BY DEF Init
    <3> QED
      BY <3>1 DEF Channel, Aged, Past, Numbered, Sorted, Owed, Late
  <2> QED
    BY <2>1, <2>2, <2>3 DEF IInv
<1>2. IInv /\ [Next]_vars => IInv'
  <2> SUFFICES ASSUME IInv, [Next]_vars
               PROVE  IInv'
    OBVIOUS
  <2>1. TypeOK'
    BY TypeStep DEF IInv
  <2>2. Exclusive'
    BY ExclusiveStep DEF IInv
  <2>3. \A w \in Watchers : Channel(w)'
    BY ChannelStep DEF IInv
  <2> QED
    BY <2>1, <2>2, <2>3 DEF IInv
<1> QED
  BY <1>1, <1>2, PTL DEF Spec

\* Publish never sends on a channel that a cancel has closed.
THEOREM NothingSentOnClosed == Spec => []NoSendOnClosed
<1>1. IInv => NoSendOnClosed
  BY DEF IInv, TypeOK, Exclusive, Subscribed, NoSendOnClosed
<1> QED
  BY <1>1, Invariant, PTL

\* Every watcher gets events in the order of their publication, each once.
THEOREM EventsAreInOrder == Spec => []InOrder
<1>1. IInv => InOrder
  BY DEF IInv, Channel, Sorted, InOrder
<1> QED
  BY <1>1, Invariant, PTL

\* A watcher that has the response header has, or is about to be offered, every
\* event published since, but for those its full channel had no room for; and none
\* is lost before a whole channel of them was published.
THEOREM NothingIsMissed == Spec => []NothingMissed
<1>1. IInv => NothingMissed
  <2> SUFFICES ASSUME IInv, NEW w \in Watchers, wpc[w] \in {"select", "encode"},
                      NEW e \in since[w] + 1 .. published
               PROVE  \/ e \in Elements(seen[w]) \cup {holding[w]} \cup Elements(buf[w])
                      \/ e \in lost[w] /\ Buffer < e
                      \/ e = published /\ w \in pending
    BY DEF NothingMissed
  <2>1. Has(w, e)
    BY DEF IInv, Channel, Owed
  <2>2. e \in lost[w] => Buffer < e
    BY DEF IInv, Channel, Late
  <2> QED
    BY <2>1, <2>2 DEF Has, Elements
<1> QED
  BY <1>1, Invariant, PTL
=============================================================================
