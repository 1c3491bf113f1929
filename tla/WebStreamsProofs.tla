-------------------------- MODULE WebStreamsProofs --------------------------
(***************************************************************************)
(* Proofs about WebStreams for any clients, any limits and any number of   *)
(* frames and events. The order in which a client gets frames and events   *)
(* is that of the deliveries that wait in the GMainContext: IInv says what *)
(* is queued there, relative to what was delivered and what is stored.     *)
(***************************************************************************)
EXTENDS WebStreams, SequenceTheorems, FiniteSetTheorems, TLAPS

\* What is queued of a kind lies above low, at most at high, and grows.
Rising(q, kind, low, high) ==
  /\ \A i \in 1 .. Len(q) : q[i].kind = kind => low < q[i].number /\ q[i].number <= high
  /\ \A i, j \in 1 .. Len(q) :
       i < j /\ q[i].kind = kind /\ q[j].kind = kind => q[i].number < q[j].number

\* Nothing of a kind is missing from the queue above low, up to high.
Complete(q, kind, low, high) ==
  \A n \in low + 1 .. high : \E i \in 1 .. Len(q) : q[i].kind = kind /\ q[i].number = n

\* The newest frame that the watcher has posted, at most.
Posted == IF watcherPc = "post" THEN lastSeen - 1 ELSE lastSeen

\* Queued frames are newer than the one shown and than those queued before.
FramesInOrder ==
  /\ shown <= Posted /\ lastSeen <= latest
  /\ Rising(queue, "frame", shown, Posted)

\* Queued are the events published and not heard, each once, in order.
EventsInOrder ==
  /\ heard <= events
  /\ Rising(queue, "event", heard, events) /\ Complete(queue, "event", heard, events)

\* A viewer has the newest frame delivered, or gets it next.
UpToDate(client, newest) ==
  IF client.pending = 0 THEN newest <= client.lastSent
  ELSE client.inFlight /\ client.lastSent < client.pending /\ newest = client.pending

\* A backlog that is the latest events without a gap.
Latest(backlog, newest) ==
  \A i \in 1 .. Len(backlog) : backlog[i] = newest - Len(backlog) + i

\* A listener's backlog is the latest events, and it has all that it does not wait for
\* or has lost.
Caught(client, newest) ==
  /\ Latest(client.backlog, newest)
  /\ client.sent <= newest - Len(client.backlog)
  /\ client.backlog = <<>> => client.sent = newest
  /\ ~client.inFlight => client.sent = newest

ViewersServed == \A v \in Viewers : viewers[v].live => UpToDate(viewers[v], shown)
ListenersServed == \A l \in Listeners : listeners[l].live => Caught(listeners[l], heard)

IInv ==
  /\ TypeOK /\ FramesInOrder /\ EventsInOrder
  /\ ViewersServed /\ ListenersServed /\ EncoderOnDemand

-----------------------------------------------------------------------------
(* The queue. *)

\* What WebAssumption says of each constant.
LEMMA Limits ==
  /\ MaxViewers \in Nat \ {0} /\ MaxListeners \in Nat \ {0} /\ MaxPending \in Nat \ {0}
  /\ MaxFrames \in Nat \ {0} /\ MaxEvents \in Nat
  /\ Frames \subseteq Nat /\ 0 \in Frames /\ Events \subseteq Nat /\ 0 \in Events
  BY WebAssumption DEF Frames, Events

\* What is delivered is a frame or an event, with its number.
LEMMA DeliveryFields ==
  ASSUME NEW d \in Deliveries
  PROVE  /\ d.number \in Nat /\ d.kind \in {"frame", "event"}
         /\ d.kind = "frame" => d.number \in Frames
         /\ d.kind = "event" => d.number \in Events
  BY Limits DEF Deliveries

\* What is queued is a delivery.
LEMMA QueueFields ==
  ASSUME NEW q \in Seq(Deliveries), NEW i \in 1 .. Len(q)
  PROVE  q[i] \in Deliveries /\ q[i].number \in Nat
  BY ElementOfSeq, DeliveryFields

\* A delivery that is posted last, and is the newest of its kind.
LEMMA RisingAppend ==
  ASSUME NEW q \in Seq(Deliveries), NEW d \in Deliveries, NEW kind,
         NEW low \in Int, NEW high \in Int, NEW top \in Int,
         Rising(q, kind, low, high), high <= top,
         d.kind = kind => low < d.number /\ high < d.number /\ d.number <= top
  PROVE  Rising(Append(q, d), kind, low, top)
<1> DEFINE r == Append(q, d)
<1>1. /\ r \in Seq(Deliveries) /\ Len(q) \in Nat /\ Len(r) = Len(q) + 1
      /\ \A i \in 1 .. Len(q) : r[i] = q[i] /\ q[i].number \in Nat
      /\ r[Len(q) + 1] = d /\ d.number \in Nat
  BY AppendProperties, LenProperties, DeliveryFields, QueueFields
<1> HIDE DEF r
<1>2. ASSUME NEW i \in 1 .. Len(r), r[i].kind = kind
      PROVE  low < r[i].number /\ r[i].number <= top
  <2>1. CASE i \in 1 .. Len(q)
    BY <2>1, <1>1, <1>2 DEF Rising
  <2>2. CASE i = Len(q) + 1
    BY <2>2, <1>1, <1>2
  <2> QED
    BY <1>1, <2>1, <2>2
<1>3. ASSUME NEW i \in 1 .. Len(r), NEW j \in 1 .. Len(r),
             i < j, r[i].kind = kind, r[j].kind = kind
      PROVE  r[i].number < r[j].number
  <2>1. i \in 1 .. Len(q)
    BY <1>1, <1>3
  <2>2. CASE j \in 1 .. Len(q)
    BY <2>1, <2>2, <1>1, <1>3 DEF Rising
  <2>3. CASE j = Len(q) + 1
    <3>1. q[i].number <= high
      BY <2>1, <1>1, <1>3 DEF Rising
    <3>2. r[i].number = q[i].number /\ r[j].number = d.number /\ high < d.number
      BY <2>1, <2>3, <1>1, <1>3
    <3>3. q[i].number \in Nat /\ d.number \in Nat
      BY <2>1, <1>1
    <3> HIDE DEF r
    <3> QED
      BY <3>1, <3>2, <3>3
  <2> QED
    BY <1>1, <2>2, <2>3
<1> QED
  BY <1>2, <1>3 DEF Rising, r

\* The delivery that is run is the oldest of its kind, and the rest is newer.
LEMMA RisingTail ==
  ASSUME NEW q \in Seq(Deliveries), q # <<>>, NEW kind,
         NEW low \in Int, NEW high \in Int, Rising(q, kind, low, high)
  PROVE  /\ Head(q).kind # kind => Rising(Tail(q), kind, low, high)
         /\ Head(q).kind = kind =>
              /\ low < Head(q).number /\ Head(q).number <= high
              /\ Rising(Tail(q), kind, Head(q).number, high)
<1> DEFINE r == Tail(q)
<1>1. /\ r \in Seq(Deliveries) /\ Len(q) \in Nat /\ Len(q) > 0 /\ Len(r) = Len(q) - 1
      /\ \A i \in 1 .. Len(r) : r[i] = q[i + 1]
      /\ Head(q) = q[1]
  BY HeadTailProperties, LenProperties, EmptySeq
<1> HIDE DEF r
<1>2. \A i \in 1 .. Len(r) : i + 1 \in 1 .. Len(q) /\ 1 < i + 1
  BY <1>1
<1>3. ASSUME NEW i \in 1 .. Len(r), r[i].kind = kind
      PROVE  low < r[i].number /\ r[i].number <= high
  BY <1>1, <1>2, <1>3 DEF Rising
<1>4. ASSUME NEW i \in 1 .. Len(r), NEW j \in 1 .. Len(r),
             i < j, r[i].kind = kind, r[j].kind = kind
      PROVE  r[i].number < r[j].number
  <2>1. i + 1 < j + 1
    BY <1>1, <1>4
  <2> QED
    BY <2>1, <1>1, <1>2, <1>4 DEF Rising
<1>5. ASSUME Head(q).kind = kind
      PROVE  /\ low < Head(q).number /\ Head(q).number <= high
             /\ \A i \in 1 .. Len(r) : r[i].kind = kind => Head(q).number < r[i].number
  <2>1. 1 \in 1 .. Len(q)
    BY <1>1
  <2> QED
    BY <2>1, <1>1, <1>2, <1>5 DEF Rising
<1> QED
  BY <1>3, <1>4, <1>5 DEF Rising, r

\* An event that is published is queued after those that were.
LEMMA CompleteAppend ==
  ASSUME NEW q \in Seq(Deliveries), NEW d \in Deliveries, NEW kind,
         NEW low \in Int, NEW high \in Int, Complete(q, kind, low, high)
  PROVE  /\ Complete(Append(q, d), kind, low, high)
         /\ d.kind = kind /\ d.number = high + 1 => Complete(Append(q, d), kind, low, high + 1)
<1> DEFINE r == Append(q, d)
<1>1. /\ Len(q) \in Nat /\ Len(r) = Len(q) + 1
      /\ \A i \in 1 .. Len(q) : r[i] = q[i]
      /\ r[Len(q) + 1] = d
  BY AppendProperties, LenProperties
<1> HIDE DEF r
<1>2. ASSUME NEW n \in low + 1 .. high
      PROVE  \E i \in 1 .. Len(r) : r[i].kind = kind /\ r[i].number = n
  <2>1. PICK i \in 1 .. Len(q) : q[i].kind = kind /\ q[i].number = n
    BY DEF Complete
  <2>2. i \in 1 .. Len(r) /\ r[i] = q[i]
    BY <1>1
  <2> QED
    BY <2>1, <2>2
<1>3. ASSUME d.kind = kind, d.number = high + 1, NEW n \in low + 1 .. high + 1
      PROVE  \E i \in 1 .. Len(r) : r[i].kind = kind /\ r[i].number = n
  <2>1. CASE n = high + 1
    <3>1. Len(q) + 1 \in 1 .. Len(r)
      BY <1>1
    <3> QED
      BY <3>1, <2>1, <1>1, <1>3
  <2>2. CASE n \in low + 1 .. high
    BY <2>2, <1>2
  <2> QED
    BY <2>1, <2>2
<1> QED
  BY <1>2, <1>3 DEF Complete, r

\* If no event is missing, the oldest one in the queue is the next to be heard.
LEMMA CompleteTail ==
  ASSUME NEW q \in Seq(Deliveries), q # <<>>, NEW kind,
         NEW low \in Int, NEW high \in Int,
         Rising(q, kind, low, high), Complete(q, kind, low, high)
  PROVE  /\ Head(q).kind # kind => Complete(Tail(q), kind, low, high)
         /\ Head(q).kind = kind =>
              Head(q).number = low + 1 /\ Complete(Tail(q), kind, low + 1, high)
<1> DEFINE r == Tail(q)
<1>1. /\ Len(q) \in Nat /\ Len(q) > 0 /\ Len(r) = Len(q) - 1
      /\ \A i \in 1 .. Len(r) : r[i] = q[i + 1]
      /\ Head(q) = q[1] /\ 1 \in 1 .. Len(q)
  BY HeadTailProperties, LenProperties, EmptySeq
<1>2. \A i \in 1 .. Len(q) : q[i].number \in Nat
  BY QueueFields
<1> HIDE DEF r
<1>3. ASSUME NEW n \in low + 1 .. high, Head(q).kind = kind => n # Head(q).number
      PROVE  \E i \in 1 .. Len(r) : r[i].kind = kind /\ r[i].number = n
  <2>1. PICK i \in 1 .. Len(q) : q[i].kind = kind /\ q[i].number = n
    BY DEF Complete
  <2>2. i # 1
    BY <2>1, <1>1, <1>3
  <2>3. i - 1 \in 1 .. Len(r) /\ r[i - 1] = q[i]
    BY <2>2, <1>1
  <2> QED
    BY <2>1, <2>3
<1>4. ASSUME Head(q).kind = kind PROVE Head(q).number = low + 1
  <2>1. low < Head(q).number /\ Head(q).number <= high
    BY <1>1, <1>4 DEF Rising
  <2>2. low + 1 \in low + 1 .. high
    BY <2>1, <1>1, <1>2
  <2>3. PICK i \in 1 .. Len(q) : q[i].kind = kind /\ q[i].number = low + 1
    BY <2>2 DEF Complete
  <2>4. i # 1 => Head(q).number < low + 1
    BY <2>3, <1>1, <1>4 DEF Rising
  <2> QED
    BY <2>1, <2>3, <2>4, <1>1, <1>2
<1>5. ASSUME Head(q).kind = kind PROVE Complete(r, kind, low + 1, high)
  <2>1. \A n \in (low + 1) + 1 .. high : n \in low + 1 .. high /\ n # Head(q).number
    BY <1>4, <1>5
  <2> QED
    BY <2>1, <1>3 DEF Complete
<1>6. ASSUME Head(q).kind # kind PROVE Complete(r, kind, low, high)
  BY <1>3, <1>6 DEF Complete
<1> QED
  BY <1>4, <1>5, <1>6 DEF r

-----------------------------------------------------------------------------
(* One client. *)

\* What a preview client holds.
LEMMA ViewerFields ==
  ASSUME NEW client \in ViewerTypes
  PROVE  /\ client.live = TRUE /\ client.lastSent \in Nat /\ client.pending \in Nat
         /\ client.inFlight \in BOOLEAN
         /\ client.lastSent \in Frames /\ client.pending \in Frames
  BY Limits DEF ViewerTypes

\* What a transcript client holds.
LEMMA ListenerFields ==
  ASSUME NEW client \in ListenerTypes
  PROVE  /\ client.live = TRUE /\ client.sent \in Events /\ client.sent \in Nat
         /\ client.inFlight \in BOOLEAN
         /\ client.backlog \in Seq(Events) /\ Len(client.backlog) \in Nat
<1>1. /\ client.live = TRUE /\ client.sent \in Events /\ client.inFlight \in BOOLEAN
      /\ client.backlog \in Seq(Events)
  BY DEF ListenerTypes
<1> QED
  BY <1>1, Limits, LenProperties

\* A preview client as it is when it comes.
LEMMA ViewerMade ==
  ASSUME NEW last \in Frames, NEW flying \in BOOLEAN, NEW pending \in Frames
  PROVE  /\ Viewer(last, flying, pending) \in ViewerTypes
         /\ Viewer(last, flying, pending).live
         /\ Viewer(last, flying, pending).lastSent = last
         /\ Viewer(last, flying, pending).inFlight = flying
         /\ Viewer(last, flying, pending).pending = pending
  BY DEF Viewer, ViewerTypes

\* A preview client to which a frame was just sent.
LEMMA SendMade ==
  ASSUME NEW client, NEW frame \in Frames
  PROVE  /\ Send(client, frame) \in ViewerTypes /\ Send(client, frame).live
         /\ Send(client, frame).lastSent = frame /\ Send(client, frame).pending = 0
  BY Limits DEF Send, Viewer, ViewerTypes

\* A transcript client with a chunk on its way.
LEMMA ListenerMade ==
  ASSUME NEW sent \in Events, NEW backlog \in Seq(Events)
  PROVE  /\ Listener(sent, TRUE, backlog) \in ListenerTypes
         /\ Listener(sent, TRUE, backlog).live = TRUE
         /\ Listener(sent, TRUE, backlog).inFlight
         /\ Listener(sent, TRUE, backlog).sent = sent
         /\ Listener(sent, TRUE, backlog).backlog = backlog
  BY DEF Listener, ListenerTypes

\* A frame newer than the last one delivered leaves the viewer with it, or with it next.
LEMMA OfferFrameServes ==
  ASSUME NEW client \in ViewerTypes, NEW last \in Nat, NEW frame \in Frames,
         last < frame, UpToDate(client, last)
  PROVE  /\ OfferFrame(client, frame) \in ViewerTypes
         /\ UpToDate(OfferFrame(client, frame), frame)
<1>1. /\ frame \in Nat /\ 0 \in Frames
      /\ client.lastSent \in Nat /\ client.pending \in Nat
  BY ViewerFields, Limits
<1>2. CASE frame <= client.lastSent
  <2>1. client.pending # 0 => client.lastSent < client.pending /\ last = client.pending
    BY DEF UpToDate
  <2>2. OfferFrame(client, frame) = client
    BY <1>2 DEF OfferFrame
  <2>3. client.pending = 0
    BY <1>1, <1>2, <2>1
  <2> QED
    BY <1>2, <2>2, <2>3 DEF UpToDate
<1>3. CASE ~(frame <= client.lastSent) /\ client.inFlight
  <2> DEFINE next == [client EXCEPT !.pending = frame]
  <2>1. OfferFrame(client, frame) = next
    BY <1>3 DEF OfferFrame
  <2>2. /\ next \in ViewerTypes
        /\ next.pending = frame /\ next.inFlight = client.inFlight
        /\ next.lastSent = client.lastSent
    BY DEF ViewerTypes
  <2>3. client.lastSent < frame /\ frame # 0
    BY <1>1, <1>3
  <2> HIDE DEF next
  <2> QED
    BY <1>3, <2>1, <2>2, <2>3 DEF UpToDate
<1>4. CASE ~(frame <= client.lastSent) /\ ~client.inFlight
  <2>1. OfferFrame(client, frame) = Send(client, frame)
    BY <1>4 DEF OfferFrame
  <2>2. /\ Send(client, frame) \in ViewerTypes
        /\ Send(client, frame).lastSent = frame /\ Send(client, frame).pending = 0
    BY SendMade
  <2>3. frame <= frame
    BY <1>1
  <2> QED
    BY <2>1, <2>2, <2>3, Zenon DEF UpToDate
<1> QED
  BY <1>2, <1>3, <1>4

\* A backlog without its oldest event is the latest ones still.
LEMMA BacklogLoses ==
  ASSUME NEW backlog \in Seq(Events), NEW last \in Nat, backlog # <<>>,
         Latest(backlog, last)
  PROVE  /\ Tail(backlog) \in Seq(Events)
         /\ Len(backlog) \in Nat \ {0} /\ Len(Tail(backlog)) = Len(backlog) - 1
         /\ Head(backlog) \in Events /\ Head(backlog) = last - Len(backlog) + 1
         /\ Latest(Tail(backlog), last)
<1> DEFINE rest == Tail(backlog)
           size == Len(backlog)
<1>1. /\ rest \in Seq(Events) /\ size \in Nat \ {0} /\ Len(rest) = size - 1
      /\ Head(backlog) \in Events /\ Head(backlog) = backlog[1]
      /\ \A i \in 1 .. Len(rest) : rest[i] = backlog[i + 1]
  BY HeadTailProperties, LenProperties, EmptySeq
<1>2. \A i \in 1 .. size : backlog[i] = last - size + i
  BY DEF Latest
<1> HIDE DEF rest, size
<1>3. \A i \in 1 .. Len(rest) : i + 1 \in 1 .. size /\ i \in Int
  BY <1>1
<1>4. ASSUME NEW i \in 1 .. Len(rest) PROVE rest[i] = last - Len(rest) + i
  <2>1. rest[i] = last - size + (i + 1)
    BY <1>1, <1>2, <1>3
  <2> QED
    BY <2>1, <1>1, <1>3
<1>5. Head(backlog) = last - size + 1
  BY <1>1, <1>2
<1> QED
  BY <1>1, <1>4, <1>5 DEF rest, size, Latest

\* A backlog that takes the next event stays the latest events.
LEMMA BacklogTakes ==
  ASSUME NEW backlog \in Seq(Events), NEW last \in Nat, Latest(backlog, last),
         NEW event \in Events, event = last + 1
  PROVE  /\ Append(backlog, event) \in Seq(Events)
         /\ Len(Append(backlog, event)) = Len(backlog) + 1 /\ Append(backlog, event) # <<>>
         /\ Latest(Append(backlog, event), event)
<1> DEFINE next == Append(backlog, event)
           size == Len(backlog)
<1>1. \A i \in 1 .. size : backlog[i] = last - size + i
  BY DEF Latest
<1>2. /\ size \in Nat /\ next \in Seq(Events) /\ Len(next) = size + 1 /\ next # <<>>
      /\ \A i \in 1 .. size : next[i] = backlog[i]
      /\ next[size + 1] = last + 1
  BY AppendProperties, LenProperties
<1> HIDE DEF next, size
<1>3. ASSUME NEW i \in 1 .. Len(next) PROVE next[i] = last + 1 - Len(next) + i
  <2>1. CASE i \in 1 .. size
    BY <2>1, <1>1, <1>2
  <2>2. CASE i = size + 1
    BY <2>2, <1>2
  <2> QED
    BY <2>1, <2>2, <1>2
<1> QED
  BY <1>2, <1>3 DEF next, size, Latest

\* Events that a listener was neither sent nor waits for.
Missed(client, newest) == newest - Len(client.backlog) - client.sent

\* A listener with a chunk on its way and the latest events as its backlog.
LEMMA BusyIsCaught ==
  ASSUME NEW sent \in Events, NEW backlog \in Seq(Events), NEW newest \in Nat,
         Latest(backlog, newest), sent <= newest - Len(backlog),
         backlog = <<>> => sent = newest
  PROVE  /\ Listener(sent, TRUE, backlog) \in ListenerTypes
         /\ Caught(Listener(sent, TRUE, backlog), newest)
         /\ Len(Listener(sent, TRUE, backlog).backlog) = Len(backlog)
         /\ Missed(Listener(sent, TRUE, backlog), newest) = newest - Len(backlog) - sent
<1> DEFINE next == Listener(sent, TRUE, backlog)
<1>1. /\ next \in ListenerTypes /\ next.inFlight
      /\ next.sent = sent /\ next.backlog = backlog
  BY ListenerMade
<1> HIDE DEF next
<1>2. Caught(next, newest)
  BY <1>1, Zenon DEF Caught
<1>3. Missed(next, newest) = newest - Len(backlog) - sent
  BY <1>1, Zenon DEF Missed
<1> QED
  BY <1>1, <1>2, <1>3 DEF next

\* What the next event makes of a listener.
LEMMA OfferEventServes ==
  ASSUME NEW client \in ListenerTypes, NEW last \in Nat,
         NEW event \in Events, event = last + 1,
         Caught(client, last), Len(client.backlog) <= MaxPending
  PROVE  /\ OfferEvent(client, event) \in ListenerTypes
         /\ Caught(OfferEvent(client, event), event)
         /\ Len(OfferEvent(client, event).backlog) <= MaxPending
         /\ Missed(OfferEvent(client, event), event) > Missed(client, last)
              => Len(client.backlog) = MaxPending
<1> DEFINE full == Len(client.backlog) >= MaxPending
           kept == IF full THEN Tail(client.backlog) ELSE client.backlog
           size == Len(client.backlog)
           taken == Append(kept, event)
           next == OfferEvent(client, event)
<1>1. /\ event \in Nat /\ client.sent \in Events /\ client.sent \in Nat /\ size \in Nat
      /\ client.backlog \in Seq(Events) /\ MaxPending \in Nat \ {0}
      /\ size <= MaxPending
  BY ListenerFields, Limits
<1>2. /\ Latest(client.backlog, last)
      /\ client.sent <= last - size
      /\ ~client.inFlight => client.sent = last
  BY DEF Caught
<1>3. Missed(client, last) = last - size - client.sent
  BY DEF Missed
<1>4. CASE client.inFlight
  <2>1. next = Listener(client.sent, TRUE, taken)
    BY <1>4 DEF OfferEvent, Offered, IsFull
  <2>2. /\ taken \in Seq(Events)
        /\ Len(taken) = IF full THEN size ELSE size + 1
        /\ taken # <<>>
        /\ Latest(taken, event)
    <3>1. kept \in Seq(Events) /\ Latest(kept, last)
      <4>1. CASE full
        <5>1. client.backlog # <<>> /\ kept = Tail(client.backlog)
          BY <1>1, <4>1, EmptySeq
        <5> HIDE DEF kept
        <5> QED
          BY <1>1, <1>2, <5>1, BacklogLoses, Zenon
      <4>2. CASE ~full
        BY <1>1, <1>2, <4>2
      <4> QED
        BY <4>1, <4>2
    <3>2. Len(kept) = IF full THEN size - 1 ELSE size
      BY <1>1, HeadTailProperties, EmptySeq
    <3> HIDE DEF kept, full
    <3>3. /\ taken \in Seq(Events) /\ Latest(taken, event)
          /\ Len(taken) = Len(kept) + 1 /\ taken # <<>>
      BY <3>1, BacklogTakes, Zenon
    <3> HIDE DEF taken, size
    <3> QED
      BY <1>1, <3>2, <3>3
  <2>3. full <=> size = MaxPending
    BY <1>1
  <2> HIDE DEF taken, size, full, next
  <2>4. /\ client.sent <= event - Len(taken) /\ Len(taken) <= MaxPending
        /\ event - Len(taken) - client.sent > last - size - client.sent
             => size = MaxPending
    BY <1>1, <1>2, <2>2, <2>3
  <2>5. /\ next \in ListenerTypes /\ Caught(next, event)
        /\ Len(next.backlog) = Len(taken)
        /\ Missed(next, event) = event - Len(taken) - client.sent
    <3>1. next = Listener(client.sent, TRUE, taken)
      BY <2>1 DEF next
    <3>2. Latest(taken, event) /\ client.sent <= event - Len(taken)
      BY <2>2, <2>4
    <3> QED
      BY <1>1, <2>2, <3>1, <3>2, BusyIsCaught, Zenon
  <2> QED
    BY <1>3, <2>4, <2>5 DEF next, size
<1>5. CASE ~client.inFlight
  <2>1. client.sent = last
    BY <1>2, <1>5
  <2>2. size = 0
    BY <1>1, <1>2, <2>1
  <2>3. next = Listener(event, TRUE, client.backlog)
    BY <1>5 DEF OfferEvent, Offered
  <2>4. /\ Latest(client.backlog, event)
        /\ event <= event - Len(client.backlog)
    BY <2>2 DEF Latest
  <2> HIDE DEF next
  <2>5. /\ next \in ListenerTypes /\ Caught(next, event)
        /\ Len(next.backlog) = Len(client.backlog)
        /\ Missed(next, event) = event - Len(client.backlog) - event
    <3>1. /\ next = Listener(event, TRUE, client.backlog)
          /\ Latest(client.backlog, event) /\ event <= event - Len(client.backlog)
      BY <2>3, <2>4 DEF next
    <3> QED
      BY <1>1, <3>1, BusyIsCaught, Zenon
  <2>6. ~(event - Len(client.backlog) - event > last - size - client.sent)
    BY <2>1, <2>2
  <2> QED
    BY <1>1, <1>3, <2>5, <2>6 DEF next
<1> QED
  BY <1>4, <1>5

-----------------------------------------------------------------------------
(* The order of the deliveries. *)

\* What TypeOK says of each number and of the queue.
LEMMA Numbers ==
  ASSUME TypeOK
  PROVE  /\ latest \in Nat /\ lastSeen \in Nat /\ shown \in Nat /\ Posted \in Int
         /\ lastSeen \in Frames /\ latest \in Frames /\ shown \in Frames
         /\ events \in Nat /\ heard \in Nat /\ events \in Events /\ heard \in Events
         /\ queue \in Seq(Deliveries)
<1>1. /\ {latest, lastSeen, shown} \subseteq Frames /\ {events, heard} \subseteq Events
      /\ queue \in Seq(Deliveries)
  BY DEF TypeOK, NumberTypes
<1>2. latest \in Frames /\ lastSeen \in Frames /\ shown \in Frames
  BY <1>1
<1>3. events \in Events /\ heard \in Events
  BY <1>1
<1>4. lastSeen \in Nat
  BY <1>2, Limits
<1>5. Posted \in Int
  BY <1>4 DEF Posted
<1> QED
  BY <1>1, <1>2, <1>3, <1>5, Limits

\* The newest number there may be moves up as the watcher goes on.
LEMMA RisingWiden ==
  ASSUME NEW q \in Seq(Deliveries), NEW kind, NEW low \in Int, NEW high \in Int,
         NEW top \in Int, Rising(q, kind, low, high), high <= top
  PROVE  Rising(q, kind, low, top)
<1>1. \A i \in 1 .. Len(q) : q[i].number \in Nat
  BY QueueFields
<1> QED
  BY <1>1 DEF Rising

\* What the watcher posts.
LEMMA FrameDelivery ==
  ASSUME NEW n \in Frames
  PROVE  /\ [kind |-> "frame", number |-> n] \in Deliveries
         /\ [kind |-> "frame", number |-> n].kind = "frame"
         /\ [kind |-> "frame", number |-> n].number = n
  BY DEF Deliveries

\* What the whisper thread posts.
LEMMA EventDelivery ==
  ASSUME NEW n \in Events
  PROVE  /\ [kind |-> "event", number |-> n] \in Deliveries
         /\ [kind |-> "event", number |-> n].kind = "event"
         /\ [kind |-> "event", number |-> n].number = n
  BY DEF Deliveries


\* The watcher posts each frame once and in order, whatever else is queued between.
LEMMA FramesNext == IInv /\ [Next]_vars => FramesInOrder'
<1> SUFFICES ASSUME IInv, [Next]_vars PROVE FramesInOrder'
  OBVIOUS
<1> USE DEF IInv, FramesInOrder, preview, transcript, server
<1>1. CASE UNCHANGED <<queue, latest, watcherPc, lastSeen, shown>>
  BY <1>1 DEF Posted
<1>2. CASE Store
  <2>1. /\ latest' = latest + 1
        /\ UNCHANGED <<queue, watcherPc, lastSeen, shown>>
    BY <1>2, Zenon DEF Store
  <2>2. lastSeen <= latest + 1
    BY Numbers
  <2> QED
    BY <2>1, <2>2 DEF Posted
<1>3. CASE Publish
  <2> DEFINE d == [kind |-> "event", number |-> events + 1]
  <2>1. /\ queue' = Append(queue, d) /\ events + 1 \in Events
        /\ UNCHANGED <<latest, watcherPc, lastSeen, shown>>
    <3>1. events' = events + 1 /\ events < MaxEvents
      BY <1>3, Zenon DEF Publish
    <3>2. events + 1 \in Events
      BY <3>1, Numbers, Limits DEF Events
    <3> QED
      BY <1>3, <3>1, <3>2, Zenon DEF Publish
  <2>2. d \in Deliveries /\ d.kind # "frame"
    BY <2>1, EventDelivery
  <2> HIDE DEF d
  <2>3. Rising(Append(queue, d), "frame", shown, Posted)
    BY <2>2, Numbers, RisingAppend
  <2> QED
    BY <2>1, <2>3 DEF Posted
<1>4. CASE WatcherChecks
  <2>1. /\ watcherPc # "post" /\ watcherPc' # "post"
        /\ UNCHANGED <<queue, latest, lastSeen, shown>>
    BY <1>4 DEF WatcherChecks
  <2> QED
    BY <2>1 DEF Posted
<1>5. CASE WatcherSees
  <2>1. /\ watcherPc = "wait" /\ latest > lastSeen /\ lastSeen' = latest
        /\ watcherPc' = "post" /\ UNCHANGED <<queue, latest, shown>>
    BY <1>5 DEF WatcherSees, Newer
  <2>2. Posted = lastSeen /\ Posted' = latest - 1
    BY <2>1 DEF Posted
  <2>3. lastSeen <= latest - 1 /\ shown <= latest - 1 /\ latest <= latest
    BY <2>1, <2>2, Numbers
  <2>4. Rising(queue, "frame", shown, latest - 1)
    BY <2>2, <2>3, Numbers, RisingWiden
  <2> QED
    BY <2>1, <2>2, <2>3, <2>4
<1>6. CASE WatcherPosts
  <2> DEFINE d == [kind |-> "frame", number |-> lastSeen]
  <2>1. /\ watcherPc = "post" /\ watcherPc' = "check" /\ queue' = Append(queue, d)
        /\ UNCHANGED <<latest, lastSeen, shown>>
    BY <1>6, Zenon DEF WatcherPosts
  <2>2. Posted = lastSeen - 1 /\ Posted' = lastSeen
    BY <2>1 DEF Posted
  <2>3. d \in Deliveries /\ d.number = lastSeen
    BY Numbers, FrameDelivery
  <2> HIDE DEF d
  <2>4. shown < lastSeen /\ lastSeen - 1 < lastSeen /\ lastSeen <= lastSeen
    BY <2>2, Numbers
  <2>5. Rising(Append(queue, d), "frame", shown, lastSeen)
    BY <2>2, <2>3, <2>4, Numbers, RisingAppend
  <2>6. shown <= lastSeen
    BY <2>4, Numbers
  <2> QED
    BY <2>1, <2>2, <2>5, <2>6
<1>7. CASE WatcherEnds
  <2>1. /\ watcherPc # "post" /\ watcherPc' # "post"
        /\ UNCHANGED <<queue, latest, lastSeen, shown>>
    BY <1>7 DEF WatcherEnds
  <2> QED
    BY <2>1 DEF Posted
<1>8. CASE DeliverFrame
  <2>1. /\ queue # <<>> /\ Head(queue).kind = "frame" /\ queue' = Tail(queue)
        /\ shown' = Head(queue).number /\ UNCHANGED <<latest, watcherPc, lastSeen>>
    BY <1>8, Zenon DEF DeliverFrame
  <2>2. /\ Head(queue).number <= Posted
        /\ Rising(Tail(queue), "frame", Head(queue).number, Posted)
    BY <2>1, Numbers, RisingTail
  <2> QED
    BY <2>1, <2>2 DEF Posted
<1>9. CASE DeliverEvent
  <2>1. /\ queue # <<>> /\ Head(queue).kind # "frame" /\ queue' = Tail(queue)
        /\ UNCHANGED <<latest, watcherPc, lastSeen, shown>>
    BY <1>9 DEF DeliverEvent
  <2>2. Rising(Tail(queue), "frame", shown, Posted)
    BY <2>1, Numbers, RisingTail
  <2> QED
    BY <2>1, <2>2 DEF Posted
<1> HIDE DEF IInv, FramesInOrder
<1> QED
  BY <1>1, <1>2, <1>3, <1>4, <1>5, <1>6, <1>7, <1>8, <1>9
     DEF Next, Watcher, Deliver, Clients, Shutdown, vars, HandleMjpeg, ViewerWrote,
         ViewerFinished, HandleTranscript, ListenerWrote, ListenerFinished,
         LoopStarts, RequestStop, QuitLoop, Disconnect, ServerGone

\* An event is queued when it is published, and leaves the queue when it is heard.
LEMMA EventsNext == IInv /\ [Next]_vars => EventsInOrder'
<1> SUFFICES ASSUME IInv, [Next]_vars PROVE EventsInOrder'
  OBVIOUS
<1> USE DEF IInv, EventsInOrder, preview, transcript, server
<1>1. CASE UNCHANGED <<queue, events, heard>>
  BY <1>1
<1>2. CASE Publish
  <2> DEFINE d == [kind |-> "event", number |-> events + 1]
  <2>1. events' = events + 1 /\ events < MaxEvents
    BY <1>2, Zenon DEF Publish
  <2>2. events + 1 \in Events
    BY <2>1, Numbers, Limits DEF Events
  <2>3. queue' = Append(queue, d) /\ heard' = heard
    BY <1>2, <2>1, Zenon DEF Publish
  <2>4. d \in Deliveries /\ d.kind = "event" /\ d.number = events + 1
    BY <2>2, EventDelivery
  <2> HIDE DEF d
  <2>5. /\ heard <= events + 1 /\ heard < events + 1 /\ events < events + 1
        /\ events <= events + 1 /\ events + 1 <= events + 1 /\ events + 1 \in Int
    BY Numbers
  <2>6. Rising(Append(queue, d), "event", heard, events + 1)
    BY <2>4, <2>5, Numbers, RisingAppend
  <2>7. Complete(Append(queue, d), "event", heard, events + 1)
    BY <2>4, Numbers, CompleteAppend
  <2> QED
    BY <2>1, <2>3, <2>5, <2>6, <2>7
<1>3. CASE WatcherPosts
  <2> DEFINE d == [kind |-> "frame", number |-> lastSeen]
  <2>1. queue' = Append(queue, d) /\ UNCHANGED <<events, heard>>
    BY <1>3, Zenon DEF WatcherPosts
  <2>2. d \in Deliveries /\ d.kind # "event"
    BY Numbers, FrameDelivery
  <2> HIDE DEF d
  <2>3. Rising(Append(queue, d), "event", heard, events)
    BY <2>2, Numbers, RisingAppend
  <2>4. Complete(Append(queue, d), "event", heard, events)
    BY <2>2, Numbers, CompleteAppend
  <2> QED
    BY <2>1, <2>3, <2>4
<1>4. CASE DeliverFrame
  <2>1. /\ queue # <<>> /\ Head(queue).kind # "event" /\ queue' = Tail(queue)
        /\ UNCHANGED <<events, heard>>
    BY <1>4 DEF DeliverFrame
  <2>2. Rising(Tail(queue), "event", heard, events)
    BY <2>1, Numbers, RisingTail
  <2>3. Complete(Tail(queue), "event", heard, events)
    BY <2>1, Numbers, CompleteTail
  <2> QED
    BY <2>1, <2>2, <2>3
<1>5. CASE DeliverEvent
  <2>1. /\ queue # <<>> /\ Head(queue).kind = "event" /\ queue' = Tail(queue)
        /\ heard' = Head(queue).number /\ events' = events
    BY <1>5, Zenon DEF DeliverEvent
  <2>2. /\ Head(queue).number <= events
        /\ Rising(Tail(queue), "event", Head(queue).number, events)
    BY <2>1, Numbers, RisingTail
  <2>3. /\ Head(queue).number = heard + 1
        /\ Complete(Tail(queue), "event", heard + 1, events)
    BY <2>1, Numbers, CompleteTail
  <2> QED
    BY <2>1, <2>2, <2>3
<1> HIDE DEF IInv, EventsInOrder
<1> QED
  BY <1>1, <1>2, <1>3, <1>4, <1>5
     DEF Next, Watcher, Deliver, Clients, Shutdown, vars, Store, WatcherChecks,
         WatcherSees, WatcherEnds, HandleMjpeg, ViewerWrote, ViewerFinished,
         HandleTranscript, ListenerWrote, ListenerFinished, LoopStarts, RequestStop,
         QuitLoop, Disconnect, ServerGone

\* What is run next: a frame newer than the one shown, or the event after the one heard.
LEMMA NextDelivery ==
  ASSUME IInv, queue # <<>>
  PROVE  /\ Head(queue).kind = "frame" =>
              Head(queue).number \in Frames /\ shown < Head(queue).number
         /\ Head(queue).kind = "event" =>
              Head(queue).number \in Events /\ Head(queue).number = heard + 1
<1>1. TypeOK /\ FramesInOrder /\ EventsInOrder
  BY DEF IInv
<1>2. Head(queue) \in Deliveries
  BY <1>1, Numbers, HeadTailProperties
<1>3. Head(queue).kind = "frame" => shown < Head(queue).number
  BY <1>1, Numbers, RisingTail DEF FramesInOrder
<1>4. Head(queue).kind = "event" => Head(queue).number = heard + 1
  BY <1>1, Numbers, CompleteTail DEF EventsInOrder
<1> QED
  BY <1>2, <1>3, <1>4, DeliveryFields

-----------------------------------------------------------------------------
(* The clients. *)

\* Who is not connected gets nothing.
LEMMA NobodyIsDead == Nobody.live = FALSE
  BY DEF Nobody

\* Clients can be counted.
LEMMA LiveFinite ==
  ASSUME NEW f, IsFiniteSet(DOMAIN f)
  PROVE  IsFiniteSet(Live(f)) /\ Cardinality(Live(f)) \in Nat
<1>1. Live(f) \in SUBSET DOMAIN f
  BY DEF Live
<1> QED
  BY <1>1, FS_Subset, FS_CardinalityType

\* A client comes, or stays.
LEMMA LiveAdds ==
  ASSUME NEW f, IsFiniteSet(DOMAIN f), NEW d \in DOMAIN f, NEW x, x.live
  PROVE  /\ Live([f EXCEPT ![d] = x]) = Live(f) \cup {d}
         /\ f[d].live => Cardinality(Live([f EXCEPT ![d] = x])) = Cardinality(Live(f))
         /\ ~f[d].live => Cardinality(Live([f EXCEPT ![d] = x])) = Cardinality(Live(f)) + 1
<1>1. Live([f EXCEPT ![d] = x]) = Live(f) \cup {d}
  BY DEF Live
<1>2. f[d].live => Live(f) \cup {d} = Live(f)
  BY DEF Live
<1>3. ~f[d].live => d \notin Live(f)
  BY DEF Live
<1>4. IsFiniteSet(Live(f))
  BY LiveFinite
<1>5. d \notin Live(f) => Cardinality(Live(f) \cup {d}) = Cardinality(Live(f)) + 1
  BY <1>4, FS_AddElement
<1> QED
  BY <1>1, <1>2, <1>3, <1>5, Zenon

\* A client leaves.
LEMMA LiveRemoves ==
  ASSUME NEW f, IsFiniteSet(DOMAIN f), NEW d \in DOMAIN f, NEW x, ~x.live, f[d].live
  PROVE  /\ d \in Live(f)
         /\ Cardinality(Live([f EXCEPT ![d] = x])) = Cardinality(Live(f)) - 1
<1>1. Live([f EXCEPT ![d] = x]) = Live(f) \ {d}
  BY DEF Live
<1>2. d \in Live(f)
  BY DEF Live
<1> QED
  BY <1>1, <1>2, LiveFinite, FS_RemoveElement

\* The number of clients stays when each lives on, or stays away.
LEMMA LiveStays ==
  ASSUME NEW f, NEW g, DOMAIN g = DOMAIN f, \A d \in DOMAIN f : g[d].live <=> f[d].live
  PROVE  Live(g) = Live(f)
  BY DEF Live

\* What the preview route keeps of its clients and their gate.
ViewersKept ==
  /\ viewers \in [Viewers -> {Nobody} \union ViewerTypes]
  /\ Cardinality(Live(viewers)) <= MaxViewers
  /\ ViewersServed /\ EncoderOnDemand

\* What the transcript route keeps of its clients.
ListenersKept ==
  /\ listeners \in [Listeners -> {Nobody} \union ListenerTypes]
  /\ Cardinality(Live(listeners)) <= MaxListeners
  /\ \A l \in Listeners :
       listeners[l].live => Len(listeners[l].backlog) <= MaxPending
  /\ ListenersServed

\* What IInv says of each client.
LEMMA ClientFacts ==
  ASSUME IInv
  PROVE  /\ ViewersKept /\ ListenersKept
         /\ DOMAIN viewers = Viewers /\ DOMAIN listeners = Listeners
         /\ IsFiniteSet(Viewers) /\ IsFiniteSet(Listeners)
         /\ Cardinality(Live(viewers)) \in Nat /\ Cardinality(Live(listeners)) \in Nat
         /\ \A v \in Viewers : viewers[v].live => viewers[v] \in ViewerTypes
         /\ \A l \in Listeners : listeners[l].live => listeners[l] \in ListenerTypes
<1>1. ClientTypes /\ Bounds /\ ViewersServed /\ ListenersServed /\ EncoderOnDemand
  BY DEF IInv, TypeOK
<1>2. \A l \in Listeners :
        listeners[l].live => Len(listeners[l].backlog) <= MaxPending
  BY <1>1 DEF ClientTypes, Bounds, Live
<1>3. /\ \A v \in Viewers : viewers[v].live => viewers[v] \in ViewerTypes
      /\ \A l \in Listeners : listeners[l].live => listeners[l] \in ListenerTypes
  BY <1>1, NobodyIsDead DEF ClientTypes
<1>4. DOMAIN viewers = Viewers /\ DOMAIN listeners = Listeners
  BY <1>1 DEF ClientTypes
<1>5. Cardinality(Live(viewers)) \in Nat /\ Cardinality(Live(listeners)) \in Nat
  BY <1>4, WebAssumption, LiveFinite
<1> QED
  BY <1>1, <1>2, <1>3, <1>4, <1>5, WebAssumption
     DEF ViewersKept, ListenersKept, ClientTypes, Bounds

\* One viewer changes, and no frame is delivered.
LEMMA ViewerChanges ==
  ASSUME ViewersKept, NEW v \in Viewers, NEW x \in {Nobody} \union ViewerTypes,
         x.live => UpToDate(x, shown)
  PROVE  LET after == [viewers EXCEPT ![v] = x]
         IN  \A w \in Viewers : after[w].live => UpToDate(after[w], shown)
  BY DEF ViewersKept, ViewersServed

\* One listener changes, and no event is delivered.
LEMMA ListenerChanges ==
  ASSUME ListenersKept, NEW l \in Listeners, NEW x \in {Nobody} \union ListenerTypes,
         x.live => Caught(x, heard) /\ Len(x.backlog) <= MaxPending
  PROVE  LET after == [listeners EXCEPT ![l] = x]
         IN  \A k \in Listeners :
               after[k].live => Caught(after[k], heard) /\ Len(after[k].backlog) <= MaxPending
  BY DEF ListenersKept, ListenersServed


\* Whatever is delivered, written or finished, viewers get frames in order, and the
\* gate follows their number.
LEMMA ViewersNext == IInv /\ [Next]_vars => ViewersKept'
<1> SUFFICES ASSUME IInv, [Next]_vars PROVE ViewersKept'
  OBVIOUS
<1> USE DEF preview, transcript, server
<1>1. CASE UNCHANGED <<viewers, shown, gate>>
  BY <1>1, ClientFacts DEF ViewersKept, ViewersServed, EncoderOnDemand, Live
<1>2. CASE DeliverFrame
  <2> DEFINE frame == Head(queue).number
             after == [v \in Viewers |-> IF viewers[v].live
                                         THEN OfferFrame(viewers[v], frame) ELSE Nobody]
  <2>1. /\ queue # <<>> /\ Head(queue).kind = "frame" /\ shown' = frame
        /\ viewers' = after /\ UNCHANGED gate
    BY <1>2, Zenon DEF DeliverFrame
  <2>2. frame \in Frames /\ shown < frame /\ shown \in Nat
    BY <2>1, NextDelivery, Numbers DEF IInv
  <2> HIDE DEF frame
  <2>3. ASSUME NEW v \in Viewers, viewers[v].live
        PROVE  /\ after[v] \in ViewerTypes /\ UpToDate(after[v], frame) /\ after[v].live
    <3>1. viewers[v] \in ViewerTypes /\ UpToDate(viewers[v], shown)
      BY <2>3, ClientFacts DEF ViewersKept, ViewersServed
    <3>2. /\ OfferFrame(viewers[v], frame) \in ViewerTypes
          /\ UpToDate(OfferFrame(viewers[v], frame), frame)
      BY <2>2, <3>1, OfferFrameServes
    <3> QED
      BY <2>3, <3>2, ViewerFields
  <2>4. \A v \in Viewers : ~viewers[v].live => after[v] = Nobody /\ ~after[v].live
    BY NobodyIsDead
  <2>5. DOMAIN after = Viewers /\ after = [v \in Viewers |-> after[v]]
    OBVIOUS
  <2> HIDE DEF after
  <2>6. after \in [Viewers -> {Nobody} \union ViewerTypes]
    BY <2>3, <2>4, <2>5
  <2>7. Live(after) = Live(viewers)
    BY <2>3, <2>4, <2>5, ClientFacts, LiveStays
  <2>8. \A v \in Viewers : after[v].live => UpToDate(after[v], frame)
    BY <2>3, <2>4
  <2>9. Cardinality(Live(viewers)) <= MaxViewers /\ EncoderOnDemand
    BY ClientFacts DEF ViewersKept
  <2> QED
    BY <2>1, <2>6, <2>7, <2>8, <2>9 DEF ViewersKept, ViewersServed, EncoderOnDemand
<1>3. ASSUME NEW v \in Viewers, HandleMjpeg(v) PROVE ViewersKept'
  <2> DEFINE busy == latest # 0
             x == Viewer(latest, busy, 0)
             after == [viewers EXCEPT ![v] = x]
  <2>1. /\ ~viewers[v].live /\ Cardinality(Live(viewers)) < MaxViewers /\ viewers' = after
        /\ gate' = IF Cardinality(Live(viewers')) = 1 THEN TRUE ELSE gate
        /\ UNCHANGED shown
    BY <1>3, Zenon DEF HandleMjpeg
  <2>2. x \in ViewerTypes /\ x.live /\ x.lastSent = latest /\ x.pending = 0
    <3>1. latest \in Frames /\ 0 \in Frames
      BY Numbers, Limits DEF IInv
    <3>2. busy \in BOOLEAN
      OBVIOUS
    <3> HIDE DEF busy
    <3> QED
      BY <3>1, <3>2, ViewerMade
  <2>3. shown <= latest
    BY Numbers DEF IInv, FramesInOrder, Posted
  <2> HIDE DEF x
  <2>4. UpToDate(x, shown)
    BY <2>2, <2>3, Zenon DEF UpToDate
  <2>5. \A w \in Viewers : after[w].live => UpToDate(after[w], shown)
    BY <2>2, <2>4, ClientFacts, ViewerChanges
  <2>6. after \in [Viewers -> {Nobody} \union ViewerTypes]
    BY <2>2, ClientFacts DEF ViewersKept
  <2>7. /\ Live(after) = Live(viewers) \cup {v}
        /\ Cardinality(Live(after)) = Cardinality(Live(viewers)) + 1
        /\ Cardinality(Live(viewers)) \in Nat
    BY <2>1, <2>2, ClientFacts, LiveAdds
  <2> HIDE DEF after
  <2>8. Cardinality(Live(after)) <= MaxViewers
    BY <2>1, <2>7, Limits
  <2>9. gate'
    <3>1. CASE Cardinality(Live(after)) = 1
      BY <2>1, <3>1, Zenon
    <3>2. CASE Cardinality(Live(after)) # 1
      <4>1. Cardinality(Live(viewers)) # 0
        BY <2>7, <3>2
      <4>2. Live(viewers) # {}
        BY <4>1, FS_EmptySet, Zenon
      <4> QED
        BY <2>1, <3>2, <4>2, ClientFacts, Zenon DEF ViewersKept, EncoderOnDemand
    <3> QED
      BY <3>1, <3>2
  <2>10. Live(after) # {}
    BY <2>7
  <2> QED
    BY <2>1, <2>5, <2>6, <2>8, <2>9, <2>10, Zenon
       DEF ViewersKept, ViewersServed, EncoderOnDemand
<1>4. ASSUME NEW v \in Viewers, ViewerWrote(v) PROVE ViewersKept'
  <2> DEFINE c == viewers[v]
             x == IF c.pending = 0 THEN [c EXCEPT !.inFlight = FALSE] ELSE Send(c, c.pending)
             after == [viewers EXCEPT ![v] = x]
  <2>1. c.live /\ viewers' = after /\ UNCHANGED <<gate, shown>>
    BY <1>4 DEF ViewerWrote
  <2>2. c \in ViewerTypes /\ UpToDate(c, shown)
    BY <2>1, ClientFacts DEF ViewersKept, ViewersServed
  <2>3. x \in ViewerTypes /\ x.live /\ UpToDate(x, shown)
    <3>1. CASE c.pending = 0
      <4> DEFINE y == [c EXCEPT !.inFlight = FALSE]
      <4>1. /\ y \in ViewerTypes /\ y.live /\ y.pending = c.pending
            /\ y.lastSent = c.lastSent
        BY <2>1, <2>2 DEF ViewerTypes
      <4>2. x = y
        BY <3>1
      <4> HIDE DEF c, y, x
      <4> QED
        BY <2>2, <3>1, <4>1, <4>2, Zenon DEF UpToDate
    <3>2. CASE c.pending # 0
      <4>1. x = Send(c, c.pending)
        BY <3>2
      <4> HIDE DEF x, c
      <4>2. c.pending \in Frames /\ c.pending \in Nat
        BY <2>2, ViewerFields
      <4>3. x \in ViewerTypes /\ x.live /\ x.lastSent = c.pending /\ x.pending = 0
        BY <4>1, <4>2, SendMade
      <4>4. shown = c.pending
        BY <2>2, <3>2, Zenon DEF UpToDate
      <4>5. shown <= x.lastSent
        BY <4>2, <4>3, <4>4
      <4> QED
        BY <4>3, <4>5, Zenon DEF UpToDate
    <3> QED
      BY <3>1, <3>2
  <2> HIDE DEF x
  <2>4. \A w \in Viewers : after[w].live => UpToDate(after[w], shown)
    BY <2>3, ClientFacts, ViewerChanges
  <2>5. after \in [Viewers -> {Nobody} \union ViewerTypes]
    BY <2>3, ClientFacts DEF ViewersKept
  <2>6. Live(after) = Live(viewers)
    BY <2>1, <2>3, ClientFacts, LiveStays
  <2> HIDE DEF after
  <2> QED
    BY <2>1, <2>4, <2>5, <2>6, ClientFacts, Zenon
       DEF ViewersKept, ViewersServed, EncoderOnDemand
<1>5. ASSUME NEW v \in Viewers, ViewerFinished(v) PROVE ViewersKept'
  <2> DEFINE after == [viewers EXCEPT ![v] = Nobody]
  <2>1. /\ viewers[v].live /\ viewers' = after
        /\ gate' = IF Live(viewers') = {} THEN FALSE ELSE gate
        /\ UNCHANGED shown
    BY <1>5, Zenon DEF ViewerFinished, GateAfter
  <2>2. \A w \in Viewers : after[w].live => UpToDate(after[w], shown)
    BY NobodyIsDead, ClientFacts, ViewerChanges
  <2>3. after \in [Viewers -> {Nobody} \union ViewerTypes]
    BY ClientFacts DEF ViewersKept
  <2>4. Cardinality(Live(after)) = Cardinality(Live(viewers)) - 1 /\ v \in Live(viewers)
    BY <2>1, NobodyIsDead, ClientFacts, LiveRemoves
  <2> HIDE DEF after
  <2>5. Cardinality(Live(after)) <= MaxViewers
    BY <2>4, ClientFacts, Limits DEF ViewersKept
  <2>6. gate
    BY <2>4, ClientFacts DEF ViewersKept, EncoderOnDemand
  <2>7. gate' <=> Live(after) # {}
    BY <2>1, <2>6, Zenon
  <2> QED
    BY <2>1, <2>2, <2>3, <2>7, <2>5, Zenon DEF ViewersKept, ViewersServed, EncoderOnDemand
<1>6. CASE Disconnect
  <2> DEFINE after == [v \in Viewers |-> Nobody]
  <2>1. /\ viewers' = after
        /\ gate' = IF Live(viewers) = {} THEN gate ELSE FALSE
        /\ UNCHANGED shown
    BY <1>6, FS_EmptySet, Zenon DEF Disconnect, GateAfter
  <2>2. after \in [Viewers -> {Nobody} \union ViewerTypes]
    OBVIOUS
  <2>3. \A v \in Viewers : ~after[v].live
    BY NobodyIsDead
  <2> HIDE DEF after
  <2>4. Live(after) = {}
    BY <2>2, <2>3 DEF Live
  <2>5. Cardinality(Live(after)) <= MaxViewers
    BY <2>4, FS_EmptySet, Limits
  <2>6. ~gate'
    BY <2>1, ClientFacts, Zenon DEF ViewersKept, EncoderOnDemand
  <2> QED
    BY <2>1, <2>2, <2>3, <2>4, <2>5, <2>6, Zenon
       DEF ViewersKept, ViewersServed, EncoderOnDemand
<1> QED
  BY <1>1, <1>2, <1>3, <1>4, <1>5, <1>6
     DEF Next, Watcher, Deliver, Clients, Shutdown, vars, Store, Publish,
         WatcherChecks, WatcherSees, WatcherPosts, WatcherEnds, DeliverEvent,
         HandleTranscript, ListenerWrote, ListenerFinished, LoopStarts, RequestStop,
         QuitLoop, ServerGone

\* What OnWroteChunk makes of a listener: the oldest event of its backlog is sent.
LEMMA WroteServes ==
  ASSUME NEW c \in ListenerTypes, NEW last \in Nat, Caught(c, last),
         Len(c.backlog) <= MaxPending, last \in Events
  PROVE  LET x == IF c.backlog = <<>> THEN [c EXCEPT !.inFlight = FALSE]
                  ELSE Listener(Head(c.backlog), TRUE, Tail(c.backlog))
         IN  /\ x \in ListenerTypes /\ x.live /\ Caught(x, last)
             /\ Len(x.backlog) <= MaxPending
             /\ c.backlog # <<>> => Missed(x, last) = 0
             /\ c.backlog = <<>> => Missed(x, last) = Missed(c, last)
<1>1. CASE c.backlog = <<>>
  <2> DEFINE x == [c EXCEPT !.inFlight = FALSE]
  <2>1. /\ x \in ListenerTypes /\ x.live /\ x.backlog = c.backlog /\ x.sent = c.sent
    BY DEF ListenerTypes
  <2> HIDE DEF x
  <2>2. Missed(x, last) = Missed(c, last)
    BY <2>1, Zenon DEF Missed
  <2>3. Caught(x, last)
    BY <2>1, <1>1, Zenon DEF Caught
  <2> QED
    BY <1>1, <2>1, <2>2, <2>3 DEF x
<1>2. CASE c.backlog # <<>>
  <2> DEFINE rest == Tail(c.backlog)
             first == Head(c.backlog)
             size == Len(c.backlog)
             x == Listener(first, TRUE, rest)
  <2>1. c.backlog \in Seq(Events) /\ Latest(c.backlog, last)
    BY ListenerFields DEF Caught
  <2>2. /\ rest \in Seq(Events) /\ size \in Nat /\ Len(rest) = size - 1
        /\ first \in Events /\ first = last - size + 1 /\ Latest(rest, last)
    BY <1>2, <2>1, BacklogLoses, Zenon
  <2> HIDE DEF rest, first, size
  <2>3. rest = <<>> => Len(rest) = 0
    BY EmptySeq
  <2>4. Len(rest) = 0 => first = last
    BY <2>2
  <2>5. rest = <<>> => first = last
    BY <2>3, <2>4, Zenon
  <2>6. size <= MaxPending
    BY DEF size
  <2>7. first <= last - Len(rest) /\ Len(rest) <= MaxPending /\ last - Len(rest) - first = 0
    BY <2>2, <2>6, Limits
  <2>8. /\ x \in ListenerTypes /\ Caught(x, last) /\ Len(x.backlog) = Len(rest)
        /\ Missed(x, last) = last - Len(rest) - first
    BY <2>2, <2>7, <2>5, BusyIsCaught, Zenon
  <2>9. x.live
    BY <2>8, ListenerFields
  <2> HIDE DEF x
  <2>10. Missed(x, last) = 0 /\ Len(x.backlog) <= MaxPending
    BY <2>7, <2>8, Zenon
  <2> QED
    BY <1>2, <2>8, <2>9, <2>10, Zenon DEF x, first, rest
<1> QED
  BY <1>1, <1>2


\* Whatever is delivered, written or finished, listeners get events in order, and
\* backlogs keep their bound.
LEMMA ListenersNext == IInv /\ [Next]_vars => ListenersKept'
<1> SUFFICES ASSUME IInv, [Next]_vars PROVE ListenersKept'
  OBVIOUS
<1> USE DEF preview, transcript, server
<1>1. CASE UNCHANGED <<listeners, heard>>
  BY <1>1, ClientFacts DEF ListenersKept, ListenersServed, Live
<1>2. CASE DeliverEvent
  <2> DEFINE event == Head(queue).number
             after == [l \in Listeners |-> IF listeners[l].live
                                           THEN OfferEvent(listeners[l], event) ELSE Nobody]
  <2>1. /\ queue # <<>> /\ Head(queue).kind = "event" /\ heard' = event
        /\ listeners' = after
    BY <1>2, Zenon DEF DeliverEvent
  <2>2. event \in Events /\ event = heard + 1 /\ heard \in Nat
    BY <2>1, NextDelivery, Numbers DEF IInv
  <2> HIDE DEF event
  <2>3. ASSUME NEW l \in Listeners, listeners[l].live
        PROVE  /\ after[l] \in ListenerTypes /\ after[l].live
               /\ Caught(after[l], event) /\ Len(after[l].backlog) <= MaxPending
    <3>1. /\ listeners[l] \in ListenerTypes /\ Caught(listeners[l], heard)
          /\ Len(listeners[l].backlog) <= MaxPending
      BY <2>3, ClientFacts DEF ListenersKept, ListenersServed
    <3>2. /\ OfferEvent(listeners[l], event) \in ListenerTypes
          /\ Caught(OfferEvent(listeners[l], event), event)
          /\ Len(OfferEvent(listeners[l], event).backlog) <= MaxPending
      BY <2>2, <3>1, OfferEventServes
    <3> QED
      BY <2>3, <3>2, ListenerFields
  <2>4. \A l \in Listeners : ~listeners[l].live => after[l] = Nobody /\ ~after[l].live
    BY NobodyIsDead
  <2>5. DOMAIN after = Listeners /\ after = [l \in Listeners |-> after[l]]
    OBVIOUS
  <2> HIDE DEF after
  <2>6. after \in [Listeners -> {Nobody} \union ListenerTypes]
    BY <2>3, <2>4, <2>5
  <2>7. Live(after) = Live(listeners)
    BY <2>3, <2>4, <2>5, ClientFacts, LiveStays
  <2>8. \A l \in Listeners : after[l].live =>
          Caught(after[l], event) /\ Len(after[l].backlog) <= MaxPending
    BY <2>3, <2>4
  <2>9. Cardinality(Live(listeners)) <= MaxListeners
    BY ClientFacts DEF ListenersKept
  <2> QED
    BY <2>1, <2>6, <2>7, <2>8, <2>9 DEF ListenersKept, ListenersServed
<1>3. ASSUME NEW l \in Listeners, HandleTranscript(l) PROVE ListenersKept'
  <2> DEFINE x == Listener(heard, TRUE, <<>>)
             after == [listeners EXCEPT ![l] = x]
  <2>1. /\ ~listeners[l].live /\ Cardinality(Live(listeners)) < MaxListeners
        /\ listeners' = after /\ UNCHANGED heard
    BY <1>3 DEF HandleTranscript
  <2>2. /\ heard \in Nat /\ heard \in Events /\ <<>> \in Seq(Events) /\ Len(<<>>) = 0
    BY Numbers, EmptySeq DEF IInv
  <2>3. Latest(<<>>, heard) /\ heard <= heard - Len(<<>>) /\ Len(<<>>) <= MaxPending
    BY <2>2, Limits DEF Latest
  <2>4. /\ x \in ListenerTypes /\ Caught(x, heard) /\ Len(x.backlog) <= MaxPending
    BY <2>2, <2>3, BusyIsCaught, Zenon
  <2>5. x.live
    BY <2>4, ListenerFields
  <2> HIDE DEF x
  <2>6. \A k \in Listeners :
          after[k].live => Caught(after[k], heard) /\ Len(after[k].backlog) <= MaxPending
    BY <2>4, <2>5, ClientFacts, ListenerChanges
  <2>7. after \in [Listeners -> {Nobody} \union ListenerTypes]
    BY <2>4, ClientFacts DEF ListenersKept
  <2>8. Cardinality(Live(after)) = Cardinality(Live(listeners)) + 1
    BY <2>1, <2>5, ClientFacts, LiveAdds
  <2> HIDE DEF after
  <2>9. Cardinality(Live(after)) <= MaxListeners
    BY <2>1, <2>8, ClientFacts, Limits
  <2> QED
    BY <2>1, <2>6, <2>7, <2>9, Zenon DEF ListenersKept, ListenersServed
<1>4. ASSUME NEW l \in Listeners, ListenerWrote(l) PROVE ListenersKept'
  <2> DEFINE c == listeners[l]
             x == IF c.backlog = <<>> THEN [c EXCEPT !.inFlight = FALSE]
                  ELSE Listener(Head(c.backlog), TRUE, Tail(c.backlog))
             after == [listeners EXCEPT ![l] = x]
  <2>1. c.live /\ listeners' = after /\ UNCHANGED heard
    BY <1>4 DEF ListenerWrote
  <2>2. c \in ListenerTypes /\ Caught(c, heard) /\ Len(c.backlog) <= MaxPending
    BY <2>1, ClientFacts DEF ListenersKept, ListenersServed
  <2>3. /\ x \in ListenerTypes /\ x.live /\ Caught(x, heard)
        /\ Len(x.backlog) <= MaxPending
    BY <2>1, <2>2, WroteServes, Numbers DEF IInv
  <2> HIDE DEF x
  <2>4. \A k \in Listeners :
          after[k].live => Caught(after[k], heard) /\ Len(after[k].backlog) <= MaxPending
    BY <2>3, ClientFacts, ListenerChanges
  <2>5. after \in [Listeners -> {Nobody} \union ListenerTypes]
    BY <2>3, ClientFacts DEF ListenersKept
  <2>6. Live(after) = Live(listeners)
    BY <2>1, <2>3, ClientFacts, LiveStays
  <2> HIDE DEF after
  <2> QED
    BY <2>1, <2>4, <2>5, <2>6, ClientFacts, Zenon DEF ListenersKept, ListenersServed
<1>5. ASSUME NEW l \in Listeners, ListenerFinished(l) PROVE ListenersKept'
  <2> DEFINE after == [listeners EXCEPT ![l] = Nobody]
  <2>1. listeners[l].live /\ listeners' = after /\ UNCHANGED heard
    BY <1>5 DEF ListenerFinished
  <2>2. \A k \in Listeners :
          after[k].live => Caught(after[k], heard) /\ Len(after[k].backlog) <= MaxPending
    BY NobodyIsDead, ClientFacts, ListenerChanges
  <2>3. after \in [Listeners -> {Nobody} \union ListenerTypes]
    BY ClientFacts DEF ListenersKept
  <2>4. Cardinality(Live(after)) = Cardinality(Live(listeners)) - 1
    BY <2>1, NobodyIsDead, ClientFacts, LiveRemoves
  <2> HIDE DEF after
  <2>5. Cardinality(Live(after)) <= MaxListeners
    BY <2>4, ClientFacts, Limits DEF ListenersKept
  <2> QED
    BY <2>1, <2>2, <2>3, <2>5, Zenon DEF ListenersKept, ListenersServed
<1>6. CASE Disconnect
  <2> DEFINE after == [l \in Listeners |-> Nobody]
  <2>1. listeners' = after /\ UNCHANGED heard
    BY <1>6 DEF Disconnect
  <2>2. after \in [Listeners -> {Nobody} \union ListenerTypes]
    OBVIOUS
  <2>3. \A l \in Listeners : ~after[l].live
    BY NobodyIsDead
  <2> HIDE DEF after
  <2>4. Live(after) = {}
    BY <2>2, <2>3 DEF Live
  <2>5. Cardinality(Live(after)) <= MaxListeners
    BY <2>4, FS_EmptySet, Limits
  <2> QED
    BY <2>1, <2>2, <2>3, <2>5, Zenon DEF ListenersKept, ListenersServed
<1> QED
  BY <1>1, <1>2, <1>3, <1>4, <1>5, <1>6
     DEF Next, Watcher, Deliver, Clients, Shutdown, vars, Store, Publish,
         WatcherChecks, WatcherSees, WatcherPosts, WatcherEnds, DeliverFrame,
         HandleMjpeg, ViewerWrote, ViewerFinished, LoopStarts, RequestStop,
         QuitLoop, ServerGone

-----------------------------------------------------------------------------
(* Types. *)

\* Numbers and queue.
LEMMA NumberTypesNext == TypeOK /\ NumberTypes /\ [Next]_vars => NumberTypes'
<1> SUFFICES ASSUME TypeOK /\ NumberTypes, [Next]_vars PROVE NumberTypes'
  OBVIOUS
<1> USE DEF NumberTypes, preview, transcript, server
<1>1. CASE UNCHANGED <<latest, lastSeen, shown, events, heard, queue>>
  BY <1>1
<1>2. CASE Store
  <2>1. latest' = latest + 1 /\ latest < MaxFrames
    BY <1>2, Zenon DEF Store
  <2>2. latest + 1 \in Frames
    BY <2>1, Numbers, Limits DEF Frames
  <2>3. UNCHANGED <<lastSeen, shown, events, heard, queue>>
    BY <1>2, Zenon DEF Store
  <2> QED
    BY <2>1, <2>2, <2>3
<1>3. CASE Publish
  <2> DEFINE d == [kind |-> "event", number |-> events + 1]
  <2>1. events' = events + 1 /\ events < MaxEvents
    BY <1>3, Zenon DEF Publish
  <2>2. queue' = Append(queue, d) /\ UNCHANGED <<latest, lastSeen, shown, heard>>
    BY <1>3, <2>1, Zenon DEF Publish
  <2>3. events + 1 \in Events
    BY <2>1, Numbers, Limits DEF Events
  <2>4. d \in Deliveries
    BY <2>3, EventDelivery
  <2> HIDE DEF d
  <2>5. Append(queue, d) \in Seq(Deliveries)
    BY <2>4, AppendProperties
  <2> QED
    BY <2>1, <2>2, <2>3, <2>5
<1>4. CASE WatcherSees
  <2>1. lastSeen' = latest /\ UNCHANGED <<latest, shown, events, heard, queue>>
    BY <1>4, Zenon DEF WatcherSees
  <2> QED
    BY <2>1
<1>5. CASE WatcherPosts
  <2> DEFINE d == [kind |-> "frame", number |-> lastSeen]
  <2>1. queue' = Append(queue, d) /\ UNCHANGED <<latest, lastSeen, shown, events, heard>>
    BY <1>5, Zenon DEF WatcherPosts
  <2>2. d \in Deliveries
    BY Numbers, FrameDelivery
  <2> HIDE DEF d
  <2>3. Append(queue, d) \in Seq(Deliveries)
    BY <2>2, AppendProperties
  <2> QED
    BY <2>1, <2>3
<1>6. CASE DeliverFrame
  <2>1. /\ queue # <<>> /\ Head(queue).kind = "frame" /\ queue' = Tail(queue)
        /\ shown' = Head(queue).number /\ UNCHANGED <<latest, lastSeen, events, heard>>
    BY <1>6, Zenon DEF DeliverFrame
  <2>2. Tail(queue) \in Seq(Deliveries) /\ Head(queue) \in Deliveries
    BY <2>1, HeadTailProperties
  <2>3. Head(queue).number \in Frames
    BY <2>1, <2>2, DeliveryFields
  <2> QED
    BY <2>1, <2>2, <2>3
<1>7. CASE DeliverEvent
  <2>1. /\ queue # <<>> /\ Head(queue).kind = "event" /\ queue' = Tail(queue)
        /\ heard' = Head(queue).number /\ UNCHANGED <<latest, lastSeen, shown, events>>
    BY <1>7, Zenon DEF DeliverEvent
  <2>2. Tail(queue) \in Seq(Deliveries) /\ Head(queue) \in Deliveries
    BY <2>1, HeadTailProperties
  <2>3. Head(queue).number \in Events
    BY <2>1, <2>2, DeliveryFields
  <2> QED
    BY <2>1, <2>2, <2>3
<1> HIDE DEF NumberTypes
<1> QED
  BY <1>1, <1>2, <1>3, <1>4, <1>5, <1>6, <1>7
     DEF Next, Watcher, Deliver, Clients, Shutdown, vars, WatcherChecks,
         WatcherEnds, HandleMjpeg, ViewerWrote, ViewerFinished, HandleTranscript,
         ListenerWrote, ListenerFinished, LoopStarts, RequestStop, QuitLoop,
         Disconnect, ServerGone

\* Program counters and flags.
LEMMA ControlTypesNext == TypeOK /\ [Next]_vars => ControlTypes'
<1> SUFFICES ASSUME TypeOK, [Next]_vars PROVE ControlTypes'
  OBVIOUS
<1> USE DEF TypeOK, ControlTypes, preview, transcript, server
<1>1. CASE UNCHANGED <<watcherPc, stop, gate, ioPc, mainPc>>
  BY <1>1
<1>2. CASE WatcherChecks
  BY <1>2 DEF WatcherChecks
<1>3. CASE WatcherSees
  BY <1>3 DEF WatcherSees
<1>4. CASE WatcherPosts
  BY <1>4 DEF WatcherPosts
<1>5. CASE WatcherEnds
  BY <1>5 DEF WatcherEnds
<1>6. ASSUME NEW v \in Viewers, HandleMjpeg(v) PROVE ControlTypes'
  BY <1>6 DEF HandleMjpeg
<1>7. ASSUME NEW v \in Viewers, ViewerFinished(v) PROVE ControlTypes'
  BY <1>7 DEF ViewerFinished, GateAfter
<1>8. CASE LoopStarts
  BY <1>8 DEF LoopStarts
<1>9. CASE RequestStop
  BY <1>9 DEF RequestStop
<1>10. CASE QuitLoop
  BY <1>10 DEF QuitLoop
<1>11. CASE Disconnect
  BY <1>11 DEF Disconnect, GateAfter
<1>12. CASE ServerGone
  BY <1>12 DEF ServerGone
<1> HIDE DEF TypeOK, ControlTypes
<1> QED
  BY <1>1, <1>2, <1>3, <1>4, <1>5, <1>6, <1>7, <1>8, <1>9, <1>10, <1>11, <1>12
     DEF Next, Watcher, Deliver, Clients, Shutdown, vars, Store, Publish,
         DeliverFrame, DeliverEvent, ViewerWrote, HandleTranscript, ListenerWrote,
         ListenerFinished

\* Every variable keeps its type, every list its bound.
LEMMA TypeNext == IInv /\ [Next]_vars => TypeOK'
<1> SUFFICES ASSUME IInv, [Next]_vars PROVE TypeOK'
  OBVIOUS
<1>1. NumberTypes' /\ ControlTypes'
  BY NumberTypesNext, ControlTypesNext DEF IInv, TypeOK
<1>2. ViewersKept' /\ ListenersKept'
  BY ViewersNext, ListenersNext
<1>3. (ClientTypes /\ Bounds)'
  BY <1>2 DEF ViewersKept, ListenersKept, ClientTypes, Bounds, Live
<1> QED
  BY <1>1, <1>3 DEF TypeOK

-----------------------------------------------------------------------------
(* The theorems. *)

\* Nobody is connected, nothing is queued; the placeholder may be stored.
LEMMA InvariantInit == Init => IInv
<1> SUFFICES ASSUME Init PROVE IInv
  OBVIOUS
<1>1. /\ latest \in {0, 1} /\ lastSeen = 0 /\ shown = 0 /\ events = 0 /\ heard = 0
      /\ queue = <<>> /\ watcherPc = "check" /\ ioPc = "starting" /\ mainPc = "run"
      /\ viewers = [v \in Viewers |-> Nobody] /\ listeners = [l \in Listeners |-> Nobody]
  BY Zenon DEF Init
<1>2. NumberTypes
  BY <1>1, Limits, EmptySeq DEF NumberTypes, Frames
<1>3. stop = FALSE /\ gate = FALSE
  BY DEF Init
<1>4. ControlTypes
  BY <1>1, <1>3 DEF ControlTypes
<1>5. Live(viewers) = {} /\ Live(listeners) = {}
  BY <1>1, NobodyIsDead DEF Live
<1>6. ClientTypes
  BY <1>1 DEF ClientTypes
<1>7. Bounds
  BY <1>5, FS_EmptySet, Limits DEF Bounds
<1>8. FramesInOrder /\ EventsInOrder
  BY <1>1, EmptySeq DEF FramesInOrder, EventsInOrder, Rising, Complete, Posted
<1>9. ViewersServed /\ ListenersServed
  BY <1>1, NobodyIsDead DEF ViewersServed, ListenersServed
<1>10. EncoderOnDemand
  BY <1>3, <1>5 DEF EncoderOnDemand
<1> QED
  BY <1>2, <1>4, <1>6, <1>7, <1>8, <1>9, <1>10 DEF IInv, TypeOK

\* Every step keeps what the clients, the queue and the stores know of each other.
LEMMA InvariantNext == IInv /\ [Next]_vars => IInv'
<1>1. IInv /\ [Next]_vars => (ViewersServed /\ EncoderOnDemand /\ ListenersServed)'
  BY ViewersNext, ListenersNext DEF ViewersKept, ListenersKept
<1> QED
  BY <1>1, TypeNext, FramesNext, EventsNext DEF IInv

\* What the clients have, what waits in the GMainContext and what is stored stay in step
\* (RunPreview's watcher, Deliver and OnWroteChunk of both routes).
THEOREM Invariance == Spec => []IInv
  BY InvariantInit, InvariantNext, PTL DEF Spec

\* Every variable keeps its type, and no list of clients and no backlog its limit.
THEOREM TypeCorrect == Spec => []TypeOK
<1>1. IInv => TypeOK
  BY DEF IInv
<1> QED
  BY <1>1, Invariance, PTL

\* A preview client has the newest frame delivered, or gets it next (Deliver,
\* HandleMjpeg, OnWroteChunk), for any number of clients and frames.
THEOREM NewestSound == Spec => []NewestIsNext
<1>1. IInv => NewestIsNext
  BY ClientFacts DEF ViewersKept, ViewersServed, UpToDate, NewestIsNext, Live
<1> QED
  BY <1>1, Invariance, PTL

\* The gate of the preview's encoder is open exactly while a client is connected.
THEOREM EncoderSound == Spec => []EncoderOnDemand
<1>1. IInv => EncoderOnDemand
  BY DEF IInv
<1> QED
  BY <1>1, Invariance, PTL

\* IInv says of each listener what the property says of all.
LEMMA CaughtIsInOrder == IInv => BacklogInOrder
<1> SUFFICES ASSUME IInv, NEW l \in Live(listeners)
             PROVE  LET client == listeners[l]
                        size   == Len(client.backlog)
                    IN  /\ \A i \in 1 .. size : client.backlog[i] = heard - size + i
                        /\ client.sent <= heard - size
                        /\ ~client.inFlight => client.sent = heard
  BY DEF BacklogInOrder
<1>1. Caught(listeners[l], heard)
  BY ClientFacts DEF ListenersKept, ListenersServed, Live
<1> QED
  BY <1>1, Zenon DEF Caught, Latest


\* A listener was sent no event that is not heard yet.
LEMMA MissedIsNumber ==
  ASSUME IInv, NEW l \in Listeners, listeners[l].live
  PROVE  Missed(listeners[l], heard) \in Nat
<1> DEFINE size == Len(listeners[l].backlog)
           sent == listeners[l].sent
<1>1. size \in Nat /\ sent \in Nat /\ heard \in Nat
  BY ClientFacts, ListenerFields, Numbers DEF IInv
<1>2. sent <= heard - size
  BY ClientFacts DEF ListenersKept, ListenersServed, Caught
<1> HIDE DEF size, sent
<1>3. heard - size - sent \in Nat
  BY <1>1, <1>2
<1> QED
  BY <1>3, Zenon DEF Missed, size, sent

\* Events are lost to a listener that stays only when one is delivered to a full backlog.
LEMMA MissedNext ==
  ASSUME IInv, [Next]_vars, NEW l \in Listeners, listeners[l].live, listeners'[l].live
  PROVE  Missed(listeners'[l], heard') > Missed(listeners[l], heard)
           => Len(listeners[l].backlog) = MaxPending
<1> DEFINE Goal == Missed(listeners'[l], heard') > Missed(listeners[l], heard)
                     => Len(listeners[l].backlog) = MaxPending
<1> USE DEF preview, transcript, server
<1>1. CASE UNCHANGED <<listeners, heard>>
  BY <1>1, MissedIsNumber
<1>2. CASE DeliverEvent
  <2> DEFINE event == Head(queue).number
  <2>1. queue # <<>> /\ Head(queue).kind = "event" /\ heard' = event
    BY <1>2, Zenon DEF DeliverEvent
  <2>2. listeners'[l] = OfferEvent(listeners[l], event)
    BY <1>2 DEF DeliverEvent
  <2>3. event \in Events /\ event = heard + 1 /\ heard \in Nat
    BY <2>1, NextDelivery, Numbers DEF IInv
  <2> HIDE DEF event
  <2>4. /\ listeners[l] \in ListenerTypes /\ Caught(listeners[l], heard)
        /\ Len(listeners[l].backlog) <= MaxPending
    BY ClientFacts DEF ListenersKept, ListenersServed
  <2>5. Missed(OfferEvent(listeners[l], event), event) > Missed(listeners[l], heard)
          => Len(listeners[l].backlog) = MaxPending
    BY <2>3, <2>4, OfferEventServes, Zenon
  <2> QED
    BY <2>1, <2>2, <2>5, Zenon
<1>3. ASSUME NEW k \in Listeners, HandleTranscript(k) PROVE Goal
  <2>1. ~listeners[k].live /\ listeners' = [listeners EXCEPT ![k] = Listener(heard, TRUE, <<>>)]
        /\ UNCHANGED heard
    BY <1>3 DEF HandleTranscript
  <2>2. k # l
    BY <2>1
  <2>3. listeners'[l] = listeners[l]
    BY <2>1, <2>2, ClientFacts
  <2>4. Missed(listeners[l], heard) \in Nat
    BY MissedIsNumber
  <2>5. ~(Missed(listeners[l], heard) > Missed(listeners[l], heard))
    BY <2>4
  <2> QED
    BY <2>1, <2>3, <2>5, Zenon
<1>4. ASSUME NEW k \in Listeners, ListenerWrote(k) PROVE Goal
  <2> DEFINE c == listeners[k]
             x == IF c.backlog = <<>> THEN [c EXCEPT !.inFlight = FALSE]
                  ELSE Listener(Head(c.backlog), TRUE, Tail(c.backlog))
  <2>1. c.live /\ listeners' = [listeners EXCEPT ![k] = x] /\ UNCHANGED heard
    BY <1>4 DEF ListenerWrote
  <2>2. /\ c \in ListenerTypes /\ Caught(c, heard) /\ Len(c.backlog) <= MaxPending
        /\ heard \in Nat /\ heard \in Events
    BY <2>1, ClientFacts, Numbers DEF ListenersKept, ListenersServed, IInv
  <2>3. Missed(x, heard) = 0 \/ Missed(x, heard) = Missed(c, heard)
    BY <2>2, WroteServes
  <2>4. Missed(listeners[l], heard) \in Nat
    BY MissedIsNumber
  <2> HIDE DEF x
  <2>5. CASE k = l
    <3>1. listeners'[l] = x
      BY <2>1, <2>5, ClientFacts
    <3>2. Missed(x, heard) = 0 \/ Missed(x, heard) = Missed(listeners[l], heard)
      BY <2>3, <2>5
    <3>3. ~(Missed(x, heard) > Missed(listeners[l], heard))
      BY <2>4, <3>2
    <3> QED
      BY <2>1, <3>1, <3>3, Zenon
  <2>6. CASE k # l
    <3>1. listeners'[l] = listeners[l]
      BY <2>1, <2>6, ClientFacts
    <3> QED
      BY <2>1, <2>4, <3>1
  <2> QED
    BY <2>5, <2>6
<1>5. ASSUME NEW k \in Listeners, ListenerFinished(k) PROVE Goal
  <2>1. listeners' = [listeners EXCEPT ![k] = Nobody] /\ UNCHANGED heard
    BY <1>5 DEF ListenerFinished
  <2>2. k # l
    BY <2>1, NobodyIsDead, ClientFacts
  <2>3. listeners'[l] = listeners[l]
    BY <2>1, <2>2, ClientFacts
  <2> QED
    BY <2>1, <2>3, MissedIsNumber
<1>6. CASE Disconnect
  <2>1. listeners'[l] = Nobody
    BY <1>6 DEF Disconnect
  <2> QED
    BY <2>1, NobodyIsDead
<1> QED
  BY <1>1, <1>2, <1>3, <1>4, <1>5, <1>6
     DEF Next, Watcher, Deliver, Clients, Shutdown, vars, Store, Publish,
         WatcherChecks, WatcherSees, WatcherPosts, WatcherEnds, DeliverFrame,
         HandleMjpeg, ViewerWrote, ViewerFinished, LoopStarts, RequestStop,
         QuitLoop, ServerGone

\* What waits for a listener is the latest events, in order, next to what it was sent,
\* and it loses one only when its backlog is full (transcript_routes.cpp: Deliver).
THEOREM BacklogSound == Spec => BacklogIsSound
<1> DEFINE Step ==
      /\ BacklogInOrder'
      /\ \A l \in Listeners :
           listeners[l].live /\ listeners'[l].live /\ Lost(l)' > Lost(l)
             => Len(listeners[l].backlog) = MaxPending
<1>1. IInv => BacklogInOrder
  BY CaughtIsInOrder
<1>2. IInv' => BacklogInOrder'
  BY <1>1, PTL
<1>3. IInv /\ [Next]_vars => Step
  <2> SUFFICES ASSUME IInv, [Next]_vars PROVE Step
    OBVIOUS
  <2>1. ASSUME NEW l \in Listeners, listeners[l].live, listeners'[l].live, Lost(l)' > Lost(l)
        PROVE  Len(listeners[l].backlog) = MaxPending
    BY <2>1, MissedNext DEF Lost, Missed
  <2> QED
    BY <1>2, <2>1, InvariantNext
<1>4. IInv /\ [Next]_vars => [Step]_vars
  BY <1>3
<1> QED
  BY <1>4, Invariance, PTL DEF Spec, BacklogIsSound

-----------------------------------------------------------------------------
(* The end of the server. *)

\* How far main has got, and what is over by then: the watcher is joined before the loop is
\* quit, and the server is disconnected when nothing more is posted.
Closing ==
  /\ mainPc = "watcher" => stop
  /\ mainPc \in {"join", "done"} => watcherPc = "off"
  /\ ioPc \in {"draining", "off"} => mainPc \in {"join", "done"}
  /\ mainPc = "done" => ioPc = "off"
  /\ ioPc = "off" => queue = <<>> /\ Live(viewers) = {} /\ Live(listeners) = {}

\* A step of main waits for what the next one counts on; the threads only go on to their end.
LEMMA ClosingNext == ControlTypes /\ Closing /\ [Next]_vars => Closing'
<1> SUFFICES ASSUME ControlTypes, Closing, [Next]_vars PROVE Closing'
  OBVIOUS
<1> USE DEF ControlTypes, Closing, preview, transcript, server, Serving
<1>1. CASE UNCHANGED vars
  BY <1>1 DEF vars, Live
<1>2. CASE Store
  BY <1>2 DEF Store, Live
<1>3. CASE Publish
  BY <1>3 DEF Publish, Live
<1>4. CASE WatcherChecks
  BY <1>4 DEF WatcherChecks, Live
<1>5. CASE WatcherSees
  BY <1>5 DEF WatcherSees, Live
<1>6. CASE WatcherPosts
  BY <1>6 DEF WatcherPosts, Live
<1>7. CASE WatcherEnds
  BY <1>7 DEF WatcherEnds, Live
<1>8. CASE DeliverFrame
  BY <1>8 DEF DeliverFrame
<1>9. CASE DeliverEvent
  BY <1>9 DEF DeliverEvent
<1>10. ASSUME NEW v \in Viewers, HandleMjpeg(v) \/ ViewerWrote(v) \/ ViewerFinished(v)
       PROVE  Closing'
  BY <1>10 DEF HandleMjpeg, ViewerWrote, ViewerFinished
<1>11. ASSUME NEW l \in Listeners,
              HandleTranscript(l) \/ ListenerWrote(l) \/ ListenerFinished(l)
       PROVE  Closing'
  BY <1>11 DEF HandleTranscript, ListenerWrote, ListenerFinished
<1>12. CASE LoopStarts
  BY <1>12 DEF LoopStarts, Live
<1>13. CASE RequestStop
  BY <1>13 DEF RequestStop, Live
<1>14. CASE QuitLoop
  BY <1>14 DEF QuitLoop, Live
<1>15. CASE Disconnect
  <2>1. Live(viewers') = {} /\ Live(listeners') = {}
    BY <1>15 DEF Disconnect, Live, Nobody
  <2> QED
    BY <1>15, <2>1 DEF Disconnect
<1>16. CASE ServerGone
  BY <1>16 DEF ServerGone, Live
<1> QED
  BY <1>1, <1>2, <1>3, <1>4, <1>5, <1>6, <1>7, <1>8, <1>9, <1>10, <1>11, <1>12, <1>13,
     <1>14, <1>15, <1>16
     DEF Next, Watcher, Deliver, Clients, Shutdown

\* The end comes in this order.
LEMMA ClosingAlways == Spec => []Closing
<1>1. Init => Closing
  BY DEF Init, Closing
<1>2. IInv /\ Closing /\ [Next]_vars => Closing'
  BY ClosingNext DEF IInv, TypeOK
<1> QED
  BY <1>1, <1>2, Invariance, PTL DEF Spec

\* The server ends well whoever is connected and whatever is posted meanwhile: main joins
\* a watcher that never waits for a frame again, and when it is done no delivery and no
\* client is left on a context without a thread (~Implementation, PreviewRoutes::Stop).
THEOREM EndLeavesNothing ==
  Spec => []/\ mainPc = "watcher" /\ watcherPc = "wait" => Newer \/ StopWakes
            /\ mainPc = "done" =>
                 /\ queue = <<>> /\ watcherPc = "off"
                 /\ Live(viewers) = {} /\ Live(listeners) = {}
<1>1. Closing => /\ mainPc = "watcher" /\ watcherPc = "wait" => Newer \/ StopWakes
                 /\ mainPc = "done" =>
                      /\ queue = <<>> /\ watcherPc = "off"
                      /\ Live(viewers) = {} /\ Live(listeners) = {}
  BY DEF Closing, StopWakes
<1> QED
  BY <1>1, ClosingAlways, PTL
=============================================================================
