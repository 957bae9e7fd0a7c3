------------------------------ MODULE EventHub -----------------------------
(***************************************************************************)
(* The event stream of a running dialogue server and the speech dispatcher *)
(* behind it.  A committed utterance is published as text and then offered *)
(* to the dispatcher by the worker that landed it: two critical sections,  *)
(* so the callbacks of the dialogue and the autonomy worker interleave.    *)
(* Every browser has a bounded queue that never blocks a producer: the     *)
(* hub's mutex orders the producers, but a browser takes from its queue    *)
(* without it, between any two operations of a producer on that queue.     *)
(***************************************************************************)
EXTENDS Integers, Sequences, FiniteSets

CONSTANTS
    Listener,         \* browser connections
    BufferSize,       \* queue of a subscriber without audio
    AudioBuffer,      \* audioSubscriberBufferSize
    QueueCapacity,    \* requests the dispatcher holds
    MaxConcurrency    \* voice workers

\* NewHub replaces a size below one.
ASSUME HubAssumption == BufferSize \in Nat \ {0} /\ AudioBuffer \in Nat \ {0}

VARIABLES hub           \* per process: the hub and dispatcher of its runtime

Callers == {"dialogue", "autonomy"}
\* offer: how far a producer is that found the queue full.
NoSubscriber == [open |-> FALSE, audio |-> FALSE, since |-> 0, queue |-> <<>>, last |-> 0,
                 offer |-> "none"]
NoCallback == [stage |-> "none", event |-> 0]

NewHub == [closed |-> FALSE, stream |-> <<>>, highWater |-> 0, requests |-> <<>>,
    speaking |-> {}, subscribers |-> [l \in Listener |-> NoSubscriber],
    callback |-> [c \in Callers |-> NoCallback]]

H(p) == hub[p]
WithHub(p, h) == hub' = [hub EXCEPT ![p] = h]
WithSubscriber(p, l, s) == WithHub(p, [H(p) EXCEPT !.subscribers[l] = s])

\* The publication that holds the mutex, if a full queue keeps it there.
Underway(h) ==
    IF \E l \in Listener : h.subscribers[l].offer # "none" THEN {h.stream[Len(h.stream)]} ELSE {}
Released(h) == Underway(h) = {}

\* The callbacks of the workers, and whatever else they publish, have returned.
Quiet(p) ==
    /\ \A c \in Callers : H(p).callback[c] = NoCallback
    /\ \A e \in Underway(H(p)) : e.type = "audio"

\* The requests that keep a voice worker busy.
Voiced(h) == h.speaking \cup {e.event : e \in {u \in Underway(h) : u.type = "audio"}}

---------------------------------------------------------------------------
(* Publication *)

Capacity(s) == IF s.audio /\ BufferSize > AudioBuffer THEN AudioBuffer ELSE BufferSize

Room(s) == Len(s.queue) < Capacity(s)

\* The first attempt: an event that does not fit stays with the producer.
Offer(s, position) ==
    IF Room(s) THEN [s EXCEPT !.queue = Append(@, position)] ELSE [s EXCEPT !.offer = "full"]

Hears(s, type) == s.open /\ (type = "audio" => s.audio)

\* publishValidated: the next position of the stream, offered to everyone who
\* may hear it.  The queues are distinct, so the first attempts are one step; a
\* full queue keeps the mutex until DropOldest and Resend are through.  Callers
\* test that the hub is open, and that the mutex is free.
publishValidated(h, type, event) ==
    LET position == Len(h.stream) + 1 IN
    [h EXCEPT !.stream = Append(@, [type |-> type, event |-> event]),
              !.subscribers = [l \in Listener |->
                  IF Hears(h.subscribers[l], type) THEN Offer(h.subscribers[l], position)
                  ELSE h.subscribers[l]]]

\* The new event gives way to the old ones.
DropNothing(p, l) ==
    LET s == H(p).subscribers[l] IN
    s.offer = "full" /\ WithSubscriber(p, l, [s EXCEPT !.offer = "dropped"])

\* The oldest event of the queue makes room, even if the browser made some in
\* the meantime; a queue that it emptied stays empty.
DropOldest(p, l) ==
    LET s == H(p).subscribers[l] IN
    /\ s.offer = "full"
    /\ WithSubscriber(p, l, [s EXCEPT !.queue = IF @ = <<>> THEN @ ELSE Tail(@),
                                      !.offer = "dropped"])

\* The second attempt; an event that still does not fit is lost.
Resend(p, l) ==
    LET s == H(p).subscribers[l] IN
    /\ s.offer = "dropped"
    /\ WithSubscriber(p, l, [s EXCEPT !.offer = "none",
           !.queue = IF Room(s) THEN Append(@, Len(H(p).stream)) ELSE @])

\* Progress of a generation; on a closed hub the error is ignored.
Transient(p, type) ==
    ~H(p).closed /\ Released(H(p)) /\ WithHub(p, publishValidated(H(p), type, 0))
PublishProvisional(p) == Transient(p, "provisional")
PublishStatus(p) == Transient(p, "status")
PublishError(p) == Transient(p, "error")

---------------------------------------------------------------------------
(* Subscribers *)

\* A closed hub answers with a closed channel.
SubscribeWithCapabilities(p, l, audio) ==
    /\ ~H(p).closed /\ ~H(p).subscribers[l].open /\ Released(H(p))
    /\ WithSubscriber(p, l,
           [NoSubscriber EXCEPT !.open = TRUE, !.audio = audio, !.since = Len(H(p).stream)])

\* The event loop of the connection takes the next event, mutex or not.
Receive(p, l) ==
    LET s == H(p).subscribers[l] IN
    /\ s.open /\ s.queue # <<>>
    /\ WithSubscriber(p, l, [s EXCEPT !.queue = Tail(@), !.last = Head(s.queue)])

Unsubscribe(p, l) ==
    /\ H(p).subscribers[l].open /\ Released(H(p))
    /\ WithSubscriber(p, l, NoSubscriber)

HasAudioSubscribers(h) ==
    ~h.closed /\ \E l \in Listener : h.subscribers[l].open /\ h.subscribers[l].audio

\* Every subscription ends with the hub.
Closed(h) == [h EXCEPT !.closed = TRUE, !.subscribers = [l \in Listener |-> NoSubscriber]]

---------------------------------------------------------------------------
(* ResidentCommitted, and the dispatcher *)

ResidentSpeaksFirst(p, c, event) ==
    /\ H(p).callback[c] = NoCallback
    /\ WithHub(p, [H(p) EXCEPT !.callback[c] = [stage |-> "observe", event |-> event]])

\* The worker is called back with the event that just became durable.
ResidentCommitted(p, c, event) ==
    /\ H(p).callback[c] = NoCallback
    /\ WithHub(p, [H(p) EXCEPT !.callback[c] = [stage |-> "publish", event |-> event]])

\* Text first; voice only when the text could be published.
PublishCommitted(p, c) ==
    LET h == H(p)  cb == h.callback[c] IN
    /\ cb.stage = "publish" /\ Released(h)
    /\ \/ /\ h.closed
          /\ WithHub(p, [h EXCEPT !.callback[c] = NoCallback])
       \/ /\ ~h.closed
          /\ WithHub(p, [publishValidated(h, "committed", cb.event)
                             EXCEPT !.callback[c].stage = "observe"])

\* Once the text is out, EnqueueCommitted marks the event seen, under the dispatcher's mutex: one at
\* or below the high-water mark is dropped, whichever callback came late, and
\* one that is refused is never offered again.
observe(p, c, accepting) ==
    LET h == H(p)  cb == h.callback[c] IN
    /\ cb.stage = "observe" /\ [type |-> "committed", event |-> cb.event] \notin Underway(h)
    /\ \/ /\ cb.event <= h.highWater
          /\ WithHub(p, [h EXCEPT !.callback[c] = NoCallback])
       \/ /\ cb.event > h.highWater
          /\ WithHub(p, [h EXCEPT !.highWater = cb.event,
                 !.callback[c] = IF accepting THEN [cb EXCEPT !.stage = "offer"]
                                 ELSE NoCallback])

\* ... and offers it, with the mutex released, if somebody listens and the
\* queue has room.
EnqueueCommitted(p, c) ==
    LET h == H(p)  cb == h.callback[c] IN
    /\ cb.stage = "offer" /\ Released(h)
    /\ WithHub(p, [h EXCEPT !.callback[c] = NoCallback,
           !.requests = IF HasAudioSubscribers(h) /\ Len(@) < QueueCapacity
                        THEN Append(@, cb.event) ELSE @])

\* A voice worker that passed the gate takes the oldest request.
TakeRequest(p) ==
    LET h == H(p) IN
    /\ h.requests # <<>> /\ Cardinality(Voiced(h)) < MaxConcurrency
    /\ WithHub(p, [h EXCEPT !.requests = Tail(@), !.speaking = @ \cup {Head(h.requests)}])

\* synthesize: the audio is published if the hub still is open, or the request
\* failed (an error, its timeout, the stop) and nothing is published.
PublishAudio(p, event) ==
    /\ event \in H(p).speaking /\ ~H(p).closed /\ Released(H(p))
    /\ WithHub(p, [publishValidated(H(p), "audio", event) EXCEPT !.speaking = @ \ {event}])

SynthesisFails(p, event) ==
    /\ event \in H(p).speaking
    /\ WithHub(p, [H(p) EXCEPT !.speaking = @ \ {event}])

---------------------------------------------------------------------------
(* What subscribers can rely on *)

Audible(h, s) ==
    {i \in DOMAIN h.stream : i > s.since /\ Hears(s, h.stream[i].type)}

\* What will reach a subscriber: its queue, and the event a producer has for it.
Coming(h, s) == IF s.offer = "none" THEN s.queue ELSE Append(s.queue, Len(h.stream))

\* What waits for a subscriber is always the newest part of what it may hear,
\* and is newer than everything it received, even when the browser takes events
\* between a producer's failed attempt, its drop and its second attempt: old
\* events may be lost, never the latest one, and nothing is seen twice or out
\* of order.
FreshestKept ==
    \A p \in DOMAIN hub : \A l \in Listener :
        LET s == H(p).subscribers[l]
            heard == Audible(H(p), s)
            coming == Coming(H(p), s)
            fresh == IF coming = <<>> THEN {i \in heard : i > s.last}
                     ELSE {i \in heard : i >= coming[1]} IN
        s.open =>
            /\ {coming[k] : k \in DOMAIN coming} = fresh
            /\ \A j, k \in DOMAIN coming : j < k => coming[j] < coming[k]
            /\ coming # <<>> => s.last < coming[1]
            /\ s.last \in heard \cup {0}

\* The audio of an utterance is published at most once and only after its text.
AudioFollowsText ==
    \A p \in DOMAIN hub :
        LET stream == H(p).stream IN
        \A i \in DOMAIN stream : stream[i].type = "audio" =>
            /\ \E j \in 1..(i - 1) : stream[j] = [type |-> "committed", event |-> stream[i].event]
            /\ \A j \in 1..(i - 1) : stream[j] # stream[i]
============================================================================
