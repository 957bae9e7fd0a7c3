-------------------------- MODULE OperationsProofs --------------------------
(***************************************************************************)
(* The processes around one data directory, for any number of processes    *)
(* and listeners, any sizes of the queues and any budgets.                 *)
(***************************************************************************)
EXTENDS Operations, FiniteSetTheorems, SequenceTheorems, TLAPS

-----------------------------------------------------------------------------
(* The event hub and the dispatcher of one process.                        *)

Utterance == [type : {"provisional", "status", "error", "committed", "audio"}, event : Nat]
CallbackRecord == [stage : {"none", "publish", "observe", "offer"}, event : Nat]

\* The text, and the audio, of an utterance in a stream.
Told(stream, e) == \E j \in 1..Len(stream) : stream[j] = [type |-> "committed", event |-> e]
Spoken(stream, e) == \E j \in 1..Len(stream) : stream[j] = [type |-> "audio", event |-> e]

Asked(requests, e) == \E i \in 1..Len(requests) : requests[i] = e

VoiceOrder(stream) ==
    \A i \in 1..Len(stream) : stream[i].type = "audio" =>
        /\ \E j \in 1..(i - 1) : stream[j] = [type |-> "committed", event |-> stream[i].event]
        /\ \A j \in 1..(i - 1) : stream[j] # stream[i]

\* An utterance is told before it is observed, and it is in one place at most of
\* those that lead to its audio: an offer, the requests, the voice workers, the
\* stream.  All of them are at or below the high-water mark.
CallbackFits(h, c) ==
    LET cb == h.callback[c] IN
    /\ cb.stage \in {"observe", "offer"} => Told(h.stream, cb.event)
    /\ cb.stage = "offer" =>
         /\ cb.event <= h.highWater
         /\ ~Asked(h.requests, cb.event) /\ cb.event \notin h.speaking
         /\ ~Spoken(h.stream, cb.event)

VoiceInv(h) ==
    /\ \A c \in Callers : CallbackFits(h, c)
    /\ h.callback["dialogue"].stage = "offer" /\ h.callback["autonomy"].stage = "offer" =>
         h.callback["dialogue"].event # h.callback["autonomy"].event
    /\ \A e \in Nat : Asked(h.requests, e) \/ e \in h.speaking =>
         Told(h.stream, e) /\ e <= h.highWater /\ ~Spoken(h.stream, e)
    /\ \A e \in Nat : Spoken(h.stream, e) => e <= h.highWater
    /\ \A e \in h.speaking : ~Asked(h.requests, e)
    /\ \A i, j \in 1..Len(h.requests) : h.requests[i] = h.requests[j] => i = j
    /\ VoiceOrder(h.stream)

\* A queue that holds the part of heard from its first element on.
Newest(q, heard, last) ==
    /\ {q[k] : k \in DOMAIN q} =
          IF q = <<>> THEN {i \in heard : i > last} ELSE {i \in heard : i >= q[1]}
    /\ \A j, k \in DOMAIN q : j < k => q[j] < q[k]
    /\ q # <<>> => last < q[1]
    /\ last \in heard \cup {0}

\* One subscriber of a stream.  Whoever found its queue full and dropped an event
\* finds room: only the browser works on the queue in between, and it takes.
Follows(h, s) ==
    /\ s = [open |-> s.open, audio |-> s.audio, since |-> s.since, queue |-> s.queue,
            last |-> s.last, offer |-> s.offer]
    /\ s.queue \in Seq(Nat) /\ s.last \in Nat /\ s.since \in Nat
    /\ s.since <= Len(h.stream)
    /\ Len(s.queue) <= Capacity(s) /\ (s.offer = "dropped" => Room(s))
    /\ s.open => Newest(Coming(h, s), Audible(h, s), s.last)

ListenInv(h) == \A l \in Listener : Follows(h, h.subscribers[l])

IsHub(h) ==
    /\ h = [closed |-> h.closed, stream |-> h.stream, highWater |-> h.highWater,
            requests |-> h.requests, speaking |-> h.speaking,
            subscribers |-> h.subscribers, callback |-> h.callback]
    /\ h.stream \in Seq(Utterance) /\ h.highWater \in Nat
    /\ h.requests \in Seq(Nat) /\ h.speaking \subseteq Nat
    /\ h.subscribers = [l \in Listener |-> h.subscribers[l]]
    /\ h.callback \in [Callers -> CallbackRecord]

HubInv(h) == IsHub(h) /\ VoiceInv(h) /\ ListenInv(h)

-----------------------------------------------------------------------------
(* One more event in a stream.                                             *)

LEMMA LongerStream ==
    ASSUME NEW S, NEW st \in Seq(S), NEW x \in S
    PROVE  /\ Append(st, x) \in Seq(S) /\ Len(Append(st, x)) = Len(st) + 1
           /\ Len(st) \in Nat
           /\ Append(st, x)[Len(st) + 1] = x
           /\ \A i \in 1..Len(st) : Append(st, x)[i] = st[i]
  OBVIOUS

LEMMA TellMore ==
    ASSUME NEW st \in Seq(Utterance), NEW x \in Utterance, NEW e \in Nat
    PROVE  /\ Told(Append(st, x), e) <=>
                Told(st, e) \/ x = [type |-> "committed", event |-> e]
           /\ Spoken(Append(st, x), e) <=>
                Spoken(st, e) \/ x = [type |-> "audio", event |-> e]
  <1>1. /\ Len(Append(st, x)) = Len(st) + 1 /\ Len(st) \in Nat
        /\ Append(st, x)[Len(st) + 1] = x
        /\ \A i \in 1..Len(st) : Append(st, x)[i] = st[i]
    BY LongerStream
  <1>2. 1..(Len(st) + 1) = (1..Len(st)) \cup {Len(st) + 1}
    BY <1>1
  <1> QED
    BY <1>1, <1>2 DEF Told, Spoken

LEMMA OrderMore ==
    ASSUME NEW st \in Seq(Utterance), NEW x \in Utterance, VoiceOrder(st),
           x.type = "audio" => Told(st, x.event) /\ ~Spoken(st, x.event)
    PROVE  VoiceOrder(Append(st, x))
  <1> DEFINE t == Append(st, x)
  <1>1. /\ Len(t) = Len(st) + 1 /\ Len(st) \in Nat
        /\ t[Len(st) + 1] = x
        /\ \A i \in 1..Len(st) : t[i] = st[i]
    BY LongerStream
  <1> HIDE DEF t
  <1> SUFFICES ASSUME NEW i \in 1..Len(t), t[i].type = "audio"
               PROVE  /\ \E j \in 1..(i - 1) : t[j] = [type |-> "committed", event |-> t[i].event]
                      /\ \A j \in 1..(i - 1) : t[j] # t[i]
    BY DEF VoiceOrder, t
  <1>2. CASE i \in 1..Len(st)
    <2>1. 1..(i - 1) \subseteq 1..Len(st)
      BY <1>1, <1>2
    <2> QED
      BY <1>1, <1>2, <2>1 DEF VoiceOrder
  <1>3. CASE i = Len(st) + 1
    <2>1. i - 1 = Len(st) /\ t[i] = x /\ x.type = "audio"
      BY <1>1, <1>3
    <2>2. x = [type |-> "audio", event |-> x.event]
      BY <2>1 DEF Utterance
    <2> QED
      BY <1>1, <2>1, <2>2 DEF Told, Spoken
  <1> QED
    BY <1>1, <1>2, <1>3

-----------------------------------------------------------------------------
(* The voice of an utterance.                                              *)

\* Steps that move no utterance closer to its audio, or that publish it.
LEMMA VoiceKept ==
    ASSUME NEW h, NEW g, IsHub(h), IsHub(g), VoiceInv(h), VoiceOrder(g.stream),
           \A e \in Nat : Told(h.stream, e) => Told(g.stream, e),
           \A e \in Nat : Spoken(g.stream, e) =>
              Spoken(h.stream, e) \/ (e \in h.speaking /\ e \notin g.speaking),
           h.highWater <= g.highWater, g.requests = h.requests,
           g.speaking \subseteq h.speaking,
           \A c \in Callers : g.callback[c].stage = "offer" => g.callback[c] = h.callback[c],
           \A c \in Callers : g.callback[c].stage = "observe" =>
              Told(g.stream, g.callback[c].event)
    PROVE  VoiceInv(g)
  <1>0. /\ h.highWater \in Nat /\ g.highWater \in Nat /\ h.speaking \subseteq Nat
        /\ \A c \in Callers : h.callback[c].event \in Nat /\ g.callback[c].event \in Nat
    BY DEF IsHub, CallbackRecord
  <1>1. \A e \in Nat : Asked(g.requests, e) \/ e \in g.speaking =>
            Told(g.stream, e) /\ e <= g.highWater /\ ~Spoken(g.stream, e)
    <2> SUFFICES ASSUME NEW e \in Nat, Asked(g.requests, e) \/ e \in g.speaking
                 PROVE  Told(g.stream, e) /\ e <= g.highWater /\ ~Spoken(g.stream, e)
      OBVIOUS
    <2>1. Asked(h.requests, e) \/ e \in h.speaking
      OBVIOUS
    <2>2. Told(h.stream, e) /\ e <= h.highWater /\ ~Spoken(h.stream, e)
      BY <2>1 DEF VoiceInv
    <2>3. ~(e \in h.speaking /\ e \notin g.speaking)
      BY DEF VoiceInv
    <2> QED
      BY <1>0, <2>2, <2>3
  <1>2. \A e \in Nat : Spoken(g.stream, e) => e <= g.highWater
    BY <1>0 DEF VoiceInv
  <1>3. \A c \in Callers : CallbackFits(g, c)
    <2> SUFFICES ASSUME NEW c \in Callers PROVE CallbackFits(g, c)
      OBVIOUS
    <2>1. CASE g.callback[c].stage = "offer"
      <3>1. g.callback[c] = h.callback[c] /\ CallbackFits(h, c)
        BY <2>1 DEF VoiceInv
      <3>2. PICK e \in Nat : e = h.callback[c].event
        BY <1>0
      <3>3. /\ Told(h.stream, e) /\ e <= h.highWater /\ ~Asked(h.requests, e)
            /\ e \notin h.speaking /\ ~Spoken(h.stream, e)
        BY <2>1, <3>1, <3>2 DEF CallbackFits
      <3>4. /\ Told(g.stream, e) /\ e <= g.highWater /\ ~Asked(g.requests, e)
            /\ e \notin g.speaking /\ ~Spoken(g.stream, e)
        BY <1>0, <3>3
      <3> QED
        BY <3>1, <3>2, <3>4 DEF CallbackFits
    <2>2. CASE g.callback[c].stage # "offer"
      BY <2>2 DEF CallbackFits
    <2> QED
      BY <2>1, <2>2
  <1>4. g.callback["dialogue"].stage = "offer" /\ g.callback["autonomy"].stage = "offer" =>
            g.callback["dialogue"].event # g.callback["autonomy"].event
    BY DEF VoiceInv, Callers
  <1>5. \A e \in g.speaking : ~Asked(g.requests, e)
    BY DEF VoiceInv
  <1> QED
    BY <1>1, <1>2, <1>3, <1>4, <1>5 DEF VoiceInv

\* What is observed for the first time is above everything on its way.
LEMMA VoiceObserved ==
    ASSUME NEW h, NEW g, IsHub(h), IsHub(g), VoiceInv(h), NEW c \in Callers,
           h.callback[c].stage = "observe", h.callback[c].event > h.highWater,
           g.stream = h.stream, g.requests = h.requests, g.speaking = h.speaking,
           g.highWater = h.callback[c].event,
           g.callback[c] = [stage |-> "offer", event |-> h.callback[c].event],
           \A d \in Callers \ {c} : g.callback[d] = h.callback[d]
    PROVE  VoiceInv(g)
  <1>0. /\ h.highWater \in Nat /\ h.speaking \subseteq Nat
        /\ \A d \in Callers : h.callback[d].event \in Nat
    BY DEF IsHub, CallbackRecord
  <1>1. PICK e \in Nat : e = h.callback[c].event /\ e > h.highWater
    BY <1>0
  <1>2. \A x \in Nat : /\ Asked(h.requests, x) \/ x \in h.speaking =>
                            Told(h.stream, x) /\ x <= h.highWater /\ ~Spoken(h.stream, x)
                       /\ Spoken(h.stream, x) => x <= h.highWater
    BY DEF VoiceInv
  <1>3. \A d \in Callers : CallbackFits(h, d)
    BY DEF VoiceInv
  <1>4. Told(h.stream, e)
    BY <1>1, <1>3 DEF CallbackFits
  <1>5. ~Asked(h.requests, e) /\ e \notin h.speaking /\ ~Spoken(h.stream, e)
    BY <1>0, <1>1, <1>2
  <1>6. \A d \in Callers : CallbackFits(g, d)
    <2> SUFFICES ASSUME NEW d \in Callers PROVE CallbackFits(g, d)
      OBVIOUS
    <2>1. CASE d = c
      BY <1>1, <1>4, <1>5, <2>1 DEF CallbackFits
    <2>2. CASE d # c
      <3>1. g.callback[d] = h.callback[d] /\ CallbackFits(h, d)
        BY <1>3, <2>2
      <3> QED
        BY <1>0, <1>1, <3>1 DEF CallbackFits
    <2> QED
      BY <2>1, <2>2
  <1>7. ASSUME NEW d \in Callers \ {c}, g.callback[d].stage = "offer"
        PROVE  g.callback[d].event # g.callback[c].event
    <2>1. h.callback[d].event <= h.highWater
      BY <1>3, <1>7 DEF CallbackFits
    <2> QED
      BY <1>0, <1>1, <2>1
  <1>8. \A x \in Nat : x <= h.highWater => x <= g.highWater
    BY <1>0, <1>1
  <1>9. g.callback["dialogue"].stage = "offer" /\ g.callback["autonomy"].stage = "offer" =>
            g.callback["dialogue"].event # g.callback["autonomy"].event
    BY <1>7 DEF Callers
  <1> QED
    BY <1>2, <1>6, <1>8, <1>9 DEF VoiceInv

\* An offer becomes a request.
LEMMA VoiceRequested ==
    ASSUME NEW h, NEW g, IsHub(h), IsHub(g), VoiceInv(h), NEW c \in Callers,
           h.callback[c].stage = "offer",
           g.stream = h.stream, g.speaking = h.speaking, g.highWater = h.highWater,
           g.requests = Append(h.requests, h.callback[c].event),
           g.callback[c].stage = "none",
           \A d \in Callers \ {c} : g.callback[d] = h.callback[d]
    PROVE  VoiceInv(g)
  <1>0. /\ h.requests \in Seq(Nat) /\ h.speaking \subseteq Nat
        /\ \A d \in Callers : h.callback[d].event \in Nat
    BY DEF IsHub, CallbackRecord
  <1>1. PICK e \in Nat : e = h.callback[c].event
    BY <1>0
  <1>2. \A d \in Callers : CallbackFits(h, d)
    BY DEF VoiceInv
  <1>3. /\ Told(h.stream, e) /\ e <= h.highWater /\ ~Asked(h.requests, e)
        /\ e \notin h.speaking /\ ~Spoken(h.stream, e)
    BY <1>1, <1>2 DEF CallbackFits
  <1>4. /\ Len(g.requests) = Len(h.requests) + 1 /\ Len(h.requests) \in Nat
        /\ g.requests[Len(h.requests) + 1] = e
        /\ \A i \in 1..Len(h.requests) : g.requests[i] = h.requests[i]
    BY <1>0, <1>1, LongerStream
  <1>5. \A x : Asked(g.requests, x) <=> Asked(h.requests, x) \/ x = e
    <2>1. 1..Len(g.requests) = (1..Len(h.requests)) \cup {Len(h.requests) + 1}
      BY <1>4
    <2> QED
      BY <1>4, <2>1 DEF Asked
  <1>6. ASSUME NEW d \in Callers \ {c}, h.callback[d].stage = "offer"
        PROVE  h.callback[d].event # e
    BY <1>1, <1>6 DEF VoiceInv, Callers
  <1>7. \A d \in Callers : CallbackFits(g, d)
    <2> SUFFICES ASSUME NEW d \in Callers PROVE CallbackFits(g, d)
      OBVIOUS
    <2>1. CASE d = c
      BY <2>1 DEF CallbackFits
    <2>2. CASE d # c
      <3>1. g.callback[d] = h.callback[d] /\ CallbackFits(h, d)
        BY <1>2, <2>2
      <3> QED
        BY <1>5, <1>6, <2>2, <3>1 DEF CallbackFits
    <2> QED
      BY <2>1, <2>2
  <1>8. \A i, j \in 1..Len(g.requests) : g.requests[i] = g.requests[j] => i = j
    <2>1. \A i \in 1..Len(h.requests) : h.requests[i] # e
      BY <1>3 DEF Asked
    <2>2. \A i, j \in 1..Len(h.requests) : h.requests[i] = h.requests[j] => i = j
      BY DEF VoiceInv
    <2>3. \A i \in 1..Len(g.requests) : i \in 1..Len(h.requests) \/ i = Len(h.requests) + 1
      BY <1>4
    <2> QED
      BY <1>4, <2>1, <2>2, <2>3
  <1>9. \A x \in Nat : Asked(g.requests, x) \/ x \in g.speaking =>
            Told(g.stream, x) /\ x <= g.highWater /\ ~Spoken(g.stream, x)
    BY <1>3, <1>5 DEF VoiceInv
  <1>10. \A x \in g.speaking : ~Asked(g.requests, x)
    BY <1>3, <1>5 DEF VoiceInv
  <1> QED
    BY <1>7, <1>8, <1>9, <1>10 DEF VoiceInv, Callers

\* A voice worker takes the oldest request.
LEMMA VoiceTaken ==
    ASSUME NEW h, NEW g, IsHub(h), IsHub(g), VoiceInv(h), h.requests # <<>>,
           g.stream = h.stream, g.highWater = h.highWater, g.callback = h.callback,
           g.requests = Tail(h.requests),
           g.speaking = h.speaking \cup {Head(h.requests)}
    PROVE  VoiceInv(g)
  <1>0. h.requests \in Seq(Nat) /\ h.speaking \subseteq Nat
    BY DEF IsHub
  <1>1. /\ Len(h.requests) \in Nat \ {0} /\ Len(g.requests) = Len(h.requests) - 1
        /\ Head(h.requests) = h.requests[1]
        /\ \A i \in 1..Len(g.requests) : g.requests[i] = h.requests[i + 1]
    BY <1>0
  <1>2. PICK e \in Nat : e = Head(h.requests) /\ Asked(h.requests, e)
    <2>1. h.requests[1] \in Nat /\ 1 \in 1..Len(h.requests)
      BY <1>0, <1>1
    <2> QED
      BY <1>1, <2>1 DEF Asked
  <1>3. \A i, j \in 1..Len(h.requests) : h.requests[i] = h.requests[j] => i = j
    BY DEF VoiceInv
  <1>4. \A x : Asked(g.requests, x) => Asked(h.requests, x)
    <2>1. \A i \in 1..Len(g.requests) : i + 1 \in 1..Len(h.requests)
      BY <1>1
    <2> QED
      BY <1>1, <2>1 DEF Asked
  <1>5. ~Asked(g.requests, e)
    <2>1. \A i \in 1..Len(g.requests) : i + 1 \in 1..Len(h.requests) /\ i + 1 # 1
      BY <1>1
    <2>2. 1 \in 1..Len(h.requests)
      BY <1>1
    <2> QED
      BY <1>1, <1>2, <1>3, <2>1, <2>2 DEF Asked
  <1>6. \A d \in Callers : CallbackFits(g, d)
    BY <1>2, <1>4 DEF VoiceInv, CallbackFits
  <1>7. \A i, j \in 1..Len(g.requests) : g.requests[i] = g.requests[j] => i = j
    <2>1. \A i \in 1..Len(g.requests) : i + 1 \in 1..Len(h.requests)
      BY <1>1
    <2>2. \A i, j \in 1..Len(g.requests) : i + 1 = j + 1 => i = j
      OBVIOUS
    <2> QED
      BY <1>1, <1>3, <2>1, <2>2
  <1>8. \A x \in g.speaking : ~Asked(g.requests, x)
    BY <1>2, <1>4, <1>5 DEF VoiceInv
  <1>9. \A x \in Nat : Asked(g.requests, x) \/ x \in g.speaking =>
            Told(g.stream, x) /\ x <= g.highWater /\ ~Spoken(g.stream, x)
    BY <1>2, <1>4 DEF VoiceInv
  <1> QED
    BY <1>6, <1>7, <1>8, <1>9 DEF VoiceInv

-----------------------------------------------------------------------------
(* The queue of a subscriber.                                              *)

LEMMA TailNewest ==
    ASSUME NEW q \in Seq(Nat), NEW heard \in SUBSET Nat, NEW last \in Nat,
           Newest(q, heard, last), q # <<>>
    PROVE  /\ Tail(q) \in Seq(Nat) /\ q[1] \in Nat /\ Newest(Tail(q), heard, q[1])
           /\ Tail(q) # <<>> => last < Tail(q)[1]
  <1>1. /\ Len(q) \in Nat \ {0} /\ DOMAIN q = 1..Len(q)
        /\ Tail(q) \in Seq(Nat) /\ Len(Tail(q)) = Len(q) - 1
        /\ DOMAIN Tail(q) = 1..(Len(q) - 1)
        /\ \A i \in 1..(Len(q) - 1) : Tail(q)[i] = q[i + 1]
        /\ \A i \in 1..Len(q) : q[i] \in Nat
    OBVIOUS
  <1>2. PICK t : t = Tail(q)
    OBVIOUS
  <1>3. {q[k] : k \in DOMAIN q} = {i \in heard : i >= q[1]}
    BY DEF Newest
  <1>4. \A k \in 2..Len(q) : q[1] < q[k] /\ k - 1 \in DOMAIN t /\ t[k - 1] = q[k]
    <2> TAKE k \in 2..Len(q)
    <2>1. \A j, i \in DOMAIN q : j < i => q[j] < q[i]
      BY DEF Newest
    <2>2. 1 \in DOMAIN q /\ k \in DOMAIN q /\ 1 < k /\ k - 1 \in 1..(Len(q) - 1) /\ (k - 1) + 1 = k
      BY <1>1
    <2>3. q[1] < q[k]
      BY <2>1, <2>2
    <2> QED
      BY <1>1, <1>2, <2>2, <2>3
  <1>5. {t[k] : k \in DOMAIN t} = {i \in heard : i > q[1]}
    <2>1. \A k \in DOMAIN t : t[k] \in heard /\ t[k] > q[1]
      <3> TAKE k \in DOMAIN t
      <3>1. k + 1 \in 2..Len(q) /\ t[k] = q[k + 1]
        BY <1>1, <1>2
      <3>2. q[k + 1] \in heard
        BY <1>1, <1>3, <3>1
      <3> QED
        BY <1>1, <1>4, <3>1, <3>2
    <2>2. ASSUME NEW i \in heard, i > q[1] PROVE \E k \in DOMAIN t : t[k] = i
      <3>1. PICK k \in DOMAIN q : q[k] = i
        BY <1>1, <1>3, <2>2
      <3>2. k \in 2..Len(q)
        BY <1>1, <2>2, <3>1
      <3> QED
        BY <1>4, <3>1, <3>2
    <2> QED
      BY <2>1, <2>2
  <1>6. \A j, k \in DOMAIN t : j < k => t[j] < t[k]
    <2> TAKE j, k \in DOMAIN t
    <2> HAVE j < k
    <2>1. j + 1 \in DOMAIN q /\ k + 1 \in DOMAIN q /\ j + 1 < k + 1
      BY <1>1, <1>2
    <2>2. t[j] = q[j + 1] /\ t[k] = q[k + 1]
      BY <1>1, <1>2
    <2> QED
      BY <2>1, <2>2 DEF Newest
  <1>7. t # <<>> => t[1] \in heard /\ q[1] < t[1] /\ \A k \in DOMAIN t : t[1] <= t[k]
    <2> HAVE t # <<>>
    <2>1. 1 \in DOMAIN t /\ t[1] = q[2] /\ 2 \in 2..Len(q)
      BY <1>1, <1>2
    <2>2. t[1] \in heard
      BY <1>5, <2>1
    <2>3. \A k \in DOMAIN t : t[1] <= t[k]
      <3> TAKE k \in DOMAIN t
      <3>1. t[k] \in Nat /\ t[1] \in Nat /\ (k = 1 \/ 1 < k)
        BY <1>1, <1>2, <2>1
      <3>2. 1 < k => t[1] < t[k]
        BY <1>6, <2>1
      <3> QED
        BY <3>1, <3>2
    <2> QED
      BY <1>4, <2>1, <2>2, <2>3
  <1>8. t # <<>> => {t[k] : k \in DOMAIN t} = {i \in heard : i >= t[1]}
    <2> HAVE t # <<>>
    <2>0. t[1] \in Nat /\ q[1] \in Nat
      BY <1>1, <1>2
    <2>1. \A i \in heard : i >= t[1] => i > q[1]
      BY <1>7, <2>0
    <2>2. \A i \in heard : i > q[1] => i >= t[1]
      BY <1>5, <1>7
    <2>3. {i \in heard : i > q[1]} = {i \in heard : i >= t[1]}
      BY <2>1, <2>2
    <2> QED
      BY <1>5, <2>3
  <1>9. q[1] \in heard
    <2>1. q[1] >= q[1] /\ 1 \in DOMAIN q
      BY <1>1
    <2> QED
      BY <1>3, <2>1
  <1>10. last < q[1]
    BY DEF Newest
  <1> QED
    BY <1>1, <1>2, <1>5, <1>6, <1>7, <1>8, <1>9, <1>10 DEF Newest

\* The next event, at a position above all that was heard.
LEMMA AppendNewest ==
    ASSUME NEW q \in Seq(Nat), NEW heard \in SUBSET Nat, NEW last \in Nat, NEW n \in Nat,
           Newest(q, heard, last) \/ (q = <<>> /\ last \in heard \cup {0}),
           \A i \in heard : i < n, n > 0
    PROVE  Append(q, n) \in Seq(Nat) /\ Newest(Append(q, n), heard \cup {n}, last)
  <1>1. PICK t : t = Append(q, n)
    OBVIOUS
  <1>2. /\ t \in Seq(Nat) /\ Len(t) = Len(q) + 1 /\ t[Len(q) + 1] = n /\ Len(q) \in Nat
        /\ DOMAIN t = (1..Len(q)) \cup {Len(q) + 1} /\ DOMAIN q = 1..Len(q)
        /\ \A i \in 1..Len(q) : t[i] = q[i] /\ q[i] \in Nat
        /\ t # <<>>
    BY <1>1
  <1>3. CASE q = <<>>
    <2>1. t[1] = n /\ DOMAIN t = {1}
      BY <1>2, <1>3
    <2>2. {i \in heard \cup {n} : i >= n} = {n}
      <3>1. \A i \in heard : ~(i >= n)
        OBVIOUS
      <3>2. n >= n
        OBVIOUS
      <3> QED
        BY <3>1, <3>2
    <2>3. last \in heard \cup {0} /\ last < n
      BY DEF Newest
    <2> QED
      BY <1>1, <1>2, <2>1, <2>2, <2>3 DEF Newest
  <1>4. CASE q # <<>>
    <2>1. 1 \in 1..Len(q) /\ t[1] = q[1] /\ last < q[1]
      BY <1>2, <1>4 DEF Newest
    <2>2. \A k \in 1..Len(q) : q[k] \in heard /\ q[k] < n
      BY <1>2, <1>4 DEF Newest
    <2>3. {t[k] : k \in DOMAIN t} = {q[k] : k \in DOMAIN q} \cup {n}
      <3>1. PICK m : m = Len(q) + 1
        OBVIOUS
      <3>2. DOMAIN t = DOMAIN q \cup {m} /\ t[m] = n /\ \A k \in DOMAIN q : t[k] = q[k]
        BY <1>2, <3>1
      <3> QED
        BY <3>2
    <2>4. {q[k] : k \in DOMAIN q} = {i \in heard : i >= q[1]}
      BY <1>4 DEF Newest
    <2>5. {t[k] : k \in DOMAIN t} = {i \in heard \cup {n} : i >= t[1]}
      BY <1>2, <2>1, <2>2, <2>3, <2>4
    <2>6. \A j, k \in DOMAIN t : j < k => t[j] < t[k]
      <3> TAKE j, k \in DOMAIN t
      <3> HAVE j < k
      <3>1. j \in 1..Len(q)
        BY <1>2
      <3>2. CASE k \in 1..Len(q)
        BY <1>2, <1>4, <3>1, <3>2 DEF Newest
      <3>3. CASE k = Len(q) + 1
        BY <1>2, <2>2, <3>1, <3>3
      <3> QED
        BY <1>2, <3>2, <3>3
    <2> QED
      BY <1>1, <1>2, <1>4, <2>1, <2>5, <2>6 DEF Newest
  <1> QED
    BY <1>3, <1>4

\* What is dropped or received is the first of what comes.
LEMMA TailAppend ==
    ASSUME NEW q \in Seq(Nat), NEW n \in Nat, q # <<>>
    PROVE  /\ Tail(q) \in Seq(Nat) /\ Len(Tail(q)) = Len(q) - 1 /\ Len(q) \in Nat \ {0}
           /\ Append(q, n) \in Seq(Nat) /\ Append(q, n) # <<>> /\ Append(q, n)[1] = q[1]
           /\ Append(Tail(q), n) = Tail(Append(q, n)) /\ Tail(Append(q, n)) # <<>>
  <1>1. /\ Tail(q) \in Seq(Nat) /\ Len(Tail(q)) = Len(q) - 1 /\ Len(q) \in Nat \ {0}
        /\ \A i \in 1..(Len(q) - 1) : Tail(q)[i] = q[i + 1]
    OBVIOUS
  <1>2. /\ Append(q, n) \in Seq(Nat)
        /\ Len(Append(q, n)) = Len(q) + 1 /\ Append(q, n)[Len(q) + 1] = n
        /\ \A i \in 1..Len(q) : Append(q, n)[i] = q[i]
    BY LongerStream
  <1>3. PICK t : t = Tail(q)
    OBVIOUS
  <1>4. PICK a : a = Append(q, n)
    OBVIOUS
  <1>a. 1 \in 1..Len(q) /\ Append(q, n)[1] = q[1] /\ Append(q, n) # <<>>
    <2>1. 1 \in 1..Len(q) /\ Len(Append(q, n)) # 0
      BY <1>1, <1>2
    <2> QED
      BY <1>2, <2>1
  <1>5. /\ Append(t, n) \in Seq(Nat) /\ Len(Append(t, n)) = Len(t) + 1
        /\ Append(t, n)[Len(t) + 1] = n
        /\ \A i \in 1..Len(t) : Append(t, n)[i] = t[i]
    <2>1. t \in Seq(Nat)
      BY <1>1, <1>3
    <2> QED
      BY <2>1
  <1>6. /\ Tail(a) \in Seq(Nat) /\ Len(Tail(a)) = Len(a) - 1
        /\ \A i \in 1..(Len(a) - 1) : Tail(a)[i] = a[i + 1]
    <2>1. a \in Seq(Nat) /\ a # <<>> /\ Len(a) > 1 /\ Len(a) \in Nat
      BY <1>1, <1>2, <1>4, <1>a
    <2> QED
      BY <2>1
  <1>7. PICK b : b = Append(t, n)
    OBVIOUS
  <1>8. PICK c : c = Tail(a)
    OBVIOUS
  <1>9. PICK m \in Nat \ {0} : m = Len(q)
    BY <1>1
  <1>10. Len(t) = m - 1 /\ Len(a) = m + 1 /\ Len(b) = m /\ Len(c) = m
    BY <1>1, <1>2, <1>3, <1>4, <1>5, <1>6, <1>7, <1>8, <1>9
  <1>11. \A i \in 1..m : b[i] = c[i]
    <2> TAKE i \in 1..m
    <2>1. c[i] = a[i + 1]
      BY <1>6, <1>8, <1>10
    <2>2. CASE i < m
      <3>1. i \in 1..(m - 1) /\ i + 1 \in 1..m
        BY <1>9, <2>2
      <3>2. b[i] = t[i]
        BY <1>5, <1>7, <1>10, <3>1
      <3>3. t[i] = q[i + 1]
        BY <1>1, <1>3, <1>9, <3>1
      <3>4. a[i + 1] = q[i + 1]
        BY <1>2, <1>4, <1>9, <3>1
      <3> QED
        BY <2>1, <3>2, <3>3, <3>4
    <2>3. CASE i = m
      <3>1. b[i] = n /\ a[i + 1] = n
        BY <1>2, <1>4, <1>5, <1>7, <1>9, <1>10, <2>3
      <3> QED
        BY <2>1, <3>1
    <2> QED
      BY <1>9, <2>2, <2>3
  <1>12. b = c
    BY <1>5, <1>6, <1>7, <1>8, <1>10, <1>11, SeqEqual
  <1>13. c # <<>>
    <2>1. Len(<<>>) = 0
      OBVIOUS
    <2> QED
      BY <1>9, <1>10, <2>1
  <1> QED
    BY <1>1, <1>2, <1>3, <1>4, <1>7, <1>8, <1>12, <1>13, <1>a

\* One field of a subscriber.
LEMMA SubscriberFields ==
    ASSUME NEW s, NEW v,
           s = [open |-> s.open, audio |-> s.audio, since |-> s.since, queue |-> s.queue,
                last |-> s.last, offer |-> s.offer]
    PROVE  /\ [s EXCEPT !.queue = v] =
                [open |-> s.open, audio |-> s.audio, since |-> s.since, queue |-> v,
                 last |-> s.last, offer |-> s.offer]
           /\ [s EXCEPT !.last = v] =
                [open |-> s.open, audio |-> s.audio, since |-> s.since, queue |-> s.queue,
                 last |-> v, offer |-> s.offer]
           /\ [s EXCEPT !.offer = v] =
                [open |-> s.open, audio |-> s.audio, since |-> s.since, queue |-> s.queue,
                 last |-> s.last, offer |-> v]
  OBVIOUS

LEMMA OfferFollows ==
    ASSUME NEW h, NEW g, NEW s, NEW x \in Utterance, h.stream \in Seq(Utterance),
           Follows(h, s), s.offer = "none", g.stream = Append(h.stream, x)
    PROVE  Follows(g, IF Hears(s, x.type) THEN Offer(s, Len(h.stream) + 1) ELSE s)
  <1>1. /\ Len(h.stream) \in Nat /\ Len(g.stream) = Len(h.stream) + 1
        /\ DOMAIN h.stream = 1..Len(h.stream)
        /\ DOMAIN g.stream = (1..Len(h.stream)) \cup {Len(h.stream) + 1}
        /\ g.stream[Len(h.stream) + 1] = x
        /\ \A i \in 1..Len(h.stream) : g.stream[i] = h.stream[i]
    OBVIOUS
  <1>2. PICK n \in Nat : n = Len(h.stream) + 1
    BY <1>1
  <1>3. /\ s.queue \in Seq(Nat) /\ s.last \in Nat /\ s.since \in Nat
        /\ s.since <= Len(h.stream) /\ Len(s.queue) <= Capacity(s)
        /\ s.open => Newest(s.queue, Audible(h, s), s.last)
        /\ s = [open |-> s.open, audio |-> s.audio, since |-> s.since, queue |-> s.queue,
                last |-> s.last, offer |-> s.offer]
    BY DEF Follows, Coming
  <1>4. /\ Audible(h, s) \in SUBSET Nat /\ \A i \in Audible(h, s) : i < n
        /\ n > 0 /\ n > s.since
    BY <1>1, <1>2, <1>3 DEF Audible
  <1>5. CASE Hears(s, x.type)
    <2>1. s.open
      BY <1>5 DEF Hears
    <2>2. PICK a \in Seq(Nat) : a = Append(s.queue, n)
      <3>1. Append(s.queue, n) \in Seq(Nat)
        BY <1>3, LongerStream
      <3> QED
        BY <3>1
    <2>3. Newest(a, Audible(h, s) \cup {n}, s.last)
      BY <1>3, <1>4, <2>1, <2>2, AppendNewest
    <2>4. PICK t : t = Offer(s, n)
      OBVIOUS
    <2>5. CASE Room(s)
      <3>1. t = [open |-> s.open, audio |-> s.audio, since |-> s.since, queue |-> a,
                 last |-> s.last, offer |-> "none"]
        BY <1>3, <2>2, <2>4, <2>5 DEF Offer
      <3>2. Audible(g, t) = Audible(h, s) \cup {n} /\ Capacity(t) = Capacity(s)
        BY <1>1, <1>2, <1>4, <1>5, <3>1 DEF Audible, Hears, Capacity
      <3>3. Len(a) = Len(s.queue) + 1 /\ Len(s.queue) \in Nat /\ Capacity(s) \in Nat
        BY <1>3, <2>2, HubAssumption DEF Capacity
      <3>4. Len(a) <= Capacity(t)
        BY <2>5, <3>2, <3>3 DEF Room
      <3>5. Coming(g, t) = a
        BY <3>1 DEF Coming
      <3>6. t.since <= Len(g.stream)
        BY <1>1, <1>3, <3>1
      <3>7. /\ t = [open |-> t.open, audio |-> t.audio, since |-> t.since, queue |-> t.queue,
                     last |-> t.last, offer |-> t.offer]
            /\ t.queue = a /\ t.last = s.last /\ t.since = s.since /\ t.offer = "none"
        BY <3>1
      <3>8. Follows(g, t)
        BY <1>3, <2>2, <2>3, <3>2, <3>4, <3>5, <3>6, <3>7 DEF Follows
      <3> QED
        BY <1>2, <1>5, <2>4, <3>8
    <2>6. CASE ~Room(s)
      <3>1. t = [open |-> s.open, audio |-> s.audio, since |-> s.since, queue |-> s.queue,
                 last |-> s.last, offer |-> "full"]
        BY <1>3, <2>4, <2>6 DEF Offer
      <3>2. Audible(g, t) = Audible(h, s) \cup {n} /\ Capacity(t) = Capacity(s)
        BY <1>1, <1>2, <1>4, <1>5, <3>1 DEF Audible, Hears, Capacity
      <3>3. Coming(g, t) = a
        BY <1>1, <1>2, <2>2, <3>1 DEF Coming
      <3>4. t.since <= Len(g.stream)
        BY <1>1, <1>3, <3>1
      <3>5. /\ t = [open |-> t.open, audio |-> t.audio, since |-> t.since, queue |-> t.queue,
                     last |-> t.last, offer |-> t.offer]
            /\ t.queue = s.queue /\ t.last = s.last /\ t.since = s.since /\ t.offer = "full"
        BY <3>1
      <3>6. Follows(g, t)
        BY <1>3, <2>3, <3>2, <3>3, <3>4, <3>5 DEF Follows
      <3> QED
        BY <1>2, <1>5, <2>4, <3>6
    <2> QED
      BY <2>5, <2>6
  <1>6. CASE ~Hears(s, x.type)
    <2>1. Audible(g, s) = Audible(h, s)
      BY <1>1, <1>6 DEF Audible
    <2> QED
      BY <1>1, <1>3, <1>6, <2>1 DEF Follows, Coming
  <1> QED
    BY <1>5, <1>6

\* The mutex is free when no queue keeps a producer.
LEMMA NobodyOffers ==
    ASSUME NEW h, Released(h) PROVE \A l \in Listener : h.subscribers[l].offer = "none"
  BY DEF Released, Underway

LEMMA PublishListen ==
    ASSUME NEW h, NEW g, NEW x \in Utterance, IsHub(h), ListenInv(h), Released(h),
           g.stream = Append(h.stream, x),
           g.subscribers = [l \in Listener |->
               IF Hears(h.subscribers[l], x.type)
               THEN Offer(h.subscribers[l], Len(h.stream) + 1) ELSE h.subscribers[l]]
    PROVE  ListenInv(g)
  <1>1. ASSUME NEW l \in Listener PROVE Follows(g, g.subscribers[l])
    <2>1. PICK s : s = h.subscribers[l]
      OBVIOUS
    <2>2. h.stream \in Seq(Utterance) /\ Follows(h, s) /\ s.offer = "none"
      BY <2>1, NobodyOffers DEF IsHub, ListenInv
    <2>3. Follows(g, IF Hears(s, x.type) THEN Offer(s, Len(h.stream) + 1) ELSE s)
      BY <2>2, OfferFollows
    <2>4. g.subscribers[l] = IF Hears(s, x.type) THEN Offer(s, Len(h.stream) + 1) ELSE s
      BY <2>1
    <2> QED
      BY <2>3, <2>4
  <1> QED
    BY <1>1 DEF ListenInv

LEMMA SameListen ==
    ASSUME NEW h, NEW g, ListenInv(h), g.stream = h.stream, g.subscribers = h.subscribers
    PROVE  ListenInv(g)
  BY DEF ListenInv, Follows, Audible, Coming

LEMMA NobodyFollows ==
    ASSUME NEW h, h.stream \in Seq(Utterance) PROVE Follows(h, NoSubscriber)
  <1>1. Len(h.stream) \in Nat /\ <<>> \in Seq(Nat) /\ Len(<<>>) = 0
    OBVIOUS
  <1>2. Capacity(NoSubscriber) \in Nat
    BY HubAssumption DEF Capacity
  <1> QED
    BY <1>1, <1>2 DEF Follows, NoSubscriber

-----------------------------------------------------------------------------
(* The operations of the hub and of the dispatcher, field by field.        *)

LEMMA PublishFields ==
    ASSUME NEW h, IsHub(h), NEW type, NEW event
    PROVE  publishValidated(h, type, event) =
             [closed |-> h.closed, stream |-> Append(h.stream, [type |-> type, event |-> event]),
              highWater |-> h.highWater, requests |-> h.requests, speaking |-> h.speaking,
              subscribers |-> [l \in Listener |->
                  IF Hears(h.subscribers[l], type)
                  THEN Offer(h.subscribers[l], Len(h.stream) + 1) ELSE h.subscribers[l]],
              callback |-> h.callback]
  <1>1. PICK st : st = Append(h.stream, [type |-> type, event |-> event])
    OBVIOUS
  <1>2. PICK sub : sub = [l \in Listener |->
                  IF Hears(h.subscribers[l], type)
                  THEN Offer(h.subscribers[l], Len(h.stream) + 1) ELSE h.subscribers[l]]
    OBVIOUS
  <1>3. publishValidated(h, type, event) = [h EXCEPT !.stream = st, !.subscribers = sub]
    BY <1>1, <1>2 DEF publishValidated
  <1>4. PICK a : a = [h EXCEPT !.stream = st]
    OBVIOUS
  <1>5. a = [closed |-> h.closed, stream |-> st, highWater |-> h.highWater,
             requests |-> h.requests, speaking |-> h.speaking,
             subscribers |-> h.subscribers, callback |-> h.callback]
    BY <1>4 DEF IsHub
  <1>6. publishValidated(h, type, event) = [a EXCEPT !.subscribers = sub]
    BY <1>3, <1>4
  <1> QED
    BY <1>1, <1>2, <1>5, <1>6

LEMMA LongerHub ==
    ASSUME NEW h, IsHub(h), NEW x \in Utterance
    PROVE  Append(h.stream, x) \in Seq(Utterance)
  <1>1. h.stream \in Seq(Utterance)
    BY DEF IsHub
  <1> QED
    BY <1>1

-----------------------------------------------------------------------------
(* Every operation keeps a hub in order.                                   *)

\* A callback ends, or begins to publish.
LEMMA CallbackKeeps ==
    ASSUME NEW h, HubInv(h), NEW c \in Callers, NEW cb \in CallbackRecord,
           cb.stage \in {"none", "publish"}
    PROVE  HubInv([h EXCEPT !.callback[c] = cb])
  <1>0. IsHub(h) /\ VoiceInv(h) /\ ListenInv(h)
    BY DEF HubInv
  <1>1. PICK f : f = [h.callback EXCEPT ![c] = cb]
    OBVIOUS
  <1>a. PICK g : g = [h EXCEPT !.callback[c] = cb]
    OBVIOUS
  <1>b. /\ f \in [Callers -> CallbackRecord] /\ f[c] = cb
        /\ \A d \in Callers \ {c} : f[d] = h.callback[d]
    BY <1>0, <1>1 DEF IsHub
  <1>c. g = [closed |-> h.closed, stream |-> h.stream, highWater |-> h.highWater,
             requests |-> h.requests, speaking |-> h.speaking,
             subscribers |-> h.subscribers, callback |-> f]
    BY <1>0, <1>1, <1>a DEF IsHub
  <1>d. IsHub(g)
    BY <1>0, <1>b, <1>c DEF IsHub
  <1>2. /\ IsHub(g) /\ g.stream = h.stream /\ g.highWater = h.highWater
        /\ g.requests = h.requests /\ g.speaking = h.speaking
        /\ g.subscribers = h.subscribers /\ g.callback[c] = cb
        /\ \A d \in Callers \ {c} : g.callback[d] = h.callback[d]
    BY <1>b, <1>c, <1>d
  <1>3. \A d \in Callers : g.callback[d].stage = "offer" => g.callback[d] = h.callback[d]
    BY <1>2
  <1>4. \A d \in Callers : g.callback[d].stage = "observe" =>
            Told(g.stream, g.callback[d].event)
    BY <1>0, <1>2 DEF VoiceInv, CallbackFits
  <1>5. h.highWater <= g.highWater /\ VoiceOrder(g.stream)
    BY <1>0, <1>2 DEF IsHub, VoiceInv
  <1>6. VoiceInv(g)
    BY <1>0, <1>2, <1>3, <1>4, <1>5, VoiceKept
  <1>7. ListenInv(g)
    BY <1>0, <1>2, SameListen
  <1> QED
    BY <1>a, <1>2, <1>6, <1>7 DEF HubInv

\* Provisional text, status and errors.
LEMMA TransientKeeps ==
    ASSUME NEW h, HubInv(h), Released(h), NEW type \in {"provisional", "status", "error"}
    PROVE  HubInv(publishValidated(h, type, 0))
  <1>0. IsHub(h) /\ VoiceInv(h) /\ ListenInv(h)
    BY DEF HubInv
  <1>1. PICK x \in Utterance : x = [type |-> type, event |-> 0]
    BY DEF Utterance
  <1>2. PICK g : g = publishValidated(h, type, 0)
    OBVIOUS
  <1>3. PICK sub : sub = [l \in Listener |->
                  IF Hears(h.subscribers[l], x.type)
                  THEN Offer(h.subscribers[l], Len(h.stream) + 1) ELSE h.subscribers[l]]
    OBVIOUS
  <1>4. g = [closed |-> h.closed, stream |-> Append(h.stream, x),
             highWater |-> h.highWater, requests |-> h.requests, speaking |-> h.speaking,
             subscribers |-> sub, callback |-> h.callback]
    BY <1>0, <1>1, <1>2, <1>3, PublishFields
  <1>5. PICK st \in Seq(Utterance) : st = Append(h.stream, x)
    BY <1>0, LongerHub
  <1>6. IsHub(g)
    BY <1>0, <1>3, <1>4, <1>5 DEF IsHub
  <1>7. ListenInv(g)
    BY <1>0, <1>3, <1>4, PublishListen
  <1>8. \A e \in Nat : /\ Told(g.stream, e) <=> Told(h.stream, e)
                       /\ Spoken(g.stream, e) <=> Spoken(h.stream, e)
    BY <1>0, <1>1, <1>4, TellMore DEF IsHub
  <1>9. VoiceOrder(g.stream)
    BY <1>0, <1>1, <1>4, OrderMore DEF IsHub, VoiceInv
  <1>10. \A d \in Callers : g.callback[d].stage = "observe" =>
            Told(g.stream, g.callback[d].event)
    BY <1>0, <1>4, <1>8 DEF VoiceInv, CallbackFits, IsHub, CallbackRecord
  <1>11. h.highWater <= g.highWater
    BY <1>0, <1>4 DEF IsHub
  <1>12. VoiceInv(g)
    BY <1>0, <1>4, <1>6, <1>8, <1>9, <1>10, <1>11, VoiceKept
  <1> QED
    BY <1>2, <1>6, <1>7, <1>12 DEF HubInv

\* The text of an utterance, by the callback that has it.
LEMMA TextKeeps ==
    ASSUME NEW h, HubInv(h), Released(h), NEW c \in Callers, h.callback[c].stage = "publish"
    PROVE  HubInv([publishValidated(h, "committed", h.callback[c].event)
                      EXCEPT !.callback[c].stage = "observe"])
  <1>0. IsHub(h) /\ VoiceInv(h) /\ ListenInv(h)
    BY DEF HubInv
  <1>1. PICK e \in Nat : e = h.callback[c].event
    BY <1>0 DEF IsHub, CallbackRecord
  <1>2. PICK x \in Utterance : x = [type |-> "committed", event |-> e]
    BY DEF Utterance
  <1>3. PICK f : f = publishValidated(h, "committed", e)
    OBVIOUS
  <1>4. PICK sub : sub = [l \in Listener |->
                  IF Hears(h.subscribers[l], x.type)
                  THEN Offer(h.subscribers[l], Len(h.stream) + 1) ELSE h.subscribers[l]]
    OBVIOUS
  <1>5. f = [closed |-> h.closed, stream |-> Append(h.stream, x),
             highWater |-> h.highWater, requests |-> h.requests, speaking |-> h.speaking,
             subscribers |-> sub, callback |-> h.callback]
    BY <1>0, <1>2, <1>3, <1>4, PublishFields
  <1>6. PICK st \in Seq(Utterance) : st = Append(h.stream, x)
    BY <1>0, LongerHub
  <1>7. IsHub(f)
    BY <1>0, <1>4, <1>5, <1>6 DEF IsHub
  <1>8. PICK cb \in CallbackRecord : cb = [stage |-> "observe", event |-> e]
    BY DEF CallbackRecord
  <1>9. PICK k : k = [h.callback EXCEPT ![c] = cb]
    OBVIOUS
  <1>a. PICK g : g = [f EXCEPT !.callback[c].stage = "observe"]
    OBVIOUS
  <1>b. /\ k \in [Callers -> CallbackRecord] /\ k[c] = cb
        /\ \A d \in Callers \ {c} : k[d] = h.callback[d]
    BY <1>0, <1>9 DEF IsHub
  <1>c. k = [h.callback EXCEPT ![c].stage = "observe"]
    <2>1. h.callback[c] = [stage |-> "publish", event |-> e]
      BY <1>0, <1>1 DEF IsHub, CallbackRecord
    <2>2. [h.callback[c] EXCEPT !.stage = "observe"] = cb
      BY <1>8, <2>1
    <2> QED
      BY <1>9, <2>2
  <1>10. g = [closed |-> h.closed, stream |-> st, highWater |-> h.highWater,
              requests |-> h.requests, speaking |-> h.speaking,
              subscribers |-> sub, callback |-> k]
    BY <1>5, <1>6, <1>a, <1>c
  <1>d. IsHub(g)
    BY <1>0, <1>4, <1>6, <1>b, <1>10 DEF IsHub
  <1>11. /\ IsHub(g) /\ g.stream = f.stream /\ g.highWater = f.highWater
         /\ g.requests = f.requests /\ g.speaking = f.speaking
         /\ g.subscribers = f.subscribers /\ g.callback[c] = cb
         /\ \A d \in Callers \ {c} : g.callback[d] = f.callback[d]
    BY <1>5, <1>6, <1>b, <1>d, <1>10
  <1>12. ListenInv(g)
    BY <1>0, <1>4, <1>5, <1>11, PublishListen
  <1>13. \A y \in Nat : /\ Told(g.stream, y) <=> Told(h.stream, y) \/ y = e
                        /\ Spoken(g.stream, y) <=> Spoken(h.stream, y)
    BY <1>0, <1>2, <1>5, <1>11, TellMore DEF IsHub
  <1>14. VoiceOrder(g.stream)
    BY <1>0, <1>2, <1>5, <1>11, OrderMore DEF IsHub, VoiceInv
  <1>15. \A d \in Callers : g.callback[d].stage = "observe" =>
            Told(g.stream, g.callback[d].event)
    <2> SUFFICES ASSUME NEW d \in Callers, g.callback[d].stage = "observe"
                 PROVE  Told(g.stream, g.callback[d].event)
      OBVIOUS
    <2>1. CASE d = c
      BY <1>8, <1>11, <1>13, <2>1
    <2>2. CASE d # c
      <3>1. g.callback[d] = h.callback[d] /\ CallbackFits(h, d) /\ h.callback[d].event \in Nat
        BY <1>0, <1>5, <1>11, <2>2 DEF VoiceInv, IsHub, CallbackRecord
      <3> QED
        BY <1>13, <3>1 DEF CallbackFits
    <2> QED
      BY <2>1, <2>2
  <1>16. \A d \in Callers : g.callback[d].stage = "offer" => g.callback[d] = h.callback[d]
    BY <1>5, <1>8, <1>11
  <1>17. h.highWater <= g.highWater /\ g.requests = h.requests /\ g.speaking = h.speaking
    BY <1>0, <1>5, <1>11 DEF IsHub
  <1>18. VoiceInv(g)
    BY <1>0, <1>11, <1>13, <1>14, <1>15, <1>16, <1>17, VoiceKept
  <1> QED
    BY <1>1, <1>3, <1>a, <1>11, <1>12, <1>18 DEF HubInv

\* The audio of an utterance, by the voice worker that has it.
LEMMA AudioKeeps ==
    ASSUME NEW h, HubInv(h), NEW e \in h.speaking
    PROVE  /\ Released(h) =>
                HubInv([publishValidated(h, "audio", e) EXCEPT !.speaking = @ \ {e}])
           /\ HubInv([h EXCEPT !.speaking = @ \ {e}])
  <1>0. IsHub(h) /\ VoiceInv(h) /\ ListenInv(h) /\ e \in Nat
    BY DEF HubInv, IsHub
  <1>1. PICK x \in Utterance : x = [type |-> "audio", event |-> e]
    BY <1>0 DEF Utterance
  <1>2. PICK sp : sp = h.speaking \ {e}
    OBVIOUS
  <1>3. PICK sub : sub = [l \in Listener |->
                  IF Hears(h.subscribers[l], x.type)
                  THEN Offer(h.subscribers[l], Len(h.stream) + 1) ELSE h.subscribers[l]]
    OBVIOUS
  <1>4. PICK st \in Seq(Utterance) : st = Append(h.stream, x)
    BY <1>0, LongerHub
  <1>5. PICK g : g = [publishValidated(h, "audio", e) EXCEPT !.speaking = @ \ {e}]
    OBVIOUS
  <1>6. g = [closed |-> h.closed, stream |-> st,
             highWater |-> h.highWater, requests |-> h.requests, speaking |-> sp,
             subscribers |-> sub, callback |-> h.callback]
    <2>1. PICK f : f = publishValidated(h, "audio", e)
      OBVIOUS
    <2>2. f = [closed |-> h.closed, stream |-> st,
               highWater |-> h.highWater, requests |-> h.requests, speaking |-> h.speaking,
               subscribers |-> sub, callback |-> h.callback]
      BY <1>0, <1>1, <1>3, <1>4, <2>1, PublishFields
    <2>3. g = [f EXCEPT !.speaking = @ \ {e}]
      BY <1>5, <2>1
    <2> QED
      BY <1>2, <2>2, <2>3
  <1>7. PICK f : f = [h EXCEPT !.speaking = @ \ {e}]
    OBVIOUS
  <1>8. f = [closed |-> h.closed, stream |-> h.stream,
             highWater |-> h.highWater, requests |-> h.requests, speaking |-> sp,
             subscribers |-> h.subscribers, callback |-> h.callback]
    BY <1>0, <1>2, <1>7 DEF IsHub
  <1>9. IsHub(g) /\ IsHub(f)
    BY <1>0, <1>2, <1>3, <1>4, <1>6, <1>8 DEF IsHub
  <1>10. (Released(h) => ListenInv(g)) /\ ListenInv(f)
    <2>1. g.stream = Append(h.stream, x) /\ x.type = "audio"
      BY <1>1, <1>4, <1>6
    <2>2. g.subscribers = [l \in Listener |->
                  IF Hears(h.subscribers[l], x.type)
                  THEN Offer(h.subscribers[l], Len(h.stream) + 1) ELSE h.subscribers[l]]
      BY <1>3, <1>6
    <2>3. Released(h) => ListenInv(g)
      BY <1>0, <2>1, <2>2, PublishListen
    <2>4. f.stream = h.stream /\ f.subscribers = h.subscribers
      BY <1>8
    <2>5. ListenInv(f)
      BY <1>0, <2>4, SameListen
    <2> QED
      BY <2>3, <2>5
  <1>11. Told(h.stream, e) /\ ~Spoken(h.stream, e)
    BY <1>0 DEF VoiceInv
  <1>12. \A y \in Nat : /\ Told(st, y) <=> Told(h.stream, y)
                        /\ Spoken(st, y) <=> Spoken(h.stream, y) \/ y = e
    BY <1>0, <1>1, <1>4, TellMore DEF IsHub
  <1>13. VoiceOrder(st) /\ VoiceOrder(h.stream)
    BY <1>0, <1>1, <1>4, <1>11, OrderMore DEF IsHub, VoiceInv
  <1>14. \A d \in Callers : h.callback[d].stage = "observe" =>
            Told(st, h.callback[d].event) /\ Told(h.stream, h.callback[d].event)
    BY <1>0, <1>12 DEF VoiceInv, CallbackFits, IsHub, CallbackRecord
  <1>15. h.highWater <= h.highWater /\ sp \subseteq h.speaking /\ e \notin sp
    BY <1>0, <1>2 DEF IsHub
  <1>16. VoiceInv(g)
    BY <1>0, <1>6, <1>9, <1>12, <1>13, <1>14, <1>15, VoiceKept
  <1>17. VoiceInv(f)
    BY <1>0, <1>8, <1>9, <1>13, <1>14, <1>15, VoiceKept
  <1> QED
    BY <1>5, <1>7, <1>9, <1>10, <1>16, <1>17 DEF HubInv

\* What is observed for the first time raises the high-water mark.
LEMMA ObservedKeeps ==
    ASSUME NEW h, HubInv(h), NEW c \in Callers, NEW cb, h.callback[c].stage = "observe",
           h.callback[c].event > h.highWater,
           cb = [stage |-> "offer", event |-> h.callback[c].event] \/ cb = NoCallback
    PROVE  HubInv([h EXCEPT !.highWater = h.callback[c].event, !.callback[c] = cb])
  <1>0. IsHub(h) /\ VoiceInv(h) /\ ListenInv(h)
    BY DEF HubInv
  <1>1. PICK e \in Nat : e = h.callback[c].event
    BY <1>0 DEF IsHub, CallbackRecord
  <1>2. cb \in CallbackRecord
    BY <1>1 DEF CallbackRecord, NoCallback
  <1>3. PICK f : f = [h.callback EXCEPT ![c] = cb]
    OBVIOUS
  <1>4. /\ f \in [Callers -> CallbackRecord] /\ f[c] = cb
        /\ \A d \in Callers \ {c} : f[d] = h.callback[d]
    BY <1>0, <1>2, <1>3 DEF IsHub
  <1>5. PICK a : a = [h EXCEPT !.highWater = e]
    OBVIOUS
  <1>6. a = [closed |-> h.closed, stream |-> h.stream, highWater |-> e,
             requests |-> h.requests, speaking |-> h.speaking,
             subscribers |-> h.subscribers, callback |-> h.callback]
    BY <1>0, <1>5 DEF IsHub
  <1>7. PICK g : g = [a EXCEPT !.callback[c] = cb]
    OBVIOUS
  <1>8. g = [closed |-> h.closed, stream |-> h.stream, highWater |-> e,
             requests |-> h.requests, speaking |-> h.speaking,
             subscribers |-> h.subscribers, callback |-> f]
    BY <1>3, <1>6, <1>7
  <1>9. g = [h EXCEPT !.highWater = h.callback[c].event, !.callback[c] = cb]
    BY <1>1, <1>5, <1>7
  <1>10. IsHub(g)
    BY <1>0, <1>1, <1>4, <1>8 DEF IsHub
  <1>11. /\ g.stream = h.stream /\ g.highWater = e /\ g.requests = h.requests
         /\ g.speaking = h.speaking /\ g.subscribers = h.subscribers /\ g.callback[c] = cb
         /\ \A d \in Callers \ {c} : g.callback[d] = h.callback[d]
    BY <1>4, <1>8
  <1>12. ListenInv(g)
    BY <1>0, <1>11, SameListen
  <1>13. CASE cb = [stage |-> "offer", event |-> h.callback[c].event]
    <2>1. VoiceInv(g)
      BY <1>0, <1>1, <1>10, <1>11, <1>13, VoiceObserved
    <2> QED
      BY <1>9, <1>10, <1>12, <2>1 DEF HubInv
  <1>14. CASE cb = NoCallback
    <2>1. cb.stage = "none"
      BY <1>14 DEF NoCallback
    <2>2. \A d \in Callers : g.callback[d].stage = "offer" => g.callback[d] = h.callback[d]
      BY <1>11, <2>1
    <2>3. \A d \in Callers : g.callback[d].stage = "observe" =>
              Told(g.stream, g.callback[d].event)
      BY <1>0, <1>11, <2>1 DEF VoiceInv, CallbackFits
    <2>4. h.highWater <= g.highWater /\ VoiceOrder(g.stream)
      BY <1>0, <1>1, <1>11 DEF IsHub, VoiceInv
    <2>5. VoiceInv(g)
      BY <1>0, <1>10, <1>11, <2>2, <2>3, <2>4, VoiceKept
    <2> QED
      BY <1>9, <1>10, <1>12, <2>5 DEF HubInv
  <1> QED
    BY <1>13, <1>14

\* An offer ends, as a request or as nothing.
LEMMA OfferedKeeps ==
    ASSUME NEW h, HubInv(h), NEW c \in Callers, NEW q, h.callback[c].stage = "offer",
           q = Append(h.requests, h.callback[c].event) \/ q = h.requests
    PROVE  HubInv([h EXCEPT !.callback[c] = NoCallback, !.requests = q])
  <1>0. IsHub(h) /\ VoiceInv(h) /\ ListenInv(h)
    BY DEF HubInv
  <1>1. PICK e \in Nat : e = h.callback[c].event
    BY <1>0 DEF IsHub, CallbackRecord
  <1>2. NoCallback \in CallbackRecord /\ NoCallback.stage = "none"
    BY DEF CallbackRecord, NoCallback
  <1>3. q \in Seq(Nat)
    <2>1. h.requests \in Seq(Nat)
      BY <1>0 DEF IsHub
    <2>2. Append(h.requests, e) \in Seq(Nat)
      BY <2>1, LongerStream
    <2> QED
      BY <1>1, <2>1, <2>2
  <1>4. PICK f : f = [h.callback EXCEPT ![c] = NoCallback]
    OBVIOUS
  <1>5. /\ f \in [Callers -> CallbackRecord] /\ f[c] = NoCallback
        /\ \A d \in Callers \ {c} : f[d] = h.callback[d]
    BY <1>0, <1>2, <1>4 DEF IsHub
  <1>6. PICK a : a = [h EXCEPT !.callback[c] = NoCallback]
    OBVIOUS
  <1>7. a = [closed |-> h.closed, stream |-> h.stream, highWater |-> h.highWater,
             requests |-> h.requests, speaking |-> h.speaking,
             subscribers |-> h.subscribers, callback |-> f]
    BY <1>0, <1>4, <1>6 DEF IsHub
  <1>8. PICK g : g = [a EXCEPT !.requests = q]
    OBVIOUS
  <1>9. g = [closed |-> h.closed, stream |-> h.stream, highWater |-> h.highWater,
             requests |-> q, speaking |-> h.speaking,
             subscribers |-> h.subscribers, callback |-> f]
    BY <1>7, <1>8
  <1>10. g = [h EXCEPT !.callback[c] = NoCallback, !.requests = q]
    BY <1>6, <1>8
  <1>11. IsHub(g)
    BY <1>0, <1>3, <1>5, <1>9 DEF IsHub
  <1>12. /\ g.stream = h.stream /\ g.highWater = h.highWater /\ g.requests = q
         /\ g.speaking = h.speaking /\ g.subscribers = h.subscribers
         /\ g.callback[c] = NoCallback
         /\ \A d \in Callers \ {c} : g.callback[d] = h.callback[d]
    BY <1>5, <1>9
  <1>13. ListenInv(g)
    BY <1>0, <1>12, SameListen
  <1>14. CASE q = Append(h.requests, h.callback[c].event)
    <2>1. VoiceInv(g)
      BY <1>0, <1>2, <1>11, <1>12, <1>14, VoiceRequested
    <2> QED
      BY <1>10, <1>11, <1>13, <2>1 DEF HubInv
  <1>15. CASE q = h.requests
    <2>2. \A d \in Callers : g.callback[d].stage = "offer" => g.callback[d] = h.callback[d]
      BY <1>2, <1>12
    <2>3. \A d \in Callers : g.callback[d].stage = "observe" =>
              Told(g.stream, g.callback[d].event)
      BY <1>0, <1>2, <1>12 DEF VoiceInv, CallbackFits
    <2>4. h.highWater <= g.highWater /\ VoiceOrder(g.stream)
      BY <1>0, <1>12 DEF IsHub, VoiceInv
    <2>5. VoiceInv(g)
      BY <1>0, <1>11, <1>12, <1>15, <2>2, <2>3, <2>4, VoiceKept
    <2> QED
      BY <1>10, <1>11, <1>13, <2>5 DEF HubInv
  <1> QED
    BY <1>14, <1>15

\* A voice worker takes a request.
LEMMA TakenKeeps ==
    ASSUME NEW h, HubInv(h), h.requests # <<>>
    PROVE  HubInv([h EXCEPT !.requests = Tail(@), !.speaking = @ \cup {Head(h.requests)}])
  <1>0. IsHub(h) /\ VoiceInv(h) /\ ListenInv(h)
    BY DEF HubInv
  <1>1. PICK q \in Seq(Nat) : q = Tail(h.requests)
    <2>1. h.requests \in Seq(Nat)
      BY <1>0 DEF IsHub
    <2>2. Tail(h.requests) \in Seq(Nat)
      BY <2>1
    <2> QED
      BY <2>2
  <1>2. PICK sp \in SUBSET Nat : sp = h.speaking \cup {Head(h.requests)}
    <2>1. Head(h.requests) \in Nat
      BY <1>0 DEF IsHub
    <2> QED
      BY <1>0, <2>1 DEF IsHub
  <1>3. PICK a : a = [h EXCEPT !.requests = q]
    OBVIOUS
  <1>4. a = [closed |-> h.closed, stream |-> h.stream, highWater |-> h.highWater,
             requests |-> q, speaking |-> h.speaking,
             subscribers |-> h.subscribers, callback |-> h.callback]
    BY <1>0, <1>3 DEF IsHub
  <1>5. PICK g : g = [a EXCEPT !.speaking = sp]
    OBVIOUS
  <1>6. g = [closed |-> h.closed, stream |-> h.stream, highWater |-> h.highWater,
             requests |-> q, speaking |-> sp,
             subscribers |-> h.subscribers, callback |-> h.callback]
    BY <1>4, <1>5
  <1>7. [h EXCEPT !.requests = Tail(@), !.speaking = @ \cup {Head(h.requests)}] = g
    <2>1. [h EXCEPT !.requests = Tail(@), !.speaking = @ \cup {Head(h.requests)}] =
          [a EXCEPT !.speaking = @ \cup {Head(h.requests)}]
      BY <1>1, <1>3
    <2>2. a.speaking = h.speaking
      BY <1>4
    <2> QED
      BY <1>2, <1>5, <2>1, <2>2
  <1>8. IsHub(g)
    BY <1>0, <1>1, <1>2, <1>6 DEF IsHub
  <1>9. ListenInv(g)
    BY <1>0, <1>6, SameListen
  <1>10. VoiceInv(g)
    BY <1>0, <1>1, <1>2, <1>6, <1>8, VoiceTaken
  <1> QED
    BY <1>7, <1>8, <1>9, <1>10 DEF HubInv

\* One subscriber, and nothing else, is another one.
LEMMA SubscriberKeeps ==
    ASSUME NEW h, HubInv(h), NEW l \in Listener, NEW s, Follows(h, s)
    PROVE  HubInv([h EXCEPT !.subscribers[l] = s])
  <1>0. IsHub(h) /\ VoiceInv(h) /\ ListenInv(h)
    BY DEF HubInv
  <1>1. PICK f : f = [h.subscribers EXCEPT ![l] = s]
    OBVIOUS
  <1>2. /\ f = [m \in Listener |-> f[m]] /\ f[l] = s
        /\ \A m \in Listener \ {l} : f[m] = h.subscribers[m]
    BY <1>0, <1>1 DEF IsHub
  <1>3. PICK g : g = [h EXCEPT !.subscribers[l] = s]
    OBVIOUS
  <1>4. g = [closed |-> h.closed, stream |-> h.stream, highWater |-> h.highWater,
             requests |-> h.requests, speaking |-> h.speaking,
             subscribers |-> f, callback |-> h.callback]
    BY <1>0, <1>1, <1>3 DEF IsHub
  <1>5. IsHub(g)
    BY <1>0, <1>2, <1>4 DEF IsHub
  <1>6. /\ g.stream = h.stream /\ g.highWater = h.highWater /\ g.requests = h.requests
        /\ g.speaking = h.speaking /\ g.callback = h.callback /\ g.subscribers = f
    BY <1>4
  <1>7. VoiceInv(g)
    <2>1. h.highWater <= g.highWater /\ VoiceOrder(g.stream)
      BY <1>0, <1>6 DEF IsHub, VoiceInv
    <2>2. \A d \in Callers : g.callback[d].stage = "observe" =>
              Told(g.stream, g.callback[d].event)
      BY <1>0, <1>6 DEF VoiceInv, CallbackFits
    <2> QED
      BY <1>0, <1>5, <1>6, <2>1, <2>2, VoiceKept
  <1>8. ListenInv(g)
    <2> SUFFICES ASSUME NEW m \in Listener PROVE Follows(g, g.subscribers[m])
      BY DEF ListenInv
    <2>1. Follows(h, g.subscribers[m])
      BY <1>0, <1>2, <1>6 DEF ListenInv
    <2> QED
      BY <1>6, <2>1 DEF Follows, Audible, Coming
  <1> QED
    BY <1>3, <1>5, <1>7, <1>8 DEF HubInv

\* A new subscriber hears what is published from now on.
LEMMA NewFollows ==
    ASSUME NEW h, IsHub(h), NEW audio
    PROVE  Follows(h, [NoSubscriber EXCEPT !.open = TRUE, !.audio = audio,
                                           !.since = Len(h.stream)])
  <1>1. PICK n : n = Len(h.stream)
    OBVIOUS
  <1>n. n \in Nat
    BY <1>1 DEF IsHub
  <1>2. PICK s : s = [open |-> TRUE, audio |-> audio, since |-> n, queue |-> <<>>, last |-> 0,
                  offer |-> "none"]
    OBVIOUS
  <1>3. [NoSubscriber EXCEPT !.open = TRUE, !.audio = audio, !.since = Len(h.stream)] = s
    <2>1. PICK a : a = [NoSubscriber EXCEPT !.open = TRUE]
      OBVIOUS
    <2>2. a = [open |-> TRUE, audio |-> FALSE, since |-> 0, queue |-> <<>>, last |-> 0,
                  offer |-> "none"]
      BY <2>1 DEF NoSubscriber
    <2>3. PICK b : b = [a EXCEPT !.audio = audio]
      OBVIOUS
    <2>4. b = [open |-> TRUE, audio |-> audio, since |-> 0, queue |-> <<>>, last |-> 0,
                  offer |-> "none"]
      BY <2>2, <2>3
    <2>5. PICK k : k = [b EXCEPT !.since = n]
      OBVIOUS
    <2>a. b = [open |-> b.open, audio |-> b.audio, since |-> b.since, queue |-> b.queue,
               last |-> b.last, offer |-> b.offer]
      BY <2>4
    <2>b. k = [open |-> b.open, audio |-> b.audio, since |-> n, queue |-> b.queue,
               last |-> b.last, offer |-> b.offer]
      BY <2>5, <2>a
    <2>c. b.open = TRUE /\ b.audio = audio /\ b.queue = <<>> /\ b.last = 0
          /\ b.offer = "none"
      BY <2>4
    <2>6. k = s
      BY <1>2, <2>b, <2>c
    <2>7. b = [NoSubscriber EXCEPT !.open = TRUE, !.audio = audio]
      BY <2>1, <2>3
    <2>8. k = [NoSubscriber EXCEPT !.open = TRUE, !.audio = audio, !.since = n]
      BY <2>5, <2>7
    <2> QED
      BY <1>1, <2>6, <2>8
  <1>4. Audible(h, s) = {}
    <2>1. \A i \in DOMAIN h.stream : ~(i > n)
      BY <1>1, <1>n DEF IsHub
    <2> QED
      BY <1>2, <2>1 DEF Audible
  <1>5. /\ s.queue = <<>> /\ <<>> \in Seq(Nat) /\ s.last = 0 /\ s.since = n
        /\ s.offer = "none" /\ Len(<<>>) = 0
        /\ s = [open |-> s.open, audio |-> s.audio, since |-> s.since, queue |-> s.queue,
                last |-> s.last, offer |-> s.offer]
    BY <1>2
  <1>6. Newest(<<>>, {}, 0)
    BY DEF Newest
  <1>7. n <= n
    BY <1>n
  <1>8. Coming(h, s) = <<>> /\ Len(s.queue) <= Capacity(s)
    BY <1>5, HubAssumption DEF Coming, Capacity
  <1>9. Follows(h, s)
    BY <1>1, <1>n, <1>4, <1>5, <1>6, <1>7, <1>8 DEF Follows
  <1> QED
    BY <1>3, <1>9

\* An event that is received is the first of what comes.
LEMMA ReceivedFollows ==
    ASSUME NEW h, h.stream \in Seq(Utterance), NEW s, Follows(h, s), s.open, s.queue # <<>>
    PROVE  Follows(h, [s EXCEPT !.queue = Tail(@), !.last = Head(s.queue)])
  <1>1. PICK q \in Seq(Nat) : q = s.queue
    BY DEF Follows
  <1>2. /\ s = [open |-> s.open, audio |-> s.audio, since |-> s.since, queue |-> q,
                last |-> s.last, offer |-> s.offer]
        /\ s.last \in Nat /\ s.since \in Nat /\ s.since <= Len(h.stream) /\ q # <<>>
        /\ Newest(Coming(h, s), Audible(h, s), s.last) /\ Len(q) <= Capacity(s)
    BY <1>1 DEF Follows
  <1>3. Audible(h, s) \in SUBSET Nat /\ Len(h.stream) \in Nat
    BY DEF Audible
  <1>4. PICK t : t = Tail(q)
    OBVIOUS
  <1>5. /\ t \in Seq(Nat) /\ Len(t) = Len(q) - 1 /\ Len(q) \in Nat
        /\ Append(q, Len(h.stream)) \in Seq(Nat) /\ Append(q, Len(h.stream)) # <<>>
        /\ Append(q, Len(h.stream))[1] = q[1]
        /\ Append(t, Len(h.stream)) = Tail(Append(q, Len(h.stream)))
    BY <1>2, <1>3, <1>4, TailAppend
  <1>6. PICK r : r = [open |-> s.open, audio |-> s.audio, since |-> s.since, queue |-> t,
                      last |-> q[1], offer |-> s.offer]
    OBVIOUS
  <1>7. Audible(h, r) = Audible(h, s) /\ Capacity(r) = Capacity(s) /\ Capacity(s) \in Nat
    BY <1>6, HubAssumption DEF Audible, Hears, Capacity
  <1>8. PICK c \in Seq(Nat) : c = Coming(h, s) /\ c # <<>> /\ c[1] = q[1]
                              /\ Coming(h, r) = Tail(c)
    <2>1. CASE s.offer = "none"
      BY <1>1, <1>2, <1>4, <1>6, <2>1 DEF Coming
    <2>2. CASE s.offer # "none"
      BY <1>1, <1>2, <1>5, <1>6, <2>2 DEF Coming
    <2> QED
      BY <2>1, <2>2
  <1>9. q[1] \in Nat /\ Newest(Coming(h, r), Audible(h, r), q[1])
    BY <1>2, <1>3, <1>7, <1>8, TailNewest
  <1>10. Len(t) < Capacity(r)
    BY <1>2, <1>5, <1>7
  <1>11. Follows(h, r)
    BY <1>2, <1>5, <1>6, <1>7, <1>9, <1>10 DEF Follows, Room
  <1>12. [s EXCEPT !.queue = Tail(@), !.last = Head(s.queue)] = r
    <2>1. Head(s.queue) = q[1]
      BY <1>1, <1>2
    <2>2. PICK a : a = [s EXCEPT !.queue = Tail(@)]
      OBVIOUS
    <2>3. a = [open |-> s.open, audio |-> s.audio, since |-> s.since, queue |-> t,
               last |-> s.last, offer |-> s.offer]
      BY <1>1, <1>2, <1>4, <2>2
    <2>a. a = [open |-> a.open, audio |-> a.audio, since |-> a.since, queue |-> a.queue,
               last |-> a.last, offer |-> a.offer]
      BY <2>3
    <2>b. [a EXCEPT !.last = q[1]] =
              [open |-> a.open, audio |-> a.audio, since |-> a.since, queue |-> a.queue,
               last |-> q[1], offer |-> a.offer]
      BY <2>a, SubscriberFields
    <2>4. [a EXCEPT !.last = Head(s.queue)] = r
      BY <1>6, <2>1, <2>3, <2>b
    <2> QED
      BY <2>2, <2>4
  <1> QED
    BY <1>11, <1>12

\* So is an event that is dropped, and the producer's own event still comes.
LEMMA DroppedFollows ==
    ASSUME NEW h, h.stream \in Seq(Utterance), NEW s, Follows(h, s), s.offer = "full"
    PROVE  Follows(h, [s EXCEPT !.queue = IF @ = <<>> THEN @ ELSE Tail(@),
                                !.offer = "dropped"])
  <1>1. PICK q \in Seq(Nat) : q = s.queue
    BY DEF Follows
  <1>2. /\ s = [open |-> s.open, audio |-> s.audio, since |-> s.since, queue |-> q,
                last |-> s.last, offer |-> s.offer]
        /\ s.last \in Nat /\ s.since \in Nat /\ s.since <= Len(h.stream)
        /\ s.open => Newest(Append(q, Len(h.stream)), Audible(h, s), s.last)
        /\ Len(q) <= Capacity(s)
    BY <1>1 DEF Follows, Coming
  <1>3. Audible(h, s) \in SUBSET Nat /\ Len(h.stream) \in Nat
    BY DEF Audible
  <1>4. PICK t : t = IF q = <<>> THEN q ELSE Tail(q)
    OBVIOUS
  <1>5. PICK r : r = [open |-> s.open, audio |-> s.audio, since |-> s.since, queue |-> t,
                      last |-> s.last, offer |-> "dropped"]
    OBVIOUS
  <1>6. /\ Audible(h, r) = Audible(h, s) /\ Capacity(r) = Capacity(s)
        /\ Capacity(s) \in Nat \ {0} /\ Coming(h, r) = Append(t, Len(h.stream))
    BY <1>5, HubAssumption DEF Audible, Hears, Capacity, Coming
  <1>7. /\ t \in Seq(Nat) /\ Len(t) < Capacity(r) /\ Len(t) \in Nat
        /\ s.open => Newest(Append(t, Len(h.stream)), Audible(h, s), s.last)
    <2>1. CASE q = <<>>
      BY <1>2, <1>4, <1>6, <2>1
    <2>2. CASE q # <<>>
      <3>1. PICK a \in Seq(Nat) : a = Append(q, Len(h.stream))
        <4>1. Append(q, Len(h.stream)) \in Seq(Nat)
          BY <1>3, LongerStream
        <4> QED
          BY <4>1
      <3>2. /\ t \in Seq(Nat) /\ Len(t) = Len(q) - 1 /\ Len(q) \in Nat \ {0} /\ a # <<>>
            /\ Append(t, Len(h.stream)) = Tail(a) /\ Tail(a) # <<>>
        BY <1>3, <1>4, <2>2, <3>1, TailAppend
      <3>3. ASSUME s.open PROVE Newest(Tail(a), Audible(h, s), s.last)
        <4>1. Newest(a, Audible(h, s), s.last)
          BY <1>2, <3>1, <3>3
        <4>2. Newest(Tail(a), Audible(h, s), a[1]) /\ s.last < Tail(a)[1]
          BY <1>2, <1>3, <3>2, <4>1, TailNewest
        <4>3. s.last \in Audible(h, s) \cup {0}
          BY <4>1 DEF Newest
        <4> QED
          BY <3>2, <4>2, <4>3 DEF Newest
      <3>4. Len(t) < Capacity(r) /\ Len(t) \in Nat
        BY <1>2, <1>6, <3>2
      <3> QED
        BY <3>2, <3>3, <3>4
    <2> QED
      BY <2>1, <2>2
  <1>a. /\ r = [open |-> r.open, audio |-> r.audio, since |-> r.since, queue |-> r.queue,
                last |-> r.last, offer |-> r.offer]
        /\ r.queue = t /\ r.last = s.last /\ r.since = s.since /\ r.open = s.open
    BY <1>5
  <1>8. Follows(h, r)
    BY <1>2, <1>6, <1>7, <1>a DEF Follows, Room
  <1>9. [s EXCEPT !.queue = IF @ = <<>> THEN @ ELSE Tail(@), !.offer = "dropped"] = r
    <2>1. PICK a : a = [s EXCEPT !.queue = IF @ = <<>> THEN @ ELSE Tail(@)]
      OBVIOUS
    <2>2. a = [open |-> s.open, audio |-> s.audio, since |-> s.since, queue |-> t,
               last |-> s.last, offer |-> s.offer]
      BY <1>1, <1>2, <1>4, <2>1
    <2>3. [a EXCEPT !.offer = "dropped"] = r
      BY <1>5, <2>2
    <2> QED
      BY <2>1, <2>3
  <1> QED
    BY <1>8, <1>9

\* The second attempt finds the room it left.
LEMMA ResentFollows ==
    ASSUME NEW h, h.stream \in Seq(Utterance), NEW s, Follows(h, s), s.offer = "dropped"
    PROVE  Follows(h, [s EXCEPT !.offer = "none",
                          !.queue = IF Room(s) THEN Append(@, Len(h.stream)) ELSE @])
  <1>1. PICK q \in Seq(Nat) : q = s.queue
    BY DEF Follows
  <1>2. /\ s = [open |-> s.open, audio |-> s.audio, since |-> s.since, queue |-> q,
                last |-> s.last, offer |-> s.offer]
        /\ s.last \in Nat /\ s.since \in Nat /\ s.since <= Len(h.stream)
        /\ s.open => Newest(Append(q, Len(h.stream)), Audible(h, s), s.last)
        /\ Room(s)
    BY <1>1 DEF Follows, Coming
  <1>3. PICK a : a = Append(q, Len(h.stream))
    OBVIOUS
  <1>4. PICK r : r = [open |-> s.open, audio |-> s.audio, since |-> s.since, queue |-> a,
                      last |-> s.last, offer |-> "none"]
    OBVIOUS
  <1>5. /\ Audible(h, r) = Audible(h, s) /\ Capacity(r) = Capacity(s)
        /\ Capacity(s) \in Nat /\ Coming(h, r) = a
    BY <1>4, HubAssumption DEF Audible, Hears, Capacity, Coming
  <1>6. a \in Seq(Nat) /\ Len(a) = Len(q) + 1 /\ Len(q) \in Nat
    BY <1>3
  <1>7. Len(a) <= Capacity(r)
    BY <1>1, <1>2, <1>5, <1>6 DEF Room
  <1>8. Follows(h, r)
    BY <1>2, <1>3, <1>4, <1>5, <1>6, <1>7 DEF Follows
  <1>9. [s EXCEPT !.offer = "none",
                  !.queue = IF Room(s) THEN Append(@, Len(h.stream)) ELSE @] = r
    <2>1. PICK b : b = [s EXCEPT !.offer = "none"]
      OBVIOUS
    <2>2. b = [open |-> s.open, audio |-> s.audio, since |-> s.since, queue |-> q,
               last |-> s.last, offer |-> "none"]
      BY <1>2, <2>1
    <2>a. b = [open |-> b.open, audio |-> b.audio, since |-> b.since, queue |-> b.queue,
               last |-> b.last, offer |-> b.offer]
      BY <2>2
    <2>b. [b EXCEPT !.queue = a] =
              [open |-> b.open, audio |-> b.audio, since |-> b.since, queue |-> a,
               last |-> b.last, offer |-> b.offer]
      BY <2>a, SubscriberFields
    <2>c. [b EXCEPT !.queue = IF Room(s) THEN Append(@, Len(h.stream)) ELSE @] =
              [b EXCEPT !.queue = a]
      BY <1>2, <1>3, <2>2
    <2>3. [b EXCEPT !.queue = IF Room(s) THEN Append(@, Len(h.stream)) ELSE @] = r
      BY <1>4, <2>2, <2>b, <2>c
    <2> QED
      BY <2>1, <2>3
  <1> QED
    BY <1>8, <1>9

\* A new hub, and one that is closed.
LEMMA NewKeeps == HubInv(NewHub)
  <1>1. PICK g : g = NewHub
    OBVIOUS
  <1>2. PICK sub : sub = [l \in Listener |-> NoSubscriber]
    OBVIOUS
  <1>3. PICK k : k = [c \in Callers |-> NoCallback]
    OBVIOUS
  <1>4. g = [closed |-> FALSE, stream |-> <<>>, highWater |-> 0, requests |-> <<>>,
             speaking |-> {}, subscribers |-> sub, callback |-> k]
    BY <1>1, <1>2, <1>3 DEF NewHub
  <1>5. <<>> \in Seq(Utterance) /\ <<>> \in Seq(Nat) /\ Len(<<>>) = 0
    OBVIOUS
  <1>6. k \in [Callers -> CallbackRecord] /\ \A c \in Callers : k[c].stage = "none"
    BY <1>3 DEF NoCallback, CallbackRecord
  <1>7. sub = [l \in Listener |-> sub[l]] /\ \A l \in Listener : sub[l] = NoSubscriber
    BY <1>2
  <1>8. IsHub(g)
    BY <1>4, <1>5, <1>6, <1>7 DEF IsHub
  <1>9. ListenInv(g)
    BY <1>4, <1>5, <1>7, NobodyFollows DEF ListenInv
  <1>10. 1..0 = {}
    OBVIOUS
  <1>11. /\ \A e : ~Told(g.stream, e) /\ ~Spoken(g.stream, e) /\ ~Asked(g.requests, e)
         /\ VoiceOrder(g.stream) /\ g.speaking = {} /\ Len(g.requests) = 0
         /\ \A c \in Callers : g.callback[c].stage = "none"
    BY <1>4, <1>5, <1>6, <1>10 DEF Told, Spoken, Asked, VoiceOrder
  <1>12. VoiceInv(g)
    BY <1>10, <1>11 DEF VoiceInv, CallbackFits, Callers
  <1> QED
    BY <1>1, <1>8, <1>9, <1>12 DEF HubInv

LEMMA ClosedKeeps == ASSUME NEW h, HubInv(h) PROVE HubInv(Closed(h))
  <1>0. IsHub(h) /\ VoiceInv(h) /\ ListenInv(h)
    BY DEF HubInv
  <1>1. PICK sub : sub = [l \in Listener |-> NoSubscriber]
    OBVIOUS
  <1>2. PICK a : a = [h EXCEPT !.closed = TRUE]
    OBVIOUS
  <1>3. a = [closed |-> TRUE, stream |-> h.stream, highWater |-> h.highWater,
             requests |-> h.requests, speaking |-> h.speaking,
             subscribers |-> h.subscribers, callback |-> h.callback]
    BY <1>0, <1>2 DEF IsHub
  <1>4. PICK g : g = [a EXCEPT !.subscribers = sub]
    OBVIOUS
  <1>5. g = [closed |-> TRUE, stream |-> h.stream, highWater |-> h.highWater,
             requests |-> h.requests, speaking |-> h.speaking,
             subscribers |-> sub, callback |-> h.callback]
    BY <1>3, <1>4
  <1>6. g = Closed(h)
    BY <1>1, <1>2, <1>4 DEF Closed
  <1>7. sub = [l \in Listener |-> sub[l]] /\ \A l \in Listener : sub[l] = NoSubscriber
    BY <1>1
  <1>8. IsHub(g)
    BY <1>0, <1>5, <1>7 DEF IsHub
  <1>9. ListenInv(g)
    BY <1>0, <1>5, <1>7, NobodyFollows DEF ListenInv, IsHub
  <1>10. /\ g.stream = h.stream /\ g.highWater = h.highWater /\ g.requests = h.requests
         /\ g.speaking = h.speaking /\ g.callback = h.callback
    BY <1>5
  <1>11. VoiceInv(g)
    <2>1. h.highWater <= g.highWater /\ VoiceOrder(g.stream)
      BY <1>0, <1>10 DEF IsHub, VoiceInv
    <2>2. \A d \in Callers : g.callback[d].stage = "observe" =>
              Told(g.stream, g.callback[d].event)
      BY <1>0, <1>10 DEF VoiceInv, CallbackFits
    <2> QED
      BY <1>0, <1>8, <1>10, <2>1, <2>2, VoiceKept
  <1> QED
    BY <1>6, <1>8, <1>9, <1>11 DEF HubInv

-----------------------------------------------------------------------------
(* The hubs of all processes.                                              *)

HubsInv == hub = [p \in Proc |-> hub[p]] /\ \A p \in Proc : HubInv(hub[p])

\* A step gives one process a hub that is in order, or leaves them all.
Hubs(p) == (\E g : hub' = [hub EXCEPT ![p] = g] /\ HubInv(g)) \/ hub' = hub

LEMMA HubsKept == ASSUME HubsInv, NEW p \in Proc, Hubs(p) PROVE HubsInv'
  <1>1. CASE hub' = hub
    BY <1>1 DEF HubsInv
  <1>2. ASSUME NEW g, hub' = [hub EXCEPT ![p] = g], HubInv(g) PROVE HubsInv'
    <2>1. hub' = [q \in Proc |-> hub'[q]]
      BY <1>2 DEF HubsInv
    <2>2. \A q \in Proc : HubInv(hub'[q])
      BY <1>2 DEF HubsInv
    <2> QED
      BY <2>1, <2>2 DEF HubsInv
  <1> QED
    BY <1>1, <1>2 DEF Hubs

LEMMA StreamHubs ==
    ASSUME HubsInv, NEW p \in Proc
    PROVE  /\ \A type \in {"provisional", "status", "error"} : Transient(p, type) => Hubs(p)
           /\ \A c \in Callers : PublishCommitted(p, c) => Hubs(p)
           /\ \A e : PublishAudio(p, e) \/ SynthesisFails(p, e) => Hubs(p)
  <1>0. HubInv(hub[p])
    BY DEF HubsInv
  <1>1. \A type \in {"provisional", "status", "error"} : Transient(p, type) => Hubs(p)
    BY <1>0, TransientKeeps, Zenon DEF Transient, Hubs, WithHub, H
  <1>2. ASSUME NEW c \in Callers, PublishCommitted(p, c) PROVE Hubs(p)
    <2>1. NoCallback \in CallbackRecord /\ NoCallback.stage = "none"
      BY DEF CallbackRecord, NoCallback
    <2>2. NoCallback.stage \in {"none", "publish"}
      BY <2>1
    <2>3. HubInv([hub[p] EXCEPT !.callback[c] = NoCallback])
      BY <1>0, <2>1, <2>2, CallbackKeeps
    <2>4. hub[p].callback[c].stage = "publish" /\ Released(hub[p])
      BY <1>2 DEF PublishCommitted, H
    <2>5. HubInv([publishValidated(hub[p], "committed", hub[p].callback[c].event)
                      EXCEPT !.callback[c].stage = "observe"])
      BY <1>0, <2>4, TextKeeps
    <2> QED
      BY <1>2, <2>3, <2>5, Zenon DEF PublishCommitted, Hubs, WithHub, H
  <1>3. ASSUME NEW e, PublishAudio(p, e) \/ SynthesisFails(p, e) PROVE Hubs(p)
    <2>1. e \in hub[p].speaking
      BY <1>3 DEF PublishAudio, SynthesisFails, H
    <2>2. /\ Released(hub[p]) =>
               HubInv([publishValidated(hub[p], "audio", e) EXCEPT !.speaking = @ \ {e}])
          /\ HubInv([hub[p] EXCEPT !.speaking = @ \ {e}])
      BY <1>0, <2>1, AudioKeeps
    <2> QED
      BY <1>3, <2>2, Zenon DEF PublishAudio, SynthesisFails, Hubs, WithHub, H
  <1> QED
    BY <1>1, <1>2, <1>3

LEMMA DispatchHubs ==
    ASSUME HubsInv, NEW p \in Proc
    PROVE  /\ \A c \in Callers, e \in Nat : ResidentCommitted(p, c, e) => Hubs(p)
           /\ \A c \in Callers : \A accepting : observe(p, c, accepting) => Hubs(p)
           /\ \A c \in Callers : EnqueueCommitted(p, c) => Hubs(p)
           /\ TakeRequest(p) => Hubs(p)
  <1>0. HubInv(hub[p])
    BY DEF HubsInv
  <1>1. ASSUME NEW c \in Callers, NEW e \in Nat, ResidentCommitted(p, c, e) PROVE Hubs(p)
    <2>1. PICK cb \in CallbackRecord : cb = [stage |-> "publish", event |-> e]
      BY DEF CallbackRecord
    <2>2. cb.stage \in {"none", "publish"}
      BY <2>1
    <2>3. HubInv([hub[p] EXCEPT !.callback[c] = cb])
      BY <1>0, <2>2, CallbackKeeps
    <2>4. hub' = [hub EXCEPT ![p] = [hub[p] EXCEPT !.callback[c] = cb]]
      BY <1>1, <2>1 DEF ResidentCommitted, WithHub, H
    <2> QED
      BY <2>3, <2>4, Zenon DEF Hubs
  <1>2. ASSUME NEW c \in Callers, NEW accepting, observe(p, c, accepting) PROVE Hubs(p)
    <2>1. NoCallback \in CallbackRecord /\ NoCallback.stage \in {"none", "publish"}
      BY DEF CallbackRecord, NoCallback
    <2>2. HubInv([hub[p] EXCEPT !.callback[c] = NoCallback])
      BY <1>0, <2>1, CallbackKeeps
    <2>3. hub[p].callback[c].stage = "observe"
      BY <1>2 DEF observe, H
    <2>4. CASE hub[p].callback[c].event > hub[p].highWater
      <3>1. PICK cb : cb = IF accepting THEN [hub[p].callback[c] EXCEPT !.stage = "offer"]
                           ELSE NoCallback
        OBVIOUS
      <3>2. cb = [stage |-> "offer", event |-> hub[p].callback[c].event] \/ cb = NoCallback
        <4>1. hub[p].callback[c] \in CallbackRecord
          BY <1>0 DEF HubInv, IsHub
        <4> QED
          BY <3>1, <4>1 DEF CallbackRecord
      <3>3. HubInv([hub[p] EXCEPT !.highWater = hub[p].callback[c].event, !.callback[c] = cb])
        BY <1>0, <2>3, <2>4, <3>2, ObservedKeeps
      <3> QED
        BY <1>2, <2>2, <3>1, <3>3, Zenon DEF observe, Hubs, WithHub, H
    <2>5. CASE ~(hub[p].callback[c].event > hub[p].highWater)
      BY <1>2, <2>2, <2>5, Zenon DEF observe, Hubs, WithHub, H
    <2> QED
      BY <2>4, <2>5
  <1>3. ASSUME NEW c \in Callers, EnqueueCommitted(p, c) PROVE Hubs(p)
    <2>1. hub[p].callback[c].stage = "offer"
      BY <1>3 DEF EnqueueCommitted, H
    <2>2. PICK q : q = IF HasAudioSubscribers(hub[p]) /\ Len(hub[p].requests) < QueueCapacity
                       THEN Append(hub[p].requests, hub[p].callback[c].event)
                       ELSE hub[p].requests
      OBVIOUS
    <2>3. HubInv([hub[p] EXCEPT !.callback[c] = NoCallback, !.requests = q])
      BY <1>0, <2>1, <2>2, OfferedKeeps
    <2>4. hub' = [hub EXCEPT ![p] = [hub[p] EXCEPT !.callback[c] = NoCallback, !.requests = q]]
      BY <1>3, <2>2 DEF EnqueueCommitted, WithHub, H
    <2> QED
      BY <2>3, <2>4, Zenon DEF Hubs
  <1>4. ASSUME TakeRequest(p) PROVE Hubs(p)
    <2>1. hub[p].requests # <<>>
      BY <1>4 DEF TakeRequest, H
    <2>2. HubInv([hub[p] EXCEPT !.requests = Tail(@), !.speaking = @ \cup {Head(hub[p].requests)}])
      BY <1>0, <2>1, TakenKeeps
    <2> QED
      BY <1>4, <2>2, Zenon DEF TakeRequest, Hubs, WithHub, H
  <1> QED
    BY <1>1, <1>2, <1>3, <1>4

LEMMA ListenHubs ==
    ASSUME HubsInv, NEW p \in Proc, NEW l \in Listener
    PROVE  /\ \A audio : SubscribeWithCapabilities(p, l, audio) => Hubs(p)
           /\ Receive(p, l) => Hubs(p)
           /\ Unsubscribe(p, l) => Hubs(p)
           /\ DropOldest(p, l) \/ Resend(p, l) => Hubs(p)
  <1>0. HubInv(hub[p]) /\ IsHub(hub[p]) /\ hub[p].stream \in Seq(Utterance)
    BY DEF HubsInv, HubInv, IsHub
  <1>1. PICK s : s = hub[p].subscribers[l] /\ Follows(hub[p], s)
    BY <1>0 DEF HubInv, ListenInv
  <1>2. ASSUME NEW r, Follows(hub[p], r), WithSubscriber(p, l, r) PROVE Hubs(p)
    <2>1. HubInv([hub[p] EXCEPT !.subscribers[l] = r])
      BY <1>0, <1>2, SubscriberKeeps
    <2>2. hub' = [hub EXCEPT ![p] = [hub[p] EXCEPT !.subscribers[l] = r]]
      BY <1>2 DEF WithSubscriber, WithHub, H
    <2> QED
      BY <2>1, <2>2, Zenon DEF Hubs
  <1>3. ASSUME NEW audio, SubscribeWithCapabilities(p, l, audio) PROVE Hubs(p)
    BY <1>0, <1>2, <1>3, NewFollows DEF SubscribeWithCapabilities, H
  <1>4. ASSUME Receive(p, l) PROVE Hubs(p)
    <2>1. /\ s.open /\ s.queue # <<>>
          /\ WithSubscriber(p, l, [s EXCEPT !.queue = Tail(@), !.last = Head(s.queue)])
      BY <1>1, <1>4 DEF Receive, H
    <2> QED
      BY <1>0, <1>1, <1>2, <2>1, ReceivedFollows
  <1>5. ASSUME Unsubscribe(p, l) PROVE Hubs(p)
    BY <1>0, <1>2, <1>5, NobodyFollows DEF Unsubscribe
  <1>6. ASSUME DropOldest(p, l) PROVE Hubs(p)
    <2>1. /\ s.offer = "full"
          /\ WithSubscriber(p, l, [s EXCEPT !.queue = IF @ = <<>> THEN @ ELSE Tail(@),
                                            !.offer = "dropped"])
      BY <1>1, <1>6 DEF DropOldest, H
    <2> QED
      BY <1>0, <1>1, <1>2, <2>1, DroppedFollows
  <1>7. ASSUME Resend(p, l) PROVE Hubs(p)
    <2>1. /\ s.offer = "dropped"
          /\ WithSubscriber(p, l, [s EXCEPT !.offer = "none",
                 !.queue = IF Room(s) THEN Append(@, Len(hub[p].stream)) ELSE @])
      BY <1>1, <1>7 DEF Resend, H
    <2> QED
      BY <1>0, <1>1, <1>2, <2>1, ResentFollows
  <1> QED
    BY <1>3, <1>4, <1>5, <1>6, <1>7

-----------------------------------------------------------------------------
(* Locks, data directories, commands and runtimes.                         *)

DirFields == {"exists", "head", "main", "hot", "refs", "shared", "registered", "service"}
JobFields == {"cmd", "dir", "step", "pub", "input", "from"}
PubFields == {"cmd", "target", "input", "place", "whole", "internal", "caller", "sibling",
              "changed", "head", "registered", "service", "ready"}
RunFields == {"phase", "dir", "step", "gate", "proven", "store", "paused", "workers",
              "handlers", "projection", "speech", "cancelled", "drained", "restart"}

IsDir(x) ==
    /\ x = [f \in DirFields |-> x[f]]
    /\ x.exists \in BOOLEAN /\ x.hot \in BOOLEAN /\ x.head \in Nat /\ x.main \in Nat
    /\ x.hot \/ x.main = x.head

IsJob(j) == j = [f \in JobFields |-> j[f]] /\ j.dir \in Dirs
IsPub(q) == q = [f \in PubFields |-> q[f]] /\ q.head \in Nat
IsRun(r) ==
    /\ r = [f \in RunFields |-> r[f]] /\ r.dir \in Dirs
    /\ r.proven = [f \in {"head", "session"} |-> r.proven[f]]

\* The steps of a command that has a publication at hand.
PubSteps == {"build", "register", "recover", "rebuild", "closed", "internal", "sibling",
             "seal", "rename", "authenticate", "clean", "unmark", "barrier"}

Shapes ==
    /\ dirs = [d \in Dirs |-> dirs[d]] /\ \A d \in Dirs : IsDir(dirs[d])
    /\ hostlock = [d \in Dirs |-> hostlock[d]] /\ space = [name \in Names |-> space[name]]
    /\ job = [p \in Proc |-> job[p]] /\ \A p \in Proc : IsJob(job[p])
    /\ runtime = [p \in Proc |-> runtime[p]] /\ \A p \in Proc : IsRun(runtime[p])

Listed(s) ==
    /\ Len(s) \in Nat /\ s = [i \in 1..Len(s) |-> s[i]]
    /\ \A i \in 1..Len(s) : IsPub(s[i])

JobPub(p) ==
    /\ job[p].step \in PubSteps => job[p].pub \in 1..Len(pubs)
    /\ job[p].from \in 0..Len(pubs)
    /\ job[p].cmd = "restore" => job[p].from # 0

PubShapes == Listed(pubs) /\ \A p \in Proc : JobPub(p)

WritingSteps == {"open", "apply", "rebuilt"}
InPlaceCommands == {"scan", "terminalize", "rebuild", "activate", "select", "apply"}
CapturingCommands == {"backup", "export", "plan", "decide"}

\* A command but a restore holds the host lock of its directory to its end; what
\* it writes to has a journal; the head it captured stays.
JobFits(p) ==
    LET j == job[p] IN
    /\ j.cmd \notin {"none", "restore"} => hostlock[j.dir] = p
    /\ j.step \in WritingSteps => j.cmd \in InPlaceCommands /\ dirs[j.dir].hot
    /\ j.cmd \in CapturingCommands /\ j.step # "check" =>
         j.input = [dir |-> j.dir, commit |-> HeadCommit(j.dir)]

BehindProjection == {"WaitProjectionReady", "StartWorkersGated", "StartHTTPGated",
                     "RequireCanonicalHead", "ResumeAdmissions", "OpenGate"}
BehindWorkers == {"StartHTTPGated", "RequireCanonicalHead", "ResumeAdmissions", "OpenGate"}

\* What the steps of the start-up sequence have established.
StartupFits(r, step, head) ==
    /\ r.gate = "closed" /\ r.handlers = "none" /\ r.workers \in {"none", "gated"}
    /\ step \in BehindProjection => r.projection = "running"
    /\ step \in BehindWorkers => r.workers = "gated"
    /\ step \in {"ResumeAdmissions", "OpenGate"} => r.proven.head = head
    /\ step = "OpenGate" => ~r.paused

\* A runtime holds the host lock of its directory until it is closed, and the
\* process runs no finite command beside it.
RunFits(p) ==
    LET r == runtime[p] IN
    /\ r.phase # "none" => hostlock[r.dir] = p /\ job[p] = NoJob
    /\ r.phase \in {"none", "opening"} =>
         /\ ~r.store /\ r.projection = "none" /\ r.gate = "closed" /\ r.speech = "none"
         /\ r.workers = "none" /\ r.handlers = "none"
    /\ r.phase \notin {"none", "opening"} => dirs[r.dir].hot
    /\ r.phase = "starting" => StartupFits(r, r.step, dirs[r.dir].head)

LockedExists == \A d \in Dirs : hostlock[d] # Free => dirs[d].exists

HoldInv ==
    /\ Shapes /\ PubShapes /\ LockedExists
    /\ \A p \in Proc : JobFits(p) /\ RunFits(p)

-----------------------------------------------------------------------------
(* What a step does to one data directory.                                 *)

DirStep(d) ==
    /\ dirs' = [e \in Dirs |-> dirs'[e]] /\ \A e \in Dirs \ {d} : dirs'[e] = dirs[e]
    /\ IsDir(dirs'[d]) /\ (dirs[d].exists => dirs'[d].exists)

LEMMA DirReplaced ==
    ASSUME Shapes, NEW d \in Dirs, NEW x, IsDir(x), dirs[d].exists => x.exists,
           dirs' = [dirs EXCEPT ![d] = x]
    PROVE  DirStep(d) /\ dirs'[d] = x
  BY DEF Shapes, DirStep

LEMMA CommitsMoves ==
    ASSUME Shapes, NEW d \in Dirs, Commits(d), dirs[d].hot
    PROVE  DirStep(d) /\ dirs'[d].hot
  <1>1. IsDir(dirs[d])
    BY DEF Shapes
  <1>n. PICK n : n = dirs[d].head + 1
    OBVIOUS
  <1>m. n \in Nat
    BY <1>1, <1>n DEF IsDir
  <1>2. PICK x : x = [dirs[d] EXCEPT !.head = n]
    OBVIOUS
  <1>3. IsDir(x) /\ x.hot /\ x.exists = dirs[d].exists
    BY <1>1, <1>m, <1>2 DEF IsDir, DirFields
  <1>4. dirs' = [dirs EXCEPT ![d] = x]
    BY <1>n, <1>2 DEF Commits
  <1> QED
    BY <1>3, <1>4, DirReplaced

LEMMA FlushedMoves ==
    ASSUME Shapes, NEW d \in Dirs, dirs' = Flushed(d) PROVE DirStep(d)
  <1>1. IsDir(dirs[d])
    BY DEF Shapes
  <1>2. PICK x : x = [dirs[d] EXCEPT !.main = dirs[d].head, !.hot = FALSE]
    OBVIOUS
  <1>3. IsDir(x) /\ x.exists = dirs[d].exists
    BY <1>1, <1>2 DEF IsDir, DirFields
  <1>4. dirs' = [dirs EXCEPT ![d] = x]
    BY <1>2 DEF Flushed, Shapes
  <1> QED
    BY <1>3, <1>4, DirReplaced

LEMMA OpenedMoves ==
    ASSUME Shapes, NEW d \in Dirs, RuntimeOpened(d) PROVE DirStep(d) /\ dirs'[d].hot
  <1>1. IsDir(dirs[d])
    BY DEF Shapes
  <1>2. PICK b : b = (captureReadinessSelection(dirs[d].service) /\ ~dirs[d].registered)
    OBVIOUS
  <1>n. PICK n : n = IF b THEN dirs[d].head + 1 ELSE dirs[d].head
    OBVIOUS
  <1>m. n \in Nat
    BY <1>1, <1>n DEF IsDir
  <1>k. PICK k : k = (dirs[d].registered \/ b)
    OBVIOUS
  <1>3. PICK x : x = [dirs[d] EXCEPT !.hot = TRUE, !.head = n, !.registered = k]
    OBVIOUS
  <1>4. IsDir(x) /\ x.exists = dirs[d].exists /\ x.hot
    BY <1>1, <1>m, <1>3 DEF IsDir, DirFields
  <1>5. dirs' = [dirs EXCEPT ![d] = x]
    BY <1>1, <1>2, <1>n, <1>k, <1>3 DEF RuntimeOpened, Shapes, IsDir, DirFields
  <1> QED
    BY <1>4, <1>5, DirReplaced

\* Content references, service facts, a journal, existence.
LEMMA AsideMoves ==
    ASSUME Shapes, NEW d \in Dirs, NEW v,
           \/ dirs' = [dirs EXCEPT ![d].refs = v]
           \/ dirs' = [dirs EXCEPT ![d].service.configured = v]
           \/ dirs' = [dirs EXCEPT ![d].hot = TRUE]
           \/ dirs' = [dirs EXCEPT ![d].exists = TRUE]
    PROVE  DirStep(d) /\ dirs'[d].head = dirs[d].head /\ (dirs[d].hot => dirs'[d].hot)
  <1>1. IsDir(dirs[d])
    BY DEF Shapes
  <1>2. CASE dirs' = [dirs EXCEPT ![d].refs = v]
    <2>1. PICK x : x = [dirs[d] EXCEPT !.refs = v]
      OBVIOUS
    <2>2. IsDir(x) /\ x.exists = dirs[d].exists /\ x.hot = dirs[d].hot /\ x.head = dirs[d].head
      BY <1>1, <2>1 DEF IsDir, DirFields
    <2>3. dirs' = [dirs EXCEPT ![d] = x]
      BY <1>2, <2>1
    <2> QED
      BY <2>2, <2>3, DirReplaced
  <1>3. CASE dirs' = [dirs EXCEPT ![d].service.configured = v]
    <2>1. PICK s : s = [dirs[d].service EXCEPT !.configured = v]
      OBVIOUS
    <2>2. PICK x : x = [dirs[d] EXCEPT !.service = s]
      OBVIOUS
    <2>3. IsDir(x) /\ x.exists = dirs[d].exists /\ x.hot = dirs[d].hot /\ x.head = dirs[d].head
      BY <1>1, <2>2 DEF IsDir, DirFields
    <2>4. dirs' = [dirs EXCEPT ![d] = x]
      BY <1>3, <2>1, <2>2
    <2> QED
      BY <2>3, <2>4, DirReplaced
  <1>4. CASE dirs' = [dirs EXCEPT ![d].hot = TRUE]
    <2>1. PICK x : x = [dirs[d] EXCEPT !.hot = TRUE]
      OBVIOUS
    <2>2. IsDir(x) /\ x.exists = dirs[d].exists /\ x.hot /\ x.head = dirs[d].head
      BY <1>1, <2>1 DEF IsDir, DirFields
    <2>3. dirs' = [dirs EXCEPT ![d] = x]
      BY <1>4, <2>1
    <2> QED
      BY <2>2, <2>3, DirReplaced
  <1>5. CASE dirs' = [dirs EXCEPT ![d].exists = TRUE]
    <2>1. PICK x : x = [dirs[d] EXCEPT !.exists = TRUE]
      OBVIOUS
    <2>2. IsDir(x) /\ x.exists /\ x.hot = dirs[d].hot /\ x.head = dirs[d].head
      BY <1>1, <2>1 DEF IsDir, DirFields
    <2>3. dirs' = [dirs EXCEPT ![d] = x]
      BY <1>5, <2>1
    <2> QED
      BY <2>2, <2>3, DirReplaced
  <1> QED
    BY <1>2, <1>3, <1>4, <1>5

LEMMA PolicyMoves ==
    ASSUME Shapes, NEW d \in Dirs, dirs[d].hot,
           dirs' = [dirs EXCEPT ![d].service.policy = "v4", ![d].head = @ + 1]
    PROVE  DirStep(d) /\ dirs'[d].hot
  <1>1. IsDir(dirs[d])
    BY DEF Shapes
  <1>2. PICK s : s = [dirs[d].service EXCEPT !.policy = "v4"]
    OBVIOUS
  <1>n. PICK n : n = dirs[d].head + 1
    OBVIOUS
  <1>m. n \in Nat
    BY <1>1, <1>n DEF IsDir
  <1>3. PICK x : x = [dirs[d] EXCEPT !.service = s, !.head = n]
    OBVIOUS
  <1>4. IsDir(x) /\ x.exists = dirs[d].exists /\ x.hot
    BY <1>1, <1>m, <1>3 DEF IsDir, DirFields
  <1>5. dirs' = [dirs EXCEPT ![d] = x]
    BY <1>1, <1>n, <1>2, <1>3 DEF Shapes, IsDir, DirFields
  <1> QED
    BY <1>4, <1>5, DirReplaced

LEMMA RebuiltMoves ==
    ASSUME Shapes, NEW d \in Dirs, dirs' = [Flushed(d) EXCEPT ![d].refs = dirs[d].head]
    PROVE  DirStep(d)
  <1>1. IsDir(dirs[d])
    BY DEF Shapes
  <1>2. PICK x : x = [dirs[d] EXCEPT !.main = dirs[d].head, !.hot = FALSE, !.refs = dirs[d].head]
    OBVIOUS
  <1>3. IsDir(x) /\ x.exists = dirs[d].exists
    BY <1>1, <1>2 DEF IsDir, DirFields
  <1>4. dirs' = [dirs EXCEPT ![d] = x]
    BY <1>2 DEF Flushed, Shapes
  <1> QED
    BY <1>3, <1>4, DirReplaced

-----------------------------------------------------------------------------
(* What a step of one process leaves to the others.                        *)

Alone(p) ==
    /\ \A q \in Proc \ {p} : runtime'[q] = runtime[q] /\ job'[q] = job[q]
    /\ \A d \in Dirs : hostlock[d] \notin {p, Free} =>
         hostlock'[d] = hostlock[d] /\ dirs'[d] = dirs[d]
    /\ \A d \in Dirs : dirs[d].exists => dirs'[d].exists

Held(p) == Alone(p) /\ Shapes' /\ LockedExists' /\ JobFits(p)' /\ RunFits(p)'

LEMMA OthersFit ==
    ASSUME HoldInv, NEW p \in Proc, Alone(p), NEW q \in Proc \ {p}
    PROVE  JobFits(q)' /\ RunFits(q)'
  <1>1. runtime'[q] = runtime[q] /\ job'[q] = job[q] /\ JobFits(q) /\ RunFits(q)
    BY DEF Alone, HoldInv
  <1>2. \A d \in Dirs : hostlock[d] = q => hostlock'[d] = q /\ dirs'[d] = dirs[d]
    BY PublicationAssumption DEF Alone
  <1>3. job[q].dir \in Dirs /\ runtime[q].dir \in Dirs
    BY DEF HoldInv, Shapes, IsJob, IsRun
  <1>4. JobFits(q)'
    <2>1. CASE job[q].cmd \in {"none", "restore"}
      BY <1>1, <2>1 DEF JobFits, InPlaceCommands, CapturingCommands
    <2>2. CASE job[q].cmd \notin {"none", "restore"}
      <3>1. hostlock'[job[q].dir] = q /\ dirs'[job[q].dir] = dirs[job[q].dir]
        BY <1>1, <1>2, <1>3, <2>2 DEF JobFits
      <3> QED
        BY <1>1, <3>1 DEF JobFits, HeadCommit
    <2> QED
      BY <2>1, <2>2
  <1>5. RunFits(q)'
    <2>1. CASE runtime[q].phase = "none"
      BY <1>1, <2>1 DEF RunFits
    <2>2. CASE runtime[q].phase # "none"
      <3>1. hostlock'[runtime[q].dir] = q /\ dirs'[runtime[q].dir] = dirs[runtime[q].dir]
        BY <1>1, <1>2, <1>3, <2>2 DEF RunFits
      <3> QED
        BY <1>1, <3>1 DEF RunFits
    <2> QED
      BY <2>1, <2>2
  <1> QED
    BY <1>4, <1>5

LEMMA HeldKeeps ==
    ASSUME HoldInv, NEW p \in Proc, Held(p), PubShapes' PROVE HoldInv'
  BY OthersFit DEF Held, HoldInv

-----------------------------------------------------------------------------
(* The steps of a command, by what they do to the locks and the directory. *)

LEMMA JobShape ==
    ASSUME Shapes, NEW p \in Proc, NEW j, IsJob(j), job' = [job EXCEPT ![p] = j]
    PROVE  /\ job' = [q \in Proc |-> job'[q]] /\ \A q \in Proc : IsJob(job'[q])
           /\ job'[p] = j /\ \A q \in Proc \ {p} : job'[q] = job[q]
  BY DEF Shapes

LEMMA BusyOutside ==
    ASSUME HoldInv, NEW p \in Proc, job[p] # NoJob PROVE runtime[p].phase = "none"
  BY DEF HoldInv, RunFits

SpaceShape == space = [name \in Names |-> space[name]]

\* It goes on with the publication it has, or takes the next one.
LEMMA JobAdvances ==
    ASSUME HoldInv, NEW p \in Proc, NEW j, IsJob(j), job' = [job EXCEPT ![p] = j],
           j.cmd = job[p].cmd, j.dir = job[p].dir, j.input = job[p].input,
           job[p] # NoJob, job[p].step # "check", j.step \notin WritingSteps,
           UNCHANGED <<dirs, hostlock, runtime>>, SpaceShape'
    PROVE  Held(p)
  <1>1. Shapes /\ JobFits(p) /\ RunFits(p) /\ LockedExists
    BY DEF HoldInv
  <1>2. runtime[p].phase = "none"
    BY BusyOutside
  <1>3. /\ job' = [q \in Proc |-> job'[q]] /\ \A q \in Proc : IsJob(job'[q])
        /\ job'[p] = j /\ \A q \in Proc \ {p} : job'[q] = job[q]
    BY <1>1, JobShape
  <1>4. Shapes'
    BY <1>1, <1>3 DEF Shapes, SpaceShape
  <1>5. JobFits(p)'
    BY <1>1, <1>3 DEF JobFits, HeadCommit
  <1>6. RunFits(p)'
    BY <1>1, <1>2 DEF RunFits
  <1> QED
    BY <1>1, <1>3, <1>4, <1>5, <1>6 DEF Held, Alone, LockedExists

\* It captures the head of a directory without a journal.
LEMMA JobCaptures ==
    ASSUME HoldInv, NEW p \in Proc, NEW j, IsJob(j), job' = [job EXCEPT ![p] = j],
           j.cmd = job[p].cmd, j.dir = job[p].dir, j.input = ProducerInput(job[p].dir),
           job[p] # NoJob, ~dirs[job[p].dir].hot, j.step \notin WritingSteps,
           UNCHANGED <<dirs, hostlock, runtime>>, SpaceShape'
    PROVE  Held(p)
  <1>1. Shapes /\ JobFits(p) /\ RunFits(p) /\ LockedExists
    BY DEF HoldInv
  <1>2. runtime[p].phase = "none"
    BY BusyOutside
  <1>3. /\ job' = [q \in Proc |-> job'[q]] /\ \A q \in Proc : IsJob(job'[q])
        /\ job'[p] = j /\ \A q \in Proc \ {p} : job'[q] = job[q]
    BY <1>1, JobShape
  <1>4. Shapes'
    BY <1>1, <1>3 DEF Shapes, SpaceShape
  <1>5. j.input = [dir |-> j.dir, commit |-> HeadCommit(j.dir)]
    <2>1. dirs[j.dir].main = dirs[j.dir].head
      BY <1>1 DEF Shapes, IsDir, IsJob
    <2> QED
      BY <2>1 DEF ProducerInput, CapturedHead, HeadCommit
  <1>6. HeadCommit(j.dir)' = HeadCommit(j.dir)
    BY DEF HeadCommit
  <1>7. JobFits(p)'
    <2>1. /\ j.cmd \notin {"none", "restore"} => hostlock[j.dir] = p
      BY <1>1 DEF JobFits
    <2> QED
      BY <1>3, <1>5, <2>1 DEF JobFits, HeadCommit
  <1>8. RunFits(p)'
    BY <1>1, <1>2 DEF RunFits
  <1> QED
    BY <1>1, <1>3, <1>4, <1>7, <1>8 DEF Held, Alone, LockedExists

\* It writes to its directory.
LEMMA JobWrites ==
    ASSUME HoldInv, NEW p \in Proc, NEW j, IsJob(j), job' = [job EXCEPT ![p] = j],
           j.cmd = job[p].cmd, j.dir = job[p].dir, job[p] # NoJob,
           j.cmd \in InPlaceCommands, j.step \in WritingSteps,
           DirStep(j.dir), dirs'[j.dir].hot,
           UNCHANGED <<hostlock, runtime>>, SpaceShape'
    PROVE  Held(p)
  <1>1. Shapes /\ JobFits(p) /\ RunFits(p) /\ LockedExists
    BY DEF HoldInv
  <1>2. runtime[p].phase = "none"
    BY BusyOutside
  <1>3. /\ job' = [q \in Proc |-> job'[q]] /\ \A q \in Proc : IsJob(job'[q])
        /\ job'[p] = j /\ \A q \in Proc \ {p} : job'[q] = job[q]
    BY <1>1, JobShape
  <1>4. j.dir \in Dirs /\ hostlock[j.dir] = p
    BY <1>1 DEF JobFits, IsJob, InPlaceCommands
  <1>5. Shapes'
    <2>1. dirs' = [d \in Dirs |-> dirs'[d]] /\ \A d \in Dirs : IsDir(dirs'[d])
      BY <1>1, <1>4 DEF Shapes, DirStep
    <2> QED
      BY <1>1, <1>3, <2>1 DEF Shapes, SpaceShape
  <1>6. JobFits(p)'
    BY <1>3, <1>4 DEF JobFits, InPlaceCommands, CapturingCommands
  <1>7. RunFits(p)'
    BY <1>1, <1>2 DEF RunFits
  <1>8. Alone(p)
    BY <1>3, <1>4 DEF Alone, DirStep
  <1>9. LockedExists'
    BY <1>1 DEF LockedExists, DirStep
  <1> QED
    BY <1>5, <1>6, <1>7, <1>8, <1>9 DEF Held

LEMMA UnlockedHost ==
    ASSUME Shapes, NEW p \in Proc, hostlock' = Unlocked(hostlock, p)
    PROVE  /\ hostlock' = [d \in Dirs |-> hostlock'[d]]
           /\ \A d \in Dirs : hostlock[d] # p => hostlock'[d] = hostlock[d]
           /\ \A d \in Dirs : hostlock'[d] # Free => hostlock[d] # Free /\ hostlock[d] # p
  BY DEF Shapes, Unlocked

\* It ends, and gives back its locks.
LEMMA JobEnds ==
    ASSUME HoldInv, NEW p \in Proc, job' = [job EXCEPT ![p] = NoJob],
           hostlock' = Unlocked(hostlock, p), runtime' = runtime, job[p] # NoJob,
           dirs' = dirs \/ (hostlock[job[p].dir] = p /\ DirStep(job[p].dir)), SpaceShape'
    PROVE  Held(p)
  <1>1. Shapes /\ JobFits(p) /\ RunFits(p) /\ LockedExists
    BY DEF HoldInv
  <1>2. runtime[p].phase = "none"
    BY BusyOutside
  <1>3. IsJob(NoJob) /\ NoJob.cmd = "none" /\ NoJob.step = "none"
    BY DEF IsJob, NoJob, JobFields, Dirs
  <1>4. /\ job' = [q \in Proc |-> job'[q]] /\ \A q \in Proc : IsJob(job'[q])
        /\ job'[p] = NoJob /\ \A q \in Proc \ {p} : job'[q] = job[q]
    BY <1>1, <1>3, JobShape
  <1>5. /\ hostlock' = [d \in Dirs |-> hostlock'[d]]
        /\ \A d \in Dirs : hostlock[d] # p => hostlock'[d] = hostlock[d]
        /\ \A d \in Dirs : hostlock'[d] # Free => hostlock[d] # Free /\ hostlock[d] # p
    BY <1>1, UnlockedHost
  <1>6. job[p].dir \in Dirs
    BY <1>1 DEF Shapes, IsJob
  <1>7. /\ dirs' = [d \in Dirs |-> dirs'[d]] /\ \A d \in Dirs : IsDir(dirs'[d])
        /\ \A d \in Dirs : dirs[d].exists => dirs'[d].exists
        /\ \A d \in Dirs : hostlock[d] # p => dirs'[d] = dirs[d]
    BY <1>1, <1>6 DEF Shapes, DirStep
  <1>8. Shapes'
    BY <1>1, <1>4, <1>5, <1>7 DEF Shapes, SpaceShape
  <1>9. JobFits(p)'
    BY <1>3, <1>4 DEF JobFits, WritingSteps, CapturingCommands
  <1>10. RunFits(p)'
    BY <1>1, <1>2 DEF RunFits
  <1>11. Alone(p)
    BY <1>4, <1>5, <1>7 DEF Alone
  <1>12. LockedExists'
    BY <1>1, <1>5, <1>7 DEF LockedExists
  <1> QED
    BY <1>8, <1>9, <1>10, <1>11, <1>12 DEF Held

\* It begins, under the host lock of its directory or, a restore, without one.
LEMMA JobBegins ==
    ASSUME HoldInv, NEW p \in Proc, NEW j, IsJob(j), job' = [job EXCEPT ![p] = j],
           runtime[p].phase = "none", j.step \notin WritingSteps,
           j.cmd \in CapturingCommands => j.step = "check",
           UNCHANGED <<dirs, runtime>>, SpaceShape',
           \/ Acquire(p, j.dir) /\ dirs[j.dir].exists
           \/ j.cmd = "restore" /\ hostlock' = hostlock
    PROVE  Held(p)
  <1>1. Shapes /\ JobFits(p) /\ RunFits(p) /\ LockedExists
    BY DEF HoldInv
  <1>2. /\ job' = [q \in Proc |-> job'[q]] /\ \A q \in Proc : IsJob(job'[q])
        /\ job'[p] = j /\ \A q \in Proc \ {p} : job'[q] = job[q]
    BY <1>1, JobShape
  <1>3. j.dir \in Dirs
    BY DEF IsJob
  <1>4. /\ hostlock' = [d \in Dirs |-> hostlock'[d]]
        /\ \A d \in Dirs : hostlock[d] # Free => hostlock'[d] = hostlock[d]
        /\ \A d \in Dirs : hostlock'[d] # Free => hostlock[d] # Free \/ dirs[d].exists
        /\ j.cmd \notin {"none", "restore"} => hostlock'[j.dir] = p
    BY <1>1, <1>3 DEF Shapes, Acquire
  <1>5. Shapes'
    BY <1>1, <1>2, <1>4 DEF Shapes, SpaceShape
  <1>6. JobFits(p)'
    BY <1>2, <1>4 DEF JobFits
  <1>7. RunFits(p)'
    BY <1>1 DEF RunFits
  <1>8. Alone(p)
    BY <1>2, <1>4 DEF Alone
  <1>9. LockedExists'
    BY <1>1, <1>4 DEF LockedExists
  <1> QED
    BY <1>5, <1>6, <1>7, <1>8, <1>9 DEF Held

\* It gives a target its name: a data directory only where none is.
LEMMA JobPublishes ==
    ASSUME HoldInv, NEW p \in Proc, NEW j, IsJob(j), job' = [job EXCEPT ![p] = j],
           j.cmd = job[p].cmd, j.dir = job[p].dir, j.input = job[p].input,
           job[p] # NoJob, job[p].step = "rename", j.step \notin WritingSteps,
           \/ dirs' = dirs
           \/ \E x : IsDir(x) /\ ~dirs["restored"].exists
                     /\ dirs' = [dirs EXCEPT !["restored"] = x],
           UNCHANGED <<hostlock, runtime>>, SpaceShape'
    PROVE  Held(p)
  <1>1. Shapes /\ JobFits(p) /\ RunFits(p) /\ LockedExists
    BY DEF HoldInv
  <1>2. runtime[p].phase = "none"
    BY BusyOutside
  <1>3. /\ job' = [q \in Proc |-> job'[q]] /\ \A q \in Proc : IsJob(job'[q])
        /\ job'[p] = j /\ \A q \in Proc \ {p} : job'[q] = job[q]
    BY <1>1, JobShape
  <1>4. /\ dirs' = [d \in Dirs |-> dirs'[d]] /\ \A d \in Dirs : IsDir(dirs'[d])
        /\ \A d \in Dirs : hostlock[d] # Free => dirs'[d] = dirs[d]
    BY <1>1 DEF Shapes, LockedExists
  <1>5. Shapes'
    BY <1>1, <1>3, <1>4 DEF Shapes, SpaceShape
  <1>6. JobFits(p)'
    <2>1. CASE j.cmd \in {"none", "restore"}
      BY <1>3, <2>1 DEF JobFits, CapturingCommands
    <2>2. CASE j.cmd \notin {"none", "restore"}
      <3>1. hostlock[j.dir] = p /\ j.dir \in Dirs
        BY <1>1, <2>2 DEF JobFits, IsJob
      <3>2. dirs'[j.dir] = dirs[j.dir]
        BY <1>4, <3>1, PublicationAssumption
      <3>3. HeadCommit(j.dir)' = HeadCommit(j.dir)
        BY <3>2 DEF HeadCommit
      <3>4. j.cmd \in CapturingCommands =>
                j.input = [dir |-> j.dir, commit |-> HeadCommit(j.dir)]
        BY <1>1 DEF JobFits
      <3> QED
        BY <1>3, <3>1, <3>2, <3>4 DEF JobFits, HeadCommit
    <2> QED
      BY <2>1, <2>2
  <1>7. RunFits(p)'
    BY <1>1, <1>2 DEF RunFits
  <1>8. Alone(p)
    BY <1>3, <1>4 DEF Alone
  <1>9. LockedExists'
    BY <1>1, <1>4 DEF LockedExists
  <1> QED
    BY <1>5, <1>6, <1>7, <1>8, <1>9 DEF Held

LEMMA SpaceShapes ==
    ASSUME Shapes, NEW p \in Proc
    PROVE  /\ space' = space => SpaceShape'
           /\ space' = Unlocked(space, p) => SpaceShape'
           /\ \A name : AcquireExistingParent(p, name) => SpaceShape'
  BY DEF Shapes, SpaceShape, Unlocked, AcquireExistingParent

\* The changes of a command's record.
LEMMA StepMoves ==
    ASSUME Shapes, NEW p \in Proc, NEW s, Step(p, s)
    PROVE  \E j : /\ IsJob(j) /\ job' = [job EXCEPT ![p] = j] /\ j.step = s
                  /\ j.cmd = job[p].cmd /\ j.dir = job[p].dir /\ j.input = job[p].input
                  /\ j.pub = job[p].pub /\ j.from = job[p].from
  <1>1. IsJob(job[p])
    BY DEF Shapes
  <1>2. PICK j : j = [job[p] EXCEPT !.step = s]
    OBVIOUS
  <1>3. /\ IsJob(j) /\ j.step = s
        /\ j.cmd = job[p].cmd /\ j.dir = job[p].dir /\ j.input = job[p].input
        /\ j.pub = job[p].pub /\ j.from = job[p].from
    BY <1>1, <1>2 DEF IsJob, JobFields
  <1>4. job' = [job EXCEPT ![p] = j]
    BY <1>2 DEF Step
  <1> QED
    BY <1>3, <1>4

Turns(p, s, i) == job' = [job EXCEPT ![p].step = s, ![p].pub = i]

LEMMA TurnMoves ==
    ASSUME Shapes, NEW p \in Proc, NEW s, NEW i, Turns(p, s, i)
    PROVE  \E j : /\ IsJob(j) /\ job' = [job EXCEPT ![p] = j] /\ j.step = s
                  /\ j.cmd = job[p].cmd /\ j.dir = job[p].dir /\ j.input = job[p].input
                  /\ j.pub = i /\ j.from = job[p].from
  <1>1. IsJob(job[p])
    BY DEF Shapes
  <1>2. PICK j : j = [job[p] EXCEPT !.step = s, !.pub = i]
    OBVIOUS
  <1>3. /\ IsJob(j) /\ j.step = s
        /\ j.cmd = job[p].cmd /\ j.dir = job[p].dir /\ j.input = job[p].input
        /\ j.pub = i /\ j.from = job[p].from
    BY <1>1, <1>2 DEF IsJob, JobFields
  <1>4. job' = [job EXCEPT ![p] = j]
    BY <1>2 DEF Shapes, Turns
  <1> QED
    BY <1>3, <1>4

\* No command is idle in one of its steps.
LEMMA NotIdle ==
    ASSUME NEW p \in Proc, job[p].step # "none" \/ job[p].cmd # "none" PROVE job[p] # NoJob
  BY DEF NoJob

LEMMA StepHeld ==
    ASSUME HoldInv, NEW p \in Proc, NEW s, Step(p, s), job[p].step \notin {"none", "check"},
           s \notin WritingSteps, UNCHANGED <<dirs, hostlock, runtime>>, SpaceShape'
    PROVE  Held(p)
  <1>1. Shapes
    BY DEF HoldInv
  <1>2. PICK j : /\ IsJob(j) /\ job' = [job EXCEPT ![p] = j] /\ j.step = s
                 /\ j.cmd = job[p].cmd /\ j.dir = job[p].dir /\ j.input = job[p].input
                 /\ j.pub = job[p].pub /\ j.from = job[p].from
    BY <1>1, StepMoves
  <1> QED
    BY <1>2, NotIdle, JobAdvances

LEMMA TurnHeld ==
    ASSUME HoldInv, NEW p \in Proc, NEW s, NEW i, Turns(p, s, i),
           job[p].step \notin {"none", "check"},
           s \notin WritingSteps, UNCHANGED <<dirs, hostlock, runtime>>, SpaceShape'
    PROVE  Held(p)
  <1>1. Shapes
    BY DEF HoldInv
  <1>2. PICK j : /\ IsJob(j) /\ job' = [job EXCEPT ![p] = j] /\ j.step = s
                 /\ j.cmd = job[p].cmd /\ j.dir = job[p].dir /\ j.input = job[p].input
                 /\ j.pub = i /\ j.from = job[p].from
    BY <1>1, TurnMoves
  <1> QED
    BY <1>2, NotIdle, JobAdvances

LEMMA SameHeld ==
    ASSUME HoldInv, NEW p \in Proc, UNCHANGED <<dirs, hostlock, runtime, job>>, SpaceShape'
    PROVE  Held(p)
  BY DEF HoldInv, Held, Shapes, SpaceShape, Alone, LockedExists, JobFits, HeadCommit, RunFits

LEMMA FinishHeld ==
    ASSUME HoldInv, NEW p \in Proc, Finish(p), runtime' = runtime, job[p] # NoJob,
           dirs' = dirs \/ (hostlock[job[p].dir] = p /\ DirStep(job[p].dir))
    PROVE  Held(p)
  <1>1. SpaceShape'
    BY SpaceShapes DEF HoldInv, Finish
  <1> QED
    BY <1>1, JobEnds DEF Finish

-----------------------------------------------------------------------------
(* Every step of a command.                                                *)

\* Steps that build and publish.
BuildStep(p) ==
    \/ BuildBundle(p) \/ BuildExport(p) \/ BuildPlan(p) \/ CopyVerified(p)
    \/ registerRestoredDialogueV4(p) \/ runStagedDatabase(p)
    \/ rebuildEligibleProjections(p) \/ verifyClosedStagingRoot(p)
    \/ WriteInternalMarker(p) \/ CreateSiblingMarker(p)
    \/ SealSiblingMarker(p) \/ RemoveSiblingMarker(p)

LEMMA BuildHeld ==
    ASSUME HoldInv, NEW p \in Proc, runtime' = runtime, BuildStep(p) \/ CleanTarget(p)
    PROVE  Held(p)
  <1>0. UNCHANGED <<dirs, lockVars>> => UNCHANGED <<dirs, hostlock, runtime>> /\ SpaceShape'
    BY SpaceShapes DEF HoldInv, lockVars
  <1>1. CASE BuildBundle(p)
    BY <1>0, <1>1, StepHeld DEF BuildBundle, At, WritingSteps
  <1>2. CASE BuildExport(p)
    BY <1>0, <1>2, StepHeld DEF BuildExport, At, WritingSteps
  <1>3. CASE BuildPlan(p)
    BY <1>0, <1>3, StepHeld DEF BuildPlan, At, WritingSteps
  <1>4. CASE CopyVerified(p)
    BY <1>0, <1>4, StepHeld DEF CopyVerified, At, WritingSteps
  <1>5. CASE registerRestoredDialogueV4(p)
    BY <1>0, <1>5, StepHeld DEF registerRestoredDialogueV4, At, WritingSteps
  <1>6. CASE runStagedDatabase(p)
    BY <1>0, <1>6, StepHeld DEF runStagedDatabase, At, WritingSteps
  <1>7. CASE rebuildEligibleProjections(p)
    BY <1>0, <1>7, StepHeld DEF rebuildEligibleProjections, At, WritingSteps
  <1>8. CASE verifyClosedStagingRoot(p)
    BY <1>0, <1>8, StepHeld DEF verifyClosedStagingRoot, At, WritingSteps
  <1>9. CASE WriteInternalMarker(p)
    BY <1>0, <1>9, StepHeld DEF WriteInternalMarker, WritingSteps
  <1>10. CASE CreateSiblingMarker(p)
    BY <1>0, <1>10, StepHeld DEF CreateSiblingMarker, WritingSteps
  <1>11. CASE SealSiblingMarker(p)
    BY <1>0, <1>11, StepHeld DEF SealSiblingMarker, WritingSteps
  <1>12. CASE RemoveSiblingMarker(p)
    BY <1>0, <1>12, StepHeld DEF RemoveSiblingMarker, WritingSteps
  <1>13. CASE CleanTarget(p)
    <2>1. UNCHANGED <<dirs, hostlock, runtime>> /\ SpaceShape' /\ job[p].step = "clean"
      BY <1>0, <1>13 DEF CleanTarget
    <2>2. job' = job \/ Step(p, "unmark")
      BY <1>13 DEF CleanTarget
    <2>3. CASE job' = job
      BY <2>1, <2>3, SameHeld
    <2>4. CASE Step(p, "unmark")
      BY <2>1, <2>4, StepHeld DEF WritingSteps
    <2> QED
      BY <2>2, <2>3, <2>4
  <1> QED
    BY <1>1, <1>2, <1>3, <1>4, <1>5, <1>6, <1>7, <1>8, <1>9, <1>10, <1>11, <1>12, <1>13
       DEF BuildStep

\* Captures of the head, and the namespace of the target.
LEMMA CapturesHeld ==
    ASSUME HoldInv, NEW p \in Proc, runtime' = runtime, NEW ready, Captures(p, ready),
           job[p].step = "check"
    PROVE  Held(p)
  <1>0. Shapes /\ job[p] # NoJob /\ IsJob(job[p])
    BY NotIdle DEF HoldInv, Shapes
  <1>1. CASE Finish(p)
    BY <1>0, <1>1, FinishHeld DEF Captures
  <1>2. CASE ~Finish(p)
    <2>1. /\ ~dirs[job[p].dir].hot
          /\ job' = [job EXCEPT ![p].step = "space", ![p].input = ProducerInput(job[p].dir)]
          /\ UNCHANGED lockVars /\ dirs' = dirs
      BY <1>2 DEF Captures, requireClosedSQLiteNamespace
    <2>2. PICK i : i = ProducerInput(job[p].dir)
      OBVIOUS
    <2>3. PICK j : j = [job[p] EXCEPT !.step = "space", !.input = i]
      OBVIOUS
    <2>4. IsJob(j) /\ j.step = "space" /\ j.input = i /\ j.cmd = job[p].cmd /\ j.dir = job[p].dir
      BY <1>0, <2>3 DEF IsJob, JobFields
    <2>5. job' = [job EXCEPT ![p] = j]
      BY <1>0, <2>1, <2>2, <2>3 DEF Shapes
    <2>6. UNCHANGED <<dirs, hostlock, runtime>> /\ SpaceShape'
      BY <1>0, <2>1, SpaceShapes DEF lockVars
    <2>7. ~dirs[job[p].dir].hot /\ j.step \notin WritingSteps
      BY <2>1, <2>4 DEF WritingSteps
    <2> QED
      BY <1>0, <2>2, <2>4, <2>5, <2>6, <2>7, JobCaptures
  <1> QED
    BY <1>1, <1>2

LEMMA CheckHeld ==
    ASSUME HoldInv, NEW p \in Proc, runtime' = runtime,
           CheckBackup(p) \/ CheckExport(p) \/ CheckPlan(p) \/ CheckDecision(p)
    PROVE  Held(p)
  <1>1. CASE CheckBackup(p)
    BY <1>1, CapturesHeld DEF CheckBackup, At
  <1>2. CASE CheckExport(p)
    BY <1>2, CapturesHeld DEF CheckExport, At
  <1>3. CASE CheckPlan(p)
    BY <1>3, CapturesHeld DEF CheckPlan, At
  <1>4. CASE CheckDecision(p)
    <2>0. Shapes /\ IsJob(job[p]) /\ job[p] # NoJob /\ dirs' = dirs
      BY <1>4, NotIdle DEF HoldInv, Shapes, CheckDecision, At
    <2>1. CASE Finish(p)
      BY <2>0, <2>1, FinishHeld
    <2>2. CASE ~Finish(p)
      <3>1. PICK k : /\ ~dirs[job[p].dir].hot
                     /\ job' = [job EXCEPT ![p].step = "space",
                                   ![p].input = ProducerInput(job[p].dir), ![p].from = k]
                     /\ UNCHANGED lockVars
        BY <1>4, <2>2 DEF CheckDecision, requireClosedSQLiteNamespace
      <3>2. PICK i : i = ProducerInput(job[p].dir)
        OBVIOUS
      <3>3. PICK j : j = [job[p] EXCEPT !.step = "space", !.input = i, !.from = k]
        OBVIOUS
      <3>4. IsJob(j) /\ j.step = "space" /\ j.input = i /\ j.cmd = job[p].cmd /\ j.dir = job[p].dir
        BY <2>0, <3>3 DEF IsJob, JobFields
      <3>5. job' = [job EXCEPT ![p] = j]
        BY <2>0, <3>1, <3>2, <3>3 DEF Shapes
      <3>6. UNCHANGED <<dirs, hostlock, runtime>> /\ SpaceShape'
        BY <2>0, <3>1, SpaceShapes DEF lockVars
      <3>7. ~dirs[job[p].dir].hot /\ j.step \notin WritingSteps
        BY <3>1, <3>4 DEF WritingSteps
      <3> QED
        BY <2>0, <3>2, <3>4, <3>5, <3>6, <3>7, JobCaptures
    <2> QED
      BY <2>1, <2>2
  <1> QED
    BY <1>1, <1>2, <1>3, <1>4

LEMMA DecideHeld ==
    ASSUME HoldInv, NEW p \in Proc, runtime' = runtime,
           \/ TakeNamespace(p) \/ DecideBackup(p) \/ DecideRestore(p) \/ DecidePlan(p)
           \/ DecideExport(p) \/ AuthenticatePublished(p) \/ Report(p) \/ Inspected(p)
    PROVE  Held(p)
  <1>0. /\ UNCHANGED lockVars => hostlock' = hostlock /\ SpaceShape'
        /\ \A name : AcquireExistingParent(p, name) => SpaceShape'
    BY SpaceShapes DEF HoldInv, lockVars
  <1>1. dirs' = dirs /\ job[p].step \notin {"none", "check"} /\ job[p] # NoJob
    <2>1. dirs' = dirs
      BY DEF TakeNamespace, DecideBackup, DecideRestore, DecidePlan, DecideExport,
             AuthenticatePublished, Report, Inspected
    <2>2. job[p].step \in {"space", "decide", "authenticate", "barrier", "inspect"}
      BY DEF TakeNamespace, DecideBackup, DecideRestore, DecidePlan, DecideExport,
             AuthenticatePublished, Report, Inspected, At
    <2> QED
      BY <2>1, <2>2, NotIdle
  <1>2. \/ Finish(p)
        \/ /\ hostlock' = hostlock /\ SpaceShape'
           /\ \/ \E s : Step(p, s) /\ s \notin WritingSteps
              \/ \E s, i : Turns(p, s, i) /\ s \notin WritingSteps
    <2>a. /\ \A i : Recovering(p, i) => Turns(p, "authenticate", i)
          /\ \A cmd, caller : Staged(p, cmd, caller) => Turns(p, "build", Len(pubs) + 1)
      BY DEF Recovering, Staged, Turns
    <2>b. \A s \in {"authenticate", "build", "unmark", "rename"} : s \notin WritingSteps
      BY DEF WritingSteps
    <2>1. CASE TakeNamespace(p)
      BY <1>0, <2>1 DEF TakeNamespace, WritingSteps
    <2>2. CASE DecideBackup(p)
      BY <1>0, <2>a, <2>b, <2>2 DEF DecideBackup
    <2>3. CASE DecideRestore(p)
      BY <1>0, <2>a, <2>b, <2>3 DEF DecideRestore, recoverPublishedRestore
    <2>4. CASE DecidePlan(p)
      BY <1>0, <2>a, <2>b, <2>4 DEF DecidePlan
    <2>5. CASE DecideExport(p)
      <3>1. \/ Finish(p)
            \/ UNCHANGED lockVars /\ \E i : Turns(p, "unmark", i) \/ Turns(p, "rename", i)
            \/ UNCHANGED lockVars /\ Staged(p, "export", FALSE)
        BY <2>5, Zenon DEF DecideExport, Turns
      <3> QED
        BY <1>0, <2>a, <2>b, <3>1
    <2>6. CASE AuthenticatePublished(p)
      BY <1>0, <2>6 DEF AuthenticatePublished, WritingSteps
    <2>7. CASE Report(p) \/ Inspected(p)
      BY <2>7 DEF Report, Inspected
    <2> QED
      BY <2>1, <2>2, <2>3, <2>4, <2>5, <2>6, <2>7
  <1> QED
    BY <1>1, <1>2, FinishHeld, StepHeld, TurnHeld

LEMMA PublishHeld ==
    ASSUME HoldInv, NEW p \in Proc, runtime' = runtime, PublishNoReplace(p) PROVE Held(p)
  <1>0. Shapes /\ PubShapes
    BY DEF HoldInv
  <1>1. Step(p, PublishSingleFile(Pub(p).target)) /\ job[p].step = "rename" /\ job[p] # NoJob
    BY NotIdle DEF PublishNoReplace
  <1>2. PICK j : /\ IsJob(j) /\ job' = [job EXCEPT ![p] = j]
                 /\ j.step = PublishSingleFile(Pub(p).target)
                 /\ j.cmd = job[p].cmd /\ j.dir = job[p].dir /\ j.input = job[p].input
                 /\ j.pub = job[p].pub /\ j.from = job[p].from
    BY <1>0, <1>1, StepMoves
  <1>3. j.step \notin WritingSteps
    BY <1>2 DEF PublishSingleFile, WritingSteps
  <1>4. hostlock' = hostlock /\ SpaceShape'
    BY <1>0, SpaceShapes DEF PublishNoReplace, lockVars
  <1>5. \/ dirs' = dirs
        \/ \E x : IsDir(x) /\ ~dirs["restored"].exists
                  /\ dirs' = [dirs EXCEPT !["restored"] = x]
    <2>1. CASE Pub(p).target = "restored"
      <3>1. PICK x : x = [exists |-> TRUE, head |-> Pub(p).head, main |-> Pub(p).head,
                         hot |-> FALSE, refs |-> Pub(p).head,
                         shared |-> pubs[job[p].from].head,
                         registered |-> Pub(p).registered, service |-> Pub(p).service]
        OBVIOUS
      <3>2. Pub(p).head \in Nat
        BY <1>0, <1>1 DEF PubShapes, Listed, JobPub, PubSteps, Pub, IsPub
      <3>3. IsDir(x)
        BY <3>1, <3>2 DEF IsDir, DirFields
      <3>4. ~dirs["restored"].exists
        BY <2>1 DEF PublishNoReplace, TargetExists, Dirs
      <3>5. dirs' = [dirs EXCEPT !["restored"] = x]
        BY <2>1, <3>1 DEF PublishNoReplace
      <3> QED
        BY <3>3, <3>4, <3>5
    <2>2. CASE Pub(p).target # "restored"
      BY <2>2 DEF PublishNoReplace
    <2> QED
      BY <2>1, <2>2
  <1> QED
    BY <1>1, <1>2, <1>3, <1>4, <1>5, JobPublishes

LEMMA FailsHeld ==
    ASSUME HoldInv, NEW p \in Proc, runtime' = runtime, JobFails(p) PROVE Held(p)
  <1>0. Shapes /\ JobFits(p) /\ job[p] # NoJob /\ Finish(p) /\ job[p].dir \in Dirs
    BY DEF HoldInv, JobFails, Idle, Shapes, IsJob
  <1>1. CASE job[p].step \in WritingSteps
    <2>1. dirs' = Flushed(job[p].dir)
      BY <1>1 DEF JobFails, WritingSteps
    <2>2. hostlock[job[p].dir] = p
      BY <1>0, <1>1 DEF JobFits, InPlaceCommands
    <2> QED
      BY <1>0, <2>1, <2>2, FlushedMoves, FinishHeld
  <1>2. CASE job[p].step \notin WritingSteps
    BY <1>0, <1>2, FinishHeld DEF JobFails, WritingSteps
  <1> QED
    BY <1>1, <1>2

\* Commands that open their directory, write to it and close it.
InPlaceStep(p) ==
    \/ openOfflineWritableStore(p) \/ withAdminRuntime(p) \/ CloseStore(p)
    \/ executeAdminIntegrityScan(p) \/ executeAdminRecoveryTerminalize(p)
    \/ runProjectionRebuild(p) \/ runMemoryPolicyActivateCurrent(p)
    \/ executeSessionPolicySelect(p) \/ ApplyReads(p) \/ executeErasureApply(p)
    \/ rebuildErasureProjections(p)

LEMMA InPlaceHeld ==
    ASSUME HoldInv, NEW p \in Proc, runtime' = runtime, InPlaceStep(p) PROVE Held(p)
  <1>0. Shapes /\ JobFits(p) /\ IsJob(job[p]) /\ job[p].dir \in Dirs
    BY DEF HoldInv, Shapes, IsJob
  <1> DEFINE d == job[p].dir
  <1>1. UNCHANGED lockVars => hostlock' = hostlock /\ SpaceShape'
    BY <1>0, SpaceShapes DEF lockVars
  <1>2. ASSUME job' = job, job[p].step \in WritingSteps, DirStep(d), dirs'[d].hot,
               UNCHANGED lockVars
        PROVE  Held(p)
    <2>1. job' = [job EXCEPT ![p] = job[p]]
      BY <1>0, <1>2 DEF Shapes
    <2>2. job[p].cmd \in InPlaceCommands /\ job[p] # NoJob
      BY <1>0, <1>2, NotIdle DEF JobFits, InPlaceCommands
    <2> QED
      BY <1>0, <1>1, <1>2, <2>1, <2>2, JobWrites
  <1>3. ASSUME NEW s \in WritingSteps, Step(p, s), job[p].cmd \in InPlaceCommands, DirStep(d),
               dirs'[d].hot, UNCHANGED lockVars
        PROVE  Held(p)
    <2>1. PICK j : /\ IsJob(j) /\ job' = [job EXCEPT ![p] = j] /\ j.step = s
                   /\ j.cmd = job[p].cmd /\ j.dir = job[p].dir /\ j.input = job[p].input
                   /\ j.pub = job[p].pub /\ j.from = job[p].from
      BY <1>0, <1>3, StepMoves
    <2>2. job[p] # NoJob
      BY <1>3, NotIdle DEF InPlaceCommands
    <2> QED
      BY <1>1, <1>3, <2>1, <2>2, JobWrites
  <1>4. ASSUME Finish(p), job[p].step \in WritingSteps, dirs' = dirs \/ DirStep(d)
        PROVE  Held(p)
    <2>1. hostlock[d] = p /\ job[p] # NoJob
      BY <1>0, <1>4, NotIdle DEF JobFits, InPlaceCommands, WritingSteps
    <2> QED
      BY <1>4, <2>1, FinishHeld
  <1>5. job[p].step \in WritingSteps => dirs[d].hot
    BY <1>0 DEF JobFits
  <1> HIDE DEF d
  <1>d. d \in Dirs /\ d = job[p].dir
    BY <1>0 DEF d
  <1>6. CASE openOfflineWritableStore(p)
    <2>1. dirs' = [dirs EXCEPT ![d].hot = TRUE]
      BY <1>6, <1>d DEF openOfflineWritableStore
    <2>2. DirStep(d) /\ dirs'[d].hot
      <3>1. PICK x : x = [dirs[d] EXCEPT !.hot = TRUE]
        OBVIOUS
      <3>0. IsDir(dirs[d])
        BY <1>0, <1>d DEF Shapes
      <3>2. IsDir(x) /\ x.exists = dirs[d].exists /\ x.hot
        BY <3>0, <3>1 DEF IsDir, DirFields
      <3>3. dirs' = [dirs EXCEPT ![d] = x]
        BY <2>1, <3>1
      <3> QED
        BY <1>0, <1>d, <3>2, <3>3, DirReplaced
    <2> QED
      BY <1>3, <1>6, <2>2 DEF openOfflineWritableStore, At, WritingSteps, InPlaceCommands
  <1>7. CASE withAdminRuntime(p)
    <2>1. DirStep(d) /\ dirs'[d].hot
      BY <1>0, <1>7, <1>d, OpenedMoves DEF withAdminRuntime
    <2> QED
      BY <1>3, <1>7, <2>1 DEF withAdminRuntime, At, WritingSteps, InPlaceCommands
  <1>8. CASE CloseStore(p)
    <2>1. DirStep(d)
      BY <1>0, <1>8, <1>d, FlushedMoves DEF CloseStore
    <2> QED
      BY <1>4, <1>8, <2>1 DEF CloseStore, At, WritingSteps
  <1>9. CASE executeAdminIntegrityScan(p) \/ executeAdminRecoveryTerminalize(p)
    <2>1. Commits(d) /\ job' = job /\ job[p].step \in WritingSteps /\ UNCHANGED lockVars
      BY <1>9, <1>d DEF executeAdminIntegrityScan, executeAdminRecoveryTerminalize, InPlace,
                        IntegrityRun, At, WritingSteps, lockVars
    <2>2. DirStep(d) /\ dirs'[d].hot
      BY <1>0, <1>5, <1>d, <2>1, CommitsMoves
    <2> QED
      BY <1>2, <2>1, <2>2
  <1>10. CASE runProjectionRebuild(p)
    <2>1. /\ dirs' = [dirs EXCEPT ![d].refs = dirs[d].head]
          /\ job' = job /\ job[p].step \in WritingSteps /\ UNCHANGED lockVars
      BY <1>10, <1>d DEF runProjectionRebuild, InPlace, At, WritingSteps, lockVars
    <2>2. DirStep(d) /\ dirs'[d].hot
      <3>1. PICK x : x = [dirs[d] EXCEPT !.refs = dirs[d].head]
        OBVIOUS
      <3>2. IsDir(x) /\ x.exists = dirs[d].exists /\ x.hot = dirs[d].hot
        BY <1>0, <1>d, <3>1 DEF Shapes, IsDir, DirFields
      <3>3. dirs' = [dirs EXCEPT ![d] = x]
        BY <2>1, <3>1
      <3> QED
        BY <1>0, <1>5, <1>d, <2>1, <3>2, <3>3, DirReplaced
    <2> QED
      BY <1>2, <2>1, <2>2
  <1>11. CASE runMemoryPolicyActivateCurrent(p)
    <2>1. /\ dirs' = [dirs EXCEPT ![d].service.policy = "v4", ![d].head = @ + 1]
          /\ job' = job /\ job[p].step \in WritingSteps /\ UNCHANGED lockVars
      BY <1>11, <1>d DEF runMemoryPolicyActivateCurrent, InPlace, At, WritingSteps, lockVars
    <2>2. DirStep(d) /\ dirs'[d].hot
      BY <1>0, <1>5, <1>d, <2>1, PolicyMoves
    <2> QED
      BY <1>2, <2>1, <2>2
  <1>12. CASE executeSessionPolicySelect(p)
    <2>1. /\ dirs' = [dirs EXCEPT ![d].service.configured = "s1"]
          /\ job' = job /\ job[p].step \in WritingSteps /\ UNCHANGED lockVars
      BY <1>12, <1>d DEF executeSessionPolicySelect, SelectSessionPolicy, InPlace, At,
                         WritingSteps, lockVars
    <2>2. DirStep(d) /\ dirs'[d].hot
      BY <1>0, <1>5, <1>d, <2>1, AsideMoves
    <2> QED
      BY <1>2, <2>1, <2>2
  <1>13. CASE ApplyReads(p)
    <2>0. job[p].step = "open" /\ job[p].cmd = "apply"
      BY <1>13 DEF ApplyReads, At
    <2>1. CASE Finish(p)
      <3>1. dirs' = dirs \/ dirs' = Flushed(d)
        BY <1>13, <1>d DEF ApplyReads
      <3>2. dirs' = dirs \/ DirStep(d)
        BY <1>0, <1>d, <3>1, FlushedMoves
      <3> QED
        BY <1>4, <2>0, <2>1, <3>2 DEF WritingSteps
    <2>2. CASE ~Finish(p)
      <3>1. PICK i : /\ job' = [job EXCEPT ![p].step = "apply", ![p].from = i]
                     /\ UNCHANGED <<dirs, lockVars>>
        BY <1>13, <2>2 DEF ApplyReads
      <3>2. PICK j : j = [job[p] EXCEPT !.step = "apply", !.from = i]
        OBVIOUS
      <3>3. IsJob(j) /\ j.step = "apply" /\ j.cmd = "apply" /\ j.dir = job[p].dir
        BY <1>0, <2>0, <3>2 DEF IsJob, JobFields
      <3>4. job' = [job EXCEPT ![p] = j]
        BY <1>0, <3>1, <3>2 DEF Shapes
      <3>5. dirs' = dirs /\ hostlock' = hostlock /\ SpaceShape'
        BY <1>1, <3>1
      <3>6. DirStep(j.dir) /\ dirs'[j.dir].hot
        BY <1>0, <1>5, <1>d, <2>0, <3>3, <3>5 DEF DirStep, Shapes, WritingSteps
      <3>7. job[p] # NoJob /\ j.cmd \in InPlaceCommands /\ j.step \in WritingSteps
        BY <2>0, <3>3, NotIdle DEF InPlaceCommands, WritingSteps
      <3> QED
        BY <2>0, <3>3, <3>4, <3>5, <3>6, <3>7, JobWrites
    <2> QED
      BY <2>1, <2>2
  <1>14. CASE executeErasureApply(p)
    <2>0. job[p].step \in WritingSteps /\ job[p].cmd \in InPlaceCommands
      BY <1>0, <1>14 DEF executeErasureApply, WritingSteps, JobFits
    <2>1. CASE Commits(d) /\ Step(p, "rebuilt") /\ UNCHANGED lockVars
      <3>1. DirStep(d) /\ dirs'[d].hot
        BY <1>0, <1>5, <1>d, <2>0, <2>1, CommitsMoves
      <3> QED
        BY <1>3, <2>0, <2>1, <3>1 DEF WritingSteps
    <2>2. CASE dirs' = Flushed(d) /\ Finish(p)
      BY <1>0, <1>4, <1>d, <2>0, <2>2, FlushedMoves
    <2> QED
      BY <1>14, <1>d, <2>1, <2>2 DEF executeErasureApply
  <1>15. CASE rebuildErasureProjections(p)
    <2>1. DirStep(d)
      BY <1>0, <1>15, <1>d, RebuiltMoves DEF rebuildErasureProjections
    <2> QED
      BY <1>4, <1>15, <2>1 DEF rebuildErasureProjections, WritingSteps
  <1> QED
    BY <1>6, <1>7, <1>8, <1>9, <1>10, <1>11, <1>12, <1>13, <1>14, <1>15 DEF InPlaceStep

LEMMA BeginHeld ==
    ASSUME HoldInv, NEW p \in Proc, runtime' = runtime, AllowCommand(p), BeginCommand(p)
    PROVE  Held(p)
  <1>0. Shapes /\ runtime[p].phase = "none"
    BY DEF HoldInv, AllowCommand, R
  <1>1. /\ space' = space => SpaceShape'
        /\ \A name : AcquireExistingParent(p, name) => SpaceShape'
    BY <1>0, SpaceShapes
  <1>2. IsJob(NoJob)
    BY DEF NoJob, IsJob, JobFields, Dirs
  <1>3. CASE BeginRestore(p)
    <2>1. PICK i : job' = [job EXCEPT ![p] = [NoJob EXCEPT !.cmd = "restore",
                       !.dir = "restored", !.step = "decide", !.input = BundleInput(i),
                       !.from = i]]
      BY <1>3 DEF BeginRestore
    <2>2. PICK b : b = BundleInput(i)
      OBVIOUS
    <2>3. PICK j : j = [NoJob EXCEPT !.cmd = "restore", !.dir = "restored", !.step = "decide",
                                     !.input = b, !.from = i]
      OBVIOUS
    <2>5. IsJob(j) /\ j.cmd = "restore" /\ j.dir = "restored" /\ j.step = "decide"
      BY <1>2, <2>3 DEF IsJob, JobFields, Dirs
    <2>6. job' = [job EXCEPT ![p] = j]
      BY <2>1, <2>2, <2>3
    <2>7. dirs' = dirs /\ hostlock' = hostlock /\ SpaceShape'
      BY <1>1, <1>3 DEF BeginRestore
    <2>8. j.step \notin WritingSteps /\ j.cmd \notin CapturingCommands
      BY <2>5 DEF WritingSteps, CapturingCommands
    <2> QED
      BY <1>0, <2>5, <2>6, <2>7, <2>8, JobBegins
  <1>4. ASSUME NEW d \in Dirs, Diagnose(p, d) PROVE Held(p)
    <2>1. PICK j : j = [NoJob EXCEPT !.cmd = "diagnose", !.dir = d, !.step = "inspect"]
      OBVIOUS
    <2>2. IsJob(j) /\ j.cmd = "diagnose" /\ j.dir = d /\ j.step = "inspect"
      BY <1>2, <2>1 DEF IsJob, JobFields
    <2>3. job' = [job EXCEPT ![p] = j]
      BY <1>4, <2>1 DEF Diagnose
    <2>4. dirs' = dirs /\ SpaceShape' /\ Acquire(p, d) /\ dirs[d].exists
      BY <1>1, <1>4 DEF Diagnose
    <2>5. j.step \notin WritingSteps /\ j.cmd \notin CapturingCommands
      BY <2>2 DEF WritingSteps, CapturingCommands
    <2> QED
      BY <1>0, <2>2, <2>3, <2>4, <2>5, JobBegins
  <1>5. ASSUME NEW d \in Dirs, NEW cmd, Begin(p, cmd, d) PROVE Held(p)
    <2>1. PICK j : j = [NoJob EXCEPT !.cmd = cmd, !.dir = d, !.step = "check"]
      OBVIOUS
    <2>2. IsJob(j) /\ j.cmd = cmd /\ j.dir = d /\ j.step = "check"
      BY <1>2, <2>1 DEF IsJob, JobFields
    <2>3. job' = [job EXCEPT ![p] = j]
      BY <1>5, <2>1 DEF Begin
    <2>4. dirs' = dirs /\ SpaceShape' /\ Acquire(p, d) /\ dirs[d].exists
      BY <1>1, <1>5 DEF Begin
    <2>5. j.step \notin WritingSteps
      BY <2>2 DEF WritingSteps
    <2> QED
      BY <1>0, <2>2, <2>3, <2>4, <2>5, JobBegins
  <1> QED
    BY <1>3, <1>4, <1>5 DEF BeginCommand

LEMMA CommandHeld ==
    ASSUME HoldInv, NEW p \in Proc, runtime' = runtime,
           (AllowCommand(p) /\ BeginCommand(p)) \/ CommandStep(p)
    PROVE  Held(p)
  <1>1. CASE CommandStep(p)
    BY <1>1, CheckHeld, DecideHeld, BuildHeld, PublishHeld, FailsHeld, InPlaceHeld
       DEF CommandStep, BuildStep, InPlaceStep
  <1> QED
    BY <1>1, BeginHeld

-----------------------------------------------------------------------------
(* The steps of a runtime.                                                 *)

LEMMA RunShape ==
    ASSUME Shapes, NEW p \in Proc, NEW r, IsRun(r), With(p, r)
    PROVE  /\ runtime' = [q \in Proc |-> runtime'[q]] /\ \A q \in Proc : IsRun(runtime'[q])
           /\ runtime'[p] = r /\ \A q \in Proc \ {p} : runtime'[q] = runtime[q]
  BY DEF Shapes, With

LEMMA RunMoves ==
    ASSUME HoldInv, NEW p \in Proc, NEW r, IsRun(r), With(p, r), r.dir = runtime[p].dir,
           runtime[p].phase # "none", r.phase \notin {"none", "opening"},
           \/ dirs' = dirs /\ runtime[p].phase # "opening"
           \/ DirStep(r.dir) /\ dirs'[r.dir].hot,
           r.phase = "starting" => StartupFits(r, r.step, dirs'[r.dir].head),
           UNCHANGED <<hostlock, job, space>>
    PROVE  Held(p)
  <1>1. Shapes /\ JobFits(p) /\ RunFits(p) /\ LockedExists
    BY DEF HoldInv
  <1>2. /\ runtime' = [q \in Proc |-> runtime'[q]] /\ \A q \in Proc : IsRun(runtime'[q])
        /\ runtime'[p] = r /\ \A q \in Proc \ {p} : runtime'[q] = runtime[q]
    BY <1>1, RunShape
  <1>3. r.dir \in Dirs /\ hostlock[r.dir] = p /\ job[p] = NoJob /\ dirs'[r.dir].hot
    BY <1>1 DEF RunFits, IsRun
  <1>4. /\ dirs' = [d \in Dirs |-> dirs'[d]] /\ \A d \in Dirs : IsDir(dirs'[d])
        /\ \A d \in Dirs : dirs[d].exists => dirs'[d].exists
        /\ \A d \in Dirs : hostlock[d] # p => dirs'[d] = dirs[d]
    BY <1>1, <1>3 DEF Shapes, DirStep
  <1>5. Shapes'
    BY <1>1, <1>2, <1>4 DEF Shapes
  <1>6. JobFits(p)'
    BY <1>3 DEF JobFits, NoJob, WritingSteps, CapturingCommands
  <1>7. RunFits(p)'
    BY <1>2, <1>3 DEF RunFits
  <1>8. Alone(p)
    BY <1>2, <1>4 DEF Alone
  <1>9. LockedExists'
    BY <1>1, <1>4 DEF LockedExists
  <1> QED
    BY <1>5, <1>6, <1>7, <1>8, <1>9 DEF Held

\* A step of the start-up sequence.
LEMMA PhaseHeld ==
    ASSUME HoldInv, NEW p \in Proc, NEW name, NEW x, NEW next, Phase(p, name, x, next),
           IsRun(x), x.dir = runtime[p].dir, x.phase \in {"starting", "serving"},
           dirs' = dirs \/ (DirStep(x.dir) /\ dirs'[x.dir].hot),
           x.phase = "starting" => StartupFits(x, next, dirs'[x.dir].head)
    PROVE  Held(p)
  <1>1. PICK r : r = [x EXCEPT !.step = next]
    OBVIOUS
  <1>2. /\ IsRun(r) /\ r.dir = x.dir /\ r.phase = x.phase /\ r.step = next
        /\ r.gate = x.gate /\ r.handlers = x.handlers /\ r.workers = x.workers
        /\ r.projection = x.projection /\ r.proven = x.proven /\ r.paused = x.paused
    BY <1>1 DEF IsRun, RunFields
  <1>3. With(p, r) /\ runtime[p].phase = "starting" /\ UNCHANGED <<hostlock, job, space>>
    BY <1>1 DEF Phase, R, Untouched, artifactVars
  <1>4. r.phase = "starting" => StartupFits(r, r.step, dirs'[r.dir].head)
    BY <1>2 DEF StartupFits
  <1> QED
    BY <1>2, <1>3, <1>4, RunMoves

\* What the runtime that starts up is known to have.
LEMMA Starting ==
    ASSUME HoldInv, NEW p \in Proc, NEW name, NEW x, NEW next, Phase(p, name, x, next)
    PROVE  /\ IsRun(runtime[p]) /\ runtime[p].phase = "starting" /\ runtime[p].step = name
           /\ StartupFits(runtime[p], name, dirs[runtime[p].dir].head)
           /\ runtime[p].dir \in Dirs /\ dirs[runtime[p].dir].hot
  BY DEF HoldInv, Shapes, RunFits, Phase, R, IsRun

LEMMA StartupHeld ==
    ASSUME HoldInv, NEW p \in Proc, StartupStep(p) PROVE Held(p)
  <1>0. Shapes
    BY DEF HoldInv
  <1>1. ASSUME NEW name, NEW next, next \notin BehindProjection, Phase(p, name, R(p), next),
               dirs' = dirs \/ Commits(R(p).dir)
        PROVE  Held(p)
    <2>1. /\ IsRun(runtime[p]) /\ runtime[p].phase = "starting"
          /\ StartupFits(runtime[p], name, dirs[runtime[p].dir].head)
          /\ runtime[p].dir \in Dirs /\ dirs[runtime[p].dir].hot
      BY <1>1, Starting
    <2>2. dirs' = dirs \/ (DirStep(runtime[p].dir) /\ dirs'[runtime[p].dir].hot)
      BY <1>0, <1>1, <2>1, CommitsMoves DEF R
    <2>3. StartupFits(runtime[p], next, dirs'[runtime[p].dir].head)
      BY <1>1, <2>1 DEF StartupFits, BehindProjection, BehindWorkers
    <2> QED
      BY <1>1, <2>1, <2>2, <2>3, PhaseHeld DEF R
  <1>2. CASE StartTTSGated(p)
    <2>1. PICK x : x = [runtime[p] EXCEPT !.speech = "started"]
      OBVIOUS
    <2>2. Phase(p, "StartTTSGated", x, "PreflightMandatory") /\ dirs' = dirs
      BY <1>2, <2>1 DEF StartTTSGated, R
    <2>3. /\ IsRun(runtime[p]) /\ runtime[p].phase = "starting"
          /\ StartupFits(runtime[p], "StartTTSGated", dirs[runtime[p].dir].head)
      BY <2>2, Starting
    <2>4. /\ IsRun(x) /\ x.dir = runtime[p].dir /\ x.phase = "starting"
          /\ x.gate = runtime[p].gate /\ x.handlers = runtime[p].handlers
          /\ x.workers = runtime[p].workers
      BY <2>1, <2>3 DEF IsRun, RunFields
    <2>5. StartupFits(x, "PreflightMandatory", dirs'[x.dir].head)
      BY <2>3, <2>4 DEF StartupFits, BehindProjection, BehindWorkers
    <2> QED
      BY <2>2, <2>4, <2>5, PhaseHeld
  <1>3. CASE PreflightMandatory(p)
    BY <1>1, <1>3 DEF PreflightMandatory, BehindProjection
  <1>4. CASE TerminalizeRunning(p)
    BY <1>1, <1>4 DEF TerminalizeRunning, Recovers, BehindProjection
  <1>5. CASE ScanIntegrity(p)
    BY <1>1, <1>5 DEF ScanIntegrity, Scans, IntegrityRun, BehindProjection
  <1>6. CASE TerminalizeMandatory(p)
    BY <1>1, <1>6 DEF TerminalizeMandatory, Recovers, BehindProjection
  <1>7. CASE Rescan(p)
    BY <1>1, <1>7 DEF Rescan, Scans, IntegrityRun, BehindProjection
  <1>8. CASE PreflightEligibility(p)
    <2>0. PICK v : v = Service(p).session
      OBVIOUS
    <2>1. PICK x : x = [runtime[p] EXCEPT !.proven.session = v]
      OBVIOUS
    <2>2. Phase(p, "PreflightEligibility", x, "PauseAdmissions") /\ dirs' = dirs
      BY <1>8, <2>0, <2>1 DEF PreflightEligibility, R
    <2>3. /\ IsRun(runtime[p]) /\ runtime[p].phase = "starting"
          /\ StartupFits(runtime[p], "PreflightEligibility", dirs[runtime[p].dir].head)
      BY <2>2, Starting
    <2>4. /\ IsRun(x) /\ x.dir = runtime[p].dir /\ x.phase = "starting"
          /\ x.gate = runtime[p].gate /\ x.handlers = runtime[p].handlers
          /\ x.workers = runtime[p].workers
      BY <2>1, <2>3 DEF IsRun, RunFields
    <2>5. StartupFits(x, "PauseAdmissions", dirs'[x.dir].head)
      BY <2>3, <2>4 DEF StartupFits, BehindProjection, BehindWorkers
    <2> QED
      BY <2>2, <2>4, <2>5, PhaseHeld
  <1>9. CASE PauseAdmissions(p)
    <2>1. PICK x : x = [runtime[p] EXCEPT !.paused = TRUE]
      OBVIOUS
    <2>2. Phase(p, "PauseAdmissions", x, "PreflightContentRefs") /\ dirs' = dirs
      BY <1>9, <2>1 DEF PauseAdmissions, R
    <2>3. /\ IsRun(runtime[p]) /\ runtime[p].phase = "starting"
          /\ StartupFits(runtime[p], "PauseAdmissions", dirs[runtime[p].dir].head)
      BY <2>2, Starting
    <2>4. /\ IsRun(x) /\ x.dir = runtime[p].dir /\ x.phase = "starting"
          /\ x.gate = runtime[p].gate /\ x.handlers = runtime[p].handlers
          /\ x.workers = runtime[p].workers
      BY <2>1, <2>3 DEF IsRun, RunFields
    <2>5. StartupFits(x, "PreflightContentRefs", dirs'[x.dir].head)
      BY <2>3, <2>4 DEF StartupFits, BehindProjection, BehindWorkers
    <2> QED
      BY <2>2, <2>4, <2>5, PhaseHeld
  <1>10. CASE PreflightContentRefs(p)
    <2>1. Phase(p, "PreflightContentRefs", runtime[p], "PreflightProjection")
      BY <1>10 DEF PreflightContentRefs, R
    <2>2. /\ IsRun(runtime[p]) /\ runtime[p].phase = "starting"
          /\ StartupFits(runtime[p], "PreflightContentRefs", dirs[runtime[p].dir].head)
          /\ runtime[p].dir \in Dirs /\ dirs[runtime[p].dir].hot
      BY <2>1, Starting
    <2>3. PICK v : v = dirs[runtime[p].dir].head
      OBVIOUS
    <2>4. dirs' = [dirs EXCEPT ![runtime[p].dir].refs = v]
      BY <1>10, <2>3 DEF PreflightContentRefs, R
    <2>5. DirStep(runtime[p].dir) /\ dirs'[runtime[p].dir].hot
      BY <1>0, <2>2, <2>4, AsideMoves
    <2>6. StartupFits(runtime[p], "PreflightProjection", dirs'[runtime[p].dir].head)
      BY <2>2 DEF StartupFits, BehindProjection, BehindWorkers
    <2> QED
      BY <2>1, <2>2, <2>5, <2>6, PhaseHeld
  <1>11. CASE PreflightProjection(p)
    <2>0. PICK v : v = dirs[runtime[p].dir].head
      OBVIOUS
    <2>1. PICK x : x = [runtime[p] EXCEPT !.proven.head = v]
      OBVIOUS
    <2>2. Phase(p, "PreflightProjection", x, "EvaluateFinalReadiness") /\ dirs' = dirs
      BY <1>11, <2>0, <2>1 DEF PreflightProjection, R
    <2>3. /\ IsRun(runtime[p]) /\ runtime[p].phase = "starting"
          /\ StartupFits(runtime[p], "PreflightProjection", dirs[runtime[p].dir].head)
      BY <2>2, Starting
    <2>4. /\ IsRun(x) /\ x.dir = runtime[p].dir /\ x.phase = "starting"
          /\ x.gate = runtime[p].gate /\ x.handlers = runtime[p].handlers
          /\ x.workers = runtime[p].workers
      BY <2>1, <2>3 DEF IsRun, RunFields
    <2>5. StartupFits(x, "EvaluateFinalReadiness", dirs'[x.dir].head)
      BY <2>3, <2>4 DEF StartupFits, BehindProjection, BehindWorkers
    <2> QED
      BY <2>2, <2>4, <2>5, PhaseHeld
  <1>12. CASE EvaluateFinalReadiness(p)
    BY <1>1, <1>12 DEF EvaluateFinalReadiness, BehindProjection
  <1>13. CASE BindHTTP(p)
    BY <1>1, <1>13 DEF BindHTTP, BehindProjection
  <1>14. CASE StartProjection(p)
    <2>1. PICK x : x = [runtime[p] EXCEPT !.projection = "running"]
      OBVIOUS
    <2>2. Phase(p, "StartProjection", x, "WaitProjectionReady") /\ dirs' = dirs
      BY <1>14, <2>1 DEF StartProjection, R
    <2>3. /\ IsRun(runtime[p]) /\ runtime[p].phase = "starting"
          /\ StartupFits(runtime[p], "StartProjection", dirs[runtime[p].dir].head)
      BY <2>2, Starting
    <2>4. /\ IsRun(x) /\ x.dir = runtime[p].dir /\ x.phase = "starting"
          /\ x.gate = runtime[p].gate /\ x.handlers = runtime[p].handlers
          /\ x.workers = runtime[p].workers /\ x.projection = "running"
      BY <2>1, <2>3 DEF IsRun, RunFields
    <2>5. StartupFits(x, "WaitProjectionReady", dirs'[x.dir].head)
      BY <2>3, <2>4 DEF StartupFits, BehindProjection, BehindWorkers
    <2> QED
      BY <2>2, <2>4, <2>5, PhaseHeld
  <1>15. ASSUME NEW name \in BehindProjection, NEW next, Phase(p, name, R(p), next), dirs' = dirs,
                \/ next = "StartWorkersGated"
                \/ name = "StartHTTPGated" /\ next = "RequireCanonicalHead"
                \/ /\ name = "RequireCanonicalHead" /\ next = "ResumeAdmissions"
                   /\ dirs[R(p).dir].head = R(p).proven.head
         PROVE  Held(p)
    <2>1. /\ IsRun(runtime[p]) /\ runtime[p].phase = "starting"
          /\ StartupFits(runtime[p], name, dirs[runtime[p].dir].head)
      BY <1>15, Starting
    <2>2. StartupFits(runtime[p], next, dirs'[runtime[p].dir].head)
      BY <1>15, <2>1 DEF StartupFits, BehindProjection, BehindWorkers, R
    <2> QED
      BY <1>15, <2>1, <2>2, PhaseHeld DEF R
  <1>16. CASE WaitProjectionReady(p)
    BY <1>15, <1>16 DEF WaitProjectionReady, BehindProjection
  <1>17. CASE StartWorkersGated(p)
    <2>1. PICK x : x = [runtime[p] EXCEPT !.workers = "gated"]
      OBVIOUS
    <2>2. Phase(p, "StartWorkersGated", x, "StartHTTPGated") /\ dirs' = dirs
      BY <1>17, <2>1 DEF StartWorkersGated, R
    <2>3. /\ IsRun(runtime[p]) /\ runtime[p].phase = "starting"
          /\ StartupFits(runtime[p], "StartWorkersGated", dirs[runtime[p].dir].head)
      BY <2>2, Starting
    <2>4. /\ IsRun(x) /\ x.dir = runtime[p].dir /\ x.phase = "starting"
          /\ x.gate = runtime[p].gate /\ x.handlers = runtime[p].handlers
          /\ x.workers = "gated" /\ x.projection = runtime[p].projection
      BY <2>1, <2>3 DEF IsRun, RunFields
    <2>5. StartupFits(x, "StartHTTPGated", dirs'[x.dir].head)
      BY <2>3, <2>4 DEF StartupFits, BehindProjection, BehindWorkers
    <2> QED
      BY <2>2, <2>4, <2>5, PhaseHeld
  <1>18. CASE StartHTTPGated(p)
    BY <1>15, <1>18 DEF StartHTTPGated, BehindProjection
  <1>19. CASE RequireCanonicalHead(p)
    BY <1>15, <1>19 DEF RequireCanonicalHead, BehindProjection
  <1>20. CASE ResumeAdmissions(p)
    <2>1. PICK x : x = [runtime[p] EXCEPT !.paused = FALSE]
      OBVIOUS
    <2>2. Phase(p, "ResumeAdmissions", x, "OpenGate") /\ dirs' = dirs
      BY <1>20, <2>1 DEF ResumeAdmissions, R
    <2>3. /\ IsRun(runtime[p]) /\ runtime[p].phase = "starting"
          /\ StartupFits(runtime[p], "ResumeAdmissions", dirs[runtime[p].dir].head)
      BY <2>2, Starting
    <2>4. /\ IsRun(x) /\ x.dir = runtime[p].dir /\ x.phase = "starting"
          /\ x.gate = runtime[p].gate /\ x.handlers = runtime[p].handlers
          /\ x.workers = runtime[p].workers /\ x.projection = runtime[p].projection
          /\ x.proven = runtime[p].proven /\ ~x.paused
      BY <2>1, <2>3 DEF IsRun, RunFields
    <2>5. StartupFits(x, "OpenGate", dirs'[x.dir].head)
      BY <2>2, <2>3, <2>4 DEF StartupFits, BehindProjection, BehindWorkers
    <2> QED
      BY <2>2, <2>4, <2>5, PhaseHeld
  <1>21. CASE OpenGate(p)
    <2>1. PICK x : x = [runtime[p] EXCEPT !.gate = "open", !.phase = "serving"]
      OBVIOUS
    <2>2. Phase(p, "OpenGate", x, "done") /\ dirs' = dirs
      BY <1>21, <2>1 DEF OpenGate, R
    <2>3. IsRun(runtime[p])
      BY <2>2, Starting
    <2>4. IsRun(x) /\ x.dir = runtime[p].dir /\ x.phase = "serving"
      BY <2>1, <2>3 DEF IsRun, RunFields
    <2> QED
      BY <2>2, <2>4, PhaseHeld
  <1> QED
    BY <1>2, <1>3, <1>4, <1>5, <1>6, <1>7, <1>8, <1>9, <1>10, <1>11, <1>12, <1>13, <1>14,
       <1>16, <1>17, <1>18, <1>19, <1>20, <1>21 DEF StartupStep

\* Steps of a runtime that is open, and of nothing else.
LEMMA ServingHeld ==
    ASSUME HoldInv, NEW p \in Proc,
           \/ FailGate(p) \/ WorkersPassGate(p) \/ WorkersExit(p) \/ RequestArrives(p)
           \/ RequestEnds(p) \/ Stop(p) \/ BeginShutdown(p) \/ Drained(p) \/ DrainTimesOut(p)
           \/ SpeechExits(p) \/ SpeechWaitTimesOut(p) \/ closeRuntimeAfterHTTPDrain(p)
           \/ CloseTimesOut(p) \/ CloseProjections(p)
    PROVE  Held(p)
  <1>0. IsRun(runtime[p]) /\ RunFits(p)
    BY DEF HoldInv, Shapes
  <1>1. UNCHANGED <<dirs, hostlock, job, space>>
    BY DEF FailGate, WorkersPassGate, WorkersExit, RequestArrives, RequestEnds, Stop,
           BeginShutdown, Drained, DrainTimesOut, SpeechExits, SpeechWaitTimesOut,
           closeRuntimeAfterHTTPDrain, CloseTimesOut, CloseProjections, Keep, Stays, Untouched,
           artifactVars
  <1>2. ASSUME NEW r, With(p, r), IsRun(r), r.dir = runtime[p].dir,
               runtime[p].phase \notin {"none", "opening"},
               r.phase \in {"serving", "draining", "closing", "kept"}
        PROVE  Held(p)
    BY <1>1, <1>2, RunMoves
  <1>3. ASSUME NEW r, With(p, r), IsRun(r), r.dir = runtime[p].dir,
               runtime[p].phase \notin {"none", "opening"}, r.phase = runtime[p].phase,
               \/ r.phase # "starting"
               \/ /\ r.gate = runtime[p].gate /\ r.handlers = runtime[p].handlers
                  /\ r.workers = runtime[p].workers /\ r.projection = runtime[p].projection
                  /\ r.proven = runtime[p].proven /\ r.paused = runtime[p].paused
                  /\ r.step = runtime[p].step
        PROVE  Held(p)
    <2>1. r.phase = "starting" => StartupFits(r, r.step, dirs'[r.dir].head)
      BY <1>0, <1>1, <1>3 DEF RunFits, StartupFits
    <2> QED
      BY <1>1, <1>3, <2>1, RunMoves
  <1>4. CASE FailGate(p)
    <2>1. PICK v : v = IF runtime[p].speech = "started" THEN "stopping" ELSE runtime[p].speech
      OBVIOUS
    <2>2. PICK r : r = [runtime[p] EXCEPT !.gate = "failed", !.phase = "closing", !.speech = v]
      OBVIOUS
    <2>3. With(p, r) /\ runtime[p].phase = "starting"
      BY <1>0, <1>4, <2>1, <2>2 DEF FailGate, R, IsRun, RunFields
    <2>4. IsRun(r) /\ r.dir = runtime[p].dir /\ r.phase = "closing"
      BY <1>0, <2>2 DEF IsRun, RunFields
    <2> QED
      BY <1>2, <2>3, <2>4
  <1>5. CASE WorkersPassGate(p)
    <2>1. PICK r : r = [runtime[p] EXCEPT !.workers = "active"]
      OBVIOUS
    <2>2. With(p, r) /\ runtime[p].workers = "gated" /\ runtime[p].gate = "open"
      BY <1>5, <2>1 DEF WorkersPassGate, R
    <2>3. runtime[p].phase \notin {"none", "opening", "starting"}
      BY <1>0, <2>2 DEF RunFits, StartupFits
    <2>4. IsRun(r) /\ r.dir = runtime[p].dir /\ r.phase = runtime[p].phase
      BY <1>0, <2>1 DEF IsRun, RunFields
    <2> QED
      BY <1>3, <2>2, <2>3, <2>4
  <1>6. CASE WorkersExit(p)
    <2>1. PICK r : r = [runtime[p] EXCEPT !.workers = "exited"]
      OBVIOUS
    <2>2. /\ With(p, r) /\ runtime[p].workers \in {"gated", "active"}
          /\ runtime[p].gate = "failed" \/ runtime[p].phase \in {"draining", "closing", "kept"}
      BY <1>6, <2>1 DEF WorkersExit, R
    <2>3. runtime[p].phase \notin {"none", "opening", "starting"}
      BY <1>0, <2>2 DEF RunFits, StartupFits
    <2>4. IsRun(r) /\ r.dir = runtime[p].dir /\ r.phase = runtime[p].phase
      BY <1>0, <2>1 DEF IsRun, RunFields
    <2> QED
      BY <1>3, <2>2, <2>3, <2>4
  <1>7. CASE RequestArrives(p)
    <2>1. PICK r : r = [runtime[p] EXCEPT !.handlers = "active"]
      OBVIOUS
    <2>2. With(p, r) /\ runtime[p].phase = "serving"
      BY <1>7, <2>1 DEF RequestArrives, R
    <2>3. IsRun(r) /\ r.dir = runtime[p].dir /\ r.phase = runtime[p].phase
      BY <1>0, <2>1 DEF IsRun, RunFields
    <2> QED
      BY <1>3, <2>2, <2>3
  <1>8. CASE RequestEnds(p)
    <2>1. PICK r : r = [runtime[p] EXCEPT !.handlers = "none"]
      OBVIOUS
    <2>2. With(p, r) /\ runtime[p].handlers = "active"
      BY <1>8, <2>1 DEF RequestEnds, R
    <2>3. runtime[p].phase \notin {"none", "opening", "starting"}
      BY <1>0, <2>2 DEF RunFits, StartupFits
    <2>4. IsRun(r) /\ r.dir = runtime[p].dir /\ r.phase = runtime[p].phase
      BY <1>0, <2>1 DEF IsRun, RunFields
    <2> QED
      BY <1>3, <2>2, <2>3, <2>4
  <1>9. CASE Stop(p)
    <2>1. PICK r : r = [runtime[p] EXCEPT !.cancelled = TRUE]
      OBVIOUS
    <2>2. With(p, r) /\ runtime[p].phase \in {"starting", "serving"}
      BY <1>9, <2>1 DEF Stop, R
    <2>3. /\ IsRun(r) /\ r.dir = runtime[p].dir /\ r.phase = runtime[p].phase
          /\ r.gate = runtime[p].gate /\ r.handlers = runtime[p].handlers
          /\ r.workers = runtime[p].workers /\ r.projection = runtime[p].projection
          /\ r.proven = runtime[p].proven /\ r.paused = runtime[p].paused
          /\ r.step = runtime[p].step
      BY <1>0, <2>1 DEF IsRun, RunFields
    <2> QED
      BY <1>3, <2>2, <2>3
  <1>10. CASE BeginShutdown(p)
    <2>1. PICK v : v = IF runtime[p].speech = "started" THEN "stopping" ELSE runtime[p].speech
      OBVIOUS
    <2>2. PICK r : r = [runtime[p] EXCEPT !.phase = "draining", !.speech = v]
      OBVIOUS
    <2>3. With(p, r) /\ runtime[p].phase = "serving"
      BY <1>0, <1>10, <2>1, <2>2 DEF BeginShutdown, R, IsRun, RunFields
    <2>4. IsRun(r) /\ r.dir = runtime[p].dir /\ r.phase = "draining"
      BY <1>0, <2>2 DEF IsRun, RunFields
    <2> QED
      BY <1>2, <2>3, <2>4
  <1>11. CASE Drained(p)
    <2>1. PICK r : r = [runtime[p] EXCEPT !.phase = "closing"]
      OBVIOUS
    <2>2. With(p, r) /\ runtime[p].phase = "draining"
      BY <1>11, <2>1 DEF Drained, R
    <2>3. IsRun(r) /\ r.dir = runtime[p].dir /\ r.phase = "closing"
      BY <1>0, <2>1 DEF IsRun, RunFields
    <2> QED
      BY <1>2, <2>2, <2>3
  <1>12. CASE DrainTimesOut(p)
    <2>1. PICK r : r = [runtime[p] EXCEPT !.phase = "closing", !.drained = FALSE]
      OBVIOUS
    <2>2. With(p, r) /\ runtime[p].phase = "draining"
      BY <1>12, <2>1 DEF DrainTimesOut, R
    <2>3. IsRun(r) /\ r.dir = runtime[p].dir /\ r.phase = "closing"
      BY <1>0, <2>1 DEF IsRun, RunFields
    <2> QED
      BY <1>2, <2>2, <2>3
  <1>13. CASE SpeechExits(p)
    <2>1. PICK r : r = [runtime[p] EXCEPT !.speech = "exited"]
      OBVIOUS
    <2>2. With(p, r) /\ runtime[p].speech = "stopping"
      BY <1>13, <2>1 DEF SpeechExits, R
    <2>3. /\ IsRun(r) /\ r.dir = runtime[p].dir /\ r.phase = runtime[p].phase
          /\ r.gate = runtime[p].gate /\ r.handlers = runtime[p].handlers
          /\ r.workers = runtime[p].workers /\ r.projection = runtime[p].projection
          /\ r.proven = runtime[p].proven /\ r.paused = runtime[p].paused
          /\ r.step = runtime[p].step
      BY <1>0, <2>1 DEF IsRun, RunFields
    <2>4. runtime[p].phase \notin {"none", "opening"}
      BY <1>0, <2>2 DEF RunFits
    <2> QED
      BY <1>3, <2>2, <2>3, <2>4
  <1>14. CASE SpeechWaitTimesOut(p)
    <2>1. PICK r : r = [runtime[p] EXCEPT !.speech = "abandoned", !.restart = TRUE]
      OBVIOUS
    <2>2. With(p, r) /\ runtime[p].phase = "closing"
      BY <1>14, <2>1 DEF SpeechWaitTimesOut, R
    <2>3. IsRun(r) /\ r.dir = runtime[p].dir /\ r.phase = "closing"
      BY <1>0, <2>1, <2>2 DEF IsRun, RunFields
    <2> QED
      BY <1>2, <2>2, <2>3
  <1>15. CASE closeRuntimeAfterHTTPDrain(p) \/ CloseTimesOut(p)
    <2>1. PICK r : r = [runtime[p] EXCEPT !.phase = "kept", !.restart = TRUE]
      OBVIOUS
    <2>2. With(p, r) /\ runtime[p].phase = "closing"
      BY <1>15, <2>1 DEF closeRuntimeAfterHTTPDrain, CloseTimesOut, Keep, Silent, Waited, R
    <2>3. IsRun(r) /\ r.dir = runtime[p].dir /\ r.phase = "kept"
      BY <1>0, <2>1 DEF IsRun, RunFields
    <2> QED
      BY <1>2, <2>2, <2>3
  <1>16. CASE CloseProjections(p)
    <2>1. PICK r : r = [runtime[p] EXCEPT !.projection = "stopped"]
      OBVIOUS
    <2>2. With(p, r) /\ runtime[p].phase = "closing"
      BY <1>16, <2>1 DEF CloseProjections, Silent, Waited, R
    <2>3. IsRun(r) /\ r.dir = runtime[p].dir /\ r.phase = "closing"
      BY <1>0, <2>1, <2>2 DEF IsRun, RunFields
    <2> QED
      BY <1>2, <2>2, <2>3
  <1> QED
    BY <1>4, <1>5, <1>6, <1>7, <1>8, <1>9, <1>10, <1>11, <1>12, <1>13, <1>14, <1>15, <1>16

\* A runtime writes to its directory.
LEMMA RuntimeWrites ==
    ASSUME HoldInv, NEW p \in Proc, UNCHANGED <<runtime, hostlock, job, space>>,
           \/ ProjectionCatchesUp(p)
           \/ Commits(R(p).dir) /\ R(p).workers = "active"
           \/ Commits(R(p).dir) /\ R(p).handlers = "active"
    PROVE  Held(p)
  <1>0. Shapes /\ IsRun(runtime[p]) /\ RunFits(p) /\ runtime[p].dir \in Dirs
    BY DEF HoldInv, Shapes, IsRun
  <1>1. With(p, runtime[p])
    BY <1>0 DEF With, Shapes
  <1>2. runtime[p].phase \notin {"none", "opening"} /\ dirs[runtime[p].dir].hot
    BY <1>0 DEF RunFits, ProjectionCatchesUp, R
  <1>3. CASE ProjectionCatchesUp(p)
    <2>1. PICK v : v = dirs[runtime[p].dir].head
      OBVIOUS
    <2>2. dirs' = [dirs EXCEPT ![runtime[p].dir].refs = v]
      BY <1>3, <2>1 DEF ProjectionCatchesUp, R
    <2>3. /\ DirStep(runtime[p].dir) /\ dirs'[runtime[p].dir].hot
          /\ dirs'[runtime[p].dir].head = dirs[runtime[p].dir].head
      BY <1>0, <1>2, <2>2, AsideMoves
    <2>4. runtime[p].phase = "starting" =>
            StartupFits(runtime[p], runtime[p].step, dirs'[runtime[p].dir].head)
      BY <1>0, <2>3 DEF RunFits
    <2> QED
      BY <1>0, <1>1, <1>2, <2>3, <2>4, RunMoves
  <1>4. CASE ~ProjectionCatchesUp(p)
    <2>1. runtime[p].phase # "starting"
      BY <1>0, <1>4 DEF RunFits, StartupFits, R
    <2>2. DirStep(runtime[p].dir) /\ dirs'[runtime[p].dir].hot
      BY <1>0, <1>2, <1>4, CommitsMoves DEF R
    <2> QED
      BY <1>0, <1>1, <1>2, <2>1, <2>2, RunMoves
  <1> QED
    BY <1>3, <1>4

LEMMA StartHeld ==
    ASSUME HoldInv, NEW p \in Proc, NEW d \in Dirs, Start(p, d) PROVE Held(p)
  <1>0. Shapes /\ LockedExists /\ job[p] = NoJob /\ job' = job /\ space' = space
    BY DEF HoldInv, Start, Idle
  <1>1. PICK r : r = [NoRuntime EXCEPT !.phase = "opening", !.dir = d]
    OBVIOUS
  <1>2. IsRun(NoRuntime)
    BY DEF IsRun, RunFields, NoRuntime, NoProof, Dirs
  <1>3. /\ IsRun(r) /\ r.phase = "opening" /\ r.dir = d /\ ~r.store /\ r.projection = "none"
        /\ r.gate = "closed" /\ r.speech = "none" /\ r.workers = "none" /\ r.handlers = "none"
    <2>1. /\ r.store = NoRuntime.store /\ r.projection = NoRuntime.projection
          /\ r.gate = NoRuntime.gate /\ r.speech = NoRuntime.speech
          /\ r.workers = NoRuntime.workers /\ r.handlers = NoRuntime.handlers
          /\ IsRun(r) /\ r.phase = "opening" /\ r.dir = d
      BY <1>1, <1>2 DEF IsRun, RunFields
    <2> QED
      BY <2>1 DEF NoRuntime
  <1>4. With(p, r)
    BY <1>1 DEF Start
  <1>5. /\ runtime' = [q \in Proc |-> runtime'[q]] /\ \A q \in Proc : IsRun(runtime'[q])
        /\ runtime'[p] = r /\ \A q \in Proc \ {p} : runtime'[q] = runtime[q]
    BY <1>0, <1>3, <1>4, RunShape
  <1>6. DirStep(d) /\ dirs'[d].exists
    <2>1. CASE dirs[d].exists
      BY <1>0, <2>1 DEF Start, DirStep, Shapes
    <2>2. CASE ~dirs[d].exists
      <3>1. PICK x : x = [dirs[d] EXCEPT !.exists = TRUE]
        OBVIOUS
      <3>2. IsDir(dirs[d])
        BY <1>0 DEF Shapes
      <3>3. IsDir(x) /\ x.exists
        BY <3>1, <3>2 DEF IsDir, DirFields
      <3>4. dirs' = [dirs EXCEPT ![d] = x]
        BY <2>2, <3>1 DEF Start
      <3> QED
        BY <1>0, <3>3, <3>4, DirReplaced
    <2> QED
      BY <2>1, <2>2
  <1>7. /\ hostlock' = [e \in Dirs |-> hostlock'[e]] /\ hostlock'[d] = p /\ hostlock[d] = Free
        /\ \A e \in Dirs \ {d} : hostlock'[e] = hostlock[e]
    BY <1>0 DEF Start, Acquire, Shapes
  <1>8. Shapes'
    <2>1. dirs' = [e \in Dirs |-> dirs'[e]] /\ \A e \in Dirs : IsDir(dirs'[e])
      BY <1>0, <1>6 DEF DirStep, Shapes
    <2> QED
      BY <1>0, <1>5, <1>7, <2>1 DEF Shapes
  <1>9. JobFits(p)'
    BY <1>0 DEF JobFits, NoJob, WritingSteps, CapturingCommands
  <1>10. RunFits(p)'
    BY <1>0, <1>3, <1>5, <1>7 DEF RunFits
  <1>11. Alone(p)
    BY <1>0, <1>5, <1>6, <1>7 DEF Alone, DirStep
  <1>12. LockedExists'
    BY <1>0, <1>6, <1>7 DEF LockedExists, DirStep
  <1> QED
    BY <1>8, <1>9, <1>10, <1>11, <1>12 DEF Held

LEMMA OpenHeld ==
    ASSUME HoldInv, NEW p \in Proc, openRuntime(p) PROVE Held(p)
  <1>0. Shapes /\ IsRun(runtime[p]) /\ RunFits(p) /\ runtime[p].dir \in Dirs
    BY DEF HoldInv, Shapes, IsRun
  <1>1. PICK r : r = [runtime[p] EXCEPT !.phase = "starting", !.step = "StartTTSGated",
                                        !.store = TRUE]
    OBVIOUS
  <1>2. /\ IsRun(r) /\ r.dir = runtime[p].dir /\ r.phase = "starting" /\ r.step = "StartTTSGated"
        /\ r.gate = runtime[p].gate /\ r.handlers = runtime[p].handlers
        /\ r.workers = runtime[p].workers
    BY <1>0, <1>1 DEF IsRun, RunFields
  <1>3. With(p, r) /\ runtime[p].phase = "opening" /\ UNCHANGED <<hostlock, job, space>>
    BY <1>1 DEF openRuntime, R, artifactVars, lockVars
  <1>4. DirStep(r.dir) /\ dirs'[r.dir].hot
    BY <1>0, <1>2, OpenedMoves DEF openRuntime, R
  <1>5. StartupFits(r, r.step, dirs'[r.dir].head)
    BY <1>0, <1>2, <1>3 DEF RunFits, StartupFits, BehindProjection, BehindWorkers
  <1> QED
    BY <1>2, <1>3, <1>4, <1>5, RunMoves

\* A runtime ends, in order or with its process: its locks are free.
LEMMA RuntimeEnds ==
    ASSUME HoldInv, NEW p \in Proc, NEW b,
           With(p, [NoRuntime EXCEPT !.restart = b]) \/ With(p, NoRuntime),
           hostlock' = Unlocked(hostlock, p), SpaceShape',
           job' = [job EXCEPT ![p] = NoJob],
           dirs' = dirs \/ (hostlock[runtime[p].dir] = p /\ DirStep(runtime[p].dir))
    PROVE  Held(p)
  <1>0. Shapes /\ LockedExists /\ runtime[p].dir \in Dirs
    BY DEF HoldInv, Shapes, IsRun
  <1>1. IsRun(NoRuntime)
    BY DEF IsRun, RunFields, NoRuntime, NoProof, Dirs
  <1>2. PICK r : With(p, r) /\ (r = [NoRuntime EXCEPT !.restart = b] \/ r = NoRuntime)
    BY Zenon
  <1>3. /\ IsRun(r) /\ r.phase = "none" /\ ~r.store /\ r.projection = "none"
        /\ r.gate = "closed" /\ r.speech = "none" /\ r.workers = "none" /\ r.handlers = "none"
    <2>1. /\ r.store = NoRuntime.store /\ r.projection = NoRuntime.projection
          /\ r.gate = NoRuntime.gate /\ r.speech = NoRuntime.speech
          /\ r.workers = NoRuntime.workers /\ r.handlers = NoRuntime.handlers
          /\ IsRun(r) /\ r.phase = NoRuntime.phase
      BY <1>1, <1>2 DEF IsRun, RunFields
    <2> QED
      BY <2>1 DEF NoRuntime
  <1>4. /\ runtime' = [q \in Proc |-> runtime'[q]] /\ \A q \in Proc : IsRun(runtime'[q])
        /\ runtime'[p] = r /\ \A q \in Proc \ {p} : runtime'[q] = runtime[q]
    BY <1>0, <1>2, <1>3, RunShape
  <1>5. IsJob(NoJob)
    BY DEF IsJob, NoJob, JobFields, Dirs
  <1>6. /\ job' = [q \in Proc |-> job'[q]] /\ \A q \in Proc : IsJob(job'[q])
        /\ job'[p] = NoJob /\ \A q \in Proc \ {p} : job'[q] = job[q]
    BY <1>0, <1>5, JobShape
  <1>7. /\ hostlock' = [d \in Dirs |-> hostlock'[d]]
        /\ \A d \in Dirs : hostlock[d] # p => hostlock'[d] = hostlock[d]
        /\ \A d \in Dirs : hostlock'[d] # Free => hostlock[d] # Free /\ hostlock[d] # p
    BY <1>0, UnlockedHost
  <1>8. /\ dirs' = [d \in Dirs |-> dirs'[d]] /\ \A d \in Dirs : IsDir(dirs'[d])
        /\ \A d \in Dirs : dirs[d].exists => dirs'[d].exists
        /\ \A d \in Dirs : hostlock[d] # p => dirs'[d] = dirs[d]
    BY <1>0 DEF Shapes, DirStep
  <1>9. Shapes'
    BY <1>0, <1>4, <1>6, <1>7, <1>8 DEF Shapes, SpaceShape
  <1>10. JobFits(p)'
    BY <1>6 DEF JobFits, NoJob, WritingSteps, CapturingCommands
  <1>11. RunFits(p)'
    BY <1>3, <1>4 DEF RunFits
  <1>12. Alone(p)
    BY <1>4, <1>6, <1>7, <1>8 DEF Alone
  <1>13. LockedExists'
    BY <1>0, <1>7, <1>8 DEF LockedExists
  <1> QED
    BY <1>9, <1>10, <1>11, <1>12, <1>13 DEF Held

LEMMA CloseHeld ==
    ASSUME HoldInv, NEW p \in Proc, openRuntimeFails(p) \/ CloseRuntime(p) \/ Exit(p)
    PROVE  Held(p)
  <1>0. Shapes /\ RunFits(p) /\ runtime[p].dir \in Dirs
    BY DEF HoldInv, Shapes, IsRun
  <1>1. hostlock' = Unlocked(hostlock, p)
    BY DEF openRuntimeFails, CloseRuntime, Exit
  <1>2. SpaceShape'
    BY <1>0, SpaceShapes DEF openRuntimeFails, CloseRuntime, Exit, Untouched
  <1>3. \/ \E b : With(p, [NoRuntime EXCEPT !.restart = b])
        \/ With(p, NoRuntime)
    BY Zenon DEF openRuntimeFails, CloseRuntime, Exit
  <1>4. job' = [job EXCEPT ![p] = NoJob]
    <2>1. CASE Exit(p)
      BY <2>1 DEF Exit
    <2>2. CASE openRuntimeFails(p) \/ CloseRuntime(p)
      <3>1. runtime[p].phase # "none" /\ job' = job
        BY <2>2 DEF openRuntimeFails, CloseRuntime, Silent, Waited, R, Untouched, artifactVars
      <3>2. job[p] = NoJob
        BY <1>0, <3>1 DEF RunFits
      <3> QED
        BY <1>0, <3>1, <3>2 DEF Shapes
    <2> QED
      BY <2>1, <2>2
  <1>5. dirs' = dirs \/ (hostlock[runtime[p].dir] = p /\ DirStep(runtime[p].dir))
    <2>1. CASE CloseRuntime(p)
      <3>1. runtime[p].phase # "none" /\ dirs' = Flushed(runtime[p].dir)
        BY <2>1 DEF CloseRuntime, Silent, Waited, R
      <3> QED
        BY <1>0, <3>1, FlushedMoves DEF RunFits
    <2>2. CASE openRuntimeFails(p) \/ Exit(p)
      BY <2>2 DEF openRuntimeFails, Exit
    <2> QED
      BY <2>1, <2>2
  <1> QED
    BY <1>1, <1>2, <1>3, <1>4, <1>5, RuntimeEnds

LEMMA RuntimeHeld ==
    ASSUME HoldInv, NEW p \in Proc, RuntimeStep(p) \/ Submit(p) \/ Exit(p) PROVE Held(p)
  <1>1. CASE \E d \in Dirs : Start(p, d)
    BY <1>1, StartHeld
  <1>2. CASE openRuntime(p)
    BY <1>2, OpenHeld
  <1>3. CASE openRuntimeFails(p) \/ CloseRuntime(p) \/ Exit(p)
    BY <1>3, CloseHeld
  <1>4. CASE StartupStep(p)
    BY <1>4, StartupHeld
  <1>5. CASE \/ FailGate(p) \/ WorkersPassGate(p) \/ WorkersExit(p) \/ RequestArrives(p)
             \/ RequestEnds(p) \/ Stop(p) \/ BeginShutdown(p) \/ Drained(p) \/ DrainTimesOut(p)
             \/ SpeechExits(p) \/ SpeechWaitTimesOut(p) \/ closeRuntimeAfterHTTPDrain(p)
             \/ CloseTimesOut(p) \/ CloseProjections(p)
    BY <1>5, ServingHeld
  <1>6. CASE ProjectionCatchesUp(p) \/ Submit(p)
    BY <1>6, RuntimeWrites DEF ProjectionCatchesUp, Submit, Untouched, artifactVars
  <1>7. CASE CloseHub(p)
    <2>1. UNCHANGED <<dirs, hostlock, runtime, job>> /\ SpaceShape'
      BY <1>7, SpaceShapes DEF CloseHub, artifactVars, lockVars, HoldInv
    <2> QED
      BY <2>1, SameHeld
  <1> QED
    BY <1>1, <1>2, <1>3, <1>4, <1>5, <1>6, <1>7 DEF RuntimeStep

-----------------------------------------------------------------------------
(* The list of publications keeps its shape, and only grows.               *)

LEMMA LenOf ==
    ASSUME NEW n \in Nat, NEW t, t = [i \in 1..n |-> t[i]] PROVE Len(t) = n
  <1>1. PICK S : S = {t[i] : i \in 1..n}
    OBVIOUS
  <1>2. t \in [1..n -> S]
    BY <1>1
  <1> QED
    BY <1>2

ReplacedAt(s, i, q) == [s EXCEPT ![i] = q]

LEMMA ListedReplaced ==
    ASSUME NEW s, Listed(s), NEW i \in 1..Len(s), NEW q, IsPub(q),
           NEW t, t = ReplacedAt(s, i, q)
    PROVE  Listed(t) /\ Len(t) = Len(s) /\ t[i] = q /\ \A k \in 1..Len(s) \ {i} : t[k] = s[k]
  <1>1. PICK n \in Nat : n = Len(s)
    BY DEF Listed
  <1>2. t = [k \in 1..n |-> t[k]] /\ t[i] = q /\ \A k \in 1..n \ {i} : t[k] = s[k]
    BY <1>1 DEF Listed, ReplacedAt
  <1>3. Len(t) = n
    BY <1>2, LenOf
  <1> QED
    BY <1>1, <1>2, <1>3 DEF Listed

LEMMA ListedLonger ==
    ASSUME NEW s, Listed(s), NEW q, IsPub(q), NEW t, t = Append(s, q)
    PROVE  /\ Listed(t) /\ Len(t) = Len(s) + 1 /\ t[Len(s) + 1] = q
           /\ \A k \in 1..Len(s) : t[k] = s[k]
  <1>1. PICK n \in Nat : n = Len(s)
    BY DEF Listed
  <1>2. PICK S : S = {s[i] : i \in 1..n} \cup {q}
    OBVIOUS
  <1>3. s \in [1..n -> S] /\ q \in S
    BY <1>1, <1>2 DEF Listed
  <1>4. s \in Seq(S)
    BY <1>3
  <1>5. /\ t = [k \in 1..(n + 1) |-> t[k]] /\ t[n + 1] = q
        /\ \A k \in 1..n : t[k] = s[k]
    <2>1. t \in Seq(S) /\ Len(t) = n + 1 /\ t[n + 1] = q /\ \A k \in 1..n : t[k] = s[k]
      BY <1>1, <1>3, <1>4, AppendProperties
    <2>2. t \in [1..Len(t) -> S]
      BY <2>1, LenProperties
    <2> QED
      BY <2>1, <2>2
  <1>6. Len(t) = n + 1
    BY <1>5, LenOf
  <1> QED
    BY <1>1, <1>5, <1>6 DEF Listed

LEMMA ListedMapped ==
    ASSUME NEW s, Listed(s), NEW t, t = [i \in DOMAIN s |-> t[i]],
           \A i \in 1..Len(s) : IsPub(t[i])
    PROVE  Listed(t) /\ Len(t) = Len(s)
  <1>1. PICK n \in Nat : n = Len(s)
    BY DEF Listed
  <1>2. t = [i \in 1..n |-> t[i]]
    BY <1>1 DEF Listed
  <1>3. Len(t) = n
    BY <1>2, LenOf
  <1> QED
    BY <1>1, <1>2, <1>3 DEF Listed

LEMMA PubsHeld ==
    ASSUME HoldInv, NEW p \in Proc, Alone(p), Listed(pubs'), Len(pubs') >= Len(pubs), JobPub(p)'
    PROVE  PubShapes'
  <1>1. Listed(pubs) /\ \A q \in Proc : JobPub(q)
    BY DEF HoldInv, PubShapes
  <1>2. ASSUME NEW q \in Proc \ {p} PROVE JobPub(q)'
    <2>1. job'[q] = job[q] /\ JobPub(q)
      BY <1>1 DEF Alone
    <2>2. Len(pubs) \in Nat /\ Len(pubs') \in Nat
      BY <1>1 DEF Listed
    <2> QED
      BY <2>1, <2>2 DEF JobPub
  <1> QED
    BY <1>2 DEF PubShapes

\* Most steps change one field of the publication at hand.
LEMMA SetListed ==
    ASSUME PubShapes, NEW p \in Proc, job[p].step \in PubSteps, NEW field \in PubFields, NEW v,
           Set(p, field, v), field # "head" \/ v \in Nat
    PROVE  Listed(pubs') /\ Len(pubs') = Len(pubs)
  <1>1. Listed(pubs) /\ job[p].pub \in 1..Len(pubs) /\ IsPub(pubs[job[p].pub])
    BY DEF PubShapes, JobPub, Listed
  <1>2. PICK q : q = [pubs[job[p].pub] EXCEPT ![field] = v]
    OBVIOUS
  <1>3. IsPub(q)
    BY <1>1, <1>2 DEF IsPub, PubFields
  <1>4. PICK i, s, t : i = job[p].pub /\ s = pubs /\ t = pubs'
    OBVIOUS
  <1>5. t = [s EXCEPT ![i] = q]
    BY <1>2, <1>4 DEF Set
  <1>6. Listed(s) /\ i \in 1..Len(s)
    BY <1>1, <1>4
  <1>7. Listed(t) /\ Len(t) = Len(s)
    <2>1. t = ReplacedAt(s, i, q)
      BY <1>5 DEF ReplacedAt
    <2> QED
      BY <1>3, <1>6, <2>1, ListedReplaced
  <1> QED
    BY <1>4, <1>7

LEMMA TouchedListed ==
    ASSUME PubShapes, NEW d, Touched(d) PROVE Listed(pubs') /\ Len(pubs') = Len(pubs)
  <1>1. Listed(pubs)
    BY DEF PubShapes
  <1>2. pubs' = [i \in DOMAIN pubs |-> pubs'[i]]
    BY DEF Touched
  <1>3. ASSUME NEW i \in 1..Len(pubs) PROVE IsPub(pubs'[i])
    <2>1. IsPub(pubs[i]) /\ i \in DOMAIN pubs
      BY <1>1 DEF Listed
    <2>2. PICK q : q = [pubs[i] EXCEPT !.changed = TRUE]
      OBVIOUS
    <2>3. IsPub(q)
      BY <2>1, <2>2 DEF IsPub, PubFields
    <2>4. pubs'[i] = q \/ pubs'[i] = pubs[i]
      BY <2>1, <2>2 DEF Touched
    <2> QED
      BY <2>1, <2>3, <2>4
  <1> QED
    BY <1>1, <1>2, <1>3, ListedMapped

LEMMA StagedListed ==
    ASSUME PubShapes, NEW p \in Proc, NEW cmd, NEW caller, Staged(p, cmd, caller)
    PROVE  Listed(pubs') /\ Len(pubs') = Len(pubs) + 1
  <1>1. PICK q : q = [cmd |-> cmd, target |-> TargetOf(cmd), input |-> job[p].input,
            place |-> "staging", whole |-> FALSE, internal |-> FALSE, caller |-> caller,
            sibling |-> "none", changed |-> FALSE, head |-> 0, registered |-> FALSE,
            service |-> NoService, ready |-> FALSE]
    OBVIOUS
  <1>2. IsPub(q)
    BY <1>1 DEF IsPub, PubFields
  <1>3. pubs' = Append(pubs, q)
    BY <1>1 DEF Staged
  <1> QED
    BY <1>2, <1>3, ListedLonger DEF PubShapes

\* What a command may do with the publication it has at hand.
KeepsPub(p) ==
    \/ job'[p] = job[p] \/ job'[p] = NoJob
    \/ \E s : Step(p, s) /\ (job[p].step \in PubSteps \/ s \notin PubSteps)
    \/ \E s, i : Turns(p, s, i) /\ i \in 1..Len(pubs')

LEMMA PubsTurn ==
    ASSUME HoldInv, NEW p \in Proc, Listed(pubs'), Len(pubs') >= Len(pubs), KeepsPub(p)
    PROVE  JobPub(p)'
  <1>1. Shapes /\ JobPub(p) /\ Len(pubs) \in Nat /\ Len(pubs') \in Nat
    BY DEF HoldInv, PubShapes, Listed
  <1>2. CASE job'[p] = job[p]
    BY <1>1, <1>2 DEF JobPub
  <1>3. CASE job'[p] = NoJob
    BY <1>1, <1>3 DEF JobPub, NoJob, PubSteps
  <1>4. ASSUME NEW s, Step(p, s), job[p].step \in PubSteps \/ s \notin PubSteps
        PROVE  JobPub(p)'
    <2>1. PICK j : /\ job' = [job EXCEPT ![p] = j] /\ j.step = s /\ j.cmd = job[p].cmd
                   /\ j.pub = job[p].pub /\ j.from = job[p].from
      BY <1>1, <1>4, StepMoves
    <2>2. job'[p] = j
      BY <1>1, <2>1 DEF Shapes
    <2> QED
      BY <1>1, <1>4, <2>1, <2>2 DEF JobPub
  <1>5. ASSUME NEW s, NEW i, Turns(p, s, i), i \in 1..Len(pubs') PROVE JobPub(p)'
    <2>1. PICK j : /\ job' = [job EXCEPT ![p] = j] /\ j.step = s /\ j.cmd = job[p].cmd
                   /\ j.pub = i /\ j.from = job[p].from
      BY <1>1, <1>5, TurnMoves
    <2>2. job'[p] = j
      BY <1>1, <2>1 DEF Shapes
    <2> QED
      BY <1>1, <1>5, <2>1, <2>2 DEF JobPub
  <1> QED
    BY <1>2, <1>3, <1>4, <1>5 DEF KeepsPub

\* The publications after a step of process p.
Pubs(p) == Listed(pubs') /\ Len(pubs') >= Len(pubs) /\ JobPub(p)'

LEMMA SamePubs ==
    ASSUME HoldInv, NEW p \in Proc, pubs' = pubs, KeepsPub(p) PROVE Pubs(p)
  <1>1. Listed(pubs)
    BY DEF HoldInv, PubShapes
  <1>2. Listed(pubs') /\ Len(pubs') >= Len(pubs)
    BY <1>1 DEF Listed
  <1> QED
    BY <1>2, PubsTurn DEF Pubs

LEMMA FinishPubs ==
    ASSUME HoldInv, NEW p \in Proc, Finish(p) PROVE job'[p] = NoJob
  BY DEF HoldInv, Shapes, Finish

LEMMA BuildPubs ==
    ASSUME HoldInv, NEW p \in Proc, BuildStep(p) \/ CleanTarget(p) PROVE Pubs(p)
  <1>0. PubShapes /\ Listed(pubs) /\ Len(pubs) \in Nat /\ JobPub(p)
    BY DEF HoldInv, PubShapes, Listed
  <1>1. job[p].step \in PubSteps
    BY DEF BuildStep, BuildBundle, BuildExport, BuildPlan, CopyVerified,
           registerRestoredDialogueV4, runStagedDatabase, rebuildEligibleProjections,
           verifyClosedStagingRoot, WriteInternalMarker, CreateSiblingMarker,
           SealSiblingMarker, RemoveSiblingMarker, CleanTarget, At, PubSteps
  <1>2. KeepsPub(p)
    <2>1. job' = job \/ \E s : Step(p, s)
      BY Zenon DEF BuildStep, BuildBundle, BuildExport, BuildPlan, CopyVerified,
           registerRestoredDialogueV4, runStagedDatabase, rebuildEligibleProjections,
           verifyClosedStagingRoot, WriteInternalMarker, CreateSiblingMarker,
           SealSiblingMarker, RemoveSiblingMarker, CleanTarget
    <2> QED
      BY <1>1, <2>1 DEF KeepsPub
  <1>3. job[p].pub \in 1..Len(pubs) /\ IsPub(pubs[job[p].pub])
    BY <1>0, <1>1 DEF JobPub, Listed
  <1>4. PICK i, s, t : i = job[p].pub /\ s = pubs /\ t = pubs'
    OBVIOUS
  <1>5. i \in 1..Len(s) /\ Listed(s) /\ IsPub(s[i])
    BY <1>0, <1>3, <1>4
  <1>6. ASSUME NEW q, IsPub(q), t = [s EXCEPT ![i] = q]
        PROVE  Listed(pubs') /\ Len(pubs') = Len(pubs)
    <2>1. t = ReplacedAt(s, i, q) /\ IsPub(q)
      BY <1>6 DEF ReplacedAt
    <2>2. Listed(t) /\ Len(t) = Len(s)
      BY <1>5, <2>1, ListedReplaced
    <2> QED
      BY <1>4, <2>2
  <1>7. Listed(pubs') /\ Len(pubs') = Len(pubs)
    <2>1. CASE BuildBundle(p)
      <3>1. PICK source : source = dirs[job[p].dir]
        OBVIOUS
      <3>2. PICK service :
              service = pruneBackupProjections(resolveBackupCloneSelection(source.service))
        OBVIOUS
      <3>3. PICK q : q = [s[i] EXCEPT !.head = source.main, !.registered = source.registered,
                                      !.service = service, !.whole = TRUE]
        OBVIOUS
      <3>4. source.main \in Nat
        BY <3>1 DEF HoldInv, Shapes, IsJob, IsDir
      <3>5. IsPub(q)
        BY <1>5, <3>3, <3>4 DEF IsPub, PubFields
      <3>6. t = [s EXCEPT ![i] = q]
        BY <1>4, <2>1, <3>1, <3>2, <3>3 DEF BuildBundle, copyBackupBlobs, PrepareBackupClone
      <3> QED
        BY <1>6, <3>5, <3>6
    <2>2. CASE BuildExport(p)
      BY <1>0, <1>1, <2>2, SetListed DEF BuildExport, PubFields
    <2>3. CASE BuildPlan(p)
      BY <1>0, <1>1, <2>3, SetListed DEF BuildPlan, PubFields
    <2>4. CASE CopyVerified(p)
      <3>0. job[p].from \in 1..Len(pubs)
        BY <1>0, <2>4 DEF CopyVerified, At, JobPub
      <3>1. PICK bundle : bundle = pubs[job[p].from]
        OBVIOUS
      <3>2. bundle.head \in Nat
        BY <1>0, <3>0, <3>1 DEF Listed, IsPub
      <3>3. PICK q : q = [s[i] EXCEPT !.head = bundle.head, !.registered = bundle.registered,
                                      !.service = bundle.service]
        OBVIOUS
      <3>4. IsPub(q)
        BY <1>5, <3>2, <3>3 DEF IsPub, PubFields
      <3>5. t = [s EXCEPT ![i] = q]
        BY <1>4, <2>4, <3>1, <3>3 DEF CopyVerified
      <3> QED
        BY <1>6, <3>4, <3>5
    <2>5. CASE registerRestoredDialogueV4(p)
      <3>1. CASE pubs' = pubs
        BY <1>0, <3>1
      <3>2. CASE pubs' # pubs
        <4>1. PICK n : n = s[i].head + 1
          OBVIOUS
        <4>2. n \in Nat
          BY <1>5, <4>1 DEF IsPub
        <4>3. PICK q : q = [s[i] EXCEPT !.registered = TRUE, !.head = n]
          OBVIOUS
        <4>4. IsPub(q)
          BY <1>5, <4>2, <4>3 DEF IsPub, PubFields
        <4>5. t = [s EXCEPT ![i] = q]
          BY <1>4, <2>5, <3>2, <4>1, <4>3 DEF registerRestoredDialogueV4
        <4> QED
          BY <1>6, <4>4, <4>5
      <3> QED
        BY <3>1, <3>2
    <2>6. CASE runStagedDatabase(p)
      <3>1. PICK h \in Pub(p).head..MaxHead : Set(p, "head", h)
        BY <2>6 DEF runStagedDatabase
      <3>2. h \in Nat
        BY <1>3, <3>1, PublicationAssumption DEF Pub, IsPub
      <3> QED
        BY <1>0, <1>1, <3>1, <3>2, SetListed DEF PubFields
    <2>7. CASE rebuildEligibleProjections(p)
      <3>1. PICK service, ready : pubs' = [pubs EXCEPT ![job[p].pub].service = service,
                                                       ![job[p].pub].ready = ready]
        <4>1. \E service, ready : pubs' = [pubs EXCEPT ![job[p].pub].service = service,
                                                       ![job[p].pub].ready = ready]
          BY <2>7, Zenon DEF rebuildEligibleProjections
        <4> QED
          BY <4>1
      <3>2. PICK q : q = [s[i] EXCEPT !.service = service, !.ready = ready]
        OBVIOUS
      <3>3. IsPub(q)
        BY <1>5, <3>2 DEF IsPub, PubFields
      <3>4. t = [s EXCEPT ![i] = q]
        BY <1>4, <3>1, <3>2
      <3> QED
        BY <1>6, <3>3, <3>4
    <2>8. CASE verifyClosedStagingRoot(p)
      BY <1>0, <1>1, <2>8, SetListed DEF verifyClosedStagingRoot, PubFields
    <2>9. CASE WriteInternalMarker(p)
      BY <1>0, <1>1, <2>9, SetListed DEF WriteInternalMarker, PubFields
    <2>10. CASE CreateSiblingMarker(p)
      BY <1>0, <1>1, <2>10, SetListed DEF CreateSiblingMarker, PubFields
    <2>11. CASE SealSiblingMarker(p)
      BY <1>0, <1>1, <2>11, SetListed DEF SealSiblingMarker, PubFields
    <2>12. CASE RemoveSiblingMarker(p)
      BY <1>0, <1>1, <2>12, SetListed DEF RemoveSiblingMarker, PubFields
    <2>13. CASE CleanTarget(p)
      <3>1. \/ Set(p, "internal", FALSE) \/ Set(p, "caller", FALSE) \/ pubs' = pubs
        BY <2>13 DEF CleanTarget
      <3> QED
        BY <1>0, <1>1, <3>1, SetListed DEF PubFields
    <2> QED
      BY <2>1, <2>2, <2>3, <2>4, <2>5, <2>6, <2>7, <2>8, <2>9, <2>10, <2>11, <2>12, <2>13
         DEF BuildStep
  <1> QED
    BY <1>0, <1>2, <1>7, PubsTurn DEF Pubs

\* A command that captures a head or reads a plan names what it works from.
LEMMA FromPubs ==
    ASSUME HoldInv, NEW p \in Proc, NEW j, job' = [job EXCEPT ![p] = j], pubs' = pubs,
           j.step \notin PubSteps, j.from \in 0..Len(pubs), j.cmd = "restore" => j.from # 0
    PROVE  Pubs(p)
  <1>1. Shapes /\ Listed(pubs)
    BY DEF HoldInv, PubShapes
  <1>2. job'[p] = j
    BY <1>1 DEF Shapes
  <1>3. Listed(pubs') /\ Len(pubs') >= Len(pubs)
    BY <1>1 DEF Listed
  <1> QED
    BY <1>2, <1>3 DEF Pubs, JobPub

LEMMA CheckPubs ==
    ASSUME HoldInv, NEW p \in Proc,
           CheckBackup(p) \/ CheckExport(p) \/ CheckPlan(p) \/ CheckDecision(p)
    PROVE  Pubs(p)
  <1>0. /\ Shapes /\ Listed(pubs) /\ JobPub(p) /\ IsJob(job[p]) /\ Len(pubs) \in Nat
        /\ DOMAIN pubs = 1..Len(pubs)
    BY DEF HoldInv, PubShapes, Shapes, Listed
  <1>1. ASSUME NEW ready, Captures(p, ready) PROVE Pubs(p)
    <2>0. pubs' = pubs
      BY <1>1 DEF Captures
    <2>1. CASE Finish(p)
      BY <2>0, <2>1, FinishPubs, SamePubs DEF KeepsPub
    <2>2. CASE ~Finish(p)
      <3>1. PICK i : job' = [job EXCEPT ![p].step = "space", ![p].input = i]
        BY <1>1, <2>2, Zenon DEF Captures
      <3>2. PICK j : j = [job[p] EXCEPT !.step = "space", !.input = i]
        OBVIOUS
      <3>3. j.step = "space" /\ j.cmd = job[p].cmd /\ j.from = job[p].from
        BY <1>0, <3>2 DEF IsJob, JobFields
      <3>4. job' = [job EXCEPT ![p] = j]
        BY <1>0, <3>1, <3>2 DEF Shapes
      <3>5. j.step \notin PubSteps /\ j.from \in 0..Len(pubs) /\ (j.cmd = "restore" => j.from # 0)
        BY <1>0, <3>3 DEF JobPub, PubSteps
      <3> QED
        BY <2>0, <3>4, <3>5, FromPubs
    <2> QED
      BY <2>1, <2>2
  <1>2. CASE CheckBackup(p) \/ CheckExport(p) \/ CheckPlan(p)
    BY <1>1, <1>2 DEF CheckBackup, CheckExport, CheckPlan
  <1>3. CASE CheckDecision(p)
    <2>0. pubs' = pubs /\ job[p].cmd = "decide"
      BY <1>3 DEF CheckDecision, At
    <2>1. CASE Finish(p)
      BY <2>0, <2>1, FinishPubs, SamePubs DEF KeepsPub
    <2>2. CASE ~Finish(p)
      <3>1. PICK k : /\ k \in ReadPlan("plan")
                     /\ job' = [job EXCEPT ![p].step = "space",
                                   ![p].input = ProducerInput(job[p].dir), ![p].from = k]
        BY <1>3, <2>2 DEF CheckDecision
      <3>2. k \in 1..Len(pubs)
        BY <1>0, <3>1 DEF ReadPlan, Placed
      <3>3. PICK i : i = ProducerInput(job[p].dir)
        OBVIOUS
      <3>4. PICK j : j = [job[p] EXCEPT !.step = "space", !.input = i, !.from = k]
        OBVIOUS
      <3>5. j.step = "space" /\ j.cmd = job[p].cmd /\ j.from = k
        BY <1>0, <3>4 DEF IsJob, JobFields
      <3>6. job' = [job EXCEPT ![p] = j]
        BY <1>0, <3>1, <3>3, <3>4 DEF Shapes
      <3>7. j.step \notin PubSteps /\ j.from \in 0..Len(pubs) /\ (j.cmd = "restore" => j.from # 0)
        BY <1>0, <2>0, <3>2, <3>5 DEF PubSteps
      <3> QED
        BY <2>0, <3>6, <3>7, FromPubs
    <2> QED
      BY <2>1, <2>2
  <1> QED
    BY <1>2, <1>3

LEMMA DecidePubs ==
    ASSUME HoldInv, NEW p \in Proc,
           \/ TakeNamespace(p) \/ DecideBackup(p) \/ DecideRestore(p) \/ DecidePlan(p)
           \/ DecideExport(p) \/ AuthenticatePublished(p) \/ Report(p) \/ Inspected(p)
    PROVE  Pubs(p)
  <1>0. PubShapes /\ Len(pubs) \in Nat /\ DOMAIN pubs = 1..Len(pubs)
    BY DEF HoldInv, PubShapes, Listed
  <1>1. CASE Finish(p) /\ pubs' = pubs
    BY <1>1, FinishPubs, SamePubs DEF KeepsPub
  <1>2. ASSUME NEW s, NEW i \in DOMAIN pubs, Turns(p, s, i), pubs' = pubs PROVE Pubs(p)
    BY <1>0, <1>2, SamePubs DEF KeepsPub
  <1>3. ASSUME NEW cmd, NEW caller, Staged(p, cmd, caller) PROVE Pubs(p)
    <2>1. Listed(pubs') /\ Len(pubs') = Len(pubs) + 1
      BY <1>0, <1>3, StagedListed
    <2>2. Turns(p, "build", Len(pubs) + 1)
      BY <1>3 DEF Staged, Turns
    <2>3. KeepsPub(p)
      BY <1>0, <2>1, <2>2 DEF KeepsPub
    <2> QED
      BY <1>0, <2>1, <2>3, PubsTurn DEF Pubs
  <1>4. CASE TakeNamespace(p)
    <2>1. pubs' = pubs /\ (Finish(p) \/ Step(p, "decide"))
      BY <1>4 DEF TakeNamespace
    <2> QED
      BY <1>1, <2>1, SamePubs DEF KeepsPub, PubSteps
  <1>5. CASE AuthenticatePublished(p)
    <2>1. pubs' = pubs /\ (Finish(p) \/ Step(p, "clean")) /\ job[p].step \in PubSteps
      BY <1>5 DEF AuthenticatePublished, PubSteps
    <2> QED
      BY <1>1, <2>1, SamePubs DEF KeepsPub
  <1>6. CASE Report(p) \/ Inspected(p)
    BY <1>1, <1>6 DEF Report, Inspected
  <1>7. \A name : Placed(name) \subseteq DOMAIN pubs /\ Siblings(name) \subseteq DOMAIN pubs
    BY DEF Placed, Siblings
  <1>8. CASE DecideBackup(p)
    <2>1. \/ Finish(p) /\ pubs' = pubs
          \/ \E i \in DOMAIN pubs : Turns(p, "authenticate", i) /\ pubs' = pubs
          \/ Staged(p, "backup", FALSE)
      BY <1>7, <1>8 DEF DecideBackup, Recovering, Turns
    <2> QED
      BY <1>1, <1>2, <1>3, <2>1
  <1>9. CASE DecideRestore(p)
    <2>1. \/ Finish(p) /\ pubs' = pubs
          \/ \E i \in DOMAIN pubs : Turns(p, "authenticate", i) /\ pubs' = pubs
          \/ Staged(p, "restore", TRUE)
      BY <1>7, <1>9 DEF DecideRestore, recoverPublishedRestore, Recovering, Turns
    <2> QED
      BY <1>1, <1>2, <1>3, <2>1
  <1>10. CASE DecidePlan(p)
    BY <1>1, <1>3, <1>10 DEF DecidePlan
  <1>11. CASE DecideExport(p)
    <2>1. \/ Finish(p) /\ pubs' = pubs
          \/ \E i \in Siblings("export") :
                (Turns(p, "unmark", i) \/ Turns(p, "rename", i)) /\ pubs' = pubs
          \/ Staged(p, "export", FALSE)
      BY <1>11, Zenon DEF DecideExport, Turns
    <2> QED
      BY <1>1, <1>2, <1>3, <1>7, <2>1
  <1> QED
    BY <1>4, <1>5, <1>6, <1>8, <1>9, <1>10, <1>11

LEMMA PublishPubs ==
    ASSUME HoldInv, NEW p \in Proc, PublishNoReplace(p) \/ JobFails(p) PROVE Pubs(p)
  <1>0. PubShapes /\ Len(pubs) \in Nat /\ Listed(pubs) /\ JobPub(p)
    BY DEF HoldInv, PubShapes, Listed
  <1>1. CASE PublishNoReplace(p)
    <2>1. job[p].step \in PubSteps /\ Set(p, "place", "target") /\ \E s : Step(p, s)
      BY <1>1, Zenon DEF PublishNoReplace, PubSteps
    <2>2. Listed(pubs') /\ Len(pubs') = Len(pubs)
      BY <1>0, <2>1, SetListed DEF PubFields
    <2>3. KeepsPub(p)
      BY <2>1 DEF KeepsPub
    <2> QED
      BY <1>0, <2>2, <2>3, PubsTurn DEF Pubs
  <1>2. CASE JobFails(p)
    <2>1. Finish(p) /\ Discard(p)
      BY <1>2 DEF JobFails
    <2>2. KeepsPub(p)
      BY <2>1, FinishPubs DEF KeepsPub
    <2>3. CASE pubs' = pubs
      BY <2>2, <2>3, SamePubs
    <2>4. CASE pubs' # pubs
      <3>1. Set(p, "place", "gone") /\ job[p].step \in PubSteps
        BY <2>1, <2>4 DEF Discard, PubSteps
      <3>2. Listed(pubs') /\ Len(pubs') = Len(pubs)
        BY <1>0, <3>1, SetListed DEF PubFields
      <3> QED
        BY <1>0, <2>2, <3>2, PubsTurn DEF Pubs
    <2> QED
      BY <2>3, <2>4
  <1> QED
    BY <1>1, <1>2

LEMMA TouchedPubs ==
    ASSUME HoldInv, NEW p \in Proc, NEW d, Touched(d), KeepsPub(p) PROVE Pubs(p)
  <1>0. PubShapes /\ Len(pubs) \in Nat
    BY DEF HoldInv, PubShapes, Listed
  <1>1. Listed(pubs') /\ Len(pubs') = Len(pubs)
    BY <1>0, TouchedListed
  <1> QED
    BY <1>0, <1>1, PubsTurn DEF Pubs

LEMMA InPlacePubs ==
    ASSUME HoldInv, NEW p \in Proc, InPlaceStep(p) PROVE Pubs(p)
  <1>0. /\ Shapes /\ IsJob(job[p]) /\ JobPub(p) /\ Len(pubs) \in Nat
        /\ DOMAIN pubs = 1..Len(pubs)
    BY DEF HoldInv, Shapes, PubShapes, Listed
  <1>1. CASE openOfflineWritableStore(p) \/ withAdminRuntime(p)
    <2>1. Touched(job[p].dir) /\ Step(p, "open")
      BY <1>1 DEF openOfflineWritableStore, withAdminRuntime
    <2>2. KeepsPub(p)
      BY <2>1 DEF KeepsPub, PubSteps
    <2> QED
      BY <2>1, <2>2, TouchedPubs
  <1>2. CASE CloseStore(p) \/ executeErasureApply(p) \/ rebuildErasureProjections(p)
    <2>1. pubs' = pubs /\ (Finish(p) \/ Step(p, "rebuilt"))
      BY <1>2 DEF CloseStore, executeErasureApply, rebuildErasureProjections
    <2>2. KeepsPub(p)
      BY <2>1, FinishPubs DEF KeepsPub, PubSteps
    <2> QED
      BY <2>1, <2>2, SamePubs
  <1>3. CASE \/ executeAdminIntegrityScan(p) \/ executeAdminRecoveryTerminalize(p)
             \/ runProjectionRebuild(p) \/ runMemoryPolicyActivateCurrent(p)
             \/ executeSessionPolicySelect(p)
    <2>1. pubs' = pubs /\ job' = job
      BY <1>3 DEF executeAdminIntegrityScan, executeAdminRecoveryTerminalize,
            runProjectionRebuild, runMemoryPolicyActivateCurrent,
            executeSessionPolicySelect, InPlace
    <2> QED
      BY <2>1, SamePubs DEF KeepsPub
  <1>4. CASE ApplyReads(p)
    <2>0. pubs' = pubs /\ job[p].cmd = "apply"
      BY <1>4 DEF ApplyReads, At
    <2>1. CASE Finish(p)
      BY <2>0, <2>1, FinishPubs, SamePubs DEF KeepsPub
    <2>2. CASE ~Finish(p)
      <3>1. PICK k : /\ k \in ReadPlan("plan")
                     /\ job' = [job EXCEPT ![p].step = "apply", ![p].from = k]
        BY <1>4, <2>2, Zenon DEF ApplyReads
      <3>2. k \in 1..Len(pubs)
        BY <1>0, <3>1 DEF ReadPlan, Placed
      <3>4. PICK j : j = [job[p] EXCEPT !.step = "apply", !.from = k]
        OBVIOUS
      <3>5. j.step = "apply" /\ j.cmd = job[p].cmd /\ j.from = k
        BY <1>0, <3>4 DEF IsJob, JobFields
      <3>6. job' = [job EXCEPT ![p] = j]
        BY <1>0, <3>1, <3>4 DEF Shapes
      <3>7. j.step \notin PubSteps /\ j.from \in 0..Len(pubs) /\ (j.cmd = "restore" => j.from # 0)
        BY <1>0, <2>0, <3>2, <3>5 DEF PubSteps
      <3> QED
        BY <2>0, <3>6, <3>7, FromPubs
    <2> QED
      BY <2>1, <2>2
  <1> QED
    BY <1>1, <1>2, <1>3, <1>4 DEF InPlaceStep

LEMMA BeginPubs ==
    ASSUME HoldInv, NEW p \in Proc, BeginCommand(p) PROVE Pubs(p)
  <1>0. /\ Shapes /\ PubShapes /\ Len(pubs) \in Nat /\ DOMAIN pubs = 1..Len(pubs)
    BY DEF HoldInv, PubShapes, Listed
  <1>1. NoJob = [f \in JobFields |-> NoJob[f]] /\ NoJob.from = 0
    BY DEF NoJob, JobFields
  <1>2. CASE BeginRestore(p)
    <2>1. PICK i : /\ i \in Bundles /\ pubs' = pubs
                   /\ job' = [job EXCEPT ![p] = [NoJob EXCEPT !.cmd = "restore",
                       !.dir = "restored", !.step = "decide", !.input = BundleInput(i),
                       !.from = i]]
      BY <1>2, Zenon DEF BeginRestore
    <2>2. i \in 1..Len(pubs)
      BY <1>0, <2>1 DEF Bundles, Placed
    <2>3. PICK b : b = BundleInput(i)
      OBVIOUS
    <2>4. PICK j : j = [NoJob EXCEPT !.cmd = "restore", !.dir = "restored", !.step = "decide",
                                     !.input = b, !.from = i]
      OBVIOUS
    <2>5. j.step = "decide" /\ j.from = i
      BY <1>1, <2>4 DEF JobFields
    <2>6. job' = [job EXCEPT ![p] = j]
      BY <2>1, <2>3, <2>4
    <2>7. j.step \notin PubSteps /\ j.from \in 0..Len(pubs) /\ j.from # 0
      BY <1>0, <2>2, <2>5 DEF PubSteps
    <2> QED
      BY <2>1, <2>6, <2>7, FromPubs
  <1>3. ASSUME NEW d \in Dirs, Diagnose(p, d) PROVE Pubs(p)
    <2>1. PICK j : j = [NoJob EXCEPT !.cmd = "diagnose", !.dir = d, !.step = "inspect"]
      OBVIOUS
    <2>2. j.cmd = "diagnose" /\ j.from = 0 /\ j.step = "inspect"
      BY <1>1, <2>1 DEF JobFields
    <2>3. job' = [job EXCEPT ![p] = j] /\ Touched(d)
      BY <1>3, <2>1 DEF Diagnose
    <2>4. job'[p] = j
      BY <1>0, <2>3 DEF Shapes
    <2>5. Listed(pubs') /\ Len(pubs') = Len(pubs)
      BY <1>0, <2>3, TouchedListed
    <2>6. j.step \notin PubSteps
      BY <2>2 DEF PubSteps
    <2> QED
      BY <1>0, <2>2, <2>4, <2>5, <2>6 DEF Pubs, JobPub
  <1>4. ASSUME NEW d \in Dirs, NEW cmd \in Commands, Begin(p, cmd, d) PROVE Pubs(p)
    <2>1. PICK j : j = [NoJob EXCEPT !.cmd = cmd, !.dir = d, !.step = "check"]
      OBVIOUS
    <2>2. j.cmd = cmd /\ j.from = 0 /\ j.step = "check"
      BY <1>1, <2>1 DEF JobFields
    <2>3. job' = [job EXCEPT ![p] = j] /\ pubs' = pubs
      BY <1>4, <2>1 DEF Begin
    <2>4. j.step \notin PubSteps /\ j.from \in 0..Len(pubs) /\ j.cmd # "restore"
      BY <1>0, <2>2 DEF PubSteps, Commands
    <2> QED
      BY <2>3, <2>4, FromPubs
  <1> QED
    BY <1>2, <1>3, <1>4 DEF BeginCommand

LEMMA RuntimePubs ==
    ASSUME HoldInv, NEW p \in Proc, RuntimeStep(p) \/ Submit(p) \/ Exit(p) PROVE Pubs(p)
  <1>1. CASE \E d \in Dirs : Start(p, d)
    <2>1. PICK d \in Dirs : Touched(d) /\ job' = job
      BY <1>1 DEF Start
    <2> QED
      BY <2>1, TouchedPubs DEF KeepsPub
  <1>2. CASE Exit(p)
    <2>1. pubs' = pubs /\ job'[p] = NoJob
      BY <1>2 DEF Exit, HoldInv, Shapes
    <2> QED
      BY <2>1, SamePubs DEF KeepsPub
  <1>3. CASE ~(\E d \in Dirs : Start(p, d)) /\ ~Exit(p)
    <2>1. \A name, x, next : Phase(p, name, x, next) => UNCHANGED artifactVars
      BY DEF Phase, Untouched
    <2>2. UNCHANGED artifactVars
      <3>1. CASE StartupStep(p)
        BY <2>1, <3>1 DEF StartupStep, StartTTSGated, PreflightMandatory, TerminalizeRunning,
           ScanIntegrity, TerminalizeMandatory, Rescan, PreflightEligibility, PauseAdmissions,
           PreflightContentRefs, PreflightProjection, EvaluateFinalReadiness, BindHTTP,
           StartProjection, WaitProjectionReady, StartWorkersGated, StartHTTPGated,
           RequireCanonicalHead, ResumeAdmissions, OpenGate, Recovers, Scans
      <3>2. CASE ~StartupStep(p)
        BY <1>3, <3>2 DEF RuntimeStep, openRuntime, openRuntimeFails, FailGate, WorkersPassGate,
           WorkersExit, RequestArrives, RequestEnds, ProjectionCatchesUp, Stop, BeginShutdown,
           Drained, DrainTimesOut, SpeechExits, SpeechWaitTimesOut, CloseHub,
           closeRuntimeAfterHTTPDrain, CloseTimesOut, CloseProjections, CloseRuntime, Submit,
           Keep, Stays, Untouched
      <3> QED
        BY <3>1, <3>2
    <2> QED
      BY <2>2, SamePubs DEF KeepsPub, artifactVars
  <1> QED
    BY <1>1, <1>2, <1>3

\* Steps of the event stream; a reply commits to the directory, too.
StreamStep(p) ==
    \/ \E c \in Callers : Reply(p, c)
    \/ Notify(p) \/ Callback(p) \/ Speak(p) \/ Listen(p)

LEMMA StreamHeld ==
    ASSUME HoldInv, NEW p \in Proc, StreamStep(p) PROVE Held(p) /\ Pubs(p)
  <1>1. CASE \E c \in Callers : Reply(p, c)
    <2>1. /\ Commits(R(p).dir) /\ R(p).workers = "active" /\ pubs' = pubs
          /\ UNCHANGED <<runtime, hostlock, job, space>>
      BY <1>1 DEF Reply, artifactVars
    <2> QED
      BY <2>1, RuntimeWrites, SamePubs DEF KeepsPub
  <1>2. CASE Notify(p) \/ Callback(p) \/ Speak(p) \/ Listen(p)
    <2>1. Stream(p)
      BY <1>2 DEF Notify, Callback, Speak, Listen
    <2>2. UNCHANGED <<dirs, hostlock, runtime, job>> /\ space' = space /\ pubs' = pubs
      BY <2>1 DEF Stream, lockVars, artifactVars
    <2>3. SpaceShape'
      BY <2>2, SpaceShapes DEF HoldInv
    <2> QED
      BY <2>2, <2>3, SameHeld, SamePubs DEF KeepsPub
  <1> QED
    BY <1>1, <1>2 DEF StreamStep

\* The locks are held as they should be, in every step.
LEMMA HoldStep == HoldInv /\ [Next]_vars => HoldInv'
  <1> SUFFICES ASSUME HoldInv, [Next]_vars PROVE HoldInv'
    OBVIOUS
  <1>1. CASE UNCHANGED vars
    BY <1>1 DEF vars, HoldInv, Shapes, PubShapes, JobPub, LockedExists, JobFits, HeadCommit,
                RunFits
  <1>2. ASSUME NEW p \in Proc,
               \/ Execute(p) \/ Running(p) \/ RuntimeStep(p) \/ Submit(p) \/ Exit(p)
               \/ StreamStep(p)
        PROVE  HoldInv'
    <2>1. Held(p) /\ Pubs(p)
      <3>1. CASE Execute(p)
        BY <3>1, CommandHeld, BeginPubs DEF Execute
      <3>2. CASE Running(p)
        <4>1. runtime' = runtime /\ CommandStep(p)
          BY <3>2 DEF Running
        <4>2. Pubs(p)
          BY <4>1, CheckPubs, DecidePubs, BuildPubs, PublishPubs, InPlacePubs
             DEF CommandStep, BuildStep, InPlaceStep
        <4> QED
          BY <4>1, <4>2, CommandHeld
      <3>3. CASE RuntimeStep(p) \/ Submit(p) \/ Exit(p)
        BY <3>3, RuntimeHeld, RuntimePubs
      <3>4. CASE StreamStep(p)
        BY <3>4, StreamHeld
      <3> QED
        BY <1>2, <3>1, <3>2, <3>3, <3>4
    <2> QED
      BY <2>1, PubsHeld, HeldKeeps DEF Held, Pubs
  <1> QED
    BY <1>1, <1>2 DEF Next, StreamStep

LEMMA HoldInit == Init => HoldInv
  <1> SUFFICES ASSUME Init PROVE HoldInv
    OBVIOUS
  <1>1. PICK s \in Scenarios : dirs = [d \in Dirs |-> IF d = "source" THEN s.source ELSE NoDir]
    BY DEF Init
  <1>2. IsDir(NoDir) /\ DOMAIN NoDir = DirFields
    BY DEF IsDir, NoDir, DirFields
  <1>3. IsDir(s.source)
    BY <1>1, <1>2, ScenarioAssumption DEF IsDir
  <1>4. dirs = [d \in Dirs |-> dirs[d]] /\ \A d \in Dirs : IsDir(dirs[d])
    BY <1>1, <1>2, <1>3
  <1>5. IsJob(NoJob) /\ NoJob.step = "none" /\ NoJob.cmd = "none" /\ NoJob.from = 0
    BY DEF IsJob, NoJob, JobFields, Dirs
  <1>6. IsRun(NoRuntime)
    BY DEF IsRun, RunFields, NoRuntime, NoProof, Dirs
  <1>7. Shapes
    <2>1. job = [p \in Proc |-> job[p]] /\ \A p \in Proc : IsJob(job[p])
      BY <1>5 DEF Init
    <2>2. runtime = [p \in Proc |-> runtime[p]] /\ \A p \in Proc : IsRun(runtime[p])
      BY <1>6 DEF Init
    <2>3. hostlock = [d \in Dirs |-> hostlock[d]] /\ space = [name \in Names |-> space[name]]
      BY DEF Init
    <2> QED
      BY <1>4, <2>1, <2>2, <2>3 DEF Shapes
  <1>8. PubShapes
    <2>1. pubs = <<>> /\ \A p \in Proc : job[p] = NoJob
      BY DEF Init
    <2>2. Listed(pubs) /\ Len(pubs) = 0
      BY <2>1 DEF Listed
    <2> QED
      BY <1>5, <2>1, <2>2 DEF PubShapes, JobPub, PubSteps
  <1>9. LockedExists
    BY DEF Init, LockedExists
  <1>10. ASSUME NEW p \in Proc PROVE JobFits(p) /\ RunFits(p)
    <2>1. job[p] = NoJob /\ runtime[p] = NoRuntime
      BY DEF Init
    <2>2. JobFits(p)
      BY <1>5, <2>1 DEF JobFits, WritingSteps, CapturingCommands
    <2>3. RunFits(p)
      BY <2>1 DEF RunFits, NoRuntime
    <2> QED
      BY <2>2, <2>3
  <1> QED
    BY <1>7, <1>8, <1>9, <1>10 DEF HoldInv

LEMMA HoldAlways == Spec => []HoldInv
  BY HoldInit, HoldStep, PTL DEF Spec

-----------------------------------------------------------------------------
(* The hubs in every step.                                                 *)

LEMMA HubsStep ==
    ASSUME HoldInv, HubsInv, [Next]_vars PROVE HubsInv'
  <1>0. HubInv(NewHub) /\ HubInv(NoHub)
    BY NewKeeps, ClosedKeeps DEF NoHub
  <1>1. CASE hub' = hub
    BY <1>1 DEF HubsInv
  <1>2. ASSUME NEW p \in Proc, NEW h, HubInv(h), WithHub(p, h) PROVE HubsInv'
    BY <1>2, HubsKept, Zenon DEF Hubs, WithHub
  <1>3. ASSUME NEW p \in Proc, RuntimeStep(p) \/ Submit(p) \/ Exit(p) PROVE HubsInv'
    <2>1. CASE openRuntime(p)
      BY <1>0, <1>2, <2>1 DEF openRuntime
    <2>2. CASE CloseRuntime(p) \/ Exit(p)
      BY <1>0, <1>2, <2>2 DEF CloseRuntime, Exit
    <2>3. CASE CloseHub(p)
      <3>1. HubInv(Closed(hub[p])) /\ WithHub(p, Closed(hub[p]))
        BY <2>3, ClosedKeeps DEF HubsInv, CloseHub, H
      <3> QED
        BY <1>2, <3>1
    <2>4. CASE StartupStep(p)
      <3>1. \A name, x, next : Phase(p, name, x, next) => hub' = hub
        BY DEF Phase, Untouched
      <3>2. hub' = hub
        BY <2>4, <3>1 DEF StartupStep, StartTTSGated, PreflightMandatory, TerminalizeRunning,
           ScanIntegrity, TerminalizeMandatory, Rescan, PreflightEligibility, PauseAdmissions,
           PreflightContentRefs, PreflightProjection, EvaluateFinalReadiness, BindHTTP,
           StartProjection, WaitProjectionReady, StartWorkersGated, StartHTTPGated,
           RequireCanonicalHead, ResumeAdmissions, OpenGate, Recovers, Scans
      <3> QED
        BY <1>1, <3>2
    <2>5. CASE ~openRuntime(p) /\ ~CloseRuntime(p) /\ ~Exit(p) /\ ~CloseHub(p) /\ ~StartupStep(p)
      <3>1. hub' = hub
        BY <1>3, <2>5 DEF RuntimeStep, Start, openRuntimeFails, FailGate, WorkersPassGate,
           WorkersExit, RequestArrives, RequestEnds, ProjectionCatchesUp, Stop, BeginShutdown,
           Drained, DrainTimesOut, SpeechExits, SpeechWaitTimesOut,
           closeRuntimeAfterHTTPDrain, CloseTimesOut, CloseProjections, Submit,
           Keep, Stays, Untouched
      <3> QED
        BY <1>1, <3>1
    <2> QED
      BY <1>3, <2>1, <2>2, <2>3, <2>4, <2>5
  <1>4. ASSUME NEW p \in Proc, StreamStep(p) PROVE HubsInv'
    <2>1. ASSUME NEW c \in Callers, Reply(p, c) PROVE Hubs(p)
      <3>1. dirs[R(p).dir].head \in Nat
        BY DEF HoldInv, Shapes, IsRun, IsDir, R
      <3>2. PICK e : e = dirs[R(p).dir].head + 1
        OBVIOUS
      <3>3. e \in Nat /\ ResidentCommitted(p, c, e)
        BY <2>1, <3>1, <3>2 DEF Reply
      <3> QED
        BY <3>3, DispatchHubs
    <2>2. CASE Notify(p)
      <3>1. \E type \in {"provisional", "status", "error"} : Transient(p, type)
        BY <2>2 DEF Notify, PublishProvisional, PublishStatus, PublishError
      <3> QED
        BY <3>1, StreamHubs, HubsKept
    <2>3. CASE Callback(p)
      <3>1. \/ \E c \in Callers : \/ PublishCommitted(p, c)
                                  \/ \E accepting : observe(p, c, accepting)
                                  \/ EnqueueCommitted(p, c)
            \/ \E l \in Listener : DropOldest(p, l) \/ Resend(p, l)
        BY <2>3, Zenon DEF Callback
      <3> QED
        BY <3>1, StreamHubs, DispatchHubs, ListenHubs, HubsKept
    <2>4. CASE Speak(p)
      <3>1. TakeRequest(p) \/ \E e : PublishAudio(p, e) \/ SynthesisFails(p, e)
        BY <2>4, Zenon DEF Speak
      <3> QED
        BY <3>1, StreamHubs, DispatchHubs, HubsKept
    <2>5. CASE Listen(p)
      <3>1. \E l \in Listener : \/ \E audio : SubscribeWithCapabilities(p, l, audio)
                                \/ Receive(p, l) \/ Unsubscribe(p, l)
        BY <2>5, Zenon DEF Listen
      <3> QED
        BY <3>1, ListenHubs, HubsKept
    <2> QED
      BY <1>4, <2>1, <2>2, <2>3, <2>4, <2>5, HubsKept DEF StreamStep
  <1>5. ASSUME NEW p \in Proc, Execute(p) \/ Running(p) PROVE HubsInv'
    BY <1>1, <1>5 DEF Execute, Running
  <1> QED
    BY <1>1, <1>3, <1>4, <1>5 DEF Next, StreamStep, vars

LEMMA HubsInit == Init => HubsInv
  BY NewKeeps, ClosedKeeps DEF Init, HubsInv, NoHub

LEMMA HubsAlways == Spec => []HubsInv
  <1>1. HubsInv /\ HoldInv /\ [Next]_vars => HubsInv'
    BY HubsStep
  <1> QED
    BY HoldAlways, HubsInit, <1>1, PTL DEF Spec

-----------------------------------------------------------------------------
(* What the event stream, the locks and the start-up promise.              *)

\* In every hub, however the callbacks of the two workers interleave with the
\* voice workers and the shutdown, audio follows its text and is published
\* once: the high-water mark lets an utterance be offered once, and a request
\* exists only for an utterance that was told.
THEOREM VoiceFollows == Spec => []AudioFollowsText
  <1>1. HubsInv => AudioFollowsText
    <2> SUFFICES ASSUME HubsInv PROVE AudioFollowsText
      OBVIOUS
    <2>1. DOMAIN hub = Proc
      BY DEF HubsInv
    <2>2. ASSUME NEW p \in Proc
          PROVE  VoiceOrder(hub[p].stream) /\ DOMAIN hub[p].stream = 1..Len(hub[p].stream)
      <3>1. IsHub(hub[p]) /\ VoiceInv(hub[p])
        BY DEF HubsInv, HubInv
      <3>2. hub[p].stream \in Seq(Utterance)
        BY <3>1 DEF IsHub
      <3> QED
        BY <3>1, <3>2 DEF VoiceInv
    <2> QED
      BY <2>1, <2>2 DEF AudioFollowsText, VoiceOrder, H
  <1> QED
    BY HubsAlways, <1>1, PTL

\* For every size of its queue, and whatever it takes between the operations of a
\* producer on it, a browser keeps the newest events in order: the drop made
\* room for the second attempt, because no other producer holds the mutex.
THEOREM SubscribersFollow == Spec => []FreshestKept
  <1>1. HubsInv => FreshestKept
    <2> SUFFICES ASSUME HubsInv PROVE FreshestKept
      OBVIOUS
    <2>1. DOMAIN hub = Proc
      BY DEF HubsInv
    <2>2. ASSUME NEW p \in Proc, NEW l \in Listener, hub[p].subscribers[l].open
          PROVE  Newest(Coming(hub[p], hub[p].subscribers[l]),
                        Audible(hub[p], hub[p].subscribers[l]), hub[p].subscribers[l].last)
      BY <2>2 DEF HubsInv, HubInv, ListenInv, Follows
    <2> QED
      BY <2>1, <2>2 DEF FreshestKept, Newest, H
  <1> QED
    BY HubsAlways, <1>1, PTL

LEMMA AtMostOne ==
    ASSUME NEW S, \A x, y \in S : x = y PROVE IsFiniteSet(S) /\ Cardinality(S) <= 1
  <1>1. CASE S = {}
    BY <1>1, FS_EmptySet
  <1>2. ASSUME NEW x \in S PROVE IsFiniteSet(S) /\ Cardinality(S) <= 1
    <2>1. S = {x}
      BY <1>2
    <2>2. IsFiniteSet({x}) /\ Cardinality({x}) = 1
      BY FS_Singleton, Zenon
    <2> QED
      BY <2>1, <2>2
  <1> QED
    BY <1>1, <1>2

\* Whoever writes to a directory holds its host lock.
LEMMA WritersHold ==
    ASSUME HoldInv, NEW p \in Proc, NEW d \in Dirs, Writing(p, d) PROVE hostlock[d] = p
  <1>1. JobFits(p) /\ RunFits(p)
    BY DEF HoldInv
  <1>2. CASE job[p].dir = d /\ job[p].step \in {"open", "apply", "rebuilt"}
    BY <1>1, <1>2 DEF JobFits, WritingSteps, InPlaceCommands
  <1>3. CASE R(p).dir = d /\ (R(p).store \/ R(p).projection = "running"
                               \/ R(p).workers = "active" \/ R(p).handlers = "active")
    BY <1>1, <1>3 DEF RunFits, R
  <1> QED
    BY <1>2, <1>3 DEF Writing

\* Two processes never write to one directory, whatever timeouts, failed
\* clean-ups and deaths came before, and the head a command captured is the head
\* of its source to its end: the host lock is held until nothing can write.
THEOREM SourcesHeld == Spec => []SourceHeld
  <1>1. HoldInv => SourceHeld
    <2> SUFFICES ASSUME HoldInv PROVE SourceHeld
      OBVIOUS
    <2>1. ASSUME NEW d \in Dirs PROVE Cardinality({p \in Proc : Writing(p, d)}) <= 1
      <3>1. \A x, y \in {p \in Proc : Writing(p, d)} : x = y
        BY WritersHold
      <3> QED
        BY <3>1, AtMostOne
    <2>2. ASSUME NEW p \in Proc, job[p].cmd \in {"backup", "export", "plan", "decide"},
                 job[p].step # "check"
          PROVE  /\ job[p].input = [dir |-> job[p].dir, commit |-> HeadCommit(job[p].dir)]
                 /\ \A other \in Proc \ {p} : ~Writing(other, job[p].dir)
      <3>1. JobFits(p) /\ job[p].dir \in Dirs
        BY DEF HoldInv, Shapes, IsJob
      <3>2. job[p].input = [dir |-> job[p].dir, commit |-> HeadCommit(job[p].dir)]
        BY <2>2, <3>1 DEF JobFits, CapturingCommands
      <3>3. hostlock[job[p].dir] = p
        BY <2>2, <3>1 DEF JobFits
      <3> QED
        BY <3>1, <3>2, <3>3, WritersHold
    <2> QED
      BY <2>1, <2>2 DEF SourceHeld
  <1> QED
    BY HoldAlways, <1>1, PTL

\* A step of a runtime, but for OpenGate, opens no gate.
LEMMA GateStays ==
    ASSUME HoldInv, NEW p \in Proc, RuntimeStep(p) \/ Submit(p) \/ Exit(p), ~OpenGate(p)
    PROVE  /\ \A q \in Proc \ {p} : runtime'[q] = runtime[q]
           /\ runtime'[p].gate \in {runtime[p].gate, "failed", "closed"}
  <1> DEFINE r == runtime[p]
  <1>0. runtime = [q \in Proc |-> runtime[q]] /\ IsRun(r)
    BY DEF HoldInv, Shapes
  <1>1. ASSUME NEW x, With(p, x), x.gate \in {r.gate, "failed", "closed"}
        PROVE  /\ \A q \in Proc \ {p} : runtime'[q] = runtime[q]
               /\ runtime'[p].gate \in {runtime[p].gate, "failed", "closed"}
    BY <1>0, <1>1 DEF With
  <1>2. CASE runtime' = runtime
    BY <1>2
  <1>3. NoRuntime = [f \in RunFields |-> NoRuntime[f]] /\ NoRuntime.gate = "closed"
    BY DEF NoRuntime, RunFields
  <1>4. CASE (\E d \in Dirs : Start(p, d)) \/ openRuntimeFails(p) \/ CloseRuntime(p) \/ Exit(p)
    <2>1. PICK x : /\ With(p, x)
                   /\ \/ \E d : x = [NoRuntime EXCEPT !.phase = "opening", !.dir = d]
                      \/ x = NoRuntime \/ \E b : x = [NoRuntime EXCEPT !.restart = b]
      BY <1>4, Zenon DEF Start, openRuntimeFails, CloseRuntime, Exit
    <2>2. x.gate = "closed"
      BY <1>3, <2>1 DEF RunFields
    <2> QED
      BY <1>1, <2>1, <2>2
  <1>5. CASE openRuntime(p)
    <2>1. PICK x : With(p, x) /\ x = [r EXCEPT !.phase = "starting", !.step = "StartTTSGated",
                                               !.store = TRUE]
      BY <1>5 DEF openRuntime, R
    <2>2. x.gate = r.gate
      BY <1>0, <2>1 DEF IsRun, RunFields
    <2> QED
      BY <1>1, <2>1, <2>2
  <1>6. CASE FailGate(p)
    <2>1. PICK v, x : With(p, x) /\ x = [r EXCEPT !.gate = "failed", !.phase = "closing",
                                                  !.speech = v]
      BY <1>6, Zenon DEF FailGate, R
    <2>2. x.gate = "failed"
      BY <1>0, <2>1 DEF IsRun, RunFields
    <2> QED
      BY <1>1, <2>1, <2>2
  <1>7. CASE StartupStep(p)
    <2>1. ASSUME NEW name, NEW x, NEW next, Phase(p, name, x, next),
                 x = [f \in RunFields |-> x[f]], x.gate = r.gate
          PROVE  /\ \A q \in Proc \ {p} : runtime'[q] = runtime[q]
                 /\ runtime'[p].gate \in {runtime[p].gate, "failed", "closed"}
      <3>1. PICK y : y = [x EXCEPT !.step = next]
        OBVIOUS
      <3>2. y.gate = r.gate
        BY <2>1, <3>1 DEF RunFields
      <3>3. With(p, y)
        BY <2>1, <3>1 DEF Phase
      <3> QED
        BY <1>1, <3>2, <3>3
    <2>2. ASSUME NEW name, NEW next, Phase(p, name, R(p), next)
          PROVE  /\ \A q \in Proc \ {p} : runtime'[q] = runtime[q]
                 /\ runtime'[p].gate \in {runtime[p].gate, "failed", "closed"}
      BY <1>0, <2>1, <2>2 DEF IsRun, R
    <2>3. ASSUME NEW name, NEW next, NEW f \in RunFields \ {"gate"}, NEW v,
                 Phase(p, name, [r EXCEPT ![f] = v], next)
          PROVE  /\ \A q \in Proc \ {p} : runtime'[q] = runtime[q]
                 /\ runtime'[p].gate \in {runtime[p].gate, "failed", "closed"}
      <3>1. PICK x : x = [r EXCEPT ![f] = v]
        OBVIOUS
      <3>2. x = [g \in RunFields |-> x[g]] /\ x.gate = r.gate
        BY <1>0, <3>1 DEF IsRun, RunFields
      <3> QED
        BY <2>1, <2>3, <3>1, <3>2
    <2>4. \/ \E name, next : Phase(p, name, R(p), next)
          \/ \E name, next, v : \/ Phase(p, name, [r EXCEPT !["speech"] = v], next)
                                \/ Phase(p, name, [r EXCEPT !["proven"] = v], next)
                                \/ Phase(p, name, [r EXCEPT !["paused"] = v], next)
                                \/ Phase(p, name, [r EXCEPT !["projection"] = v], next)
                                \/ Phase(p, name, [r EXCEPT !["workers"] = v], next)
      BY <1>7 DEF StartupStep, StartTTSGated, PreflightMandatory, TerminalizeRunning,
           ScanIntegrity, TerminalizeMandatory, Rescan, PreflightEligibility, PauseAdmissions,
           PreflightContentRefs, PreflightProjection, EvaluateFinalReadiness, BindHTTP,
           StartProjection, WaitProjectionReady, StartWorkersGated, StartHTTPGated,
           RequireCanonicalHead, ResumeAdmissions, Recovers, Scans, R
    <2> QED
      BY <2>2, <2>3, <2>4 DEF RunFields
  <1>8. CASE \/ WorkersPassGate(p) \/ WorkersExit(p) \/ RequestArrives(p) \/ RequestEnds(p)
             \/ Stop(p) \/ BeginShutdown(p) \/ Drained(p) \/ DrainTimesOut(p)
             \/ SpeechExits(p) \/ SpeechWaitTimesOut(p) \/ closeRuntimeAfterHTTPDrain(p)
             \/ CloseTimesOut(p) \/ CloseProjections(p)
    <2>1. ASSUME NEW f \in RunFields \ {"gate"}, NEW u, With(p, [r EXCEPT ![f] = u])
          PROVE  /\ \A q \in Proc \ {p} : runtime'[q] = runtime[q]
                 /\ runtime'[p].gate \in {runtime[p].gate, "failed", "closed"}
      <3>1. PICK x : x = [r EXCEPT ![f] = u]
        OBVIOUS
      <3>2. x.gate = r.gate
        BY <1>0, <3>1 DEF IsRun, RunFields
      <3> QED
        BY <1>1, <2>1, <3>1, <3>2
    <2>2. ASSUME NEW f \in RunFields \ {"gate"}, NEW g \in RunFields \ {"gate"}, NEW u, NEW v,
                 With(p, [r EXCEPT ![f] = u, ![g] = v])
          PROVE  /\ \A q \in Proc \ {p} : runtime'[q] = runtime[q]
                 /\ runtime'[p].gate \in {runtime[p].gate, "failed", "closed"}
      <3>1. PICK x : x = [r EXCEPT ![f] = u, ![g] = v]
        OBVIOUS
      <3>2. x.gate = r.gate
        BY <1>0, <3>1 DEF IsRun, RunFields
      <3> QED
        BY <1>1, <2>2, <3>1, <3>2
    <2>3. {"workers", "handlers", "cancelled", "speech", "phase", "projection", "drained",
           "restart"} \subseteq RunFields \ {"gate"}
      BY DEF RunFields
    <2>4. CASE \/ WorkersPassGate(p) \/ WorkersExit(p) \/ RequestArrives(p) \/ RequestEnds(p)
               \/ Stop(p)
      <3>1. \E u : \/ With(p, [r EXCEPT !["workers"] = u]) \/ With(p, [r EXCEPT !["handlers"] = u])
                   \/ With(p, [r EXCEPT !["cancelled"] = u])
        BY <2>4 DEF WorkersPassGate, WorkersExit, RequestArrives, RequestEnds, Stop, R
      <3> QED
        BY <2>1, <2>3, <3>1
    <2>5. CASE Drained(p) \/ SpeechExits(p) \/ CloseProjections(p)
      <3>1. \E u : \/ With(p, [r EXCEPT !["phase"] = u]) \/ With(p, [r EXCEPT !["speech"] = u])
                   \/ With(p, [r EXCEPT !["projection"] = u])
        BY <2>5 DEF Drained, SpeechExits, CloseProjections, R
      <3> QED
        BY <2>1, <2>3, <3>1
    <2>6. CASE BeginShutdown(p) \/ DrainTimesOut(p) \/ SpeechWaitTimesOut(p)
      <3>1. \E u, v : \/ With(p, [r EXCEPT !["phase"] = u, !["speech"] = v])
                      \/ With(p, [r EXCEPT !["phase"] = u, !["drained"] = v])
                      \/ With(p, [r EXCEPT !["speech"] = u, !["restart"] = v])
        BY <2>6 DEF BeginShutdown, DrainTimesOut, SpeechWaitTimesOut, R
      <3> QED
        BY <2>2, <2>3, <3>1
    <2>7. CASE closeRuntimeAfterHTTPDrain(p) \/ CloseTimesOut(p)
      <3>1. \E u, v : With(p, [r EXCEPT !["phase"] = u, !["restart"] = v])
        BY <2>7 DEF closeRuntimeAfterHTTPDrain, CloseTimesOut, Keep, R
      <3> QED
        BY <2>2, <2>3, <3>1
    <2> QED
      BY <1>8, <2>4, <2>5, <2>6, <2>7
  <1>9. CASE ProjectionCatchesUp(p) \/ Submit(p) \/ CloseHub(p)
    BY <1>2, <1>9 DEF ProjectionCatchesUp, Submit, CloseHub
  <1> QED
    BY <1>4, <1>5, <1>6, <1>7, <1>8, <1>9 DEF RuntimeStep

\* The gate opens on the head the readiness proof was made for: recovery and
\* scans commit before the proof, admissions are paused and every worker waits
\* from the proof to the gate, and the process alone holds the directory.
THEOREM OpensOnProof == Spec => OpensProven
  <1> DEFINE Opens(p) == R(p).gate = "closed" /\ runtime'[p].gate = "open"
             Proven(p) == /\ dirs[R(p).dir].head = R(p).proven.head /\ dirs' = dirs
                          /\ ~R(p).paused /\ R(p).projection = "running"
                          /\ R(p).workers = "gated" /\ R(p).handlers = "none"
  <1>1. ASSUME HoldInv, NEW p \in Proc, OpenGate(p) PROVE Proven(p)
    <2>1. runtime[p].phase = "starting" /\ runtime[p].step = "OpenGate" /\ dirs' = dirs
      BY <1>1 DEF OpenGate, Phase, R
    <2>2. StartupFits(runtime[p], "OpenGate", dirs[runtime[p].dir].head)
      BY <1>1, <2>1 DEF HoldInv, RunFits
    <2> QED
      BY <2>1, <2>2 DEF StartupFits, BehindProjection, BehindWorkers, R
  <1>2. ASSUME HoldInv, Next, NEW p \in Proc, Opens(p) PROVE OpenGate(p)
    <2>1. runtime' # runtime
      BY <1>2 DEF R
    <2>2. PICK q \in Proc : RuntimeStep(q) \/ Submit(q) \/ Exit(q)
      BY <1>2, <2>1 DEF Next, Execute, Running, Reply, Notify, Callback, Speak, Listen, Stream
    <2>3. CASE OpenGate(q)
      <3>1. PICK x : With(q, x)
        BY <2>3, Zenon DEF OpenGate, Phase
      <3>2. q = p
        BY <1>2, <3>1 DEF HoldInv, Shapes, With, R
      <3> QED
        BY <2>3, <3>2
    <2>4. CASE ~OpenGate(q)
      BY <1>2, <2>2, <2>4, GateStays DEF R
    <2> QED
      BY <2>3, <2>4
  <1>3. HoldInv /\ [Next]_vars =>
            [\A p \in Proc : Opens(p) => Proven(p)]_<<runtime, dirs>>
    BY <1>1, <1>2 DEF vars
  <1> QED
    BY HoldAlways, <1>3, PTL DEF Spec, OpensProven

-----------------------------------------------------------------------------
(* Publications.                                                           *)

Publishing == {"backup", "restore", "export", "plan", "decide"}

\* Before and after the rename.
Early == {"build", "register", "recover", "rebuild", "closed", "internal", "sibling", "seal",
          "rename"}
Late == {"authenticate", "clean", "unmark", "barrier"}

Works(p) == job[p].step \in PubSteps

\* One publication: nothing is announced or placed before it is whole, and a
\* single file has no marker inside.
PubFits(q) ==
    /\ q.cmd \in Publishing /\ q.target = TargetOf(q.cmd)
    /\ q.place \in {"staging", "target", "gone"}
    /\ q.place = "target" \/ q.sibling # "none" => q.whole
    /\ ~Directory(q.target) => ~q.internal /\ ~q.caller

\* What could be taken for a bundle.
BundleTraces == Placed("bundle") \cup Siblings("bundle")

\* A command holds the namespace of its target from the decision to the end, and
\* what it has at hand is as far as the command is.
WorkFits(p) ==
    LET j == job[p]  q == pubs[j.pub] IN
    /\ j.step = "space" => j.cmd \in CapturingCommands
    /\ j.step = "decide" \/ Works(p) => j.cmd \in Publishing /\ space[TargetOf(j.cmd)] = p
    /\ Works(p) =>
         /\ q.cmd = j.cmd /\ q.input = j.input
         /\ q.place = IF j.step \in Early THEN "staging" ELSE "target"
         /\ j.step \in {"internal", "sibling", "seal", "rename"} => q.whole
         /\ j.step \in {"register", "recover", "rebuild", "closed", "internal"} =>
              Directory(q.target)
         /\ j.step \in {"unmark", "barrier"} => ~q.internal /\ ~q.caller
         /\ j.step = "barrier" => q.sibling = "none"
         /\ j.cmd = "backup" /\ j.step \in Early => BundleTraces \subseteq {j.pub}

\* What a command works from: a restore from the bundle, a decision and an
\* erasure from a plan that no command is still publishing.
FromFits(p) ==
    LET j == job[p] IN
    j.from # 0 =>
        \/ j.cmd = "restore" /\ j.from \in Placed("bundle") /\ j.input = BundleInput(j.from)
        \/ /\ j.cmd \in {"decide", "apply"} /\ j.from \in Placed("plan")
           /\ \A q \in Proc : Works(q) => job[q].pub # j.from

\* A reported publication is finished; only a second restore that finds a
\* marker of an interrupted one goes over it again.
ReportFits(r) ==
    LET q == pubs[r.pub] IN
    /\ r.pub \in 1..Len(pubs)
    /\ q.place = "target" /\ ~q.internal /\ ~q.caller /\ q.sibling = "none"
    /\ q.cmd = r.cmd /\ q.input = r.input
    /\ \A p \in Proc : Works(p) /\ job[p].pub = r.pub => job[p].step \in Late /\ Directory(q.target)

RestoredFits ==
    /\ \A i \in 1..Len(pubs) : pubs[i].target = "restored" =>
         \E b \in Placed("bundle") : pubs[i].input = BundleInput(b)
    /\ Placed("restored") # {} => dirs["restored"].exists

PubInv ==
    /\ \A i \in 1..Len(pubs) : PubFits(pubs[i])
    /\ \A i, k \in BundleTraces : i = k
    /\ \A name \in Names : \A i, k \in Placed(name) : i = k
    /\ RestoredFits
    /\ \A p \in Proc : WorkFits(p) /\ FromFits(p)
    /\ \A r \in reported : ReportFits(r)

LEMMA Targets ==
    /\ TargetOf("backup") = "bundle" /\ TargetOf("restore") = "restored"
    /\ TargetOf("export") = "export" /\ TargetOf("plan") = "plan"
    /\ TargetOf("decide") = "decided"
    /\ \A c \in Publishing : TargetOf(c) \in Names
  <1>1. /\ TargetOf("backup") = "bundle" /\ TargetOf("restore") = "restored"
        /\ TargetOf("export") = "export" /\ TargetOf("plan") = "plan"
        /\ TargetOf("decide") = "decided"
    BY DEF TargetOf
  <1> QED
    BY <1>1 DEF Publishing, Names, Dirs, ArtifactNames

\* Two commands never have one publication at hand, or two of one target.
LEMMA WorkersApart ==
    ASSUME PubInv, PubShapes, NEW p \in Proc, NEW q \in Proc \ {p}, Works(p), Works(q)
    PROVE  /\ job[p].pub # job[q].pub
           /\ pubs[job[p].pub].target # pubs[job[q].pub].target
  <1>1. WorkFits(p) /\ WorkFits(q)
    BY DEF PubInv
  <1>2. job[p].pub \in 1..Len(pubs) /\ job[q].pub \in 1..Len(pubs)
    BY DEF PubShapes, JobPub, Works
  <1>3. PubFits(pubs[job[p].pub]) /\ PubFits(pubs[job[q].pub])
    BY <1>2 DEF PubInv
  <1>4. space[pubs[job[p].pub].target] = p /\ space[pubs[job[q].pub].target] = q
    BY <1>1, <1>3 DEF WorkFits, PubFits
  <1> QED
    BY <1>4

\* The same publication, but for the payload and what happened to it since.
Like(x, y) ==
    /\ x.cmd = y.cmd /\ x.target = y.target /\ x.input = y.input /\ x.place = y.place
    /\ x.whole = y.whole /\ x.internal = y.internal /\ x.caller = y.caller
    /\ x.sibling = y.sibling

Mine(p, k) == Works(p) /\ k = job[p].pub

\* What the command does to the publication x it has at hand.
Advances(p, x, y) ==
    /\ PubFits(y) /\ y.cmd = x.cmd /\ y.input = x.input
    /\ x.place = "target" /\ Directory(x.target) => y.place = "target"
    /\ y.place = "target" /\ x.place # "target" =>
         /\ Placed(x.target) = {}
         /\ x.target = "restored" => dirs'["restored"].exists
    /\ job[p].step \in Late /\ Directory(x.target) =>
         /\ ~x.internal => ~y.internal
         /\ ~x.caller => ~y.caller
         /\ x.sibling = "none" => y.sibling = "none"

Fresh(q) ==
    /\ PubFits(q) /\ q.place = "staging" /\ q.sibling = "none"
    /\ q.target = "restored" => \E b \in Placed("bundle") : q.input = BundleInput(b)

\* A step of process p, as the publications see it.
Moves(p) ==
    /\ \A q \in Proc \ {p} : job'[q] = job[q]
    /\ \A name \in Names : space[name] \notin {p, Free} => space'[name] = space[name]
    /\ Listed(pubs') /\ Len(pubs') >= Len(pubs)
    /\ \A k \in 1..Len(pubs) : ~Mine(p, k) => Like(pubs'[k], pubs[k])
    /\ \A k \in 1..Len(pubs') : k > Len(pubs) => Fresh(pubs'[k])
    /\ Works(p) => Advances(p, pubs[job[p].pub], pubs'[job[p].pub])
    /\ dirs["restored"].exists => dirs'["restored"].exists

LEMMA MovesPlaced ==
    ASSUME HoldInv, PubInv, NEW p \in Proc, Moves(p)
    PROVE  /\ \A k \in 1..Len(pubs') : PubFits(pubs'[k])
           /\ \A k \in 1..Len(pubs) : /\ k \in 1..Len(pubs') /\ pubs'[k].target = pubs[k].target
                                      /\ pubs'[k].cmd = pubs[k].cmd
                                      /\ pubs'[k].input = pubs[k].input
           /\ \A name : \A k \in Placed(name)' :
                k \in Placed(name) \/ (Mine(p, k) /\ pubs[k].target = name /\ Placed(name) = {})
           /\ Placed("bundle") \subseteq Placed("bundle")'
           /\ \A name : \A k \in Placed(name) : ~Mine(p, k) => k \in Placed(name)'
           /\ BundleTraces' \subseteq
                BundleTraces \cup {k \in 1..Len(pubs) : Mine(p, k) /\ pubs[k].target = "bundle"}
  <1>0. /\ DOMAIN pubs = 1..Len(pubs) /\ Len(pubs) \in Nat
        /\ DOMAIN pubs' = 1..Len(pubs') /\ Len(pubs') \in Nat /\ Len(pubs') >= Len(pubs)
    BY DEF HoldInv, PubShapes, Listed, Moves
  <1>1. Works(p) => job[p].pub \in 1..Len(pubs)
    BY DEF HoldInv, PubShapes, JobPub, Works
  <1>2. \A k \in 1..Len(pubs) : PubFits(pubs[k])
    BY DEF PubInv
  <1>3. \A k \in 1..Len(pubs) : Mine(p, k) => Advances(p, pubs[k], pubs'[k])
    BY DEF Moves, Mine
  <1>4. ASSUME NEW k \in 1..Len(pubs)
        PROVE  /\ k \in 1..Len(pubs') /\ PubFits(pubs'[k])
               /\ pubs'[k].target = pubs[k].target /\ pubs'[k].cmd = pubs[k].cmd
               /\ pubs'[k].input = pubs[k].input
    <2>0. k \in 1..Len(pubs') /\ PubFits(pubs[k])
      BY <1>0, <1>2
    <2>1. CASE Mine(p, k)
      BY <1>3, <2>0, <2>1 DEF Advances, PubFits
    <2>2. CASE ~Mine(p, k)
      <3>1. Like(pubs'[k], pubs[k])
        BY <2>2 DEF Moves
      <3> QED
        BY <2>0, <3>1 DEF Like, PubFits
    <2> QED
      BY <2>1, <2>2
  <1>5. ASSUME NEW k \in 1..Len(pubs'), k \notin 1..Len(pubs) PROVE Fresh(pubs'[k])
    BY <1>0, <1>5 DEF Moves
  <1>6. \A k \in 1..Len(pubs') : PubFits(pubs'[k])
    BY <1>4, <1>5 DEF Fresh
  <1>7. ASSUME NEW name, NEW k \in Placed(name)'
        PROVE  k \in Placed(name) \/ (Mine(p, k) /\ pubs[k].target = name /\ Placed(name) = {})
    <2>1. k \in 1..Len(pubs') /\ pubs'[k].target = name /\ pubs'[k].place = "target"
      BY <1>0 DEF Placed
    <2>2. k \in 1..Len(pubs)
      BY <1>5, <2>1 DEF Fresh
    <2>3. pubs[k].target = name
      BY <1>4, <2>1, <2>2
    <2>4. CASE pubs[k].place = "target"
      BY <1>0, <2>2, <2>3, <2>4 DEF Placed
    <2>5. CASE pubs[k].place # "target"
      <3>1. Mine(p, k)
        BY <2>1, <2>2, <2>5 DEF Moves, Like
      <3> QED
        BY <1>3, <2>1, <2>2, <2>3, <2>5, <3>1 DEF Advances
    <2> QED
      BY <2>4, <2>5
  <1>8. ASSUME NEW name, NEW k \in Placed(name), ~Mine(p, k) PROVE k \in Placed(name)'
    <2>1. k \in 1..Len(pubs) /\ pubs[k].target = name /\ pubs[k].place = "target"
      BY <1>0 DEF Placed
    <2>2. Like(pubs'[k], pubs[k])
      BY <1>8, <2>1 DEF Moves
    <2> QED
      BY <1>0, <1>4, <2>1, <2>2 DEF Placed, Like
  <1>9. ASSUME NEW k \in Placed("bundle") PROVE k \in Placed("bundle")'
    <2>1. k \in 1..Len(pubs) /\ pubs[k].target = "bundle" /\ pubs[k].place = "target"
      BY <1>0 DEF Placed
    <2>2. CASE Mine(p, k)
      <3>1. pubs'[k].place = "target"
        BY <1>3, <2>1, <2>2 DEF Advances, Directory
      <3> QED
        BY <1>0, <1>4, <2>1, <3>1 DEF Placed
    <2> QED
      BY <1>8, <2>2
  <1>10. ASSUME NEW k \in BundleTraces'
         PROVE  \/ k \in BundleTraces
                \/ k \in 1..Len(pubs) /\ Mine(p, k) /\ pubs[k].target = "bundle"
    <2>1. /\ k \in 1..Len(pubs') /\ pubs'[k].target = "bundle"
          /\ pubs'[k].place = "target" \/ pubs'[k].sibling # "none"
      BY <1>0 DEF BundleTraces, Placed, Siblings
    <2>2. k \in 1..Len(pubs)
      BY <1>5, <2>1 DEF Fresh
    <2>3. CASE ~Mine(p, k)
      <3>1. Like(pubs'[k], pubs[k])
        BY <2>2, <2>3 DEF Moves
      <3> QED
        BY <1>0, <2>1, <2>2, <3>1 DEF BundleTraces, Placed, Siblings, Like
    <2> QED
      BY <1>4, <2>1, <2>2, <2>3
  <1> QED
    BY <1>4, <1>6, <1>7, <1>8, <1>9, <1>10

LEMMA MovesApart ==
    ASSUME HoldInv, PubInv, NEW p \in Proc, Moves(p)
    PROVE  /\ \A i, k \in BundleTraces' : i = k
           /\ \A name \in Names : \A i, k \in Placed(name)' : i = k
           /\ RestoredFits'
  <1>0. /\ DOMAIN pubs = 1..Len(pubs) /\ Len(pubs) \in Nat
        /\ DOMAIN pubs' = 1..Len(pubs') /\ Len(pubs') \in Nat /\ Len(pubs') >= Len(pubs)
    BY DEF HoldInv, PubShapes, Listed, Moves
  <1>1. ASSUME NEW i \in BundleTraces', NEW k \in BundleTraces' PROVE i = k
    <2>0. ASSUME NEW x \in 1..Len(pubs), Mine(p, x), pubs[x].target = "bundle"
          PROVE  BundleTraces \subseteq {x}
      <3>1. WorkFits(p) /\ PubFits(pubs[x])
        BY DEF PubInv
      <3>2. pubs[x].cmd = job[p].cmd /\ job[p].cmd = "backup"
        BY <2>0, <3>1, Targets DEF WorkFits, Mine, PubFits, Publishing
      <3>3. CASE job[p].step \in Early
        BY <2>0, <3>1, <3>2, <3>3 DEF WorkFits, Mine
      <3>4. CASE job[p].step \notin Early
        <4>1. x \in BundleTraces
          BY <1>0, <2>0, <3>1, <3>4 DEF WorkFits, Mine, BundleTraces, Placed
        <4> QED
          BY <4>1 DEF PubInv
      <3> QED
        BY <3>3, <3>4
    <2>1. ASSUME NEW x \in BundleTraces', x \notin BundleTraces
          PROVE  BundleTraces' = {x}
      <3>1. x \in 1..Len(pubs) /\ Mine(p, x) /\ pubs[x].target = "bundle"
        BY <2>1, MovesPlaced
      <3>2. BundleTraces \subseteq {x}
        BY <2>0, <3>1
      <3>3. \A y \in BundleTraces' : y \in BundleTraces \/ Mine(p, y)
        BY MovesPlaced
      <3> QED
        BY <3>1, <3>2, <3>3 DEF Mine
    <2> QED
      BY <2>1 DEF PubInv
  <1>2. ASSUME NEW name \in Names, NEW i \in Placed(name)', NEW k \in Placed(name)' PROVE i = k
    <2>1. /\ i \in Placed(name) \/ (Mine(p, i) /\ Placed(name) = {})
          /\ k \in Placed(name) \/ (Mine(p, k) /\ Placed(name) = {})
      BY MovesPlaced
    <2>2. CASE i \in Placed(name) /\ k \in Placed(name)
      BY <2>2 DEF PubInv
    <2> QED
      BY <2>1, <2>2 DEF Mine
  <1>3. ASSUME NEW k \in 1..Len(pubs'), pubs'[k].target = "restored"
        PROVE  \E b \in Placed("bundle")' : pubs'[k].input = BundleInput(b)
    <2>1. CASE k \in 1..Len(pubs)
      <3>1. pubs[k].target = "restored" /\ pubs'[k].input = pubs[k].input
        BY <1>3, <2>1, MovesPlaced
      <3>2. \E b \in Placed("bundle") : pubs[k].input = BundleInput(b)
        BY <2>1, <3>1 DEF PubInv, RestoredFits
      <3> QED
        BY <3>1, <3>2, MovesPlaced
    <2>2. CASE k \notin 1..Len(pubs)
      <3>1. Fresh(pubs'[k])
        BY <1>0, <2>2 DEF Moves
      <3> QED
        BY <1>3, <3>1, MovesPlaced DEF Fresh
    <2> QED
      BY <2>1, <2>2
  <1>4. ASSUME NEW k \in Placed("restored")' PROVE dirs'["restored"].exists
    <2>1. CASE k \in Placed("restored")
      BY <2>1 DEF PubInv, RestoredFits, Moves
    <2>2. CASE k \notin Placed("restored")
      <3>1. Mine(p, k) /\ pubs[k].target = "restored"
        BY <2>2, MovesPlaced
      <3>2. pubs[k].place # "target" /\ pubs'[k].place = "target"
        BY <1>0, <2>2, <3>1 DEF Placed, HoldInv, PubShapes, JobPub, Mine, Works
      <3> QED
        BY <3>1, <3>2 DEF Moves, Mine, Advances
    <2> QED
      BY <2>1, <2>2
  <1> QED
    BY <1>1, <1>2, <1>3, <1>4 DEF RestoredFits, BundleInput

LEMMA MovesOthers ==
    ASSUME HoldInv, PubInv, NEW p \in Proc, Moves(p), NEW q \in Proc \ {p}
    PROVE  WorkFits(q)'
  <1>1. WorkFits(q) /\ job'[q] = job[q]
    BY DEF PubInv, Moves
  <1>2. ASSUME job[q].cmd \in Publishing, space[TargetOf(job[q].cmd)] = q
        PROVE  space'[TargetOf(job[q].cmd)] = q
    BY <1>2, Targets, PublicationAssumption DEF Moves
  <1>3. CASE ~Works(q)
    <2>1. job'[q].step \notin PubSteps
      BY <1>1, <1>3 DEF Works
    <2> QED
      BY <1>1, <1>2, <1>3, <2>1 DEF WorkFits, Works
  <1>4. CASE Works(q)
    <2>1. job[q].pub \in 1..Len(pubs)
      BY <1>4 DEF HoldInv, PubShapes, JobPub, Works
    <2>2. ~Mine(p, job[q].pub)
      BY <1>4, WorkersApart DEF HoldInv, Mine
    <2>3. Like(pubs'[job[q].pub], pubs[job[q].pub])
      BY <2>1, <2>2 DEF Moves
    <2>4. job[q].cmd = "backup" => BundleTraces' \subseteq BundleTraces
      <3>1. SUFFICES ASSUME job[q].cmd = "backup", NEW k \in 1..Len(pubs), Mine(p, k),
                            pubs[k].target = "bundle"
                     PROVE  FALSE
        BY MovesPlaced
      <3>2. pubs[job[q].pub].target = "bundle"
        BY <1>1, <1>4, <2>1, <3>1, Targets DEF WorkFits, PubInv, PubFits
      <3> QED
        BY <1>4, <3>1, <3>2, WorkersApart DEF HoldInv, Mine
    <2>5. Works(q)'
      BY <1>1, <1>4 DEF Works
    <2>6. space'[TargetOf(job[q].cmd)] = q /\ job[q].cmd \in Publishing
      BY <1>1, <1>2, <1>4 DEF WorkFits
    <2> QED
      BY <1>1, <1>4, <2>3, <2>4, <2>5, <2>6 DEF WorkFits, Like
  <1> QED
    BY <1>3, <1>4

\* The publication a command has at hand after a step.
Picks(p) ==
    Works(p)' =>
        \/ /\ Works(p) /\ job'[p].pub = job[p].pub
           /\ job[p].step \in Late => job'[p].step \in Late
        \/ job'[p].pub > Len(pubs)
        \/ /\ job'[p].pub \in 1..Len(pubs)
           /\ LET x == pubs[job'[p].pub] IN
              \/ Directory(x.target) /\ job'[p].step \in Late
              \/ x.target = "export" /\ x.sibling # "none"

\* What it works from.
Draws(p) ==
    \/ job'[p].from = 0
    \/ /\ job'[p].from = job[p].from /\ job'[p].cmd = job[p].cmd
       /\ job'[p].input = job[p].input
    \/ /\ job'[p].cmd = "restore" /\ job'[p].from \in Placed("bundle")
       /\ job'[p].input = BundleInput(job'[p].from)
    \/ /\ job'[p].cmd \in {"decide", "apply"} /\ job'[p].from \in ReadPlan("plan")
       /\ ~Works(p) /\ ~Works(p)'

LEMMA PlanUntouched ==
    ASSUME HoldInv, PubInv, NEW p \in Proc, Moves(p), Picks(p), NEW k \in Placed("plan"),
           \A q \in Proc : Works(q) => job[q].pub # k
    PROVE  k \in Placed("plan")' /\ \A q \in Proc : Works(q)' => job'[q].pub # k
  <1>1. k \in 1..Len(pubs) /\ pubs[k].target = "plan"
    BY DEF HoldInv, PubShapes, Listed, Placed
  <1>2. k \in Placed("plan")'
    BY MovesPlaced DEF Mine
  <1>3. ASSUME NEW q \in Proc \ {p}, Works(q)' PROVE job'[q].pub # k
    BY <1>3 DEF Moves, Works
  <1>4. ASSUME Works(p)' PROVE job'[p].pub # k
    BY <1>1, <1>4 DEF Picks, Directory
  <1> QED
    BY <1>2, <1>3, <1>4

LEMMA MovesFrom ==
    ASSUME HoldInv, PubInv, NEW p \in Proc, Moves(p), Picks(p), Draws(p), NEW q \in Proc
    PROVE  FromFits(q)'
  <1>1. ASSUME job'[q].from = job[q].from, job'[q].cmd = job[q].cmd, job'[q].input = job[q].input
        PROVE  FromFits(q)'
    <2>1. FromFits(q)
      BY DEF PubInv
    <2>2. CASE job[q].from = 0
      BY <1>1, <2>2 DEF FromFits
    <2>3. CASE /\ job[q].cmd = "restore" /\ job[q].from \in Placed("bundle")
               /\ job[q].input = BundleInput(job[q].from)
      BY <1>1, <2>3, MovesPlaced DEF FromFits, BundleInput
    <2>4. CASE /\ job[q].cmd \in {"decide", "apply"} /\ job[q].from \in Placed("plan")
               /\ \A x \in Proc : Works(x) => job[x].pub # job[q].from
      <3>1. /\ job[q].from \in Placed("plan")'
            /\ \A x \in Proc : Works(x)' => job'[x].pub # job[q].from
        BY <2>4, PlanUntouched
      <3> QED
        BY <1>1, <2>4, <3>1 DEF FromFits
    <2> QED
      BY <2>1, <2>2, <2>3, <2>4 DEF FromFits
  <1>2. CASE q # p
    BY <1>1, <1>2 DEF Moves
  <1>3. CASE q = p /\ job'[p].from = 0
    BY <1>3 DEF FromFits
  <1>4. CASE /\ q = p /\ job'[p].cmd = "restore" /\ job'[p].from \in Placed("bundle")
             /\ job'[p].input = BundleInput(job'[p].from)
    BY <1>4, MovesPlaced DEF FromFits, BundleInput
  <1>5. CASE /\ q = p /\ job'[p].cmd \in {"decide", "apply"} /\ job'[p].from \in ReadPlan("plan")
             /\ ~Works(p) /\ ~Works(p)'
    <2>1. space["plan"] = Free /\ job'[p].from \in Placed("plan")
      BY <1>5 DEF ReadPlan
    <2>2. ASSUME NEW x \in Proc, Works(x), job[x].pub = job'[p].from PROVE FALSE
      <3>1. pubs[job[x].pub].target = "plan" /\ job[x].pub \in 1..Len(pubs)
        BY <2>1, <2>2 DEF Placed, HoldInv, PubShapes, Listed
      <3>2. space["plan"] = x
        BY <2>2, <3>1 DEF PubInv, WorkFits, PubFits
      <3> QED
        BY <2>1, <3>2, PublicationAssumption
    <2>3. /\ job'[p].from \in Placed("plan")'
          /\ \A x \in Proc : Works(x)' => job'[x].pub # job'[p].from
      <3>1. PICK k : k = job'[p].from
        OBVIOUS
      <3>2. k \in Placed("plan") /\ \A x \in Proc : Works(x) => job[x].pub # k
        BY <2>1, <2>2, <3>1
      <3> QED
        BY <3>1, <3>2, PlanUntouched
    <2> QED
      BY <1>5, <2>3 DEF FromFits
  <1> QED
    BY <1>1, <1>2, <1>3, <1>4, <1>5 DEF Draws

LEMMA MovesReported ==
    ASSUME HoldInv, PubInv, NEW p \in Proc, Moves(p), Picks(p), NEW r \in reported
    PROVE  ReportFits(r)'
  <1>0. ReportFits(r) /\ r.pub \in 1..Len(pubs)
    BY DEF PubInv, ReportFits
  <1>1. /\ r.pub \in 1..Len(pubs') /\ pubs'[r.pub].target = pubs[r.pub].target
        /\ pubs'[r.pub].cmd = pubs[r.pub].cmd /\ pubs'[r.pub].input = pubs[r.pub].input
    BY <1>0, MovesPlaced
  <1>2. /\ pubs'[r.pub].place = "target" /\ ~pubs'[r.pub].internal /\ ~pubs'[r.pub].caller
        /\ pubs'[r.pub].sibling = "none"
    <2>1. CASE Mine(p, r.pub)
      <3>1. Advances(p, pubs[r.pub], pubs'[r.pub])
        BY <2>1 DEF Moves, Mine
      <3>2. job[p].step \in Late /\ Directory(pubs[r.pub].target)
        BY <1>0, <2>1 DEF ReportFits, Mine
      <3> QED
        BY <1>0, <3>1, <3>2 DEF Advances, ReportFits
    <2>2. CASE ~Mine(p, r.pub)
      BY <1>0, <2>2 DEF Moves, Like, ReportFits
    <2> QED
      BY <2>1, <2>2
  <1>3. ASSUME NEW q \in Proc, Works(q)', job'[q].pub = r.pub
        PROVE  job'[q].step \in Late /\ Directory(pubs[r.pub].target)
    <2>1. CASE q # p
      BY <1>0, <1>3, <2>1 DEF Moves, Works, ReportFits
    <2>2. CASE q = p
      <3>1. CASE Works(p) /\ job'[p].pub = job[p].pub /\ (job[p].step \in Late => job'[p].step \in Late)
        BY <1>0, <1>3, <2>2, <3>1 DEF ReportFits
      <3>2. CASE job'[p].pub > Len(pubs)
        <4>1. Len(pubs) \in Nat
          BY DEF HoldInv, PubShapes, Listed
        <4> QED
          BY <1>0, <1>3, <2>2, <3>2, <4>1
      <3>3. CASE Directory(pubs[r.pub].target) /\ job'[p].step \in Late
        BY <2>2, <3>3
      <3>4. CASE pubs[r.pub].sibling # "none"
        BY <1>0, <3>4 DEF ReportFits
      <3> QED
        BY <1>3, <2>2, <3>1, <3>2, <3>3, <3>4 DEF Picks
    <2> QED
      BY <2>1, <2>2
  <1> QED
    BY <1>0, <1>1, <1>2, <1>3 DEF ReportFits

Reports(p) ==
    /\ job[p].step = "barrier" /\ pubs' = pubs /\ ~Works(p)'
    /\ reported' = reported \cup {[pub |-> job[p].pub, cmd |-> job[p].cmd, input |-> job[p].input]}

LEMMA ReportedFits ==
    ASSUME HoldInv, PubInv, NEW p \in Proc, Moves(p), Reports(p), NEW r,
           r = [pub |-> job[p].pub, cmd |-> job[p].cmd, input |-> job[p].input]
    PROVE  ReportFits(r)'
  <1>1. Works(p) /\ WorkFits(p) /\ job[p].step = "barrier"
    BY DEF Reports, Works, PubSteps, PubInv
  <1>2. job[p].pub \in 1..Len(pubs) /\ pubs' = pubs
    BY <1>1 DEF HoldInv, PubShapes, JobPub, Works, Reports
  <1>3. /\ pubs[job[p].pub].place = "target" /\ ~pubs[job[p].pub].internal
        /\ ~pubs[job[p].pub].caller /\ pubs[job[p].pub].sibling = "none"
        /\ pubs[job[p].pub].cmd = job[p].cmd /\ pubs[job[p].pub].input = job[p].input
    BY <1>1 DEF WorkFits, Early
  <1>4. ASSUME NEW q \in Proc, Works(q)', job'[q].pub = job[p].pub PROVE FALSE
    <2>1. q # p
      BY <1>4 DEF Reports
    <2>2. Works(q) /\ job[q].pub = job[p].pub
      BY <1>4, <2>1 DEF Moves, Works
    <2> QED
      BY <1>1, <2>1, <2>2, WorkersApart DEF HoldInv
  <1> QED
    BY <1>2, <1>3, <1>4 DEF ReportFits

LEMMA PubKeeps ==
    ASSUME HoldInv, PubInv, NEW p \in Proc, Moves(p), Picks(p), Draws(p), WorkFits(p)',
           reported' = reported \/ Reports(p)
    PROVE  PubInv'
  <1>1. \A k \in 1..Len(pubs') : PubFits(pubs'[k])
    BY MovesPlaced
  <1>2. /\ \A i, k \in BundleTraces' : i = k
        /\ \A name \in Names : \A i, k \in Placed(name)' : i = k
        /\ RestoredFits'
    BY MovesApart
  <1>3. \A q \in Proc : WorkFits(q)' /\ FromFits(q)'
    BY MovesOthers, MovesFrom
  <1>4. ASSUME NEW r \in reported' PROVE ReportFits(r)'
    BY MovesReported, ReportedFits DEF Reports
  <1> QED
    BY <1>1, <1>2, <1>3, <1>4 DEF PubInv

-----------------------------------------------------------------------------
(* Every step, as the publications see it.                                 *)

SpaceKept(p) == \A name \in Names : space[name] \notin {p, Free} => space'[name] = space[name]

LEMMA SpaceKeeps ==
    ASSUME Shapes, NEW p \in Proc
    PROVE  /\ space' = space => SpaceKept(p)
           /\ space' = Unlocked(space, p) => SpaceKept(p)
           /\ \A name : AcquireExistingParent(p, name) => SpaceKept(p)
  BY DEF Shapes, SpaceKept, Unlocked, AcquireExistingParent

\* The step leaves the publications as they were, but for a payload.
Alike == Len(pubs') = Len(pubs) /\ \A k \in 1..Len(pubs) : Like(pubs'[k], pubs[k])

LEMMA AlikeSteps ==
    ASSUME PubShapes
    PROVE  /\ pubs' = pubs => Alike
           /\ \A d : Touched(d) => Alike
  <1>1. Listed(pubs) /\ DOMAIN pubs = 1..Len(pubs)
    BY DEF PubShapes, Listed
  <1>2. ASSUME pubs' = pubs PROVE Alike
    BY <1>2 DEF Alike, Like
  <1>3. ASSUME NEW d, Touched(d) PROVE Alike
    <2>1. Len(pubs') = Len(pubs)
      BY <1>3, TouchedListed
    <2>2. ASSUME NEW k \in 1..Len(pubs) PROVE Like(pubs'[k], pubs[k])
      <3>1. IsPub(pubs[k]) /\ k \in DOMAIN pubs
        BY <1>1 DEF Listed
      <3>2. PICK q : q = [pubs[k] EXCEPT !.changed = TRUE]
        OBVIOUS
      <3>3. Like(q, pubs[k])
        BY <3>1, <3>2 DEF Like, IsPub, PubFields
      <3>4. pubs'[k] = q \/ pubs'[k] = pubs[k]
        BY <1>3, <3>1, <3>2 DEF Touched
      <3> QED
        BY <3>3, <3>4 DEF Like
    <2> QED
      BY <2>1, <2>2 DEF Alike
  <1> QED
    BY <1>2, <1>3

LEMMA AlikeMoves ==
    ASSUME HoldInv, PubInv, NEW p \in Proc, Held(p), Pubs(p), SpaceKept(p), Alike
    PROVE  Moves(p)
  <1>2. ASSUME Works(p) PROVE Advances(p, pubs[job[p].pub], pubs'[job[p].pub])
    <2>1. job[p].pub \in 1..Len(pubs)
      BY <1>2 DEF HoldInv, PubShapes, JobPub, Works
    <2>2. PubFits(pubs[job[p].pub]) /\ Like(pubs'[job[p].pub], pubs[job[p].pub])
      BY <2>1 DEF PubInv, Alike
    <2> QED
      BY <2>2 DEF Advances, Like, PubFits
  <1>3. \A q \in Proc \ {p} : job'[q] = job[q]
    BY DEF Held, Alone
  <1>4. dirs["restored"].exists => dirs'["restored"].exists
    BY DEF Held, Alone, Dirs
  <1>5. Listed(pubs') /\ Len(pubs') = Len(pubs) /\ Len(pubs) \in Nat
    BY DEF Pubs, Alike, HoldInv, PubShapes, Listed
  <1>6. \A k \in 1..Len(pubs) : Like(pubs'[k], pubs[k])
    BY DEF Alike
  <1>7. \A k \in 1..Len(pubs') : ~(k > Len(pubs))
    BY <1>5
  <1> QED
    BY <1>2, <1>3, <1>4, <1>5, <1>6, <1>7 DEF Moves, SpaceKept

\* The command has nothing at hand after the step.
LEMMA QuietKeeps ==
    ASSUME HoldInv, PubInv, NEW p \in Proc, Held(p), Pubs(p), SpaceKept(p), Alike,
           reported' = reported, Draws(p), job'[p].step \notin PubSteps,
           job'[p].step \notin {"space", "decide"}
    PROVE  PubInv'
  <1>1. Picks(p)
    BY DEF Picks, Works
  <1>2. WorkFits(p)'
    BY DEF WorkFits, Works
  <1> QED
    BY <1>1, <1>2, AlikeMoves, PubKeeps

LEMMA FinishKeeps ==
    ASSUME HoldInv, PubInv, NEW p \in Proc, Held(p), Pubs(p), Finish(p), Alike,
           reported' = reported
    PROVE  PubInv'
  <1>1. job'[p] = NoJob
    BY FinishPubs
  <1>2. Draws(p) /\ job'[p].step = "none"
    BY <1>1 DEF Draws, NoJob
  <1>3. SpaceKept(p)
    BY SpaceKeeps DEF Finish, HoldInv
  <1> QED
    BY <1>2, <1>3, QuietKeeps DEF PubSteps

\* Nothing the publications know of changes.
LEMMA AsideKeeps ==
    ASSUME HoldInv, PubInv, NEW p \in Proc, Held(p), UNCHANGED <<pubs, job, space, reported>>
    PROVE  PubInv'
  <1>1. dirs["restored"].exists => dirs'["restored"].exists
    BY DEF Held, Alone, Dirs
  <1>2. \A name : Placed(name)' = Placed(name) /\ Siblings(name)' = Siblings(name)
    BY DEF Placed, Siblings
  <1>3. RestoredFits'
    BY <1>1, <1>2 DEF RestoredFits, PubInv, BundleInput
  <1>4. \A p1 \in Proc : WorkFits(p1)' /\ FromFits(p1)'
    BY <1>2 DEF WorkFits, FromFits, Works, BundleTraces, PubInv, BundleInput
  <1> QED
    BY <1>2, <1>3, <1>4 DEF PubInv, BundleTraces, ReportFits, Works

LEMMA RuntimeKeeps ==
    ASSUME HoldInv, PubInv, NEW p \in Proc,
           RuntimeStep(p) \/ Submit(p) \/ Exit(p) \/ StreamStep(p)
    PROVE  PubInv'
  <1>0. Held(p) /\ Pubs(p) /\ Shapes /\ PubShapes
    BY RuntimeHeld, RuntimePubs, StreamHeld DEF HoldInv
  <1>1. CASE \E d \in Dirs : Start(p, d)
    <2>1. PICK d \in Dirs : Start(p, d)
      BY <1>1
    <2>2. job[p] = NoJob /\ job' = job /\ space' = space /\ reported' = reported /\ Touched(d)
      BY <2>1 DEF Start, Idle
    <2>3. Draws(p) /\ job'[p].step = "none"
      BY <2>2 DEF Draws, NoJob
    <2> QED
      BY <1>0, <2>2, <2>3, AlikeSteps, SpaceKeeps, QuietKeeps DEF PubSteps
  <1>2. CASE Exit(p)
    <2>1. job'[p] = NoJob /\ space' = Unlocked(space, p) /\ reported' = reported /\ pubs' = pubs
      BY <1>0, <1>2 DEF Exit, Shapes
    <2>2. Draws(p) /\ job'[p].step = "none"
      BY <2>1 DEF Draws, NoJob
    <2> QED
      BY <1>0, <2>1, <2>2, AlikeSteps, SpaceKeeps, QuietKeeps DEF PubSteps
  <1>3. CASE ~(\E d \in Dirs : Start(p, d)) /\ ~Exit(p)
    <2>1. \A name, x, next : Phase(p, name, x, next) => UNCHANGED <<pubs, job, space, reported>>
      BY DEF Phase, Untouched, artifactVars
    <2>2. UNCHANGED <<pubs, job, space, reported>>
      <3>1. CASE StartupStep(p)
        BY <2>1, <3>1 DEF StartupStep, StartTTSGated, PreflightMandatory, TerminalizeRunning,
           ScanIntegrity, TerminalizeMandatory, Rescan, PreflightEligibility, PauseAdmissions,
           PreflightContentRefs, PreflightProjection, EvaluateFinalReadiness, BindHTTP,
           StartProjection, WaitProjectionReady, StartWorkersGated, StartHTTPGated,
           RequireCanonicalHead, ResumeAdmissions, OpenGate, Recovers, Scans
      <3>2. CASE StreamStep(p)
        BY <3>2 DEF StreamStep, Reply, Notify, Callback, Speak, Listen, Stream, artifactVars,
                    lockVars
      <3>3. CASE ~StartupStep(p) /\ ~StreamStep(p)
        BY <1>3, <3>3 DEF RuntimeStep, openRuntime, openRuntimeFails, FailGate, WorkersPassGate,
           WorkersExit, RequestArrives, RequestEnds, ProjectionCatchesUp, Stop, BeginShutdown,
           Drained, DrainTimesOut, SpeechExits, SpeechWaitTimesOut, CloseHub,
           closeRuntimeAfterHTTPDrain, CloseTimesOut, CloseProjections, CloseRuntime, Submit,
           Keep, Stays, Untouched, artifactVars, lockVars
      <3> QED
        BY <3>1, <3>2, <3>3
    <2> QED
      BY <1>0, <2>2, AsideKeeps
  <1> QED
    BY <1>1, <1>2, <1>3

LEMMA InPlaceKeeps ==
    ASSUME HoldInv, PubInv, NEW p \in Proc, runtime' = runtime, InPlaceStep(p) PROVE PubInv'
  <1>0. /\ Held(p) /\ Pubs(p) /\ Shapes /\ PubShapes /\ reported' = reported
    BY InPlaceHeld, InPlacePubs DEF HoldInv, InPlaceStep, openOfflineWritableStore,
       withAdminRuntime, CloseStore, executeAdminIntegrityScan,
       executeAdminRecoveryTerminalize, runProjectionRebuild, runMemoryPolicyActivateCurrent,
       executeSessionPolicySelect, InPlace, ApplyReads, executeErasureApply,
       rebuildErasureProjections
  <1>1. UNCHANGED lockVars => SpaceKept(p)
    BY <1>0, SpaceKeeps DEF lockVars
  <1>2. CASE Finish(p) /\ pubs' = pubs
    BY <1>0, <1>2, AlikeSteps, FinishKeeps
  <1>3. ASSUME NEW s \in WritingSteps, Step(p, s), Alike, UNCHANGED lockVars PROVE PubInv'
    <2>1. PICK j : /\ job' = [job EXCEPT ![p] = j] /\ j.step = s /\ j.cmd = job[p].cmd
                   /\ j.input = job[p].input /\ j.from = job[p].from
      BY <1>0, <1>3, StepMoves
    <2>2. job'[p] = j
      BY <1>0, <2>1 DEF Shapes
    <2>3. Draws(p) /\ j.step \notin PubSteps /\ j.step \notin {"space", "decide"}
      BY <1>3, <2>1, <2>2 DEF Draws, PubSteps, WritingSteps
    <2> QED
      BY <1>0, <1>1, <1>3, <2>2, <2>3, QuietKeeps
  <1>4. CASE openOfflineWritableStore(p) \/ withAdminRuntime(p)
    <2>1. Touched(job[p].dir) /\ Step(p, "open") /\ UNCHANGED lockVars
      BY <1>4 DEF openOfflineWritableStore, withAdminRuntime, lockVars
    <2> QED
      BY <1>0, <1>3, <2>1, AlikeSteps DEF WritingSteps
  <1>5. CASE CloseStore(p) \/ rebuildErasureProjections(p)
    BY <1>2, <1>5 DEF CloseStore, rebuildErasureProjections
  <1>6. CASE executeErasureApply(p)
    <2>1. pubs' = pubs /\ (Finish(p) \/ (Step(p, "rebuilt") /\ UNCHANGED lockVars))
      BY <1>6 DEF executeErasureApply, lockVars
    <2> QED
      BY <1>0, <1>2, <1>3, <2>1, AlikeSteps DEF WritingSteps
  <1>7. CASE \/ executeAdminIntegrityScan(p) \/ executeAdminRecoveryTerminalize(p)
             \/ runProjectionRebuild(p) \/ runMemoryPolicyActivateCurrent(p)
             \/ executeSessionPolicySelect(p)
    <2>1. UNCHANGED <<pubs, job, space, reported>>
      BY <1>7 DEF executeAdminIntegrityScan, executeAdminRecoveryTerminalize,
            runProjectionRebuild, runMemoryPolicyActivateCurrent,
            executeSessionPolicySelect, InPlace, lockVars
    <2> QED
      BY <1>0, <2>1, AsideKeeps
  <1>8. CASE ApplyReads(p)
    <2>0. pubs' = pubs /\ job[p].cmd = "apply" /\ job[p].step = "open"
      BY <1>8 DEF ApplyReads, At
    <2>1. CASE Finish(p)
      BY <1>2, <2>0, <2>1
    <2>2. CASE ~Finish(p)
      <3>1. PICK k : /\ k \in ReadPlan("plan")
                     /\ job' = [job EXCEPT ![p].step = "apply", ![p].from = k]
                     /\ UNCHANGED lockVars
        BY <1>8, <2>2, Zenon DEF ApplyReads
      <3>2. PICK j : j = [job[p] EXCEPT !.step = "apply", !.from = k]
        OBVIOUS
      <3>3. j.step = "apply" /\ j.cmd = job[p].cmd /\ j.from = k
        BY <1>0, <3>2 DEF Shapes, IsJob, JobFields
      <3>4. job'[p] = j
        BY <1>0, <3>1, <3>2 DEF Shapes
      <3>5. j.step \notin PubSteps /\ job[p].step \notin PubSteps
        BY <2>0, <3>3 DEF PubSteps
      <3>6. Draws(p)
        BY <2>0, <3>1, <3>3, <3>4, <3>5 DEF Draws, Works
      <3>7. j.step \notin {"space", "decide"}
        BY <3>3
      <3> QED
        BY <1>0, <1>1, <2>0, <3>1, <3>4, <3>5, <3>6, <3>7, AlikeSteps, QuietKeeps
    <2> QED
      BY <2>1, <2>2
  <1> QED
    BY <1>4, <1>5, <1>6, <1>7, <1>8 DEF InPlaceStep

\* A command that is at its decision holds the namespace and has nothing at hand.
LEMMA DecisionKeeps ==
    ASSUME HoldInv, PubInv, NEW p \in Proc, Held(p), Pubs(p), SpaceKept(p), Alike,
           reported' = reported, Draws(p), NEW j, job'[p] = j,
           \/ j.step = "space" /\ j.cmd \in CapturingCommands
           \/ j.step = "decide" /\ j.cmd \in Publishing /\ space'[TargetOf(j.cmd)] = p
    PROVE  PubInv'
  <1>1. ~Works(p)'
    BY DEF Works, PubSteps
  <1>2. Picks(p)
    BY <1>1 DEF Picks
  <1>3. WorkFits(p)'
    BY <1>1 DEF WorkFits
  <1> QED
    BY <1>2, <1>3, AlikeMoves, PubKeeps

LEMMA BeginKeeps ==
    ASSUME HoldInv, PubInv, NEW p \in Proc, runtime' = runtime, AllowCommand(p), BeginCommand(p)
    PROVE  PubInv'
  <1>0. /\ Held(p) /\ Pubs(p) /\ Shapes /\ PubShapes /\ reported' = reported
    BY BeginHeld, BeginPubs DEF HoldInv, BeginCommand, BeginRestore, Diagnose, Begin
  <1>1. NoJob = [f \in JobFields |-> NoJob[f]] /\ NoJob.from = 0
    BY DEF NoJob, JobFields
  <1>2. CASE BeginRestore(p)
    <2>1. PICK i : /\ i \in Bundles /\ pubs' = pubs /\ AcquireExistingParent(p, "restored")
                   /\ job' = [job EXCEPT ![p] = [NoJob EXCEPT !.cmd = "restore",
                       !.dir = "restored", !.step = "decide", !.input = BundleInput(i),
                       !.from = i]]
      BY <1>2, Zenon DEF BeginRestore
    <2>2. i \in Placed("bundle")
      BY <2>1 DEF Bundles
    <2>3. PICK b : b = BundleInput(i)
      OBVIOUS
    <2>4. PICK j : j = [NoJob EXCEPT !.cmd = "restore", !.dir = "restored", !.step = "decide",
                                     !.input = b, !.from = i]
      OBVIOUS
    <2>5. j.step = "decide" /\ j.from = i /\ j.cmd = "restore" /\ j.input = b
      BY <1>1, <2>4 DEF JobFields
    <2>6. job'[p] = j
      BY <1>0, <2>1, <2>3, <2>4 DEF Shapes
    <2>7. Draws(p)
      BY <2>2, <2>3, <2>5, <2>6 DEF Draws
    <2>8. space'["restored"] = p /\ SpaceKept(p)
      BY <1>0, <2>1, SpaceKeeps DEF AcquireExistingParent, Shapes, Names, Dirs
    <2>9. j.cmd \in Publishing /\ space'[TargetOf(j.cmd)] = p
      BY <2>5, <2>8, Targets DEF Publishing
    <2> QED
      BY <1>0, <2>1, <2>5, <2>6, <2>7, <2>8, <2>9, AlikeSteps, DecisionKeeps
  <1>3. ASSUME NEW d \in Dirs, Diagnose(p, d) PROVE PubInv'
    <2>1. PICK j : j = [NoJob EXCEPT !.cmd = "diagnose", !.dir = d, !.step = "inspect"]
      OBVIOUS
    <2>2. j.from = 0 /\ j.step = "inspect"
      BY <1>1, <2>1 DEF JobFields
    <2>3. job'[p] = j /\ Touched(d) /\ SpaceKept(p)
      BY <1>0, <1>3, <2>1, SpaceKeeps DEF Diagnose, Shapes
    <2>4. Draws(p) /\ j.step \notin PubSteps /\ j.step \notin {"space", "decide"}
      BY <2>2, <2>3 DEF Draws, PubSteps
    <2> QED
      BY <1>0, <2>3, <2>4, AlikeSteps, QuietKeeps
  <1>4. ASSUME NEW d \in Dirs, NEW cmd \in Commands, Begin(p, cmd, d) PROVE PubInv'
    <2>1. PICK j : j = [NoJob EXCEPT !.cmd = cmd, !.dir = d, !.step = "check"]
      OBVIOUS
    <2>2. j.from = 0 /\ j.step = "check"
      BY <1>1, <2>1 DEF JobFields
    <2>3. job'[p] = j /\ pubs' = pubs /\ SpaceKept(p)
      BY <1>0, <1>4, <2>1, SpaceKeeps DEF Begin, Shapes
    <2>4. Draws(p) /\ j.step \notin PubSteps /\ j.step \notin {"space", "decide"}
      BY <2>2, <2>3 DEF Draws, PubSteps
    <2> QED
      BY <1>0, <2>3, <2>4, AlikeSteps, QuietKeeps
  <1> QED
    BY <1>2, <1>3, <1>4 DEF BeginCommand

LEMMA CheckKeeps ==
    ASSUME HoldInv, PubInv, NEW p \in Proc, runtime' = runtime,
           CheckBackup(p) \/ CheckExport(p) \/ CheckPlan(p) \/ CheckDecision(p)
    PROVE  PubInv'
  <1>0. /\ Held(p) /\ Pubs(p) /\ Shapes /\ PubShapes /\ reported' = reported /\ pubs' = pubs
        /\ Alike
    <2>1. reported' = reported /\ pubs' = pubs
      BY DEF CheckBackup, CheckExport, CheckPlan, CheckDecision, Captures
    <2> QED
      BY <2>1, CheckHeld, CheckPubs, AlikeSteps DEF HoldInv
  <1>1. CASE Finish(p)
    BY <1>0, <1>1, FinishKeeps
  <1>2. UNCHANGED lockVars => SpaceKept(p)
    BY <1>0, SpaceKeeps DEF lockVars
  <1>3. CASE ~Finish(p) /\ ~CheckDecision(p)
    <2>1. job[p].cmd \in {"backup", "export", "plan"} /\ \E ready : Captures(p, ready)
      BY <1>3, Zenon DEF CheckBackup, CheckExport, CheckPlan, At
    <2>2. PICK i : job' = [job EXCEPT ![p].step = "space", ![p].input = i] /\ UNCHANGED lockVars
      BY <1>3, <2>1, Zenon DEF Captures
    <2>3. PICK j : j = [job[p] EXCEPT !.step = "space", !.input = i]
      OBVIOUS
    <2>4. j.step = "space" /\ j.cmd = job[p].cmd /\ j.from = job[p].from
      BY <1>0, <2>3 DEF Shapes, IsJob, JobFields
    <2>5. job'[p] = j
      BY <1>0, <2>2, <2>3 DEF Shapes
    <2>6. job[p].from = 0
      BY <2>1 DEF PubInv, FromFits
    <2>7. Draws(p) /\ j.cmd \in CapturingCommands
      BY <2>1, <2>4, <2>5, <2>6 DEF Draws, CapturingCommands
    <2> QED
      BY <1>0, <1>2, <2>2, <2>4, <2>5, <2>7, DecisionKeeps
  <1>4. CASE ~Finish(p) /\ CheckDecision(p)
    <2>1. PICK k : /\ k \in ReadPlan("plan") /\ UNCHANGED lockVars
                   /\ job' = [job EXCEPT ![p].step = "space",
                                 ![p].input = ProducerInput(job[p].dir), ![p].from = k]
      BY <1>4 DEF CheckDecision
    <2>2. PICK i : i = ProducerInput(job[p].dir)
      OBVIOUS
    <2>3. PICK j : j = [job[p] EXCEPT !.step = "space", !.input = i, !.from = k]
      OBVIOUS
    <2>4. j.step = "space" /\ j.cmd = job[p].cmd /\ j.from = k
      BY <1>0, <2>3 DEF Shapes, IsJob, JobFields
    <2>5. job'[p] = j
      BY <1>0, <2>1, <2>2, <2>3 DEF Shapes
    <2>6. job[p].cmd = "decide" /\ job[p].step = "check"
      BY <1>4 DEF CheckDecision, At
    <2>7. ~Works(p) /\ ~Works(p)'
      BY <2>4, <2>5, <2>6 DEF Works, PubSteps
    <2>8. Draws(p) /\ j.cmd \in CapturingCommands
      BY <2>1, <2>4, <2>5, <2>6, <2>7 DEF Draws, CapturingCommands
    <2> QED
      BY <1>0, <1>2, <2>1, <2>4, <2>5, <2>8, DecisionKeeps
  <1> QED
    BY <1>1, <1>3, <1>4

LEMMA NamespaceKeeps ==
    ASSUME HoldInv, PubInv, NEW p \in Proc, runtime' = runtime, TakeNamespace(p) PROVE PubInv'
  <1>0. /\ Held(p) /\ Pubs(p) /\ Shapes /\ PubShapes /\ reported' = reported /\ pubs' = pubs
        /\ Alike /\ WorkFits(p) /\ job[p].step = "space"
    BY DecideHeld, DecidePubs, AlikeSteps DEF HoldInv, PubInv, TakeNamespace
  <1>1. CASE Finish(p)
    BY <1>0, <1>1, FinishKeeps
  <1>2. CASE AcquireExistingParent(p, TargetOf(job[p].cmd)) /\ Step(p, "decide")
    <2>1. PICK j : /\ job' = [job EXCEPT ![p] = j] /\ j.step = "decide" /\ j.cmd = job[p].cmd
                   /\ j.input = job[p].input /\ j.from = job[p].from
      BY <1>0, <1>2, StepMoves
    <2>2. job'[p] = j
      BY <1>0, <2>1 DEF Shapes
    <2>3. Draws(p) /\ j.cmd \in Publishing
      BY <1>0, <2>1, <2>2 DEF Draws, WorkFits, CapturingCommands, Publishing
    <2>4. SpaceKept(p) /\ space'[TargetOf(j.cmd)] = p
      BY <1>0, <1>2, <2>1, <2>3, SpaceKeeps, Targets DEF AcquireExistingParent, Shapes
    <2> QED
      BY <1>0, <2>1, <2>2, <2>3, <2>4, DecisionKeeps
  <1> QED
    BY <1>1, <1>2 DEF TakeNamespace

LEMMA StagedKeeps ==
    ASSUME HoldInv, PubInv, NEW p \in Proc, Held(p), Pubs(p), job[p].step = "decide",
           NEW caller, Staged(p, job[p].cmd, caller), UNCHANGED <<lockVars, reported>>,
           ~Directory(TargetOf(job[p].cmd)) => ~caller,
           job[p].cmd = "backup" => BundleTraces = {}
    PROVE  PubInv'
  <1>0. /\ Shapes /\ PubShapes /\ WorkFits(p) /\ FromFits(p) /\ JobPub(p) /\ Listed(pubs)
        /\ Len(pubs) \in Nat
    BY DEF HoldInv, PubShapes, PubInv, Listed
  <1>1. ~Works(p) /\ job[p].cmd \in Publishing /\ space[TargetOf(job[p].cmd)] = p
    BY <1>0 DEF Works, PubSteps, WorkFits
  <1>2. PICK q : q = [cmd |-> job[p].cmd, target |-> TargetOf(job[p].cmd),
            input |-> job[p].input,
            place |-> "staging", whole |-> FALSE, internal |-> FALSE, caller |-> caller,
            sibling |-> "none", changed |-> FALSE, head |-> 0, registered |-> FALSE,
            service |-> NoService, ready |-> FALSE]
    OBVIOUS
  <1>3. IsPub(q)
    BY <1>2 DEF IsPub, PubFields
  <1>4. pubs' = Append(pubs, q)
    BY <1>2 DEF Staged
  <1>5. PICK s, t : s = pubs /\ t = pubs'
    OBVIOUS
  <1>6. /\ Len(pubs') = Len(pubs) + 1 /\ pubs'[Len(pubs) + 1] = q
        /\ \A k \in 1..Len(pubs) : pubs'[k] = pubs[k]
    BY <1>0, <1>3, <1>4, <1>5, ListedLonger
  <1>7. Fresh(q)
    <2>1. PubFits(q) /\ q.place = "staging" /\ q.sibling = "none"
      BY <1>1, <1>2 DEF PubFits
    <2>2. ASSUME q.target = "restored"
          PROVE  \E b \in Placed("bundle") : q.input = BundleInput(b)
      <3>1. job[p].cmd = "restore"
        BY <1>1, <1>2, <2>2, Targets DEF Publishing
      <3>2. job[p].from # 0
        BY <1>0, <3>1 DEF JobPub
      <3>3. job[p].from \in Placed("bundle") /\ job[p].input = BundleInput(job[p].from)
        BY <1>0, <3>1, <3>2 DEF FromFits
      <3> QED
        BY <1>2, <3>3
    <2> QED
      BY <2>1, <2>2 DEF Fresh
  <1>8. Moves(p)
    <2>1. \A x \in Proc \ {p} : job'[x] = job[x]
      BY DEF Held, Alone
    <2>2. dirs["restored"].exists => dirs'["restored"].exists
      BY DEF Held, Alone, Dirs
    <2>3. Listed(pubs') /\ Len(pubs') >= Len(pubs)
      BY DEF Pubs
    <2>4. \A k \in 1..Len(pubs) : Like(pubs'[k], pubs[k])
      BY <1>6 DEF Like
    <2>5. ASSUME NEW k \in 1..Len(pubs'), k > Len(pubs) PROVE Fresh(pubs'[k])
      <3>1. k = Len(pubs) + 1
        BY <1>0, <1>6, <2>5
      <3> QED
        BY <1>6, <1>7, <3>1
    <2> QED
      BY <1>1, <2>1, <2>2, <2>3, <2>4, <2>5 DEF Moves, lockVars
  <1>9. PICK j : /\ job' = [job EXCEPT ![p] = j] /\ j.step = "build" /\ j.cmd = job[p].cmd
                 /\ j.input = job[p].input /\ j.pub = Len(pubs) + 1 /\ j.from = job[p].from
    <2>1. Turns(p, "build", Len(pubs) + 1)
      BY DEF Staged, Turns
    <2> QED
      BY <1>0, <2>1, TurnMoves
  <1>10. job'[p] = j
    BY <1>0, <1>9 DEF Shapes
  <1>11. Draws(p) /\ Picks(p)
    BY <1>0, <1>9, <1>10 DEF Draws, Picks
  <1>12. j.cmd = "backup" => BundleTraces' = {}
    BY <1>1, <1>8, <1>9, MovesPlaced DEF Mine
  <1>13. WorkFits(p)'
    <2>1. pubs'[j.pub].cmd = j.cmd /\ pubs'[j.pub].input = j.input /\ pubs'[j.pub].place = "staging"
      BY <1>2, <1>6, <1>9
    <2>2. space'[TargetOf(j.cmd)] = p
      BY <1>1, <1>9 DEF lockVars
    <2>3. j.step \in Early /\ j.step = "build"
      BY <1>9 DEF Early
    <2> QED
      BY <1>1, <1>9, <1>10, <1>12, <2>1, <2>2, <2>3 DEF WorkFits
  <1> QED
    BY <1>8, <1>11, <1>13, PubKeeps

\* The decision to go on with a publication that is there.
LEMMA PickKeeps ==
    ASSUME HoldInv, PubInv, NEW p \in Proc, Held(p), Pubs(p), job[p].step = "decide",
           NEW s, NEW i \in 1..Len(pubs), Turns(p, s, i), UNCHANGED <<lockVars, pubs, reported>>,
           pubs[i].cmd = job[p].cmd, pubs[i].input = job[p].input,
           \/ s = "authenticate" /\ pubs[i].place = "target" /\ Directory(pubs[i].target)
           \/ s = "unmark" /\ pubs[i].place = "target" /\ pubs[i].target = "export"
              /\ pubs[i].sibling # "none"
           \/ s = "rename" /\ pubs[i].place = "staging" /\ pubs[i].target = "export"
              /\ pubs[i].sibling # "none"
    PROVE  PubInv'
  <1>0. Shapes /\ PubShapes /\ WorkFits(p) /\ PubFits(pubs[i]) /\ Alike
    BY AlikeSteps DEF HoldInv, PubInv
  <1>1. ~Works(p) /\ job[p].cmd \in Publishing /\ space[TargetOf(job[p].cmd)] = p
    BY <1>0 DEF Works, PubSteps, WorkFits
  <1>2. PICK j : /\ job' = [job EXCEPT ![p] = j] /\ j.step = s /\ j.cmd = job[p].cmd
                 /\ j.input = job[p].input /\ j.pub = i /\ j.from = job[p].from
    BY <1>0, TurnMoves
  <1>3. job'[p] = j
    BY <1>0, <1>2 DEF Shapes
  <1>4. Moves(p)
    BY <1>0, AlikeMoves, SpaceKeeps DEF lockVars
  <1>5. Draws(p) /\ Picks(p)
    BY <1>2, <1>3 DEF Draws, Picks, Late
  <1>6. WorkFits(p)'
    <2>1. space'[TargetOf(j.cmd)] = p /\ pubs' = pubs
      BY <1>1, <1>2 DEF lockVars
    <2>2. s \in Early => j.cmd # "backup"
      BY <1>0, <1>2, Targets DEF Early, PubFits
    <2>3. pubs[i].target = "export" => ~pubs[i].internal /\ ~pubs[i].caller
      BY <1>0 DEF PubFits, Directory
    <2>4. pubs[i].sibling # "none" => pubs[i].whole
      BY <1>0 DEF PubFits
    <2>5. CASE s = "authenticate"
      BY <1>1, <1>2, <1>3, <2>1, <2>5 DEF WorkFits, Early
    <2>6. CASE s = "unmark"
      BY <1>1, <1>2, <1>3, <2>1, <2>3, <2>6 DEF WorkFits, Early, Directory
    <2>7. CASE s = "rename"
      BY <1>1, <1>2, <1>3, <2>1, <2>2, <2>3, <2>4, <2>7 DEF WorkFits, Early, Directory
    <2> QED
      BY <2>5, <2>6, <2>7
  <1> QED
    BY <1>4, <1>5, <1>6, PubKeeps

LEMMA DecideKeeps ==
    ASSUME HoldInv, PubInv, NEW p \in Proc, runtime' = runtime,
           DecideBackup(p) \/ DecideRestore(p) \/ DecidePlan(p) \/ DecideExport(p)
    PROVE  PubInv'
  <1>0. /\ Held(p) /\ Pubs(p) /\ Shapes /\ PubShapes /\ reported' = reported
        /\ job[p].step = "decide" /\ DOMAIN pubs = 1..Len(pubs)
        /\ \A k \in 1..Len(pubs) : PubFits(pubs[k])
    <2>1. Held(p) /\ Pubs(p)
      BY DecideHeld, DecidePubs
    <2>2. reported' = reported /\ job[p].step = "decide"
      BY DEF DecideBackup, DecideRestore, DecidePlan, DecideExport, At
    <2> QED
      BY <2>1, <2>2 DEF HoldInv, PubShapes, Listed, PubInv
  <1>1. CASE Finish(p) /\ pubs' = pubs
    BY <1>0, <1>1, AlikeSteps, FinishKeeps
  <1>2. ASSUME NEW name, NEW k \in Placed(name)
        PROVE  k \in 1..Len(pubs) /\ pubs[k].target = name /\ pubs[k].place = "target"
    BY <1>0 DEF Placed
  <1>3. CASE DecideBackup(p)
    <2>0. job[p].cmd = "backup"
      BY <1>3 DEF DecideBackup, At
    <2>1. CASE Staged(p, "backup", FALSE) /\ ~TargetExists("bundle") /\ Siblings("bundle") = {}
               /\ UNCHANGED lockVars
      <3>1. BundleTraces = {}
        BY <2>1 DEF TargetExists, BundleTraces, Dirs
      <3> QED
        BY <1>0, <2>0, <2>1, <3>1, StagedKeeps
    <2>2. ASSUME NEW i \in Placed("bundle"), Recovering(p, i), UNCHANGED <<lockVars, pubs>>,
                 DiscoverPublishedDirectoryMarker("bundle", "backup", job[p].input) = "found"
          PROVE  PubInv'
      <3>1. /\ Discovered("bundle") # {} /\ 0 \notin Discovered("bundle")
            /\ \A k \in Discovered("bundle") : Identifies(k, "backup", job[p].input)
        BY <2>2 DEF DiscoverPublishedDirectoryMarker
      <3>2. Discovered("bundle") \subseteq BundleTraces
        BY <3>1 DEF Discovered, BundleTraces
      <3>3. i \in BundleTraces
        BY DEF BundleTraces
      <3>4. Identifies(i, "backup", job[p].input)
        BY <3>1, <3>2, <3>3 DEF PubInv
      <3>5. Turns(p, "authenticate", i)
        BY <2>2 DEF Recovering, Turns
      <3>6. Directory(pubs[i].target)
        BY <1>2 DEF Directory
      <3> QED
        BY <1>0, <1>2, <2>0, <2>2, <3>4, <3>5, <3>6, PickKeeps DEF Identifies
    <2> QED
      BY <1>1, <1>3, <2>1, <2>2 DEF DecideBackup
  <1>4. CASE DecideRestore(p)
    <2>0. job[p].cmd = "restore"
      BY <1>4 DEF DecideRestore, At
    <2>1. CASE Staged(p, "restore", TRUE) /\ UNCHANGED lockVars
      BY <1>0, <2>0, <2>1, StagedKeeps, Targets DEF Directory
    <2>2. ASSUME NEW i \in Placed("restored"), Recovering(p, i), UNCHANGED <<lockVars, pubs>>
          PROVE  PubInv'
      <3>1. i \in 1..Len(pubs) /\ pubs[i].target = "restored" /\ pubs[i].place = "target"
        BY <1>2
      <3>2. pubs[i].cmd = "restore"
        BY <1>0, <3>1, Targets DEF PubFits, Publishing
      <3>3. PICK b \in Placed("bundle") : pubs[i].input = BundleInput(b)
        BY <3>1 DEF PubInv, RestoredFits
      <3>4. job[p].from \in Placed("bundle") /\ job[p].input = BundleInput(job[p].from)
        BY <1>0, <2>0 DEF PubInv, FromFits, PubShapes, JobPub
      <3>5. b = job[p].from
        BY <3>4 DEF PubInv, Names, ArtifactNames
      <3>6. Turns(p, "authenticate", i)
        BY <2>2 DEF Recovering, Turns
      <3>7. Directory(pubs[i].target)
        BY <3>1 DEF Directory
      <3>8. pubs[i].input = job[p].input
        BY <3>3, <3>4, <3>5
      <3> QED
        BY <1>0, <2>0, <2>2, <3>1, <3>2, <3>6, <3>7, <3>8, PickKeeps
    <2>3. \/ Finish(p) /\ pubs' = pubs
          \/ Staged(p, "restore", TRUE) /\ UNCHANGED lockVars
          \/ \E i \in Placed("restored") : Recovering(p, i) /\ UNCHANGED <<lockVars, pubs>>
      BY <1>4 DEF DecideRestore, recoverPublishedRestore
    <2> QED
      BY <1>1, <2>1, <2>2, <2>3
  <1>5. CASE DecidePlan(p)
    <2>0. job[p].cmd \in {"plan", "decide"}
      BY <1>5 DEF DecidePlan, At
    <2>1. CASE Staged(p, job[p].cmd, FALSE) /\ UNCHANGED lockVars
      BY <1>0, <2>0, <2>1, StagedKeeps
    <2> QED
      BY <1>1, <1>5, <2>1 DEF DecidePlan
  <1>6. CASE DecideExport(p)
    <2>0. job[p].cmd = "export"
      BY <1>6 DEF DecideExport, At
    <2>1. CASE Staged(p, "export", FALSE) /\ UNCHANGED lockVars
      BY <1>0, <2>0, <2>1, StagedKeeps
    <2>2. ASSUME NEW i \in Siblings("export"), UNCHANGED <<lockVars, pubs>>,
                 \/ recoverPending(p, i) = "complete" /\ Turns(p, "unmark", i)
                 \/ recoverPending(p, i) = "resume" /\ Turns(p, "rename", i)
          PROVE  PubInv'
      <3>1. i \in 1..Len(pubs) /\ pubs[i].target = "export" /\ pubs[i].sibling # "none"
        BY <1>0 DEF Siblings
      <3>2. /\ Identifies(i, "export", job[p].input)
            /\ recoverPending(p, i) = RecoverSingleFile(i)
        BY <2>2 DEF recoverPending
      <3>3. /\ RecoverSingleFile(i) = "complete" => pubs[i].place = "target"
            /\ RecoverSingleFile(i) = "resume" => pubs[i].place \notin {"target", "gone"}
        BY DEF RecoverSingleFile
      <3>4. pubs[i].place \in {"staging", "target", "gone"}
        BY <1>0, <3>1 DEF PubFits
      <3> QED
        BY <1>0, <2>0, <2>2, <3>1, <3>2, <3>3, <3>4, PickKeeps DEF Identifies
    <2>3. \/ Finish(p) /\ pubs' = pubs
          \/ Staged(p, "export", FALSE) /\ UNCHANGED lockVars
          \/ \E i \in Siblings("export") :
                /\ UNCHANGED <<lockVars, pubs>>
                /\ \/ recoverPending(p, i) = "complete" /\ Turns(p, "unmark", i)
                   \/ recoverPending(p, i) = "resume" /\ Turns(p, "rename", i)
      <3>1. \/ Finish(p) /\ UNCHANGED <<pubs, budget>>
            \/ /\ \E i \in Siblings("export") :
                    \/ recoverPending(p, i) = "complete" /\ Turns(p, "unmark", i)
                    \/ recoverPending(p, i) = "resume" /\ Turns(p, "rename", i)
               /\ UNCHANGED <<lockVars, pubs, budget>>
            \/ Staged(p, "export", FALSE) /\ UNCHANGED lockVars
        BY <1>6, Zenon DEF DecideExport, Turns
      <3> QED
        BY <3>1
    <2> QED
      BY <1>1, <2>1, <2>2, <2>3
  <1> QED
    BY <1>3, <1>4, <1>5, <1>6

\* The command changes the publication it has at hand, and no other.
LEMMA OwnMoves ==
    ASSUME HoldInv, PubInv, NEW p \in Proc, Held(p), Pubs(p), SpaceKept(p), Works(p),
           NEW y, IsPub(y), pubs' = [pubs EXCEPT ![job[p].pub] = y],
           Advances(p, pubs[job[p].pub], y)
    PROVE  Moves(p) /\ pubs'[job[p].pub] = y
  <1>1. Listed(pubs) /\ job[p].pub \in 1..Len(pubs) /\ Len(pubs) \in Nat
    BY DEF HoldInv, PubShapes, JobPub, Listed, Works
  <1>2. PICK i, s, t : i = job[p].pub /\ s = pubs /\ t = pubs'
    OBVIOUS
  <1>3. Listed(s) /\ i \in 1..Len(s) /\ t = ReplacedAt(s, i, y)
    BY <1>1, <1>2 DEF ReplacedAt
  <1>4. Len(t) = Len(s) /\ t[i] = y /\ \A k \in 1..Len(s) \ {i} : t[k] = s[k]
    BY <1>3, ListedReplaced
  <1>5. /\ Len(pubs') = Len(pubs) /\ pubs'[job[p].pub] = y
        /\ \A k \in 1..Len(pubs) : k # job[p].pub => pubs'[k] = pubs[k]
    BY <1>2, <1>4
  <1>6. \A k \in 1..Len(pubs) : ~Mine(p, k) => Like(pubs'[k], pubs[k])
    BY <1>5 DEF Mine, Like
  <1>7. \A k \in 1..Len(pubs') : ~(k > Len(pubs))
    BY <1>1, <1>5
  <1>8. \A q \in Proc \ {p} : job'[q] = job[q]
    BY DEF Held, Alone
  <1>9. dirs["restored"].exists => dirs'["restored"].exists
    BY DEF Held, Alone, Dirs
  <1>10. Listed(pubs') /\ Len(pubs') >= Len(pubs)
    BY DEF Pubs
  <1>11. Moves(p)
    BY <1>5, <1>6, <1>7, <1>8, <1>9, <1>10 DEF Moves, SpaceKept
  <1> QED
    BY <1>5, <1>11

\* What the publication at hand has to be when the command comes to a step.
HandFits(s, y) ==
    /\ y.place = IF s \in Early THEN "staging" ELSE "target"
    /\ s \in {"internal", "sibling", "seal", "rename"} => y.whole
    /\ s \in {"register", "recover", "rebuild", "closed", "internal"} => Directory(y.target)
    /\ s \in {"unmark", "barrier"} => ~y.internal /\ ~y.caller
    /\ s = "barrier" => y.sibling = "none"

\* The command goes on with the publication it has at hand.
LEMMA HandKeeps ==
    ASSUME HoldInv, PubInv, NEW p \in Proc, Held(p), Pubs(p), Works(p),
           UNCHANGED <<space, reported>>,
           NEW y, IsPub(y), pubs' = [pubs EXCEPT ![job[p].pub] = y],
           Advances(p, pubs[job[p].pub], y),
           NEW s \in PubSteps, Step(p, s), job[p].step \in Late => s \in Late, HandFits(s, y)
    PROVE  PubInv'
  <1>0. Shapes /\ PubShapes /\ WorkFits(p)
    BY DEF HoldInv, PubInv
  <1>1. PICK j : /\ job' = [job EXCEPT ![p] = j] /\ j.step = s /\ j.cmd = job[p].cmd
                 /\ j.input = job[p].input /\ j.pub = job[p].pub /\ j.from = job[p].from
    BY <1>0, StepMoves
  <1>2. job'[p] = j
    BY <1>0, <1>1 DEF Shapes
  <1>3. Moves(p) /\ pubs'[job[p].pub] = y
    BY <1>0, SpaceKeeps, OwnMoves
  <1>4. Draws(p) /\ Picks(p)
    BY <1>1, <1>2 DEF Draws, Picks
  <1>5. job[p].cmd \in Publishing /\ space'[TargetOf(job[p].cmd)] = p
    BY <1>0 DEF WorkFits
  <1>6. y.cmd = job[p].cmd /\ y.input = job[p].input
    BY <1>0 DEF WorkFits, Advances
  <1>7. ASSUME job[p].cmd = "backup", s \in Early PROVE BundleTraces' \subseteq {job[p].pub}
    <2>1. job[p].step \in Early
      BY <1>7 DEF Works, PubSteps, Early, Late
    <2>2. BundleTraces \subseteq {job[p].pub}
      BY <1>0, <1>7, <2>1 DEF WorkFits
    <2> QED
      BY <1>3, <2>2, MovesPlaced DEF Mine
  <1>8. WorkFits(p)'
    BY <1>1, <1>2, <1>3, <1>5, <1>6, <1>7 DEF WorkFits, HandFits, PubSteps
  <1> QED
    BY <1>3, <1>4, <1>8, PubKeeps

\* A publication that is not placed yet is changed in the staging directory.
LEMMA StagingKeeps ==
    ASSUME HoldInv, PubInv, NEW p \in Proc, Held(p), Pubs(p), Works(p), job[p].step \in Early,
           UNCHANGED <<space, reported>>,
           NEW y, IsPub(y), pubs' = [pubs EXCEPT ![job[p].pub] = y],
           y.cmd = pubs[job[p].pub].cmd, y.input = pubs[job[p].pub].input,
           PubFits(y), NEW s \in Early, Step(p, s), HandFits(s, y)
    PROVE  PubInv'
  <1>1. WorkFits(p)
    BY DEF PubInv
  <1>2. pubs[job[p].pub].place = "staging" /\ y.place = "staging"
    BY <1>1 DEF WorkFits, HandFits
  <1>3. job[p].step \notin Late /\ s \in PubSteps
    BY DEF Early, Late, PubSteps
  <1>4. Advances(p, pubs[job[p].pub], y)
    BY <1>2, <1>3 DEF Advances
  <1> QED
    BY <1>3, <1>4, HandKeeps

\* The fields of a publication that the protocol is about.
Marked(x, y, whole, internal, sibling) ==
    /\ y.cmd = x.cmd /\ y.target = x.target /\ y.input = x.input /\ y.place = x.place
    /\ y.caller = x.caller
    /\ y.whole = whole /\ y.internal = internal /\ y.sibling = sibling

LEMMA MarkedFits ==
    ASSUME NEW x, NEW y, NEW whole, NEW internal, NEW sibling, PubFits(x),
           Marked(x, y, whole, internal, sibling), x.place = "staging",
           sibling # "none" => whole, ~Directory(x.target) => ~internal
    PROVE  PubFits(y)
  BY DEF PubFits, Marked

LEMMA BuildKeeps ==
    ASSUME HoldInv, PubInv, NEW p \in Proc, runtime' = runtime, BuildStep(p),
           ~RemoveSiblingMarker(p)
    PROVE  PubInv'
  <1>1. Held(p) /\ Pubs(p) /\ PubShapes /\ Shapes /\ Listed(pubs)
    BY BuildHeld, BuildPubs DEF HoldInv, PubShapes
  <1>2. UNCHANGED <<space, reported>>
    BY DEF BuildStep, BuildBundle, BuildExport, BuildPlan, CopyVerified,
           registerRestoredDialogueV4, runStagedDatabase, rebuildEligibleProjections,
           verifyClosedStagingRoot, WriteInternalMarker, CreateSiblingMarker,
           SealSiblingMarker, lockVars
  <1>3. job[p].step \in Early /\ Works(p)
    BY DEF BuildStep, BuildBundle, BuildExport, BuildPlan, CopyVerified,
           registerRestoredDialogueV4, runStagedDatabase, rebuildEligibleProjections,
           verifyClosedStagingRoot, WriteInternalMarker, CreateSiblingMarker,
           SealSiblingMarker, At, Early, PubSteps, Works
  <1>4. PICK i, x : i = job[p].pub /\ x = pubs[i]
    OBVIOUS
  <1>5. i \in 1..Len(pubs) /\ IsPub(x) /\ PubFits(x) /\ WorkFits(p)
    BY <1>1, <1>3, <1>4 DEF PubShapes, JobPub, Listed, Works, PubInv
  <1>6. /\ x.place = "staging" /\ x.cmd = job[p].cmd /\ x.target = TargetOf(job[p].cmd)
        /\ x.cmd \in Publishing
    BY <1>3, <1>4, <1>5 DEF WorkFits, PubFits
  <1>7. ASSUME NEW y, IsPub(y), pubs' = [pubs EXCEPT ![i] = y],
               NEW whole, NEW internal, NEW sibling, Marked(x, y, whole, internal, sibling),
               sibling # "none" => whole, ~Directory(x.target) => ~internal,
               NEW s \in Early, Step(p, s), HandFits(s, y)
        PROVE  PubInv'
    <2>1. PubFits(y)
      BY <1>5, <1>6, <1>7, MarkedFits
    <2>2. y.cmd = pubs[job[p].pub].cmd /\ y.input = pubs[job[p].pub].input
      BY <1>4, <1>7 DEF Marked
    <2> QED
      BY <1>1, <1>2, <1>3, <1>4, <1>7, <2>1, <2>2, StagingKeeps
  \* Steps that leave the protocol's fields alone, or make the payload whole.
  <1>8. ASSUME NEW y, IsPub(y), pubs' = [pubs EXCEPT ![i] = y],
               NEW whole, Marked(x, y, whole, x.internal, x.sibling), x.whole => whole,
               NEW s \in Early, Step(p, s), HandFits(s, y)
        PROVE  PubInv'
    <2>1. PubFits(y)
      BY <1>5, <1>6, <1>8 DEF PubFits, Marked
    <2>2. y.cmd = pubs[job[p].pub].cmd /\ y.input = pubs[job[p].pub].input
      BY <1>4, <1>8 DEF Marked
    <2> QED
      BY <1>1, <1>2, <1>3, <1>4, <1>8, <2>1, <2>2, StagingKeeps
  <1>9. CASE BuildBundle(p)
    <2>1. PICK source : source = dirs[job[p].dir]
      OBVIOUS
    <2>2. PICK service :
            service = pruneBackupProjections(resolveBackupCloneSelection(source.service))
      OBVIOUS
    <2>3. PICK y : y = [x EXCEPT !.head = source.main, !.registered = source.registered,
                                 !.service = service, !.whole = TRUE]
      OBVIOUS
    <2>4. source.main \in Nat
      BY <2>1 DEF HoldInv, Shapes, IsJob, IsDir
    <2>5. IsPub(y) /\ Marked(x, y, TRUE, x.internal, x.sibling)
      BY <1>5, <2>3, <2>4 DEF IsPub, PubFields, Marked
    <2>6. pubs' = [pubs EXCEPT ![i] = y]
      BY <1>4, <1>9, <2>1, <2>2, <2>3 DEF BuildBundle, copyBackupBlobs, PrepareBackupClone
    <2>7. Step(p, "internal") /\ Directory(x.target)
      BY <1>6, <1>9, Targets DEF BuildBundle, At, Directory
    <2>8. HandFits("internal", y) /\ "internal" \in Early
      BY <1>6, <2>5, <2>7 DEF HandFits, Marked, Early
    <2> QED
      BY <1>8, <2>5, <2>6, <2>7, <2>8
  <1>10. CASE BuildExport(p) \/ BuildPlan(p)
    <2>1. PICK y : y = [x EXCEPT !.whole = TRUE]
      OBVIOUS
    <2>2. IsPub(y) /\ Marked(x, y, TRUE, x.internal, x.sibling)
      BY <1>5, <2>1 DEF IsPub, PubFields, Marked
    <2>3. pubs' = [pubs EXCEPT ![i] = y] /\ Step(p, "sibling")
      BY <1>4, <1>10, <2>1 DEF BuildExport, BuildPlan, Set
    <2>4. HandFits("sibling", y) /\ "sibling" \in Early
      BY <1>6, <2>2 DEF HandFits, Marked, Early
    <2> QED
      BY <1>8, <2>2, <2>3, <2>4
  <1>11. CASE CopyVerified(p)
    <2>1. PICK bundle : bundle = pubs[job[p].from]
      OBVIOUS
    <2>2. bundle.head \in Nat
      BY <1>1, <1>11, <2>1 DEF CopyVerified, At, PubShapes, JobPub, Listed, IsPub
    <2>3. PICK y : y = [x EXCEPT !.head = bundle.head, !.registered = bundle.registered,
                                 !.service = bundle.service]
      OBVIOUS
    <2>4. IsPub(y) /\ Marked(x, y, x.whole, x.internal, x.sibling)
      BY <1>5, <2>2, <2>3 DEF IsPub, PubFields, Marked
    <2>5. pubs' = [pubs EXCEPT ![i] = y] /\ Step(p, "register") /\ Directory(x.target)
      BY <1>4, <1>6, <1>11, <2>1, <2>3, Targets DEF CopyVerified, At, Directory
    <2>6. HandFits("register", y) /\ "register" \in Early
      BY <1>6, <2>4, <2>5 DEF HandFits, Marked, Early
    <2> QED
      BY <1>8, <2>4, <2>5, <2>6
  <1>12. CASE registerRestoredDialogueV4(p)
    <2>0. Step(p, "recover") /\ Directory(x.target)
      BY <1>6, <1>12, Targets DEF registerRestoredDialogueV4, At, Directory
    <2>1. PICK n : n = x.head + 1
      OBVIOUS
    <2>2. n \in Nat
      BY <1>5, <2>1 DEF IsPub
    <2>3. PICK z : z = [x EXCEPT !.registered = TRUE, !.head = n]
      OBVIOUS
    <2>4. IsPub(z) /\ Marked(x, z, x.whole, x.internal, x.sibling)
      BY <1>5, <2>2, <2>3 DEF IsPub, PubFields, Marked
    <2>5. pubs' = pubs \/ pubs' = [pubs EXCEPT ![i] = z]
      BY <1>4, <1>12, <2>1, <2>3 DEF registerRestoredDialogueV4
    <2>6. pubs = [pubs EXCEPT ![i] = x] /\ Marked(x, x, x.whole, x.internal, x.sibling)
      BY <1>1, <1>4 DEF Listed, Marked
    <2>7. PICK y : IsPub(y) /\ Marked(x, y, x.whole, x.internal, x.sibling)
                   /\ pubs' = [pubs EXCEPT ![i] = y]
      BY <1>5, <2>4, <2>5, <2>6
    <2>8. HandFits("recover", y) /\ "recover" \in Early
      BY <1>6, <2>0, <2>7 DEF HandFits, Marked, Early
    <2> QED
      BY <1>8, <2>0, <2>7, <2>8
  <1>13. CASE runStagedDatabase(p)
    <2>0. Step(p, "rebuild") /\ Directory(x.target)
      BY <1>6, <1>13, Targets DEF runStagedDatabase, At, Directory
    <2>1. PICK h \in Pub(p).head..MaxHead : Set(p, "head", h)
      BY <1>13 DEF runStagedDatabase
    <2>2. h \in Nat
      BY <1>4, <1>5, <2>1, PublicationAssumption DEF Pub, IsPub
    <2>3. PICK y : y = [x EXCEPT !.head = h]
      OBVIOUS
    <2>4. IsPub(y) /\ Marked(x, y, x.whole, x.internal, x.sibling)
      BY <1>5, <2>2, <2>3 DEF IsPub, PubFields, Marked
    <2>5. pubs' = [pubs EXCEPT ![i] = y]
      BY <1>4, <2>1, <2>3 DEF Set
    <2>6. HandFits("rebuild", y) /\ "rebuild" \in Early
      BY <1>6, <2>0, <2>4 DEF HandFits, Marked, Early
    <2> QED
      BY <1>8, <2>0, <2>4, <2>5, <2>6
  <1>14. CASE rebuildEligibleProjections(p)
    <2>0. Step(p, "closed") /\ Directory(x.target)
      BY <1>6, <1>14, Targets DEF rebuildEligibleProjections, At, Directory
    <2>1. \E service, ready : pubs' = [pubs EXCEPT ![job[p].pub].service = service,
                                                   ![job[p].pub].ready = ready]
      BY <1>14, Zenon DEF rebuildEligibleProjections
    <2>2. PICK service, ready : pubs' = [pubs EXCEPT ![job[p].pub].service = service,
                                                     ![job[p].pub].ready = ready]
      BY <2>1
    <2>3. PICK y : y = [x EXCEPT !.service = service, !.ready = ready]
      OBVIOUS
    <2>4. IsPub(y) /\ Marked(x, y, x.whole, x.internal, x.sibling)
      BY <1>5, <2>3 DEF IsPub, PubFields, Marked
    <2>5. pubs' = [pubs EXCEPT ![i] = y]
      BY <1>4, <2>2, <2>3
    <2>6. HandFits("closed", y) /\ "closed" \in Early
      BY <1>6, <2>0, <2>4 DEF HandFits, Marked, Early
    <2> QED
      BY <1>8, <2>0, <2>4, <2>5, <2>6
  <1>15. CASE verifyClosedStagingRoot(p)
    <2>1. PICK y : y = [x EXCEPT !.whole = TRUE]
      OBVIOUS
    <2>2. IsPub(y) /\ Marked(x, y, TRUE, x.internal, x.sibling)
      BY <1>5, <2>1 DEF IsPub, PubFields, Marked
    <2>3. pubs' = [pubs EXCEPT ![i] = y] /\ Step(p, "internal") /\ Directory(x.target)
      BY <1>4, <1>6, <1>15, <2>1, Targets DEF verifyClosedStagingRoot, At, Directory, Set
    <2>4. HandFits("internal", y) /\ "internal" \in Early
      BY <1>6, <2>2, <2>3 DEF HandFits, Marked, Early
    <2> QED
      BY <1>8, <2>2, <2>3, <2>4
  <1>16. CASE WriteInternalMarker(p)
    <2>0. x.whole /\ Directory(x.target)
      BY <1>3, <1>4, <1>5, <1>16 DEF WriteInternalMarker, WorkFits
    <2>1. PICK y : y = [x EXCEPT !.internal = TRUE]
      OBVIOUS
    <2>2. IsPub(y) /\ Marked(x, y, x.whole, TRUE, x.sibling)
      BY <1>5, <2>1 DEF IsPub, PubFields, Marked
    <2>3. pubs' = [pubs EXCEPT ![i] = y] /\ Step(p, "sibling")
      BY <1>4, <1>16, <2>1 DEF WriteInternalMarker, Set
    <2>4. HandFits("sibling", y) /\ "sibling" \in Early
      BY <1>6, <2>0, <2>2 DEF HandFits, Marked, Early
    <2> QED
      BY <1>7, <2>0, <2>2, <2>3, <2>4
  <1>17. ASSUME NEW s \in {"seal", "rename"}, Step(p, s), NEW v, Set(p, "sibling", v),
                job[p].step \in {"sibling", "seal"}
         PROVE  PubInv'
    <2>0. x.whole /\ (~Directory(x.target) => ~x.internal)
      BY <1>3, <1>4, <1>5, <1>17 DEF WorkFits, PubFits
    <2>1. PICK y : y = [x EXCEPT !.sibling = v]
      OBVIOUS
    <2>2. IsPub(y) /\ Marked(x, y, x.whole, x.internal, v)
      BY <1>5, <2>1 DEF IsPub, PubFields, Marked
    <2>3. pubs' = [pubs EXCEPT ![i] = y]
      BY <1>4, <1>17, <2>1 DEF Set
    <2>4. HandFits(s, y) /\ s \in Early
      BY <1>6, <1>17, <2>0, <2>2 DEF HandFits, Marked, Early
    <2> QED
      BY <1>7, <1>17, <2>0, <2>2, <2>3, <2>4
  <1>18. CASE CreateSiblingMarker(p)
    BY <1>17, <1>18 DEF CreateSiblingMarker
  <1>19. CASE SealSiblingMarker(p)
    BY <1>17, <1>19 DEF SealSiblingMarker
  <1> QED
    BY <1>9, <1>10, <1>11, <1>12, <1>13, <1>14, <1>15, <1>16, <1>18, <1>19 DEF BuildStep

\* The rename: nothing was at the target.
LEMMA RenameKeeps ==
    ASSUME HoldInv, PubInv, NEW p \in Proc, runtime' = runtime, PublishNoReplace(p)
    PROVE  PubInv'
  <1>1. Held(p) /\ Pubs(p) /\ PubShapes /\ Shapes /\ Listed(pubs)
    BY PublishHeld, PublishPubs DEF HoldInv, PubShapes
  <1>2. UNCHANGED <<space, reported>> /\ job[p].step = "rename" /\ Works(p)
    BY DEF PublishNoReplace, lockVars, Works, PubSteps
  <1>3. PICK i, x : i = job[p].pub /\ x = pubs[i]
    OBVIOUS
  <1>4. i \in 1..Len(pubs) /\ IsPub(x) /\ PubFits(x) /\ WorkFits(p)
    BY <1>1, <1>2, <1>3 DEF PubShapes, JobPub, Listed, Works, PubInv
  <1>5. x.place = "staging" /\ x.whole /\ x.target = TargetOf(x.cmd) /\ x.cmd \in Publishing
    BY <1>2, <1>3, <1>4 DEF WorkFits, PubFits, Early
  <1>6. PICK y : y = [x EXCEPT !.place = "target"]
    OBVIOUS
  <1>7. /\ IsPub(y) /\ y.cmd = x.cmd /\ y.target = x.target /\ y.input = x.input
        /\ y.place = "target" /\ y.whole = x.whole /\ y.internal = x.internal
        /\ y.caller = x.caller /\ y.sibling = x.sibling
    BY <1>4, <1>6 DEF IsPub, PubFields
  <1>8. PubFits(y)
    BY <1>4, <1>5, <1>7 DEF PubFits
  <1>9. pubs' = [pubs EXCEPT ![i] = y] /\ Step(p, PublishSingleFile(x.target))
    BY <1>3, <1>6 DEF PublishNoReplace, Set, Pub
  <1>10. Placed(x.target) = {}
    <2>1. ~TargetExists(x.target)
      BY <1>3 DEF PublishNoReplace, Pub
    <2>2. CASE x.target = "restored"
      BY <2>1, <2>2 DEF TargetExists, Dirs, PubInv, RestoredFits
    <2>3. CASE x.target # "restored"
      <3>1. x.target \notin Dirs
        BY <1>5, <2>3, Targets DEF Publishing, Dirs
      <3> QED
        BY <2>1, <3>1 DEF TargetExists
    <2> QED
      BY <2>2, <2>3
  <1>11. ASSUME x.target = "restored" PROVE dirs'["restored"].exists
    <2>1. PICK h, m, g, w : dirs' = [dirs EXCEPT !["restored"] =
                        [exists |-> TRUE, head |-> h, main |-> h, hot |-> FALSE, refs |-> h,
                         shared |-> m, registered |-> g, service |-> w]]
      BY <1>3, <1>11 DEF PublishNoReplace, Pub
    <2> QED
      BY <1>1, <2>1 DEF Shapes, Dirs
  <1>12. Advances(p, x, y)
    BY <1>2, <1>5, <1>7, <1>8, <1>10, <1>11 DEF Advances, Late
  <1>13. PICK s : s = PublishSingleFile(x.target)
    OBVIOUS
  <1>14. s \in {"clean", "unmark"} /\ (s = "unmark" => ~Directory(x.target))
    BY <1>13 DEF PublishSingleFile
  <1>15. s \in PubSteps /\ job[p].step \notin Late
    BY <1>2, <1>14 DEF PubSteps, Late
  <1>16. HandFits(s, y)
    BY <1>7, <1>8, <1>14 DEF HandFits, PubFits, Early
  <1> QED
    BY <1>1, <1>2, <1>3, <1>7, <1>9, <1>12, <1>13, <1>15, <1>16, HandKeeps

\* The markers go, the one inside before the one beside.
LEMMA CleanKeeps ==
    ASSUME HoldInv, PubInv, NEW p \in Proc, runtime' = runtime,
           CleanTarget(p) \/ RemoveSiblingMarker(p)
    PROVE  PubInv'
  <1>1. Held(p) /\ Pubs(p) /\ PubShapes /\ Shapes /\ Listed(pubs)
    BY BuildHeld, BuildPubs DEF BuildStep, HoldInv, PubShapes
  <1>2. /\ UNCHANGED <<space, reported>> /\ job[p].step \in {"clean", "unmark"}
        /\ Works(p) /\ job[p].step \notin Early
    BY DEF CleanTarget, RemoveSiblingMarker, lockVars, Works, PubSteps, Early
  <1>3. PICK i, x : i = job[p].pub /\ x = pubs[i]
    OBVIOUS
  <1>4. i \in 1..Len(pubs) /\ IsPub(x) /\ PubFits(x) /\ WorkFits(p)
    BY <1>1, <1>2, <1>3 DEF PubShapes, JobPub, Listed, Works, PubInv
  <1>5. x.place = "target"
    BY <1>2, <1>3, <1>4 DEF WorkFits
  <1>6. ASSUME NEW y, IsPub(y), pubs' = [pubs EXCEPT ![i] = y],
               y.cmd = x.cmd, y.target = x.target, y.input = x.input, y.place = x.place,
               y.whole = x.whole,
               y.internal => x.internal, y.caller => x.caller,
               y.sibling = x.sibling \/ y.sibling = "none",
               NEW s \in {"clean", "unmark", "barrier"}, Step(p, s),
               s \in {"unmark", "barrier"} => ~y.internal /\ ~y.caller,
               s = "barrier" => y.sibling = "none"
        PROVE  PubInv'
    <2>1. PubFits(y)
      BY <1>4, <1>5, <1>6 DEF PubFits
    <2>2. Advances(p, x, y)
      BY <1>5, <1>6, <2>1 DEF Advances
    <2>3. HandFits(s, y) /\ s \in PubSteps /\ s \in Late
      BY <1>5, <1>6 DEF HandFits, Early, PubSteps, Late
    <2> QED
      BY <1>1, <1>2, <1>3, <1>6, <2>2, <2>3, HandKeeps
  <1>7. CASE RemoveSiblingMarker(p)
    <2>1. PICK y : y = [x EXCEPT !.sibling = "none"]
      OBVIOUS
    <2>2. /\ IsPub(y) /\ y.cmd = x.cmd /\ y.target = x.target /\ y.input = x.input
          /\ y.place = x.place /\ y.whole = x.whole /\ y.internal = x.internal
          /\ y.caller = x.caller /\ y.sibling = "none"
      BY <1>4, <2>1 DEF IsPub, PubFields
    <2>3. pubs' = [pubs EXCEPT ![i] = y] /\ Step(p, "barrier")
      BY <1>3, <1>7, <2>1 DEF RemoveSiblingMarker, Set
    <2>4. ~x.internal /\ ~x.caller
      BY <1>2, <1>3, <1>4, <1>7 DEF RemoveSiblingMarker, WorkFits
    <2> QED
      BY <1>6, <2>2, <2>3, <2>4
  <1>8. CASE CleanTarget(p)
    <2>1. ASSUME job' = job PROVE Step(p, "clean")
      <3>1. PICK j : j = [job[p] EXCEPT !.step = "clean"]
        OBVIOUS
      <3>2. job[p] = [f \in JobFields |-> job[p][f]] /\ job[p].step = "clean"
        BY <1>1, <1>8 DEF CleanTarget, Shapes, IsJob
      <3>3. j = [f \in JobFields |-> j[f]] /\ \A f \in JobFields : j[f] = job[p][f]
        BY <3>1, <3>2 DEF JobFields
      <3>4. j = job[p]
        BY <3>2, <3>3
      <3>5. job = [job EXCEPT ![p] = j]
        BY <1>1, <3>4 DEF Shapes
      <3> QED
        BY <2>1, <3>1, <3>5 DEF Step
    <2>2. CASE Set(p, "internal", FALSE) /\ job' = job
      <3>1. PICK y : y = [x EXCEPT !.internal = FALSE]
        OBVIOUS
      <3>2. /\ IsPub(y) /\ y.cmd = x.cmd /\ y.target = x.target /\ y.input = x.input
            /\ y.place = x.place /\ y.whole = x.whole /\ y.internal = FALSE
            /\ y.caller = x.caller /\ y.sibling = x.sibling
        BY <1>4, <3>1 DEF IsPub, PubFields
      <3>3. pubs' = [pubs EXCEPT ![i] = y]
        BY <1>3, <2>2, <3>1 DEF Set
      <3> QED
        BY <1>6, <2>1, <2>2, <3>2, <3>3
    <2>3. CASE Set(p, "caller", FALSE) /\ job' = job
      <3>1. PICK y : y = [x EXCEPT !.caller = FALSE]
        OBVIOUS
      <3>2. /\ IsPub(y) /\ y.cmd = x.cmd /\ y.target = x.target /\ y.input = x.input
            /\ y.place = x.place /\ y.whole = x.whole /\ y.internal = x.internal
            /\ y.caller = FALSE /\ y.sibling = x.sibling
        BY <1>4, <3>1 DEF IsPub, PubFields
      <3>3. pubs' = [pubs EXCEPT ![i] = y]
        BY <1>3, <2>3, <3>1 DEF Set
      <3> QED
        BY <1>6, <2>1, <2>3, <3>2, <3>3
    <2>4. CASE ~x.internal /\ ~x.caller /\ Step(p, "unmark") /\ pubs' = pubs
      <3>1. pubs' = [pubs EXCEPT ![i] = x]
        BY <1>1, <1>3, <2>4 DEF Listed
      <3> QED
        BY <1>4, <1>6, <2>4, <3>1
    <2> QED
      BY <1>3, <1>8, <2>2, <2>3, <2>4 DEF CleanTarget, Pub
  <1> QED
    BY <1>7, <1>8

\* A recovered publication is authenticated before it is changed.
LEMMA AuthenticateKeeps ==
    ASSUME HoldInv, PubInv, NEW p \in Proc, runtime' = runtime,
           AuthenticatePublished(p) \/ Inspected(p)
    PROVE  PubInv'
  <1>1. /\ Held(p) /\ Pubs(p) /\ PubShapes /\ Shapes /\ Listed(pubs) /\ pubs' = pubs
        /\ reported' = reported
    BY DecideHeld, DecidePubs DEF HoldInv, PubShapes, AuthenticatePublished, Inspected
  <1>2. CASE Finish(p)
    BY <1>1, <1>2, AlikeSteps, FinishKeeps
  <1>3. CASE job[p].step = "authenticate" /\ Step(p, "clean") /\ space' = space
    <2>1. PICK i, x : i = job[p].pub /\ x = pubs[i]
      OBVIOUS
    <2>2. Works(p) /\ IsPub(x) /\ PubFits(x) /\ WorkFits(p)
      BY <1>1, <1>3, <2>1 DEF PubShapes, JobPub, Listed, Works, PubSteps, PubInv
    <2>3. x.place = "target"
      BY <1>3, <2>1, <2>2 DEF WorkFits, Early
    <2>4. pubs' = [pubs EXCEPT ![i] = x]
      BY <1>1, <2>1 DEF Listed
    <2>5. Advances(p, x, x) /\ HandFits("clean", x) /\ "clean" \in PubSteps /\ "clean" \in Late
      BY <2>2, <2>3 DEF Advances, HandFits, Early, PubSteps, Late
    <2> QED
      BY <1>1, <1>3, <2>1, <2>2, <2>4, <2>5, HandKeeps
  <1> QED
    BY <1>2, <1>3 DEF AuthenticatePublished, Inspected, lockVars

\* Success is reported behind the last barrier.
LEMMA ReportKeeps ==
    ASSUME HoldInv, PubInv, NEW p \in Proc, runtime' = runtime, Report(p) PROVE PubInv'
  <1>1. Held(p) /\ Pubs(p) /\ Alike /\ SpaceKept(p)
    BY DecideHeld, DecidePubs, AlikeSteps, SpaceKeeps DEF HoldInv, Report, Finish
  <1>2. job'[p] = NoJob
    BY FinishPubs DEF Report
  <1>3. ~Works(p)' /\ Draws(p) /\ job'[p].step = "none"
    BY <1>2 DEF Works, NoJob, PubSteps, Draws
  <1>4. Reports(p) /\ Picks(p) /\ WorkFits(p)'
    BY <1>3 DEF Reports, Report, Picks, WorkFits
  <1> QED
    BY <1>1, <1>3, <1>4, AlikeMoves, PubKeeps

\* A command that fails may discard the file it had staged.
LEMMA FailKeeps ==
    ASSUME HoldInv, PubInv, NEW p \in Proc, runtime' = runtime, JobFails(p) PROVE PubInv'
  <1>1. /\ Held(p) /\ Pubs(p) /\ PubShapes /\ Shapes /\ Listed(pubs) /\ Finish(p) /\ Discard(p)
        /\ reported' = reported
    BY FailsHeld, PublishPubs DEF HoldInv, PubShapes, JobFails
  <1>2. CASE pubs' = pubs
    BY <1>1, <1>2, AlikeSteps, FinishKeeps
  <1>3. CASE pubs' # pubs
    <2>1. PICK i, x : i = job[p].pub /\ x = pubs[i]
      OBVIOUS
    <2>2. /\ ~Directory(x.target) /\ x.sibling = "none" /\ Set(p, "place", "gone")
          /\ job[p].step \in {"build", "sibling", "barrier"}
      BY <1>1, <1>3, <2>1 DEF Discard, Pub
    <2>3. Works(p) /\ IsPub(x) /\ PubFits(x)
      BY <1>1, <2>1, <2>2 DEF PubShapes, JobPub, Listed, Works, PubSteps, PubInv
    <2>4. PICK y : y = [x EXCEPT !.place = "gone"]
      OBVIOUS
    <2>5. /\ IsPub(y) /\ y.cmd = x.cmd /\ y.target = x.target /\ y.input = x.input
          /\ y.place = "gone" /\ y.whole = x.whole /\ y.internal = x.internal
          /\ y.caller = x.caller /\ y.sibling = x.sibling
      BY <2>3, <2>4 DEF IsPub, PubFields
    <2>6. PubFits(y)
      BY <2>2, <2>3, <2>5 DEF PubFits
    <2>7. Advances(p, x, y)
      BY <2>2, <2>5, <2>6 DEF Advances
    <2>8. pubs' = [pubs EXCEPT ![i] = y]
      BY <2>1, <2>2, <2>4 DEF Set
    <2>9. SpaceKept(p)
      BY <1>1, SpaceKeeps DEF Finish
    <2>10. Moves(p)
      BY <1>1, <2>1, <2>3, <2>5, <2>7, <2>8, <2>9, OwnMoves
    <2>11. job'[p] = NoJob
      BY <1>1, FinishPubs
    <2>12. ~Works(p)' /\ Draws(p) /\ job'[p].step = "none"
      BY <2>11 DEF Works, NoJob, PubSteps, Draws
    <2>13. Picks(p) /\ WorkFits(p)'
      BY <2>12 DEF Picks, WorkFits
    <2> QED
      BY <1>1, <2>10, <2>12, <2>13, PubKeeps
  <1> QED
    BY <1>2, <1>3

LEMMA PubStep == HoldInv /\ PubInv /\ [Next]_vars => PubInv'
  <1> SUFFICES ASSUME HoldInv, PubInv, [Next]_vars PROVE PubInv'
    OBVIOUS
  <1>1. CASE UNCHANGED vars
    <2>1. UNCHANGED <<pubs, job, space, reported, dirs>>
      BY <1>1 DEF vars
    <2>2. \A name : Placed(name)' = Placed(name) /\ Siblings(name)' = Siblings(name)
      BY <2>1 DEF Placed, Siblings
    <2>3. RestoredFits'
      BY <2>1, <2>2 DEF RestoredFits, PubInv, BundleInput
    <2>4. \A p \in Proc : WorkFits(p)' /\ FromFits(p)'
      BY <2>1, <2>2 DEF WorkFits, FromFits, Works, BundleTraces, PubInv, BundleInput
    <2> QED
      BY <2>1, <2>2, <2>3, <2>4 DEF PubInv, BundleTraces, ReportFits, Works
  <1>2. ASSUME NEW p \in Proc,
               \/ Execute(p) \/ Running(p) \/ RuntimeStep(p) \/ Submit(p) \/ Exit(p)
               \/ StreamStep(p)
        PROVE  PubInv'
    <2>1. CASE Execute(p)
      BY <2>1, BeginKeeps DEF Execute
    <2>2. CASE Running(p)
      <3>1. runtime' = runtime /\ CommandStep(p)
        BY <2>2 DEF Running
      <3> QED
        BY <3>1, CheckKeeps, NamespaceKeeps, DecideKeeps, BuildKeeps, RenameKeeps, CleanKeeps,
           AuthenticateKeeps, ReportKeeps, FailKeeps, InPlaceKeeps
           DEF CommandStep, BuildStep, InPlaceStep
    <2>3. CASE RuntimeStep(p) \/ Submit(p) \/ Exit(p) \/ StreamStep(p)
      BY <2>3, RuntimeKeeps
    <2> QED
      BY <1>2, <2>1, <2>2, <2>3
  <1> QED
    BY <1>1, <1>2 DEF Next, StreamStep

LEMMA PubInit == Init => PubInv
  <1> SUFFICES ASSUME Init PROVE PubInv
    OBVIOUS
  <1>1. pubs = <<>> /\ Len(pubs) = 0 /\ DOMAIN pubs = {} /\ reported = {}
    BY DEF Init
  <1>2. \A name : Placed(name) = {} /\ Siblings(name) = {}
    BY <1>1 DEF Placed, Siblings
  <1>3. \A p \in Proc : WorkFits(p) /\ FromFits(p)
    <2>1. \A p \in Proc : job[p] = NoJob
      BY DEF Init
    <2> QED
      BY <2>1 DEF WorkFits, FromFits, Works, NoJob, PubSteps
  <1> QED
    BY <1>1, <1>2, <1>3 DEF PubInv, BundleTraces, RestoredFits

LEMMA PubAlways == Spec => []PubInv
  BY HoldAlways, PubInit, PubStep, PTL DEF Spec

\* What a command reported is published, whole and without a marker, for the
\* input it was bound to; no name is taken twice; and what a command works from
\* is a whole publication: whichever commands run at once, fail or are killed
\* at any step, for every set of processes and every allowance of commands.
THEOREM PublicationsHold == Spec => []PublicationSound
  <1>1. HoldInv /\ PubInv => PublicationSound
    <2> SUFFICES ASSUME HoldInv, PubInv PROVE PublicationSound
      OBVIOUS
    <2>1. DOMAIN pubs = 1..Len(pubs) /\ \A k \in 1..Len(pubs) : PubFits(pubs[k])
      BY DEF HoldInv, PubShapes, Listed, PubInv
    <2>2. ASSUME NEW r \in reported
          PROVE  /\ pubs[r.pub].place = "target" /\ pubs[r.pub].whole
                 /\ ~pubs[r.pub].internal /\ ~pubs[r.pub].caller
                 /\ pubs[r.pub].sibling = "none"
                 /\ pubs[r.pub].cmd = r.cmd /\ pubs[r.pub].input = r.input
      BY <2>1 DEF PubInv, ReportFits, PubFits
    <2>3. ASSUME NEW name \in Names PROVE Cardinality(Placed(name)) <= 1
      BY AtMostOne DEF PubInv
    <2>4. ASSUME NEW p \in Proc, job[p].from # 0
          PROVE  pubs[job[p].from].place = "target" /\ pubs[job[p].from].whole
      <3>1. job[p].from \in Placed("bundle") \cup Placed("plan")
        BY <2>4 DEF PubInv, FromFits
      <3> QED
        BY <2>1, <3>1 DEF Placed, PubFits
    <2> QED
      BY <2>2, <2>3, <2>4 DEF PublicationSound
  <1> QED
    BY <1>1, HoldAlways, PubAlways, PTL

=============================================================================
