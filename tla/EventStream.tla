----------------------------- MODULE EventStream ----------------------------
(***************************************************************************)
(* The events of the runs and their subscribers (agent-runtime-system:     *)
(* events.go, removeSubscriber of system.go).  A run publishes the         *)
(* assistant message it writes, as a whole or as the difference to what    *)
(* was published last; the relay of a confirmation publishes it as a whole *)
(* from a goroutine of its own.  Every subscriber has a queue without      *)
(* bound that merges adjacent differences, and a goroutine that feeds a    *)
(* bounded channel.  A text is abstracted to the version that wrote it and *)
(* its length.                                                             *)
(***************************************************************************)
EXTENDS Naturals, Sequences, SequencesExt

CONSTANTS
    Messages,       \* the assistant messages, each of one run
    Subscribers,
    OutLimit,       \* the capacity of the channel of a subscriber
    MaxLength,      \* bound: length of a text
    MaxRewrites,    \* bound: texts that do not continue one another
    MaxEvents       \* bound: events of all messages

ASSUME StreamAssumption ==
    {OutLimit, MaxLength, MaxRewrites, MaxEvents} \subseteq Nat /\ IsFiniteSet(Messages)

VARIABLES
    baseline,       \* publishedMessages: the text that was published last
    event,          \* the event a publisher publishes
    stage,          \* where its publication is
    receivers,      \* the subscribers it still goes to
    locked,         \* the publishers that hold sessionMu of their run
    overlapped,     \* history: two publications of a message have overlapped
    subscribed,     \* s.subscribers
    queue,          \* pending of a subscriber
    carried,        \* the event its goroutine took out of the queue, as a sequence
    channel,        \* out
    screen,         \* the text a consumer shows, see Shown
    emitted         \* how many events every message has had

streamSource == <<baseline, emitted>>
streamPublish == <<event, stage, receivers, locked, overlapped>>
streamDelivery == <<subscribed, queue, carried, channel, screen>>
streamVars == <<streamSource, streamPublish, streamDelivery>>

Texts == [version : 0 .. MaxRewrites, length : 0 .. MaxLength]
NoText == [version |-> 0, length |-> 0]
Unseen == [version |-> MaxRewrites + 1, length |-> 0]
Garbled == [version |-> MaxRewrites + 2, length |-> 0]
Shown == Texts \cup {Unseen, Garbled}

\* strings.HasPrefix, on the abstraction.
Continues(new, old) ==
    old.length = 0 \/ (new.version = old.version /\ new.length >= old.length)
Same(a, b) == a = b \/ ({a, b} \subseteq Texts /\ a.length = 0 /\ b.length = 0)

\* Who publishes a message: the run that writes it, and the relay of a confirmation that a
\* tool in the background asks for.
Publishers == Messages \X {"run", "relay"}
Other(p) == <<p[1], IF p[2] = "run" THEN "relay" ELSE "run">>

\* A difference appends what leads from a text to another one; an event with "whole"
\* replaces the text.  An event about something else is to a queue and to a text what an
\* event of another message is.
StreamEvents ==
    [message : Messages, kind : {"delta", "whole"}, reset : BOOLEAN, from : Shown, to : Shown]
Replaces(e) == e.kind = "whole" \/ e.reset

StreamInit ==
    /\ baseline = [m \in Messages |-> NoText]
    /\ event = [p \in Publishers |-> << >>]
    /\ stage = [p \in Publishers |-> "idle"]
    /\ receivers = [p \in Publishers |-> {}]
    /\ locked = {} /\ overlapped = {}
    /\ subscribed = {}
    /\ queue = [s \in Subscribers |-> << >>]
    /\ carried = [s \in Subscribers |-> << >>]
    /\ channel = [s \in Subscribers |-> << >>]
    /\ screen = [s \in Subscribers |-> [m \in Messages |-> Unseen]]
    /\ emitted = [m \in Messages |-> 0]

-----------------------------------------------------------------------------
(***************************************************************************)
(* The publishers; each publishes one event after the other.               *)
(***************************************************************************)

\* The event is made and the baseline moves with it, under a lock of its own.  A publisher
\* that takes sessionMu waits for the other one of the message if that holds it; whoever
\* does not take it may overlap with the other one.  A replacement made while the other
\* publishes nothing puts an overlap right.
\* Mutant: sessionMu is not taken.
EmitAnyway(p, kind, t, reset, lock) ==
    LET m == p[1]
        e == [message |-> m, kind |-> kind, reset |-> reset, from |-> baseline[m], to |-> t]
    IN  /\ stage[p] = "idle"
        /\ FoldFunction(+, 0, emitted) < MaxEvents
        /\ emitted' = [emitted EXCEPT ![m] = @ + 1]
        /\ event' = [event EXCEPT ![p] = <<e>>]
        /\ baseline' = [baseline EXCEPT ![m] = t]
        /\ stage' = [stage EXCEPT ![p] = "made"]
        /\ locked' = IF lock THEN locked \cup {p} ELSE locked
        /\ overlapped' = IF stage[Other(p)] # "idle"
                      THEN (IF lock /\ Other(p) \in locked THEN overlapped ELSE overlapped \cup {m})
                      ELSE IF Replaces(e) THEN overlapped \ {m} ELSE overlapped
        /\ UNCHANGED <<receivers, streamDelivery>>
Emit(p, kind, t, reset, lock) ==
    (lock => Other(p) \notin locked) /\ EmitAnyway(p, kind, t, reset, lock)

\* publishAssistantMessageDelta: no change is no event.  The text is what the run has made
\* of it: continued, rolled back after a failed attempt, or replaced by the final answer.
PublishDelta(m) ==
    \E t \in Texts :
        /\ ~Same(t, baseline[m])
        /\ Emit(<<m, "run">>, "delta", t, ~Continues(t, baseline[m]), FALSE)

\* publishAssistantMessageUpdate by the run: under sessionMu with the result of a tool or a
\* confirmation that is applied, elsewhere without.
PublishUpdate(m) ==
    \E t \in Texts, lock \in BOOLEAN : Emit(<<m, "run">>, "whole", t, FALSE, lock)

\* publishAssistantMessageUpdate by projectToolConfirmation and
\* clearToolConfirmationProjection: under sessionMu, but the run writes the text without, so
\* that the relay may read whatever text was, or half is, or will be.
PublishProjection(m) ==
    \E t \in Texts : Emit(<<m, "relay">>, "whole", t, FALSE, TRUE)

\* publish: the subscribers are copied under the lock, and then served one by one.
Snapshot(p) ==
    /\ stage[p] = "made"
    /\ receivers' = [receivers EXCEPT ![p] = subscribed]
    /\ stage' = [stage EXCEPT ![p] = "send"]
    /\ UNCHANGED <<event, locked, overlapped, streamSource, streamDelivery>>

\* enqueue: a difference that does not replace the text is merged into the last waiting
\* event when that is a difference of the same message.
\* Mutant: a difference that replaces the text is merged as well.
MergesAny(last, e) == last.kind = "delta" /\ e.kind = "delta" /\ last.message = e.message
Merges(last, e) ==
    /\ last.kind = "delta" /\ e.kind = "delta" /\ ~e.reset
    /\ last.message = e.message

\* mergeDeltaEvents appends the later piece to the earlier one.
Merged(last, e) == [last EXCEPT !.to = IF Same(last.to, e.from) /\ ~e.reset THEN e.to ELSE Garbled]

Enqueue(p, s) ==
    /\ stage[p] = "send"
    /\ s \in receivers[p]
    /\ receivers' = [receivers EXCEPT ![p] = @ \ {s}]
    /\ LET e == event[p][1]  q == queue[s] IN
       queue' = [queue EXCEPT ![s] =
           IF s \notin subscribed THEN q
           ELSE IF q # << >> /\ Merges(Last(q), e) THEN Front(q) \o <<Merged(Last(q), e)>>
           ELSE Append(q, e)]
    /\ UNCHANGED <<event, stage, locked, overlapped, streamSource, subscribed, carried, channel,
                   screen>>

Published(p) ==
    /\ stage[p] = "send"
    /\ receivers[p] = {}
    /\ stage' = [stage EXCEPT ![p] = "idle"]
    /\ event' = [event EXCEPT ![p] = << >>]
    /\ locked' = locked \ {p}
    /\ UNCHANGED <<receivers, overlapped, streamSource, streamDelivery>>

-----------------------------------------------------------------------------
(***************************************************************************)
(* A subscriber, its goroutine and its consumer.                           *)
(***************************************************************************)

\* Subscribe: the consumer knows that a message of which nothing was published is empty.
Subscribe(s) ==
    /\ s \notin subscribed
    /\ subscribed' = subscribed \cup {s}
    /\ screen' = [screen EXCEPT ![s] = [m \in Messages |->
                  IF emitted[m] = 0 THEN NoText ELSE Unseen]]
    /\ UNCHANGED <<streamSource, streamPublish, queue, carried, channel>>

\* run: it takes one event and waits for room in the channel.
Carry(s) ==
    /\ s \in subscribed
    /\ carried[s] = << >>
    /\ queue[s] # << >>
    /\ carried' = [carried EXCEPT ![s] = <<Head(queue[s])>>]
    /\ queue' = [queue EXCEPT ![s] = Tail(@)]
    /\ UNCHANGED <<streamSource, streamPublish, subscribed, channel, screen>>

\* Mutant: it does not wait.
DeliverAnyway(s) ==
    /\ s \in subscribed
    /\ carried[s] # << >>
    /\ channel' = [channel EXCEPT ![s] = @ \o carried[s]]
    /\ carried' = [carried EXCEPT ![s] = << >>]
    /\ UNCHANGED <<streamSource, streamPublish, subscribed, queue, screen>>

Deliver(s) ==
    /\ s \in subscribed
    /\ carried[s] # << >>
    /\ Len(channel[s]) < OutLimit
    /\ channel' = [channel EXCEPT ![s] = @ \o carried[s]]
    /\ carried' = [carried EXCEPT ![s] = << >>]
    /\ UNCHANGED <<streamSource, streamPublish, subscribed, queue, screen>>

\* What a consumer makes of an event: a text that is known is replaced or continued.
Read(text, e) ==
    IF Replaces(e) THEN e.to
    ELSE IF text \in {Unseen, Garbled} THEN text
    ELSE IF Same(text, e.from) THEN e.to ELSE Garbled
Applied(v, e) == [v EXCEPT ![e.message] = Read(@, e)]

Consume(s) ==
    /\ s \in subscribed
    /\ channel[s] # << >>
    /\ screen' = [screen EXCEPT ![s] = Applied(@, Head(channel[s]))]
    /\ channel' = [channel EXCEPT ![s] = Tail(@)]
    /\ UNCHANGED <<streamSource, streamPublish, subscribed, queue, carried>>

\* removeSubscriber and close: whatever waits is thrown away.
Unsubscribe(s) ==
    /\ s \in subscribed
    /\ subscribed' = subscribed \ {s}
    /\ queue' = [queue EXCEPT ![s] = << >>]
    /\ carried' = [carried EXCEPT ![s] = << >>]
    /\ channel' = [channel EXCEPT ![s] = << >>]
    /\ screen' = [screen EXCEPT ![s] = [m \in Messages |-> Unseen]]
    /\ receivers' = [p \in Publishers |-> receivers[p] \ {s}]
    /\ UNCHANGED <<streamSource, event, stage, locked, overlapped>>

-----------------------------------------------------------------------------
StreamNext ==
    \/ \E m \in Messages : PublishDelta(m) \/ PublishUpdate(m) \/ PublishProjection(m)
    \/ \E p \in Publishers :
         Snapshot(p) \/ Published(p) \/ \E s \in Subscribers : Enqueue(p, s)
    \/ \E s \in Subscribers :
         Subscribe(s) \/ Carry(s) \/ Deliver(s) \/ Consume(s) \/ Unsubscribe(s)

StreamSpec == StreamInit /\ [][StreamNext]_streamVars

-----------------------------------------------------------------------------
(***************************************************************************)
(* Properties.                                                             *)
(***************************************************************************)

\* The types of the variables; the channel keeps its capacity.
StreamTypeOK ==
    /\ baseline \in [Messages -> Texts]
    /\ event \in [Publishers -> Seq(StreamEvents)] /\ \A p \in Publishers : Len(event[p]) <= 1
    /\ stage \in [Publishers -> {"idle", "made", "send"}]
    /\ receivers \in [Publishers -> SUBSET Subscribers]
    /\ locked \subseteq Publishers /\ overlapped \subseteq Messages
    /\ subscribed \subseteq Subscribers
    /\ {queue, carried, channel} \subseteq [Subscribers -> Seq(StreamEvents)]
    /\ \A s \in Subscribers : Len(carried[s]) <= 1 /\ Len(channel[s]) <= OutLimit
    /\ screen \in [Subscribers -> [Messages -> Shown]]
    /\ emitted \in [Messages -> 0 .. MaxEvents]

\* The event of a publisher that is on its way to a subscriber but not in its queue.
Coming(p, s) ==
    IF stage[p] = "made" \/ s \in receivers[p] THEN event[p] ELSE << >>

\* What a consumer will show of a message when all that is on its way has arrived.
Final(s, m) ==
    FoldLeft(Applied, screen[s],
             channel[s] \o carried[s] \o queue[s]
                 \o Coming(<<m, "run">>, s) \o Coming(<<m, "relay">>, s))[m]
ShownRight(s, m) == Final(s, m) = Unseen \/ Same(Final(s, m), baseline[m])

\* A consumer that has seen a message whole is never left with a wrong text: what it
\* shows, with everything on its way to it, is the text that was published last, as long
\* as no publication outside sessionMu has overlapped with that of a relay since the text
\* was last replaced (enqueue merges and run delivers without losing, repeating or
\* reordering a piece; sessionMu keeps results and relays apart).
InSync == \A s \in subscribed, m \in Messages \ overlapped : ShownRight(s, m)

\* The same, whoever publishes, as the comment on publishedMessageState has it.
AlwaysInSync == \A s \in subscribed, m \in Messages : ShownRight(s, m)
=============================================================================
