------------------------------- MODULE PubSub -------------------------------
(***************************************************************************)
(* RabbitMQBus of pubsub/rabbitmq.go.  Publish sends a mandatory message    *)
(* under publishMu and waits for its confirmation or a deadline; the amqp   *)
(* client reads the broker's frames in order and hands a returned message  *)
(* to a channel with one slot.  Subscribe handles what a durable queue      *)
(* delivers and acknowledges it.                                            *)
(***************************************************************************)
EXTENDS Naturals, Sequences, FiniteSets, SequencesExt

CONSTANTS
    Messages,       \* messages, each published once
    Oversized,      \* messages larger than MaxPayloadBytes of the subscriber
    MaxFailures,    \* bound: handlers that fail, and connections and channels that are lost
    Nobody          \* no message

ASSUME RabbitAssumption == Nobody \notin Messages

VARIABLES
    channel,      \* publishChannel: "open", or "lost" for good
    routable,     \* messages whose routing key is bound to the queue
    published,    \* [Messages -> where its Publish is, or what it returned]
    publishMu,    \* message whose Publish holds the mutex
    inbox,        \* messages the broker has not taken
    frames,       \* frames of the publish channel the client has not read
    returns,      \* publishReturns, one slot
    confirms,     \* [Messages -> what its DeferredConfirmation knows]
    queue,        \* messages in the durable queue
    delivery,     \* the message the subscriber handles
    subscriber,   \* "waits", "handles", "acks", "returned"
    handled,      \* messages whose handler returned nil
    dropped,      \* messages rejected without requeue
    failures      \* failures so far

rabbitVars == <<channel, routable, published, publishMu, inbox, frames, returns, confirms,
                queue, delivery, subscriber, handled, dropped, failures>>

RabbitInit ==
    /\ channel = "open"
    /\ routable \in SUBSET Messages
    /\ published = [m \in Messages |-> "new"]
    /\ publishMu = Nobody
    /\ inbox = <<>>
    /\ frames = <<>>
    /\ returns = <<>>
    /\ confirms = [m \in Messages |-> "none"]
    /\ queue = {}
    /\ delivery = Nobody
    /\ subscriber = "waits"
    /\ handled = {}
    /\ dropped = {}
    /\ failures = 0

subscriberVars == <<delivery, subscriber, handled, dropped, failures>>

-----------------------------------------------------------------------------
Publish(m) ==
    /\ channel = "open"
    /\ published[m] = "new"
    /\ publishMu = Nobody
    /\ publishMu' = m
    /\ published' = [published EXCEPT ![m] = "sent"]
    /\ inbox' = Append(inbox, m)
    /\ UNCHANGED <<channel, routable, frames, returns, confirms, queue, subscriberVars>>

\* The input is refused, or the channel is lost or cannot send: nothing reaches the broker.
PublishFails(m) ==
    /\ published[m] = "new"
    /\ publishMu = Nobody
    /\ published' = [published EXCEPT ![m] = "not sent"]
    /\ UNCHANGED <<channel, routable, publishMu, inbox, frames, returns, confirms, queue, subscriberVars>>

Returned(m, result) ==
    /\ published' = [published EXCEPT ![m] = result]
    /\ publishMu' = Nobody

\* The broker stores a message it can route and confirms it; it returns one it
\* cannot route before it confirms it; it may refuse.
BrokerTakes(m) ==
    /\ inbox # <<>>
    /\ m = Head(inbox)
    /\ inbox' = Tail(inbox)
    /\ \/ /\ m \in routable
          /\ queue' = queue \cup {m}
          /\ frames' = Append(frames, <<"ack", m>>)
       \/ /\ m \notin routable
          /\ queue' = queue
          /\ frames' = frames \o << <<"return", m>>, <<"ack", m>> >>
       \/ /\ queue' = queue
          /\ frames' = Append(frames, <<"nack", m>>)
    /\ UNCHANGED <<channel, routable, published, publishMu, returns, confirms, subscriberVars>>

\* The client reads a frame; it stops at a returned message while the slot is full.
ReadFrame ==
    /\ frames # <<>>
    /\ LET kind == Head(frames)[1]
           m == Head(frames)[2]
       IN  IF kind = "return"
           THEN returns = <<>> /\ returns' = <<m>> /\ confirms' = confirms
           ELSE confirms' = [confirms EXCEPT ![m] = kind] /\ returns' = returns
    /\ frames' = Tail(frames)
    /\ UNCHANGED <<channel, routable, published, publishMu, inbox, queue, subscriberVars>>

\* The client waits for the slot and nobody will drain it for this message.
ReaderBlocked == frames # <<>> /\ Head(frames)[1] = "return" /\ returns # <<>>

\* The channel, or its connection, ends, and what the broker has not taken or the
\* client has not read is gone. The client closes publishReturns and refuses what
\* waits for a confirmation, unless its reader waits for the slot and keeps the
\* lock that takes. Nothing opens the channel again.
ChannelLost ==
    /\ channel = "open"
    /\ failures < MaxFailures
    /\ failures' = failures + 1
    /\ channel' = "lost"
    /\ inbox' = <<>>
    /\ IF ReaderBlocked
       THEN UNCHANGED <<frames, confirms>>
       ELSE /\ frames' = <<>>
            /\ confirms' = [m \in Messages |->
                  IF published[m] = "sent" /\ confirms[m] = "none" THEN "nack" ELSE confirms[m]]
    /\ UNCHANGED <<routable, published, publishMu, returns, queue, delivery, subscriber, handled, dropped>>

\* Mutant: the confirmation alone decides.
ConfirmDecides(m) == IF confirms[m] = "nack" THEN "nack" ELSE "ok"

\* What a confirmed Publish returns: a channel that is closed gives a Return too.
Verdict(m) ==
    IF confirms[m] = "nack" THEN "nack"
    ELSE IF returns # <<>> \/ channel # "open" THEN "unroutable"
    ELSE "ok"

\* A positive confirmation takes whatever message was returned out of the slot.
Confirmed(m) ==
    /\ published[m] = "sent"
    /\ confirms[m] \in {"ack", "nack"}
    /\ Returned(m, Verdict(m))
    /\ returns' = IF confirms[m] = "ack" THEN <<>> ELSE returns
    /\ UNCHANGED <<channel, routable, inbox, frames, confirms, queue, subscriberVars>>

\* ConfirmTimeout, or the caller's context: a message that was returned stays in the slot.
ConfirmTimeout(m) ==
    /\ published[m] = "sent"
    /\ Returned(m, "timeout")
    /\ UNCHANGED <<channel, routable, inbox, frames, returns, confirms, queue, subscriberVars>>

-----------------------------------------------------------------------------
publishVars == <<channel, routable, published, publishMu, inbox, frames, returns, confirms>>

Deliver(m) ==
    /\ subscriber = "waits"
    /\ m \in queue
    /\ queue' = queue \ {m}
    /\ IF m \in Oversized
       THEN dropped' = dropped \cup {m} /\ UNCHANGED <<delivery, subscriber>>
       ELSE delivery' = m /\ subscriber' = "handles" /\ dropped' = dropped
    /\ UNCHANGED <<publishVars, handled, failures>>

HandlerSucceeds ==
    /\ subscriber = "handles"
    /\ handled' = handled \cup {delivery}
    /\ subscriber' = "acks"
    /\ UNCHANGED <<publishVars, queue, delivery, dropped, failures>>

Ack ==
    /\ subscriber = "acks"
    /\ delivery' = Nobody
    /\ subscriber' = "waits"
    /\ UNCHANGED <<publishVars, queue, handled, dropped, failures>>

\* Nack with requeue when the handler fails; the broker requeues what was not
\* acknowledged when the connection is lost.  Subscribe returns an error.
SubscribeFails ==
    /\ failures < MaxFailures
    /\ subscriber # "returned"
    /\ failures' = failures + 1
    /\ subscriber' = "returned"
    /\ queue' = IF delivery = Nobody THEN queue ELSE queue \cup {delivery}
    /\ delivery' = Nobody
    /\ UNCHANGED <<publishVars, handled, dropped>>

Resubscribe ==
    /\ subscriber = "returned"
    /\ subscriber' = "waits"
    /\ UNCHANGED <<publishVars, queue, delivery, handled, dropped, failures>>

Consume == (\E m \in Messages : Deliver(m)) \/ HandlerSucceeds \/ Ack \/ Resubscribe

RabbitNext ==
    \/ \E m \in Messages : Publish(m) \/ PublishFails(m) \/ BrokerTakes(m) \/ Confirmed(m) \/ ConfirmTimeout(m)
    \/ ReadFrame
    \/ ChannelLost
    \/ Consume
    \/ SubscribeFails

-----------------------------------------------------------------------------
\* The queue has it, or its handler or its size settled it.
Stored(m) == m \in queue \cup {delivery} \cup handled \cup (dropped \cap Oversized)

\* An unroutable message whose Publish had given up: its return is nobody's.
Orphaned(m) == m \notin routable /\ published[m] = "timeout"

\* Publish returns nil only for a message that the queue holds, or that was
\* handled, or rejected for its size. It calls a routed message unroutable only
\* once the channel is lost, or after an unroutable message whose confirmation
\* had timed out; the message is then stored all the same, and whoever publishes
\* it again publishes it twice. The reader stops only after such a message too.
PublishTruth ==
    \A m \in Messages :
        /\ published[m] = "ok" => m \in routable /\ Stored(m)
        /\ published[m] = "unroutable" /\ m \in routable =>
              Stored(m) /\ (channel # "open" \/ \E n \in Messages \ {m} : Orphaned(n))
        /\ ReaderBlocked => \E n \in Messages : Orphaned(n) /\ returns = <<n>>

-----------------------------------------------------------------------------
(***************************************************************************)
(* The in-process Bus of pubsub/pubsub.go, which starts a goroutine for    *)
(* every handler of a message, and RedisBus of pubsub/redis.go, whose      *)
(* Subscribe reads one subscription after the other's end and hands its    *)
(* messages to the handler one by one.                                     *)
(***************************************************************************)

CONSTANTS
    Subscribers,   \* subscribers; a handler of Bus, or a process with a RedisBus
    MaxMessages,   \* bound: messages published, numbered in the order of Publish
    MaxCalls       \* bound: Subscribe calls of a process

\* What a message does to RedisBus.Subscribe: it is handled; its handler panics;
\* or it is too large or no JSON, and is not handed over.
MessageKinds == {"ok", "panics", "refused"}

VARIABLES
    messages,     \* the messages that Publish has sent: kind, and the subscribers it met
    goroutines,   \* handlers of Bus that have not run yet: <<message, subscriber>>
    ranWith,      \* [Subscribers -> messages its Bus handler ran with]
    topic,        \* subscribers of Bus
    subscription, \* [Subscribers -> "none", "open": what Redis knows of its RedisBus]
    incoming,     \* [Subscribers -> messages on the subscription's connection]
    received,     \* [Subscribers -> messages its RedisBus handler ran with]
    calls         \* [Subscribers -> calls of Subscribe]

busVars == <<messages, goroutines, ranWith, topic, subscription, incoming, received, calls>>

BusesInit ==
    /\ messages = <<>>
    /\ goroutines = {}
    /\ topic = {}
    /\ subscription = [s \in Subscribers |-> "none"]
    /\ calls = [s \in Subscribers |-> 0]
    /\ ranWith = [s \in Subscribers |-> <<>>]
    /\ incoming = [s \in Subscribers |-> <<>>]
    /\ received = [s \in Subscribers |-> <<>>]

Subscribed == {s \in Subscribers : subscription[s] = "open"}

\* Bus.Subscribe
Attach(s) ==
    /\ s \notin topic
    /\ topic' = topic \cup {s}
    /\ UNCHANGED <<messages, goroutines, ranWith, subscription, incoming, received, calls>>

\* Bus.Publish and RedisBus.Publish of one message: both reach who is there now.
\* go-redis sends PUBLISH again when the reply does not come, so a message may
\* go to the subscriptions twice.
PublishToAll(kind, copies) ==
    LET m == Len(messages) + 1
    IN  /\ m <= MaxMessages
        /\ messages' = Append(messages, [kind |-> kind, to |-> topic, open |-> Subscribed, copies |-> copies])
        /\ goroutines' = goroutines \cup ({m} \X topic)
        /\ incoming' = [s \in Subscribers |->
                           IF s \in Subscribed THEN incoming[s] \o [i \in 1 .. copies |-> m] ELSE incoming[s]]
        /\ UNCHANGED <<ranWith, topic, subscription, received, calls>>

\* The goroutines run in any order, beside one another and the next Publish.
RunHandler(m, s) ==
    /\ <<m, s>> \in goroutines
    /\ goroutines' = goroutines \ {<<m, s>>}
    /\ ranWith' = [ranWith EXCEPT ![s] = Append(@, m)]
    /\ UNCHANGED <<messages, topic, subscription, incoming, received, calls>>

\* RedisBus.Subscribe: SUBSCRIBE and its confirmation.
Subscribe(s) ==
    /\ subscription[s] = "none" /\ calls[s] < MaxCalls
    /\ subscription' = [subscription EXCEPT ![s] = "open"]
    /\ calls' = [calls EXCEPT ![s] = @ + 1]
    /\ UNCHANGED <<messages, goroutines, ranWith, topic, incoming, received>>

\* Mutant: the next message is read whatever became of this one.
ReadsOn(m) == TRUE

\* A message that is refused, or whose handler panics, ends Subscribe.
GoesOn(m) == messages[m].kind = "ok"

HandedOver(m) == messages[m].kind # "refused"

\* Subscribe reads a message; with its subscription the messages behind it go.
Receive(s) ==
    /\ subscription[s] = "open" /\ incoming[s] # <<>>
    /\ LET m == Head(incoming[s])
       IN  /\ received' = [received EXCEPT ![s] = IF HandedOver(m) THEN Append(@, m) ELSE @]
           /\ subscription' = [subscription EXCEPT ![s] = IF GoesOn(m) THEN "open" ELSE "none"]
           /\ incoming' = [incoming EXCEPT ![s] = IF GoesOn(m) THEN Tail(@) ELSE <<>>]
    /\ UNCHANGED <<messages, goroutines, ranWith, topic, calls>>

\* The context ends, or the connection does: ReceiveMessage returns an error.
Unsubscribe(s) ==
    /\ subscription[s] = "open"
    /\ subscription' = [subscription EXCEPT ![s] = "none"]
    /\ incoming' = [incoming EXCEPT ![s] = <<>>]
    /\ UNCHANGED <<messages, goroutines, ranWith, topic, received, calls>>

BusesNext ==
    \/ \E kind \in MessageKinds, copies \in 0 .. 2 : PublishToAll(kind, copies)
    \/ \E s \in Subscribers :
          \/ Attach(s) \/ Subscribe(s) \/ Receive(s) \/ Unsubscribe(s)
          \/ \E m \in 1 .. MaxMessages : RunHandler(m, s)

\* The publisher of RabbitMQ is at rest.
BusesAlone == RabbitInit /\ BusesInit /\ [][BusesNext /\ UNCHANGED rabbitVars]_<<rabbitVars, busVars>>

-----------------------------------------------------------------------------
\* A handler of Bus runs once with each message of its time, in any order. Those
\* of RedisBus run in the order of Publish, with messages of their time only, and
\* twice only with a message that was published twice; and between two they got
\* in one call of Subscribe there is none they did not get.
BusesKeepTheirWord ==
    \A s \in Subscribers :
        /\ IsInjective(ranWith[s])
        /\ \A m \in DOMAIN messages : s \in messages[m].to <=> m \in ToSet(ranWith[s]) \/ <<m, s>> \in goroutines
        /\ \A i, j \in DOMAIN received[s] : i < j =>
              /\ received[s][i] <= received[s][j]
              /\ received[s][i] = received[s][j] => messages[received[s][i]].copies = 2
        /\ \A i \in DOMAIN received[s] : s \in messages[received[s][i]].open
        /\ calls[s] = 1 /\ received[s] # <<>> =>
              \A m \in 1 .. Last(received[s]) - 1 :
                  s \in messages[m].open /\ messages[m].copies > 0 => m \in ToSet(received[s])

\* What RedisBus is said to provide: "at-most-once distributed notifications"
\* (redis.go:27, 83), so that no subscriber's handler runs twice with a message.
AtMostOnce == \A s \in Subscribers : IsInjective(received[s])
=============================================================================
