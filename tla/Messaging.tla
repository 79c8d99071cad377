----------------------------- MODULE Messaging -----------------------------
(***************************************************************************)
(* shared-messaging: a publisher, one service queue with its dead-letter    *)
(* exchange, and the process that consumes the queue with prefetch 1 and an *)
(* inbox table.  createProfile on user.registered is the effect applied.    *)
(*                                                                          *)
(* The connections of both processes break and come back.  A handler under  *)
(* way does not notice: it goes on while the broker, which requeued its     *)
(* message, delivers it again on the next channel.  When it comes to its    *)
(* ack the old channel throws, the nack in the catch block throws again,    *)
(* and nobody handles the rejection of the consume callback: Node ends the  *)
(* process, which is restarted.                                             *)
(*                                                                          *)
(* External: RabbitMQ, PostgreSQL and amqp-connection-manager, which keeps  *)
(* published messages in memory until the broker confirms them and sends    *)
(* the unconfirmed ones again after a reconnect.  Messages that do not      *)
(* parse are left out: publish() writes JSON.                               *)
(***************************************************************************)
EXTENDS Naturals, FiniteSets

CONSTANTS
    Events,
    RoutingKey,     \* of the events and of the service queue's binding
    Handlers,       \* invocations of the consume callback under way
    MaxLinkLosses,  \* bound on lost connections of each process
    MaxCrashes,     \* bound on ends of either process
    NoEvent

ASSUME MessagingAssumption ==
    /\ NoEvent \notin Events
    /\ RoutingKey # "#"
    /\ {MaxLinkLosses, MaxCrashes} \subseteq Nat

VARIABLES
    publish,      \* publish[e]: what became of publish(e)
    declared,     \* the consumer has declared and bound its queue
    waiting,      \* waiting[e]: copies of e ready in the queue
    channel,      \* number of the consumer's channel
    handler,      \* handler[h]: progress, event and channel of h
    inbox,        \* committed rows of inbox_messages
    applied,      \* applied[e]: commits that carried the effect of e
    unrouted,     \* events the broker confirmed and no queue took
    rejected,     \* events nacked without requeue
    deadLetters,  \* events in fintech.dead-letters
    losses,       \* losses[p]: lost connections of p
    crashes

database == <<inbox, applied>>
broker == <<declared, waiting, channel, unrouted, rejected, deadLetters>>
bounds == <<losses, crashes>>

vars == <<publish, handler, database, broker, bounds>>

-----------------------------------------------------------------------------
Processes == {"publisher", "consumer"}

Published == {"buffered", "sent", "confirmed", "lost"}

Idle == [phase |-> "idle", event |-> NoEvent, channel |-> 0]

Invocation == [phase : {"delivered", "inserted", "done", "failed"},
               event : Events, channel : Nat]

TypeOK ==
    /\ publish \in [Events -> Published \union {"none"}]
    /\ declared \in BOOLEAN
    /\ waiting \in [Events -> Nat]
    /\ channel \in Nat
    /\ handler \in [Handlers -> Invocation \union {Idle}]
    /\ inbox \subseteq Events
    /\ applied \in [Events -> Nat]
    /\ unrouted \subseteq Events
    /\ rejected \subseteq Events
    /\ deadLetters \subseteq Events
    /\ losses \in [Processes -> Nat] /\ crashes \in Nat

Init ==
    /\ publish = [e \in Events |-> "none"]
    /\ declared = FALSE
    /\ waiting = [e \in Events |-> 0]
    /\ channel = 0
    /\ handler = [h \in Handlers |-> Idle]
    /\ inbox = {}
    /\ applied = [e \in Events |-> 0]
    /\ unrouted = {}
    /\ rejected = {}
    /\ deadLetters = {}
    /\ losses = [p \in Processes |-> 0] /\ crashes = 0

\* Which bindings of an exchange a routing key matches (of the patterns in use)
Routes(type, binding, key) ==
    \/ binding = key
    \/ type = "topic" /\ binding = "#"

-----------------------------------------------------------------------------
(* The publisher. *)

\* publish(): the channel wrapper takes the message into its buffer
Publish(e) ==
    /\ publish[e] = "none"
    /\ publish' = [publish EXCEPT ![e] = "buffered"]
    /\ UNCHANGED <<handler, database, broker, bounds>>

\* The message reaches the exchange; without a queue it is gone
Send(e) ==
    /\ publish[e] = "buffered"
    /\ publish' = [publish EXCEPT ![e] = "sent"]
    /\ IF declared /\ Routes("topic", RoutingKey, RoutingKey)
       THEN /\ waiting' = [waiting EXCEPT ![e] = @ + 1]
            /\ UNCHANGED unrouted
       ELSE /\ unrouted' = unrouted \union {e}
            /\ UNCHANGED waiting
    /\ UNCHANGED <<handler, database, declared, channel, rejected,
                   deadLetters, bounds>>

\* The broker's confirm resolves the promise publish() awaits
Confirm(e) ==
    /\ publish[e] = "sent"
    /\ publish' = [publish EXCEPT ![e] = "confirmed"]
    /\ UNCHANGED <<handler, database, broker, bounds>>

LoseLink(p) ==
    /\ losses[p] < MaxLinkLosses
    /\ losses' = [losses EXCEPT ![p] = @ + 1]

\* Reconnected, the wrapper sends again what was not confirmed
LosePublisherLink ==
    /\ LoseLink("publisher")
    /\ publish' = [e \in Events |->
                      IF publish[e] = "sent" THEN "buffered" ELSE publish[e]]
    /\ UNCHANGED <<handler, database, broker, crashes>>

\* A crash, or close(), which rejects what is still in the buffer
StopPublisher ==
    /\ crashes < MaxCrashes
    /\ crashes' = crashes + 1
    /\ publish' = [e \in Events |->
                      IF publish[e] \in {"buffered", "sent"} THEN "lost" ELSE publish[e]]
    /\ UNCHANGED <<handler, database, broker, losses>>

-----------------------------------------------------------------------------
(* The consumer. *)

\* The channel's setup asserts the topology and the queue, and binds it
Declare ==
    /\ ~declared
    /\ declared' = TRUE
    /\ UNCHANGED <<publish, handler, database, waiting, channel, unrouted,
                   rejected, deadLetters, bounds>>

\* h has a message that the broker takes for unacknowledged
Holds(h) == handler[h].phase # "idle" /\ handler[h].channel = channel

Go(h, phase) == handler' = [handler EXCEPT ![h].phase = phase]

End(h) == handler' = [handler EXCEPT ![h] = Idle]

\* Prefetch 1: nothing is delivered on a channel while a message of it is held
Deliver(h, e) ==
    /\ declared
    /\ handler[h].phase = "idle"
    /\ \A g \in Handlers : ~Holds(g)
    /\ waiting[e] > 0
    /\ waiting' = [waiting EXCEPT ![e] = @ - 1]
    /\ handler' = [handler EXCEPT ![h] = [phase |-> "delivered", event |-> e,
                                          channel |-> channel]]
    /\ UNCHANGED <<publish, database, declared, channel, unrouted, rejected,
                   deadLetters, bounds>>

\* The transaction of another handler holds the inbox row of e
RowLocked(e) ==
    \E g \in Handlers : handler[g].phase = "inserted" /\ handler[g].event = e

\* Mutant: the inbox is read and written later, so that nobody waits.
ReadInbox(h) ==
    /\ handler[h].phase = "delivered"
    /\ handler[h].event \notin inbox
    /\ Go(h, "inserted")
    /\ UNCHANGED <<publish, database, broker, bounds>>

\* BEGIN and insertMessage, which waits for such a transaction to end
InsertMessage(h) ==
    /\ handler[h].phase = "delivered"
    /\ ~RowLocked(handler[h].event)
    /\ handler[h].event \notin inbox
    /\ Go(h, "inserted")
    /\ UNCHANGED <<publish, database, broker, bounds>>

\* A duplicate is skipped, or thrown, by what the driver's error looks like
FindDuplicate(h) ==
    /\ handler[h].phase = "delivered"
    /\ handler[h].event \in inbox
    /\ \E phase \in {"done", "failed"} : Go(h, phase)
    /\ UNCHANGED <<publish, database, broker, bounds>>

\* createProfile and COMMIT, whose answer may be lost with the connection
Commit(h) ==
    /\ handler[h].phase = "inserted"
    /\ inbox' = inbox \union {handler[h].event}
    /\ applied' = [applied EXCEPT ![handler[h].event] = @ + 1]
    /\ \E phase \in {"done", "failed"} : Go(h, phase)
    /\ UNCHANGED <<publish, broker, bounds>>

\* Mutant: the handler swallows its error, and the message is acknowledged.
AbortSwallowed(h) ==
    /\ handler[h].phase \in {"delivered", "inserted"}
    /\ Go(h, "done")
    /\ UNCHANGED <<publish, database, broker, bounds>>

\* A statement of the transaction throws
Abort(h) ==
    /\ handler[h].phase \in {"delivered", "inserted"}
    /\ Go(h, "failed")
    /\ UNCHANGED <<publish, database, broker, bounds>>

Ack(h) ==
    /\ handler[h].phase = "done"
    /\ Holds(h)
    /\ End(h)
    /\ UNCHANGED <<publish, database, broker, bounds>>

\* nack(msg, false, false): to the direct exchange fintech.dlx, bound with '#'
Nack(h) ==
    /\ handler[h].phase = "failed"
    /\ Holds(h)
    /\ End(h)
    /\ rejected' = rejected \union {handler[h].event}
    /\ deadLetters' = IF Routes("direct", "#", RoutingKey)
                      THEN deadLetters \union {handler[h].event}
                      ELSE deadLetters
    /\ UNCHANGED <<publish, database, declared, waiting, channel, unrouted, bounds>>

\* Mutant: noAck deliveries are gone with their channel.
NotRequeued ==
    /\ channel' = channel + 1
    /\ UNCHANGED <<declared, waiting, unrouted, rejected, deadLetters>>

\* The broker puts back what was not acknowledged on the channel
Requeue ==
    /\ waiting' = [e \in Events |->
                      IF \E h \in Handlers : Holds(h) /\ handler[h].event = e
                      THEN waiting[e] + 1 ELSE waiting[e]]
    /\ channel' = channel + 1
    /\ UNCHANGED <<declared, unrouted, rejected, deadLetters>>

\* The process ends, and with it its handlers and their transactions
Restart ==
    /\ handler' = [h \in Handlers |-> Idle]
    /\ Requeue
    /\ UNCHANGED <<publish, database>>

LoseConsumerLink ==
    /\ LoseLink("consumer")
    /\ Requeue
    /\ UNCHANGED <<publish, handler, database, crashes>>

CrashConsumer ==
    /\ crashes < MaxCrashes
    /\ crashes' = crashes + 1
    /\ Restart
    /\ UNCHANGED losses

\* ack and nack throw on a channel that is closed
EndOnClosedChannel(h) ==
    /\ handler[h].phase \in {"done", "failed"}
    /\ ~Holds(h)
    /\ Restart
    /\ UNCHANGED bounds

-----------------------------------------------------------------------------
PublishStep(e) == Publish(e) \/ Send(e) \/ Confirm(e)

Handle(h) ==
    \/ InsertMessage(h) \/ FindDuplicate(h) \/ Commit(h)
    \/ Ack(h) \/ Nack(h) \/ EndOnClosedChannel(h)

Next ==
    \/ \E e \in Events : PublishStep(e)
    \/ \E h \in Handlers : Handle(h) \/ Abort(h)
    \/ \E h \in Handlers, e \in Events : Deliver(h, e)
    \/ Declare
    \/ LosePublisherLink \/ StopPublisher
    \/ LoseConsumerLink \/ CrashConsumer

Spec == Init /\ [][Next]_vars

\* The consumer starts; the broker takes, confirms and delivers messages; the
\* database answers.  Nothing makes a producer publish or a link break.
FairSpec ==
    /\ Spec
    /\ WF_vars(Declare)
    /\ \A e \in Events : WF_vars(Send(e) \/ Confirm(e))
    /\ WF_vars(\E h \in Handlers, e \in Events : Deliver(h, e))
    /\ \A h \in Handlers : WF_vars(Handle(h))

-----------------------------------------------------------------------------
(* Properties. *)

Held(e) == \E h \in Handlers : Holds(h) /\ handler[h].event = e

\* No event the broker took for the queue disappears, whatever breaks between
\* its handlers, the inbox and the two links: it waits, is held unacknowledged,
\* has been applied, or was rejected.
NothingIsLost ==
    \A e \in Events :
        publish[e] \in {"sent", "confirmed"} =>
            \/ e \in unrouted
            \/ waiting[e] > 0 \/ Held(e)
            \/ e \in inbox
            \/ e \in rejected

\* Delivery promises exactly this of the effect: after publish(), at most once,
\* although a message may be sent, delivered and handled several times at once.
AtMostOnce == INSTANCE Delivery WITH
                 offered <- {e \in Events : publish[e] # "none"}
ImplementsDelivery == AtMostOnce!Spec

\* A published event is applied or rejected in the end, unless its publisher
\* stopped before the confirm or no queue was there to take it.
PublishedIsSettled ==
    \A e \in Events :
        publish[e] = "buffered" ~>
            e \in inbox \union rejected \union unrouted \/ publish[e] = "lost"

\* topology.ts and consumer.ts: a message nacked without requeue is kept in
\* fintech.dead-letters for inspection and replay.
RejectedIsKept == rejected \subseteq deadLetters
=============================================================================
