------------------------------ MODULE Messaging -------------------------------
(***************************************************************************)
(* Publishing and pulling canonical events over Pub/Sub, and the bootstrap *)
(* of the local emulator (messaging/pubsub.py): messages in the batches    *)
(* they are pulled in, and subscriptions that bootstraps delete and create *)
(* while messages are on their way.  What a delivery goes through after it *)
(* was pulled is the subject of EventProcessing.                           *)
(***************************************************************************)
EXTENDS Integers, FiniteSets

CONSTANTS None,
          Event,          \* canonical events that are published
          Foreign,        \* messages of other publishers that do not decode, or
                          \* whose attributes contradict their body
          MaxCopies,      \* bound on the messages published for one event
          MaxMessages,    \* max_messages of a pull
          MaxDeliveries,  \* max_delivery_attempts of the dead-letter policy
          Consumer,       \* processes that pull
          Bootstrap,      \* calls of ensure_local_pubsub_emulator_topology
          MaxFaults       \* bound on the calls that fail and processes that die

ASSUME MessagingAssumption ==
  /\ {MaxCopies, MaxMessages, MaxDeliveries} \subseteq Nat \ {0}
  /\ MaxFaults \in Nat
  /\ Event \cap Foreign = {}

Message == (Event \cup Foreign) \X (1..MaxCopies)
Decodes(m) == m[1] \in Event
Decoded == {m \in Message : Decodes(m)}

(* A processing subscription that does not match has no dead-letter        *)
(* policy; an inspection subscription that does not match is on another    *)
(* topic than the one dead letters go to.                                  *)
Subscription == {"processing", "inspection"}
Kind == {"absent", "mismatched", "matching"}

VARIABLES
  topics,        \* whether the topics exist
  kind,          \* the subscriptions
  held,          \* messages of the processing subscription, not acknowledged
  lease,         \* the consumer a message is out for delivery to
  deliveries,    \* how often each message was delivered
  acked,         \* messages acknowledged
  inspected,     \* dead letters kept by the inspection subscription
  copies,        \* how often an event was sent
  late,          \* messages sent whose publisher stopped waiting for them
  batch,         \* what the last pull of a consumer returned and is not settled
  boot,          \* the next call of a bootstrap and its subscription
  faults,
  \* history variables
  returned,      \* messages that some pull has returned
  missed,        \* how often a message was delivered with a foreign one, or
                 \* in a response that was lost
  stale,         \* whether the subscription a bootstrap read was created since
  dropped        \* messages that no subscription was there for, or was deleted with

broker == <<topics, kind, held, lease, deliveries, acked, inspected>>
history == <<returned, missed, stale, dropped>>
vars == <<broker, copies, late, batch, boot, faults, history>>

Step == {"topics", "read", "delete", "create", "done", "conflict", "stopped"}
Ended == {"done", "conflict", "stopped"}

TypeOK ==
  /\ topics \in BOOLEAN
  /\ kind \in [Subscription -> Kind]
  /\ held \subseteq Message
  /\ lease \in [Message -> Consumer \cup {None}]
  /\ deliveries \in [Message -> 0..MaxDeliveries]
  /\ acked \subseteq Message /\ inspected \subseteq Message
  /\ copies \in [Event \cup Foreign -> 0..MaxCopies]
  /\ late \subseteq Message
  /\ batch \in [Consumer -> SUBSET Decoded]
  /\ boot \in [Bootstrap -> [step : Step, on : Subscription]]
  /\ faults \in 0..MaxFaults
  /\ returned \subseteq Decoded
  /\ missed \in [Message -> 0..MaxDeliveries]
  /\ stale \in [Bootstrap -> BOOLEAN]
  /\ dropped \subseteq Message

-------------------------------------------------------------------------------
(* An emulator is found as it was left: fresh, or set up by someone else.  *)
Init ==
  /\ topics \in BOOLEAN
  /\ kind \in [Subscription -> Kind]
  /\ topics \/ kind = [s \in Subscription |-> "absent"]
  /\ held = {} /\ acked = {} /\ inspected = {}
  /\ lease = [m \in Message |-> None]
  /\ deliveries = [m \in Message |-> 0]
  /\ copies = [e \in Event \cup Foreign |-> 0]
  /\ late = {}
  /\ batch = [c \in Consumer |-> {}]
  /\ boot = [b \in Bootstrap |-> [step |-> "topics", on |-> "processing"]]
  /\ faults = 0
  /\ returned = {}
  /\ missed = [m \in Message |-> 0]
  /\ stale = [b \in Bootstrap |-> FALSE]
  /\ dropped = {}

Fault == faults < MaxFaults /\ faults' = faults + 1

-------------------------------------------------------------------------------
(* Publishing.                                                             *)

(* The topic copies a message to the subscriptions it has at that time.    *)
Store(m) ==
  IF kind["processing"] = "absent"
  THEN dropped' = dropped \cup {m} /\ UNCHANGED held
  ELSE held' = held \cup {m} /\ UNCHANGED dropped

SendCopy(e) ==
  /\ topics
  /\ copies[e] < MaxCopies
  /\ copies' = [copies EXCEPT ![e] = @ + 1]

Publish(e) ==
  /\ SendCopy(e)
  /\ Store(<<e, copies'[e]>>)
  /\ UNCHANGED <<topics, kind, lease, deliveries, acked, inspected, late, batch, boot,
                 faults, returned, missed, stale>>

(* The publisher gives up on the acknowledgement (publish_ack_timeout), or *)
(* the call fails: the message may be stored later all the same.           *)
PublishFails(e) ==
  /\ Fault
  /\ SendCopy(e)
  /\ late' = late \cup {<<e, copies'[e]>>}
  /\ UNCHANGED <<broker, batch, boot, history>>

LateStore(m) ==
  /\ m \in late
  /\ late' = late \ {m}
  /\ Store(m)
  /\ UNCHANGED <<topics, kind, lease, deliveries, acked, inspected, copies, batch, boot,
                 faults, returned, missed, stale>>

-------------------------------------------------------------------------------
(* Pulling.                                                                *)

Available == {m \in held : lease[m] = None /\ deliveries[m] < MaxDeliveries}

(* Variant: the foreign messages are returned as well.                     *)
ReceivedUndecoded(B) == B

(* Variant: only the first message of a response is returned.              *)
ReceivedFirst(B) == IF \A m \in B : Decodes(m) THEN {CHOOSE m \in B : TRUE} ELSE {}

(* What pull returns of a response: every message of it, or an exception.  *)
Received(B) == IF \A m \in B : Decodes(m) THEN B ELSE {}

Lease(B, c) == lease' = [m \in Message |-> IF m \in B THEN c ELSE lease[m]]

Deliver(B, c) ==
  /\ B # {} /\ Cardinality(B) <= MaxMessages
  /\ Lease(B, c)
  /\ deliveries' = [m \in Message |-> IF m \in B THEN deliveries[m] + 1 ELSE deliveries[m]]

Miss(B) == missed' = [m \in Message |-> IF m \in B THEN missed[m] + 1 ELSE missed[m]]

(* The response is decoded as a whole, after the broker has leased it.     *)
Pull(c) ==
  /\ batch[c] = {}
  /\ \E B \in SUBSET Available :
       /\ Deliver(B, c)
       /\ batch' = [batch EXCEPT ![c] = Received(B)]
       /\ returned' = returned \cup Received(B)
       /\ Miss({m \in B : \E n \in B \ {m} : ~Decodes(n)})
  /\ UNCHANGED <<topics, kind, held, acked, inspected, copies, late, boot, faults,
                 stale, dropped>>

(* The call times out or fails after the broker has leased the messages.   *)
PullFails(c) ==
  /\ Fault
  /\ batch[c] = {}
  /\ \E B \in SUBSET Available : Deliver(B, c) /\ Miss(B)
  /\ UNCHANGED <<topics, kind, held, acked, inspected, copies, late, batch, boot,
                 returned, stale, dropped>>

(* An acknowledgement takes effect while the lease lasts, and may after.   *)
Acknowledge(c) ==
  \E B \in SUBSET batch[c] \ {{}} : \E applied \in SUBSET (B \cap held) :
    /\ {m \in B : lease[m] = c} \subseteq applied
    /\ batch' = [batch EXCEPT ![c] = @ \ B]
    /\ acked' = acked \cup applied
    /\ held' = held \ applied
    /\ Lease(applied, None)
    /\ UNCHANGED <<topics, kind, deliveries, inspected, copies, late, boot, faults, history>>

RequestRedelivery(c) ==
  \E B \in SUBSET batch[c] \ {{}} :
    /\ batch' = [batch EXCEPT ![c] = @ \ B]
    /\ Lease({m \in B : lease[m] = c}, None)
    /\ UNCHANGED <<topics, kind, held, deliveries, acked, inspected, copies, late, boot,
                   faults, history>>

(* A consumer dies, or its call to settle the batch fails.                 *)
Forget(c) ==
  /\ Fault
  /\ batch[c] # {}
  /\ batch' = [batch EXCEPT ![c] = {}]
  /\ UNCHANGED <<broker, copies, late, boot, history>>

LeaseExpires(m) ==
  /\ lease[m] # None
  /\ Lease({m}, None)
  /\ UNCHANGED <<topics, kind, held, deliveries, acked, inspected, copies, late, batch,
                 boot, faults, history>>

(* The broker forwards a message that was delivered too often.             *)
DeadLetter(m) ==
  /\ kind["processing"] = "matching"
  /\ m \in held /\ lease[m] = None
  /\ deliveries[m] = MaxDeliveries
  /\ held' = held \ {m}
  /\ IF kind["inspection"] = "matching"
     THEN inspected' = inspected \cup {m} /\ UNCHANGED dropped
     ELSE dropped' = dropped \cup {m} /\ UNCHANGED inspected
  /\ UNCHANGED <<topics, kind, lease, deliveries, acked, copies, late, batch, boot, faults,
                 returned, missed, stale>>

-------------------------------------------------------------------------------
(* Bootstrapping the emulator: topics, then one subscription after the     *)
(* other, every call of which another bootstrap may come before.           *)

Goto(b, step, s) == boot' = [boot EXCEPT ![b] = [step |-> step, on |-> s]]

(* Variant: the inspection subscription is left to others.                 *)
EnsuredOnce(b) == Goto(b, "done", boot[b].on)

(* On to the next subscription, or back to the caller.                     *)
Ensured(b) ==
  IF boot[b].on = "processing" THEN Goto(b, "read", "inspection")
                               ELSE Goto(b, "done", "inspection")

(* get_topic and create_topic, which tolerates a topic that exists: the    *)
(* order they run in among several bootstraps makes no difference.         *)
EnsureTopics(b) ==
  /\ boot[b].step = "topics"
  /\ topics' = TRUE
  /\ Goto(b, "read", "processing")
  /\ UNCHANGED <<kind, held, lease, deliveries, acked, inspected, copies, late, batch,
                 faults, history>>

(* Variant: attempts are compared with their printed form and never match. *)
NeverMatches(k) == FALSE

(* The acknowledgement deadline is not compared.                           *)
Matches(k) == k = "matching"

ReadSubscription(b) ==
  LET s == boot[b].on IN
  /\ boot[b].step = "read"
  /\ IF kind[s] = "absent" THEN Goto(b, "create", s)
     ELSE IF Matches(kind[s]) THEN Ensured(b) ELSE Goto(b, "delete", s)
  /\ stale' = [stale EXCEPT ![b] = FALSE]
  /\ UNCHANGED <<broker, copies, late, batch, faults, returned, missed, dropped>>

(* Deleting a subscription drops its messages; NotFound leads to the same  *)
(* creation.                                                               *)
DeleteSubscription(b) ==
  LET s == boot[b].on
      lost == IF s = "processing" THEN held ELSE inspected
  IN
  /\ boot[b].step = "delete"
  /\ kind' = [kind EXCEPT ![s] = "absent"]
  /\ held' = IF s = "processing" THEN {} ELSE held
  /\ inspected' = IF s = "inspection" THEN {} ELSE inspected
  /\ IF s = "processing" THEN Lease(held, None) ELSE UNCHANGED lease
  /\ dropped' = dropped \cup lost
  /\ Goto(b, "create", s)
  /\ UNCHANGED <<topics, deliveries, acked, copies, late, batch, faults, returned,
                 missed, stale>>

(* AlreadyExists is an error here, unlike with topics.                     *)
CreateSubscription(b) ==
  LET s == boot[b].on IN
  /\ boot[b].step = "create"
  /\ IF kind[s] = "absent"
     THEN /\ kind' = [kind EXCEPT ![s] = "matching"]
          /\ stale' = [d \in Bootstrap |-> stale[d] \/ (d # b /\ boot[d].on = s)]
          /\ Ensured(b)
     ELSE Goto(b, "conflict", s) /\ UNCHANGED <<kind, stale>>
  /\ UNCHANGED <<topics, held, lease, deliveries, acked, inspected, copies, late, batch,
                 faults, returned, missed, dropped>>

(* A call fails for another reason, or the process dies.                   *)
BootstrapStops(b) ==
  /\ Fault
  /\ boot[b].step \notin Ended
  /\ Goto(b, "stopped", boot[b].on)
  /\ UNCHANGED <<broker, copies, late, batch, history>>

BootstrapStep(b) ==
  \/ EnsureTopics(b)
  \/ ReadSubscription(b)
  \/ DeleteSubscription(b)
  \/ CreateSubscription(b)
  \/ BootstrapStops(b)

ConsumerStep(c) ==
  Pull(c) \/ PullFails(c) \/ Acknowledge(c) \/ RequestRedelivery(c) \/ Forget(c)

BrokerStep(m) == LateStore(m) \/ LeaseExpires(m) \/ DeadLetter(m)

-------------------------------------------------------------------------------
(* Properties.                                                             *)

(* A message that decodes reaches a caller with the first response that    *)
(* arrives and holds no foreign message (pull decodes a response as a      *)
(* whole): one that was forwarded unseen was missed every time.            *)
UnseenOnlyIfMissed ==
  \A m \in Decoded : missed[m] < deliveries[m] => m \in returned

(* A bootstrap deletes a subscription that matches only if it read another *)
(* one before: what is published after a bootstrap returned is dropped     *)
(* only by a bootstrap that overlapped it.                                 *)
MatchingOutlivesLaterBootstraps ==
  [][\A s \in Subscription, b \in Bootstrap :
       kind[s] = "matching" /\ kind'[s] = "absent" /\ boot[b] # boot'[b]
         => stale[b]]_vars

(* Once a bootstrap is done, and none is under way or was cut short, no    *)
(* message is dropped: neither one that is published nor a dead letter,    *)
(* also when another bootstrap has failed because the subscription it      *)
(* wanted to create was there again.                                       *)
SetUp ==
  /\ \E b \in Bootstrap : boot[b].step = "done"
  /\ \A b \in Bootstrap : boot[b].step \in {"done", "conflict"}

NothingDroppedOnceSetUp == [][SetUp => dropped' = dropped]_vars

===============================================================================
