--------------------------- MODULE Ingestion_proofs ---------------------------
(***************************************************************************)
(* Theorems about Ingestion, for all events, sources, retry policies,      *)
(* consumers and bootstraps.                                               *)
(*                                                                         *)
(* Fetching and messaging share no variable, so each has an inductive      *)
(* invariant of its own, which a step of the other one leaves alone.       *)
(***************************************************************************)
EXTENDS Ingestion, FiniteSetTheorems, TLAPS

-------------------------------------------------------------------------------
(* Delays.                                                                 *)

(* Powers of two are natural numbers: they count subsets.                  *)
LEMMA PowerOfTwo == \A n \in Nat : 2^n \in Nat
<1> SUFFICES ASSUME NEW n \in Nat PROVE 2^n \in Nat
  OBVIOUS
<1>1. IsFiniteSet(1..n) /\ Cardinality(1..n) = n
  BY FS_Interval
<1>2. Cardinality(SUBSET (1..n)) = 2^n /\ IsFiniteSet(SUBSET (1..n))
  BY <1>1, FS_SUBSET
<1> QED
  BY <1>2, FS_CardinalityType

(* A delay of at most the cap.                                             *)
IsDelay(d) == d \in Nat /\ d <= MaxBackoff

LEMMA BackoffIsDelay ==
  ASSUME NEW n \in Nat \ {0}
  PROVE  IsDelay(BackoffForRetry(n))
<1>1. 2^(n - 1) \in Nat
  BY PowerOfTwo
<1>2. InitialBackoff \in Nat /\ MaxBackoff \in Nat
  BY FetchAssumption
<1>3. ASSUME NEW p \in Nat PROVE InitialBackoff * p \in Nat
  BY <1>2
<1>4. InitialBackoff * 2^(n - 1) \in Nat
  BY <1>1, <1>3
<1> DEFINE x == InitialBackoff * 2^(n - 1)
<1>5. BackoffForRetry(n) = IF x <= MaxBackoff THEN x ELSE MaxBackoff
  BY DEF BackoffForRetry, Least
<1>6. x \in Nat
  BY <1>4
<1> HIDE DEF x
<1> QED
  BY <1>2, <1>5, <1>6 DEF IsDelay

LEMMA RetryDelayIsDelay ==
  ASSUME NEW n \in Nat \ {0}, NEW after \in RetryAfter
  PROVE  IsDelay(RetryDelay(after, n))
<1>1. after \in Int /\ MaxBackoff \in Nat
  BY FetchAssumption
<1>2. CASE after >= 0
  BY <1>1, <1>2 DEF RetryDelay, Least, IsDelay
<1>3. CASE ~(after >= 0)
  BY <1>3, BackoffIsDelay DEF RetryDelay
<1> QED
  BY <1>2, <1>3

-------------------------------------------------------------------------------
(* Fetching.                                                               *)

(* A loop that runs has made an attempt and slept no more than before each *)
(* but the first; one that does not has no locals.                         *)
FetchInv ==
  /\ FetchTypeOK
  /\ FetchBounded
  /\ fetch # "request" => attempt = 0 /\ waited = 0

LEMMA FetchInit_Inv == FetchInit => FetchInv
<1>1. MaxAttempts \in Nat
  BY FetchAssumption
<1> QED
  BY <1>1 DEF FetchInit, FetchInv, FetchTypeOK, FetchBounded

LEMMA Retry_Inv ==
  ASSUME FetchInv, fetch = "request", NEW delay, IsDelay(delay), RetryOrRaise(delay)
  PROVE  FetchInv'
<1>0. /\ attempt \in 1..MaxAttempts /\ attempt \in Nat /\ waited \in Nat
      /\ waited <= (attempt - 1) * MaxBackoff
      /\ MaxAttempts \in Nat \ {0} /\ MaxBackoff \in Nat \ {0}
      /\ delay \in Nat /\ delay <= MaxBackoff
  BY FetchAssumption DEF FetchInv, FetchTypeOK, FetchBounded, IsDelay
<1>1. CASE attempt < MaxAttempts
  <2>1. attempt' = attempt + 1 /\ waited' = waited + delay /\ UNCHANGED <<source, fetch, fetched, answer>>
    BY <1>1 DEF RetryOrRaise
  <2>2. (attempt - 1) * MaxBackoff + MaxBackoff = (attempt' - 1) * MaxBackoff
    BY <1>0, <2>1
  <2>3. waited' \in Nat /\ waited' <= (attempt - 1) * MaxBackoff + MaxBackoff
    BY <1>0, <2>1
  <2>4. attempt' \in 1..MaxAttempts /\ attempt' \in 0..MaxAttempts
    BY <1>0, <1>1, <2>1
  <2> QED
    BY <2>1, <2>2, <2>3, <2>4 DEF FetchInv, FetchTypeOK, FetchBounded
<1>2. CASE ~(attempt < MaxAttempts)
  BY <1>0, <1>2 DEF RetryOrRaise, Raises, Ends, FetchInv, FetchTypeOK, FetchBounded
<1> QED
  BY <1>1, <1>2

LEMMA FetchNext_Inv ==
  ASSUME FetchInv, FetchNext PROVE FetchInv'
<1>0. MaxAttempts \in Nat \ {0} /\ MaxBackoff \in Nat \ {0}
  BY FetchAssumption
<1> USE DEF FetchInv
<1>1. CASE Request
  BY <1>0, <1>1 DEF Request, FetchTypeOK, FetchBounded
<1>2. CASE NoResponse
  <2>1. attempt \in Nat \ {0}
    BY <1>0, <1>2 DEF NoResponse, FetchTypeOK, FetchBounded
  <2> QED
    BY <1>2, <2>1, BackoffIsDelay, Retry_Inv DEF NoResponse
<1>3. CASE RetryableStatus
  <2>1. attempt \in Nat \ {0}
    BY <1>0, <1>3 DEF RetryableStatus, FetchTypeOK, FetchBounded
  <2>2. PICK after \in RetryAfter : RetryOrRaise(RetryDelay(after, attempt))
    BY <1>3 DEF RetryableStatus
  <2> QED
    BY <1>3, <2>1, <2>2, RetryDelayIsDelay, Retry_Inv DEF RetryableStatus
<1>4. CASE PermanentFailure
  BY <1>0, <1>4 DEF PermanentFailure, Raises, Ends, FetchTypeOK, FetchBounded
<1>5. CASE EarthquakesReply
  <2>1. PICK A \in SUBSET Feature : \E P \in Page(A) :
          IF FeaturesAccepted(P) THEN Returns(P, A) ELSE Raises
    BY <1>5 DEF EarthquakesReply
  <2>2. PICK P \in Page(A) : IF FeaturesAccepted(P) THEN Returns(P, A) ELSE Raises
    BY <2>1
  <2>3. P \subseteq Feature
    BY <2>2 DEF Page
  <2> QED
    BY <1>0, <2>2, <2>3
    DEF FeaturesAccepted, Returns, Raises, Ends, FetchTypeOK, FetchBounded
<1>6. CASE WeatherReply
  BY <1>0, <1>6
  DEF WeatherReply, ObservationAccepted, Returns, Raises, Ends, FetchTypeOK, FetchBounded
<1> QED
  BY <1>1, <1>2, <1>3, <1>4, <1>5, <1>6 DEF FetchNext

LEMMA FetchInv_Always == IngestionSpec => []FetchInv
<1>1. IngestionInit => FetchInv
  BY FetchInit_Inv DEF IngestionInit
<1>2. FetchInv /\ [IngestionNext]_IngestionVars => FetchInv'
  <2> SUFFICES ASSUME FetchInv, [IngestionNext]_IngestionVars PROVE FetchInv'
    OBVIOUS
  <2>1. CASE FetchNext
    BY <2>1, FetchNext_Inv
  <2>2. CASE UNCHANGED fetchVars
    BY <2>2 DEF fetchVars, FetchInv, FetchTypeOK, FetchBounded
  <2> QED
    BY <2>1, <2>2 DEF IngestionNext, IngestionVars
<1> QED
  BY <1>1, <1>2, PTL DEF IngestionSpec

(* What an adapter returns has passed the contract, and the loop keeps to  *)
(* its types (ExternalHttpClient, UsgsSeismicAdapter).                     *)
THEOREM FetchTypeCorrect == IngestionSpec => []FetchTypeOK
<1>1. FetchInv => FetchTypeOK
  BY DEF FetchInv
<1> QED
  BY <1>1, FetchInv_Always, PTL

(* For every retry policy and whatever the provider answers, a fetch keeps *)
(* to its attempts and to the longest delay before each (get_json_object). *)
THEOREM FetchIsBounded == IngestionSpec => []FetchBounded
<1>1. FetchInv => FetchBounded
  BY DEF FetchInv
<1> QED
  BY <1>1, FetchInv_Always, PTL

(* A fetch that returns leaves out nothing but what is later than all it   *)
(* returned, and that only when it returned as many as the limit allows    *)
(* (fetch_nearby_events).                                                  *)
THEOREM LeftOutIsAlwaysLater == IngestionSpec => []LeftOutIsLater
<1>1. IngestionInit => LeftOutIsLater
  BY DEF IngestionInit, FetchInit, LeftOutIsLater
<1>2. LeftOutIsLater /\ [IngestionNext]_IngestionVars => LeftOutIsLater'
  <2> SUFFICES ASSUME LeftOutIsLater, [IngestionNext]_IngestionVars, (fetch = "returned")'
               PROVE  LeftOutIsLater'
    BY DEF LeftOutIsLater
  <2>1. CASE fetch = "returned"
    BY <2>1 DEF LeftOutIsLater, IngestionNext, IngestionVars, fetchVars, FetchNext, Request,
       NoResponse, RetryableStatus, PermanentFailure, EarthquakesReply, WeatherReply
  <2>2. CASE fetch # "returned" /\ EarthquakesReply
    <3>0. PICK A \in SUBSET Feature : \E P \in Page(A) : Returns(P, A)
      BY <2>2 DEF EarthquakesReply, Raises, Ends
    <3>1. PICK P \in Page(A) : Returns(P, A)
      BY <3>0
    <3>2. /\ P \subseteq A /\ Cardinality(P) = Least(Cardinality(A), Limit)
          /\ \A f \in P, g \in A \ P : OccursAt[f] <= OccursAt[g]
      BY DEF Page
    <3>3. /\ IsFiniteSet(A) /\ Cardinality(A) \in Nat /\ Limit \in Nat
          /\ (Cardinality(P) = Cardinality(A) => P = A)
      BY <3>2, FS_Subset, FS_CardinalityType, FetchAssumption
    <3>4. A \ P # {} => Cardinality(P) = Limit
      BY <3>2, <3>3 DEF Least
    <3> QED
      BY <3>1, <3>2, <3>4 DEF Returns, LeftOutIsLater
  <2>3. CASE fetch # "returned" /\ WeatherReply
    BY <2>3 DEF WeatherReply, Raises, Ends, Returns, LeftOutIsLater
  <2>4. CASE fetch # "returned" /\ ~EarthquakesReply /\ ~WeatherReply
    BY <2>4 DEF IngestionNext, IngestionVars, fetchVars, FetchNext, Request, NoResponse,
       RetryableStatus, PermanentFailure, RetryOrRaise, Raises, Ends
  <2> QED
    BY <2>1, <2>2, <2>3, <2>4
<1> QED
  BY <1>1, <1>2, PTL DEF IngestionSpec

-------------------------------------------------------------------------------
(* Messaging: types, and what pulls return.                                *)

(* A message cannot be missed more often than it was delivered.            *)
MissedAtMostDelivered == \A m \in Message : missed[m] <= deliveries[m]

PullInv == TypeOK /\ MissedAtMostDelivered /\ UnseenOnlyIfMissed

LEMMA Init_PullInv == Init => PullInv
<1> SUFFICES ASSUME Init PROVE PullInv
  OBVIOUS
<1>1. {MaxCopies, MaxMessages, MaxDeliveries} \subseteq Nat \ {0} /\ MaxFaults \in Nat
  BY MessagingAssumption
<1>2. TypeOK
  <2>1. boot \in [Bootstrap -> [step : Step, on : Subscription]]
    BY DEF Init, Step, Subscription
  <2> QED
    BY <1>1, <2>1 DEF Init, TypeOK
<1>3. MissedAtMostDelivered /\ UnseenOnlyIfMissed
  BY DEF Init, MissedAtMostDelivered, UnseenOnlyIfMissed, Decoded
<1> QED
  BY <1>2, <1>3 DEF PullInv

(* What a step leaves alone keeps the part about pulls.                    *)
LEMMA SamePulls ==
  ASSUME PullInv, UNCHANGED <<deliveries, missed, returned>>
  PROVE  MissedAtMostDelivered' /\ UnseenOnlyIfMissed'
BY DEF PullInv, MissedAtMostDelivered, UnseenOnlyIfMissed

(* A publication makes a message, new or stored late.                      *)
LEMMA Publish_PullInv ==
  ASSUME PullInv, NEW e \in Event \cup Foreign, Publish(e) \/ PublishFails(e)
  PROVE  PullInv'
<1>1. /\ copies[e] \in Nat /\ copies[e] < MaxCopies /\ MaxCopies \in Nat
      /\ copies' = [copies EXCEPT ![e] = @ + 1]
  BY MessagingAssumption DEF PullInv, TypeOK, Publish, PublishFails, SendCopy
<1>2. copies' \in [Event \cup Foreign -> 0..MaxCopies] /\ copies'[e] \in 1..MaxCopies
  BY <1>1 DEF PullInv, TypeOK
<1>3. <<e, copies'[e]>> \in Message
  BY <1>2 DEF Message
<1> DEFINE m == <<e, copies'[e]>>
<1>4. m \in Message
  BY <1>3
<1>5. (Publish(e) => Store(m)) /\ (PublishFails(e) => late' = late \cup {m})
  BY DEF Publish, PublishFails
<1> HIDE DEF m
<1>6. CASE Publish(e)
  <2>1. TypeOK'
    BY <1>2, <1>4, <1>5, <1>6 DEF PullInv, TypeOK, Publish, Store
  <2> QED
    BY <1>6, <2>1, SamePulls DEF Publish, PullInv
<1>7. CASE PublishFails(e)
  <2>1. faults' \in 0..MaxFaults
    BY <1>7, MessagingAssumption DEF PublishFails, Fault, PullInv, TypeOK
  <2>2. TypeOK'
    BY <1>2, <1>4, <1>5, <1>7, <2>1 DEF PullInv, TypeOK, PublishFails, broker, history
  <2> QED
    BY <1>7, <2>2, SamePulls DEF PublishFails, PullInv, broker, history
<1> QED
  BY <1>6, <1>7

(* A delivery counts for every message of the response.                    *)
LEMMA Delivered ==
  ASSUME PullInv, NEW c \in Consumer, NEW B \in SUBSET Available, Deliver(B, c)
  PROVE  /\ B \subseteq Message
         /\ lease' \in [Message -> Consumer \cup {None}]
         /\ deliveries' \in [Message -> 0..MaxDeliveries]
         /\ \A m \in Message : deliveries'[m] = IF m \in B THEN deliveries[m] + 1 ELSE deliveries[m]
         /\ \A m \in B : deliveries[m] < MaxDeliveries
<1>1. B \subseteq Message /\ \A m \in B : deliveries[m] < MaxDeliveries
  BY DEF Available, PullInv, TypeOK
<1>2. lease' \in [Message -> Consumer \cup {None}]
  BY DEF Deliver, Lease, PullInv, TypeOK
<1>3. /\ MaxDeliveries \in Nat
      /\ deliveries \in [Message -> 0..MaxDeliveries]
      /\ deliveries' = [m \in Message |-> IF m \in B THEN deliveries[m] + 1 ELSE deliveries[m]]
  BY MessagingAssumption DEF Deliver, PullInv, TypeOK
<1>4. \A m \in Message : (IF m \in B THEN deliveries[m] + 1 ELSE deliveries[m]) \in 0..MaxDeliveries
  BY <1>1, <1>3
<1> QED
  BY <1>1, <1>2, <1>3, <1>4

(* A message of a response that was missed before it was delivered less    *)
(* often than the limit.                                                   *)
LEMMA Missed ==
  ASSUME PullInv, NEW c \in Consumer, NEW B \in SUBSET Available, Deliver(B, c),
         NEW C \in SUBSET B, Miss(C)
  PROVE  /\ missed' \in [Message -> 0..MaxDeliveries]
         /\ MissedAtMostDelivered'
         /\ \A m \in Message : missed'[m] = IF m \in C THEN missed[m] + 1 ELSE missed[m]
<1>1. /\ MaxDeliveries \in Nat
      /\ deliveries \in [Message -> 0..MaxDeliveries]
      /\ missed \in [Message -> 0..MaxDeliveries]
      /\ \A m \in Message : missed[m] <= deliveries[m]
      /\ missed' = [m \in Message |-> IF m \in C THEN missed[m] + 1 ELSE missed[m]]
  BY MessagingAssumption DEF Miss, PullInv, TypeOK, MissedAtMostDelivered
<1>2. \A m \in Message : (IF m \in C THEN missed[m] + 1 ELSE missed[m]) \in 0..MaxDeliveries
  BY <1>1, Delivered
<1>3. \A m \in Message : missed'[m] <= deliveries'[m]
  BY <1>1, Delivered
<1> QED
  BY <1>1, <1>2, <1>3 DEF MissedAtMostDelivered

LEMMA Pull_PullInv ==
  ASSUME PullInv, NEW c \in Consumer, Pull(c)
  PROVE  PullInv'
<1> DEFINE Spoiled(B) == {m \in B : \E n \in B \ {m} : ~Decodes(n)}
<1>1. PICK B \in SUBSET Available :
        /\ Deliver(B, c)
        /\ batch' = [batch EXCEPT ![c] = Received(B)]
        /\ returned' = returned \cup Received(B)
        /\ Miss(Spoiled(B))
  BY DEF Pull
<1>2. Received(B) \subseteq Decoded
  BY <1>1, Delivered DEF Received, Decoded
<1>3. TypeOK'
  <2>1. missed' \in [Message -> 0..MaxDeliveries]
    BY <1>1, Missed
  <2> HIDE DEF Spoiled
  <2> QED
    BY <1>1, <1>2, <2>1, Delivered DEF PullInv, TypeOK, Pull
<1>4. UnseenOnlyIfMissed'
  <2> SUFFICES ASSUME NEW m \in Decoded, missed'[m] < deliveries'[m] PROVE m \in returned'
    BY DEF UnseenOnlyIfMissed, Decoded
  <2>1. m \in Message /\ Decodes(m)
    BY DEF Decoded
  <2>2. CASE m \notin B \/ m \in Spoiled(B)
    <3>1. missed[m] < deliveries[m]
      BY <1>1, <2>1, <2>2, Missed, Delivered DEF PullInv, TypeOK
    <3> QED
      BY <1>1, <3>1 DEF PullInv, UnseenOnlyIfMissed
  <2>3. CASE m \in B /\ m \notin Spoiled(B)
    BY <1>1, <2>1, <2>3 DEF Received
  <2> QED
    BY <2>2, <2>3
<1>5. MissedAtMostDelivered'
  BY <1>1, Missed
<1> QED
  BY <1>3, <1>4, <1>5 DEF PullInv

LEMMA PullFails_PullInv ==
  ASSUME PullInv, NEW c \in Consumer, PullFails(c)
  PROVE  PullInv'
<1>1. PICK B \in SUBSET Available : Deliver(B, c) /\ Miss(B)
  BY DEF PullFails
<1>2. faults' \in 0..MaxFaults
  BY MessagingAssumption DEF PullFails, Fault, PullInv, TypeOK
<1>3. TypeOK'
  BY <1>1, <1>2, Delivered, Missed DEF PullInv, TypeOK, PullFails
<1>4. MissedAtMostDelivered' /\ UnseenOnlyIfMissed'
  <2>1. \A m \in Decoded : missed'[m] < deliveries'[m] => missed[m] < deliveries[m]
    BY <1>1, Delivered, Missed DEF PullInv, TypeOK, Decoded
  <2> QED
    BY <1>1, <2>1, Missed DEF PullInv, UnseenOnlyIfMissed, PullFails
<1> QED
  BY <1>3, <1>4 DEF PullInv

LEMMA Settle_PullInv ==
  ASSUME PullInv, NEW c \in Consumer, Acknowledge(c) \/ RequestRedelivery(c) \/ Forget(c)
  PROVE  PullInv'
<1>1. CASE Acknowledge(c)
  <2>1. TypeOK'
    BY <1>1 DEF Acknowledge, Lease, PullInv, TypeOK, history
  <2> QED
    BY <1>1, <2>1, SamePulls DEF Acknowledge, PullInv, history
<1>2. CASE RequestRedelivery(c)
  <2>1. TypeOK'
    BY <1>2 DEF RequestRedelivery, Lease, PullInv, TypeOK, history
  <2> QED
    BY <1>2, <2>1, SamePulls DEF RequestRedelivery, PullInv, history
<1>3. CASE Forget(c)
  <2>1. faults' \in 0..MaxFaults
    BY <1>3, MessagingAssumption DEF Forget, Fault, PullInv, TypeOK
  <2>2. TypeOK'
    BY <1>3, <2>1 DEF Forget, PullInv, TypeOK, broker, history
  <2> QED
    BY <1>3, <2>2, SamePulls DEF Forget, PullInv, broker, history
<1> QED
  BY <1>1, <1>2, <1>3

LEMMA Broker_PullInv ==
  ASSUME PullInv, NEW m \in Message, BrokerStep(m)
  PROVE  PullInv'
<1>1. UNCHANGED <<deliveries, missed, returned>>
  BY DEF BrokerStep, LateStore, LeaseExpires, DeadLetter, history
<1>2. CASE LateStore(m)
  BY <1>1, <1>2, SamePulls DEF LateStore, Store, PullInv, TypeOK
<1>3. CASE LeaseExpires(m)
  <2>1. lease' \in [Message -> Consumer \cup {None}]
    BY <1>3 DEF LeaseExpires, Lease, PullInv, TypeOK
  <2> QED
    BY <1>1, <1>3, <2>1, SamePulls DEF LeaseExpires, PullInv, TypeOK, history
<1>4. CASE DeadLetter(m)
  BY <1>1, <1>4, SamePulls DEF DeadLetter, PullInv, TypeOK
<1> QED
  BY <1>2, <1>3, <1>4 DEF BrokerStep

LEMMA Bootstrap_PullInv ==
  ASSUME PullInv, NEW b \in Bootstrap, BootstrapStep(b)
  PROVE  PullInv'
<1>1. UNCHANGED <<deliveries, missed, returned>>
  BY DEF BootstrapStep, EnsureTopics, ReadSubscription, DeleteSubscription,
         CreateSubscription, BootstrapStops, broker, history
<1>2. boot[b].on \in Subscription
  BY DEF PullInv, TypeOK
<1>3. ASSUME NEW step \in Step, NEW s \in Subscription, Goto(b, step, s)
      PROVE  boot' \in [Bootstrap -> [step : Step, on : Subscription]]
  BY <1>3 DEF Goto, PullInv, TypeOK
<1>4. Ensured(b) => boot' \in [Bootstrap -> [step : Step, on : Subscription]]
  BY <1>3 DEF Ensured, Step, Subscription
<1>5. CASE EnsureTopics(b)
  <2>1. boot' \in [Bootstrap -> [step : Step, on : Subscription]]
    BY <1>3, <1>5 DEF EnsureTopics, Step, Subscription
  <2> QED
    BY <1>1, <1>5, <2>1, SamePulls DEF EnsureTopics, PullInv, TypeOK, history
<1>6. CASE ReadSubscription(b)
  <2>1. boot' \in [Bootstrap -> [step : Step, on : Subscription]]
    BY <1>2, <1>3, <1>4, <1>6 DEF ReadSubscription, Step
  <2>2. stale' \in [Bootstrap -> BOOLEAN]
    BY <1>6 DEF ReadSubscription, PullInv, TypeOK
  <2> QED
    BY <1>1, <1>6, <2>1, <2>2, SamePulls DEF ReadSubscription, PullInv, TypeOK, broker
<1>7. CASE DeleteSubscription(b)
  <2>1. boot' \in [Bootstrap -> [step : Step, on : Subscription]]
    BY <1>2, <1>3, <1>7 DEF DeleteSubscription, Step
  <2>2. kind' \in [Subscription -> Kind]
    BY <1>7 DEF DeleteSubscription, PullInv, TypeOK, Kind
  <2>3. lease' \in [Message -> Consumer \cup {None}]
    BY <1>7 DEF DeleteSubscription, Lease, PullInv, TypeOK
  <2>4. held' \subseteq Message /\ inspected' \subseteq Message /\ dropped' \subseteq Message
    BY <1>7 DEF DeleteSubscription, PullInv, TypeOK
  <2> QED
    BY <1>1, <1>7, <2>1, <2>2, <2>3, <2>4, SamePulls DEF DeleteSubscription, PullInv, TypeOK
<1>8. CASE CreateSubscription(b)
  <2>1. boot' \in [Bootstrap -> [step : Step, on : Subscription]]
    BY <1>2, <1>3, <1>4, <1>8 DEF CreateSubscription, Step
  <2>2. kind' \in [Subscription -> Kind]
    BY <1>8 DEF CreateSubscription, PullInv, TypeOK, Kind
  <2>3. stale' \in [Bootstrap -> BOOLEAN]
    BY <1>8 DEF CreateSubscription, PullInv, TypeOK
  <2> QED
    BY <1>1, <1>8, <2>1, <2>2, <2>3, SamePulls DEF CreateSubscription, PullInv, TypeOK
<1>9. CASE BootstrapStops(b)
  <2>1. boot' \in [Bootstrap -> [step : Step, on : Subscription]]
    BY <1>2, <1>3, <1>9 DEF BootstrapStops, Step
  <2>2. faults' \in 0..MaxFaults
    BY <1>9, MessagingAssumption DEF BootstrapStops, Fault, PullInv, TypeOK
  <2> QED
    BY <1>1, <1>9, <2>1, <2>2, SamePulls DEF BootstrapStops, PullInv, TypeOK, broker, history
<1> QED
  BY <1>5, <1>6, <1>7, <1>8, <1>9 DEF BootstrapStep

LEMMA MessagingStep_PullInv ==
  ASSUME PullInv, FetchTypeOK, MessagingStep
  PROVE  PullInv'
<1>1. fetched \subseteq Event
  BY IngestionAssumption DEF FetchTypeOK
<1>2. CASE PublishFetched
  BY <1>1, <1>2, Publish_PullInv DEF PublishFetched
<1>3. CASE PublishForeign
  BY <1>3, Publish_PullInv DEF PublishForeign
<1>4. CASE \E c \in Consumer : ConsumerStep(c)
  BY <1>4, Pull_PullInv, PullFails_PullInv, Settle_PullInv DEF ConsumerStep
<1>5. CASE \E m \in Message : BrokerStep(m)
  BY <1>5, Broker_PullInv
<1>6. CASE \E b \in Bootstrap : BootstrapStep(b)
  BY <1>6, Bootstrap_PullInv
<1> QED
  BY <1>2, <1>3, <1>4, <1>5, <1>6 DEF MessagingStep

LEMMA PullInv_Always == IngestionSpec => []PullInv
<1>1. IngestionInit => PullInv
  BY Init_PullInv DEF IngestionInit
<1>2. PullInv /\ FetchTypeOK /\ [IngestionNext]_IngestionVars => PullInv'
  <2> SUFFICES ASSUME PullInv, FetchTypeOK, [IngestionNext]_IngestionVars PROVE PullInv'
    OBVIOUS
  <2>1. CASE MessagingStep
    BY <2>1, MessagingStep_PullInv
  <2>2. CASE UNCHANGED vars
    BY <2>2 DEF vars, broker, history, PullInv, TypeOK, MissedAtMostDelivered, UnseenOnlyIfMissed
  <2> QED
    BY <2>1, <2>2 DEF IngestionNext, IngestionVars
<1> QED
  BY <1>1, <1>2, FetchTypeCorrect, PTL DEF IngestionSpec

(* Messages, leases, batches and bootstraps keep to their types; no        *)
(* message is delivered more often than the policy allows, none that does  *)
(* not decode gets into a batch (PubSubCanonicalEventConsumer).            *)
THEOREM MessagingTypeCorrect == IngestionSpec => []TypeOK
<1>1. PullInv => TypeOK
  BY DEF PullInv
<1> QED
  BY <1>1, PullInv_Always, PTL

(* For any number of consumers and any size of pulls, a message nobody has *)
(* been given although it decodes was missed with every delivery: pulled   *)
(* next to a foreign one, or in a response that was lost.                  *)
THEOREM UnseenWereAlwaysMissed == IngestionSpec => []UnseenOnlyIfMissed
<1>1. PullInv => UnseenOnlyIfMissed
  BY DEF PullInv
<1> QED
  BY <1>1, PullInv_Always, PTL

-------------------------------------------------------------------------------
(* Bootstraps.                                                             *)

(* A bootstrap about to delete a subscription that matches read another,   *)
(* which was there before.                                                 *)
DeletesStale ==
  \A b \in Bootstrap :
    boot[b].step = "delete" /\ kind[boot[b].on] = "matching" => stale[b]

(* A bootstrap that has ensured a subscription.                            *)
Passed(b, s) ==
  boot[b].step = "done" \/ (s = "processing" /\ boot[b].on = "inspection")

(* A bootstrap that will create a subscription, unless it is cut short.    *)
Creating(s) ==
  /\ kind[s] = "absent"
  /\ \E b \in Bootstrap : boot[b].step = "create" /\ boot[b].on = s

(* A subscription that was ensured matches, or is about to be created      *)
(* again, or a bootstrap was cut short.                                    *)
PassedMatches ==
  \A b \in Bootstrap, s \in Subscription : Passed(b, s) =>
    kind[s] = "matching" \/ Creating(s) \/ \E d \in Bootstrap : boot[d].step = "stopped"

BootInv == TypeOK /\ DeletesStale /\ PassedMatches

LEMMA Init_BootInv == Init => BootInv
<1> SUFFICES ASSUME Init PROVE BootInv
  OBVIOUS
<1>1. TypeOK
  BY Init_PullInv DEF PullInv
<1>2. DeletesStale /\ PassedMatches
  BY DEF Init, DeletesStale, PassedMatches, Passed
<1> QED
  BY <1>1, <1>2 DEF BootInv

LEMMA SameBoots ==
  ASSUME BootInv, UNCHANGED <<kind, boot, stale>>
  PROVE  DeletesStale' /\ PassedMatches'
BY DEF BootInv, DeletesStale, PassedMatches, Passed, Creating

LEMMA Bootstrap_DeletesStale ==
  ASSUME BootInv, NEW b \in Bootstrap, BootstrapStep(b)
  PROVE  DeletesStale'
<1> SUFFICES ASSUME NEW d \in Bootstrap, boot'[d].step = "delete", kind'[boot'[d].on] = "matching"
             PROVE  stale'[d]
  BY DEF DeletesStale
<1>0. /\ kind \in [Subscription -> Kind] /\ boot \in [Bootstrap -> [step : Step, on : Subscription]]
      /\ stale \in [Bootstrap -> BOOLEAN]
      /\ boot[d].step = "delete" /\ kind[boot[d].on] = "matching" => stale[d]
      /\ boot[d].on \in Subscription
  BY DEF BootInv, TypeOK, DeletesStale
<1>1. CASE EnsureTopics(b) \/ BootstrapStops(b)
  BY <1>0, <1>1 DEF EnsureTopics, BootstrapStops, Goto, broker, history
<1>2. CASE ReadSubscription(b)
  BY <1>0, <1>2 DEF ReadSubscription, Matches, Ensured, Goto, broker
<1>3. CASE DeleteSubscription(b)
  BY <1>0, <1>3 DEF DeleteSubscription, Goto
<1>4. CASE CreateSubscription(b)
  <2>1. d # b /\ boot'[d] = boot[d]
    BY <1>0, <1>4 DEF CreateSubscription, Ensured, Goto
  <2>2. CASE kind[boot[b].on] = "absent" /\ boot[d].on = boot[b].on
    BY <1>0, <1>4, <2>1, <2>2 DEF CreateSubscription
  <2>3. CASE kind[boot[b].on] = "absent" /\ boot[d].on # boot[b].on
    <3>1. kind' = [kind EXCEPT ![boot[b].on] = "matching"]
      BY <1>4, <2>3 DEF CreateSubscription
    <3>2. kind'[boot[d].on] = kind[boot[d].on]
      BY <1>0, <2>3, <3>1
    <3>3. stale'[d] = (stale[d] \/ (d # b /\ boot[d].on = boot[b].on))
      BY <1>0, <1>4, <2>3 DEF CreateSubscription
    <3> QED
      BY <1>0, <2>1, <3>2, <3>3
  <2>4. CASE kind[boot[b].on] # "absent"
    BY <1>0, <1>4, <2>1, <2>4 DEF CreateSubscription
  <2> QED
    BY <2>2, <2>3, <2>4
<1> QED
  BY <1>1, <1>2, <1>3, <1>4 DEF BootstrapStep

LEMMA Bootstrap_PassedMatches ==
  ASSUME BootInv, NEW b \in Bootstrap, BootstrapStep(b)
  PROVE  PassedMatches'
<1> SUFFICES ASSUME NEW d \in Bootstrap, NEW s \in Subscription, Passed(d, s)',
                    ~(\E e \in Bootstrap : boot'[e].step = "stopped")
             PROVE  kind'[s] = "matching" \/ Creating(s)'
  BY DEF PassedMatches
<1>0. /\ kind \in [Subscription -> Kind] /\ boot \in [Bootstrap -> [step : Step, on : Subscription]]
      /\ Subscription = {"processing", "inspection"}
  BY DEF BootInv, TypeOK, Subscription
<1>1. Passed(d, s) => kind[s] = "matching" \/ Creating(s) \/ \E e \in Bootstrap : boot[e].step = "stopped"
  BY DEF BootInv, PassedMatches
<1>2. CASE EnsureTopics(b)
  <2>1. boot' = [boot EXCEPT ![b] = [step |-> "read", on |-> "processing"]] /\ kind' = kind
        /\ boot[b].step = "topics"
    BY <1>2 DEF EnsureTopics, Goto
  <2> QED
    BY <1>0, <1>1, <2>1 DEF Passed, Creating
<1>3. CASE ReadSubscription(b)
  <2>1. kind' = kind /\ boot[b].step = "read"
    BY <1>3 DEF ReadSubscription, broker
  <2>2. \A e \in Bootstrap \ {b} : boot'[e] = boot[e]
    BY <1>0, <1>3 DEF ReadSubscription, Ensured, Goto
  <2>3. (\E e \in Bootstrap : boot[e].step = "stopped") => \E e \in Bootstrap : boot'[e].step = "stopped"
    BY <2>1, <2>2
  <2>4. Creating(s) => Creating(s)'
    BY <2>1, <2>2 DEF Creating
  <2>5. Passed(d, s) \/ kind[s] = "matching"
    BY <1>0, <1>3 DEF ReadSubscription, Ensured, Goto, Passed, Matches
  <2> QED
    BY <1>1, <2>1, <2>3, <2>4, <2>5
<1>4. CASE DeleteSubscription(b)
  <2>1. /\ boot' = [boot EXCEPT ![b] = [step |-> "create", on |-> boot[b].on]]
        /\ kind' = [kind EXCEPT ![boot[b].on] = "absent"]
        /\ boot[b].step = "delete" /\ boot[b].on \in Subscription
    BY <1>0, <1>4 DEF DeleteSubscription, Goto
  <2>2. CASE s = boot[b].on
    BY <1>0, <2>1, <2>2 DEF Creating
  <2>3. CASE s # boot[b].on
    <3>1. Passed(d, s)
      BY <1>0, <2>1 DEF Passed
    <3>2. kind'[s] = kind[s] /\ (Creating(s) => Creating(s)')
      BY <1>0, <2>1, <2>3 DEF Creating
    <3>3. (\E e \in Bootstrap : boot[e].step = "stopped") => \E e \in Bootstrap : boot'[e].step = "stopped"
      BY <1>0, <2>1
    <3> QED
      BY <1>1, <3>1, <3>2, <3>3
  <2> QED
    BY <2>2, <2>3
<1>5. CASE CreateSubscription(b)
  <2>1. boot[b].step = "create" /\ boot[b].on \in Subscription
        /\ \A e \in Bootstrap \ {b} : boot'[e] = boot[e]
    BY <1>0, <1>5 DEF CreateSubscription, Ensured, Goto
  <2>2. (\E e \in Bootstrap : boot[e].step = "stopped") => \E e \in Bootstrap : boot'[e].step = "stopped"
    BY <2>1
  <2>3. CASE kind[boot[b].on] = "absent"
    <3>1. kind' = [kind EXCEPT ![boot[b].on] = "matching"] /\ Ensured(b)
      BY <1>5, <2>3 DEF CreateSubscription
    <3>2. CASE s = boot[b].on
      BY <1>0, <2>1, <3>1, <3>2
    <3>3. CASE s # boot[b].on
      <4>1. Passed(d, s)
        BY <1>0, <2>1, <3>1, <3>3 DEF Passed, Ensured, Goto
      <4>2. kind'[s] = kind[s] /\ (Creating(s) => Creating(s)')
        BY <1>0, <2>1, <3>1, <3>3 DEF Creating
      <4> QED
        BY <1>1, <2>2, <4>1, <4>2
    <3> QED
      BY <3>2, <3>3
  <2>4. CASE kind[boot[b].on] # "absent"
    <3>1. kind' = kind /\ boot' = [boot EXCEPT ![b] = [step |-> "conflict", on |-> boot[b].on]]
      BY <1>5, <2>4 DEF CreateSubscription, Goto
    <3>2. Passed(d, s)
      BY <1>0, <2>1, <3>1 DEF Passed
    <3>3. Creating(s) => Creating(s)'
      BY <1>0, <2>1, <2>4, <3>1 DEF Creating
    <3> QED
      BY <1>1, <2>2, <3>1, <3>2, <3>3
  <2> QED
    BY <2>3, <2>4
<1>6. CASE BootstrapStops(b)
  BY <1>0, <1>6 DEF BootstrapStops, Goto
<1> QED
  BY <1>2, <1>3, <1>4, <1>5, <1>6 DEF BootstrapStep

LEMMA BootInv_Step ==
  ASSUME BootInv, TypeOK', [IngestionNext]_IngestionVars
  PROVE  BootInv'
<1>1. CASE \E b \in Bootstrap : BootstrapStep(b)
  BY <1>1, Bootstrap_DeletesStale, Bootstrap_PassedMatches DEF BootInv
<1>2. CASE UNCHANGED <<kind, boot, stale>>
  BY <1>2, SameBoots DEF BootInv
<1>3. ASSUME MessagingStep, ~(\E b \in Bootstrap : BootstrapStep(b))
      PROVE  UNCHANGED <<kind, boot, stale>>
  BY <1>3 DEF MessagingStep, PublishFetched, PublishForeign, Publish, PublishFails,
     ConsumerStep, Pull, PullFails, Acknowledge, RequestRedelivery, Forget,
     BrokerStep, LateStore, LeaseExpires, DeadLetter, broker, history
<1> QED
  BY <1>1, <1>2, <1>3 DEF IngestionNext, IngestionVars, vars, broker, history

LEMMA BootInv_Always == IngestionSpec => []BootInv
<1>1. IngestionInit => BootInv
  BY Init_BootInv DEF IngestionInit
<1>2. BootInv /\ TypeOK' /\ [IngestionNext]_IngestionVars => BootInv'
  BY BootInv_Step
<1> QED
  BY <1>1, <1>2, MessagingTypeCorrect, PTL DEF IngestionSpec

(* A matching subscription is deleted only by a bootstrap that read what   *)
(* was there before it, for any number of bootstraps                       *)
(* (ensure_local_pubsub_emulator_topology).                                *)
THEOREM MatchingSubscriptionsOutliveLaterBootstraps ==
  IngestionSpec => MatchingOutlivesLaterBootstraps
<1> DEFINE Deletes(s, b) == kind[s] = "matching" /\ kind'[s] = "absent" /\ boot[b] # boot'[b]
           Outlives == \A s \in Subscription, b \in Bootstrap : Deletes(s, b) => stale[b]
<1>1. BootInv /\ [IngestionNext]_IngestionVars => Outlives
  <2> SUFFICES ASSUME BootInv, [IngestionNext]_IngestionVars,
                      NEW s \in Subscription, NEW b \in Bootstrap, Deletes(s, b)
               PROVE  stale[b]
    OBVIOUS
  <2>1. PICK d \in Bootstrap : DeleteSubscription(d)
    <3>1. kind' # kind
      OBVIOUS
    <3>2. \E d \in Bootstrap : DeleteSubscription(d) \/ CreateSubscription(d)
      BY <3>1 DEF IngestionNext, IngestionVars, vars, broker, history, MessagingStep,
         PublishFetched, PublishForeign, Publish, PublishFails, ConsumerStep, Pull, PullFails,
         Acknowledge, RequestRedelivery, Forget, BrokerStep, LateStore, LeaseExpires, DeadLetter,
         BootstrapStep, EnsureTopics, ReadSubscription, BootstrapStops
    <3>3. ASSUME NEW d \in Bootstrap, CreateSubscription(d) PROVE FALSE
      BY <3>3 DEF CreateSubscription, BootInv, TypeOK
    <3> QED
      BY <3>2, <3>3
  <2>2. b = d /\ boot[b].step = "delete"
    BY <2>1 DEF DeleteSubscription, Goto, BootInv, TypeOK
  <2>3. s = boot[b].on
    BY <2>1, <2>2 DEF DeleteSubscription, BootInv, TypeOK
  <2> QED
    BY <2>2, <2>3 DEF BootInv, DeletesStale
<1>2. Outlives => [\A s \in Subscription, b \in Bootstrap :
         kind[s] = "matching" /\ kind'[s] = "absent" /\ boot[b] # boot'[b] => stale[b]]_vars
  OBVIOUS
<1> HIDE DEF Deletes, Outlives
<1> QED
  BY <1>1, <1>2, BootInv_Always, PTL DEF IngestionSpec, MatchingOutlivesLaterBootstraps

(* Once a bootstrap is done and none is left half way, both subscriptions  *)
(* match, and no step drops a message any more                             *)
(* (ensure_local_pubsub_emulator_topology).                                *)
THEOREM NothingIsDroppedOnceSetUp == IngestionSpec => NothingDroppedOnceSetUp
<1> DEFINE Keeps == SetUp => dropped' = dropped
<1>1. BootInv /\ [IngestionNext]_IngestionVars => Keeps
  <2> SUFFICES ASSUME BootInv, [IngestionNext]_IngestionVars, SetUp PROVE dropped' = dropped
    OBVIOUS
  <2>1. kind["processing"] = "matching" /\ kind["inspection"] = "matching"
    <3>1. PICK b \in Bootstrap : boot[b].step = "done"
      BY DEF SetUp
    <3>2. Passed(b, "processing") /\ Passed(b, "inspection")
      BY <3>1 DEF Passed
    <3>3. \A d \in Bootstrap : boot[d].step # "create" /\ boot[d].step # "stopped"
      BY DEF SetUp
    <3> QED
      BY <3>2, <3>3 DEF BootInv, PassedMatches, Creating, Subscription
  <2>2. ASSUME NEW d \in Bootstrap, BootstrapStep(d) PROVE FALSE
    BY <2>2 DEF SetUp, BootstrapStep, EnsureTopics, ReadSubscription, DeleteSubscription,
       CreateSubscription, BootstrapStops, Ended
  <2> QED
    BY <2>1, <2>2 DEF IngestionNext, IngestionVars, vars, broker, history, MessagingStep,
       PublishFetched, PublishForeign, Publish, PublishFails, Store, ConsumerStep, Pull, PullFails,
       Acknowledge, RequestRedelivery, Forget, BrokerStep, LateStore, LeaseExpires, DeadLetter
<1>2. Keeps => [SetUp => dropped' = dropped]_vars
  OBVIOUS
<1> HIDE DEF Keeps
<1> QED
  BY <1>1, <1>2, BootInv_Always, PTL DEF IngestionSpec, NothingDroppedOnceSetUp

===============================================================================
