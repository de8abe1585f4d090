----------------------------- MODULE SourceFetch ------------------------------
(***************************************************************************)
(* One fetch from an external source: the retry loop of the HTTP client    *)
(* (integrations/http.py) and what the USGS and Open-Meteo adapters make   *)
(* of a reply.  The provider may answer every attempt differently.         *)
(***************************************************************************)
EXTENDS Integers, FiniteSets

CONSTANTS Feature,         \* earthquakes in the query's window and radius
          OccursAt,        \* when they happened
          Observation,     \* current-weather observations
          WellFormed,      \* features and observations the contracts accept
          Limit,           \* limit of the USGS query
          MaxAttempts, InitialBackoff, MaxBackoff,     \* RetryPolicy
          RetryAfter       \* Retry-After headers of a provider

(* A header that is missing, malformed or NaN counts like a negative one.  *)
NoDelay == -1

ASSUME FetchAssumption ==
  /\ IsFiniteSet(Feature)
  /\ OccursAt \in [Feature -> Int]
  /\ {Limit, MaxAttempts, InitialBackoff, MaxBackoff} \subseteq Nat \ {0}
  /\ RetryAfter \subseteq Int

Source == {"usgs", "open-meteo"}

VARIABLES
  source,      \* the adapter the caller calls
  fetch,       \* "idle", "request", "returned" or "failed"
  attempt,     \* attempts made, the present one included
  waited,      \* the sum of the delays slept through
  fetched,     \* what the adapter returned
  answer       \* history variable: what the provider had when it replied

fetchVars == <<source, fetch, attempt, waited, fetched, answer>>

FetchTypeOK ==
  /\ source \in Source
  /\ fetch \in {"idle", "request", "returned", "failed"}
  /\ attempt \in 0..MaxAttempts
  /\ waited \in Nat
  /\ fetched \subseteq (Feature \cup Observation) \cap WellFormed
  /\ answer \subseteq Feature \cup Observation

FetchInit ==
  /\ source \in Source
  /\ fetch = "idle"
  /\ attempt = 0
  /\ waited = 0
  /\ fetched = {}
  /\ answer = {}

-------------------------------------------------------------------------------
(* Delays.                                                                 *)

Least(a, b) == IF a <= b THEN a ELSE b

BackoffForRetry(n) == Least(InitialBackoff * 2^(n - 1), MaxBackoff)

(* Variant: the provider's delay is taken as it is.                        *)
RetryDelayUncapped(after, n) == IF after >= 0 THEN after ELSE BackoffForRetry(n)

RetryDelay(after, n) == IF after >= 0 THEN Least(after, MaxBackoff) ELSE BackoffForRetry(n)

-------------------------------------------------------------------------------
(* The loop.  A function that returned or raised has no locals any more.   *)

Ends(step) == fetch' = step /\ attempt' = 0 /\ waited' = 0 /\ UNCHANGED source

Raises == Ends("failed") /\ UNCHANGED <<fetched, answer>>

(* Variant: one attempt more.                                              *)
RetryOnceMore(delay) ==
  IF attempt <= MaxAttempts
  THEN /\ attempt' = attempt + 1
       /\ waited' = waited + delay
       /\ UNCHANGED <<source, fetch, fetched, answer>>
  ELSE Raises

RetryOrRaise(delay) ==
  IF attempt < MaxAttempts
  THEN /\ attempt' = attempt + 1
       /\ waited' = waited + delay
       /\ UNCHANGED <<source, fetch, fetched, answer>>
  ELSE Raises

(* The query is valid: a query that is not raises before any request.      *)
Request ==
  /\ fetch = "idle"
  /\ fetch' = "request"
  /\ attempt' = 1
  /\ UNCHANGED <<source, waited, fetched, answer>>

(* A timeout or an error of the transport.                                 *)
NoResponse ==
  /\ fetch = "request"
  /\ RetryOrRaise(BackoffForRetry(attempt))

(* 408, 429, 500, 502, 503 or 504.                                         *)
RetryableStatus ==
  /\ fetch = "request"
  /\ \E after \in RetryAfter : RetryOrRaise(RetryDelay(after, attempt))

(* Any other status but success, redirects included, or a successful reply *)
(* that is not a JSON object.                                              *)
PermanentFailure ==
  /\ fetch = "request"
  /\ Raises

(* What the provider puts on a page: the earliest features, ordered by     *)
(* time, as many as the limit lets through.                                *)
Page(A) ==
  {P \in SUBSET A :
     /\ Cardinality(P) = Least(Cardinality(A), Limit)
     /\ \A f \in P, g \in A \ P : OccursAt[f] <= OccursAt[g]}

(* One feature the contract does not accept spoils the page.               *)
FeaturesAccepted(page) == page \subseteq WellFormed

ObservationAccepted(o) == o \in WellFormed

Returns(events, A) ==
  /\ Ends("returned")
  /\ fetched' = events
  /\ answer' = A

(* Variant: features that are not accepted are skipped.                    *)
EarthquakesReplyTolerantly ==
  /\ fetch = "request" /\ source = "usgs"
  /\ \E A \in SUBSET Feature : \E P \in Page(A) : Returns(P \cap WellFormed, A)

EarthquakesReply ==
  /\ fetch = "request" /\ source = "usgs"
  /\ \E A \in SUBSET Feature : \E P \in Page(A) :
       IF FeaturesAccepted(P) THEN Returns(P, A) ELSE Raises

WeatherReply ==
  /\ fetch = "request" /\ source = "open-meteo"
  /\ \E o \in Observation :
       IF ObservationAccepted(o) THEN Returns({o}, {o}) ELSE Raises

FetchNext ==
  \/ Request
  \/ NoResponse
  \/ RetryableStatus
  \/ PermanentFailure
  \/ EarthquakesReply
  \/ WeatherReply

-------------------------------------------------------------------------------
(* Properties.                                                             *)

(* However the provider behaves, a fetch makes at most MaxAttempts         *)
(* attempts and sleeps at most MaxBackoff before each but the first.       *)
FetchBounded ==
  fetch = "request" =>
    /\ attempt \in 1..MaxAttempts
    /\ waited <= (attempt - 1) * MaxBackoff

(* A fetch that returns has left out nothing, except at the limit and then *)
(* only what happened no earlier than all it returned: one malformed       *)
(* feature is not skipped, and a caller that goes on from the time of the  *)
(* last one misses nothing.                                                *)
LeftOutIsLater ==
  fetch = "returned" =>
    \A f \in answer \ fetched :
      /\ Cardinality(fetched) = Limit
      /\ \A g \in fetched : OccursAt[g] <= OccursAt[f]

===============================================================================
