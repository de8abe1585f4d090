------------------------------ MODULE Ingestion -------------------------------
(***************************************************************************)
(* A producer fetches from a source and publishes what the adapter         *)
(* returned, while others publish, consumers pull and bootstraps set the   *)
(* subscriptions up.  The repository has both halves and no program that   *)
(* joins them: the caller between them is external.                        *)
(***************************************************************************)
EXTENDS Messaging, SourceFetch

ASSUME IngestionAssumption ==
  (Feature \cup Observation) \cap WellFormed \subseteq Event

IngestionInit == Init /\ FetchInit

PublishFetched == \E e \in fetched : Publish(e) \/ PublishFails(e)

PublishForeign == \E e \in Foreign : Publish(e) \/ PublishFails(e)

MessagingStep ==
  \/ PublishFetched
  \/ PublishForeign
  \/ \E c \in Consumer : ConsumerStep(c)
  \/ \E m \in Message : BrokerStep(m)
  \/ \E b \in Bootstrap : BootstrapStep(b)

IngestionNext ==
  \/ FetchNext /\ UNCHANGED vars
  \/ MessagingStep /\ UNCHANGED fetchVars

IngestionVars == <<vars, fetchVars>>

IngestionSpec == IngestionInit /\ [][IngestionNext]_IngestionVars

===============================================================================
