----------------------------- MODULE EventStore ------------------------------
(***************************************************************************)
(* What event processing promises to whoever publishes events and reads    *)
(* the warehouse, without workers, leases, retries or load jobs: versions  *)
(* sent in messages are stored, a stored version may become the accepted   *)
(* one of its key when it is the key's first or a later revision than the  *)
(* accepted one, and a message is settled only once the accepted version   *)
(* covers what it carries.                                                 *)
(***************************************************************************)
EXTENDS SourceVersions

CONSTANT Message

VARIABLES carried,   \* the version each message carries
          stored,    \* the versions in the warehouse
          accepted,  \* the version accepted for each key
          acked      \* the messages settled as processed

storeVars == <<carried, stored, accepted, acked>>

StoreInit ==
  /\ carried  \in [Message -> Version]
  /\ stored   = {}
  /\ accepted = [k \in Key |-> NoVersion]
  /\ acked    = {}

Store(m) ==
  /\ stored' = stored \cup {carried[m]}
  /\ UNCHANGED <<carried, accepted, acked>>

Accept(m) ==
  LET v == carried[m]
      k == KeyOf[v]
  IN  /\ v \in stored
      /\ accepted[k] = NoVersion \/ Newer(v, accepted[k])
      /\ accepted' = [accepted EXCEPT ![k] = v]
      /\ UNCHANGED <<carried, stored, acked>>

Settle(m) ==
  /\ Covers(accepted[KeyOf[carried[m]]], carried[m])
  /\ acked' = acked \cup {m}
  /\ UNCHANGED <<carried, stored, accepted>>

StoreNext == \E m \in Message : Store(m) \/ Accept(m) \/ Settle(m)

StoreSpec == StoreInit /\ [][StoreNext]_storeVars

==============================================================================
