--------------------------- MODULE EventProcessing --------------------------
(***************************************************************************)
(* From a Pub/Sub subscription to the RAW table, the CORE view and the     *)
(* processing ledger: several worker processes, each with its own SQLite   *)
(* connection, take one delivery at a time through                         *)
(*                                                                         *)
(*     assess  ->  handler (RAW load job)  ->  record_success  ->  ack     *)
(*                                                                         *)
(* No transaction spans these steps.  Another worker's step, the expiry of *)
(* the delivery's lease, an exception or a crash may come between any two, *)
(* and a load job the handler stopped waiting for may commit at any later  *)
(* time.                                                                   *)
(***************************************************************************)
EXTENDS SourceVersions

CONSTANTS Message,              \* Pub/Sub messages
          Worker,               \* processes that run a ProcessingRuntimeCoordinator
          NoWorker, NoMessage,
          MaxDeliveryAttempts,  \* of the subscription's dead-letter policy
          ForwardFrom,          \* fewest deliveries after which the broker may forward
          MaxFaults             \* bound on the failures of one behaviour

ASSUME ProcessingAssumption ==
  /\ NoWorker \notin Worker
  /\ NoMessage \notin Message
  /\ MaxDeliveryAttempts \in Nat \ {0}
  /\ ForwardFrom \in 1..MaxDeliveryAttempts
  /\ MaxFaults \in Nat

VARIABLES
  carried,   \* the version each message carries; messages are chosen freely, since a
             \* publish retried after a timeout and a repeated ingestion both make
             \* several messages of one version
  status,    \* what the broker does with a message: outstanding, acked, or dead
  lease,     \* the worker whose delivery of the message has a live deadline
  attempts,  \* deliveries of the message, saturating at MaxDeliveryAttempts
  pc,        \* the next step of a worker's invocation of process()
  job,       \* the message a worker is processing
  ledger,    \* processed_events: the version accepted for each key
  raw,       \* the versions that have a row in RAW
  lateJobs,  \* versions of submitted load jobs nobody waits for any more
  faults     \* failures so far, bounded by MaxFaults

broker == <<carried, status, lease, attempts>>
stores == <<ledger, raw, lateJobs>>
vars   == <<broker, stores, pc, job, faults>>

Step == {"idle", "assess", "handle", "record", "ack", "nack"}

TypeOK ==
  /\ carried  \in [Message -> Version]
  /\ status   \in [Message -> {"outstanding", "acked", "dead"}]
  /\ lease    \in [Message -> Worker \cup {NoWorker}]
  /\ attempts \in [Message -> 0..MaxDeliveryAttempts]
  /\ pc       \in [Worker -> Step]
  /\ job      \in [Worker -> Message \cup {NoMessage}]
  /\ \A w \in Worker : pc[w] # "idle" => job[w] \in Message
  /\ ledger   \in [Key -> Version \cup {NoVersion}]
  /\ raw      \subseteq Version
  /\ lateJobs \subseteq Version
  /\ faults   \in 0..MaxFaults

MessageKey(m) == KeyOf[carried[m]]

(* The version worker w is processing, and what the ledger says of it now. *)
Incoming(w)   == carried[job[w]]
Resolution(w) == Resolve(ledger[KeyOf[Incoming(w)]], Incoming(w))

Rows(k)        == {v \in raw : KeyOf[v] = k}
CoreCurrent(k) == CoreOfRows(Rows(k))

Fault == faults < MaxFaults /\ faults' = faults + 1

Goto(w, step) == pc' = [pc EXCEPT ![w] = step]

(* Variant: the worker runs process() again on the delivery it released.   *)
FinishAndRetry(w) ==
  /\ pc'  = [pc  EXCEPT ![w] = "assess"]
  /\ job' = [job EXCEPT ![w] = NoMessage]

Finish(w) ==
  /\ pc'  = [pc  EXCEPT ![w] = "idle"]
  /\ job' = [job EXCEPT ![w] = NoMessage]

Init ==
  /\ carried  \in [Message -> Version]
  /\ status   = [m \in Message |-> "outstanding"]
  /\ lease    = [m \in Message |-> NoWorker]
  /\ attempts = [m \in Message |-> 0]
  /\ pc       = [w \in Worker |-> "idle"]
  /\ job      = [w \in Worker |-> NoMessage]
  /\ ledger   = [k \in Key |-> NoVersion]
  /\ raw      = {}
  /\ lateJobs = {}
  /\ faults   = 0

-----------------------------------------------------------------------------
(* The broker.                                                             *)

StartDelivery(w, m) ==
  /\ pc[w] = "idle"
  /\ lease[m] = NoWorker
  /\ lease'    = [lease EXCEPT ![m] = w]
  /\ attempts' = [attempts EXCEPT ![m] = IF @ < MaxDeliveryAttempts THEN @ + 1 ELSE @]
  /\ pc'       = [pc  EXCEPT ![w] = "assess"]
  /\ job'      = [job EXCEPT ![w] = m]
  /\ UNCHANGED <<carried, status, stores>>

(* A pull hands an outstanding message to a free worker, in any order.     *)
Deliver(w, m) ==
  /\ status[m] = "outstanding"
  /\ StartDelivery(w, m)
  /\ UNCHANGED faults

(* At-least-once delivery: even an acknowledged message may come again.    *)
RedeliverAcked(w, m) ==
  /\ status[m] = "acked"
  /\ StartDelivery(w, m)
  /\ Fault

BeingProcessed(m) == lease[m] # NoWorker /\ job[lease[m]] = m

(* The 30 second deadline passes; nothing in the code extends it.  The     *)
(* worker, if it is still processing the message, does not notice.         *)
LeaseExpires(m) ==
  /\ lease[m] # NoWorker
  /\ IF BeingProcessed(m) THEN Fault ELSE UNCHANGED faults
  /\ lease' = [lease EXCEPT ![m] = NoWorker]
  /\ UNCHANGED <<carried, status, attempts, stores, pc, job>>

(* The broker moves a message that keeps coming back to the dead-letter    *)
(* topic.  No client call does: this is the only way there.                *)
DeadLetter(m) ==
  /\ status[m] = "outstanding"
  /\ lease[m] = NoWorker
  /\ attempts[m] >= ForwardFrom
  /\ status' = [status EXCEPT ![m] = "dead"]
  /\ UNCHANGED <<carried, lease, attempts, stores, pc, job, faults>>

-----------------------------------------------------------------------------
(* One invocation of ProcessingRuntimeCoordinator.process.                 *)

(* Variants of Assess: a conflict is acknowledged like a stale revision;   *)
(* a conflict is assessed again until it goes away; a stale revision is    *)
(* sent back like a conflict.                                              *)
AssessAckingConflict(w) ==
  /\ pc[w] = "assess"
  /\ Goto(w, IF RunsHandler(Resolution(w)) THEN "handle" ELSE "ack")
  /\ UNCHANGED <<broker, stores, job, faults>>

AssessRetryingConflict(w) ==
  /\ pc[w] = "assess"
  /\ \/ RunsHandler(Resolution(w))                        /\ Goto(w, "handle")
     \/ Resolution(w) \in {"DUPLICATE", "STALE_REVISION"} /\ Goto(w, "ack")
     \/ Resolution(w) = "REVISION_CONFLICT"               /\ Goto(w, "assess")
  /\ UNCHANGED <<broker, stores, job, faults>>

AssessRejectingStale(w) ==
  /\ pc[w] = "assess"
  /\ \/ RunsHandler(Resolution(w)) /\ Goto(w, "handle")
     \/ Resolution(w) = "DUPLICATE" /\ Goto(w, "ack")
     \/ Resolution(w) \in {"STALE_REVISION", "REVISION_CONFLICT"} /\ Goto(w, "nack")
  /\ UNCHANGED <<broker, stores, job, faults>>

(* ledger.assess: a read outside any transaction.  Only its verdict is     *)
(* kept, as the next step.                                                 *)
Assess(w) ==
  /\ pc[w] = "assess"
  /\ \/ RunsHandler(Resolution(w))                        /\ Goto(w, "handle")
     \/ Resolution(w) \in {"DUPLICATE", "STALE_REVISION"} /\ Goto(w, "ack")
     \/ Resolution(w) = "REVISION_CONFLICT"               /\ Goto(w, "nack")
  /\ UNCHANGED <<broker, stores, job, faults>>

(* Variants of HandleSucceeds: the job's result is not waited for; the     *)
(* delivery is acknowledged first and recorded never.                      *)
HandleWithoutWaiting(w) ==
  /\ pc[w] = "handle"
  /\ lateJobs' = lateJobs \cup {Incoming(w)}
  /\ Goto(w, "record")
  /\ UNCHANGED <<broker, ledger, raw, job, faults>>

HandleThenAcknowledge(w) ==
  /\ pc[w] = "handle"
  /\ raw' = raw \cup {Incoming(w)}
  /\ Goto(w, "ack")
  /\ UNCHANGED <<broker, ledger, lateJobs, job, faults>>

(* The handler's load job completes within its timeout: one RAW row more.  *)
HandleSucceeds(w) ==
  /\ pc[w] = "handle"
  /\ raw' = raw \cup {Incoming(w)}
  /\ Goto(w, "record")
  /\ UNCHANGED <<broker, ledger, lateJobs, job, faults>>

(* Variant of HandleFails: the exception is swallowed.                     *)
HandleFailureSwallowed(w) ==
  /\ pc[w] = "handle"
  /\ Fault
  /\ lateJobs' \in {lateJobs, lateJobs \cup {Incoming(w)}}
  /\ Goto(w, "record")
  /\ UNCHANGED <<broker, ledger, raw, job>>

(* The handler raises and the runtime asks for redelivery.  When it raised *)
(* because it stopped waiting, the job it submitted is still running.      *)
HandleFails(w) ==
  /\ pc[w] = "handle"
  /\ Fault
  /\ lateJobs' \in {lateJobs, lateJobs \cup {Incoming(w)}}
  /\ Goto(w, "nack")
  /\ UNCHANGED <<broker, ledger, raw, job>>

(* Variants of Record: the row is overwritten without looking at it again; *)
(* the delivery is acknowledged whatever the transaction finds.            *)
RecordBlindly(w) ==
  /\ pc[w] = "record"
  /\ ledger' = [ledger EXCEPT ![KeyOf[Incoming(w)]] = Incoming(w)]
  /\ Goto(w, "ack")
  /\ UNCHANGED <<broker, raw, lateJobs, job, faults>>

RecordAckingConflict(w) ==
  /\ pc[w] = "record"
  /\ ledger' = IF RunsHandler(Resolution(w))
                 THEN [ledger EXCEPT ![KeyOf[Incoming(w)]] = Incoming(w)]
                 ELSE ledger
  /\ Goto(w, "ack")
  /\ UNCHANGED <<broker, raw, lateJobs, job, faults>>

(* ledger.record_success: one SQLite transaction that reads the row again  *)
(* and decides on what it finds, not on what assess found.                 *)
Record(w) ==
  /\ pc[w] = "record"
  /\ ledger' = IF RunsHandler(Resolution(w))
                 THEN [ledger EXCEPT ![KeyOf[Incoming(w)]] = Incoming(w)]
                 ELSE ledger
  /\ Goto(w, IF Resolution(w) = "REVISION_CONFLICT" THEN "nack" ELSE "ack")
  /\ UNCHANGED <<broker, raw, lateJobs, job, faults>>

(* Acknowledgement.  It settles the message while the delivery's lease is  *)
(* live; after that the broker may honour it or ignore it.                 *)
Acknowledge(w) ==
  /\ pc[w] = "ack"
  /\ LET m == job[w]
         settled == [status EXCEPT ![m] = IF @ = "dead" THEN @ ELSE "acked"]
     IN  IF lease[m] = w
           THEN status' = settled /\ lease' = [lease EXCEPT ![m] = NoWorker]
           ELSE status' \in {status, settled} /\ UNCHANGED lease
  /\ Finish(w)
  /\ UNCHANGED <<carried, attempts, stores, faults>>

(* Every disposition, REDELIVER or DEAD_LETTER, is one request for         *)
(* redelivery: the deadline of the delivery is set to zero.  It has no     *)
(* effect on a delivery whose lease is over.                               *)
RequestRedelivery(w) ==
  /\ pc[w] = "nack"
  /\ lease' = IF lease[job[w]] = w THEN [lease EXCEPT ![job[w]] = NoWorker] ELSE lease
  /\ Finish(w)
  /\ UNCHANGED <<carried, status, attempts, stores, faults>>

(* The invocation ends with neither: the process crashes, or the ledger,   *)
(* the acknowledgement or the redelivery request raises, which the runtime *)
(* lets propagate.  The lease stays until it expires; a load job that was  *)
(* under way goes on.                                                      *)
Abandon(w) ==
  /\ pc[w] # "idle"
  /\ Fault
  /\ lateJobs' \in {lateJobs}
       \cup (IF pc[w] = "handle" THEN {lateJobs \cup {Incoming(w)}} ELSE {})
  /\ Finish(w)
  /\ UNCHANGED <<broker, ledger, raw>>

-----------------------------------------------------------------------------
(* BigQuery: the end of a load job that no worker waits for.               *)

LateJobEnds(v) ==
  /\ v \in lateJobs
  /\ lateJobs' = lateJobs \ {v}
  /\ raw' \in {raw, raw \cup {v}}
  /\ UNCHANGED <<broker, ledger, pc, job, faults>>

WorkerStep(w) ==
  \/ Assess(w) \/ HandleSucceeds(w) \/ HandleFails(w) \/ Record(w)
  \/ Acknowledge(w) \/ RequestRedelivery(w) \/ Abandon(w)

Next ==
  \/ \E w \in Worker : WorkerStep(w)
  \/ \E w \in Worker, m \in Message : Deliver(w, m) \/ RedeliverAcked(w, m)
  \/ \E m \in Message : LeaseExpires(m) \/ DeadLetter(m)
  \/ \E v \in Version : LateJobEnds(v)

Spec == Init /\ [][Next]_vars

(***************************************************************************)
(* Fairness.  A call a worker has made returns, one way or the other; a    *)
(* lease nobody works under runs out; the broker goes on delivering an     *)
(* outstanding message while there is a worker to take it, and moves it to *)
(* the dead-letter topic once its deliveries are used up.  Nothing obliges *)
(* a fault to happen or a handler to succeed: MaxFaults bounds the faults. *)
(***************************************************************************)
Proceed(w) ==
  \/ Assess(w) \/ HandleSucceeds(w) \/ Record(w)
  \/ Acknowledge(w) \/ RequestRedelivery(w)

OrphanLeaseExpires(m) == ~BeingProcessed(m) /\ LeaseExpires(m)

ForwardExhausted(m) == attempts[m] = MaxDeliveryAttempts /\ DeadLetter(m)

Fairness ==
  /\ \A w \in Worker  : WF_vars(Proceed(w))
  /\ \A m \in Message : WF_vars(OrphanLeaseExpires(m))
  /\ \A m \in Message : SF_vars(\E w \in Worker : Deliver(w, m))
  /\ \A m \in Message : SF_vars(ForwardExhausted(m))

FairSpec == Spec /\ Fairness

-----------------------------------------------------------------------------
(* Properties.                                                             *)

Acked(m) == status[m] = "acked"

Accepted(k) == ledger[k] # NoVersion

(* No message is lost: whatever failed or overlapped, an acknowledged      *)
(* message carries the version its key's ledger row accepts, or an earlier *)
(* revision than that.                                                     *)
AckedIsCovered ==
  \A m \in Message : Acked(m) => Covers(ledger[MessageKey(m)], carried[m])

(* record_success comes only after the handler's success: a version the    *)
(* ledger accepts has its row in RAW.                                      *)
AcceptedIsStored ==
  \A k \in Key : Accepted(k) => ledger[k] \in Rows(k)

(* The inductive invariant behind the safety properties: what the warehouse*)
(* holds or may still receive was sent in some message; a worker about to  *)
(* record has its row in RAW, and one about to acknowledge is covered by   *)
(* the ledger, whatever other workers have done since.                     *)
StoredWasSent ==
  \A v \in raw \cup lateJobs : \E m \in Message : carried[m] = v

RecordingIsStored ==
  \A w \in Worker : pc[w] = "record" => Incoming(w) \in raw

AckingIsCovered ==
  \A w \in Worker :
    pc[w] = "ack" => Covers(ledger[KeyOf[Incoming(w)]], Incoming(w))

ProcessingInv ==
  /\ TypeOK
  /\ StoredWasSent
  /\ AcceptedIsStored
  /\ RecordingIsStored
  /\ AckingIsCovered
  /\ AckedIsCovered

(* CORE and the ledger decide independently, from different data, which    *)
(* version is current.  A key that CORE shows at all, it shows at the      *)
(* accepted version or at a later revision still on its way to the ledger. *)
CoreNeverBehindLedger ==
  \A k \in Key : Accepted(k) =>
    \A v \in CoreCurrent(k) : v = ledger[k] \/ Newer(v, ledger[k])

(* Once every message of a key is acknowledged, CORE shows exactly the     *)
(* version the ledger accepts: the races and late load jobs that can hide  *)
(* a key from CORE leave a message that is not acknowledged.               *)
SettledKeysAgree ==
  \A k \in Key :
    LET sent == {m \in Message : MessageKey(m) = k}
    IN  sent # {} /\ (\A m \in sent : Acked(m)) => CoreCurrent(k) = {ledger[k]}

(* A ledger row is replaced only by a later revision of the same key,      *)
(* however late or often deliveries are processed.                         *)
LedgerOnlyAdvances ==
  [][\A k \in Key : ledger'[k] # ledger[k] =>
       \/ ~Accepted(k)
       \/ Newer(ledger'[k], ledger[k])]_ledger

(* What CORE shows for a key is never exchanged for something older or for *)
(* another content of the same revision.  It may be withheld in between.   *)
CoreOnlyAdvances ==
  [][\A k \in Key : \A u \in CoreCurrent(k), v \in CoreCurrent(k)' :
       u = v \/ Newer(v, u)]_raw

(* An acknowledged message that is delivered again is never handled again, *)
(* whichever worker gets it and whatever it finds in the ledger by then.   *)
AckedNeverHandledAgain ==
  [][\A w \in Worker :
       pc[w] = "assess" /\ Acked(job[w]) => pc'[w] \notin {"handle", "nack"}]_pc

(* Every message is eventually acknowledged or dead-lettered.              *)
EveryMessageSettles == \A m \in Message : <>(status[m] # "outstanding")

(* Event processing implements EventStore.                                 *)
Store == INSTANCE EventStore
           WITH stored <- raw, accepted <- ledger,
                acked <- {m \in Message : status[m] = "acked"}

ImplementsEventStore == Store!StoreSpec

(* When no two messages carry conflicting contents and the broker gives a  *)
(* message more deliveries than there are faults, every message ends       *)
(* acknowledged and none dead-lettered.                                    *)
Conflicting(u, v) == u # v /\ KeyOf[u] = KeyOf[v] /\ ~Newer(u, v) /\ ~Newer(v, u)

EveryMessageAcked ==
  /\ \A m, n \in Message : ~Conflicting(carried[m], carried[n])
  /\ MaxFaults < ForwardFrom
  => <>(\A m \in Message : Acked(m))

=============================================================================
