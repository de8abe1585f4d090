------------------------ MODULE EventProcessing_proofs ------------------------
(***************************************************************************)
(* Theorems about EventProcessing, for every set of keys, versions,        *)
(* messages and workers, and every number of faults.                       *)
(*                                                                         *)
(* The safety properties follow from one inductive invariant,              *)
(* ProcessingInv.  Its step is proved action by action; the facts about    *)
(* revisions come from SourceVersions_proofs.                              *)
(***************************************************************************)
EXTENDS EventProcessing, SourceVersions_proofs

(* What the verdict on worker w's message means, with its type.            *)
LEMMA ResolutionFacts ==
  ASSUME TypeOK, NEW w \in Worker, pc[w] # "idle"
  PROVE  /\ job[w] \in Message
         /\ Incoming(w) \in Version
         /\ KeyOf[Incoming(w)] \in Key
         /\ Resolution(w) \in {"NEW", "DUPLICATE", "NEWER_REVISION",
                               "STALE_REVISION", "REVISION_CONFLICT"}
         /\ RunsHandler(Resolution(w)) =>
              \/ ledger[KeyOf[Incoming(w)]] = NoVersion
              \/ Newer(Incoming(w), ledger[KeyOf[Incoming(w)]])
         /\ Resolution(w) \in {"DUPLICATE", "STALE_REVISION"} <=>
              Covers(ledger[KeyOf[Incoming(w)]], Incoming(w))
<1>1. job[w] \in Message /\ Incoming(w) \in Version /\ KeyOf[Incoming(w)] \in Key
  BY VersionAssumption DEF TypeOK, Incoming
<1>2. ledger[KeyOf[Incoming(w)]] \in Version \cup {NoVersion}
  BY <1>1 DEF TypeOK
<1> QED
  BY <1>1, <1>2, ResolveMeaning DEF Resolution

-------------------------------------------------------------------------------
(* Types.                                                                  *)

LEMMA TypeInit == Init => TypeOK
BY ProcessingAssumption, VersionAssumption DEF Init, TypeOK, Step

LEMMA TypeStep == TypeOK /\ [Next]_vars => TypeOK'
<1> SUFFICES ASSUME TypeOK, [Next]_vars
             PROVE  TypeOK'
  OBVIOUS
<1> USE DEF TypeOK, Step, broker, stores
<1>1. ASSUME NEW w \in Worker, NEW m \in Message, StartDelivery(w, m),
             faults' \in 0..MaxFaults
      PROVE  TypeOK'
  BY <1>1, ProcessingAssumption DEF StartDelivery
<1>2. ASSUME NEW w \in Worker, NEW m \in Message, Deliver(w, m)
      PROVE  TypeOK'
  BY <1>1, <1>2 DEF Deliver
<1>3. ASSUME NEW w \in Worker, NEW m \in Message, RedeliverAcked(w, m)
      PROVE  TypeOK'
  BY <1>1, <1>3, ProcessingAssumption DEF RedeliverAcked, Fault
<1>4. ASSUME NEW m \in Message, LeaseExpires(m)
      PROVE  TypeOK'
  BY <1>4, ProcessingAssumption DEF LeaseExpires, Fault
<1>5. ASSUME NEW m \in Message, DeadLetter(m)
      PROVE  TypeOK'
  BY <1>5 DEF DeadLetter
<1>6. ASSUME NEW w \in Worker, Assess(w)
      PROVE  TypeOK'
  <2>1. \E s \in {"handle", "ack", "nack"} : pc' = [pc EXCEPT ![w] = s]
    BY <1>6 DEF Assess, Goto
  <2> QED
    BY <1>6, <2>1 DEF Assess
<1>7. ASSUME NEW w \in Worker, HandleSucceeds(w)
      PROVE  TypeOK'
  BY <1>7, ResolutionFacts DEF HandleSucceeds, Goto
<1>8. ASSUME NEW w \in Worker, HandleFails(w)
      PROVE  TypeOK'
  BY <1>8, ResolutionFacts, ProcessingAssumption DEF HandleFails, Goto, Fault
<1>9. ASSUME NEW w \in Worker, Record(w)
      PROVE  TypeOK'
  <2>1. \E s \in {"ack", "nack"} : pc' = [pc EXCEPT ![w] = s]
    BY <1>9 DEF Record, Goto
  <2>2. ledger' \in [Key -> Version \cup {NoVersion}]
    BY <1>9, ResolutionFacts DEF Record
  <2> QED
    BY <1>9, <2>1, <2>2 DEF Record
<1>10. ASSUME NEW w \in Worker, Acknowledge(w)
       PROVE  TypeOK'
  <2>1. job[w] \in Message
    BY <1>10 DEF Acknowledge
  <2>2. status' \in [Message -> {"outstanding", "acked", "dead"}]
    BY <1>10, <2>1 DEF Acknowledge
  <2>3. lease' \in [Message -> Worker \cup {NoWorker}]
    BY <1>10, <2>1 DEF Acknowledge
  <2> QED
    BY <1>10, <2>2, <2>3 DEF Acknowledge, Finish
<1>11. ASSUME NEW w \in Worker, RequestRedelivery(w)
       PROVE  TypeOK'
  BY <1>11 DEF RequestRedelivery, Finish
<1>12. ASSUME NEW w \in Worker, Abandon(w)
       PROVE  TypeOK'
  BY <1>12, ResolutionFacts, ProcessingAssumption DEF Abandon, Finish, Fault
<1>13. ASSUME NEW v \in Version, LateJobEnds(v)
       PROVE  TypeOK'
  BY <1>13 DEF LateJobEnds
<1>14. CASE UNCHANGED vars
  BY <1>14 DEF vars
<1> QED
  BY <1>2, <1>3, <1>4, <1>5, <1>6, <1>7, <1>8, <1>9, <1>10, <1>11, <1>12,
     <1>13, <1>14 DEF Next, WorkerStep

(* Every reachable state of any instance is well typed.                    *)
THEOREM TypeCorrect == Spec => []TypeOK
BY TypeInit, TypeStep, PTL DEF Spec

-------------------------------------------------------------------------------
(* What no step undoes.                                                    *)

LEMMA Stability ==
  ASSUME [Next]_vars
  PROVE  carried' = carried /\ raw \subseteq raw'
BY DEF Next, vars, broker, stores, WorkerStep, Assess, HandleSucceeds,
       HandleFails, Record, Acknowledge, RequestRedelivery, Abandon, Deliver,
       RedeliverAcked, StartDelivery, LeaseExpires, DeadLetter, LateJobEnds

(* Only Record changes the ledger, in the row of the recorded key, and     *)
(* only to a first or later version.                                       *)
LEMMA LedgerStep ==
  ASSUME TypeOK, [Next]_vars, NEW k \in Key, ledger'[k] # ledger[k]
  PROVE  \E w \in Worker :
           /\ Record(w)
           /\ k = KeyOf[Incoming(w)]
           /\ ledger'[k] = Incoming(w)
           /\ ledger[k] = NoVersion \/ Newer(Incoming(w), ledger[k])
<1>1. PICK w \in Worker : Record(w)
  BY DEF Next, vars, broker, stores, WorkerStep, Assess, HandleSucceeds,
         HandleFails, Acknowledge, RequestRedelivery, Abandon, Deliver,
         RedeliverAcked, StartDelivery, LeaseExpires, DeadLetter, LateJobEnds
<1>2. pc[w] # "idle"
  BY <1>1 DEF Record
<1>3. /\ RunsHandler(Resolution(w))
      /\ ledger' = [ledger EXCEPT ![KeyOf[Incoming(w)]] = Incoming(w)]
  BY <1>1 DEF Record
<1>4. k = KeyOf[Incoming(w)] /\ ledger'[k] = Incoming(w)
  BY <1>2, <1>3, ResolutionFacts DEF TypeOK
<1> QED
  BY <1>1, <1>2, <1>3, <1>4, ResolutionFacts

(* A covered version stays covered.                                        *)
LEMMA CoverageStable ==
  ASSUME TypeOK, [Next]_vars, NEW k \in Key, NEW v \in Version, Covers(ledger[k], v)
  PROVE  Covers(ledger'[k], v)
<1>1. CASE ledger'[k] = ledger[k]
  BY <1>1
<1>2. CASE ledger'[k] # ledger[k]
  <2>1. ledger[k] # NoVersion
    BY DEF Covers
  <2>2. PICK w \in Worker : /\ Record(w)
                            /\ ledger'[k] = Incoming(w)
                            /\ Newer(Incoming(w), ledger[k])
    BY <1>2, <2>1, LedgerStep
  <2>3. Incoming(w) \in Version /\ ledger[k] \in Version \cup {NoVersion}
    BY <2>2, ResolutionFacts DEF Record, TypeOK
  <2> QED
    BY <2>2, <2>3, CoverageIsKept
<1> QED
  BY <1>1, <1>2

-------------------------------------------------------------------------------
(* The inductive invariant.                                                *)

LEMMA InvInit == Init => ProcessingInv
BY TypeInit DEF Init, ProcessingInv, StoredWasSent, AcceptedIsStored,
   Accepted, RecordingIsStored, AckingIsCovered, AckedIsCovered, Acked

(* New versions in RAW or in a late job are those of the worker's message. *)
LEMMA SentStep ==
  ASSUME TypeOK, StoredWasSent, [Next]_vars
  PROVE  StoredWasSent'
<1>1. raw' \cup lateJobs' \subseteq
        raw \cup lateJobs \cup {Incoming(w) : w \in {x \in Worker : pc[x] # "idle"}}
  BY DEF Next, vars, broker, stores, WorkerStep, Assess, HandleSucceeds,
         HandleFails, Record, Acknowledge, RequestRedelivery, Abandon, Deliver,
         RedeliverAcked, StartDelivery, LeaseExpires, DeadLetter, LateJobEnds
<1>2. \A w \in Worker : pc[w] # "idle" => \E m \in Message : carried[m] = Incoming(w)
  BY DEF TypeOK, Incoming
<1>3. carried' = carried
  BY Stability
<1> QED
  BY <1>1, <1>2, <1>3 DEF StoredWasSent

(* A worker reaches "record" only through its own successful handler call. *)
LEMMA RecordingStep ==
  ASSUME TypeOK, RecordingIsStored, [Next]_vars
  PROVE  RecordingIsStored'
<1> SUFFICES ASSUME NEW w \in Worker, pc'[w] = "record"
             PROVE  Incoming(w)' \in raw'
  BY DEF RecordingIsStored
<1>1. carried' = carried /\ raw \subseteq raw'
  BY Stability
<1>2. CASE pc[w] = "record" /\ job'[w] = job[w]
  BY <1>1, <1>2 DEF RecordingIsStored, Incoming
<1>3. CASE HandleSucceeds(w)
  BY <1>1, <1>3 DEF HandleSucceeds, Incoming
<1>4. (pc[w] = "record" /\ job'[w] = job[w]) \/ HandleSucceeds(w)
  BY DEF TypeOK, Next, vars, broker, stores, WorkerStep, Assess, HandleSucceeds,
         HandleFails, Record, Acknowledge, RequestRedelivery, Abandon, Deliver,
         RedeliverAcked, StartDelivery, LeaseExpires, DeadLetter, LateJobEnds,
         Goto, Finish
<1> QED
  BY <1>2, <1>3, <1>4

(* The accepted version is the one a worker recorded after its row landed. *)
LEMMA AcceptedStep ==
  ASSUME TypeOK, RecordingIsStored, AcceptedIsStored, [Next]_vars
  PROVE  AcceptedIsStored'
<1> SUFFICES ASSUME NEW k \in Key, ledger'[k] # NoVersion
             PROVE  ledger'[k] \in raw' /\ KeyOf[ledger'[k]] = k
  BY DEF AcceptedIsStored, Accepted, Rows
<1>1. raw \subseteq raw'
  BY Stability
<1>2. CASE ledger'[k] = ledger[k]
  BY <1>1, <1>2 DEF AcceptedIsStored, Accepted, Rows
<1>3. CASE ledger'[k] # ledger[k]
  <2>1. PICK w \in Worker : /\ Record(w)
                            /\ k = KeyOf[Incoming(w)]
                            /\ ledger'[k] = Incoming(w)
    BY <1>3, LedgerStep
  <2> QED
    BY <1>1, <2>1 DEF Record, RecordingIsStored
<1> QED
  BY <1>2, <1>3

(* A worker reaches "ack" by a verdict that means coverage: assess's, or   *)
(* record_success's after it wrote the row it found missing or older.      *)
LEMMA AckingStep ==
  ASSUME TypeOK, AckingIsCovered, [Next]_vars
  PROVE  AckingIsCovered'
<1> SUFFICES ASSUME NEW w \in Worker, pc'[w] = "ack"
             PROVE  Covers(ledger'[KeyOf[Incoming(w)']], Incoming(w)')
  BY DEF AckingIsCovered
<1>1. carried' = carried
  BY Stability
<1>2. (pc[w] = "ack" /\ job'[w] = job[w]) \/ Assess(w) \/ Record(w)
  BY DEF TypeOK, Next, vars, broker, stores, WorkerStep, Assess, HandleSucceeds,
         HandleFails, Record, Acknowledge, RequestRedelivery, Abandon, Deliver,
         RedeliverAcked, StartDelivery, LeaseExpires, DeadLetter, LateJobEnds,
         Goto, Finish
<1>3. CASE pc[w] = "ack" /\ job'[w] = job[w]
  <2>1. Incoming(w)' = Incoming(w)
    BY <1>1, <1>3 DEF Incoming
  <2> QED
    BY <1>3, <2>1, CoverageStable, ResolutionFacts DEF AckingIsCovered
<1>4. CASE Assess(w)
  <2>1. /\ Incoming(w)' = Incoming(w) /\ pc[w] # "idle"
        /\ Resolution(w) \in {"DUPLICATE", "STALE_REVISION"}
    BY <1>1, <1>4 DEF Assess, Goto, Incoming, TypeOK
  <2> QED
    BY <2>1, CoverageStable, ResolutionFacts
<1>5. CASE Record(w)
  <2>1. Incoming(w)' = Incoming(w) /\ pc[w] # "idle"
    BY <1>1, <1>5 DEF Record, Incoming
  <2>2. Resolution(w) # "REVISION_CONFLICT"
    BY <1>5 DEF Record, Goto, TypeOK
  <2>3. CASE RunsHandler(Resolution(w))
    <3>1. ledger'[KeyOf[Incoming(w)]] = Incoming(w)
      BY <1>5, <2>1, <2>3, ResolutionFacts DEF Record, TypeOK
    <3> QED
      BY <2>1, <3>1, ResolutionFacts, VersionAssumption DEF Covers
  <2>4. CASE ~RunsHandler(Resolution(w))
    <3>1. Resolution(w) \in {"DUPLICATE", "STALE_REVISION"}
      BY <2>1, <2>2, <2>4, ResolutionFacts DEF RunsHandler
    <3> QED
      BY <2>1, <3>1, CoverageStable, ResolutionFacts
  <2> QED
    BY <2>3, <2>4
<1> QED
  BY <1>2, <1>3, <1>4, <1>5

(* A message becomes acknowledged only by a covered worker's Acknowledge.  *)
LEMMA AckedStep ==
  ASSUME TypeOK, AckingIsCovered, AckedIsCovered, [Next]_vars
  PROVE  AckedIsCovered'
<1> SUFFICES ASSUME NEW m \in Message, status'[m] = "acked"
             PROVE  Covers(ledger'[KeyOf[carried[m]]], carried[m])
  BY Stability DEF AckedIsCovered, Acked, MessageKey
<1>1. status[m] = "acked" \/ \E w \in Worker : Acknowledge(w) /\ job[w] = m
  BY DEF TypeOK, Next, vars, broker, stores, WorkerStep, Assess, HandleSucceeds,
         HandleFails, Record, Acknowledge, RequestRedelivery, Abandon, Deliver,
         RedeliverAcked, StartDelivery, LeaseExpires, DeadLetter, LateJobEnds
<1>2. Covers(ledger[KeyOf[carried[m]]], carried[m])
  BY <1>1 DEF AckedIsCovered, Acked, MessageKey, AckingIsCovered, Acknowledge, Incoming
<1>3. carried[m] \in Version /\ KeyOf[carried[m]] \in Key
  BY VersionAssumption DEF TypeOK
<1> QED
  BY <1>2, <1>3, CoverageStable

LEMMA InvStep == ProcessingInv /\ [Next]_vars => ProcessingInv'
BY TypeStep, SentStep, RecordingStep, AcceptedStep, AckingStep, AckedStep
   DEF ProcessingInv

THEOREM InvCorrect == Spec => []ProcessingInv
BY InvInit, InvStep, PTL DEF Spec

-------------------------------------------------------------------------------
(* The safety properties.                                                  *)

(* However workers, leases, failures and late load jobs interleave, an     *)
(* acknowledged message is covered by its key's ledger row.                *)
THEOREM AckedCovered == Spec => []AckedIsCovered
BY InvCorrect, PTL DEF ProcessingInv

(* What the ledger accepts for a key has its row in RAW.                   *)
THEOREM AcceptedStored == Spec => []AcceptedIsStored
BY InvCorrect, PTL DEF ProcessingInv

(* CORE shows a key at its accepted version or at a later one.             *)
THEOREM CoreKeepsUp == Spec => []CoreNeverBehindLedger
<1>1. ProcessingInv => CoreNeverBehindLedger
  <2> SUFFICES ASSUME ProcessingInv, NEW k \in Key, Accepted(k),
                      NEW v \in CoreCurrent(k)
               PROVE  v = ledger[k] \/ Newer(v, ledger[k])
    BY DEF CoreNeverBehindLedger
  <2>1. ledger[k] \in Rows(k)
    BY DEF ProcessingInv, AcceptedIsStored
  <2>2. Rows(k) \in SUBSET Version
    BY DEF ProcessingInv, TypeOK, Rows
  <2> QED
    BY <2>1, <2>2, ShownIsLatest DEF CoreCurrent
<1> QED
  BY <1>1, InvCorrect, PTL

(* A key all of whose messages are acknowledged is shown by CORE, at the   *)
(* version the ledger accepts: every row of the key was sent in a message, *)
(* and every message of the key is covered by the accepted version.        *)
THEOREM SettledAgree == Spec => []SettledKeysAgree
<1>1. ProcessingInv => SettledKeysAgree
  <2> SUFFICES ASSUME ProcessingInv, NEW k \in Key, NEW m \in Message,
                      MessageKey(m) = k,
                      \A n \in Message : MessageKey(n) = k => Acked(n)
               PROVE  CoreCurrent(k) = {ledger[k]}
    BY DEF SettledKeysAgree
  <2>1. Rows(k) \in SUBSET {v \in Version : KeyOf[v] = k}
    BY DEF ProcessingInv, TypeOK, Rows
  <2>2. \A n \in Message : MessageKey(n) = k => Covers(ledger[k], carried[n])
    BY DEF ProcessingInv, AckedIsCovered
  <2>3. \A v \in Rows(k) : Covers(ledger[k], v)
    <3> SUFFICES ASSUME NEW v \in Rows(k)
                 PROVE  Covers(ledger[k], v)
      OBVIOUS
    <3>1. PICK n \in Message : carried[n] = v
      BY DEF ProcessingInv, StoredWasSent, Rows
    <3> QED
      BY <2>2, <3>1 DEF Rows, MessageKey
  <2>4. ledger[k] \in Rows(k)
    <3>1. Accepted(k)
      BY <2>2 DEF Covers, Accepted
    <3> QED
      BY <3>1 DEF ProcessingInv, AcceptedIsStored
  <2> QED
    BY <2>1, <2>3, <2>4, ShownIffCoversAll DEF CoreCurrent
<1> QED
  BY <1>1, InvCorrect, PTL

(* A ledger row is replaced only by a later revision.                      *)
THEOREM LedgerAdvances == Spec => LedgerOnlyAdvances
<1>1. ASSUME TypeOK, [Next]_vars
      PROVE  [\A k \in Key : ledger'[k] # ledger[k] =>
                \/ ~Accepted(k)
                \/ Newer(ledger'[k], ledger[k])]_ledger
  BY <1>1, LedgerStep DEF Accepted
<1> QED
  BY <1>1, TypeCorrect, PTL DEF Spec, LedgerOnlyAdvances

(* What CORE shows for a key is replaced only by a later revision: rows    *)
(* only accumulate, and the view shows the latest or nothing.              *)
THEOREM CoreAdvances == Spec => CoreOnlyAdvances
<1>1. ASSUME TypeOK, TypeOK', [Next]_vars
      PROVE  [\A k \in Key : \A u \in CoreCurrent(k), v \in CoreCurrent(k)' :
                u = v \/ Newer(v, u)]_raw
  <2> SUFFICES ASSUME NEW k \in Key, NEW u \in CoreCurrent(k),
                      NEW v \in CoreCurrent(k)'
               PROVE  u = v \/ Newer(v, u)
    OBVIOUS
  <2>1. Rows(k) \in SUBSET Version /\ Rows(k)' \in SUBSET Version
    BY <1>1 DEF TypeOK, Rows
  <2>2. u \in Rows(k)
    BY <2>1, ShownIsLatest DEF CoreCurrent, CoreOfRows, UnversionedWinner, RevisionedWinner
  <2>3. u \in Rows(k)'
    BY <1>1, <2>2, Stability DEF Rows
  <2>4. v \in CoreOfRows(Rows(k)')
    BY DEF CoreCurrent
  <2> QED
    BY <2>1, <2>3, <2>4, ShownIsLatest
<1> QED
  BY <1>1, TypeCorrect, PTL DEF Spec, CoreOnlyAdvances

(* RAW only gains versions, one in a step: all that RiskBatch assumes of   *)
(* the events it reads.                                                    *)
LEMMA RawStep ==
  ASSUME TypeOK, [Next]_vars
  PROVE  raw' = raw \/ \E v \in Version : raw' = raw \cup {v}
BY DEF TypeOK, Incoming, Next, vars, broker, stores, WorkerStep, Assess, HandleSucceeds,
       HandleFails, Record, Acknowledge, RequestRedelivery, Abandon, Deliver,
       RedeliverAcked, StartDelivery, LeaseExpires, DeadLetter, LateJobEnds

THEOREM RawOnlyGains == Spec => [][\E v \in Version : raw' = raw \cup {v}]_raw
<1>1. ASSUME TypeOK, [Next]_vars
      PROVE  [\E v \in Version : raw' = raw \cup {v}]_raw
  BY <1>1, RawStep
<1> QED
  BY <1>1, TypeCorrect, PTL DEF Spec

(* CoreOnlyAdvances relates two successive states.  Over any number of     *)
(* steps, and whatever was withheld in between: what CORE has shown of a   *)
(* key, it shows later only at that version or a later revision; and a     *)
(* stored version that it does not show is never shown again.              *)
THEOREM CoreNeverReturns ==
  ASSUME NEW k \in Key, NEW u \in Version
  PROVE  Spec => /\ [](u \in CoreCurrent(k) =>
                        [](\A v \in CoreCurrent(k) : u = v \/ Newer(v, u)))
                 /\ [](u \in Rows(k) /\ u \notin CoreCurrent(k) =>
                        [](u \notin CoreCurrent(k)))
<1> DEFINE Stored   == u \in Rows(k)
           Shown    == u \in CoreCurrent(k)
           Hidden   == u \notin CoreCurrent(k)
           NotOlder == \A v \in CoreCurrent(k) : u = v \/ Newer(v, u)
<1>1. TypeOK => Rows(k) \in SUBSET Version
  BY DEF TypeOK, Rows
<1>2. TypeOK /\ Shown => Stored
  BY <1>1, ShownIsLatest DEF CoreCurrent, CoreOfRows, UnversionedWinner, RevisionedWinner
<1>3. TypeOK /\ Stored => NotOlder
  BY <1>1, ShownIsLatest DEF CoreCurrent
<1>4. ASSUME TypeOK, [Next]_vars
      PROVE  Rows(k) \subseteq Rows(k)'
  BY <1>4, RawStep DEF Rows
<1>5. TypeOK /\ Stored /\ [Next]_vars => Stored'
  BY <1>4
<1>6. TypeOK /\ Stored /\ Hidden /\ [Next]_vars => Hidden'
  BY <1>4, ShownAmongFewer DEF CoreCurrent
<1> HIDE DEF Stored, Shown, Hidden, NotOlder
<1>7. Spec => [](Shown => []NotOlder) /\ [](Stored /\ Hidden => []Hidden)
  BY <1>2, <1>3, <1>5, <1>6, TypeCorrect, PTL DEF Spec
<1> QED
  BY <1>7 DEF Stored, Shown, Hidden, NotOlder

(* An acknowledged message that comes again is not handled again.          *)
THEOREM HandledOnce == Spec => AckedNeverHandledAgain
<1>1. ASSUME ProcessingInv, [Next]_vars
      PROVE  [\A w \in Worker :
                pc[w] = "assess" /\ Acked(job[w]) => pc'[w] \notin {"handle", "nack"}]_pc
  <2> SUFFICES ASSUME NEW w \in Worker, pc[w] = "assess", Acked(job[w])
               PROVE  pc'[w] \notin {"handle", "nack"}
    OBVIOUS
  <2>1. TypeOK /\ pc[w] # "idle"
    BY <1>1 DEF ProcessingInv
  <2>2. Covers(ledger[KeyOf[Incoming(w)]], Incoming(w))
    BY <1>1, <2>1, ResolutionFacts DEF ProcessingInv, AckedIsCovered, MessageKey, Incoming
  <2>3. Resolution(w) \in {"DUPLICATE", "STALE_REVISION"}
    BY <2>1, <2>2, ResolutionFacts
  <2>4. CASE Assess(w)
    BY <2>1, <2>3, <2>4 DEF Assess, Goto, RunsHandler, TypeOK
  <2>5. Assess(w) \/ pc'[w] \in {"assess", "idle"}
    BY <1>1, <2>1 DEF TypeOK, Next, vars, broker, stores, WorkerStep, Assess,
       HandleSucceeds, HandleFails, Record, Acknowledge, RequestRedelivery, Abandon,
       Deliver, RedeliverAcked, StartDelivery, LeaseExpires, DeadLetter,
       LateJobEnds, Goto, Finish
  <2> QED
    BY <2>4, <2>5
<1> QED
  BY <1>1, InvCorrect, PTL DEF Spec, AckedNeverHandledAgain

-------------------------------------------------------------------------------
(* Refinement.                                                             *)

LEMMA SameCoverage ==
  ASSUME NEW u, NEW v
  PROVE  /\ Store!Newer(u, v) <=> Newer(u, v)
         /\ Store!Covers(u, v) <=> Covers(u, v)
BY DEF Store!Newer, Store!Covers, Store!HasRevision, Newer, Covers, HasRevision

(* Every step is a step of the store or changes nothing it keeps.          *)
LEMMA StoreStep ==
  ASSUME ProcessingInv, [Next]_vars
  PROVE  [Store!StoreNext]_(Store!storeVars)
<1> DEFINE settled == {m \in Message : status[m] = "acked"}
<1>0. TypeOK /\ carried' = carried
  BY Stability DEF ProcessingInv
<1> USE DEF Store!StoreNext, Store!storeVars
<1>1. ASSUME NEW w \in Worker, HandleSucceeds(w)
      PROVE  Store!StoreNext
  BY <1>0, <1>1, ResolutionFacts
     DEF HandleSucceeds, Store!Store, Incoming, broker
<1>2. ASSUME NEW v \in Version, LateJobEnds(v)
      PROVE  Store!StoreNext \/ UNCHANGED Store!storeVars
  <2>1. PICK m \in Message : carried[m] = v
    BY <1>2 DEF LateJobEnds, ProcessingInv, StoredWasSent
  <2> QED
    BY <1>2, <2>1 DEF LateJobEnds, Store!Store, broker
<1>3. ASSUME NEW w \in Worker, Record(w)
      PROVE  Store!StoreNext \/ UNCHANGED Store!storeVars
  <2>1. CASE RunsHandler(Resolution(w))
    <3>1. /\ job[w] \in Message
          /\ Incoming(w) \in raw
          /\ \/ ledger[KeyOf[Incoming(w)]] = NoVersion
             \/ Newer(Incoming(w), ledger[KeyOf[Incoming(w)]])
      BY <1>0, <1>3, <2>1, ResolutionFacts DEF Record, ProcessingInv, RecordingIsStored
    <3> QED
      BY <1>3, <2>1, <3>1, SameCoverage DEF Record, Store!Accept, Incoming, broker
  <2>2. CASE ~RunsHandler(Resolution(w))
    BY <1>3, <2>2 DEF Record, broker
  <2> QED
    BY <2>1, <2>2
<1>4. ASSUME NEW w \in Worker, Acknowledge(w)
      PROVE  Store!StoreNext \/ UNCHANGED Store!storeVars
  <2>1. /\ job[w] \in Message
        /\ Covers(ledger[KeyOf[carried[job[w]]]], carried[job[w]])
    BY <1>0, <1>4 DEF Acknowledge, TypeOK, ProcessingInv, AckingIsCovered, Incoming
  <2>2. settled' = settled \/ settled' = settled \cup {job[w]}
    BY <1>0, <1>4, <2>1 DEF Acknowledge, TypeOK
  <2> QED
    BY <1>4, <2>1, <2>2, SameCoverage DEF Acknowledge, Store!Settle, stores
<1>5. ASSUME NEW w \in Worker,
             Assess(w) \/ HandleFails(w) \/ RequestRedelivery(w) \/ Abandon(w)
      PROVE  UNCHANGED Store!storeVars
  BY <1>5 DEF Assess, HandleFails, RequestRedelivery, Abandon, broker, stores
<1>6. ASSUME NEW m \in Message, DeadLetter(m)
      PROVE  UNCHANGED Store!storeVars
  <2>1. settled' = settled
    BY <1>0, <1>6 DEF DeadLetter, TypeOK
  <2> QED
    BY <1>6, <2>1 DEF DeadLetter, stores
<1>7. ASSUME NEW w \in Worker, NEW m \in Message,
             Deliver(w, m) \/ RedeliverAcked(w, m)
      PROVE  UNCHANGED Store!storeVars
  BY <1>7 DEF Deliver, RedeliverAcked, StartDelivery, stores
<1>8. ASSUME NEW m \in Message, LeaseExpires(m)
      PROVE  UNCHANGED Store!storeVars
  BY <1>8 DEF LeaseExpires, stores
<1>9. CASE UNCHANGED vars
  BY <1>9 DEF vars, broker, stores
<1> HIDE DEF Store!StoreNext, Store!storeVars
<1> QED
  BY <1>1, <1>2, <1>3, <1>4, <1>5, <1>6, <1>7, <1>8, <1>9 DEF Next, WorkerStep

(* Workers, leases, retries and late load jobs together do only what the   *)
(* event store allows.                                                     *)
THEOREM StoreImplemented == Spec => ImplementsEventStore
<1>1. Init => Store!StoreInit
  BY DEF Init, Store!StoreInit
<1> QED
  BY <1>1, StoreStep, InvCorrect, PTL DEF Spec, ImplementsEventStore, Store!StoreSpec

===============================================================================
