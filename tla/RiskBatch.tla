------------------------------ MODULE RiskBatch ------------------------------
(***************************************************************************)
(* Supplier risk batches (SupplierRiskBatchService.run) over BigQuery.  A  *)
(* batch takes four calls,                                                 *)
(*                                                                         *)
(*   read_suppliers -> read_events -> append_history -> replace_current,   *)
(*                                                                         *)
(* with no transaction around them: the supplier list may be replaced and  *)
(* events may arrive between two calls, a call may raise, the process may  *)
(* die, and a load job whose caller stopped waiting may commit later.      *)
(* Events are read through the CORE view of RAW, which EventProcessing     *)
(* fills: one more row may change what the view shows of its key, or make  *)
(* it show nothing.                                                        *)
(* Batches of several processes may overlap: nothing excludes them.        *)
(***************************************************************************)
EXTENDS RiskMart

CONSTANTS Event,            \* versions of canonical events
          KeyOf,            \* the deduplication key of a version
          RevisionOf,       \* its source revision
          NoRevision,       \* in place of a revision
          FamilyOf,         \* its hazard family
          OccurredAt,       \* its event_time, which its key is made from
          Concerns,         \* <<s, e>>: e names s as its entity, or is near s
          Lookback,         \* the window of each family, in units of the clock
          Process,          \* processes that run batches
          MaxRuns,          \* bound on the batches begun in a behaviour
          MaxFaults         \* bound on its failures

Family == {"weather", "seismic"}

ASSUME BatchAssumption ==
  /\ Snapshot \subseteq SUBSET Supplier
  /\ KeyOf \in [Event -> Key]
  /\ NoRevision \notin Nat
  /\ RevisionOf \in [Event -> Nat \cup {NoRevision}]
  /\ FamilyOf \in [Event -> Family]
  /\ OccurredAt \in [Event -> Int]
  /\ \A e, f \in Event : KeyOf[e] = KeyOf[f] => OccurredAt[e] = OccurredAt[f]
  /\ Concerns \subseteq Supplier \X Event
  /\ Lookback \in [Family -> Nat \ {0}]
  /\ {MaxTime, MaxRuns, MaxFaults} \subseteq Nat

VARIABLES
  clock,      \* now; a caller assesses the present
  stored,     \* the event versions that have a row in RAW
  suppliers,  \* the CORE suppliers table
  late,       \* load jobs nobody waits for any more
  pc,         \* the next call of a process, or "idle"
  at,         \* assessed_at of its batch
  roster,     \* the suppliers it read
  batch,      \* the assessments it computed
  known,      \* history variable: what was visible when the batch began
  shown,      \* history variable: what the CORE view has shown so far
  runs, faults

local  == <<pc, at, roster, batch, known>>
tables == <<suppliers, history, current>>
events == <<stored, shown>>
vars   == <<clock, events, tables, late, local, runs, faults>>

Call == {"suppliers", "events", "append", "replace"}
Job  == [table : {"suppliers"}, rows : Snapshot]
        \cup [table : {"history", "current"}, rows : SUBSET Row]

TypeOK ==
  /\ clock \in Time
  /\ stored \subseteq Event
  /\ shown \subseteq Event
  /\ suppliers \subseteq Supplier
  /\ history \subseteq SUBSET Row
  /\ current \subseteq Row
  /\ late \subseteq Job
  /\ pc     \in [Process -> Call \cup {"idle"}]
  /\ at     \in [Process -> Time]
  /\ roster \in [Process -> SUBSET Supplier]
  /\ batch  \in [Process -> SUBSET Row]
  /\ known  \in [Process -> SUBSET Event]
  /\ runs \in 0..MaxRuns
  /\ faults \in 0..MaxFaults

------------------------------------------------------------------------------
(* The inputs of a batch and the engine.                                   *)

(* The CORE view: of each key the version that all its rows agree on.      *)
Core == INSTANCE SourceVersions WITH Version <- Event, NoVersion <- NoRevision

CoreView(rows) == UNION {Core!CoreOfRows({e \in rows : KeyOf[e] = k}) : k \in Key}

visible == CoreView(stored)

InWindow(e, from, to) == from <= OccurredAt[e] /\ OccurredAt[e] <= to

(* Variant: the query is bounded by the shorter window.                    *)
ShortestLookback ==
  IF Lookback["weather"] <= Lookback["seismic"] THEN Lookback["weather"]
                                                ELSE Lookback["seismic"]

(* read_events asks once for both families, over the longer window.        *)
LongestLookback ==
  IF Lookback["weather"] >= Lookback["seismic"] THEN Lookback["weather"]
                                                ELSE Lookback["seismic"]

EventsRead(t) == {e \in visible : InWindow(e, t - LongestLookback, t)}

(* assess scans the events once per family, with that family's window.     *)
FamilyEvidence(s, E, t, f) ==
  {e \in E : FamilyOf[e] = f /\ InWindow(e, t - Lookback[f], t) /\ <<s, e>> \in Concerns}

Evidence(s, E, t) ==
  FamilyEvidence(s, E, t, "weather") \cup FamilyEvidence(s, E, t, "seismic")

Assess(s, E, t) ==
  [supplier |-> s, at |-> t, evidence |-> {KeyOf[e] : e \in Evidence(s, E, t)}]

------------------------------------------------------------------------------
(* Load jobs.                                                              *)

(* A job that commits puts its rows in their table: WRITE_APPEND for the   *)
(* history, WRITE_TRUNCATE for the other two.                              *)
Commit(j) ==
  /\ suppliers' = IF j.table = "suppliers" THEN j.rows ELSE suppliers
  /\ history'   = IF j.table = "history" THEN history \cup {j.rows} ELSE history
  /\ current'   = IF j.table = "current" THEN j.rows ELSE current

(* No rows, no job.                                                        *)
Load(table, rows) ==
  IF rows = {} THEN UNCHANGED tables ELSE Commit([table |-> table, rows |-> rows])

(* A load that raises has not committed; its job may have been submitted,  *)
(* and then may commit later.                                              *)
FailedLoad(table, rows) ==
  \/ UNCHANGED late
  \/ rows # {} /\ late' = late \cup {[table |-> table, rows |-> rows]}

LateCommit(j) ==
  /\ j \in late
  /\ late' = late \ {j}
  /\ Commit(j)
  /\ UNCHANGED <<clock, events, local, runs, faults>>

Fault == faults < MaxFaults /\ faults' = faults + 1

------------------------------------------------------------------------------
(* The world around the batches.                                           *)

Init ==
  /\ clock = 0
  /\ stored = {}
  /\ shown = {}
  /\ suppliers = {}
  /\ MartInit
  /\ late = {}
  /\ pc     = [p \in Process |-> "idle"]
  /\ at     = [p \in Process |-> 0]
  /\ roster = [p \in Process |-> {}]
  /\ batch  = [p \in Process |-> {}]
  /\ known  = [p \in Process |-> {}]
  /\ runs = 0
  /\ faults = 0

Tick ==
  /\ clock < MaxTime
  /\ clock' = clock + 1
  /\ UNCHANGED <<events, tables, late, local, runs, faults>>

(* Event processing stores rows in any order, late ones and conflicting    *)
(* ones included, and removes none.                                        *)
EventStored(e) ==
  /\ stored' = stored \cup {e}
  /\ shown' = shown \cup visible'
  /\ UNCHANGED <<clock, tables, late, local, runs, faults>>

LoadSnapshot(S) ==
  /\ Load("suppliers", S)
  /\ UNCHANGED <<clock, events, late, local, runs, faults>>

LoadSnapshotFails(S) ==
  /\ Fault
  /\ FailedLoad("suppliers", S)
  /\ UNCHANGED <<clock, events, tables, local, runs>>

------------------------------------------------------------------------------
(* A batch, call by call.                                                  *)

Goto(p, call) == pc' = [pc EXCEPT ![p] = call]

(* run() is over, and its locals with it.                                  *)
Leave(p) ==
  /\ pc'     = [pc     EXCEPT ![p] = "idle"]
  /\ at'     = [at     EXCEPT ![p] = 0]
  /\ roster' = [roster EXCEPT ![p] = {}]
  /\ batch'  = [batch  EXCEPT ![p] = {}]
  /\ known'  = [known  EXCEPT ![p] = {}]

(* Variant: the assessment time is rounded up.                             *)
BeginAhead(p) ==
  /\ pc[p] = "idle"
  /\ runs < MaxRuns
  /\ runs' = runs + 1
  /\ Goto(p, "suppliers")
  /\ at' = [at EXCEPT ![p] = clock + 1]
  /\ known' = [known EXCEPT ![p] = visible]
  /\ UNCHANGED <<clock, events, tables, late, roster, batch, faults>>

Begin(p) ==
  /\ pc[p] = "idle"
  /\ runs < MaxRuns
  /\ runs' = runs + 1
  /\ Goto(p, "suppliers")
  /\ at' = [at EXCEPT ![p] = clock]
  /\ known' = [known EXCEPT ![p] = visible]
  /\ UNCHANGED <<clock, events, tables, late, roster, batch, faults>>

ReadSuppliers(p) ==
  /\ pc[p] = "suppliers"
  /\ roster' = [roster EXCEPT ![p] = suppliers]
  /\ Goto(p, "events")
  /\ UNCHANGED <<clock, events, tables, late, at, batch, known, runs, faults>>

(* The engine runs between two calls, on what they returned.               *)
ReadEvents(p) ==
  /\ pc[p] = "events"
  /\ batch' = [batch EXCEPT ![p] = {Assess(s, EventsRead(at[p]), at[p]) : s \in roster[p]}]
  /\ Goto(p, "append")
  /\ UNCHANGED <<clock, events, tables, late, at, roster, known, runs, faults>>

AppendHistory(p) ==
  /\ pc[p] = "append"
  /\ Load("history", batch[p])
  /\ Goto(p, "replace")
  /\ UNCHANGED <<clock, events, late, at, roster, batch, known, runs, faults>>

ReplaceCurrent(p) ==
  /\ pc[p] = "replace"
  /\ Load("current", batch[p])
  /\ Leave(p)
  /\ UNCHANGED <<clock, events, late, runs, faults>>

(* Variant: a history load that raises is passed over.                     *)
AbortGoingOn(p) ==
  /\ Fault
  /\ \/ /\ pc[p] \in {"suppliers", "events"}
        /\ Leave(p)
        /\ UNCHANGED late
     \/ /\ pc[p] = "append"
        /\ FailedLoad("history", batch[p])
        /\ Goto(p, "replace")
        /\ UNCHANGED <<at, roster, batch, known>>
     \/ /\ pc[p] = "replace"
        /\ FailedLoad("current", batch[p])
        /\ Leave(p)
  /\ UNCHANGED <<clock, events, tables, runs>>

(* A call raises, an event or supplier row does not parse, or the process  *)
(* dies: the rest of the batch is not run.                                 *)
Abort(p) ==
  /\ Fault
  /\ \/ pc[p] \in {"suppliers", "events"} /\ UNCHANGED late
     \/ pc[p] = "append"  /\ FailedLoad("history", batch[p])
     \/ pc[p] = "replace" /\ FailedLoad("current", batch[p])
  /\ Leave(p)
  /\ UNCHANGED <<clock, events, tables, runs>>

Next ==
  \/ Tick
  \/ \E e \in Event : EventStored(e)
  \/ \E S \in Snapshot : LoadSnapshot(S) \/ LoadSnapshotFails(S)
  \/ \E p \in Process : \/ Begin(p) \/ ReadSuppliers(p) \/ ReadEvents(p)
                        \/ AppendHistory(p) \/ ReplaceCurrent(p) \/ Abort(p)
  \/ \E j \in late : LateCommit(j)

Spec == Init /\ [][Next]_vars

------------------------------------------------------------------------------
(* Properties.                                                             *)

(* The MART tables behave as RiskMart says: whatever fails, overlaps or    *)
(* commits late, readers of supplier_risk_current see one whole batch that *)
(* the history holds too.  (docs/data/risk-mart.md, Batch Consistency)     *)
ImplementsRiskMart == MartSpec

(* The events that count in an assessment of s at time t, as the model of  *)
(* risk states it: by family, over that family's window.                   *)
Counts(s, e, t) ==
  /\ <<s, e>> \in Concerns
  /\ InWindow(e, t - Lookback[FamilyOf[e]], t)

(* Every key of r's evidence has a version that counts and that the view   *)
(* shows or has shown.                                                     *)
Attested(r) ==
  \A k \in r.evidence : \E e \in shown : KeyOf[e] = k /\ Counts(r.supplier, e, r.at)

(* The evidence of every stored assessment is attested; and a batch about  *)
(* to be written has missed nothing that counts, was visible when it began *)
(* and still is: the query's one bound never cuts off what the engine's    *)
(* two windows look for, and an event cannot have been withheld by the     *)
(* view in between, just when the batch read it.                           *)
EvidenceIsWhole ==
  /\ \A B \in history : \A r \in B : Attested(r)
  /\ \A p \in Process : pc[p] \in {"append", "replace"} =>
        \A r \in batch[p] : \A e \in known[p] \cap visible :
           Counts(r.supplier, e, r.at) => KeyOf[e] \in r.evidence

(* An assessment in supplier_risk_current is never followed by an older    *)
(* one: "the latest completed risk assessment snapshot"                    *)
(* (docs/data/risk-mart.md:9).                                             *)
CurrentNeverGoesBack ==
  [][\A r \in current, q \in current' : q.at >= r.at]_vars

------------------------------------------------------------------------------
(* What the proofs add to make the properties inductive.                   *)

(* Every set of rows in the history or on its way there is a whole batch,  *)
(* and one that may reach supplier_risk_current is in the history already.        *)
Ordered ==
  /\ suppliers \in Snapshot \cup {{}}
  /\ history \subseteq Batch
  /\ \A p \in Process :
        /\ roster[p] \in Snapshot \cup {{}}
        /\ batch[p] \in Batch \cup {{}}
        /\ pc[p] = "replace" => batch[p] \in history \cup {{}}
  /\ \A j \in late : /\ j.table = "history" => j.rows \in Batch
                     /\ j.table = "current" => j.rows \in history

(* So is every set of attested rows; and what a batch found when it began  *)
(* is stored, which bounds what the view can have shown since.             *)
Remembered ==
  /\ \A p \in Process : \A r \in batch[p] : Attested(r)
  /\ \A j \in late : j.table = "history" => \A r \in j.rows : Attested(r)
  /\ \A p \in Process : known[p] \subseteq stored
  /\ visible \subseteq shown

BatchInv == TypeOK /\ Ordered /\ Remembered /\ EvidenceIsWhole

==============================================================================
