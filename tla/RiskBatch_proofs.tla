--------------------------- MODULE RiskBatch_proofs ---------------------------
(***************************************************************************)
(* Theorems about RiskBatch, for every set of suppliers, events and        *)
(* processes, all windows and any number of batches and failures.          *)
(*                                                                         *)
(* BatchInv is inductive.  Its three parts are proved one after the other: *)
(* types, then where each set of rows stands (Ordered), then what the rows *)
(* say (Remembered and EvidenceIsWhole).                                   *)
(***************************************************************************)
EXTENDS RiskBatch, TLAPS

-------------------------------------------------------------------------------
(* The CORE view.                                                          *)

LEMMA CoreOfKey ==
  \A rows, e : e \in Core!CoreOfRows(rows) <=>
    /\ e \in rows
    /\ \/ ~Core!HasRevision(e) /\ \A u \in rows : u = e
       \/ /\ \A u \in rows : Core!HasRevision(u)
          /\ \A u \in rows : u = e \/ Core!Newer(e, u)
BY DEF Core!CoreOfRows, Core!UnversionedWinner, Core!RevisionedWinner

LEMMA ViewMeaning ==
  \A rows, e : e \in CoreView(rows) <=>
    \E k \in Key : e \in Core!CoreOfRows({f \in rows : KeyOf[f] = k})
<1> TAKE rows, e
<1> DEFINE V(k) == Core!CoreOfRows({f \in rows : KeyOf[f] = k})
<1>1. CoreView(rows) = UNION {V(k) : k \in Key}
  BY DEF CoreView
<1> HIDE DEF V
<1>2. e \in CoreView(rows) <=> \E k \in Key : e \in V(k)
  BY <1>1
<1> QED
  BY <1>2 DEF V

LEMMA ViewOfRows == \A rows : CoreView(rows) \subseteq rows
<1> SUFFICES ASSUME NEW rows, NEW e \in CoreView(rows)
             PROVE  e \in rows
  OBVIOUS
<1>1. PICK k \in Key : e \in Core!CoreOfRows({f \in rows : KeyOf[f] = k})
  BY ViewMeaning
<1> QED
  BY <1>1, CoreOfKey

(* More rows never bring back a version that the view has withdrawn: what  *)
(* it shows among them, it showed among fewer.                             *)
LEMMA FewerRows ==
  \A rows, more : rows \subseteq more => CoreView(more) \cap rows \subseteq CoreView(rows)
<1> SUFFICES ASSUME NEW rows, NEW more, rows \subseteq more,
                    NEW e \in CoreView(more), e \in rows
             PROVE  e \in CoreView(rows)
  OBVIOUS
<1>1. PICK k \in Key : e \in Core!CoreOfRows({f \in more : KeyOf[f] = k})
  BY ViewMeaning
<1>2. e \in Core!CoreOfRows({f \in rows : KeyOf[f] = k})
  BY <1>1, CoreOfKey
<1> QED
  BY <1>2, ViewMeaning

(* What a step does to the view.                                           *)
LEMMA ViewStep ==
  [Next]_vars =>
    /\ stored \subseteq stored' /\ shown \subseteq shown'
    /\ visible' \cap stored \subseteq visible
    /\ visible \subseteq shown => visible' \subseteq shown'
<1> SUFFICES ASSUME [Next]_vars
             PROVE  /\ stored \subseteq stored' /\ shown \subseteq shown'
                    /\ visible' \cap stored \subseteq visible
                    /\ visible \subseteq shown => visible' \subseteq shown'
  OBVIOUS
<1>1. \/ UNCHANGED events
      \/ \E e \in Event : EventStored(e)
  BY DEF Next, vars, events, Tick, LoadSnapshot, LoadSnapshotFails, Begin, ReadSuppliers,
         ReadEvents, AppendHistory, ReplaceCurrent, Abort, LateCommit
<1>2. \/ UNCHANGED events
      \/ stored \subseteq stored' /\ shown' = shown \cup visible'
  BY <1>1 DEF EventStored
<1>3. CASE UNCHANGED events
  BY <1>3 DEF events, visible
<1>4. CASE stored \subseteq stored' /\ shown' = shown \cup visible'
  BY <1>4, FewerRows DEF visible
<1> QED
  BY <1>2, <1>3, <1>4

-------------------------------------------------------------------------------
(* The engine.                                                             *)

(* The query over the longer window and the two scans of the engine find   *)
(* exactly the visible events that count.                                  *)
LEMMA EvidenceMeaning ==
  TypeOK => \A s \in Supplier, t \in Time :
              Evidence(s, EventsRead(t), t) = {e \in visible : Counts(s, e, t)}
<1> SUFFICES ASSUME TypeOK, NEW s \in Supplier, NEW t \in Time,
                    NEW e \in Event, e \in visible
             PROVE  e \in Evidence(s, EventsRead(t), t) <=> Counts(s, e, t)
  BY ViewOfRows DEF visible, TypeOK, Evidence, EventsRead, FamilyEvidence
<1>1. /\ t \in Int /\ OccurredAt[e] \in Int
      /\ FamilyOf[e] \in Family
      /\ Lookback["weather"] \in Nat /\ Lookback["seismic"] \in Nat
  BY BatchAssumption DEF Time, Family
<1>2. LongestLookback \in Nat /\ Lookback[FamilyOf[e]] <= LongestLookback
  BY <1>1 DEF LongestLookback, Family
<1>3. e \in Evidence(s, EventsRead(t), t) <=>
        /\ InWindow(e, t - LongestLookback, t)
        /\ InWindow(e, t - Lookback[FamilyOf[e]], t)
        /\ <<s, e>> \in Concerns
  BY <1>1 DEF Evidence, EventsRead, FamilyEvidence, Family
<1>4. InWindow(e, t - Lookback[FamilyOf[e]], t) => InWindow(e, t - LongestLookback, t)
  BY <1>1, <1>2 DEF InWindow, Family
<1> QED
  BY <1>3, <1>4 DEF Counts

(* A batch assesses its whole list at one time.                            *)
LEMMA AssessmentIsBatch ==
  \A S \in Snapshot, t \in Time, E \in SUBSET Event :
     {Assess(s, E, t) : s \in S} \in Batch
<1> SUFFICES ASSUME NEW S \in Snapshot, NEW t \in Time, NEW E \in SUBSET Event
             PROVE  {Assess(s, E, t) : s \in S} \in Batch
  OBVIOUS
<1> DEFINE ev == [s \in S |-> {KeyOf[e] : e \in Evidence(s, E, t)}]
<1>1. ev \in [S -> SUBSET Key]
  <2> SUFFICES ASSUME NEW s \in S
               PROVE  {KeyOf[e] : e \in Evidence(s, E, t)} \in SUBSET Key
    OBVIOUS
  <2>1. Evidence(s, E, t) \subseteq Event
    BY DEF Evidence, FamilyEvidence
  <2> QED
    BY <2>1, BatchAssumption
<1>2. BatchOf(S, t, ev) = {Assess(s, E, t) : s \in S}
  BY DEF BatchOf, Assess
<1> HIDE DEF ev
<1> DEFINE All(R, u) == {BatchOf(R, u, f) : f \in [R -> SUBSET Key]}
<1>3. BatchOf(S, t, ev) \in All(S, t)
  BY <1>1
<1>4. Batch = UNION {All(R, u) : R \in Snapshot, u \in Time}
  BY DEF Batch
<1> HIDE DEF All
<1>5. BatchOf(S, t, ev) \in Batch
  BY <1>3, <1>4
<1> QED
  BY <1>2, <1>5

LEMMA BatchRows == \A B \in Batch \cup {{}} : B \subseteq Row
<1> SUFFICES ASSUME NEW S \in Snapshot, NEW t \in Time, NEW ev \in [S -> SUBSET Key],
                    NEW s \in S
             PROVE  [supplier |-> s, at |-> t, evidence |-> ev[s]] \in Row
  BY DEF Batch, BatchOf
<1> QED
  BY BatchAssumption DEF Row

-------------------------------------------------------------------------------
(* Types.                                                                  *)

LEMMA TypeInit == Init => TypeOK
BY BatchAssumption DEF Init, MartInit, TypeOK, Time, Call

LEMMA TypeStep == TypeOK /\ [Next]_vars => TypeOK'
<1> SUFFICES ASSUME TypeOK, [Next]_vars
             PROVE  TypeOK'
  OBVIOUS
<1> USE DEF TypeOK, Call, local, events, tables, Load, Commit, Goto, Leave
<1>0. MaxTime \in Nat /\ MaxRuns \in Nat /\ MaxFaults \in Nat
  BY BatchAssumption
<1>f. Fault => faults' \in 0..MaxFaults
  BY <1>0 DEF Fault
<1>j. \A rows \in SUBSET Row :
        /\ [table |-> "history", rows |-> rows] \in Job
        /\ [table |-> "current", rows |-> rows] \in Job
  BY DEF Job
<1>1. ASSUME Tick
      PROVE  TypeOK'
  BY <1>0, <1>1 DEF Tick, Time
<1>2. ASSUME NEW e \in Event, EventStored(e)
      PROVE  TypeOK'
  <2>1. stored' \subseteq Event
    BY <1>2 DEF EventStored
  <2>2. visible' \subseteq stored'
    BY ViewOfRows DEF visible
  <2> QED
    BY <1>2, <2>1, <2>2 DEF EventStored
<1>3. ASSUME NEW S \in Snapshot, LoadSnapshot(S)
      PROVE  TypeOK'
  BY <1>3, BatchAssumption DEF LoadSnapshot
<1>4. ASSUME NEW S \in Snapshot, LoadSnapshotFails(S)
      PROVE  TypeOK'
  BY <1>4, <1>f DEF LoadSnapshotFails, FailedLoad, Job
<1>5. ASSUME NEW p \in Process, Begin(p)
      PROVE  TypeOK'
  BY <1>0, <1>5, ViewOfRows DEF Begin, visible
<1>6. ASSUME NEW p \in Process, ReadSuppliers(p)
      PROVE  TypeOK'
  BY <1>6 DEF ReadSuppliers
<1>7. ASSUME NEW p \in Process, ReadEvents(p)
      PROVE  TypeOK'
  <2> DEFINE rows == {Assess(s, EventsRead(at[p]), at[p]) : s \in roster[p]}
  <2>1. ASSUME NEW s \in Supplier
        PROVE  Assess(s, EventsRead(at[p]), at[p]) \in Row
    <3>1. Evidence(s, EventsRead(at[p]), at[p]) \subseteq Event
      BY ViewOfRows DEF visible, Evidence, FamilyEvidence, EventsRead
    <3> QED
      BY <3>1, BatchAssumption DEF Assess, Row
  <2>2. rows \subseteq Row
    BY <2>1
  <2> HIDE DEF rows
  <2>3. batch' = [batch EXCEPT ![p] = rows]
    BY <1>7 DEF ReadEvents, rows
  <2> QED
    BY <1>7, <2>2, <2>3 DEF ReadEvents
<1>8. ASSUME NEW p \in Process, AppendHistory(p)
      PROVE  TypeOK'
  BY <1>8 DEF AppendHistory
<1>9. ASSUME NEW p \in Process, ReplaceCurrent(p)
      PROVE  TypeOK'
  BY <1>9, <1>0 DEF ReplaceCurrent, Time
<1>10. ASSUME NEW p \in Process, Abort(p)
       PROVE  TypeOK'
  <2> DEFINE rows == batch[p]
  <2>0. rows \subseteq Row
    OBVIOUS
  <2>a. \/ late' = late
        \/ late' = late \cup {[table |-> "history", rows |-> rows]}
        \/ late' = late \cup {[table |-> "current", rows |-> rows]}
    BY <1>10 DEF Abort, FailedLoad
  <2>b. /\ [table |-> "history", rows |-> rows] \in Job
        /\ [table |-> "current", rows |-> rows] \in Job
    BY <2>0, <1>j
  <2>1. late' \subseteq Job
    BY <2>a, <2>b, Zenon
  <2> QED
    BY <1>10, <1>0, <1>f, <2>1 DEF Abort, Time
<1>11. ASSUME NEW j \in late, LateCommit(j)
       PROVE  TypeOK'
  <2>1. j \in Job
    OBVIOUS
  <2>2. /\ j.table = "suppliers" => j.rows \in Snapshot
        /\ j.table \in {"history", "current"} => j.rows \subseteq Row
    BY <2>1 DEF Job
  <2> QED
    BY <1>11, <2>2, BatchAssumption DEF LateCommit
<1>12. CASE UNCHANGED vars
  BY <1>12 DEF vars
<1> QED
  BY <1>1, <1>2, <1>3, <1>4, <1>5, <1>6, <1>7, <1>8, <1>9, <1>10, <1>11, <1>12 DEF Next

(* Every reachable state is well typed.                                    *)
THEOREM TypeCorrect == Spec => []TypeOK
BY TypeInit, TypeStep, PTL DEF Spec

-------------------------------------------------------------------------------
(* Where the sets of rows stand.                                           *)

LEMMA OrderedStep == TypeOK /\ Ordered /\ [Next]_vars => Ordered'
<1> SUFFICES ASSUME TypeOK, Ordered, [Next]_vars
             PROVE  Ordered'
  OBVIOUS
<1> USE DEF Ordered, local, tables
<1>t. /\ pc \in [Process -> Call \cup {"idle"}]
      /\ roster \in [Process -> SUBSET Supplier]
      /\ batch \in [Process -> SUBSET Row]
  BY DEF TypeOK
<1>1. CASE Tick
  BY <1>1 DEF Tick
<1>2. ASSUME NEW e \in Event, EventStored(e)
      PROVE  Ordered'
  BY <1>2 DEF EventStored
<1>3. ASSUME NEW S \in Snapshot, LoadSnapshot(S)
      PROVE  Ordered'
  BY <1>3 DEF LoadSnapshot, Load, Commit
<1>4. ASSUME NEW S \in Snapshot, LoadSnapshotFails(S)
      PROVE  Ordered'
  BY <1>4 DEF LoadSnapshotFails, FailedLoad
<1>5. ASSUME NEW p \in Process, Begin(p)
      PROVE  Ordered'
  BY <1>t, <1>5 DEF Begin, Goto
<1>6. ASSUME NEW p \in Process, ReadSuppliers(p)
      PROVE  Ordered'
  BY <1>t, <1>6 DEF ReadSuppliers, Goto
<1>7. ASSUME NEW p \in Process, ReadEvents(p)
      PROVE  Ordered'
  <2> DEFINE rows == {Assess(s, EventsRead(at[p]), at[p]) : s \in roster[p]}
  <2>1. rows \in Batch \cup {{}}
    <3>1. at[p] \in Time /\ EventsRead(at[p]) \in SUBSET Event
      BY ViewOfRows DEF visible, TypeOK, EventsRead
    <3>2. CASE roster[p] = {}
      BY <3>2
    <3>3. CASE roster[p] \in Snapshot
      BY <3>1, <3>3, AssessmentIsBatch
    <3> QED
      BY <3>2, <3>3
  <2> HIDE DEF rows
  <2>2. batch' = [batch EXCEPT ![p] = rows]
    BY <1>7 DEF ReadEvents, rows
  <2> QED
    BY <1>t, <1>7, <2>1, <2>2 DEF ReadEvents, Goto
<1>8. ASSUME NEW p \in Process, AppendHistory(p)
      PROVE  Ordered'
  <2>1. /\ batch[p] \in history' \cup {{}}
        /\ history \subseteq history' /\ history' \subseteq Batch
    BY <1>8 DEF AppendHistory, Load, Commit
  <2>2. suppliers' = suppliers
    BY <1>8 DEF AppendHistory, Load, Commit
  <2> QED
    BY <1>t, <1>8, <2>1, <2>2 DEF AppendHistory, Goto
<1>9. ASSUME NEW p \in Process, ReplaceCurrent(p)
      PROVE  Ordered'
  <2>1. history' = history /\ suppliers' = suppliers
    BY <1>9 DEF ReplaceCurrent, Load, Commit
  <2> QED
    BY <1>t, <1>9, <2>1 DEF ReplaceCurrent, Leave
<1>10. ASSUME NEW p \in Process, Abort(p)
       PROVE  Ordered'
  <2>1. \A j \in late' : /\ j.table = "history" => j.rows \in Batch
                         /\ j.table = "current" => j.rows \in history
    BY <1>10 DEF Abort, FailedLoad
  <2> QED
    BY <1>t, <1>10, <2>1 DEF Abort, Leave
<1>11. ASSUME NEW j \in late, LateCommit(j)
       PROVE  Ordered'
  <2>1. j.table = "suppliers" => j.rows \in Snapshot
    BY DEF TypeOK, Job
  <2>2. /\ history \subseteq history' /\ history' \subseteq Batch
        /\ suppliers' \in Snapshot \cup {{}}
    BY <1>11, <2>1 DEF LateCommit, Commit
  <2> QED
    BY <1>11, <2>2 DEF LateCommit
<1>12. CASE UNCHANGED vars
  BY <1>12 DEF vars
<1> QED
  BY <1>1, <1>2, <1>3, <1>4, <1>5, <1>6, <1>7, <1>8, <1>9, <1>10, <1>11, <1>12 DEF Next

LEMMA OrderedInit == Init => Ordered
BY DEF Init, MartInit, Ordered

(* Each step appends a whole batch, shows one the history has, or touches  *)
(* neither MART table.                                                     *)
LEMMA MartStep == TypeOK /\ Ordered /\ [Next]_vars => [MartNext]_mart
<1> SUFFICES ASSUME TypeOK, Ordered, [Next]_vars
             PROVE  MartNext \/ UNCHANGED mart
  BY DEF mart
<1> USE DEF mart, tables
<1>1. ASSUME NEW p \in Process, AppendHistory(p)
      PROVE  MartNext \/ UNCHANGED mart
  <2>1. CASE batch[p] = {}
    BY <1>1, <2>1 DEF AppendHistory, Load
  <2>2. CASE batch[p] # {}
    <3>1. batch[p] \in Batch
      BY <2>2 DEF Ordered
    <3>2. Publish(batch[p])
      BY <1>1, <2>2, <3>1 DEF AppendHistory, Load, Commit, Publish
    <3> QED
      BY <3>1, <3>2 DEF MartNext
  <2> QED
    BY <2>1, <2>2
<1>2. ASSUME NEW p \in Process, ReplaceCurrent(p)
      PROVE  MartNext \/ UNCHANGED mart
  <2>1. CASE batch[p] = {}
    BY <1>2, <2>1 DEF ReplaceCurrent, Load
  <2>2. CASE batch[p] # {}
    <3>1. batch[p] \in Batch /\ batch[p] \in history
      BY <1>2, <2>2 DEF Ordered, ReplaceCurrent
    <3>2. Show(batch[p])
      BY <1>2, <2>2, <3>1 DEF ReplaceCurrent, Load, Commit, Show
    <3> QED
      BY <3>1, <3>2 DEF MartNext
  <2> QED
    BY <2>1, <2>2
<1>3. ASSUME NEW j \in late, LateCommit(j)
      PROVE  MartNext \/ UNCHANGED mart
  <2>1. CASE j.table = "history"
    <3>1. j.rows \in Batch /\ Publish(j.rows)
      BY <1>3, <2>1 DEF Ordered, LateCommit, Commit, Publish
    <3> QED
      BY <3>1 DEF MartNext
  <2>2. CASE j.table = "current"
    <3>1. j.rows \in Batch /\ Show(j.rows)
      BY <1>3, <2>2 DEF Ordered, LateCommit, Commit, Show
    <3> QED
      BY <3>1 DEF MartNext
  <2>3. CASE j.table \notin {"history", "current"}
    BY <1>3, <2>3 DEF LateCommit, Commit
  <2> QED
    BY <2>1, <2>2, <2>3
<1>4. ASSUME NEW S \in Snapshot, LoadSnapshot(S) \/ LoadSnapshotFails(S)
      PROVE  UNCHANGED mart
  BY <1>4 DEF LoadSnapshot, LoadSnapshotFails, Load, Commit
<1>5. ASSUME NEW p \in Process,
             Begin(p) \/ ReadSuppliers(p) \/ ReadEvents(p) \/ Abort(p)
      PROVE  UNCHANGED mart
  BY <1>5 DEF Begin, ReadSuppliers, ReadEvents, Abort
<1>6. ASSUME NEW e \in Event, EventStored(e)
      PROVE  UNCHANGED mart
  BY <1>6 DEF EventStored
<1>7. CASE Tick
  BY <1>7 DEF Tick
<1>8. CASE UNCHANGED vars
  BY <1>8 DEF vars
<1> QED
  BY <1>1, <1>2, <1>3, <1>4, <1>5, <1>6, <1>7, <1>8 DEF Next

(* Whatever fails, overlaps or commits late, history gains whole batches   *)
(* only, and supplier_risk_current is always one of them or empty.         *)
THEOREM MartImplemented == Spec => ImplementsRiskMart
<1>1. Init => MartInit
  BY DEF Init
<1> QED
  BY <1>1, TypeInit, TypeStep, OrderedInit, OrderedStep, MartStep, PTL
     DEF Spec, ImplementsRiskMart, MartSpec

-------------------------------------------------------------------------------
(* What the rows say.                                                      *)

LEMMA AttestedStays ==
  [Next]_vars => \A r : Attested(r) => Attested(r)'
<1> SUFFICES ASSUME [Next]_vars, NEW r, Attested(r), NEW k \in r.evidence
             PROVE  \E e \in shown' : KeyOf[e] = k /\ Counts(r.supplier, e, r.at)
  BY DEF Attested, Counts, InWindow
<1> QED
  BY ViewStep DEF Attested

(* What a step does to one process.                                        *)
LEMMA LocalStep ==
  TypeOK /\ [Next]_vars => \A q \in Process :
    \/ /\ batch'[q] = batch[q] /\ known'[q] = known[q]
       /\ pc'[q] \in {"append", "replace"} => pc[q] \in {"append", "replace"}
    \/ batch'[q] = {} /\ known'[q] = {}
    \/ /\ batch'[q] = batch[q] /\ known'[q] = visible /\ stored' = stored
       /\ pc'[q] = "suppliers"
    \/ ReadEvents(q)
<1> SUFFICES ASSUME TypeOK, [Next]_vars, NEW q \in Process, ~ReadEvents(q)
             PROVE  \/ /\ batch'[q] = batch[q] /\ known'[q] = known[q]
                       /\ pc'[q] \in {"append", "replace"} => pc[q] \in {"append", "replace"}
                    \/ batch'[q] = {} /\ known'[q] = {}
                    \/ /\ batch'[q] = batch[q] /\ known'[q] = visible /\ stored' = stored
                       /\ pc'[q] = "suppliers"
  OBVIOUS
<1> DEFINE Stays == /\ batch'[q] = batch[q] /\ known'[q] = known[q]
                    /\ pc'[q] \in {"append", "replace"} => pc[q] \in {"append", "replace"}
<1>t. /\ pc \in [Process -> Call \cup {"idle"}]
      /\ batch \in [Process -> SUBSET Row]
      /\ known \in [Process -> SUBSET Event]
  BY DEF TypeOK
<1>1. ASSUME NEW p \in Process, Begin(p)
      PROVE  \/ Stays
             \/ /\ batch'[q] = batch[q] /\ known'[q] = visible /\ stored' = stored
                /\ pc'[q] = "suppliers"
  BY <1>t, <1>1 DEF Begin, Goto, events
<1>2. ASSUME NEW p \in Process, ReadSuppliers(p) \/ ReadEvents(p) \/ AppendHistory(p)
      PROVE  Stays
  BY <1>t, <1>2 DEF ReadSuppliers, ReadEvents, AppendHistory, Goto
<1>3. ASSUME NEW p \in Process, ReplaceCurrent(p) \/ Abort(p)
      PROVE  Stays \/ (batch'[q] = {} /\ known'[q] = {})
  BY <1>t, <1>3 DEF ReplaceCurrent, Abort, Leave
<1>4. CASE UNCHANGED local
  BY <1>4 DEF local
<1>5. \/ UNCHANGED local
      \/ \E p \in Process : \/ Begin(p) \/ ReadSuppliers(p) \/ ReadEvents(p)
                            \/ AppendHistory(p) \/ ReplaceCurrent(p) \/ Abort(p)
  BY DEF Next, vars, Tick, EventStored, LoadSnapshot, LoadSnapshotFails, LateCommit
<1> QED
  BY <1>1, <1>2, <1>3, <1>4, <1>5

(* The rows that a step brings to the history, or leaves to a late job for *)
(* it, come from a batch or from a late job.                               *)
LEMMA RowsStep ==
  TypeOK /\ [Next]_vars =>
    /\ \A B \in history' :
         \/ B \in history
         \/ \E p \in Process : B = batch[p]
         \/ \E j \in late : j.table = "history" /\ B = j.rows
    /\ \A j \in late' : j.table = "history" =>
         j \in late \/ \E p \in Process : j.rows = batch[p]
<1> HAVE TypeOK /\ [Next]_vars
<1> DEFINE Appended == \A B \in history' :
                         \/ B \in history
                         \/ \E p \in Process : B = batch[p]
                         \/ \E j \in late : j.table = "history" /\ B = j.rows
           Waiting  == \A j \in late' : j.table = "history" =>
                         j \in late \/ \E p \in Process : j.rows = batch[p]
<1>1. ASSUME NEW p \in Process, AppendHistory(p)
      PROVE  Appended /\ Waiting
  BY <1>1 DEF AppendHistory, Load, Commit, tables
<1>2. ASSUME NEW p \in Process, ReplaceCurrent(p)
      PROVE  Appended /\ Waiting
  BY <1>2 DEF ReplaceCurrent, Load, Commit, tables
<1>3. ASSUME NEW p \in Process, Abort(p)
      PROVE  Appended /\ Waiting
  BY <1>3 DEF Abort, FailedLoad, tables
<1>4. ASSUME NEW p \in Process, Begin(p) \/ ReadSuppliers(p) \/ ReadEvents(p)
      PROVE  Appended /\ Waiting
  BY <1>4 DEF Begin, ReadSuppliers, ReadEvents, tables
<1>5. ASSUME NEW S \in Snapshot, LoadSnapshot(S)
      PROVE  Appended /\ Waiting
  BY <1>5 DEF LoadSnapshot, Load, Commit, tables
<1>6. ASSUME NEW S \in Snapshot, LoadSnapshotFails(S)
      PROVE  Appended /\ Waiting
  BY <1>6 DEF LoadSnapshotFails, FailedLoad, tables
<1>7. ASSUME NEW j \in late, LateCommit(j)
      PROVE  Appended /\ Waiting
  BY <1>7 DEF LateCommit, Commit
<1>8. ASSUME Tick \/ UNCHANGED vars \/ \E e \in Event : EventStored(e)
      PROVE  Appended /\ Waiting
  BY <1>8 DEF Tick, EventStored, vars, tables
<1> HIDE DEF Appended, Waiting
<1>9. Appended /\ Waiting
  BY <1>1, <1>2, <1>3, <1>4, <1>5, <1>6, <1>7, <1>8 DEF Next
<1> QED
  BY <1>9 DEF Appended, Waiting

(* The rows computed in a step are attested and have missed nothing.       *)
LEMMA RowsComputed ==
  ASSUME TypeOK, visible \subseteq shown, NEW p \in Process, ReadEvents(p)
  PROVE  \A r \in batch'[p] :
           /\ Attested(r)
           /\ \A e \in visible : Counts(r.supplier, e, r.at) => KeyOf[e] \in r.evidence
<1> DEFINE E == EventsRead(at[p])
<1>1. batch'[p] = {Assess(s, E, at[p]) : s \in roster[p]}
  BY DEF ReadEvents, TypeOK
<1> SUFFICES ASSUME NEW s \in roster[p]
             PROVE  LET r == Assess(s, E, at[p])
                    IN  /\ Attested(r)
                        /\ \A e \in visible :
                              Counts(r.supplier, e, r.at) => KeyOf[e] \in r.evidence
  BY <1>1
<1>2. s \in Supplier /\ at[p] \in Time
  BY DEF TypeOK
<1>3. Evidence(s, E, at[p]) = {e \in visible : Counts(s, e, at[p])}
  BY <1>2, EvidenceMeaning
<1> DEFINE r == Assess(s, E, at[p])
<1>4. /\ r.supplier = s /\ r.at = at[p]
      /\ r.evidence = {KeyOf[e] : e \in {f \in visible : Counts(s, f, at[p])}}
  BY <1>3 DEF Assess
<1> HIDE DEF r
<1>5. Attested(r)
  BY <1>4 DEF Attested
<1>6. \A e \in visible : Counts(r.supplier, e, r.at) => KeyOf[e] \in r.evidence
  BY <1>4
<1> QED
  BY <1>5, <1>6 DEF r

LEMMA EvidenceStep ==
  TypeOK /\ Remembered /\ EvidenceIsWhole /\ [Next]_vars => (Remembered /\ EvidenceIsWhole)'
<1> SUFFICES ASSUME TypeOK, Remembered, EvidenceIsWhole, [Next]_vars
             PROVE  (Remembered /\ EvidenceIsWhole)'
  OBVIOUS
<1>1. \A r : Attested(r) => Attested(r)'
  BY AttestedStays
<1>2. ASSUME NEW p \in Process, NEW r \in batch'[p]
      PROVE  Attested(r)'
  BY <1>1, <1>2, LocalStep, RowsComputed DEF Remembered
<1>3. ASSUME NEW j \in late', j.table = "history", NEW r \in j.rows
      PROVE  Attested(r)'
  BY <1>1, <1>3, RowsStep DEF Remembered
<1>4. ASSUME NEW B \in history', NEW r \in B
      PROVE  Attested(r)'
  BY <1>1, <1>4, RowsStep DEF Remembered, EvidenceIsWhole
<1>5. visible' \subseteq shown'
  BY ViewStep DEF Remembered
<1>6. ASSUME NEW p \in Process
      PROVE  known'[p] \subseteq stored'
  <2>1. ReadEvents(p) => known'[p] = known[p]
    BY DEF ReadEvents
  <2> QED
    BY <2>1, LocalStep, ViewStep, ViewOfRows DEF visible, Remembered
<1>7. ASSUME NEW p \in Process, pc'[p] \in {"append", "replace"}, NEW r \in batch'[p],
             NEW e \in known'[p] \cap visible', Counts(r.supplier, e, r.at)
      PROVE  KeyOf[e] \in r.evidence
  <2>1. CASE ReadEvents(p)
    <3>1. visible' = visible
      BY <2>1 DEF ReadEvents, events, visible
    <3> QED
      BY <1>7, <2>1, <3>1, RowsComputed DEF Remembered
  <2>2. CASE /\ batch'[p] = batch[p] /\ known'[p] = known[p]
             /\ pc'[p] \in {"append", "replace"} => pc[p] \in {"append", "replace"}
    <3>1. e \in visible
      BY <1>7, <2>2, ViewStep DEF Remembered
    <3> QED
      BY <1>7, <2>2, <3>1 DEF EvidenceIsWhole
  <2> QED
    BY <1>7, <2>1, <2>2, LocalStep
<1> QED
  BY <1>2, <1>3, <1>4, <1>5, <1>6, <1>7 DEF Remembered, EvidenceIsWhole

LEMMA EvidenceInit == Init => Remembered /\ EvidenceIsWhole
BY ViewOfRows DEF visible, Init, MartInit, Remembered, EvidenceIsWhole

(* BatchInv holds in every reachable state.                                *)
THEOREM InvCorrect == Spec => []BatchInv
<1>1. Init => BatchInv
  BY TypeInit, OrderedInit, EvidenceInit DEF BatchInv
<1>2. BatchInv /\ [Next]_vars => BatchInv'
  BY TypeStep, OrderedStep, EvidenceStep DEF BatchInv
<1> QED
  BY <1>1, <1>2, PTL DEF Spec

(* Stored evidence always counts, and no batch misses what it should see.  *)
THEOREM EvidenceWhole == Spec => []EvidenceIsWhole
<1>1. BatchInv => EvidenceIsWhole
  BY DEF BatchInv
<1> QED
  BY <1>1, InvCorrect, PTL

-------------------------------------------------------------------------------
(* When supplier_risk_current is the latest snapshot after all.            *)

(* Batches do not overlap, and no replacement whose caller gave up waiting *)
(* is left to commit.                                                      *)
OneAtATime  == \A p, q \in Process : pc[p] # "idle" /\ pc[q] # "idle" => p = q
NothingLate == \A j \in late : j.table # "current"

(* Then a batch in progress is no older than what the table shows.         *)
InOrder ==
  /\ \A r, q \in current : r.at = q.at
  /\ \A r \in current : r.at <= clock
  /\ \A p \in Process : \A r \in batch[p] : r.at = at[p]
  /\ \A p \in Process : pc[p] = "idle" => batch[p] = {}
  /\ \A p \in Process : pc[p] # "idle" =>
        at[p] <= clock /\ \A r \in current : r.at <= at[p]

LEMMA InOrderTypes ==
  TypeOK => /\ clock \in Int
            /\ pc \in [Process -> Call \cup {"idle"}]
            /\ at \in [Process -> Int]
            /\ batch \in [Process -> SUBSET Row]
            /\ \A r \in current : r.at \in Int
BY BatchAssumption DEF TypeOK, Time, Row

(* Only the replacement of the one batch in progress changes the table.    *)
LEMMA CurrentStep ==
  ASSUME TypeOK, NothingLate, [Next]_vars
  PROVE  \/ current' = current
         \/ \E p \in Process : ReplaceCurrent(p) /\ current' = batch[p]
<1> USE DEF tables
<1>1. ASSUME NEW p \in Process, ReplaceCurrent(p)
      PROVE  current' = current \/ current' = batch[p]
  BY <1>1 DEF ReplaceCurrent, Load, Commit
<1>2. ASSUME NEW p \in Process, AppendHistory(p) \/ Abort(p) \/ Begin(p)
                                \/ ReadSuppliers(p) \/ ReadEvents(p)
      PROVE  current' = current
  BY <1>2 DEF AppendHistory, Load, Commit, Abort, Begin, ReadSuppliers, ReadEvents
<1>3. ASSUME NEW S \in Snapshot, LoadSnapshot(S) \/ LoadSnapshotFails(S)
      PROVE  current' = current
  BY <1>3 DEF LoadSnapshot, LoadSnapshotFails, Load, Commit
<1>4. ASSUME NEW j \in late, LateCommit(j)
      PROVE  current' = current
  BY <1>4 DEF LateCommit, Commit, NothingLate
<1>5. CASE Tick \/ UNCHANGED vars \/ \E e \in Event : EventStored(e)
  BY <1>5 DEF Tick, EventStored, vars
<1> QED
  BY <1>1, <1>2, <1>3, <1>4, <1>5 DEF Next

LEMMA ClockStep == ASSUME TypeOK, [Next]_vars PROVE clock' \in Int /\ clock <= clock'
BY InOrderTypes DEF Next, vars, Tick, EventStored, LoadSnapshot, LoadSnapshotFails, Begin,
                    ReadSuppliers, ReadEvents, AppendHistory, ReplaceCurrent, Abort, LateCommit

(* What a step does to the times of one process.                           *)
LEMMA BatchStep ==
  ASSUME TypeOK, [Next]_vars, NEW q \in Process
  PROVE  \/ /\ at'[q] = at[q] /\ batch'[q] = batch[q]
            /\ pc'[q] = "idle" <=> pc[q] = "idle"
         \/ batch'[q] = {} /\ pc'[q] = "idle"
         \/ /\ at'[q] = clock /\ batch'[q] = batch[q] /\ current' = current
            /\ pc[q] = "idle" /\ pc'[q] # "idle"
         \/ /\ at'[q] = at[q] /\ pc[q] # "idle" /\ pc'[q] # "idle"
            /\ \A r \in batch'[q] : r.at = at[q]
<1> DEFINE Same  == /\ at'[q] = at[q] /\ batch'[q] = batch[q]
                    /\ pc'[q] = "idle" <=> pc[q] = "idle"
           Left  == batch'[q] = {} /\ pc'[q] = "idle"
           Began == /\ at'[q] = clock /\ batch'[q] = batch[q] /\ current' = current
                    /\ pc[q] = "idle" /\ pc'[q] # "idle"
           Filled == /\ at'[q] = at[q] /\ pc[q] # "idle" /\ pc'[q] # "idle"
                     /\ \A r \in batch'[q] : r.at = at[q]
<1>t. /\ pc \in [Process -> Call \cup {"idle"}]
      /\ at \in [Process -> Int]
      /\ batch \in [Process -> SUBSET Row]
  BY InOrderTypes
<1>1. CASE UNCHANGED local
  BY <1>1 DEF local
<1>2. ASSUME NEW p \in Process, Begin(p)
      PROVE  Same \/ Began
  BY <1>t, <1>2 DEF Begin, Goto, tables
<1>3. ASSUME NEW p \in Process, ReadSuppliers(p) \/ AppendHistory(p)
      PROVE  Same
  BY <1>t, <1>3 DEF ReadSuppliers, AppendHistory, Goto
<1>4. ASSUME NEW p \in Process, ReadEvents(p)
      PROVE  Same \/ Filled
  <2> DEFINE rows == {Assess(s, EventsRead(at[p]), at[p]) : s \in roster[p]}
  <2>1. \A r \in rows : r.at = at[p]
    BY DEF Assess
  <2>2. /\ pc[p] = "events" /\ pc' = [pc EXCEPT ![p] = "append"]
        /\ at' = at /\ batch' = [batch EXCEPT ![p] = rows]
    BY <1>4 DEF ReadEvents, Goto
  <2> HIDE DEF rows
  <2> QED
    BY <1>t, <2>1, <2>2
<1>5. ASSUME NEW p \in Process, ReplaceCurrent(p) \/ Abort(p)
      PROVE  Same \/ Left
  BY <1>t, <1>5 DEF ReplaceCurrent, Abort, Leave
<1>6. \/ UNCHANGED local
      \/ \E p \in Process : \/ Begin(p) \/ ReadSuppliers(p) \/ ReadEvents(p)
                            \/ AppendHistory(p) \/ ReplaceCurrent(p) \/ Abort(p)
  BY DEF Next, vars, Tick, EventStored, LoadSnapshot, LoadSnapshotFails, LateCommit
<1> QED
  BY <1>1, <1>2, <1>3, <1>4, <1>5, <1>6

LEMMA InOrderNext ==
  ASSUME TypeOK, InOrder, OneAtATime, NothingLate, [Next]_vars
  PROVE  /\ InOrder'
         /\ \A r \in current, q \in current' : q.at >= r.at
<1>t. /\ clock \in Int /\ at \in [Process -> Int] /\ \A r \in current : r.at \in Int
      /\ pc \in [Process -> Call \cup {"idle"}]
  BY InOrderTypes
<1>1. clock' \in Int /\ clock <= clock'
  BY ClockStep
<1>2. \A p \in Process : pc'[p] = "idle" => batch'[p] = {}
  BY BatchStep DEF InOrder
<1>3. \A p \in Process : \A r \in batch'[p] : r.at = at'[p]
  BY BatchStep DEF InOrder
<1>4. CASE current' = current
  <2>1. ASSUME NEW p \in Process, pc'[p] # "idle"
        PROVE  at'[p] <= clock' /\ \A r \in current : r.at <= at'[p]
    <3>1. at'[p] = clock \/ (at'[p] = at[p] /\ pc[p] # "idle")
      BY <2>1, BatchStep
    <3> QED
      BY <1>t, <1>1, <3>1 DEF InOrder
  <2>2. \A r \in current : r.at <= clock'
    BY <1>t, <1>1 DEF InOrder
  <2>3. \A r, q \in current : r.at = q.at /\ q.at >= r.at
    BY <1>t DEF InOrder
  <2> QED
    BY <1>2, <1>3, <1>4, <2>1, <2>2, <2>3 DEF InOrder
<1>5. ASSUME NEW p \in Process, ReplaceCurrent(p), current' = batch[p]
      PROVE  /\ InOrder'
             /\ \A r \in current, q \in current' : q.at >= r.at
  <2>1. pc[p] # "idle" /\ pc' = [pc EXCEPT ![p] = "idle"]
    BY <1>5 DEF ReplaceCurrent, Leave
  <2>2. \A q \in Process : pc'[q] = "idle"
    BY <1>t, <2>1 DEF OneAtATime
  <2>3. \A q \in current' : q.at = at[p]
    BY <1>5 DEF InOrder
  <2>4. at[p] <= clock /\ \A r \in current : r.at <= at[p]
    BY <2>1 DEF InOrder
  <2>5. \A q \in current' : q.at <= clock'
    BY <1>t, <1>1, <2>3, <2>4
  <2>6. \A r \in current, q \in current' : q.at >= r.at
    BY <1>t, <2>3, <2>4
  <2>7. \A r, q \in current' : r.at = q.at
    BY <2>3
  <2> QED
    BY <1>2, <1>3, <2>2, <2>5, <2>6, <2>7 DEF InOrder
<1> QED
  BY <1>4, <1>5, CurrentStep

(* The documented claim about supplier_risk_current, which run `current`   *)
(* refutes, holds of every behaviour in which batches do not overlap and   *)
(* no replacement that timed out can commit later: those two are all that  *)
(* can take the table back.                                                *)
THEOREM CurrentAdvancesAlone ==
  Spec /\ []OneAtATime /\ []NothingLate => CurrentNeverGoesBack
<1> DEFINE Forward == \A r \in current, q \in current' : q.at >= r.at
<1>1. Init => InOrder
  BY BatchAssumption DEF Init, MartInit, InOrder
<1>2. TypeOK /\ InOrder /\ OneAtATime /\ NothingLate /\ [Next]_vars => InOrder' /\ Forward
  BY InOrderNext
<1> HIDE DEF Forward
<1>3. Spec /\ []OneAtATime /\ []NothingLate => [][Forward]_vars
  BY <1>1, <1>2, TypeCorrect, PTL DEF Spec
<1> QED
  BY <1>3 DEF CurrentNeverGoesBack, Forward
===============================================================================
