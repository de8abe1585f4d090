--------------------------- MODULE Dashboard_proofs ---------------------------
(***************************************************************************)
(* Theorems about Dashboard, for all sessions, scripts, batches, threads   *)
(* and limits.                                                             *)
(*                                                                         *)
(* The inductive invariant has a part for each thing that scripts share:   *)
(* the budget, the tables they read (Known), and the investigations they   *)
(* run, review and show (Calls, Runs and Pages); and one for what a script *)
(* has seen so far (Views).                                                *)
(***************************************************************************)
EXTENDS Dashboard, FiniteSetTheorems, TLAPS

AllRows == UNION history

(* A row in a portfolio is in the history and stays there.                 *)
Known ==
  /\ IsFiniteSet(AllRows)
  /\ current \subseteq AllRows
  /\ \A s \in Session : portfolio[s] # None => portfolio[s] \subseteq AllRows

(* Where a script has read an assessment, no history, or no evidence.      *)
WithRow == {"explore", "inspect", "shown", "history", "evidence", "analyze"}
WithHistory == {"inspect", "shown", "evidence", "analyze"}
WithEvidence == {"shown", "analyze"}

ProgressOf(step, v) ==
  /\ step \in WithRow => v.row # None
  /\ step \notin WithHistory => v.history = {}
  /\ step \notin WithEvidence => v.evidence = {}

Named(v) == v.evidence # {} => v.evidence \subseteq v.row.evidence

HasAssessment(step, v) ==
  step \in {"evidence", "analyze"} \/ v.history # {} =>
    \/ v.row \in v.history
    \/ Cardinality(v.history) = HistoryLimit /\ \A r \in v.history : r.at >= v.row.at

(* What a script has seen by a step.                                       *)
Seen(step, v) ==
  /\ step \in Step /\ v \in View
  /\ v.row # None => v.row \in AllRows /\ v.row.supplier = v.supplier
  /\ ProgressOf(step, v)
  /\ HasAssessment(step, v)
  /\ Named(v)

Views == \A c \in Script : Seen(doing[c], view[c])

(* A call runs or reviews a thread; what a node of a review works on is    *)
(* the report that is recorded, whatever was decided since it was loaded.  *)
SameReport(q, r) == q.row = r.row /\ q.evidence = r.evidence

Called(step, t, a, l) ==
  /\ step \notin Running \cup Reviewing => t = None
  /\ step \in Running => t \in Thread /\ recorded[t].stage = "open"
  /\ step \in Reviewing => /\ t \in Thread /\ recorded[t].stage \in Reviewable
                          /\ a \in Decision
  /\ step = "decide" => l.stage = "pending" /\ SameReport(l, recorded[t])
  /\ step = "close" => /\ l.stage \in Decision /\ SameReport(l, recorded[t])
                       /\ recorded[t].stage \in Decision

Calls == \A c \in Script : Called(doing[c], thread[c], answer[c], local[c])

(* A run has its thread alone.                                             *)
Runs == \A c, d \in Script : doing[c] \in Running /\ thread[d] = thread[c] => c = d

Shows(p, r) ==
  /\ SameReport(p, r)
  /\ p.stage = r.stage \/ (r.stage \in Decision /\ p.stage \in Reviewable)

(* A page shows an investigation whose run has ended, or none.             *)
Paged(t, p) ==
  /\ t = None => p = Absent
  /\ t # None => recorded[t].stage \notin {"none", "open"} /\ Shows(p, recorded[t])

Pages == \A s \in Session : Paged(active[s], page[s])

(* Two sessions never have a thread in common: what one runs or has under  *)
(* review, no other runs or reviews (CreateInvestigationRequest takes a    *)
(* new thread, which only the page of the same session gets to know).      *)
(* Only the clicks of one reader overlap on a thread.                      *)
ThreadsNotShared ==
  /\ \A c, d \in Script : thread[c] # None /\ thread[c] = thread[d] => owner[c] = owner[d]
  /\ \A s \in Session, c \in Script : active[s] # None /\ active[s] = thread[c] => owner[c] = s
  /\ \A s, u \in Session : active[s] # None /\ active[s] = active[u] => s = u

CallInv == Calls /\ Runs /\ Pages /\ ThreadsNotShared

CallTypeOK ==
  /\ active \in [Session -> Thread \cup {None}]
  /\ page \in [Session -> Investigation]
  /\ owner \in [Script -> Session \cup {None}]
  /\ stopped \subseteq Script
  /\ thread \in [Script -> Thread \cup {None}]
  /\ answer \in [Script -> Decision \cup {None}]
  /\ local \in [Script -> Investigation]
  /\ recorded \in [Thread -> Investigation]
  /\ closing \subseteq Thread

-------------------------------------------------------------------------------
(* Rows of batches.                                                        *)

LEMMA BatchRows == \A B \in Batches : B \subseteq Row /\ IsFiniteSet(B)
<1> SUFFICES ASSUME NEW B \in Batches PROVE B \subseteq Row /\ IsFiniteSet(B)
  OBVIOUS
<1>1. B \in Batch /\ IsFiniteSet(B) /\ Snapshot \subseteq SUBSET Supplier
  BY DashboardAssumption
<1>2. PICK S \in Snapshot, t \in Time : B \in {BatchOf(S, t, evidence) : evidence \in [S -> SUBSET Key]}
  BY <1>1 DEF Batch
<1>3. PICK evidence \in [S -> SUBSET Key] : B = BatchOf(S, t, evidence)
  BY <1>2
<1>4. S \subseteq Supplier
  BY <1>1, <1>2
<1> QED
  BY <1>1, <1>2, <1>3, <1>4 DEF BatchOf, Row

LEMMA HistoryRows == ASSUME TypeOK PROVE AllRows \subseteq Row
BY BatchRows DEF TypeOK, AllRows

LEMMA PortfolioRows == \A P \in Portfolio : P \subseteq Row
BY BatchRows DEF Portfolio

-------------------------------------------------------------------------------
(* Which steps there are.  Scripts read, and keep to their own session.    *)

ClickStep == \E s \in Session, c \in Script : Click(s, c)

ScriptStep(c) == Estimate(c) \/ BrowsingStep(c) \/ RunStep(c) \/ ReviewStep(c)

StopStep == (\E c \in Script : ClickTooEarly(c)) \/ (\E s \in Session : SessionEnds(s))

OutsideStep == Assess \/ TablesGrow \/ (\E s \in Session : RefreshPortfolio(s))

LEMMA Steps ==
  ASSUME Next
  PROVE  OutsideStep \/ ClickStep \/ StopStep \/ \E c \in Script : ScriptStep(c)
BY DEF Next, OutsideStep, ClickStep, StopStep, ScriptStep

(* No script and no session is concerned.                                  *)
LEMMA Outside ==
  ASSUME OutsideStep \/ UNCHANGED vars
  PROVE  UNCHANGED <<script, active, page, investigations, faults>>
BY DEF OutsideStep, Assess, TablesGrow, RefreshPortfolio, session, vars

(* What a step of a script does to the session: it keeps an investigation  *)
(* there, or nothing.                                                      *)
LEMMA Stopping ==
  ASSUME NEW C, Stop(C)
  PROVE  /\ UNCHANGED <<mart, reads, owner, thread, answer, local, recorded, closing>>
         /\ \A c \in Script : \/ doing'[c] = doing[c] /\ view'[c] = view[c]
                              \/ doing[c] \in Browsing /\ doing'[c] = "dropped" /\ view'[c] = Blank
BY DEF Stop, investigations

-------------------------------------------------------------------------------
(* The budget.                                                             *)

ReadsInv == ReadsTypeOK /\ BilledWithinBudget

LEMMA Read_ReadsInv ==
  ASSUME ReadsInv, NEW c \in Script, DryRunPasses(c) \/ QueryRuns(c) \/ ReadRaises(c)
  PROVE  ReadsInv'
BY ReadsAssumption
DEF ReadsInv, ReadsTypeOK, BilledWithinBudget, DryRunPasses, QueryRuns, ReadRaises

LEMMA ScriptStep_Reads ==
  ASSUME NEW c \in Script, ScriptStep(c)
  PROVE  DryRunPasses(c) \/ QueryRuns(c) \/ ReadRaises(c) \/ UNCHANGED reads
<1>1. CASE Estimate(c)
  BY <1>1 DEF Estimate
<1>2. CASE BrowsingStep(c)
  BY <1>2 DEF BrowsingStep, PortfolioLoaded, PortfolioUnavailable, DropRead, HistoryShown,
     HistoryUnavailable, EvidenceShown, EvidenceUnavailable, LeaveExplorer
<1>3. CASE RunStep(c)
  BY <1>3 DEF RunStep, ProfileRead, RiskRead, HistoryRead, EvidenceRead, NoEvidenceToRead,
     Report, RunFails, RunRaises
<1>4. CASE ReviewStep(c)
  BY <1>4 DEF ReviewStep, Accepted, Duplicate, Resume, NothingToResume, Decide, Close,
     SubmissionRaises
<1> QED
  BY <1>1, <1>2, <1>3, <1>4 DEF ScriptStep

LEMMA Next_ReadsInv ==
  ASSUME ReadsInv, [Next]_vars PROVE ReadsInv'
<1> USE DEF ReadsInv
<1>1. CASE UNCHANGED reads
  BY <1>1 DEF reads, ReadsTypeOK, BilledWithinBudget
<1>2. CASE OutsideStep
  <2>1. CASE TablesGrow
    BY <2>1, ReadsAssumption DEF TablesGrow, Grow, ReadsTypeOK, BilledWithinBudget
  <2> QED
    BY <1>1, <1>2, <2>1 DEF OutsideStep, Assess, RefreshPortfolio
<1>3. CASE ClickStep
  BY <1>1, <1>3 DEF ClickStep, Click, OpenPage, Explore, Run, Submit
<1>4. CASE StopStep
  BY <1>1, <1>4, Stopping DEF StopStep, ClickTooEarly, SessionEnds
<1>5. ASSUME NEW c \in Script, ScriptStep(c) PROVE ReadsInv'
  BY <1>1, <1>5, ScriptStep_Reads, Read_ReadsInv
<1> QED
  BY <1>1, <1>2, <1>3, <1>4, <1>5, Steps DEF vars

(* No query of any script is billed for more than the budget, although the *)
(* tables grow between its dry run and its execution                       *)
(* (GuardedBigQueryReader.read).                                           *)
THEOREM AlwaysBilledWithinBudget == Spec => []BilledWithinBudget
<1>1. Init => ReadsInv
  BY ReadsAssumption DEF Init, ReadsInit, ReadsInv, ReadsTypeOK, BilledWithinBudget
<1>2. ReadsInv /\ [Next]_vars => ReadsInv'
  BY Next_ReadsInv
<1>3. ReadsInv => BilledWithinBudget
  BY DEF ReadsInv
<1> QED
  BY <1>1, <1>2, <1>3, PTL DEF Spec

-------------------------------------------------------------------------------
(* What scripts see.                                                       *)

Quiet == {"idle", "dropped", "portfolio", "profile", "risk"} \cup Reviewing

(* A script takes a step of its own, and sees something.                   *)
Moves(c) == \E step, v : Goto(c, step) /\ See(c, v) /\ Seen(step, v)

LEMMA BlankSeen == \A step \in Quiet : Seen(step, Blank)
BY DEF Quiet, Seen, Blank, View, Step, Browsing, Running, Reviewing, ProgressOf, HasAssessment,
       Named, WithRow, WithHistory, WithEvidence

LEMMA QuietSeen ==
  ASSUME NEW v, NEW step \in Quiet, NEW next \in Quiet, Seen(step, v)
  PROVE  Seen(next, v)
BY DEF Quiet, Seen, Step, Browsing, Running, Reviewing, ProgressOf, HasAssessment, WithRow,
       WithHistory, WithEvidence

LEMMA Staying ==
  ASSUME TypeOK, NEW c \in Script
  PROVE  /\ view' = view => See(c, view[c])
         /\ doing' = doing => Goto(c, doing[c])
BY DEF TypeOK, See, Goto

LEMMA Ends_Moves ==
  ASSUME NEW c \in Script, Ends(c) PROVE Moves(c)
BY BlankSeen DEF Ends, Moves, Quiet

(* What a row and a history add to a view.                                 *)
LEMMA See_View ==
  ASSUME NEW v \in View
  PROVE  /\ \A H \in SUBSET Row : [v EXCEPT !.history = H] \in View
         /\ \A E \in SUBSET Key : [v EXCEPT !.evidence = E] \in View
         /\ \A r \in Row : [v EXCEPT !.row = r] \in View
         /\ \A r \in Row : [Blank EXCEPT !.supplier = r.supplier, !.row = r] \in View
         /\ \A r \in Row : [Blank EXCEPT !.supplier = r.supplier] \in View
<1>1. Blank \in View
  BY DEF Blank, View
<1> QED
  BY <1>1 DEF View, Row

(* A row that a query for the newest rows leaves out is older than all of  *)
(* those it returns.                                                       *)
LEMMA NewestFirst_Row ==
  ASSUME NEW A, A \subseteq Row, IsFiniteSet(A), NEW r \in A, NEW P \in NewestFirst(A)
  PROVE  r \in P \/ (Cardinality(P) = HistoryLimit /\ \A q \in P : q.at >= r.at)
<1>1. P \subseteq A /\ \A q \in P : r \notin P => r.at <= q.at
  BY DEF NewestFirst
<1>2. CASE Cardinality(A) <= HistoryLimit
  <2>1. Cardinality(P) = Cardinality(A)
    BY <1>2 DEF NewestFirst
  <2>2. P = A
    BY <1>1, <2>1, FS_Subset
  <2> QED
    BY <2>2
<1>3. CASE ~(Cardinality(A) <= HistoryLimit)
  <2>1. Cardinality(P) = HistoryLimit
    BY <1>3 DEF NewestFirst
  <2>2. \A q \in P : q.at \in Int /\ r.at \in Int
    BY <1>1 DEF Row, Time
  <2> QED
    BY <1>1, <2>1, <2>2
<1> QED
  BY <1>2, <1>3

(* A history that is read after an assessment.                             *)
LEMMA HistoryOf_View ==
  ASSUME TypeOK, Known, NEW step \in {"explore", "history"}, NEW v, Seen(step, v),
         NEW H \in RiskHistory(v.supplier)
  PROVE  /\ H \subseteq Row
         /\ \/ v.row \in H
            \/ Cardinality(H) = HistoryLimit /\ \A r \in H : r.at >= v.row.at
<1> DEFINE A == RowsOf(v.supplier, AllRows)
<1>1. AllRows \subseteq Row /\ IsFiniteSet(AllRows)
  BY HistoryRows DEF Known
<1>2. A \subseteq AllRows
  BY DEF RowsOf
<1>3. A \subseteq Row /\ IsFiniteSet(A)
  BY <1>1, <1>2, FS_Subset
<1>4. v.row \in A
  BY DEF Seen, ProgressOf, WithRow, RowsOf
<1>5. H \in NewestFirst(A)
  BY DEF RiskHistory, AllRows
<1>6. H \subseteq A
  BY <1>5 DEF NewestFirst
<1> HIDE DEF A
<1> QED
  BY <1>3, <1>4, <1>5, <1>6, NewestFirst_Row

LEMMA BrowsingStep_Moves ==
  ASSUME TypeOK, Known, Views, NEW c \in Script, BrowsingStep(c)
  PROVE  Moves(c)
<1> DEFINE v == view[c]
<1>0. Seen(doing[c], v) /\ v \in View
  BY DEF Views, Seen
<1>1. CASE PortfolioLoaded(c) \/ PortfolioUnavailable(c) \/ DropRead(c) \/ LeaveExplorer(c)
  BY <1>1, Ends_Moves DEF PortfolioLoaded, PortfolioUnavailable, DropRead, LeaveExplorer
<1>2. CASE HistoryShown(c)
  <2>1. PICK H \in RiskHistory(v.supplier) : See(c, [v EXCEPT !.history = H])
    BY <1>2 DEF HistoryShown
  <2>2. PICK step \in {"inspect", "shown"} : Goto(c, step)
    BY <1>2 DEF HistoryShown, Inspect
  <2>3. doing[c] = "explore"
    BY <1>2 DEF HistoryShown
  <2>4. /\ H \subseteq Row
        /\ \/ v.row \in H
           \/ Cardinality(H) = HistoryLimit /\ \A r \in H : r.at >= v.row.at
    BY <1>0, <2>3, HistoryOf_View
  <2>5. [v EXCEPT !.history = H] \in View
    BY <1>0, <2>4, See_View
  <2>6. Seen(step, [v EXCEPT !.history = H])
    BY <1>0, <2>3, <2>4, <2>5 DEF Seen, View, Step, Browsing, ProgressOf, HasAssessment, Named,
       WithRow, WithHistory, WithEvidence
  <2> QED
    BY <2>1, <2>2, <2>6 DEF Moves
<1>3. CASE HistoryUnavailable(c)
  <2>1. PICK step \in {"inspect", "shown"} : Goto(c, step)
    BY <1>3 DEF HistoryUnavailable, Inspect
  <2>2. See(c, v) /\ doing[c] = "explore"
    BY <1>3, Staying DEF HistoryUnavailable
  <2>3. Seen(step, v)
    BY <1>0, <2>2 DEF Seen, Step, Browsing, ProgressOf, HasAssessment, WithRow, WithHistory,
       WithEvidence
  <2> QED
    BY <2>1, <2>2, <2>3 DEF Moves
<1>4. CASE EvidenceShown(c)
  <2>1. PICK E \in RiskEvidence(v.row) : See(c, [v EXCEPT !.evidence = E])
    BY <1>4 DEF EvidenceShown
  <2>2. doing[c] = "inspect" /\ Goto(c, "shown")
    BY <1>4 DEF EvidenceShown
  <2>3. v.row \in Row
    BY <1>0, <2>2 DEF Seen, View, ProgressOf, WithRow
  <2>4. E \subseteq v.row.evidence /\ E \in SUBSET Key
    BY <2>3 DEF RiskEvidence, Row
  <2>5. [v EXCEPT !.evidence = E] \in View
    BY <1>0, <2>4, See_View
  <2>6. Seen("shown", [v EXCEPT !.evidence = E])
    BY <1>0, <2>2, <2>4, <2>5 DEF Seen, View, Step, ProgressOf, HasAssessment, Named,
       WithRow, WithHistory, WithEvidence
  <2> QED
    BY <2>1, <2>2, <2>6 DEF Moves
<1>5. CASE EvidenceUnavailable(c)
  <2>1. See(c, v) /\ doing[c] = "inspect" /\ Goto(c, "shown")
    BY <1>5, Staying DEF EvidenceUnavailable
  <2>2. Seen("shown", v)
    BY <1>0, <2>1 DEF Seen, Step, ProgressOf, HasAssessment, WithRow, WithHistory, WithEvidence
  <2> QED
    BY <2>1, <2>2 DEF Moves
<1> QED
  BY <1>1, <1>2, <1>3, <1>4, <1>5 DEF BrowsingStep

LEMMA RunStep_Moves ==
  ASSUME TypeOK, Known, Views, NEW c \in Script, RunStep(c)
  PROVE  Moves(c)
<1> DEFINE v == view[c]
<1>0. Seen(doing[c], v) /\ v \in View
  BY DEF Views, Seen
<1>1. CASE Report(c) \/ RunFails(c) \/ RunRaises(c)
  BY <1>1, Ends_Moves DEF Report, RunFails, RunEnds, Returns, RunRaises
<1>2. CASE ProfileRead(c)
  <2>1. See(c, v) /\ doing[c] = "profile" /\ Goto(c, "risk")
    BY <1>2, Staying DEF ProfileRead
  <2>2. Seen("risk", v)
    BY <1>0, <2>1, QuietSeen DEF Quiet
  <2> QED
    BY <2>1, <2>2 DEF Moves
<1>3. CASE RiskRead(c)
  <2>1. PICK r \in RowsOf(v.supplier, current) : See(c, [v EXCEPT !.row = r])
    BY <1>3 DEF RiskRead
  <2>2. doing[c] = "risk" /\ Goto(c, "history")
    BY <1>3 DEF RiskRead
  <2>3. r \in AllRows /\ r \in Row /\ r.supplier = v.supplier
    BY HistoryRows DEF RowsOf, Known
  <2>4. [v EXCEPT !.row = r] \in View
    BY <1>0, <2>3, See_View
  <2>5. Seen("history", [v EXCEPT !.row = r])
    BY <1>0, <2>2, <2>3, <2>4, DashboardAssumption DEF Seen, View, Step, Running, ProgressOf,
       HasAssessment, Named, WithRow, WithHistory, WithEvidence
  <2> QED
    BY <2>1, <2>2, <2>5 DEF Moves
<1>4. CASE HistoryRead(c)
  <2>1. PICK H \in RiskHistory(v.supplier) : See(c, [v EXCEPT !.history = H])
    BY <1>4 DEF HistoryRead
  <2>2. doing[c] = "history" /\ Goto(c, "evidence")
    BY <1>4 DEF HistoryRead
  <2>3. /\ H \subseteq Row
        /\ \/ v.row \in H
           \/ Cardinality(H) = HistoryLimit /\ \A r \in H : r.at >= v.row.at
    BY <1>0, <2>2, HistoryOf_View
  <2>4. [v EXCEPT !.history = H] \in View
    BY <1>0, <2>3, See_View
  <2>5. Seen("evidence", [v EXCEPT !.history = H])
    BY <1>0, <2>2, <2>3, <2>4 DEF Seen, View, Step, Running, ProgressOf, HasAssessment, Named,
       WithRow, WithHistory, WithEvidence
  <2> QED
    BY <2>1, <2>2, <2>5 DEF Moves
<1>5. CASE EvidenceRead(c)
  <2>1. PICK E \in RiskEvidence(v.row) : See(c, [v EXCEPT !.evidence = E])
    BY <1>5 DEF EvidenceRead
  <2>2. doing[c] = "evidence" /\ Goto(c, "analyze")
    BY <1>5 DEF EvidenceRead
  <2>3. v.row \in Row
    BY <1>0, <2>2 DEF Seen, View, ProgressOf, WithRow
  <2>4. E \subseteq v.row.evidence /\ E \in SUBSET Key
    BY <2>3 DEF RiskEvidence, Row
  <2>5. [v EXCEPT !.evidence = E] \in View
    BY <1>0, <2>4, See_View
  <2>6. Seen("analyze", [v EXCEPT !.evidence = E])
    BY <1>0, <2>2, <2>4, <2>5 DEF Seen, View, Step, Running, ProgressOf, HasAssessment, Named,
       WithRow, WithHistory, WithEvidence
  <2> QED
    BY <2>1, <2>2, <2>6 DEF Moves
<1>6. CASE NoEvidenceToRead(c)
  <2>1. See(c, v) /\ doing[c] = "evidence" /\ Goto(c, "analyze")
    BY <1>6, Staying DEF NoEvidenceToRead
  <2>2. Seen("analyze", v)
    BY <1>0, <2>1 DEF Seen, Step, Running, ProgressOf, HasAssessment, WithRow, WithHistory,
       WithEvidence
  <2> QED
    BY <2>1, <2>2 DEF Moves
<1> QED
  BY <1>1, <1>2, <1>3, <1>4, <1>5, <1>6 DEF RunStep

LEMMA ReviewStep_Moves ==
  ASSUME TypeOK, Views, NEW c \in Script, ReviewStep(c)
  PROVE  Moves(c)
<1>1. CASE Duplicate(c) \/ NothingToResume(c) \/ Close(c) \/ SubmissionRaises(c)
  BY <1>1, Ends_Moves DEF Duplicate, NothingToResume, Close, SubmissionRaises, Returns
<1>2. CASE Accepted(c) \/ Resume(c) \/ Decide(c)
  <2>1. PICK step \in Reviewing : Goto(c, step)
    BY <1>2 DEF Accepted, Resume, Decide, Reviewing
  <2>2. See(c, view[c]) /\ doing[c] \in Reviewing
    BY <1>2, Staying DEF Accepted, Resume, Decide, Reviewing
  <2>3. Seen(step, view[c])
    BY <2>2, QuietSeen DEF Quiet, Views
  <2> QED
    BY <2>1, <2>2, <2>3 DEF Moves
<1> QED
  BY <1>1, <1>2 DEF ReviewStep

LEMMA Click_Moves ==
  ASSUME TypeOK, Known, Views, NEW s \in Session, NEW c \in Script, Click(s, c)
  PROVE  Moves(c)
<1>0. doing[c] = "idle"
  BY DEF Click, OpenPage, Explore, Run, Submit, Begins
<1>1. \A next \in Quiet : Seen(next, view[c])
  BY <1>0, QuietSeen DEF Views, Quiet
<1>2. ASSUME NEW d \in Decision, OpenPage(s, c) \/ Submit(s, c, d) PROVE Moves(c)
  <2>1. PICK step \in {"portfolio", "check"} : Goto(c, step)
    BY <1>2 DEF OpenPage, Submit, Begins
  <2>2. See(c, view[c])
    BY <1>2, Staying DEF OpenPage, Submit
  <2> QED
    BY <1>1, <2>1, <2>2 DEF Moves, Quiet, Reviewing
<1>3. CASE Explore(s, c)
  <2>1. PICK r \in portfolio[s] : See(c, [Blank EXCEPT !.supplier = r.supplier, !.row = r])
    BY <1>3 DEF Explore
  <2>2. r \in Row /\ r \in AllRows
    BY <1>3, PortfolioRows DEF Explore, TypeOK, Known
  <2>3. [Blank EXCEPT !.supplier = r.supplier, !.row = r] \in View
    BY <2>2, See_View, BlankSeen DEF Seen, Quiet
  <2>4. Seen("explore", [Blank EXCEPT !.supplier = r.supplier, !.row = r])
    BY <2>2, <2>3, DashboardAssumption DEF Seen, Blank, Step, Browsing, ProgressOf, HasAssessment,
       Named, WithRow, WithHistory, WithEvidence
  <2> QED
    BY <1>3, <2>1, <2>4 DEF Moves, Explore, Begins
<1>4. CASE Run(s, c)
  <2>1. PICK r \in portfolio[s] : See(c, [Blank EXCEPT !.supplier = r.supplier])
    BY <1>4 DEF Run
  <2>2. r \in Row
    BY <1>4, PortfolioRows DEF Run, TypeOK
  <2>3. [Blank EXCEPT !.supplier = r.supplier] \in View
    BY <2>2, See_View, BlankSeen DEF Seen, Quiet
  <2>4. Seen("profile", [Blank EXCEPT !.supplier = r.supplier])
    BY <2>3, DashboardAssumption DEF Seen, Blank, Step, Running, ProgressOf, HasAssessment,
       Named, WithRow, WithHistory, WithEvidence
  <2> QED
    BY <1>4, <2>1, <2>4 DEF Moves, Run, Begins
<1> QED
  BY <1>2, <1>3, <1>4 DEF Click, Decision

(* What is seen stays so while batches join the history.                   *)
LEMMA RowsStay ==
  ASSUME Known, Assess
  PROVE  AllRows \subseteq AllRows' /\ IsFiniteSet(AllRows') /\ current' \subseteq AllRows'
<1>1. PICK B \in Batches : Publish(B) \/ Show(B)
  BY DEF Assess
<1>2. CASE Publish(B)
  <2>1. AllRows' = AllRows \cup B /\ current' = current
    BY <1>2 DEF Publish, AllRows
  <2>2. IsFiniteSet(AllRows \cup B)
    BY BatchRows, FS_Union DEF Known
  <2> QED
    BY <2>1, <2>2 DEF Known
<1>3. CASE Show(B)
  BY <1>3 DEF Show, AllRows, Known
<1> QED
  BY <1>1, <1>2, <1>3

LEMMA SeenStays ==
  ASSUME AllRows \subseteq AllRows', NEW step, NEW v, Seen(step, v)
  PROVE  Seen(step, v)'
BY DEF Seen, ProgressOf, HasAssessment, Named

LEMMA ScriptStep_mart ==
  ASSUME NEW c \in Script, ScriptStep(c) \/ \E s \in Session : Click(s, c)
  PROVE  UNCHANGED mart
<1>1. CASE Estimate(c) \/ \E s \in Session : Click(s, c)
  BY <1>1 DEF Estimate, Click, OpenPage, Explore, Run, Submit
<1>2. CASE BrowsingStep(c)
  BY <1>2 DEF BrowsingStep, PortfolioLoaded, PortfolioUnavailable, DropRead, HistoryShown,
     HistoryUnavailable, EvidenceShown, EvidenceUnavailable, LeaveExplorer
<1>3. CASE RunStep(c)
  BY <1>3 DEF RunStep, ProfileRead, RiskRead, HistoryRead, EvidenceRead, NoEvidenceToRead,
     Report, RunFails, RunRaises, RunEnds
<1>4. CASE ReviewStep(c)
  BY <1>4 DEF ReviewStep, Accepted, Duplicate, Resume, NothingToResume, Decide, Close,
     SubmissionRaises
<1> QED
  BY <1>1, <1>2, <1>3, <1>4 DEF ScriptStep

LEMMA Next_Views ==
  ASSUME TypeOK, Known, Views, [Next]_vars
  PROVE  Views'
<1>1. ASSUME UNCHANGED <<doing, view>>, AllRows \subseteq AllRows' PROVE Views'
  BY <1>1, SeenStays DEF Views
<1>2. ASSUME UNCHANGED mart PROVE AllRows' = AllRows
  BY <1>2 DEF mart, AllRows
<1>3. CASE OutsideStep \/ UNCHANGED vars
  <2>1. UNCHANGED <<doing, view>>
    BY <1>3, Outside DEF script
  <2>2. AllRows \subseteq AllRows'
    BY <1>2, <1>3, RowsStay DEF OutsideStep, TablesGrow, RefreshPortfolio, vars
  <2> QED
    BY <1>1, <2>1, <2>2
<1>4. ASSUME NEW c \in Script, ScriptStep(c) \/ \E s \in Session : Click(s, c)
      PROVE  Views'
  <2>1. Moves(c)
    <3>1. CASE Estimate(c)
      BY <3>1, Staying DEF Estimate, script, Moves, Views
    <3> QED
      BY <1>4, <3>1, BrowsingStep_Moves, RunStep_Moves, ReviewStep_Moves, Click_Moves
      DEF ScriptStep
  <2>2. PICK step, v : Goto(c, step) /\ See(c, v) /\ Seen(step, v)
    BY <2>1 DEF Moves
  <2>3. \A d \in Script : Seen(doing'[d], view'[d])
    BY <2>2 DEF Goto, See, TypeOK, Views
  <2>4. AllRows \subseteq AllRows'
    BY <1>2, <1>4, ScriptStep_mart
  <2> QED
    BY <2>3, <2>4, SeenStays DEF Views
<1>5. CASE StopStep
  <2>1. PICK C : Stop(C)
    BY <1>5 DEF StopStep, ClickTooEarly, SessionEnds
  <2>2. \A c \in Script : Seen(doing'[c], view'[c])
    BY <2>1, Stopping, BlankSeen DEF Views, Quiet
  <2>3. AllRows \subseteq AllRows'
    BY <1>2, <2>1, Stopping
  <2> QED
    BY <2>2, <2>3, SeenStays DEF Views
<1> QED
  BY <1>3, <1>4, <1>5, Steps DEF ClickStep

LEMMA Next_Known ==
  ASSUME TypeOK, Known, [Next]_vars
  PROVE  Known'
<1>1. CASE Assess
  BY <1>1, RowsStay DEF Assess, session, Known
<1>2. ASSUME UNCHANGED mart PROVE AllRows' = AllRows /\ current' = current
  BY <1>2 DEF mart, AllRows
<1>3. ASSUME NEW s, portfolio' = portfolio \/ portfolio' = [portfolio EXCEPT ![s] = None]
                    \/ \E P \in CurrentPortfolio : portfolio' = [portfolio EXCEPT ![s] = P],
             UNCHANGED mart
      PROVE  Known'
  BY <1>2, <1>3 DEF Known, CurrentPortfolio, TypeOK
<1>4. CASE OutsideStep /\ ~Assess
  BY <1>3, <1>4 DEF OutsideStep, TablesGrow, RefreshPortfolio, session
<1>5. ASSUME NEW c \in Script, ScriptStep(c) \/ \E s \in Session : Click(s, c)
      PROVE  Known'
  <2>1. CASE PortfolioLoaded(c)
    BY <1>3, <2>1 DEF PortfolioLoaded
  <2>2. CASE ~PortfolioLoaded(c)
    <3>1. portfolio' = portfolio
      <4>1. CASE Estimate(c) \/ \E s \in Session : Click(s, c)
        BY <4>1 DEF Estimate, Click, OpenPage, Explore, Run, Submit, session
      <4>2. CASE BrowsingStep(c)
        BY <2>2, <4>2 DEF BrowsingStep, PortfolioUnavailable, DropRead, HistoryShown,
           HistoryUnavailable, EvidenceShown, EvidenceUnavailable, LeaveExplorer, session
      <4>3. CASE RunStep(c)
        BY <4>3 DEF RunStep, ProfileRead, RiskRead, HistoryRead, EvidenceRead, NoEvidenceToRead,
           Report, RunFails, RunRaises, RunEnds, session
      <4>4. CASE ReviewStep(c)
        BY <4>4 DEF ReviewStep, Accepted, Duplicate, Resume, NothingToResume, Decide, Close,
           SubmissionRaises, session
      <4> QED
        BY <1>5, <4>1, <4>2, <4>3, <4>4 DEF ScriptStep
    <3> QED
      BY <1>3, <1>5, <3>1, ScriptStep_mart
  <2> QED
    BY <2>1, <2>2
<1>6. CASE StopStep
  BY <1>3, <1>6, Stopping DEF StopStep, ClickTooEarly, SessionEnds, session
<1>7. CASE UNCHANGED vars
  BY <1>3, <1>7 DEF vars, session
<1> QED
  BY <1>1, <1>4, <1>5, <1>6, <1>7, Steps DEF ClickStep

-------------------------------------------------------------------------------
(* Calls, and what they leave on pages.  The steps of a script by what     *)
(* they do to them.                                                        *)

SameInvestigations == UNCHANGED <<active, page, investigations>>

Reads(c) ==
  /\ SameInvestigations /\ UNCHANGED call
  /\ doing[c] \notin Reviewing
  /\ \E step : /\ Goto(c, step) /\ step \notin Reviewing
               /\ step \in Running <=> doing[c] \in Running

Opens(c) ==
  /\ SameInvestigations /\ UNCHANGED <<stopped, thread, answer, local>>
  /\ \E s \in Session, step \in Browsing : Begins(s, c, step)

Leaves(c) == SameInvestigations /\ Ends(c)

(* A run ends failed or with a report that names its evidence.             *)
RunResult ==
  {inv \in Investigation : inv.stage \in {"pending", "failed"} /\ Named(inv)}

Concludes(c) ==
  /\ doing[c] \in Running
  /\ \E inv \in RunResult : recorded' = [recorded EXCEPT ![thread[c]] = inv] /\ Returns(c, inv)
  /\ UNCHANGED closing

Shown(c) ==
  /\ doing[c] \in {"check", "resume"}
  /\ recorded[thread[c]].stage \in Decision
  /\ Returns(c, recorded[thread[c]])
  /\ UNCHANGED investigations

LEMMA BrowsingStep_Kind ==
  ASSUME NEW c \in Script, BrowsingStep(c) PROVE Reads(c) \/ Leaves(c)
<1>1. CASE PortfolioLoaded(c) \/ PortfolioUnavailable(c) \/ DropRead(c) \/ LeaveExplorer(c)
  BY <1>1 DEF PortfolioLoaded, PortfolioUnavailable, DropRead, LeaveExplorer, Leaves,
     SameInvestigations, session
<1>2. CASE HistoryShown(c) \/ HistoryUnavailable(c)
  <2>1. \E step \in {"inspect", "shown"} : Goto(c, step)
    BY <1>2 DEF HistoryShown, HistoryUnavailable, Inspect
  <2> QED
    BY <1>2, <2>1 DEF HistoryShown, HistoryUnavailable, Reads, SameInvestigations, session, Reviewing,
       Running
<1>3. CASE EvidenceShown(c) \/ EvidenceUnavailable(c)
  BY <1>3 DEF EvidenceShown, EvidenceUnavailable, Reads, SameInvestigations, session, Reviewing,
     Running
<1> QED
  BY <1>1, <1>2, <1>3 DEF BrowsingStep

LEMMA RunStep_Kind ==
  ASSUME TypeOK, Views, NEW c \in Script, RunStep(c)
  PROVE  Reads(c) \/ Leaves(c) \/ Concludes(c)
<1>1. CASE \/ ProfileRead(c) \/ RiskRead(c) \/ HistoryRead(c) \/ EvidenceRead(c)
           \/ NoEvidenceToRead(c)
  BY <1>1 DEF ProfileRead, RiskRead, HistoryRead, EvidenceRead, NoEvidenceToRead, Reads,
     SameInvestigations, session, Reviewing, Running
<1>2. CASE Report(c)
  <2> DEFINE inv == [stage |-> "pending", row |-> view[c].row, evidence |-> view[c].evidence]
  <2>1. inv \in RunResult
    BY DEF Views, Seen, View, Named, RunResult, Investigation, Stage, Reviewable
  <2> HIDE DEF inv
  <2>2. RunEnds(c, inv) /\ doing[c] = "analyze"
    BY <1>2 DEF Report, inv
  <2> QED
    BY <2>1, <2>2 DEF Concludes, RunEnds, Running
<1>3. CASE RunFails(c)
  <2> DEFINE inv == [Absent EXCEPT !.stage = "failed"]
  <2>1. inv \in RunResult
    BY DEF Absent, Named, RunResult, Investigation, Stage
  <2> HIDE DEF inv
  <2>2. RunEnds(c, inv) /\ doing[c] \in Running
    BY <1>3 DEF RunFails, inv
  <2> QED
    BY <2>1, <2>2 DEF Concludes, RunEnds
<1>4. CASE RunRaises(c)
  BY <1>4 DEF RunRaises, Leaves, SameInvestigations, session
<1> QED
  BY <1>1, <1>2, <1>3, <1>4 DEF RunStep

LEMMA ScriptStep_Kind ==
  ASSUME TypeOK, Views, CallInv, NEW c \in Script,
         ScriptStep(c) \/ \E s \in Session : Click(s, c)
  PROVE  \/ Reads(c) \/ Opens(c) \/ Leaves(c) \/ Concludes(c) \/ Shown(c)
         \/ \E s \in Session : Run(s, c) \/ \E d \in Decision : Submit(s, c, d)
         \/ Accepted(c) \/ Resume(c) \/ Decide(c) \/ Close(c)
<1>1. CASE Estimate(c)
  BY <1>1, Staying DEF Estimate, Reads, SameInvestigations, session, script, Browsing, Running,
     Reviewing
<1>2. ASSUME NEW s \in Session, OpenPage(s, c) \/ Explore(s, c) PROVE Opens(c)
  BY <1>2 DEF OpenPage, Explore, Opens, SameInvestigations, session, Browsing
<1>3. CASE Duplicate(c) \/ NothingToResume(c)
  BY <1>3 DEF Duplicate, NothingToResume, Shown, CallInv, Calls, Called, Reviewing
<1>4. CASE SubmissionRaises(c)
  BY <1>4 DEF SubmissionRaises, Leaves, SameInvestigations, session
<1> QED
  BY <1>1, <1>2, <1>3, <1>4, BrowsingStep_Kind, RunStep_Kind DEF ScriptStep, Click, ReviewStep

(* A recorded investigation stays as it is, or is decided.                 *)
Stays(r, q) ==
  q = r \/ (r.stage \in Reviewable /\ q.stage \in Decision /\ SameReport(q, r))

LEMMA CalledStays ==
  ASSUME NEW step, NEW t, NEW a, NEW l, Called(step, t, a, l),
         t \in Thread => Stays(recorded[t], recorded'[t])
  PROVE  Called(step, t, a, l)'
BY DEF Called, Stays, SameReport, Running, Reviewing, Reviewable, Decision

LEMMA PagedStays ==
  ASSUME NEW t \in Thread \cup {None}, NEW p, Paged(t, p),
         t \in Thread => Stays(recorded[t], recorded'[t])
  PROVE  Paged(t, p)'
BY DEF Paged, Shows, Stays, SameReport, Reviewable, Decision

LEMMA Same_CallTypeOK ==
  ASSUME TypeOK, SameInvestigations, UNCHANGED call PROVE CallTypeOK'
BY DEF TypeOK, SameInvestigations, call, investigations, CallTypeOK

LEMMA Reads_CallInv ==
  ASSUME TypeOK, CallInv, NEW c \in Script, Reads(c)
  PROVE  CallTypeOK' /\ CallInv'
<1>0. /\ doing \in [Script -> Step] /\ recorded' = recorded
      /\ UNCHANGED <<active, page, owner, thread, answer, local>>
  BY DEF TypeOK, Reads, SameInvestigations, investigations, call
<1>1. PICK step : /\ Goto(c, step) /\ step \notin Reviewing
                  /\ step \in Running <=> doing[c] \in Running
  BY DEF Reads
<1>2. Called(step, thread[c], answer[c], local[c])
  BY <1>1 DEF CallInv, Calls, Called, Reads, Reviewing
<1>3. Calls'
  <2> SUFFICES ASSUME NEW d \in Script
               PROVE  Called(doing[d], thread[d], answer[d], local[d])'
    BY DEF Calls
  <2>1. Called(doing'[d], thread[d], answer[d], local[d])
    BY <1>0, <1>1, <1>2 DEF Goto, CallInv, Calls
  <2> QED
    BY <1>0, <2>1, CalledStays DEF Stays
<1>4. Runs'
  BY <1>0, <1>1 DEF CallInv, Runs, Goto
<1>5. Pages' /\ ThreadsNotShared'
  BY <1>0 DEF CallInv, Pages, Paged, ThreadsNotShared
<1> QED
  BY <1>3, <1>4, <1>5, Same_CallTypeOK DEF CallInv, Reads

LEMMA Opens_CallInv ==
  ASSUME TypeOK, CallInv, NEW c \in Script, Opens(c)
  PROVE  CallTypeOK' /\ CallInv'
<1>1. PICK s \in Session, step \in Browsing : Begins(s, c, step)
  BY DEF Opens
<1>2. /\ doing \in [Script -> Step] /\ owner \in [Script -> Session \cup {None}]
      /\ UNCHANGED <<active, page, stopped, thread, answer, local, recorded, closing>>
      /\ owner' = [owner EXCEPT ![c] = s] /\ doing' = [doing EXCEPT ![c] = step]
      /\ doing[c] = "idle" /\ step \notin Running \cup Reviewing
  BY <1>1 DEF TypeOK, Opens, SameInvestigations, investigations, Begins, Goto, Browsing, Running,
     Reviewing
<1>3. CallTypeOK'
  BY <1>2 DEF CallTypeOK, TypeOK
<1>4. thread[c] = None
  BY <1>2 DEF CallInv, Calls, Called, Running, Reviewing
<1>5. Calls'
  <2> SUFFICES ASSUME NEW d \in Script
               PROVE  Called(doing[d], thread[d], answer[d], local[d])'
    BY DEF Calls
  <2>1. Called(doing'[d], thread[d], answer[d], local[d])
    BY <1>2, <1>4 DEF Called, CallInv, Calls, Reviewing
  <2> QED
    BY <1>2, <2>1, CalledStays DEF Stays
<1>6. Runs'
  BY <1>2 DEF CallInv, Runs
<1>7. Pages'
  BY <1>2 DEF CallInv, Pages, Paged
<1>8. ThreadsNotShared'
  BY <1>2, <1>4 DEF CallInv, ThreadsNotShared
<1> QED
  BY <1>3, <1>5, <1>6, <1>7, <1>8 DEF CallInv

(* The end of a script, whatever it leaves on the page.                    *)
LEMMA Ends_Call ==
  ASSUME TypeOK, NEW c \in Script, Ends(c)
  PROVE  /\ \A d \in Script \ {c} :
              /\ doing'[d] = doing[d] /\ owner'[d] = owner[d] /\ thread'[d] = thread[d]
              /\ answer'[d] = answer[d] /\ local'[d] = local[d]
         /\ doing'[c] = "idle" /\ thread'[c] = None
         /\ owner' \in [Script -> Session \cup {None}]
         /\ stopped' \subseteq Script
         /\ thread' \in [Script -> Thread \cup {None}]
         /\ answer' \in [Script -> Decision \cup {None}]
         /\ local' \in [Script -> Investigation]
<1>1. Absent \in Investigation
  BY DEF Absent, Investigation, Stage
<1> QED
  BY <1>1 DEF TypeOK, Ends, Goto

LEMMA Ends_CallInv ==
  ASSUME TypeOK, CallInv, NEW c \in Script, Ends(c),
         \A d \in Script \ {c} :
           thread[d] \in Thread => Stays(recorded[thread[d]], recorded'[thread[d]])
  PROVE  /\ Calls' /\ Runs'
         /\ \A b, d \in Script : thread'[b] # None /\ thread'[b] = thread'[d] => owner'[b] = owner'[d]
<1>1. Calls'
  <2> SUFFICES ASSUME NEW d \in Script
               PROVE  Called(doing[d], thread[d], answer[d], local[d])'
    BY DEF Calls
  <2>1. CASE d = c
    BY <2>1, Ends_Call DEF Called, Running, Reviewing
  <2>2. CASE d # c
    <3>1. Called(doing[d], thread[d], answer[d], local[d])
      BY DEF CallInv, Calls
    <3>2. Called(doing[d], thread[d], answer[d], local[d])'
      <4>1. UNCHANGED <<doing[d], thread[d], answer[d], local[d]>>
        BY <2>2, Ends_Call
      <4> QED
        BY <2>2, <3>1, <4>1, CalledStays
    <3> QED
      BY <3>2
  <2> QED
    BY <2>1, <2>2
<1>2. Runs'
  <2>1. \A d \in Script : doing'[d] \in Running => d # c /\ thread[d] # None
    BY Ends_Call, DashboardAssumption DEF Running, CallInv, Calls, Called
  <2> QED
    BY <2>1, Ends_Call DEF CallInv, Runs
<1>3. \A b, d \in Script : thread'[b] # None /\ thread'[b] = thread'[d] => owner'[b] = owner'[d]
  BY Ends_Call DEF CallInv, ThreadsNotShared
<1> QED
  BY <1>1, <1>2, <1>3

LEMMA Leaves_CallInv ==
  ASSUME TypeOK, CallInv, NEW c \in Script, Leaves(c)
  PROVE  CallTypeOK' /\ CallInv'
<1>1. Ends(c) /\ UNCHANGED <<active, page, recorded, closing>>
  BY DEF Leaves, SameInvestigations, investigations
<1>2. CallTypeOK'
  BY <1>1, Ends_Call DEF CallTypeOK, TypeOK
<1>3. /\ Calls' /\ Runs'
      /\ \A b, d \in Script : thread'[b] # None /\ thread'[b] = thread'[d] => owner'[b] = owner'[d]
  BY <1>1, Ends_CallInv DEF Stays
<1>4. Pages'
  BY <1>1 DEF CallInv, Pages, Paged
<1>5. ThreadsNotShared'
  BY <1>1, <1>3, Ends_Call DEF CallInv, ThreadsNotShared
<1> QED
  BY <1>2, <1>3, <1>4, <1>5 DEF CallInv

(* A call that returns, having written its thread or not.                  *)
LEMMA Returns_CallInv ==
  ASSUME TypeOK, CallInv, NEW c \in Script, NEW inv \in Investigation, Returns(c, inv),
         thread[c] \in Thread,
         recorded' \in [Thread -> Investigation], closing' \subseteq Thread,
         \A d \in Script \ {c} :
           thread[d] \in Thread => Stays(recorded[thread[d]], recorded'[thread[d]]),
         \A s \in Session :
           active[s] \in Thread => Stays(recorded[active[s]], recorded'[active[s]]),
         recorded'[thread[c]].stage \notin {"none", "open"}, Shows(inv, recorded'[thread[c]])
  PROVE  CallTypeOK' /\ CallInv'
<1>1. Ends(c) /\ Keeps(c, inv)
  BY DEF Returns
<1>2. /\ active \in [Session -> Thread \cup {None}] /\ page \in [Session -> Investigation]
      /\ owner \in [Script -> Session \cup {None}] /\ thread[c] # None
  BY DashboardAssumption DEF TypeOK
<1>3. \A s \in Session :
        \/ active'[s] = active[s] /\ page'[s] = page[s]
        \/ s = owner[c] /\ active'[s] = thread[c] /\ page'[s] = inv
  BY <1>1, <1>2 DEF Keeps
<1>4. CallTypeOK'
  <2>1. active' \in [Session -> Thread \cup {None}] /\ page' \in [Session -> Investigation]
    BY <1>1, <1>2 DEF Keeps
  <2> QED
    BY <1>1, <2>1, Ends_Call DEF CallTypeOK
<1>5. /\ Calls' /\ Runs'
      /\ \A b, d \in Script : thread'[b] # None /\ thread'[b] = thread'[d] => owner'[b] = owner'[d]
  BY <1>1, Ends_CallInv
<1>6. Pages'
  <2> SUFFICES ASSUME NEW s \in Session PROVE Paged(active[s], page[s])'
    BY DEF Pages
  <2>1. CASE active'[s] = active[s] /\ page'[s] = page[s]
    <3>1. Paged(active[s], page[s])
      BY DEF CallInv, Pages
    <3> QED
      BY <1>2, <2>1, <3>1, PagedStays
  <2>2. CASE active'[s] = thread[c] /\ page'[s] = inv
    BY <1>2, <2>2 DEF Paged
  <2> QED
    BY <1>3, <2>1, <2>2
<1>7. ThreadsNotShared'
  <2>1. \A s \in Session, d \in Script :
          active'[s] # None /\ active'[s] = thread'[d] => owner'[d] = s
    <3> SUFFICES ASSUME NEW s \in Session, NEW d \in Script,
                        active'[s] # None, active'[s] = thread'[d]
                 PROVE  owner'[d] = s
      OBVIOUS
    <3>1. d # c /\ thread'[d] = thread[d] /\ owner'[d] = owner[d]
      BY <1>1, Ends_Call
    <3> QED
      BY <1>2, <1>3, <3>1 DEF CallInv, ThreadsNotShared
  <2>2. \A s, u \in Session : active'[s] # None /\ active'[s] = active'[u] => s = u
    BY <1>2, <1>3 DEF CallInv, ThreadsNotShared
  <2> QED
    BY <1>5, <2>1, <2>2 DEF ThreadsNotShared
<1> QED
  BY <1>4, <1>5, <1>6, <1>7 DEF CallInv

LEMMA Concludes_CallInv ==
  ASSUME TypeOK, CallInv, NEW c \in Script, Concludes(c)
  PROVE  CallTypeOK' /\ CallInv'
<1>1. PICK inv \in RunResult : recorded' = [recorded EXCEPT ![thread[c]] = inv] /\ Returns(c, inv)
  BY DEF Concludes
<1>2. /\ inv \in Investigation /\ inv.stage \in {"pending", "failed"}
      /\ doing[c] \in Running /\ closing' = closing
  BY DEF RunResult, Concludes
<1>3. thread[c] \in Thread /\ recorded[thread[c]].stage = "open"
  BY <1>2 DEF CallInv, Calls, Called
<1>4. recorded \in [Thread -> Investigation] /\ closing \subseteq Thread
  BY DEF TypeOK
<1>5. recorded' \in [Thread -> Investigation] /\ recorded'[thread[c]] = inv
  BY <1>1, <1>2, <1>3, <1>4
<1>6. \A d \in Script \ {c} : thread[d] \in Thread => Stays(recorded[thread[d]], recorded'[thread[d]])
  <2>1. \A d \in Script \ {c} : thread[d] # thread[c]
    BY <1>2 DEF CallInv, Runs
  <2> QED
    BY <1>1, <1>4, <2>1 DEF Stays
<1>7. \A s \in Session : active[s] \in Thread => Stays(recorded[active[s]], recorded'[active[s]])
  <2>1. \A s \in Session : active[s] \in Thread => active[s] # thread[c]
    BY <1>3, DashboardAssumption DEF CallInv, Pages, Paged
  <2> QED
    BY <1>1, <1>4, <2>1 DEF Stays
<1>8. Shows(inv, inv)
  BY DEF Shows, SameReport
<1> QED
  BY <1>1, <1>2, <1>3, <1>4, <1>5, <1>6, <1>7, <1>8, Returns_CallInv

LEMMA Shown_CallInv ==
  ASSUME TypeOK, CallInv, NEW c \in Script, Shown(c)
  PROVE  CallTypeOK' /\ CallInv'
<1>1. /\ recorded' = recorded /\ closing' = closing /\ Returns(c, recorded[thread[c]])
      /\ recorded[thread[c]].stage \in Decision
      /\ recorded \in [Thread -> Investigation] /\ closing \subseteq Thread
  BY DEF Shown, investigations, TypeOK
<1>2. thread[c] \in Thread
  BY DEF Shown, CallInv, Calls, Called, Reviewing
<1>3. Shows(recorded[thread[c]], recorded[thread[c]])
  BY DEF Shows, SameReport
<1> QED
  BY <1>1, <1>2, <1>3, Returns_CallInv DEF Stays, Decision

LEMMA Close_CallInv ==
  ASSUME TypeOK, CallInv, NEW c \in Script, Close(c)
  PROVE  CallTypeOK' /\ CallInv'
<1>1. /\ recorded' = [recorded EXCEPT ![thread[c]] = local[c]] /\ Returns(c, local[c])
      /\ closing' = closing \ {thread[c]}
  BY DEF Close
<1>2. /\ thread[c] \in Thread /\ local[c].stage \in Decision
      /\ SameReport(local[c], recorded[thread[c]]) /\ recorded[thread[c]].stage \in Decision
  BY DEF Close, CallInv, Calls, Called, Reviewing
<1>3. /\ recorded \in [Thread -> Investigation] /\ closing \subseteq Thread
      /\ local[c] \in Investigation
  BY DEF TypeOK
<1>4. recorded' \in [Thread -> Investigation] /\ recorded'[thread[c]] = local[c]
  BY <1>1, <1>2, <1>3
<1>5. \A t \in Thread : Stays(recorded[t], recorded'[t])
  BY <1>1, <1>2, <1>3 DEF Stays, Reviewable
<1>6. Shows(local[c], local[c])
  BY DEF Shows, SameReport
<1> QED
  BY <1>1, <1>2, <1>3, <1>4, <1>5, <1>6, Returns_CallInv DEF Decision

(* A call that goes on with its review, and may write its thread.          *)
LEMMA Goes_CallInv ==
  ASSUME TypeOK, CallInv, NEW c \in Script, NEW step, step \notin Running, NEW l \in Investigation,
         Goto(c, step), local' = [local EXCEPT ![c] = l],
         UNCHANGED <<active, page, owner, stopped, thread, answer>>,
         recorded' \in [Thread -> Investigation], closing' \subseteq Thread,
         \A t \in Thread : Stays(recorded[t], recorded'[t]),
         Called(step, thread[c], answer[c], l)'
  PROVE  CallTypeOK' /\ CallInv'
<1>0. doing \in [Script -> Step] /\ local \in [Script -> Investigation]
  BY DEF TypeOK
<1>1. CallTypeOK'
  BY DEF CallTypeOK, TypeOK
<1>2. Calls'
  <2> SUFFICES ASSUME NEW d \in Script
               PROVE  Called(doing[d], thread[d], answer[d], local[d])'
    BY DEF Calls
  <2>1. CASE d = c
    <3>1. doing'[d] = step /\ local'[d] = l
      BY <1>0, <2>1 DEF Goto
    <3> QED
      BY <2>1, <3>1
  <2>2. CASE d # c
    <3>1. Called(doing[d], thread[d], answer[d], local[d])
      BY DEF CallInv, Calls
    <3>2. UNCHANGED <<doing[d], thread[d], answer[d], local[d]>>
      BY <1>0, <2>2 DEF Goto
    <3> QED
      BY <3>1, <3>2, CalledStays
  <2> QED
    BY <2>1, <2>2
<1>3. Runs'
  BY <1>0 DEF CallInv, Runs, Goto
<1>4. Pages'
  <2> SUFFICES ASSUME NEW s \in Session PROVE Paged(active[s], page[s])'
    BY DEF Pages
  <2>1. Paged(active[s], page[s]) /\ active[s] \in Thread \cup {None}
    BY DEF CallInv, Pages, TypeOK
  <2> QED
    BY <2>1, PagedStays
<1>5. ThreadsNotShared'
  BY DEF CallInv, ThreadsNotShared
<1> QED
  BY <1>1, <1>2, <1>3, <1>4, <1>5 DEF CallInv

LEMMA Review_CallInv ==
  ASSUME TypeOK, CallInv, NEW c \in Script, Accepted(c) \/ Resume(c) \/ Decide(c)
  PROVE  CallTypeOK' /\ CallInv'
<1> DEFINE t == thread[c]
<1>0. /\ recorded \in [Thread -> Investigation] /\ closing \subseteq Thread
      /\ local \in [Script -> Investigation] /\ local[c] \in Investigation
      /\ doing[c] \in Reviewing
      /\ UNCHANGED <<active, page, owner, stopped, thread, answer>>
  BY DEF TypeOK, Accepted, Resume, Decide, session, call, Reviewing
<1>1. t \in Thread /\ recorded[t].stage \in Reviewable /\ answer[c] \in Decision
  BY <1>0 DEF CallInv, Calls, Called
<1>2. CASE Accepted(c)
  <2>1. /\ local' = [local EXCEPT ![c] = local[c]] /\ recorded' = recorded /\ closing' = closing
        /\ Goto(c, "resume")
    BY <1>0, <1>2 DEF Accepted, call, investigations
  <2>2. Called("resume", t, answer[c], local[c])'
    BY <1>0, <1>1, <2>1 DEF Called, Running, Reviewing
  <2>3. \A u \in Thread : Stays(recorded[u], recorded'[u])
    BY <2>1 DEF Stays
  <2> QED
    BY <1>0, <2>1, <2>2, <2>3, Goes_CallInv DEF Running
<1>3. CASE Resume(c)
  <2>1. PICK r \in Investigation : r = recorded[t]
    BY <1>0, <1>1
  <2>2. PICK step \in {"decide", "close"} : step = IF r.stage = "pending" THEN "decide" ELSE "close"
    OBVIOUS
  <2>3. /\ local' = [local EXCEPT ![c] = r] /\ recorded' = recorded /\ closing' = closing
        /\ Goto(c, step)
    BY <1>0, <1>1, <1>3, <2>1, <2>2 DEF Resume, investigations
  <2>4. Called(step, t, answer[c], r)'
    BY <1>0, <1>1, <2>1, <2>2, <2>3 DEF Called, Running, Reviewing, Reviewable, SameReport
  <2>5. \A u \in Thread : Stays(recorded[u], recorded'[u])
    BY <2>3 DEF Stays
  <2> QED
    BY <1>0, <2>2, <2>3, <2>4, <2>5, Goes_CallInv DEF Running
<1>4. CASE Decide(c)
  <2>1. local[c].stage = "pending" /\ SameReport(local[c], recorded[t])
    BY <1>4 DEF Decide, CallInv, Calls, Called
  <2>2. PICK l \in Investigation : l = [local[c] EXCEPT !.stage = answer[c]]
    BY <1>0, <1>1 DEF Investigation, Stage, Reviewable
  <2>3. l.stage = answer[c] /\ SameReport(l, recorded[t])
    BY <1>0, <2>1, <2>2 DEF Investigation, SameReport
  <2>4. /\ local' = [local EXCEPT ![c] = l] /\ recorded' = [recorded EXCEPT ![t] = l]
        /\ closing' = closing \cup {t} /\ Goto(c, "close")
    BY <1>0, <1>4, <2>2 DEF Decide
  <2>5. recorded' \in [Thread -> Investigation] /\ recorded'[t] = l
    BY <1>0, <1>1, <2>4
  <2>6. \A u \in Thread : Stays(recorded[u], recorded'[u])
    BY <1>0, <1>1, <2>3, <2>4 DEF Stays
  <2>7. Called("close", t, answer[c], l)'
    BY <1>0, <1>1, <2>3, <2>5 DEF Called, Running, Reviewing, Reviewable, SameReport
  <2> QED
    BY <1>0, <1>1, <2>4, <2>5, <2>6, <2>7, Goes_CallInv DEF Running
<1> QED
  BY <1>2, <1>3, <1>4

LEMMA Submit_CallInv ==
  ASSUME TypeOK, CallInv, NEW s \in Session, NEW c \in Script, NEW d \in Decision, Submit(s, c, d)
  PROVE  CallTypeOK' /\ CallInv'
<1>0. /\ doing \in [Script -> Step] /\ owner \in [Script -> Session \cup {None}]
      /\ thread \in [Script -> Thread \cup {None}] /\ answer \in [Script -> Decision \cup {None}]
      /\ active \in [Session -> Thread \cup {None}]
  BY DEF TypeOK
<1>1. /\ doing[c] = "idle"
      /\ doing' = [doing EXCEPT ![c] = "check"] /\ owner' = [owner EXCEPT ![c] = s]
      /\ thread' = [thread EXCEPT ![c] = active[s]] /\ answer' = [answer EXCEPT ![c] = d]
      /\ UNCHANGED <<active, page, stopped, local, recorded, closing>>
  BY DEF Submit, Begins, Goto, session, investigations
<1>2. active[s] \in Thread /\ active[s] # None /\ recorded[active[s]].stage \in Reviewable
  <2>1. page[s].stage = "pending"
    BY DEF Submit, Form
  <2>2. active[s] # None
    BY <2>1 DEF CallInv, Pages, Paged, Absent
  <2> QED
    BY <1>0, <2>1, <2>2 DEF CallInv, Pages, Paged, Shows, Reviewable
<1>3. CallTypeOK'
  BY <1>0, <1>1 DEF CallTypeOK, TypeOK
<1>4. Calls'
  <2> SUFFICES ASSUME NEW b \in Script
               PROVE  Called(doing[b], thread[b], answer[b], local[b])'
    BY DEF Calls
  <2>1. CASE b = c
    BY <1>0, <1>1, <1>2, <2>1 DEF Called, Running, Reviewing
  <2>2. CASE b # c
    <3>1. Called(doing[b], thread[b], answer[b], local[b])
      BY DEF CallInv, Calls
    <3>2. UNCHANGED <<doing[b], thread[b], answer[b], local[b]>>
      BY <1>0, <1>1, <2>2
    <3> QED
      BY <1>1, <3>1, <3>2, CalledStays DEF Stays
  <2> QED
    BY <2>1, <2>2
<1>5. Runs'
  <2>1. \A b \in Script : doing[b] \in Running => thread[b] # active[s]
    BY <1>2 DEF CallInv, Calls, Called, Reviewable, Decision
  <2> QED
    BY <1>0, <1>1, <2>1 DEF CallInv, Runs, Running
<1>6. Pages'
  BY <1>1 DEF CallInv, Pages, Paged
<1>7. ThreadsNotShared'
  BY <1>0, <1>1, <1>2 DEF CallInv, ThreadsNotShared
<1> QED
  BY <1>3, <1>4, <1>5, <1>6, <1>7 DEF CallInv

(* A run takes a thread that no call and no page knows.                    *)
LEMMA Run_CallInv ==
  ASSUME TypeOK, CallInv, NEW s \in Session, NEW c \in Script, Run(s, c)
  PROVE  CallTypeOK' /\ CallInv'
<1>0. /\ doing \in [Script -> Step] /\ owner \in [Script -> Session \cup {None}]
      /\ thread \in [Script -> Thread \cup {None}] /\ recorded \in [Thread -> Investigation]
      /\ active \in [Session -> Thread \cup {None}]
  BY DEF TypeOK
<1>1. PICK t \in Thread :
        /\ recorded[t] = Absent
        /\ recorded' = [recorded EXCEPT ![t] = [Absent EXCEPT !.stage = "open"]]
        /\ thread' = [thread EXCEPT ![c] = t]
  BY DEF Run, NewThread
<1>2. /\ doing[c] = "idle"
      /\ doing' = [doing EXCEPT ![c] = "profile"] /\ owner' = [owner EXCEPT ![c] = s]
      /\ UNCHANGED <<active, page, stopped, answer, local, closing>>
  BY DEF Run, Begins, Goto, session
<1>3. /\ recorded[t].stage = "none" /\ recorded'[t].stage = "open" /\ t # None
      /\ [Absent EXCEPT !.stage = "open"] \in Investigation
  BY <1>0, <1>1, DashboardAssumption DEF Absent, Investigation, Stage
<1>4. \A b \in Script : thread[b] # t
  BY <1>3 DEF CallInv, Calls, Called, Reviewable, Decision
<1>5. \A u \in Session : active[u] # t
  BY <1>3 DEF CallInv, Pages, Paged
<1>6. CallTypeOK'
  BY <1>0, <1>1, <1>2, <1>3 DEF CallTypeOK, TypeOK
<1>7. Calls'
  <2> SUFFICES ASSUME NEW b \in Script
               PROVE  Called(doing[b], thread[b], answer[b], local[b])'
    BY DEF Calls
  <2>1. CASE b = c
    BY <1>0, <1>1, <1>2, <1>3, <2>1 DEF Called, Running, Reviewing
  <2>2. CASE b # c
    <3>1. Called(doing[b], thread[b], answer[b], local[b])
      BY DEF CallInv, Calls
    <3>2. UNCHANGED <<doing[b], thread[b], answer[b], local[b]>>
      BY <1>0, <1>1, <1>2, <2>2
    <3>3. thread[b] \in Thread => recorded'[thread[b]] = recorded[thread[b]]
      BY <1>0, <1>1, <1>4
    <3> QED
      BY <3>1, <3>2, <3>3, CalledStays DEF Stays
  <2> QED
    BY <2>1, <2>2
<1>8. Runs'
  BY <1>0, <1>1, <1>2, <1>4 DEF CallInv, Runs
<1>9. Pages'
  <2> SUFFICES ASSUME NEW u \in Session PROVE Paged(active[u], page[u])'
    BY DEF Pages
  <2>1. Paged(active[u], page[u])
    BY DEF CallInv, Pages
  <2>2. active[u] \in Thread => recorded'[active[u]] = recorded[active[u]]
    BY <1>0, <1>1, <1>5
  <2> QED
    BY <1>0, <1>2, <2>1, <2>2, PagedStays DEF Stays
<1>10. ThreadsNotShared'
  BY <1>0, <1>1, <1>2, <1>4, <1>5 DEF CallInv, ThreadsNotShared
<1> QED
  BY <1>6, <1>7, <1>8, <1>9, <1>10 DEF CallInv

(* Stopping a script changes nothing of its call.                          *)
LEMMA StopStep_CallInv ==
  ASSUME TypeOK, CallInv, StopStep
  PROVE  CallTypeOK' /\ CallInv' /\ faults' \in 0..MaxFaults
<1>1. PICK C \in SUBSET Script : Stop(C)
  BY DEF StopStep, ClickTooEarly, SessionEnds
<1>2. \/ UNCHANGED <<active, page>>
      \/ \E s \in Session : /\ active' = [active EXCEPT ![s] = None]
                            /\ page' = [page EXCEPT ![s] = Absent]
  BY DEF StopStep, ClickTooEarly, SessionEnds, session
<1>3. /\ UNCHANGED <<owner, thread, answer, local, recorded, closing>>
      /\ stopped' = stopped \cup C
      /\ \A c \in Script : \/ doing'[c] = doing[c]
                           \/ doing[c] \in Browsing /\ doing'[c] = "dropped"
  BY <1>1, Stopping DEF Stop
<1>4. /\ active \in [Session -> Thread \cup {None}] /\ page \in [Session -> Investigation]
      /\ Absent \in Investigation /\ stopped \subseteq Script
  BY DEF TypeOK, Absent, Investigation, Stage
<1>5. CallTypeOK'
  BY <1>2, <1>3, <1>4 DEF CallTypeOK, TypeOK
<1>6. Calls'
  <2> SUFFICES ASSUME NEW d \in Script
               PROVE  Called(doing[d], thread[d], answer[d], local[d])'
    BY DEF Calls
  <2>1. Called(doing[d], thread[d], answer[d], local[d])
    BY DEF CallInv, Calls
  <2>2. Called(doing'[d], thread[d], answer[d], local[d])
    BY <1>3, <2>1 DEF Called, Browsing, Running, Reviewing
  <2> QED
    BY <1>3, <2>2, CalledStays DEF Stays
<1>7. Runs'
  BY <1>3 DEF CallInv, Runs, Running
<1>8. Pages'
  BY <1>2, <1>3, <1>4 DEF CallInv, Pages, Paged
<1>9. ThreadsNotShared'
  BY <1>2, <1>3, <1>4 DEF CallInv, ThreadsNotShared
<1>10. faults' \in 0..MaxFaults
  BY <1>1, DashboardAssumption DEF Stop, TypeOK
<1> QED
  BY <1>5, <1>6, <1>7, <1>8, <1>9, <1>10 DEF CallInv

LEMMA Next_CallInv ==
  ASSUME TypeOK, Views, CallInv, [Next]_vars
  PROVE  CallTypeOK' /\ CallInv'
<1>1. CASE OutsideStep \/ UNCHANGED vars
  <2>1. UNCHANGED <<doing, owner, stopped, thread, answer, local, active, page, recorded, closing>>
    BY <1>1, Outside DEF script, call, investigations
  <2> QED
    BY <2>1 DEF CallTypeOK, TypeOK, CallInv, Calls, Called, Runs, Pages, Paged, ThreadsNotShared
<1>2. ASSUME NEW c \in Script, ScriptStep(c) \/ \E s \in Session : Click(s, c)
      PROVE  CallTypeOK' /\ CallInv'
  BY <1>2, ScriptStep_Kind, Reads_CallInv, Opens_CallInv, Leaves_CallInv, Concludes_CallInv,
     Shown_CallInv, Run_CallInv, Submit_CallInv, Review_CallInv, Close_CallInv
<1> QED
  BY <1>1, <1>2, StopStep_CallInv, Steps DEF ClickStep

-------------------------------------------------------------------------------
(* Types, and the invariant.                                               *)

LEMMA Next_TypeOK ==
  ASSUME TypeOK, Known, Views, CallInv, ReadsTypeOK', [Next]_vars
  PROVE  TypeOK'
<1>1. CallTypeOK' /\ Views'
  BY Next_CallInv, Next_Views
<1>2. CASE OutsideStep \/ UNCHANGED vars
  <2>1. history' \subseteq Batches /\ current' \in Batches \cup {{}}
    BY <1>2 DEF OutsideStep, Assess, Publish, Show, TablesGrow, RefreshPortfolio, vars, mart, TypeOK
  <2>2. portfolio' \in [Session -> Portfolio \cup {None}]
    BY <1>2 DEF OutsideStep, Assess, TablesGrow, RefreshPortfolio, vars, session, TypeOK
  <2>3. UNCHANGED <<doing, view, faults>>
    BY <1>2, Outside DEF script
  <2> QED
    BY <1>1, <2>1, <2>2, <2>3 DEF TypeOK, CallTypeOK
<1>3. ASSUME NEW c \in Script, ScriptStep(c) \/ \E s \in Session : Click(s, c)
      PROVE  TypeOK'
  <2>1. UNCHANGED mart
    BY <1>3, ScriptStep_mart
  <2>2. portfolio' \in [Session -> Portfolio \cup {None}] /\ faults' = faults
    <3>1. CASE Estimate(c) \/ \E s \in Session : Click(s, c)
      BY <3>1 DEF TypeOK, Estimate, Click, OpenPage, Explore, Run, Submit, session
    <3>2. CASE BrowsingStep(c)
      BY <3>2 DEF TypeOK, BrowsingStep, PortfolioLoaded, PortfolioUnavailable, DropRead,
         HistoryShown, HistoryUnavailable, EvidenceShown, EvidenceUnavailable, LeaveExplorer,
         session, CurrentPortfolio, Portfolio
    <3>3. CASE RunStep(c)
      BY <3>3 DEF TypeOK, RunStep, ProfileRead, RiskRead, HistoryRead, EvidenceRead,
         NoEvidenceToRead, Report, RunFails, RunRaises, RunEnds, session
    <3>4. CASE ReviewStep(c)
      BY <3>4 DEF TypeOK, ReviewStep, Accepted, Duplicate, Resume, NothingToResume, Decide, Close,
         SubmissionRaises, session
    <3> QED
      BY <1>3, <3>1, <3>2, <3>3, <3>4 DEF ScriptStep
  <2>3. Moves(c)
    <3>1. CASE Estimate(c)
      BY <3>1, Staying DEF Estimate, script, Moves, Views
    <3> QED
      BY <1>3, <3>1, BrowsingStep_Moves, RunStep_Moves, ReviewStep_Moves, Click_Moves
      DEF ScriptStep
  <2>4. doing' \in [Script -> Step] /\ view' \in [Script -> View]
    BY <2>3 DEF Moves, Goto, See, Seen, TypeOK
  <2> QED
    BY <1>1, <2>1, <2>2, <2>4 DEF TypeOK, CallTypeOK, mart
<1>4. CASE StopStep
  <2>1. PICK C : Stop(C)
    BY <1>4 DEF StopStep, ClickTooEarly, SessionEnds
  <2>2. doing' \in [Script -> Step] /\ view' \in [Script -> View]
    <3>1. doing' = [c \in Script |-> doing'[c]] /\ view' = [c \in Script |-> view'[c]]
      BY <2>1 DEF Stop
    <3>2. \A c \in Script : doing'[c] \in Step /\ view'[c] \in View
      BY <1>1 DEF Views, Seen
    <3> QED
      BY <3>1, <3>2
  <2>3. portfolio' \in [Session -> Portfolio \cup {None}]
    BY <1>4 DEF StopStep, ClickTooEarly, SessionEnds, session, TypeOK
  <2> QED
    BY <1>1, <1>4, <2>1, <2>2, <2>3, Stopping, StopStep_CallInv DEF TypeOK, CallTypeOK, mart
<1> QED
  BY <1>2, <1>3, <1>4, Steps DEF ClickStep

DashboardInv == TypeOK /\ BilledWithinBudget /\ Known /\ Views /\ CallInv

LEMMA Init_DashboardInv == Init => DashboardInv
<1> SUFFICES ASSUME Init PROVE DashboardInv
  OBVIOUS
<1>1. AllRows = {} /\ IsFiniteSet(AllRows)
  BY FS_EmptySet DEF Init, MartInit, AllRows
<1>2. Known
  BY <1>1 DEF Init, MartInit, Known
<1>3. Views
  BY BlankSeen DEF Init, Views, Quiet
<1>4. CallInv
  BY DEF Init, CallInv, Calls, Called, Runs, Pages, Paged, ThreadsNotShared, Running, Reviewing
<1>5. ReadsTypeOK /\ BilledWithinBudget
  BY ReadsAssumption DEF Init, ReadsInit, ReadsTypeOK, BilledWithinBudget
<1>6. TypeOK
  <2>1. Blank \in View /\ Absent \in Investigation
    BY DEF Blank, View, Absent, Investigation, Stage
  <2>2. faults \in 0..MaxFaults
    BY DashboardAssumption DEF Init
  <2>3. doing \in [Script -> Step]
    BY DEF Init, Step
  <2> QED
    BY <1>5, <2>1, <2>2, <2>3 DEF Init, MartInit, TypeOK
<1> QED
  BY <1>2, <1>3, <1>4, <1>5, <1>6 DEF DashboardInv

LEMMA Next_DashboardInv ==
  ASSUME DashboardInv, [Next]_vars PROVE DashboardInv'
<1>1. ReadsInv'
  BY Next_ReadsInv DEF DashboardInv, TypeOK, ReadsInv
<1> QED
  BY <1>1, Next_TypeOK, Next_Known, Next_Views, Next_CallInv DEF DashboardInv, ReadsInv

LEMMA DashboardInv_Always == Spec => []DashboardInv
<1>1. DashboardInv /\ [Next]_vars => DashboardInv'
  BY Next_DashboardInv
<1> QED
  BY <1>1, Init_DashboardInv, PTL DEF Spec

(* Sessions, scripts, pages, investigations and reads keep to their types. *)
THEOREM TypeCorrect == Spec => []TypeOK
<1>1. DashboardInv => TypeOK
  BY DEF DashboardInv
<1> QED
  BY <1>1, DashboardInv_Always, PTL

(* For all sessions, scripts and clicks: the application keeps each thread *)
(* to one session, so only clicks of one reader overlap on a thread.       *)
THEOREM SessionsShareNoThread == Spec => []ThreadsNotShared
<1>1. DashboardInv => ThreadsNotShared
  BY DEF DashboardInv, CallInv
<1> QED
  BY <1>1, DashboardInv_Always, PTL

(* For all clicks, of any number and at any time, a page shows the report  *)
(* under review, and a decision only when one is recorded                  *)
(* (submit_review, _render_review_form).                                   *)
THEOREM PageAlwaysShowsItsReport == Spec => []PageShowsItsReport
<1>1. DashboardInv => PageShowsItsReport
  BY DEF DashboardInv, CallInv, Pages, Paged, Shows, SameReport, PageShowsItsReport
<1> QED
  BY <1>1, DashboardInv_Always, PTL

(* For all batches, portfolios cached however long, and tables replaced    *)
(* between any two reads, a history shown with an assessment has it, or    *)
(* has as many newer ones as the limit allows (get_supplier_risk_history). *)
THEOREM HistoryAlwaysHasAssessment == Spec => []HistoryHasAssessment
<1>1. DashboardInv => HistoryHasAssessment
  BY DEF DashboardInv, Views, Seen, HasAssessment, HistoryHasAssessment
<1> QED
  BY <1>1, DashboardInv_Always, PTL

-------------------------------------------------------------------------------
(* Investigations.                                                         *)

(* What becomes of an investigation: it starts, its run ends, or a         *)
(* submission that was let in decides it.                                  *)
Starts(t, inv) == recorded[t] = Absent /\ inv = [Absent EXCEPT !.stage = "open"]

IsConcluded(t, inv) == recorded[t].stage = "open" /\ inv \in RunResult

IsDecided(t, inv) ==
  /\ recorded[t].stage \in Reviewable
  /\ inv.stage \in Decision /\ SameReport(inv, recorded[t])
  /\ \E c \in Script : LetIn(c) /\ thread[c] = t

LEMMA RecordedChanges ==
  ASSUME DashboardInv, [Next]_vars, recorded' # recorded
  PROVE  \E t \in Thread, inv \in Investigation :
           /\ recorded' = [recorded EXCEPT ![t] = inv]
           /\ Starts(t, inv) \/ IsConcluded(t, inv) \/ IsDecided(t, inv)
<1>0. TypeOK /\ Views /\ CallInv /\ recorded \in [Thread -> Investigation]
  BY DEF DashboardInv, TypeOK
<1>1. CASE OutsideStep \/ StopStep \/ UNCHANGED vars
  BY <1>1, Outside, Stopping DEF investigations, StopStep, ClickTooEarly, SessionEnds
<1>2. ASSUME NEW c \in Script, ScriptStep(c) \/ \E s \in Session : Click(s, c)
      PROVE  \E t \in Thread, inv \in Investigation :
               /\ recorded' = [recorded EXCEPT ![t] = inv]
               /\ Starts(t, inv) \/ IsConcluded(t, inv) \/ IsDecided(t, inv)
  <2>1. \/ Concludes(c) \/ Decide(c) \/ Close(c) \/ \E s \in Session : Run(s, c)
    BY <1>0, <1>2, ScriptStep_Kind DEF Reads, Opens, Leaves, Shown, SameInvestigations,
       investigations, Submit, Accepted, Resume
  <2>2. CASE Concludes(c)
    <3>1. thread[c] \in Thread /\ recorded[thread[c]].stage = "open"
      BY <1>0, <2>2 DEF Concludes, CallInv, Calls, Called
    <3> QED
      BY <2>2, <3>1 DEF Concludes, RunResult, IsConcluded
  <2>3. ASSUME NEW s \in Session, Run(s, c)
        PROVE  \E t \in Thread, inv \in Investigation :
                 recorded' = [recorded EXCEPT ![t] = inv] /\ Starts(t, inv)
    <3>1. [Absent EXCEPT !.stage = "open"] \in Investigation
      BY DEF Absent, Investigation, Stage
    <3> QED
      BY <2>3, <3>1 DEF Run, NewThread, Starts
  <2>4. CASE Decide(c)
    <3>1. /\ thread[c] \in Thread /\ recorded[thread[c]].stage \in Reviewable
          /\ answer[c] \in Decision /\ SameReport(local[c], recorded[thread[c]])
          /\ local \in [Script -> Investigation]
      BY <1>0, <2>4 DEF Decide, CallInv, Calls, Called, Reviewing, TypeOK
    <3>2. PICK inv \in Investigation : inv = [local[c] EXCEPT !.stage = answer[c]]
      BY <3>1 DEF Investigation, Stage, Reviewable
    <3>3. inv.stage = answer[c] /\ SameReport(inv, recorded[thread[c]])
      BY <3>1, <3>2 DEF SameReport, Investigation
    <3>4. recorded' = [recorded EXCEPT ![thread[c]] = inv]
      BY <2>4, <3>1, <3>2 DEF Decide
    <3> QED
      BY <2>4, <3>1, <3>3, <3>4 DEF Decide, IsDecided, LetIn
  <2>5. CASE Close(c)
    <3>1. /\ thread[c] \in Thread /\ recorded[thread[c]].stage \in Reviewable
          /\ local[c].stage \in Decision /\ SameReport(local[c], recorded[thread[c]])
          /\ local[c] \in Investigation
      BY <1>0, <2>5 DEF Close, CallInv, Calls, Called, Reviewing, TypeOK
    <3> QED
      BY <2>5, <3>1 DEF Close, IsDecided, LetIn
  <2> QED
    BY <2>1, <2>2, <2>3, <2>4, <2>5
<1> QED
  BY <1>1, <1>2, Steps DEF ClickStep

(* For all sessions and tables, the evidence on a page or in a report is   *)
(* named by the assessment that it goes with (get_risk_evidence,           *)
(* load_evidence).                                                         *)
THEOREM EvidenceIsAlwaysNamed == Spec => []EvidenceIsNamed
<1> DEFINE Kept == \A t \in Thread : Named(recorded[t])
<1>1. Init => Kept
  BY DEF Init, Absent, Named
<1>2. DashboardInv /\ Kept /\ [Next]_vars => Kept'
  <2> SUFFICES ASSUME DashboardInv, Kept, [Next]_vars, recorded' # recorded PROVE Kept'
    BY DEF Named
  <2>1. PICK t \in Thread, inv \in Investigation :
          /\ recorded' = [recorded EXCEPT ![t] = inv]
          /\ Starts(t, inv) \/ IsConcluded(t, inv) \/ IsDecided(t, inv)
    BY RecordedChanges
  <2>2. Named(inv)
    BY <2>1 DEF Starts, IsConcluded, IsDecided, RunResult, SameReport, Absent, Named
  <2>3. recorded \in [Thread -> Investigation]
    BY DEF DashboardInv, TypeOK
  <2> QED
    BY <2>1, <2>2, <2>3
<1>3. DashboardInv /\ Kept => EvidenceIsNamed
  BY DEF DashboardInv, Views, Seen, Named, EvidenceIsNamed
<1> HIDE DEF Kept
<1> QED
  BY <1>1, <1>2, <1>3, DashboardInv_Always, PTL DEF Spec

(* A submission is let in only to a thread that is pending.                *)
LEMMA LettingIn ==
  ASSUME DashboardInv, [Next]_vars, NEW c \in Script, LetIn(c)'
  PROVE  /\ thread'[c] = thread[c] /\ thread[c] \in Thread
         /\ LetIn(c) \/ recorded[thread[c]].stage = "pending"
<1>0. TypeOK /\ Views /\ CallInv /\ doing \in [Script -> Step] /\ DashboardInv'
  BY Next_DashboardInv DEF DashboardInv, TypeOK
<1>1. doing'[c] \in {"resume", "decide", "close"} /\ thread'[c] \in Thread
  BY <1>0 DEF LetIn, DashboardInv, CallInv, Calls, Called, Reviewing
<1>2. CASE thread'[c] = thread[c] /\ doing'[c] = doing[c]
  BY <1>1, <1>2 DEF LetIn
<1>3. CASE OutsideStep \/ UNCHANGED vars
  BY <1>2, <1>3, Outside DEF script, call
<1>4. CASE StopStep
  BY <1>1, <1>2, <1>4, Stopping DEF StopStep, ClickTooEarly, SessionEnds
<1>5. ASSUME NEW b \in Script, ScriptStep(b) \/ \E s \in Session : Click(s, b)
      PROVE  \/ thread'[c] = thread[c] /\ doing'[c] = doing[c]
             \/ /\ thread'[c] = thread[c]
                /\ LetIn(c) \/ recorded[thread[c]].stage = "pending"
  <2>0. /\ thread \in [Script -> Thread \cup {None}]
        /\ \/ Reads(b) \/ Opens(b) \/ Leaves(b) \/ Concludes(b) \/ Shown(b)
           \/ \E s \in Session : Run(s, b) \/ \E d \in Decision : Submit(s, b, d)
           \/ Accepted(b) \/ Resume(b) \/ Decide(b) \/ Close(b)
    BY <1>0, <1>5, ScriptStep_Kind DEF TypeOK
  <2>1. CASE Accepted(b) \/ Resume(b) \/ Decide(b)
    BY <1>0, <2>1 DEF Accepted, Resume, Decide, Goto, call, LetIn
  <2>2. CASE Leaves(b) \/ Concludes(b) \/ Shown(b) \/ Close(b)
    <3>1. Ends(b)
      BY <2>2 DEF Leaves, Concludes, Shown, Close, Returns
    <3> QED
      BY <1>0, <1>1, <3>1, Ends_Call
  <2>3. CASE Reads(b)
    BY <1>0, <1>1, <2>3 DEF Reads, call, Goto, Reviewing
  <2>4. CASE Opens(b)
    <3>1. PICK s \in Session, step \in Browsing : Begins(s, b, step)
      BY <2>4 DEF Opens
    <3>2. thread' = thread /\ doing' = [doing EXCEPT ![b] = step]
      BY <2>4, <3>1 DEF Opens, Begins, Goto
    <3> QED
      BY <1>0, <1>1, <3>2 DEF Browsing
  <2>5. ASSUME NEW s \in Session, NEW d \in Decision, Run(s, b) \/ Submit(s, b, d)
        PROVE  c # b /\ thread'[c] = thread[c] /\ doing'[c] = doing[c]
    BY <1>0, <1>1, <2>0, <2>5 DEF Run, Submit, Begins, Goto
  <2> QED
    BY <2>0, <2>1, <2>2, <2>3, <2>4, <2>5 DEF Decision
<1> QED
  BY <1>1, <1>2, <1>3, <1>4, <1>5, Steps DEF ClickStep, LetIn

(* However many scripts submit reviews of a thread at a time, and however  *)
(* often it is submitted again: what is recorded when the last submission  *)
(* that was let in is over is never changed (submit_review).               *)
THEOREM SettledDecisionsStand == Spec => SettledDecisionStands
<1> DEFINE Stands ==
      \A t \in Thread : Settled(t) => recorded'[t] = recorded[t] /\ Settled(t)'
<1>1. DashboardInv /\ [Next]_vars => Stands
  <2> SUFFICES ASSUME DashboardInv, [Next]_vars, NEW t \in Thread, Settled(t)
               PROVE  recorded'[t] = recorded[t] /\ Settled(t)'
    OBVIOUS
  <2>0. recorded \in [Thread -> Investigation]
    BY DEF DashboardInv, TypeOK
  <2>1. recorded[t].stage \in Decision /\ \A c \in Script : LetIn(c) => thread[c] # t
    BY DEF Settled
  <2>2. recorded'[t] = recorded[t]
    <3>1. CASE recorded' = recorded
      BY <3>1
    <3>2. CASE recorded' # recorded
      <4>1. PICK u \in Thread, inv \in Investigation :
              /\ recorded' = [recorded EXCEPT ![u] = inv]
              /\ Starts(u, inv) \/ IsConcluded(u, inv) \/ IsDecided(u, inv)
        BY <3>2, RecordedChanges
      <4>2. u # t
        BY <2>1, <4>1 DEF Starts, IsConcluded, IsDecided, Absent, Decision
      <4> QED
        BY <2>0, <4>1, <4>2
    <3> QED
      BY <3>1, <3>2
  <2>3. \A c \in Script : LetIn(c)' => thread'[c] # t
    BY <2>1, LettingIn DEF Decision
  <2> QED
    BY <2>1, <2>2, <2>3 DEF Settled
<1>2. Stands => [Stands]_vars
  OBVIOUS
<1>3. [Stands]_vars => [\A t \in Thread :
         Settled(t) => recorded'[t] = recorded[t] /\ Settled(t)']_vars
  OBVIOUS
<1> HIDE DEF Stands
<1> QED
  BY <1>1, <1>2, <1>3, DashboardInv_Always, PTL DEF Spec, SettledDecisionStands

(* How the change of one investigation looks through the mapping.          *)
SeenAs(t, r) ==
  /\ [u \in Thread |-> StageOf(recorded'[u])]
       = [[u \in Thread |-> StageOf(recorded[u])] EXCEPT ![t] = StageOf(r)]
  /\ [u \in Thread |-> SubjectOf(u, recorded'[u])]
       = [[u \in Thread |-> SubjectOf(u, recorded[u])] EXCEPT ![t] = SubjectOf(t, r)]
  /\ [u \in Thread |-> OfferOf(u, recorded'[u])]
       = [[u \in Thread |-> OfferOf(u, recorded[u])] EXCEPT ![t] = OfferOf(t, r)]
  /\ [u \in Thread |-> ShownWith(recorded'[u])]
       = [[u \in Thread |-> ShownWith(recorded[u])] EXCEPT ![t] = ShownWith(r)]
  /\ [u \in Thread |-> VerdictOn(u, recorded'[u])]
       = [[u \in Thread |-> VerdictOn(u, recorded[u])] EXCEPT ![t] = VerdictOn(t, r)]

LEMMA SeenUpdate ==
  ASSUME TypeOK, NEW t \in Thread, NEW r, recorded' = [recorded EXCEPT ![t] = r]
  PROVE  SeenAs(t, r)
<1>1. \A u \in Thread : recorded'[u] = IF u = t THEN r ELSE recorded[u]
  BY DEF TypeOK
<1>2. [u \in Thread |-> StageOf(recorded'[u])]
        = [[u \in Thread |-> StageOf(recorded[u])] EXCEPT ![t] = StageOf(r)]
  <2> DEFINE f == [u \in Thread |-> StageOf(recorded[u])]
             g == [u \in Thread |-> StageOf(recorded'[u])]
  <2>1. \A u \in Thread : g[u] = IF u = t THEN StageOf(r) ELSE f[u]
    BY <1>1
  <2>2. f = [u \in Thread |-> f[u]] /\ g = [u \in Thread |-> g[u]]
    OBVIOUS
  <2> HIDE DEF f, g
  <2>3. g = [f EXCEPT ![t] = StageOf(r)]
    BY <2>1, <2>2
  <2> QED
    BY <2>3 DEF f, g
<1>3. [u \in Thread |-> SubjectOf(u, recorded'[u])]
        = [[u \in Thread |-> SubjectOf(u, recorded[u])] EXCEPT ![t] = SubjectOf(t, r)]
  <2> DEFINE f == [u \in Thread |-> SubjectOf(u, recorded[u])]
             g == [u \in Thread |-> SubjectOf(u, recorded'[u])]
  <2>1. \A u \in Thread : g[u] = IF u = t THEN SubjectOf(t, r) ELSE f[u]
    BY <1>1
  <2>2. f = [u \in Thread |-> f[u]] /\ g = [u \in Thread |-> g[u]]
    OBVIOUS
  <2> HIDE DEF f, g
  <2>3. g = [f EXCEPT ![t] = SubjectOf(t, r)]
    BY <2>1, <2>2
  <2> QED
    BY <2>3 DEF f, g
<1>4. [u \in Thread |-> OfferOf(u, recorded'[u])]
        = [[u \in Thread |-> OfferOf(u, recorded[u])] EXCEPT ![t] = OfferOf(t, r)]
  <2> DEFINE f == [u \in Thread |-> OfferOf(u, recorded[u])]
             g == [u \in Thread |-> OfferOf(u, recorded'[u])]
  <2>1. \A u \in Thread : g[u] = IF u = t THEN OfferOf(t, r) ELSE f[u]
    BY <1>1
  <2>2. f = [u \in Thread |-> f[u]] /\ g = [u \in Thread |-> g[u]]
    OBVIOUS
  <2> HIDE DEF f, g
  <2>3. g = [f EXCEPT ![t] = OfferOf(t, r)]
    BY <2>1, <2>2
  <2> QED
    BY <2>3 DEF f, g
<1>5. [u \in Thread |-> ShownWith(recorded'[u])]
        = [[u \in Thread |-> ShownWith(recorded[u])] EXCEPT ![t] = ShownWith(r)]
  <2> DEFINE f == [u \in Thread |-> ShownWith(recorded[u])]
             g == [u \in Thread |-> ShownWith(recorded'[u])]
  <2>1. \A u \in Thread : g[u] = IF u = t THEN ShownWith(r) ELSE f[u]
    BY <1>1
  <2>2. f = [u \in Thread |-> f[u]] /\ g = [u \in Thread |-> g[u]]
    OBVIOUS
  <2> HIDE DEF f, g
  <2>3. g = [f EXCEPT ![t] = ShownWith(r)]
    BY <2>1, <2>2
  <2> QED
    BY <2>3 DEF f, g
<1>6. [u \in Thread |-> VerdictOn(u, recorded'[u])]
        = [[u \in Thread |-> VerdictOn(u, recorded[u])] EXCEPT ![t] = VerdictOn(t, r)]
  <2> DEFINE f == [u \in Thread |-> VerdictOn(u, recorded[u])]
             g == [u \in Thread |-> VerdictOn(u, recorded'[u])]
  <2>1. \A u \in Thread : g[u] = IF u = t THEN VerdictOn(t, r) ELSE f[u]
    BY <1>1
  <2>2. f = [u \in Thread |-> f[u]] /\ g = [u \in Thread |-> g[u]]
    OBVIOUS
  <2> HIDE DEF f, g
  <2>3. g = [f EXCEPT ![t] = VerdictOn(t, r)]
    BY <2>1, <2>2
  <2> QED
    BY <2>3 DEF f, g
<1> QED
  BY <1>2, <1>3, <1>4, <1>5, <1>6 DEF SeenAs



LEMMA SeenUnchanged ==
  ASSUME recorded' = recorded
  PROVE  UNCHANGED Promise!reviewVars
BY DEF Promise!reviewVars

(* A run takes a new thread.                                               *)
LEMMA StartIsSeen ==
  ASSUME TypeOK, NEW t \in Thread, NEW r, Starts(t, r),
         recorded' = [recorded EXCEPT ![t] = r]
  PROVE  Promise!OnceNext
<1>1. /\ r.stage = "open" /\ ~Reported(r)
      /\ recorded[t].stage = "none" /\ ~Reported(recorded[t])
  BY DEF Starts, Absent, Reported, Reviewable, Decision
<1>2. SeenAs(t, r)
  BY SeenUpdate
<1>3. /\ StageOf(r) = "open" /\ SubjectOf(t, r) = t
      /\ StageOf(recorded[t]) = "absent"
      /\ OfferOf(t, r) = OfferOf(t, recorded[t]) /\ ShownWith(r) = ShownWith(recorded[t])
      /\ VerdictOn(t, r) = VerdictOn(t, recorded[t])
  BY <1>1 DEF StageOf, SubjectOf, OfferOf, ShownWith, VerdictOn, Decision
<1>4. Promise!Open(t, t)
  BY <1>2, <1>3 DEF SeenAs, Promise!Open
<1>5. [u \in Thread |-> StageOf(recorded'[u])][t] # [u \in Thread |-> StageOf(recorded[u])][t]
  BY <1>2, <1>3 DEF SeenAs
<1> QED
  BY <1>4, <1>5 DEF Promise!OnceNext, Promise!ReviewNext

(* The end of a run concludes the investigation or offers its report.      *)
LEMMA EndIsSeen ==
  ASSUME TypeOK, NEW t \in Thread, NEW inv \in Investigation, IsConcluded(t, inv),
         recorded' = [recorded EXCEPT ![t] = inv]
  PROVE  Promise!OnceNext
<1> DEFINE r == recorded[t]
<1>1. r.stage = "open" /\ inv.stage \in {"failed", "pending"}
  BY DEF IsConcluded, RunResult
<1>2. SeenAs(t, inv)
  BY SeenUpdate
<1> HIDE DEF r
<1>3. /\ StageOf(r) = "open" /\ SubjectOf(t, r) = t /\ OfferOf(t, r) = None
      /\ ShownWith(r) = {} /\ VerdictOn(t, r) = None
      /\ StageOf(inv) = inv.stage
      /\ SubjectOf(t, inv) = SubjectOf(t, r) /\ VerdictOn(t, inv) = VerdictOn(t, r)
  BY <1>1 DEF StageOf, SubjectOf, OfferOf, ShownWith, VerdictOn, Reported, Reviewable, Decision
<1>4. /\ [u \in Thread |-> StageOf(recorded[u])][t] = "open"
      /\ [u \in Thread |-> SubjectOf(u, recorded[u])][t] = t
  BY <1>3 DEF r
<1>5. /\ [u \in Thread |-> StageOf(recorded'[u])]
           = [[u \in Thread |-> StageOf(recorded[u])] EXCEPT ![t] = inv.stage]
      /\ [u \in Thread |-> SubjectOf(u, recorded'[u])]
           = [u \in Thread |-> SubjectOf(u, recorded[u])]
      /\ [u \in Thread |-> VerdictOn(u, recorded'[u])]
           = [u \in Thread |-> VerdictOn(u, recorded[u])]
  BY <1>2, <1>3 DEF SeenAs, r
<1>6. [u \in Thread |-> StageOf(recorded'[u])] # [u \in Thread |-> StageOf(recorded[u])]
  <2>1. [u \in Thread |-> StageOf(recorded'[u])][t] = inv.stage
    BY <1>5
  <2> QED
    BY <1>1, <1>4, <2>1
<1>7. CASE inv.stage = "failed"
  <2>1. OfferOf(t, inv) = OfferOf(t, r) /\ ShownWith(inv) = ShownWith(r)
    BY <1>3, <1>7 DEF OfferOf, ShownWith, Reported, Reviewable, Decision
  <2>2. /\ [u \in Thread |-> OfferOf(u, recorded'[u])]
             = [u \in Thread |-> OfferOf(u, recorded[u])]
        /\ [u \in Thread |-> ShownWith(recorded'[u])]
             = [u \in Thread |-> ShownWith(recorded[u])]
    BY <1>2, <2>1 DEF SeenAs, r
  <2>3. Promise!Conclude(t, "failed")
    BY <1>4, <1>5, <1>7, <2>2 DEF Promise!Conclude
  <2> QED
    BY <1>6, <2>3 DEF Promise!OnceNext, Promise!ReviewNext
<1>8. CASE inv.stage = "pending"
  <2>1. /\ OfferOf(t, inv) = [investigation |-> t, cited |-> inv.evidence]
        /\ ShownWith(inv) = inv.evidence
        /\ inv.evidence \in SUBSET Key /\ inv.evidence \in SUBSET inv.evidence
    BY <1>8 DEF OfferOf, ShownWith, Reported, Reviewable, Investigation
  <2>2. /\ [u \in Thread |-> OfferOf(u, recorded'[u])]
             = [[u \in Thread |-> OfferOf(u, recorded[u])] EXCEPT
                  ![t] = [investigation |-> t, cited |-> inv.evidence]]
        /\ [u \in Thread |-> ShownWith(recorded'[u])]
             = [[u \in Thread |-> ShownWith(recorded[u])] EXCEPT ![t] = inv.evidence]
    BY <1>2, <2>1 DEF SeenAs
  <2>3. Promise!OfferReport(t)
    BY <1>4, <1>5, <1>8, <2>1, <2>2 DEF Promise!OfferReport
  <2> QED
    BY <1>6, <2>3 DEF Promise!OnceNext, Promise!ReviewNext
<1> QED
  BY <1>1, <1>7, <1>8

(* A submission decides a report, and changes nothing else of it.          *)
LEMMA DecisionIsSeen ==
  ASSUME TypeOK, NEW t \in Thread, NEW inv \in Investigation, IsDecided(t, inv),
         recorded' = [recorded EXCEPT ![t] = inv]
  PROVE  /\ Promise!ReviewNext
         /\ recorded[t].stage = "pending" => Promise!OnceNext
<1> DEFINE r == recorded[t]
           d == inv.stage
<1>1. d \in Decision /\ inv.evidence = r.evidence /\ r.stage \in Reviewable
  BY DEF IsDecided, SameReport
<1>2. SeenAs(t, inv)
  BY SeenUpdate
<1> HIDE DEF r
<1>3. /\ StageOf(r) = IF r.stage = "pending" THEN "pending" ELSE "decided"
      /\ SubjectOf(t, r) = t
      /\ StageOf(inv) = "decided" /\ SubjectOf(t, inv) = t
      /\ OfferOf(t, inv) = OfferOf(t, r) /\ ShownWith(inv) = ShownWith(r)
      /\ VerdictOn(t, inv) = [investigation |-> t, decision |-> d]
  BY <1>1 DEF StageOf, SubjectOf, OfferOf, ShownWith, VerdictOn, Reported, Reviewable, Decision
<1>4. /\ [u \in Thread |-> StageOf(recorded[u])][t] \in {"pending", "decided"}
      /\ r.stage = "pending" => [u \in Thread |-> StageOf(recorded[u])][t] = "pending"
      /\ [u \in Thread |-> SubjectOf(u, recorded[u])][t] = t
  BY <1>3 DEF r
<1>5. /\ [u \in Thread |-> StageOf(recorded'[u])]
           = [[u \in Thread |-> StageOf(recorded[u])] EXCEPT ![t] = "decided"]
      /\ [u \in Thread |-> SubjectOf(u, recorded'[u])]
           = [u \in Thread |-> SubjectOf(u, recorded[u])]
      /\ [u \in Thread |-> OfferOf(u, recorded'[u])]
           = [u \in Thread |-> OfferOf(u, recorded[u])]
      /\ [u \in Thread |-> ShownWith(recorded'[u])]
           = [u \in Thread |-> ShownWith(recorded[u])]
      /\ [u \in Thread |-> VerdictOn(u, recorded'[u])]
           = [[u \in Thread |-> VerdictOn(u, recorded[u])] EXCEPT
                ![t] = [investigation |-> t, decision |-> d]]
  BY <1>2, <1>3 DEF SeenAs, r
<1>6. Promise!Decide(t)
  BY <1>1, <1>4, <1>5 DEF Promise!Decide, Promise!Decision, Decision
<1>7. r.stage = "pending" =>
        [u \in Thread |-> StageOf(recorded'[u])] # [u \in Thread |-> StageOf(recorded[u])]
  BY <1>4, <1>5
<1> QED
  BY <1>6, <1>7 DEF Promise!OnceNext, Promise!ReviewNext, r

LEMMA Init_Promise == Init => Promise!ReviewInit
BY DEF Init, Promise!ReviewInit, Absent, StageOf, SubjectOf, OfferOf, ShownWith, VerdictOn,
   Reported, Reviewable, Decision

(* Sessions and their scripts, of any number, whatever overlaps and        *)
(* whatever fails, use each investigation as HumanReview promises it: it   *)
(* opens once, offers at most one report about itself, and only decisions  *)
(* are added to that (run_investigation, submit_review).                   *)
THEOREM ReviewKept == Spec => ImplementsReview
<1>1. DashboardInv /\ [Next]_vars => [Promise!ReviewNext]_(Promise!reviewVars)
  <2> SUFFICES ASSUME DashboardInv, [Next]_vars, recorded' # recorded
               PROVE  Promise!ReviewNext
    BY SeenUnchanged
  <2>1. PICK t \in Thread, inv \in Investigation :
          /\ recorded' = [recorded EXCEPT ![t] = inv]
          /\ Starts(t, inv) \/ IsConcluded(t, inv) \/ IsDecided(t, inv)
    BY RecordedChanges
  <2> QED
    BY <2>1, StartIsSeen, EndIsSeen, DecisionIsSeen DEF DashboardInv, Promise!OnceNext
<1> QED
  BY <1>1, Init_Promise, DashboardInv_Always, PTL DEF Spec, ImplementsReview, Promise!ReviewSpec

-------------------------------------------------------------------------------
(* A reader who waits.  What a click during a call costs: with one         *)
(* submission let in to a thread at a time, its investigation is decided   *)
(* once.                                                                   *)

OneReviewAtATime ==
  \A c, d \in Script : LetIn(c) /\ LetIn(d) /\ thread[c] = thread[d] => c = d

(* What a submission has found is what is recorded.                        *)
Alone ==
  \A c \in Script :
    /\ doing[c] = "resume" => recorded[thread[c]].stage = "pending"
    /\ doing[c] \in {"decide", "close"} => recorded[thread[c]] = local[c]

LEMMA Next_Alone ==
  ASSUME DashboardInv, Alone, OneReviewAtATime, [Next]_vars
  PROVE  Alone'
<1> SUFFICES ASSUME NEW c \in Script, LetIn(c)'
             PROVE  /\ doing'[c] = "resume" => recorded'[thread'[c]].stage = "pending"
                    /\ doing'[c] \in {"decide", "close"} => recorded'[thread'[c]] = local'[c]
  BY DEF Alone, LetIn
<1>0. /\ TypeOK /\ Views /\ CallInv
      /\ doing \in [Script -> Step] /\ thread \in [Script -> Thread \cup {None}]
      /\ local \in [Script -> Investigation] /\ recorded \in [Thread -> Investigation]
      /\ thread'[c] = thread[c] /\ thread[c] \in Thread
      /\ doing'[c] \in {"resume", "decide", "close"}
  BY LettingIn DEF DashboardInv, TypeOK, LetIn
<1>1. ASSUME doing'[c] = doing[c], local'[c] = local[c],
             recorded'[thread[c]] = recorded[thread[c]]
      PROVE  /\ doing'[c] = "resume" => recorded'[thread'[c]].stage = "pending"
             /\ doing'[c] \in {"decide", "close"} => recorded'[thread'[c]] = local'[c]
  BY <1>0, <1>1 DEF Alone
<1>2. CASE OutsideStep \/ UNCHANGED vars
  BY <1>1, <1>2, Outside DEF script, call, investigations
<1>3. CASE StopStep
  BY <1>0, <1>1, <1>3, Stopping DEF StopStep, ClickTooEarly, SessionEnds
<1>4. ASSUME NEW b \in Script, ScriptStep(b) \/ \E s \in Session : Click(s, b)
      PROVE  /\ doing'[c] = "resume" => recorded'[thread'[c]].stage = "pending"
             /\ doing'[c] \in {"decide", "close"} => recorded'[thread'[c]] = local'[c]
  <2>0. \/ Reads(b) \/ Opens(b) \/ Leaves(b) \/ Concludes(b) \/ Shown(b)
        \/ \E s \in Session : Run(s, b) \/ \E d \in Decision : Submit(s, b, d)
        \/ Accepted(b) \/ Resume(b) \/ Decide(b) \/ Close(b)
    BY <1>0, <1>4, ScriptStep_Kind
  <2>1. CASE b # c
    <3>1. doing'[c] = doing[c] /\ local'[c] = local[c]
      <4>1. CASE Leaves(b) \/ Concludes(b) \/ Shown(b) \/ Close(b)
        <5>1. Ends(b)
          BY <4>1 DEF Leaves, Concludes, Shown, Close, Returns
        <5> QED
          BY <1>0, <2>1, <5>1, Ends_Call
      <4>2. CASE Reads(b) \/ Opens(b)
        BY <1>0, <2>1, <4>2 DEF Reads, Opens, Begins, Goto, call
      <4>3. CASE Accepted(b) \/ Resume(b) \/ Decide(b)
        BY <1>0, <2>1, <4>3 DEF Accepted, Resume, Decide, Goto, call
      <4>4. ASSUME NEW s \in Session, NEW d \in Decision, Run(s, b) \/ Submit(s, b, d)
            PROVE  doing'[c] = doing[c] /\ local'[c] = local[c]
        BY <1>0, <2>1, <4>4 DEF Run, Submit, Begins, Goto
      <4> QED
        BY <2>0, <4>1, <4>2, <4>3, <4>4 DEF Decision
    <3>2. LetIn(c) /\ recorded[thread[c]].stage \in Reviewable
      BY <1>0, <3>1 DEF LetIn, CallInv, Calls, Called, Reviewing
    <3>3. recorded'[thread[c]] = recorded[thread[c]]
      <4>1. CASE Decide(b) \/ Close(b)
        <5>1. thread[b] # thread[c]
          BY <2>1, <3>2, <4>1 DEF Decide, Close, LetIn, OneReviewAtATime
        <5> QED
          BY <1>0, <4>1, <5>1 DEF Decide, Close
      <4>2. CASE Concludes(b)
        <5>1. thread[b] # thread[c]
          BY <1>0, <3>2, <4>2 DEF Concludes, CallInv, Calls, Called, Reviewable, Decision
        <5> QED
          BY <1>0, <4>2, <5>1 DEF Concludes
      <4>3. ASSUME NEW s \in Session, Run(s, b)
            PROVE  recorded'[thread[c]] = recorded[thread[c]]
        BY <1>0, <3>2, <4>3 DEF Run, NewThread, Absent, Reviewable, Decision
      <4>4. CASE \/ Reads(b) \/ Opens(b) \/ Leaves(b) \/ Shown(b) \/ Accepted(b) \/ Resume(b)
                 \/ \E s \in Session, d \in Decision : Submit(s, b, d)
        BY <4>4 DEF Reads, Opens, Leaves, Shown, Accepted, Resume, Submit, SameInvestigations,
           investigations
      <4> QED
        BY <2>0, <4>1, <4>2, <4>3, <4>4
    <3> QED
      BY <1>1, <3>1, <3>3
  <2>2. CASE b = c
    <3>1. CASE Accepted(c)
      BY <1>0, <3>1 DEF Accepted, Goto, investigations
    <3>2. CASE Resume(c)
      BY <1>0, <3>2 DEF Resume, Goto, investigations, Alone
    <3>3. CASE Decide(c)
      BY <1>0, <3>3 DEF Decide, Goto
    <3>4. CASE Leaves(c) \/ Concludes(c) \/ Shown(c) \/ Close(c)
      <4>1. Ends(c)
        BY <3>4 DEF Leaves, Concludes, Shown, Close, Returns
      <4> QED
        BY <1>0, <4>1, Ends_Call
    <3>5. CASE Reads(c)
      BY <1>0, <3>5 DEF Reads, Goto, Reviewing
    <3>6. CASE Opens(c)
      BY <1>0, <3>6 DEF Opens, Begins, Goto, Browsing
    <3>7. ASSUME NEW s \in Session, NEW d \in Decision, Run(s, c) \/ Submit(s, c, d)
          PROVE  FALSE
      BY <1>0, <3>7 DEF Run, Submit, Begins, Goto
    <3> QED
      BY <2>0, <2>2, <3>1, <3>2, <3>3, <3>4, <3>5, <3>6, <3>7 DEF Decision
  <2> QED
    BY <2>1, <2>2
<1> QED
  BY <1>2, <1>3, <1>4, Steps DEF ClickStep

LEMMA Alone_Always == Spec /\ []OneReviewAtATime => []Alone
<1>1. Init => Alone
  BY DEF Init, Alone
<1>2. DashboardInv /\ Alone /\ OneReviewAtATime /\ [Next]_vars => Alone'
  BY Next_Alone
<1> QED
  BY <1>1, <1>2, DashboardInv_Always, PTL DEF Spec

LEMMA DecidedStands ==
  ASSUME DashboardInv, Alone, [Next]_vars, NEW t \in Thread, recorded[t].stage \in Decision
  PROVE  recorded'[t] = recorded[t]
<1>0. /\ TypeOK /\ Views /\ CallInv
      /\ recorded \in [Thread -> Investigation] /\ local \in [Script -> Investigation]
  BY DEF DashboardInv, TypeOK
<1>1. CASE OutsideStep \/ StopStep \/ UNCHANGED vars
  BY <1>1, Outside, Stopping DEF investigations, StopStep, ClickTooEarly, SessionEnds
<1>2. ASSUME NEW c \in Script, ScriptStep(c) \/ \E s \in Session : Click(s, c)
      PROVE  recorded'[t] = recorded[t]
  <2>1. \/ recorded' = recorded
        \/ Concludes(c) \/ Decide(c) \/ Close(c) \/ \E s \in Session : Run(s, c)
    BY <1>0, <1>2, ScriptStep_Kind DEF Reads, Opens, Leaves, Shown, SameInvestigations,
       investigations, Submit, Accepted, Resume
  <2>2. CASE Concludes(c)
    <3>1. thread[c] # t
      BY <1>0, <2>2 DEF Concludes, CallInv, Calls, Called, Decision
    <3> QED
      BY <1>0, <2>2, <3>1 DEF Concludes
  <2>3. ASSUME NEW s \in Session, Run(s, c) PROVE recorded'[t] = recorded[t]
    BY <1>0, <2>3 DEF Run, NewThread, Absent, Decision
  <2>4. CASE Decide(c)
    <3>1. thread[c] # t
      BY <1>0, <2>4 DEF Decide, Alone, CallInv, Calls, Called, Decision
    <3> QED
      BY <1>0, <2>4, <3>1 DEF Decide
  <2>5. CASE Close(c)
    BY <1>0, <2>5 DEF Close, Alone
  <2> QED
    BY <2>1, <2>2, <2>3, <2>4, <2>5
<1> QED
  BY <1>1, <1>2, Steps DEF ClickStep

(* A recorded decision is never changed or lost.                           *)
RecordedDecisionStands ==
  [][\A t \in Thread : recorded[t].stage \in Decision => recorded'[t] = recorded[t]]_vars

(* For readers who wait for the call of a submission, the first decision   *)
(* stands, however often the form is submitted again after a failure or    *)
(* from a page that lags behind (submit_review, _render_review_form).      *)
THEOREM FirstDecisionsStand == Spec /\ []OneReviewAtATime => RecordedDecisionStands
<1> DEFINE Stands == \A t \in Thread : recorded[t].stage \in Decision => recorded'[t] = recorded[t]
<1>1. DashboardInv /\ Alone /\ [Next]_vars => Stands
  BY DecidedStands
<1>2. Stands => [Stands]_vars
  OBVIOUS
<1>3. [Stands]_vars => [\A t \in Thread :
         recorded[t].stage \in Decision => recorded'[t] = recorded[t]]_vars
  OBVIOUS
<1> HIDE DEF Stands
<1> QED
  BY <1>1, <1>2, <1>3, DashboardInv_Always, Alone_Always, PTL DEF Spec, RecordedDecisionStands

(* For readers who wait for the call of a submission, each investigation   *)
(* is decided at most once, as HumanReview promises it while the reviews   *)
(* of a thread do not overlap (submit_review).                             *)
THEOREM OneReviewKept == Spec /\ []OneReviewAtATime => Promise!OnceSpec
<1>1. DashboardInv /\ Alone /\ [Next]_vars => [Promise!OnceNext]_(Promise!reviewVars)
  <2> SUFFICES ASSUME DashboardInv, Alone, [Next]_vars, recorded' # recorded
               PROVE  Promise!OnceNext
    BY SeenUnchanged
  <2>1. PICK t \in Thread, inv \in Investigation :
          /\ recorded' = [recorded EXCEPT ![t] = inv]
          /\ Starts(t, inv) \/ IsConcluded(t, inv) \/ IsDecided(t, inv)
    BY RecordedChanges
  <2>2. ASSUME IsDecided(t, inv) PROVE recorded[t].stage = "pending"
    <3>1. recorded \in [Thread -> Investigation]
      BY DEF DashboardInv, TypeOK
    <3>2. recorded'[t] # recorded[t]
      BY <2>1, <3>1
    <3> QED
      BY <2>2, <3>2, DecidedStands DEF IsDecided, Reviewable
  <2> QED
    BY <2>1, <2>2, StartIsSeen, EndIsSeen, DecisionIsSeen DEF DashboardInv
<1> QED
  BY <1>1, Init_Promise, DashboardInv_Always, Alone_Always, PTL DEF Spec, Promise!OnceSpec

(* A page changes when its session ends, and when a call keeps there what  *)
(* is recorded by then.                                                    *)
LEMMA PageChanges ==
  ASSUME DashboardInv, [Next]_vars, NEW s \in Session
  PROVE  \/ active'[s] = active[s] /\ page'[s] = page[s]
         \/ active'[s] = None
         \/ page'[s] = recorded'[active'[s]]
<1>0. /\ TypeOK /\ Views /\ CallInv
      /\ active \in [Session -> Thread \cup {None}] /\ page \in [Session -> Investigation]
      /\ recorded \in [Thread -> Investigation]
  BY DEF DashboardInv, TypeOK
<1>1. CASE UNCHANGED <<active, page>>
  BY <1>1
<1>2. CASE OutsideStep \/ UNCHANGED vars
  BY <1>1, <1>2, Outside
<1>3. CASE StopStep
  BY <1>0, <1>1, <1>3 DEF StopStep, ClickTooEarly, SessionEnds, session
<1>4. ASSUME NEW c \in Script, NEW inv, Returns(c, inv), recorded'[thread[c]] = inv
      PROVE  \/ active'[s] = active[s] /\ page'[s] = page[s]
             \/ page'[s] = recorded'[active'[s]]
  BY <1>0, <1>4 DEF Returns, Keeps
<1>5. ASSUME NEW c \in Script, ScriptStep(c) \/ \E u \in Session : Click(u, c)
      PROVE  \/ active'[s] = active[s] /\ page'[s] = page[s]
             \/ page'[s] = recorded'[active'[s]]
  <2>1. \/ UNCHANGED <<active, page>>
        \/ Concludes(c) \/ Shown(c) \/ Close(c)
    BY <1>0, <1>5, ScriptStep_Kind DEF Reads, Opens, Leaves, SameInvestigations, Run, Submit,
       Accepted, Resume, Decide, session
  <2>2. CASE Concludes(c)
    <3>1. thread[c] \in Thread
      BY <1>0, <2>2 DEF Concludes, CallInv, Calls, Called
    <3> QED
      BY <1>0, <1>4, <2>2, <3>1 DEF Concludes
  <2>3. CASE Shown(c)
    BY <1>4, <2>3 DEF Shown, investigations
  <2>4. CASE Close(c)
    <3>1. thread[c] \in Thread
      BY <1>0, <2>4 DEF Close, CallInv, Calls, Called, Reviewing
    <3> QED
      BY <1>0, <1>4, <2>4, <3>1 DEF Close
  <2> QED
    BY <1>1, <2>1, <2>2, <2>3, <2>4
<1> QED
  BY <1>2, <1>3, <1>5, Steps DEF ClickStep

(* A decision on a page is the one that is recorded.                       *)
DecisionShownIsRecorded ==
  \A s \in Session : active[s] # None /\ page[s].stage \in Decision =>
    page[s].stage = recorded[active[s]].stage

(* For readers who wait for the call of a submission, no page shows a      *)
(* decision that lost: it shows the one recorded, or still asks for one    *)
(* (_render_review_form).                                                  *)
THEOREM PagesShowTheDecision == Spec /\ []OneReviewAtATime => []DecisionShownIsRecorded
<1>1. Init => DecisionShownIsRecorded
  BY DEF Init, DecisionShownIsRecorded
<1>2. DashboardInv /\ Alone /\ DecisionShownIsRecorded /\ [Next]_vars => DecisionShownIsRecorded'
  <2> SUFFICES ASSUME DashboardInv, Alone, DecisionShownIsRecorded, [Next]_vars,
                      NEW s \in Session, active'[s] # None, page'[s].stage \in Decision
               PROVE  page'[s].stage = recorded'[active'[s]].stage
    BY DEF DecisionShownIsRecorded
  <2>1. CASE active'[s] = active[s] /\ page'[s] = page[s]
    <3>1. /\ active[s] \in Thread
          /\ page[s].stage = recorded[active[s]].stage
      BY <2>1 DEF DecisionShownIsRecorded, DashboardInv, TypeOK
    <3> QED
      BY <2>1, <3>1, DecidedStands
  <2> QED
    BY <2>1, PageChanges
<1> QED
  BY <1>1, <1>2, DashboardInv_Always, Alone_Always, PTL DEF Spec

===============================================================================
