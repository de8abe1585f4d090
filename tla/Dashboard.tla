------------------------------ MODULE Dashboard -------------------------------
(***************************************************************************)
(* Sessions of the Streamlit application (ui/app.py) over the MART tables, *)
(* as RiskMart promises them, and over investigations and their reviews.   *)
(*                                                                         *)
(* Every click runs a script in a thread of its own: it loads the          *)
(* portfolio and keeps it, explores a supplier of it (history, evidence),  *)
(* runs an investigation (profile, risk, history, evidence, analyze), or   *)
(* submits a review of the investigation on the page (check, resume,       *)
(* decide, close).  The tables change between any two reads.               *)
(*                                                                         *)
(* A session has one script that answers to its page.  A click during a    *)
(* call stops it, which takes effect when the call is over: the script     *)
(* goes on inside the call, while the next one runs, and then ends without *)
(* touching the session.                                                   *)
(***************************************************************************)
EXTENDS RiskMart, GuardedReads

CONSTANTS Session,
          Batches,         \* the batches that are assessed in a behaviour
          Thread,          \* threads of investigations; every run takes a new one
          HistoryLimit,    \* risk_history_limit
          MaxKeys,         \* evidence keys of one lookup
          MaxEvents,       \* events in the context of the model
          MaxFaults,       \* bound on the clicks during a call and the sessions that end
          None

ASSUME DashboardAssumption ==
  /\ Snapshot \subseteq SUBSET Supplier
  /\ Batches \subseteq Batch
  /\ \A B \in Batches : IsFiniteSet(B)
  /\ HistoryLimit \in Nat \ {0}
  /\ {MaxKeys, MaxEvents, MaxFaults} \subseteq Nat
  /\ None \notin Row /\ None \notin Thread /\ None \notin Supplier /\ None \notin Session

Decision == {"APPROVED", "REJECTED"}
Reviewable == {"pending"} \cup Decision
Stage == {"none", "open", "failed"} \cup Reviewable

Browsing  == {"portfolio", "explore", "inspect"}
Running   == {"profile", "risk", "history", "evidence", "analyze"}
Reviewing == {"check", "resume", "decide", "close"}
Step      == {"idle", "shown", "dropped"} \cup Browsing \cup Running \cup Reviewing

(* A portfolio shows rows of one batch.                                    *)
Portfolio == {{}} \cup UNION {SUBSET B : B \in Batches}

(* What a script has read: an assessment, and what belongs to it.          *)
View == [supplier : Supplier \cup {None}, row : Row \cup {None},
         history : SUBSET Row, evidence : SUBSET Key]

(* An investigation: its stage, and the assessment and the evidence of its *)
(* report.                                                                 *)
Investigation == [stage : Stage, row : Row \cup {None}, evidence : SUBSET Key]

Blank  == [supplier |-> None, row |-> None, history |-> {}, evidence |-> {}]
Absent == [stage |-> "none", row |-> None, evidence |-> {}]

VARIABLES
  portfolio,   \* the cached snapshot of a session: None before it is loaded
  active,      \* the thread of the investigation that its page shows
  page,        \* what it shows of it
  doing,       \* where a script is
  owner,       \* the session whose click it runs for
  stopped,     \* the scripts that have been told to stop
  view,
  thread,      \* the thread that the call of a script runs or reviews
  answer,      \* the decision it submits
  local,       \* the investigation as its resumed graph has loaded it
  recorded,    \* the investigations, as checkpointed
  closing,     \* the threads whose last node is still to run
  faults

session == <<portfolio, active, page>>
call == <<owner, stopped, thread, answer, local>>
script == <<doing, view, call>>
investigations == <<recorded, closing>>
vars == <<mart, reads, session, script, investigations, faults>>

TypeOK ==
  /\ ReadsTypeOK
  /\ history \subseteq Batches
  /\ current \in Batches \cup {{}}
  /\ portfolio \in [Session -> Portfolio \cup {None}]
  /\ active \in [Session -> Thread \cup {None}]
  /\ page \in [Session -> Investigation]
  /\ doing \in [Script -> Step]
  /\ owner \in [Script -> Session \cup {None}]
  /\ stopped \subseteq Script
  /\ view \in [Script -> View]
  /\ thread \in [Script -> Thread \cup {None}]
  /\ answer \in [Script -> Decision \cup {None}]
  /\ local \in [Script -> Investigation]
  /\ recorded \in [Thread -> Investigation]
  /\ closing \subseteq Thread
  /\ faults \in 0..MaxFaults

Init ==
  /\ MartInit /\ ReadsInit
  /\ portfolio = [s \in Session |-> None]
  /\ active = [s \in Session |-> None]
  /\ page = [s \in Session |-> Absent]
  /\ doing = [c \in Script |-> "idle"]
  /\ owner = [c \in Script |-> None]
  /\ stopped = {}
  /\ view = [c \in Script |-> Blank]
  /\ thread = [c \in Script |-> None]
  /\ answer = [c \in Script |-> None]
  /\ local = [c \in Script |-> Absent]
  /\ recorded = [t \in Thread |-> Absent]
  /\ closing = {}
  /\ faults = 0

-------------------------------------------------------------------------------
(* The warehouse.                                                          *)

Assess == /\ \E B \in Batches : Publish(B) \/ Show(B)
          /\ mart' # mart
          /\ UNCHANGED <<reads, session, script, investigations, faults>>

TablesGrow == Grow /\ UNCHANGED <<mart, session, script, investigations, faults>>

(* What a query for the newest rows of a supplier returns.                 *)
RowsOf(x, B) == {r \in B : r.supplier = x}

NewestFirst(A) ==
  LET all == Cardinality(A) IN
  {P \in SUBSET A :
     /\ Cardinality(P) = IF all <= HistoryLimit THEN all ELSE HistoryLimit
     /\ \A r \in P, q \in A \ P : q.at <= r.at}

(* Variant: the oldest rows first.                                         *)
OldestFirst(x) ==
  LET A == RowsOf(x, UNION history) IN
  {P \in SUBSET A :
     /\ Cardinality(P) = IF Cardinality(A) <= HistoryLimit THEN Cardinality(A) ELSE HistoryLimit
     /\ \A r \in P, q \in A \ P : q.at >= r.at}

RiskHistory(x) == NewestFirst(RowsOf(x, UNION history))

(* Events that the CORE view does not show at the time are missing.        *)
RiskEvidence(row) == SUBSET row.evidence

-------------------------------------------------------------------------------
(* Scripts.                                                                *)

Goto(c, step) == doing' = [doing EXCEPT ![c] = step]
See(c, v) == view' = [view EXCEPT ![c] = v]

(* A page that still shows what its last script read runs none: the next   *)
(* click begins by leaving it.                                             *)
Busy(s) == \E c \in Script : owner[c] = s /\ c \notin stopped

Begins(s, c, step) ==
  /\ ~Busy(s) /\ doing[c] = "idle"
  /\ owner' = [owner EXCEPT ![c] = s]
  /\ Goto(c, step)

Ends(c) ==
  /\ Goto(c, "idle")
  /\ See(c, Blank)
  /\ owner' = [owner EXCEPT ![c] = None]
  /\ stopped' = stopped \ {c}
  /\ thread' = [thread EXCEPT ![c] = None]
  /\ answer' = [answer EXCEPT ![c] = None]
  /\ local' = [local EXCEPT ![c] = Absent]

(* The script keeps an investigation in the session for the page, unless   *)
(* it was stopped.                                                         *)
Keeps(c, inv) ==
  IF c \in stopped
    THEN UNCHANGED <<active, page>>
    ELSE /\ active' = [active EXCEPT ![owner[c]] = thread[c]]
         /\ page' = [page EXCEPT ![owner[c]] = inv]

(* Scripts are told to stop, and go on in what they call.  Of a read for   *)
(* the page it does not matter any more which one it is.                   *)
Stop(C) ==
  LET mid_read == {c \in C : doing[c] \in Browsing} IN
  /\ stopped' = stopped \cup C
  /\ doing' = [c \in Script |-> IF c \in mid_read THEN "dropped" ELSE doing[c]]
  /\ view' = [c \in Script |-> IF c \in mid_read THEN Blank ELSE view[c]]
  /\ faults < MaxFaults
  /\ faults' = faults + 1
  /\ UNCHANGED <<mart, reads, owner, thread, answer, local, investigations>>

(* The reader clicks while the script is in a call.  Nothing on the page   *)
(* is disabled meanwhile.                                                  *)
ClickTooEarly(c) ==
  /\ doing[c] \notin {"idle", "shown"} /\ c \notin stopped
  /\ Stop({c})
  /\ UNCHANGED session

(* The browser goes away, and the session with it.  (When the process dies *)
(* its sessions end, and what their scripts call raises.)                  *)
SessionEnds(s) ==
  /\ \A c \in Script : owner[c] = s => doing[c] # "shown"
  /\ Stop({c \in Script : owner[c] = s})
  /\ portfolio' = [portfolio EXCEPT ![s] = None]
  /\ active' = [active EXCEPT ![s] = None]
  /\ page' = [page EXCEPT ![s] = Absent]

Estimate(c) ==
  /\ doing[c] \in ({"dropped"} \cup Browsing \cup Running) \ {"analyze"}
  /\ DryRunPasses(c)
  /\ UNCHANGED <<mart, session, script, investigations, faults>>

(* A page of the application without a snapshot loads it.                  *)
OpenPage(s, c) ==
  /\ portfolio[s] = None
  /\ Begins(s, c, "portfolio")
  /\ UNCHANGED <<mart, reads, session, stopped, view, thread, answer, local, investigations, faults>>

(* Variant: the portfolio is read from the history of assessments.         *)
PortfolioOfAllTime == SUBSET UNION history

(* The join with the suppliers leaves out those that CORE lists no longer, *)
(* and the limit those beyond it.                                          *)
CurrentPortfolio == SUBSET current

PortfolioLoaded(c) ==
  /\ doing[c] = "portfolio"
  /\ QueryRuns(c)
  /\ \E P \in CurrentPortfolio : portfolio' = [portfolio EXCEPT ![owner[c]] = P]
  /\ Ends(c)
  /\ UNCHANGED <<mart, active, page, investigations, faults>>

PortfolioUnavailable(c) ==
  /\ doing[c] = "portfolio"
  /\ ReadRaises(c)
  /\ Ends(c)
  /\ UNCHANGED <<mart, session, investigations, faults>>

RefreshPortfolio(s) ==
  /\ ~Busy(s) /\ portfolio[s] # None
  /\ portfolio' = [portfolio EXCEPT ![s] = None]
  /\ UNCHANGED <<mart, reads, active, page, script, investigations, faults>>

(* A read for a page that has moved on: its result is dropped.             *)
DropRead(c) ==
  /\ doing[c] = "dropped"
  /\ QueryRuns(c) \/ ReadRaises(c)
  /\ Ends(c)
  /\ UNCHANGED <<mart, session, investigations, faults>>

-------------------------------------------------------------------------------
(* The Supplier Explorer, on a row of the cached portfolio.                *)

Explore(s, c) ==
  /\ portfolio[s] # None
  /\ \E r \in portfolio[s] : See(c, [Blank EXCEPT !.supplier = r.supplier, !.row = r])
  /\ Begins(s, c, "explore")
  /\ UNCHANGED <<mart, reads, session, stopped, thread, answer, local, investigations, faults>>

(* After the history come the events, unless the assessment names none.    *)
Inspect(c) == Goto(c, IF view[c].row.evidence = {} THEN "shown" ELSE "inspect")

HistoryShown(c) ==
  /\ doing[c] = "explore"
  /\ QueryRuns(c)
  /\ \E H \in RiskHistory(view[c].supplier) : See(c, [view[c] EXCEPT !.history = H])
  /\ Inspect(c)
  /\ UNCHANGED <<mart, session, call, investigations, faults>>

HistoryUnavailable(c) ==
  /\ doing[c] = "explore"
  /\ ReadRaises(c)
  /\ Inspect(c)
  /\ UNCHANGED <<mart, session, view, call, investigations, faults>>

EvidenceShown(c) ==
  /\ doing[c] = "inspect"
  /\ Cardinality(view[c].row.evidence) <= MaxKeys
  /\ QueryRuns(c)
  /\ \E E \in RiskEvidence(view[c].row) : See(c, [view[c] EXCEPT !.evidence = E])
  /\ Goto(c, "shown")
  /\ UNCHANGED <<mart, session, call, investigations, faults>>

EvidenceUnavailable(c) ==
  /\ doing[c] = "inspect"
  /\ ReadRaises(c)
  /\ Goto(c, "shown")
  /\ UNCHANGED <<mart, session, view, call, investigations, faults>>

LeaveExplorer(c) ==
  /\ doing[c] = "shown"
  /\ Ends(c)
  /\ UNCHANGED <<mart, reads, session, investigations, faults>>

-------------------------------------------------------------------------------
(* An investigation of the selected supplier.                              *)

(* Variant: the thread of a request is taken as it comes.                  *)
AnyThread(t) == TRUE

NewThread(t) == recorded[t] = Absent

Run(s, c) ==
  /\ portfolio[s] # None
  /\ \E r \in portfolio[s] : See(c, [Blank EXCEPT !.supplier = r.supplier])
  /\ Begins(s, c, "profile")
  /\ \E t \in Thread :
       /\ NewThread(t)
       /\ recorded' = [recorded EXCEPT ![t] = [Absent EXCEPT !.stage = "open"]]
       /\ thread' = [thread EXCEPT ![c] = t]
  /\ UNCHANGED <<mart, reads, session, stopped, answer, local, closing, faults>>

ProfileRead(c) ==
  /\ doing[c] = "profile"
  /\ QueryRuns(c)
  /\ Goto(c, "risk")
  /\ UNCHANGED <<mart, session, view, call, investigations, faults>>

RiskRead(c) ==
  /\ doing[c] = "risk"
  /\ QueryRuns(c)
  /\ \E r \in RowsOf(view[c].supplier, current) : See(c, [view[c] EXCEPT !.row = r])
  /\ Goto(c, "history")
  /\ UNCHANGED <<mart, session, call, investigations, faults>>

HistoryRead(c) ==
  /\ doing[c] = "history"
  /\ QueryRuns(c)
  /\ \E H \in RiskHistory(view[c].supplier) : See(c, [view[c] EXCEPT !.history = H])
  /\ Goto(c, "evidence")
  /\ UNCHANGED <<mart, session, call, investigations, faults>>

(* Variant: the keys are looked up in the table again.                     *)
EvidenceReadAnew(c) ==
  /\ doing[c] = "evidence"
  /\ QueryRuns(c)
  /\ \E r \in RowsOf(view[c].supplier, current) : \E E \in RiskEvidence(r) :
       See(c, [view[c] EXCEPT !.evidence = E])
  /\ Goto(c, "analyze")
  /\ UNCHANGED <<mart, session, call, investigations, faults>>

EvidenceRead(c) ==
  /\ doing[c] = "evidence"
  /\ Cardinality(view[c].row.evidence) \in 1..MaxKeys
  /\ QueryRuns(c)
  /\ \E E \in RiskEvidence(view[c].row) : See(c, [view[c] EXCEPT !.evidence = E])
  /\ Goto(c, "analyze")
  /\ UNCHANGED <<mart, session, call, investigations, faults>>

(* Without keys there is no query.                                         *)
NoEvidenceToRead(c) ==
  /\ doing[c] = "evidence" /\ ~estimated[c]
  /\ view[c].row.evidence = {}
  /\ Goto(c, "analyze")
  /\ UNCHANGED <<mart, reads, session, view, call, investigations, faults>>

(* The call returns the investigation as it was checkpointed last.         *)
Returns(c, inv) == Keeps(c, inv) /\ Ends(c)

RunEnds(c, inv) ==
  /\ recorded' = [recorded EXCEPT ![thread[c]] = inv]
  /\ Returns(c, inv)
  /\ UNCHANGED <<mart, portfolio, closing, faults>>

(* The context of the model takes whole evidence or none.                  *)
FitsContext(v) == Cardinality(v.evidence) <= MaxEvents

(* The model has answered, and its report has passed the validation.       *)
Report(c) ==
  /\ doing[c] = "analyze"
  /\ FitsContext(view[c])
  /\ RunEnds(c, [stage |-> "pending", row |-> view[c].row, evidence |-> view[c].evidence])
  /\ UNCHANGED reads

(* A read is refused, finds no row or too many; the context exceeds its    *)
(* limits; the model fails, or its report is not valid.                    *)
RunFails(c) ==
  /\ doing[c] \in Running
  /\ ReadRaises(c)
  /\ RunEnds(c, [Absent EXCEPT !.stage = "failed"])

(* An exception leaves the thread where it is, and the page as it was.     *)
RunRaises(c) ==
  /\ doing[c] \in Running
  /\ ReadRaises(c)
  /\ Ends(c)
  /\ UNCHANGED <<mart, session, investigations, faults>>

-------------------------------------------------------------------------------
(* The review form, and the call that a submission makes: it reads the     *)
(* investigation and accepts or refuses on what it has read, resumes the   *)
(* graph from what is recorded by then, and runs the nodes that are left.  *)

Form(s) == portfolio[s] \notin {None, {}} /\ page[s].stage = "pending"

Submit(s, c, d) ==
  /\ Form(s)
  /\ Begins(s, c, "check")
  /\ thread' = [thread EXCEPT ![c] = active[s]]
  /\ answer' = [answer EXCEPT ![c] = d]
  /\ UNCHANGED <<mart, reads, session, stopped, view, local, investigations, faults>>

(* Variant: a decision is accepted whatever was recorded before.           *)
AcceptedAnyway(c) ==
  /\ doing[c] = "check"
  /\ Goto(c, "resume")
  /\ UNCHANGED <<mart, reads, session, view, call, investigations, faults>>

Accepted(c) ==
  /\ doing[c] = "check"
  /\ recorded[thread[c]].stage = "pending"
  /\ Goto(c, "resume")
  /\ UNCHANGED <<mart, reads, session, view, call, investigations, faults>>

(* The same decision again is answered with what is recorded.              *)
Duplicate(c) ==
  /\ doing[c] = "check"
  /\ recorded[thread[c]].stage = answer[c]
  /\ Returns(c, recorded[thread[c]])
  /\ UNCHANGED <<mart, reads, portfolio, investigations, faults>>

Resume(c) ==
  /\ doing[c] = "resume"
  /\ recorded[thread[c]].stage = "pending" \/ thread[c] \in closing
  /\ local' = [local EXCEPT ![c] = recorded[thread[c]]]
  /\ Goto(c, IF recorded[thread[c]].stage = "pending" THEN "decide" ELSE "close")
  /\ UNCHANGED <<mart, reads, session, owner, stopped, view, thread, answer, investigations, faults>>

(* A thread with no node left to run is returned as it is.                 *)
NothingToResume(c) ==
  /\ doing[c] = "resume"
  /\ recorded[thread[c]].stage \in Decision /\ thread[c] \notin closing
  /\ Returns(c, recorded[thread[c]])
  /\ UNCHANGED <<mart, reads, portfolio, investigations, faults>>

(* A node works on what its graph has loaded, and what it writes takes the *)
(* place of what is recorded.                                              *)
Decide(c) ==
  /\ doing[c] = "decide"
  /\ local' = [local EXCEPT ![c].stage = answer[c]]
  /\ recorded' = [recorded EXCEPT ![thread[c]] = local'[c]]
  /\ closing' = closing \cup {thread[c]}
  /\ Goto(c, "close")
  /\ UNCHANGED <<mart, reads, session, owner, stopped, view, thread, answer, faults>>

Close(c) ==
  /\ doing[c] = "close"
  /\ recorded' = [recorded EXCEPT ![thread[c]] = local[c]]
  /\ closing' = closing \ {thread[c]}
  /\ Returns(c, local[c])
  /\ UNCHANGED <<mart, reads, portfolio, faults>>

(* Variant: the page shows the decision although the call failed.          *)
SubmissionHopeful(c) ==
  /\ doing[c] \in Reviewing
  /\ Returns(c, [recorded[thread[c]] EXCEPT !.stage = answer[c]])
  /\ UNCHANGED <<mart, reads, portfolio, investigations, faults>>

(* The submission is refused, or a call of it fails, before or after the   *)
(* decision was recorded: the page stays as it was.                        *)
SubmissionRaises(c) ==
  /\ doing[c] \in Reviewing
  /\ Ends(c)
  /\ UNCHANGED <<mart, reads, session, investigations, faults>>

Click(s, c) ==
  OpenPage(s, c) \/ Explore(s, c) \/ Run(s, c) \/ \E d \in Decision : Submit(s, c, d)

BrowsingStep(c) ==
  \/ PortfolioLoaded(c) \/ PortfolioUnavailable(c) \/ DropRead(c)
  \/ HistoryShown(c) \/ HistoryUnavailable(c)
  \/ EvidenceShown(c) \/ EvidenceUnavailable(c) \/ LeaveExplorer(c)

RunStep(c) ==
  \/ ProfileRead(c) \/ RiskRead(c) \/ HistoryRead(c) \/ EvidenceRead(c)
  \/ NoEvidenceToRead(c) \/ Report(c) \/ RunFails(c) \/ RunRaises(c)

ReviewStep(c) ==
  \/ Accepted(c) \/ Duplicate(c) \/ Resume(c) \/ NothingToResume(c)
  \/ Decide(c) \/ Close(c) \/ SubmissionRaises(c)

Next ==
  \/ Assess
  \/ TablesGrow
  \/ \E s \in Session, c \in Script : Click(s, c)
  \/ \E s \in Session : RefreshPortfolio(s) \/ SessionEnds(s)
  \/ \E c \in Script : Estimate(c) \/ BrowsingStep(c) \/ RunStep(c) \/ ReviewStep(c)
                       \/ ClickTooEarly(c)

Spec == Init /\ [][Next]_vars

-------------------------------------------------------------------------------
(* Properties.                                                             *)

(* An assessment is in the history that is read after it, or HistoryLimit  *)
(* rows are that are no older: also when it comes from a portfolio that    *)
(* was cached long ago, or from a table that is replaced meanwhile.  (On a *)
(* page, an empty history is one that could not be read.)                  *)
HistoryHasAssessment ==
  \A c \in Script :
    doing[c] \in {"evidence", "analyze"} \/ view[c].history # {} =>
      \/ view[c].row \in view[c].history
      \/ /\ Cardinality(view[c].history) = HistoryLimit
         /\ \A r \in view[c].history : r.at >= view[c].row.at

(* The evidence that goes with an assessment, on a page or in a report, is *)
(* named by that assessment, whatever the table shows by the time the      *)
(* events are read.                                                        *)
EvidenceIsNamed ==
  /\ \A c \in Script : view[c].evidence # {} => view[c].evidence \subseteq view[c].row.evidence
  /\ \A t \in Thread : recorded[t].evidence # {} =>
       recorded[t].evidence \subseteq recorded[t].row.evidence

(* Whichever script wrote a page last, it asks for a review of the report  *)
(* that is under review, and shows a decision only when one is recorded.   *)
(* It may lag behind by a decision; and of two submissions that overlap,   *)
(* it may show the one that lost.                                          *)
PageShowsItsReport ==
  \A s \in Session : active[s] # None =>
    LET r == recorded[active[s]] IN
    /\ page[s].row = r.row /\ page[s].evidence = r.evidence
    /\ \/ page[s].stage = r.stage
       \/ r.stage \in Decision /\ page[s].stage \in Reviewable

(* A thread is settled when it has been decided and no submission that was *)
(* let in is still under way.                                              *)
LetIn(c) == doing[c] \in {"resume", "decide", "close"}

Settled(t) ==
  recorded[t].stage \in Decision /\ \A c \in Script : LetIn(c) => thread[c] # t

(* However often a form is submitted again, after a failure or from a page *)
(* that lags behind, a settled thread stays settled, and its decision      *)
(* stands: what overlapping clicks leave recorded when the last of their   *)
(* calls is over is never changed again.                                   *)
SettledDecisionStands ==
  [][\A t \in Thread : Settled(t) => recorded'[t] = recorded[t] /\ Settled(t)']_vars

-------------------------------------------------------------------------------
(* Sessions use an investigation as HumanReview promises it.               *)

Reported(r) == r.stage \in Reviewable

StageOf(r) ==
  IF r.stage = "none" THEN "absent" ELSE IF r.stage \in Decision THEN "decided" ELSE r.stage

SubjectOf(t, r) == IF r.stage = "none" THEN None ELSE t
OfferOf(t, r)   == IF Reported(r) THEN [investigation |-> t, cited |-> r.evidence] ELSE None
ShownWith(r)    == IF Reported(r) THEN r.evidence ELSE {}
VerdictOn(t, r) ==
  IF r.stage \in Decision THEN [investigation |-> t, decision |-> r.stage] ELSE None

Promise == INSTANCE HumanReview WITH
  Investigation <- Thread, Evidence <- Key,
  NoState <- None, NoReport <- None, NoDecision <- None,
  stage   <- [t \in Thread |-> StageOf(recorded[t])],
  subject <- [t \in Thread |-> SubjectOf(t, recorded[t])],
  offered <- [t \in Thread |-> OfferOf(t, recorded[t])],
  shown   <- [t \in Thread |-> ShownWith(recorded[t])],
  verdict <- [t \in Thread |-> VerdictOn(t, recorded[t])]

(* Whatever readers click and whatever fails, each investigation opens     *)
(* once and ends failed or with one report, which never changes again and  *)
(* which only decisions are added to.  A decision may take the place of    *)
(* another one, when a reader clicks again during the call.                *)
ImplementsReview == Promise!ReviewSpec

===============================================================================
