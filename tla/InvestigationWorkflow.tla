------------------------ MODULE InvestigationWorkflow ------------------------
(***************************************************************************)
(* Investigations and their human review.  InvestigationService runs a     *)
(* graph of nodes over a state that it checkpoints in PostgreSQL, under a  *)
(* thread id, after every node.  Any process may start, resume or review   *)
(* any thread, and none holds a lock: an invocation works on the state it  *)
(* loaded, and the thread's checkpoint is what was written last.           *)
(*                                                                         *)
(* run_investigation passes through the nodes                              *)
(*                                                                         *)
(*   supplier -> risk -> history -> evidence -> analyze -> finalize        *)
(*            -> validate -> review -> close -> done                       *)
(*                                                                         *)
(* and stops before "review", waiting for submit_review to resume it.      *)
(* create_investigation is the older graph of one node, "prepare".         *)
(***************************************************************************)
EXTENDS Naturals

CONSTANTS Process,         \* processes that use the service
          Thread,          \* checkpoint threads
          Investigation,   \* investigation ids
          Evidence,        \* deduplication keys of canonical events
          ReuseThreads,    \* whether a request may name a thread that exists
          MaxFaults,       \* bound on the crashes of one behaviour
          NoState, NoThread, NoReport, NoRequest, NoDecision

Node == {"prepare", "supplier", "risk", "history", "evidence", "analyze",
         "finalize", "validate", "review", "close", "done"}

Retrieval == {"supplier", "risk", "history", "evidence"}

Successor ==
  [prepare |-> "done", supplier |-> "risk", risk |-> "history", history |-> "evidence",
   evidence |-> "analyze", analyze |-> "finalize", finalize |-> "validate",
   validate |-> "review", review |-> "close", close |-> "done", done |-> "done"]

(* Two decisions with equal fields differ only in their time, which the    *)
(* service ignores when it looks for duplicates.                           *)
Decision == {"APPROVED", "REJECTED"}
Request  == [investigation : Investigation, decision : Decision]
Report   == [investigation : Investigation, cited : SUBSET Evidence]

State ==
  [next          : Node,           \* the node to run next
   investigation : Investigation,
   status        : {"CREATED", "READY", "COMPLETED", "FAILED"},
   evidence      : SUBSET Evidence,
   report        : Report \cup {NoReport},
   validated     : BOOLEAN,        \* validation_result.passed
   review        : {"NOT_REQUESTED", "PENDING", "APPROVED", "REJECTED"},
   decided       : Request \cup {NoDecision}]  \* the submission behind human_review

ASSUME WorkflowAssumption ==
  /\ ReuseThreads \in BOOLEAN
  /\ MaxFaults \in Nat
  /\ NoState \notin State
  /\ NoReport \notin Report
  /\ NoRequest \notin Request
  /\ NoDecision \notin Request

VARIABLES
  checkpoint,  \* the latest checkpoint of each thread
  mode,        \* what a process does: nothing, a submission, or an invocation
  thread,      \* the thread it does it on
  local,       \* the state its invocation has loaded or computed
  request,     \* the review it submits, until a node has consumed it
  faults       \* crashes so far, bounded by MaxFaults

vars == <<checkpoint, mode, thread, local, request, faults>>

TypeOK ==
  /\ checkpoint \in [Thread -> State \cup {NoState}]
  /\ mode       \in [Process -> {"idle", "submit", "run"}]
  /\ thread     \in [Process -> Thread \cup {NoThread}]
  /\ local      \in [Process -> State \cup {NoState}]
  /\ request    \in [Process -> Request \cup {NoRequest}]
  /\ faults     \in 0..MaxFaults
  /\ \A p \in Process :
       /\ mode[p] # "idle" => thread[p] \in Thread
       /\ mode[p] = "run" => local[p] \in State
       /\ mode[p] = "submit" => request[p] \in Request

Init ==
  /\ checkpoint = [t \in Thread |-> NoState]
  /\ mode       = [p \in Process |-> "idle"]
  /\ thread     = [p \in Process |-> NoThread]
  /\ local      = [p \in Process |-> NoState]
  /\ request    = [p \in Process |-> NoRequest]
  /\ faults     = 0

Final(s) == s.review \in {"APPROVED", "REJECTED"}

(* The state of a new investigation; it replaces all there was.            *)
Fresh(i, node) ==
  [next |-> node, investigation |-> i, status |-> "CREATED", evidence |-> {},
   report |-> NoReport, validated |-> FALSE, review |-> "NOT_REQUESTED",
   decided |-> NoDecision]

(* A failure drops the report and leaves the review fields as they are.    *)
Failed(s) == [s EXCEPT !.status = "FAILED", !.report = NoReport]

(* Variant of EndInvocation: an exception leaves the call open.            *)
EndForgettingState(p) ==
  /\ thread'  = [thread  EXCEPT ![p] = NoThread]
  /\ local'   = [local   EXCEPT ![p] = NoState]
  /\ request' = [request EXCEPT ![p] = NoRequest]
  /\ UNCHANGED mode

(* The call returns or raises, and keeps nothing.                          *)
EndInvocation(p) ==
  /\ mode'    = [mode    EXCEPT ![p] = "idle"]
  /\ thread'  = [thread  EXCEPT ![p] = NoThread]
  /\ local'   = [local   EXCEPT ![p] = NoState]
  /\ request' = [request EXCEPT ![p] = NoRequest]

-----------------------------------------------------------------------------
(* create_investigation and run_investigation.                             *)

Start(p, t, i, node) ==
  /\ mode[p] = "idle"
  /\ ReuseThreads \/ checkpoint[t] = NoState
  /\ checkpoint' = [checkpoint EXCEPT ![t] = Fresh(i, node)]
  /\ local'      = [local  EXCEPT ![p] = Fresh(i, node)]
  /\ mode'       = [mode   EXCEPT ![p] = "run"]
  /\ thread'     = [thread EXCEPT ![p] = t]
  /\ UNCHANGED <<request, faults>>

CreateInvestigation(p, t, i) == Start(p, t, i, "prepare")
RunInvestigation(p, t, i)    == Start(p, t, i, "supplier")

(* The end of a node: its result s becomes the thread's checkpoint, and    *)
(* the answer the invocation was resumed with is no longer available.      *)
At(p, node) == mode[p] = "run" /\ local[p].next = node

Write(p, s) ==
  LET done == [s EXCEPT !.next = Successor[local[p].next]]
  IN  /\ checkpoint' = [checkpoint EXCEPT ![thread[p]] = done]
      /\ IF done.next = "done"
           THEN EndInvocation(p)
           ELSE /\ local'   = [local   EXCEPT ![p] = done]
                /\ request' = [request EXCEPT ![p] = NoRequest]
                /\ UNCHANGED <<mode, thread>>
      /\ UNCHANGED faults

(* Every node passes a failed state on, and "review" one that waits for    *)
(* no review.                                                              *)
Skips(s) == s.status = "FAILED" \/ (s.next = "review" /\ s.review # "PENDING")

Working(p, node) == At(p, node) /\ ~Skips(local[p])

PassOn(p) ==
  /\ mode[p] = "run"
  /\ Skips(local[p])
  /\ Write(p, local[p])

Prepare(p) ==
  /\ At(p, "prepare")
  /\ Write(p, [local[p] EXCEPT !.status = "READY"])

(* A retrieval node reads BigQuery.  Of the evidence named by the current  *)
(* assessment it gets what the CORE view shows at the time.                *)
Retrieve(p) ==
  \E node \in Retrieval, found \in SUBSET Evidence :
    /\ Working(p, node)
    /\ node # "evidence" => found = local[p].evidence
    /\ Write(p, [local[p] EXCEPT !.evidence = found])

RetrievalRejected(p) ==
  \E node \in Retrieval :
    /\ Working(p, node)
    /\ Write(p, Failed(local[p]))

(* A row the model classes refuse, or a page of rows that cannot be        *)
(* fetched, raises what the node does not catch: the invocation ends.      *)
RetrievalRaises(p) ==
  /\ \E node \in Retrieval : Working(p, node)
  /\ EndInvocation(p)
  /\ UNCHANGED <<checkpoint, faults>>

(* The model may cite what it was not given.                               *)
Analyze(p) ==
  \E cited \in SUBSET Evidence :
    /\ Working(p, "analyze")
    /\ Write(p, [local[p] EXCEPT
                   !.report = [investigation |-> local[p].investigation, cited |-> cited]])

AnalysisFails(p) ==
  /\ Working(p, "analyze")
  /\ Write(p, Failed(local[p]))

Finalize(p) ==
  /\ Working(p, "finalize")
  /\ Write(p, IF local[p].report = NoReport
                THEN Failed(local[p])
                ELSE [local[p] EXCEPT !.status = "COMPLETED"])

Passes(s) ==
  /\ s.report # NoReport
  /\ s.report.investigation = s.investigation
  /\ s.report.cited \subseteq s.evidence

(* Variant of Validate: the result is recorded, the review asked anyway.   *)
ValidateAskingAnyway(p) ==
  /\ Working(p, "validate")
  /\ Write(p, [local[p] EXCEPT !.validated = Passes(local[p]), !.review = "PENDING"])

Validate(p) ==
  /\ Working(p, "validate")
  /\ Write(p, IF Passes(local[p])
                THEN [local[p] EXCEPT !.validated = TRUE, !.review = "PENDING"]
                ELSE [Failed(local[p]) EXCEPT !.validated = FALSE, !.decided = NoDecision,
                                              !.review = "NOT_REQUESTED"])

(* Without an answer the review node interrupts the graph: the invocation  *)
(* returns, and the thread waits at the node.                              *)
Reviewable(s) == s.report # NoReport /\ s.validated

Interrupt(p) ==
  /\ Working(p, "review")
  /\ Reviewable(local[p])
  /\ request[p] = NoRequest
  /\ EndInvocation(p)
  /\ UNCHANGED <<checkpoint, faults>>

(* Variants of Review: the submission's identity is not compared again;    *)
(* a mismatch keeps the report of the investigation it failed.             *)
ReviewUnchecked(p) ==
  /\ Working(p, "review")
  /\ request[p] # NoRequest
  /\ Write(p, [local[p] EXCEPT !.review = request[p].decision, !.decided = request[p]])

ReviewFailingInPlace(p) ==
  /\ Working(p, "review")
  /\ request[p] # NoRequest
  /\ Write(p, IF request[p].investigation = local[p].investigation
                THEN [local[p] EXCEPT !.review = request[p].decision, !.decided = request[p]]
                ELSE [local[p] EXCEPT !.status = "FAILED"])

(* With an answer it records the decision, or fails the investigation if   *)
(* the answer was meant for another one.                                   *)
Review(p) ==
  /\ Working(p, "review")
  /\ Reviewable(local[p]) => request[p] # NoRequest
  /\ Write(p, IF Reviewable(local[p]) /\ request[p].investigation = local[p].investigation
                THEN [local[p] EXCEPT !.review = request[p].decision, !.decided = request[p]]
                ELSE Failed(local[p]))

Close(p) ==
  /\ Working(p, "close")
  /\ Write(p, local[p])

-----------------------------------------------------------------------------
(* submit_review: it reads the thread, refuses or accepts on what it read, *)
(* and then resumes the graph from what the thread holds by then.          *)

ReviewIsPending(s, r) ==
  /\ s.investigation = r.investigation
  /\ s.status = "COMPLETED"
  /\ s.report # NoReport
  /\ s.review = "PENDING"

(* A submission for another investigation, for one that is not pending, or *)
(* again for a decided one changes nothing: only an accepted one goes on.  *)
SubmitReview(p, t, r) ==
  /\ mode[p] = "idle"
  /\ checkpoint[t] # NoState
  /\ ReviewIsPending(checkpoint[t], r)
  /\ mode'    = [mode    EXCEPT ![p] = "submit"]
  /\ thread'  = [thread  EXCEPT ![p] = t]
  /\ request' = [request EXCEPT ![p] = r]
  /\ UNCHANGED <<checkpoint, local, faults>>

(* Variant of Resume: the graph is resumed without the answer.             *)
ResumeUnanswered(p) ==
  /\ mode[p] = "submit"
  /\ IF checkpoint[thread[p]].next \in {"prepare", "done"}
       THEN EndInvocation(p)
       ELSE /\ local'   = [local   EXCEPT ![p] = checkpoint[thread[p]]]
            /\ mode'    = [mode    EXCEPT ![p] = "run"]
            /\ request' = [request EXCEPT ![p] = NoRequest]
            /\ UNCHANGED thread
  /\ UNCHANGED <<checkpoint, faults>>

(* A thread with no node of this graph to run is returned as it is.        *)
Resume(p) ==
  /\ mode[p] = "submit"
  /\ IF checkpoint[thread[p]].next \in {"prepare", "done"}
       THEN EndInvocation(p)
       ELSE /\ local' = [local EXCEPT ![p] = checkpoint[thread[p]]]
            /\ mode'  = [mode  EXCEPT ![p] = "run"]
            /\ UNCHANGED <<thread, request>>
  /\ UNCHANGED <<checkpoint, faults>>

(* The process dies, or the checkpoint store raises: the call is over and  *)
(* nothing retries it.                                                     *)
Crash(p) ==
  /\ mode[p] # "idle"
  /\ faults < MaxFaults
  /\ faults' = faults + 1
  /\ EndInvocation(p)
  /\ UNCHANGED checkpoint

GraphStep(p) ==
  \/ PassOn(p) \/ Prepare(p) \/ Retrieve(p) \/ RetrievalRejected(p)
  \/ RetrievalRaises(p) \/ Analyze(p) \/ AnalysisFails(p) \/ Finalize(p)
  \/ Validate(p) \/ Interrupt(p) \/ Review(p) \/ Close(p)

Next ==
  \/ \E p \in Process : GraphStep(p) \/ Resume(p) \/ Crash(p)
  \/ \E p \in Process, t \in Thread, i \in Investigation :
       CreateInvestigation(p, t, i) \/ RunInvestigation(p, t, i)
  \/ \E p \in Process, t \in Thread, r \in Request : SubmitReview(p, t, r)

Spec == Init /\ [][Next]_vars

(* A call that was made goes on: each node returns or raises.              *)
Fairness == \A p \in Process : WF_vars(GraphStep(p) \/ Resume(p))

FairSpec == Spec /\ Fairness

-----------------------------------------------------------------------------
(* Properties of every state a thread or an invocation holds.              *)

Decided(t) == checkpoint[t] # NoState /\ Final(checkpoint[t])

Held == {s \in {checkpoint[t] : t \in Thread} \cup {local[p] : p \in Process} : s # NoState}

(* What a reviewer is asked about, or has decided on, is a completed       *)
(* investigation with its own report, and that report passed validation:   *)
(* it cites no event that was not retrieved.  Nothing a process loaded,    *)
(* and no other process writing the same thread, gets a review past        *)
(* validate_report.                                                        *)
ReviewedIsValidated ==
  \A s \in Held :
    s.review # "NOT_REQUESTED" /\ s.status # "FAILED" =>
      /\ s.status = "COMPLETED"
      /\ s.validated
      /\ Passes(s)

(* A recorded decision was submitted for the investigation it is recorded  *)
(* in, although submit_review resumes whatever the thread holds by then.   *)
DecisionNamesItsInvestigation ==
  \A s \in Held :
    Final(s) => /\ s.decided # NoDecision
                /\ s.decided.investigation = s.investigation
                /\ s.decided.decision = s.review

(* A failed investigation keeps no report and was decided by no one: no    *)
(* path fails it after its review and leaves the decision standing.        *)
FailedKeepsNothing ==
  \A s \in Held : s.status = "FAILED" => s.report = NoReport /\ ~Final(s)

(* A submission that was accepted ends in a decision on its thread, unless *)
(* a process fails: two submissions at once, or one that waits while       *)
(* another finishes, still leave the thread decided.                       *)
ReviewTakesEffect ==
  \A t \in Thread :
    (faults = 0 /\ \E p \in Process : mode[p] = "submit" /\ thread[p] = t)
      ~> (faults > 0 \/ Decided(t))

-----------------------------------------------------------------------------
(* Properties the repository states and the code does not keep.            *)

(* docs/agent/investigation-workflow.md: a retrieval failure persists      *)
(* FAILED.                                                                 *)
RetrievalFailurePersists ==
  [][\A p \in Process :
       RetrievalRejected(p) \/ RetrievalRaises(p) =>
         checkpoint'[thread[p]].status = "FAILED"]_vars

(* tests/test_agent_investigation_workflow.py: a second submission with    *)
(* another decision is rejected, so the first decision on a report stands. *)
FirstDecisionStands ==
  [][\A t \in Thread :
       Decided(t) /\ Decided(t)' /\ checkpoint'[t].investigation = checkpoint[t].investigation
       => checkpoint'[t].review = checkpoint[t].review]_vars

(* docs/agent/human-review-and-evaluation.md: a human review cannot modify *)
(* the report.                                                             *)
ReviewKeepsReport ==
  [][\A p \in Process :
       Review(p) => checkpoint'[thread[p]].report = local[p].report]_vars

-----------------------------------------------------------------------------
(* Without reuse of threads, the workflow implements HumanReview.          *)

Stage(s) ==
  IF s = NoState THEN "absent"
  ELSE IF s.status = "FAILED" THEN "failed"
  ELSE IF s.status = "READY" THEN "ready"
  ELSE IF Final(s) THEN "decided"
  ELSE IF s.review = "PENDING" THEN "pending" ELSE "open"

Subject(s)    == IF s = NoState THEN NoState ELSE s.investigation
OfferOf(s)    == IF Stage(s) \in {"pending", "decided"} THEN s.report ELSE NoReport
ShownWith(s)  == IF Stage(s) \in {"pending", "decided"} THEN s.evidence ELSE {}
VerdictOn(s)  == IF Stage(s) = "decided" THEN s.decided ELSE NoDecision

Promise == INSTANCE HumanReview WITH
  stage   <- [t \in Thread |-> Stage(checkpoint[t])],
  subject <- [t \in Thread |-> Subject(checkpoint[t])],
  offered <- [t \in Thread |-> OfferOf(checkpoint[t])],
  shown   <- [t \in Thread |-> ShownWith(checkpoint[t])],
  verdict <- [t \in Thread |-> VerdictOn(checkpoint[t])]

(* Whatever processes do to a thread, from outside it is an investigation  *)
(* that opens once and ends ready, failed, or with one validated report    *)
(* that never changes again and that only decisions are added to.          *)
ImplementsHumanReview == Promise!ReviewSpec

=============================================================================
