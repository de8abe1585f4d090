--------------------- MODULE InvestigationWorkflow_proofs ---------------------
(***************************************************************************)
(* Proofs about InvestigationWorkflow for any sets of processes, threads,  *)
(* investigations and events, and any bound on crashes.                    *)
(***************************************************************************)
EXTENDS InvestigationWorkflow, TLAPS

(* What a state says of itself: which fields the node to run next may rely *)
(* on.  Every state a thread or an invocation holds is sound.              *)
BeforeReview == Retrieval \cup {"prepare", "analyze", "finalize", "validate"}

Sound(s) ==
  /\ s.next = "prepare" => s.status = "CREATED"
  /\ s.next \in BeforeReview => s.review = "NOT_REQUESTED"
  /\ s.next = "validate" /\ s.status # "FAILED" => s.status = "COMPLETED"
  /\ s.next = "review" /\ s.status # "FAILED" => s.review = "PENDING"
  /\ s.next = "close" /\ s.status # "FAILED" => Final(s)
  /\ s.next \in {"review", "close"} => s.status \in {"COMPLETED", "FAILED"}
  /\ s.review # "NOT_REQUESTED" /\ s.status # "FAILED" =>
       s.status = "COMPLETED" /\ s.validated /\ Passes(s)
  /\ Final(s) => /\ s.status = "COMPLETED"
                 /\ s.decided \in Request
                 /\ s.decided.investigation = s.investigation
                 /\ s.decided.decision = s.review
  /\ s.status = "FAILED" => s.report = NoReport

(* A process only ever works on a thread that has a checkpoint.            *)
WorkflowInv ==
  /\ TypeOK
  /\ \A p \in Process : mode[p] # "idle" => checkpoint[thread[p]] \in State
  /\ \A t \in Thread : checkpoint[t] # NoState => Sound(checkpoint[t])
  /\ \A p \in Process : local[p] # NoState => Sound(local[p])

(* Without reuse of threads: an open thread is worked on by one process,   *)
(* which holds its latest state; on one under review, all hold the same    *)
(* report; and an answer is for the investigation of its thread.           *)
UnderReview(t) == Stage(checkpoint[t]) \in {"pending", "decided"}

ThreadInv ==
  /\ \A p \in Process : mode[p] = "idle" => request[p] = NoRequest
  /\ \A p \in Process : mode[p] = "submit" => UnderReview(thread[p])
  /\ \A p \in Process :
       mode[p] # "idle" /\ request[p] # NoRequest =>
         request[p].investigation = checkpoint[thread[p]].investigation
  /\ \A p \in Process :
       mode[p] = "run" =>
         /\ Stage(checkpoint[thread[p]]) \in {"open", "pending", "decided", "failed"}
         /\ local[p].investigation = checkpoint[thread[p]].investigation
         /\ Stage(checkpoint[thread[p]]) = "open" => local[p] = checkpoint[thread[p]]
         /\ Stage(checkpoint[thread[p]]) = "failed" => local[p].status = "FAILED"
         /\ UnderReview(thread[p]) =>
              /\ Stage(local[p]) \in {"pending", "decided"}
              /\ local[p].report = checkpoint[thread[p]].report
              /\ local[p].evidence = checkpoint[thread[p]].evidence
  /\ \A p, q \in Process :
       mode[p] = "run" /\ mode[q] = "run" /\ thread[p] = thread[q]
         /\ Stage(checkpoint[thread[p]]) = "open" => p = q

-----------------------------------------------------------------------------
(* The process that writes a state replaces its thread's checkpoint and its *)
(* own copy: it is enough that the written state is sound.                  *)
LEMMA WriteKeepsInv ==
  ASSUME WorkflowInv, NEW p \in Process, mode[p] = "run", NEW s \in State, Write(p, s),
         Sound([s EXCEPT !.next = Successor[local[p].next]])
  PROVE  WorkflowInv'
PROOF
  <1> DEFINE done == [s EXCEPT !.next = Successor[local[p].next]]
  <1>1. local[p] \in State /\ thread[p] \in Thread /\ TypeOK
    BY DEF WorkflowInv, TypeOK
  <1>2. Successor[local[p].next] \in Node
    BY <1>1 DEF State, Node, Successor
  <1>3. done \in State
    BY <1>2 DEF State
  <1>4. /\ checkpoint' = [checkpoint EXCEPT ![thread[p]] = done]
        /\ faults' = faults
    BY DEF Write
  <1>5. \/ EndInvocation(p)
        \/ /\ local'   = [local   EXCEPT ![p] = done]
           /\ request' = [request EXCEPT ![p] = NoRequest]
           /\ UNCHANGED <<mode, thread>>
    BY DEF Write
  <1>6. TypeOK'
    BY <1>1, <1>3, <1>4, <1>5 DEF TypeOK, EndInvocation
  <1>7. ASSUME NEW t \in Thread, checkpoint'[t] # NoState PROVE Sound(checkpoint'[t])
    <2> USE <1>7
    <2>1. CASE t = thread[p]
      <3>1. checkpoint'[t] = done
        BY <1>1, <1>4, <2>1 DEF TypeOK
      <3> QED BY <3>1
    <2>2. CASE t # thread[p]
      <3>1. checkpoint'[t] = checkpoint[t]
        BY <1>1, <1>4, <2>2 DEF TypeOK
      <3> QED BY <3>1 DEF WorkflowInv
    <2> QED BY <2>1, <2>2
  <1>8. ASSUME NEW q \in Process, local'[q] # NoState PROVE Sound(local'[q])
    <2> USE <1>8
    <2>1. local'[q] = local[q] \/ local'[q] = done \/ local'[q] = NoState
      BY <1>1, <1>5 DEF TypeOK, EndInvocation
    <2> QED BY <2>1 DEF WorkflowInv
  <1>9. ASSUME NEW q \in Process, mode'[q] # "idle"
        PROVE  checkpoint'[thread'[q]] \in State
    <2>1. mode[q] # "idle" /\ thread'[q] = thread[q] /\ thread[q] \in Thread
      BY <1>1, <1>5, <1>9 DEF TypeOK, EndInvocation
    <2>2. checkpoint[thread[q]] \in State
      BY <2>1 DEF WorkflowInv
    <2> QED BY <1>1, <1>3, <1>4, <2>1, <2>2 DEF TypeOK
  <1> QED BY <1>6, <1>7, <1>8, <1>9 DEF WorkflowInv

(* A call that ends without writing leaves every thread as it is.          *)
LEMMA EndKeepsInv ==
  ASSUME WorkflowInv, NEW p \in Process, EndInvocation(p), checkpoint' = checkpoint,
         faults' \in 0..MaxFaults
  PROVE  WorkflowInv'
PROOF
  <1>1. TypeOK'
    BY DEF WorkflowInv, TypeOK, EndInvocation
  <1>2. \A q \in Process :
          /\ local'[q] = local[q] \/ local'[q] = NoState
          /\ mode'[q] # "idle" => mode[q] # "idle" /\ thread'[q] = thread[q]
    BY DEF WorkflowInv, TypeOK, EndInvocation
  <1>3. \A q \in Process : local'[q] # NoState => Sound(local'[q])
    BY <1>2 DEF WorkflowInv
  <1>4. \A q \in Process : mode'[q] # "idle" => checkpoint'[thread'[q]] \in State
    BY <1>2 DEF WorkflowInv
  <1>5. \A t \in Thread : checkpoint'[t] # NoState => Sound(checkpoint'[t])
    BY DEF WorkflowInv
  <1> QED BY <1>1, <1>3, <1>4, <1>5 DEF WorkflowInv

LEMMA StartKeepsInv ==
  ASSUME WorkflowInv, NEW p \in Process, NEW t \in Thread, NEW i \in Investigation,
         NEW node \in {"prepare", "supplier"}, Start(p, t, i, node)
  PROVE  WorkflowInv'
PROOF
  <1> DEFINE f == Fresh(i, node)
  <1>1. f \in State
    BY DEF State, Fresh, Node
  <1>2. Sound(f)
    BY DEF Sound, Fresh, BeforeReview, Retrieval, Final
  <1>3. /\ checkpoint' = [checkpoint EXCEPT ![t] = f]
        /\ local'      = [local  EXCEPT ![p] = f]
        /\ mode'       = [mode   EXCEPT ![p] = "run"]
        /\ thread'     = [thread EXCEPT ![p] = t]
        /\ request' = request /\ faults' = faults
    BY DEF Start
  <1> HIDE DEF f
  <1>4. TypeOK'
    BY <1>1, <1>3 DEF WorkflowInv, TypeOK
  <1>5. \A u \in Thread : checkpoint'[u] = f \/ checkpoint'[u] = checkpoint[u]
    BY <1>3 DEF WorkflowInv, TypeOK
  <1>6. \A q \in Process : local'[q] = f \/ local'[q] = local[q]
    BY <1>3 DEF WorkflowInv, TypeOK
  <1>7. \A u \in Thread : checkpoint'[u] # NoState => Sound(checkpoint'[u])
    BY <1>2, <1>5 DEF WorkflowInv
  <1>8. \A q \in Process : local'[q] # NoState => Sound(local'[q])
    BY <1>2, <1>6 DEF WorkflowInv
  <1>9. \A q \in Process : mode'[q] # "idle" => checkpoint'[thread'[q]] \in State
    BY <1>1, <1>3 DEF WorkflowInv, TypeOK
  <1> QED BY <1>4, <1>7, <1>8, <1>9 DEF WorkflowInv

(* A failure is sound wherever the node it happens in leads.               *)
LEMMA FailureIsSound ==
  ASSUME NEW s \in State, NEW n \in Node \ {"prepare"}, ~Final(s),
         n \in BeforeReview => s.review = "NOT_REQUESTED"
  PROVE  /\ Failed(s) \in State
         /\ Sound([Failed(s) EXCEPT !.next = n])
PROOF
  <1>1. Failed(s) \in State
    BY DEF Failed, State
  <1>2. Sound([Failed(s) EXCEPT !.next = n])
    BY DEF Sound, Failed, State, Final
  <1> QED BY <1>1, <1>2

LEMMA InitInv == Init => WorkflowInv
PROOF
  BY WorkflowAssumption DEF Init, WorkflowInv, TypeOK

(* The nodes of the graph, one step each.                                  *)
LEMMA NodesKeepInv ==
  ASSUME WorkflowInv, NEW p \in Process, GraphStep(p)
  PROVE  WorkflowInv'
PROOF
  <1> DEFINE s == local[p]
             n == Successor[local[p].next]
  <1>1. mode[p] = "run"
    BY DEF GraphStep, PassOn, Prepare, Retrieve, RetrievalRejected, RetrievalRaises, Analyze,
           AnalysisFails, Finalize, Validate, Interrupt, Review, Close, Working, At
  <1>2. s \in State /\ Sound(s) /\ faults \in 0..MaxFaults
    BY <1>1, WorkflowAssumption DEF WorkflowInv, TypeOK
  <1>3. n \in Node \ {"prepare"}
    BY <1>2 DEF State, Node, Successor
  <1>4. CASE PassOn(p)
    <2>1. Skips(s) /\ Write(p, s)
      BY <1>4 DEF PassOn
    <2>2. s.status = "FAILED"
      BY <1>2, <2>1 DEF Skips, Sound, State
    <2>3. n \in BeforeReview => s.next \in BeforeReview
      BY <1>2 DEF State, Node, Successor, BeforeReview, Retrieval
    <2>4. Sound([s EXCEPT !.next = n])
      BY <1>2, <1>3, <2>2, <2>3 DEF Sound, State, Final
    <2> QED BY <1>1, <1>2, <2>1, <2>4, WriteKeepsInv
  <1>5. CASE Prepare(p)
    <2> DEFINE r == [s EXCEPT !.status = "READY"]
    <2>1. s.next = "prepare" /\ Write(p, r)
      BY <1>5 DEF Prepare, At
    <2>2. r \in State
      BY <1>2 DEF State
    <2>3. Sound([r EXCEPT !.next = n])
      BY <1>2, <2>1 DEF Sound, State, Final, BeforeReview, Retrieval, Successor, Node
    <2> QED BY <1>1, <2>1, <2>2, <2>3, WriteKeepsInv
  <1>6. CASE Retrieve(p)
    <2>1. PICK node \in Retrieval, found \in SUBSET Evidence :
            /\ Working(p, node)
            /\ Write(p, [s EXCEPT !.evidence = found])
      BY <1>6 DEF Retrieve
    <2> DEFINE r == [s EXCEPT !.evidence = found]
    <2>2. r \in State
      BY <1>2 DEF State
    <2>3. s.next \in Retrieval
      BY <2>1 DEF Working, At
    <2>4. Sound([r EXCEPT !.next = n])
      BY <1>2, <2>3 DEF Sound, State, Final, BeforeReview, Retrieval, Successor, Node
    <2> QED BY <1>1, <2>1, <2>2, <2>4, WriteKeepsInv
  <1>7. CASE RetrievalRejected(p) \/ AnalysisFails(p)
    <2>1. s.next \in Retrieval \cup {"analyze"} /\ Write(p, Failed(s))
      BY <1>7 DEF RetrievalRejected, AnalysisFails, Working, At
    <2>2. s.review = "NOT_REQUESTED" /\ ~Final(s)
      BY <1>2, <2>1 DEF Sound, BeforeReview, Final
    <2>3. Failed(s) \in State /\ Sound([Failed(s) EXCEPT !.next = n])
      BY <1>2, <1>3, <2>2, FailureIsSound
    <2> QED BY <1>1, <2>1, <2>3, WriteKeepsInv
  <1>8. CASE RetrievalRaises(p) \/ Interrupt(p)
    <2>1. EndInvocation(p) /\ checkpoint' = checkpoint /\ faults' = faults
      BY <1>8 DEF RetrievalRaises, Interrupt
    <2> QED BY <1>2, <2>1, EndKeepsInv
  <1>9. CASE Analyze(p)
    <2>1. PICK cited \in SUBSET Evidence :
            /\ Working(p, "analyze")
            /\ Write(p, [s EXCEPT !.report = [investigation |-> s.investigation,
                                              cited |-> cited]])
      BY <1>9 DEF Analyze
    <2> DEFINE r == [s EXCEPT !.report = [investigation |-> s.investigation, cited |-> cited]]
    <2>2. r \in State
      BY <1>2 DEF State, Report
    <2>3. s.next = "analyze" /\ s.status # "FAILED"
      BY <2>1 DEF Working, At, Skips
    <2>4. s.review = "NOT_REQUESTED" /\ n = "finalize"
      BY <1>2, <2>3 DEF Sound, BeforeReview, Successor
    <2>5. Sound([r EXCEPT !.next = n])
      BY <1>2, <2>3, <2>4 DEF Sound, State, Final, BeforeReview, Retrieval
    <2> QED BY <1>1, <2>1, <2>2, <2>5, WriteKeepsInv
  <1>10. CASE Finalize(p)
    <2>1. s.next = "finalize" /\ s.status # "FAILED"
      BY <1>10 DEF Finalize, Working, At, Skips
    <2>2. s.review = "NOT_REQUESTED" /\ n = "validate" /\ ~Final(s)
      BY <1>2, <2>1 DEF Sound, BeforeReview, Successor, Final
    <2>3. CASE s.report = NoReport
      <3>1. Write(p, Failed(s))
        BY <1>10, <2>3 DEF Finalize
      <3>2. Failed(s) \in State /\ Sound([Failed(s) EXCEPT !.next = n])
        BY <1>2, <1>3, <2>2, FailureIsSound
      <3> QED BY <1>1, <3>1, <3>2, WriteKeepsInv
    <2>4. CASE s.report # NoReport
      <3> DEFINE r == [s EXCEPT !.status = "COMPLETED"]
      <3>1. Write(p, r)
        BY <1>10, <2>4 DEF Finalize
      <3>2. r \in State /\ Sound([r EXCEPT !.next = n])
        BY <1>2, <2>2 DEF Sound, State, Final, BeforeReview, Retrieval
      <3> QED BY <1>1, <3>1, <3>2, WriteKeepsInv
    <2> QED BY <2>3, <2>4
  <1>11. CASE Validate(p)
    <2>1. s.next = "validate" /\ s.status # "FAILED"
      BY <1>11 DEF Validate, Working, At, Skips
    <2>2. s.status = "COMPLETED" /\ n = "review"
      BY <1>2, <2>1 DEF Sound, Successor
    <2>3. CASE Passes(s)
      <3> DEFINE r == [s EXCEPT !.validated = TRUE, !.review = "PENDING"]
      <3>1. Write(p, r)
        BY <1>11, <2>3 DEF Validate
      <3>2. r \in State
        BY <1>2 DEF State
      <3>3. Sound([r EXCEPT !.next = n])
        BY <1>2, <2>2, <2>3 DEF Sound, State, Final, BeforeReview, Retrieval, Passes
      <3> QED BY <1>1, <3>1, <3>2, <3>3, WriteKeepsInv
    <2>4. CASE ~Passes(s)
      <3> DEFINE r == [Failed(s) EXCEPT !.validated = FALSE, !.decided = NoDecision,
                                        !.review = "NOT_REQUESTED"]
      <3>1. Write(p, r)
        BY <1>11, <2>4 DEF Validate
      <3>2. r \in State
        BY <1>2 DEF State, Failed
      <3>3. Sound([r EXCEPT !.next = n])
        BY <1>2, <2>2 DEF Sound, State, Final, BeforeReview, Retrieval, Failed
      <3> QED BY <1>1, <3>1, <3>2, <3>3, WriteKeepsInv
    <2> QED BY <2>3, <2>4
  <1>12. CASE Review(p)
    <2>1. s.next = "review" /\ s.status # "FAILED" /\ s.review = "PENDING"
      BY <1>12 DEF Review, Working, At, Skips
    <2>2. s.status = "COMPLETED" /\ s.validated /\ Passes(s) /\ n = "close" /\ ~Final(s)
      BY <1>2, <2>1 DEF Sound, Successor, Final
    <2>3. Reviewable(s) /\ request[p] \in Request
      BY <1>12, <2>2 DEF Review, Reviewable, Passes, WorkflowInv, TypeOK
    <2>4. CASE request[p].investigation = s.investigation
      <3> DEFINE r == [s EXCEPT !.review = request[p].decision, !.decided = request[p]]
      <3>1. Write(p, r)
        BY <1>12, <2>3, <2>4 DEF Review
      <3>2. request[p].decision \in Decision
        BY <2>3 DEF Request
      <3>3. r \in State
        BY <1>2, <2>3, <3>2 DEF State, Decision
      <3>4. Sound([r EXCEPT !.next = n])
        BY <1>2, <2>2, <2>3, <2>4, <3>2
        DEF Sound, State, Final, BeforeReview, Retrieval, Passes, Decision
      <3> QED BY <1>1, <3>1, <3>3, <3>4, WriteKeepsInv
    <2>5. CASE request[p].investigation # s.investigation
      <3>1. Write(p, Failed(s))
        BY <1>12, <2>5 DEF Review
      <3>2. n \notin BeforeReview
        BY <2>2 DEF BeforeReview, Retrieval
      <3>3. Failed(s) \in State /\ Sound([Failed(s) EXCEPT !.next = n])
        BY <1>2, <1>3, <2>2, <3>2, FailureIsSound
      <3> QED BY <1>1, <3>1, <3>3, WriteKeepsInv
    <2> QED BY <2>4, <2>5
  <1>13. CASE Close(p)
    <2>1. s.next = "close" /\ Write(p, s) /\ n = "done"
      BY <1>13 DEF Close, Working, At, Successor
    <2>2. Sound([s EXCEPT !.next = n])
      BY <1>2, <2>1 DEF Sound, State, Final, BeforeReview, Retrieval, Passes
    <2> QED BY <1>1, <1>2, <2>1, <2>2, WriteKeepsInv
  <1> HIDE DEF s, n
  <1> QED BY <1>4, <1>5, <1>6, <1>7, <1>8, <1>9, <1>10, <1>11, <1>12, <1>13 DEF GraphStep

LEMMA SubmissionKeepsInv ==
  ASSUME WorkflowInv, NEW p \in Process, NEW t \in Thread, NEW r \in Request,
         SubmitReview(p, t, r)
  PROVE  WorkflowInv'
PROOF
  <1>1. checkpoint[t] \in State
    BY DEF SubmitReview, WorkflowInv, TypeOK
  <1> QED BY <1>1 DEF SubmitReview, WorkflowInv, TypeOK

LEMMA ResumeKeepsInv ==
  ASSUME WorkflowInv, NEW p \in Process, Resume(p)
  PROVE  WorkflowInv'
PROOF
  <1> DEFINE c == checkpoint[thread[p]]
  <1>1. mode[p] = "submit" /\ thread[p] \in Thread
    BY DEF Resume, WorkflowInv, TypeOK
  <1>2. c \in State /\ Sound(c) /\ faults \in 0..MaxFaults
    BY <1>1, WorkflowAssumption DEF WorkflowInv, TypeOK
  <1>3. CASE EndInvocation(p)
    <2>1. checkpoint' = checkpoint /\ faults' = faults
      BY DEF Resume
    <2> QED BY <1>2, <1>3, <2>1, EndKeepsInv
  <1>4. CASE /\ local' = [local EXCEPT ![p] = c]
             /\ mode'  = [mode  EXCEPT ![p] = "run"]
             /\ UNCHANGED <<thread, request>>
    <2>1. checkpoint' = checkpoint /\ faults' = faults
      BY DEF Resume
    <2>2. TypeOK'
      BY <1>1, <1>2, <1>4, <2>1 DEF WorkflowInv, TypeOK
    <2>3. \A q \in Process : local'[q] = c \/ local'[q] = local[q]
      BY <1>4 DEF WorkflowInv, TypeOK
    <2>4. \A q \in Process : local'[q] # NoState => Sound(local'[q])
      BY <1>2, <2>3 DEF WorkflowInv
    <2>5. \A q \in Process : mode'[q] # "idle" => checkpoint'[thread'[q]] \in State
      BY <1>1, <1>2, <1>4, <2>1 DEF WorkflowInv, TypeOK
    <2>6. \A u \in Thread : checkpoint'[u] # NoState => Sound(checkpoint'[u])
      BY <2>1 DEF WorkflowInv
    <2> QED BY <2>2, <2>4, <2>5, <2>6 DEF WorkflowInv
  <1> QED BY <1>3, <1>4 DEF Resume

LEMMA NextKeepsInv == WorkflowInv /\ [Next]_vars => WorkflowInv'
PROOF
  <1> SUFFICES ASSUME WorkflowInv, [Next]_vars
               PROVE  WorkflowInv'
    OBVIOUS
  <1>1. ASSUME NEW p \in Process, GraphStep(p) PROVE WorkflowInv'
    BY <1>1, NodesKeepInv
  <1>2. ASSUME NEW p \in Process, Resume(p) PROVE WorkflowInv'
    BY <1>2, ResumeKeepsInv
  <1>3. ASSUME NEW p \in Process, Crash(p) PROVE WorkflowInv'
    <2>1. EndInvocation(p) /\ checkpoint' = checkpoint
      BY <1>3 DEF Crash
    <2>2. faults' \in 0..MaxFaults
      BY <1>3, WorkflowAssumption DEF Crash, WorkflowInv, TypeOK
    <2> QED BY <2>1, <2>2, EndKeepsInv
  <1>4. ASSUME NEW p \in Process, NEW t \in Thread, NEW i \in Investigation,
               CreateInvestigation(p, t, i) \/ RunInvestigation(p, t, i)
        PROVE  WorkflowInv'
    BY <1>4, StartKeepsInv DEF CreateInvestigation, RunInvestigation
  <1>5. ASSUME NEW p \in Process, NEW t \in Thread, NEW r \in Request, SubmitReview(p, t, r)
        PROVE  WorkflowInv'
    BY <1>5, SubmissionKeepsInv
  <1>6. CASE UNCHANGED vars
    BY <1>6 DEF vars, WorkflowInv, TypeOK
  <1> QED BY <1>1, <1>2, <1>3, <1>4, <1>5, <1>6 DEF Next

(* The inductive invariant: every state held anywhere is sound.            *)
THEOREM InvCorrect == Spec => []WorkflowInv
PROOF
  BY InitInv, NextKeepsInv, PTL DEF Spec

(* Every reachable state is well typed, and in particular an invocation    *)
(* always has a thread and a state to work on.                             *)
THEOREM TypeCorrect == Spec => []TypeOK
PROOF
  <1>1. WorkflowInv => TypeOK
    BY DEF WorkflowInv
  <1> QED BY <1>1, InvCorrect, PTL

LEMMA HeldIsSound ==
  ASSUME WorkflowInv, NEW s \in Held
  PROVE  Sound(s)
PROOF
  BY DEF Held, WorkflowInv

(* No review of an investigation that failed validation, in any number of  *)
(* processes, threads and restarts of a thread.                            *)
THEOREM ReviewValidated == Spec => []ReviewedIsValidated
PROOF
  <1>1. WorkflowInv => ReviewedIsValidated
    BY HeldIsSound DEF ReviewedIsValidated, Sound
  <1> QED BY <1>1, InvCorrect, PTL

(* No decision is recorded on an investigation it was not made for.        *)
THEOREM DecisionNamed == Spec => []DecisionNamesItsInvestigation
PROOF
  <1>1. WorkflowInv => DecisionNamesItsInvestigation
    BY HeldIsSound, WorkflowAssumption DEF DecisionNamesItsInvestigation, Sound
  <1> QED BY <1>1, InvCorrect, PTL

(* A failed investigation keeps neither report nor decision.               *)
THEOREM FailedEmpty == Spec => []FailedKeepsNothing
PROOF
  <1>1. WorkflowInv => FailedKeepsNothing
    BY HeldIsSound DEF FailedKeepsNothing, Sound
  <1> QED BY <1>1, InvCorrect, PTL

-----------------------------------------------------------------------------
(* The refinement of HumanReview, when threads are not reused.             *)

LEMMA StageOfState ==
  ASSUME NEW s \in State
  PROVE  /\ s # NoState
         /\ Stage(s) \in {"failed", "ready", "decided", "pending", "open"}
         /\ Stage(s) = "failed" <=> s.status = "FAILED"
         /\ Stage(s) = "ready" <=> s.status = "READY"
         /\ s.status \in {"CREATED", "COMPLETED"} =>
              /\ Stage(s) = "decided" <=> Final(s)
              /\ Stage(s) = "pending" <=> s.review = "PENDING"
              /\ Stage(s) = "open" <=> s.review = "NOT_REQUESTED"
PROOF
  <1>1. s # NoState
    BY WorkflowAssumption
  <1>2. s.status \in {"CREATED", "READY", "COMPLETED", "FAILED"}
    BY DEF State
  <1>3. s.review \in {"NOT_REQUESTED", "PENDING", "APPROVED", "REJECTED"}
    BY DEF State
  <1>4. Stage(s) = IF s.status = "FAILED" THEN "failed"
                   ELSE IF s.status = "READY" THEN "ready"
                   ELSE IF Final(s) THEN "decided"
                   ELSE IF s.review = "PENDING" THEN "pending" ELSE "open"
    BY <1>1, <1>2, <1>3 DEF Stage, Final
  <1> QED BY <1>1, <1>2, <1>3, <1>4 DEF Final

(* How one write may change a thread that holds c.                         *)
Moves(c, d) ==
  /\ d.investigation = c.investigation
  /\ \/ /\ Stage(c) = "open"
        /\ Stage(d) \in {"open", "failed"}
     \/ /\ Stage(c) = "open"
        /\ Stage(d) = "ready"
        /\ d.next = "done"
     \/ /\ Stage(c) = "open"
        /\ Stage(d) = "pending"
        /\ d.report \in Report
        /\ Passes(d)
     \/ /\ Stage(c) \in {"pending", "decided"}
        /\ Stage(d) = "decided"
        /\ d.report = c.report
        /\ d.evidence = c.evidence
        /\ d.decided \in Request
        /\ d.decided.investigation = c.investigation
     \/ /\ Stage(c) = "failed"
        /\ Stage(d) = "failed"

Writes(p, d) ==
  /\ checkpoint' = [checkpoint EXCEPT ![thread[p]] = d]
  /\ faults' = faults
  /\ \/ EndInvocation(p)
     \/ /\ d.next # "done"
        /\ local'   = [local   EXCEPT ![p] = d]
        /\ request' = [request EXCEPT ![p] = NoRequest]
        /\ UNCHANGED <<mode, thread>>

LEMMA WriteIsWrites ==
  ASSUME NEW p \in Process, NEW s \in State, Write(p, s)
  PROVE  Writes(p, [s EXCEPT !.next = Successor[local[p].next]])
PROOF
  <1> DEFINE done == [s EXCEPT !.next = Successor[local[p].next]]
  <1>1. /\ checkpoint' = [checkpoint EXCEPT ![thread[p]] = done]
        /\ faults' = faults
        /\ IF done.next = "done"
             THEN EndInvocation(p)
             ELSE /\ local'   = [local   EXCEPT ![p] = done]
                  /\ request' = [request EXCEPT ![p] = NoRequest]
                  /\ UNCHANGED <<mode, thread>>
    BY DEF Write
  <1> QED BY <1>1 DEF Writes

(* What the thread of an invocation holds, given what the invocation holds. *)
LEMMA ThreadOfInvocation ==
  ASSUME WorkflowInv, ThreadInv, NEW p \in Process, mode[p] = "run"
  PROVE  /\ local[p] \in State /\ Sound(local[p])
         /\ thread[p] \in Thread
         /\ checkpoint[thread[p]] \in State /\ Sound(checkpoint[thread[p]])
         /\ local[p].next \in BeforeReview /\ local[p].status # "FAILED" =>
              local[p] = checkpoint[thread[p]] /\ Stage(local[p]) = "open"
         /\ local[p].next \in {"review", "close"} /\ local[p].status # "FAILED" =>
              UnderReview(thread[p])
         /\ local[p].status = "FAILED" => Stage(checkpoint[thread[p]]) = "failed"
PROOF
  <1> DEFINE l == local[p]
             c == checkpoint[thread[p]]
  <1>1. l \in State /\ thread[p] \in Thread /\ c \in State
    BY DEF WorkflowInv, TypeOK
  <1>2. Sound(l) /\ Sound(c)
    BY <1>1, WorkflowAssumption DEF WorkflowInv
  <1>3. /\ Stage(c) \in {"open", "pending", "decided", "failed"}
        /\ Stage(c) = "open" => l = c
        /\ Stage(c) = "failed" => l.status = "FAILED"
        /\ Stage(c) \in {"pending", "decided"} => Stage(l) \in {"pending", "decided"}
    BY DEF ThreadInv, UnderReview
  <1> HIDE DEF l, c
  <1>4. ASSUME l.next \in BeforeReview, l.status # "FAILED"
        PROVE  l = c /\ Stage(l) = "open"
    <2>1. l.review = "NOT_REQUESTED"
      BY <1>2, <1>4 DEF Sound
    <2>2. Stage(l) \notin {"pending", "decided"}
      BY <1>1, <2>1, StageOfState DEF Final, State
    <2> QED BY <1>3, <1>4, <2>2
  <1>5. ASSUME l.next \in {"review", "close"}, l.status # "FAILED"
        PROVE  Stage(c) \in {"pending", "decided"}
    <2>1. l.status = "COMPLETED" /\ l.review \in {"PENDING", "APPROVED", "REJECTED"}
      BY <1>2, <1>5 DEF Sound, Final
    <2>2. Stage(l) # "open"
      BY <1>1, <2>1, StageOfState
    <2> QED BY <1>3, <1>5, <2>2
  <1>6. l.status = "FAILED" => Stage(c) = "failed"
    BY <1>1, <1>3, StageOfState
  <1> QED BY <1>1, <1>2, <1>4, <1>5, <1>6 DEF UnderReview, l, c

(* Every step of a node either only ends its invocation, or writes what    *)
(* Moves allows.                                                           *)
LEMMA NodesMove ==
  ASSUME WorkflowInv, ThreadInv, NEW p \in Process, GraphStep(p)
  PROVE  /\ mode[p] = "run"
         /\ \/ EndInvocation(p) /\ UNCHANGED <<checkpoint, faults>>
            \/ \E d \in State : Writes(p, d) /\ Moves(checkpoint[thread[p]], d)
PROOF
  <1> DEFINE l == local[p]
             c == checkpoint[thread[p]]
             n == Successor[local[p].next]
  <1>1. mode[p] = "run"
    BY DEF GraphStep, PassOn, Prepare, Retrieve, RetrievalRejected, RetrievalRaises, Analyze,
           AnalysisFails, Finalize, Validate, Interrupt, Review, Close, Working, At
  <1>2. /\ l \in State /\ Sound(l) /\ c \in State /\ Sound(c)
        /\ l.next \in BeforeReview /\ l.status # "FAILED" => l = c /\ Stage(l) = "open"
        /\ l.next \in {"review", "close"} /\ l.status # "FAILED" =>
             Stage(c) \in {"pending", "decided"}
        /\ l.status = "FAILED" => Stage(c) = "failed"
    BY <1>1, ThreadOfInvocation DEF UnderReview
  <1>3. /\ l.investigation = c.investigation
        /\ Stage(c) \in {"pending", "decided"} =>
             l.report = c.report /\ l.evidence = c.evidence
    BY <1>1 DEF ThreadInv, UnderReview
  <1>4. n \in Node
    BY <1>2 DEF State, Node, Successor
  (* It is enough to name the state a node writes.                         *)
  <1>5. ASSUME NEW s \in State, Write(p, s), Moves(c, [s EXCEPT !.next = n])
        PROVE  \E d \in State : Writes(p, d) /\ Moves(c, d)
    <2>1. [s EXCEPT !.next = n] \in State
      BY <1>4 DEF State
    <2>2. Writes(p, [s EXCEPT !.next = n])
      BY <1>5, WriteIsWrites
    <2> QED BY <1>5, <2>1, <2>2
  (* A node before the review that fails.                                  *)
  <1>6. ASSUME l.next \in BeforeReview, l.status # "FAILED", NEW s \in State,
               s.status = "FAILED", s.investigation = l.investigation
        PROVE  Moves(c, [s EXCEPT !.next = n])
    <2>1. [s EXCEPT !.next = n] \in State
      BY <1>4 DEF State
    <2>2. Stage([s EXCEPT !.next = n]) = "failed"
      BY <1>6, <2>1, StageOfState DEF State
    <2> QED BY <1>2, <1>6, <2>2 DEF Moves, State
  (* A node before the review that goes on.                                *)
  <1>7. ASSUME l.next \in BeforeReview, l.status # "FAILED", NEW s \in State,
               s.status \in {"CREATED", "COMPLETED"}, s.review = "NOT_REQUESTED",
               s.investigation = l.investigation
        PROVE  Moves(c, [s EXCEPT !.next = n])
    <2>1. [s EXCEPT !.next = n] \in State
      BY <1>4 DEF State
    <2>2. Stage([s EXCEPT !.next = n]) = "open"
      BY <1>7, <2>1, StageOfState DEF State
    <2> QED BY <1>2, <1>7, <2>2 DEF Moves, State
  <1>8. ASSUME l.next \in BeforeReview, l.status # "FAILED"
        PROVE  l.status \in {"CREATED", "COMPLETED"} /\ l.review = "NOT_REQUESTED"
    BY <1>2, <1>8, StageOfState DEF Sound, State
  <1> HIDE DEF l, c, n
  <1>9. CASE PassOn(p)
    <2>1. Skips(l) /\ Write(p, l)
      BY <1>9 DEF PassOn, l
    <2>2. l.status = "FAILED" /\ Stage(c) = "failed"
      BY <1>2, <2>1 DEF Skips, Sound
    <2>3. [l EXCEPT !.next = n] \in State
      BY <1>2, <1>4 DEF State
    <2>4. Stage([l EXCEPT !.next = n]) = "failed"
      BY <1>2, <2>2, <2>3, StageOfState DEF State
    <2>5. Moves(c, [l EXCEPT !.next = n])
      BY <1>2, <1>3, <2>2, <2>4 DEF Moves, State
    <2> QED BY <1>1, <1>2, <1>5, <2>1, <2>5 DEF c
  <1>10. CASE Prepare(p)
    <2> DEFINE r == [l EXCEPT !.status = "READY"]
    <2>1. l.next = "prepare" /\ Write(p, r)
      BY <1>10 DEF Prepare, At, l
    <2>2. l.status # "FAILED" /\ n = "done" /\ l.next \in BeforeReview
      BY <1>2, <2>1 DEF Sound, Successor, BeforeReview, n, l
    <2>3. r \in State /\ [r EXCEPT !.next = n] \in State
      BY <1>2, <1>4 DEF State
    <2>4. Stage([r EXCEPT !.next = n]) = "ready"
      BY <1>2, <2>3, StageOfState DEF State
    <2>5. Moves(c, [r EXCEPT !.next = n])
      BY <1>2, <2>2, <2>4 DEF Moves, State
    <2> QED BY <1>1, <1>5, <2>1, <2>3, <2>5 DEF c
  <1>11. CASE Retrieve(p)
    <2>1. PICK node \in Retrieval, found \in SUBSET Evidence :
            Working(p, node) /\ Write(p, [l EXCEPT !.evidence = found])
      BY <1>11 DEF Retrieve, l
    <2> DEFINE r == [l EXCEPT !.evidence = found]
    <2>2. l.next \in BeforeReview /\ l.status # "FAILED"
      BY <2>1 DEF Working, At, Skips, BeforeReview, l
    <2>3. r \in State /\ r.status = l.status /\ r.review = l.review
            /\ r.investigation = l.investigation
      BY <1>2 DEF State
    <2>4. Moves(c, [r EXCEPT !.next = n])
      BY <1>7, <1>8, <2>2, <2>3
    <2> QED BY <1>1, <1>5, <2>1, <2>3, <2>4 DEF c
  <1>12. CASE RetrievalRejected(p) \/ AnalysisFails(p)
    <2>1. l.next \in BeforeReview /\ l.status # "FAILED" /\ Write(p, Failed(l))
      BY <1>12 DEF RetrievalRejected, AnalysisFails, Working, At, Skips, BeforeReview, l
    <2>2. /\ Failed(l) \in State /\ Failed(l).status = "FAILED"
          /\ Failed(l).investigation = l.investigation
      BY <1>2 DEF State, Failed
    <2>3. Moves(c, [Failed(l) EXCEPT !.next = n])
      BY <1>6, <2>1, <2>2
    <2> QED BY <1>1, <1>5, <2>1, <2>2, <2>3 DEF c
  <1>13. CASE RetrievalRaises(p) \/ Interrupt(p)
    BY <1>1, <1>13 DEF RetrievalRaises, Interrupt
  <1>14. CASE Analyze(p)
    <2>1. PICK cited \in SUBSET Evidence :
            /\ Working(p, "analyze")
            /\ Write(p, [l EXCEPT !.report = [investigation |-> l.investigation,
                                              cited |-> cited]])
      BY <1>14 DEF Analyze, l
    <2> DEFINE r == [l EXCEPT !.report = [investigation |-> l.investigation, cited |-> cited]]
    <2>2. l.next \in BeforeReview /\ l.status # "FAILED"
      BY <2>1 DEF Working, At, Skips, BeforeReview, l
    <2>3. r \in State /\ r.status = l.status /\ r.review = l.review
            /\ r.investigation = l.investigation
      BY <1>2 DEF State, Report
    <2>4. Moves(c, [r EXCEPT !.next = n])
      BY <1>7, <1>8, <2>2, <2>3
    <2> QED BY <1>1, <1>5, <2>1, <2>3, <2>4 DEF c
  <1>15. CASE Finalize(p)
    <2>1. l.next \in BeforeReview /\ l.status # "FAILED"
      BY <1>15 DEF Finalize, Working, At, Skips, BeforeReview, l
    <2>2. CASE l.report = NoReport
      <3>1. Write(p, Failed(l))
        BY <1>15, <2>2 DEF Finalize, l
      <3>2. /\ Failed(l) \in State /\ Failed(l).status = "FAILED"
            /\ Failed(l).investigation = l.investigation
        BY <1>2 DEF State, Failed
      <3>3. Moves(c, [Failed(l) EXCEPT !.next = n])
        BY <1>6, <2>1, <3>2
      <3> QED BY <1>1, <1>5, <3>1, <3>2, <3>3 DEF c
    <2>3. CASE l.report # NoReport
      <3> DEFINE r == [l EXCEPT !.status = "COMPLETED"]
      <3>1. Write(p, r)
        BY <1>15, <2>3 DEF Finalize, l
      <3>2. r \in State /\ r.status = "COMPLETED" /\ r.review = l.review
              /\ r.investigation = l.investigation
        BY <1>2 DEF State
      <3>3. Moves(c, [r EXCEPT !.next = n])
        BY <1>7, <1>8, <2>1, <3>2
      <3> QED BY <1>1, <1>5, <3>1, <3>2, <3>3 DEF c
    <2> QED BY <2>2, <2>3
  <1>16. CASE Validate(p)
    <2>1. l.next \in BeforeReview /\ l.status # "FAILED" /\ l.status = "COMPLETED"
      BY <1>2, <1>16 DEF Validate, Working, At, Skips, BeforeReview, Sound, l
    <2>2. CASE ~Passes(l)
      <3> DEFINE r == [Failed(l) EXCEPT !.validated = FALSE, !.decided = NoDecision,
                                        !.review = "NOT_REQUESTED"]
      <3>1. Write(p, r)
        BY <1>16, <2>2 DEF Validate, l
      <3>2. r \in State /\ r.status = "FAILED" /\ r.investigation = l.investigation
        BY <1>2 DEF State, Failed
      <3>3. Moves(c, [r EXCEPT !.next = n])
        BY <1>6, <2>1, <3>2
      <3> QED BY <1>1, <1>5, <3>1, <3>2, <3>3 DEF c
    <2>3. CASE Passes(l)
      <3> DEFINE r == [l EXCEPT !.validated = TRUE, !.review = "PENDING"]
                 d == [r EXCEPT !.next = n]
      <3>1. Write(p, r)
        BY <1>16, <2>3 DEF Validate, l
      <3>2. r \in State /\ d \in State
        BY <1>2, <1>4 DEF State
      <3>3. /\ d.status = "COMPLETED" /\ d.review = "PENDING" /\ d.report = l.report
            /\ d.investigation = l.investigation /\ d.evidence = l.evidence
        BY <1>2, <2>1 DEF State
      <3>4. Stage(d) = "pending"
        BY <3>2, <3>3, StageOfState
      <3>5. Passes(d) /\ d.report \in Report
        BY <2>3, <3>2, <3>3 DEF Passes, State
      <3>6. Moves(c, d)
        BY <1>2, <2>1, <3>3, <3>4, <3>5 DEF Moves
      <3> QED BY <1>1, <1>5, <3>1, <3>2, <3>6 DEF c
    <2> QED BY <2>2, <2>3
  <1>17. CASE Review(p)
    <2>1. l.next = "review" /\ l.status # "FAILED"
      BY <1>17 DEF Review, Working, At, Skips, l
    <2>2. /\ l.status = "COMPLETED" /\ l.validated /\ Passes(l)
          /\ Stage(c) \in {"pending", "decided"}
      BY <1>2, <2>1 DEF Sound
    <2>3. Reviewable(l) /\ request[p] \in Request /\ request[p] # NoRequest
      BY <1>17, <2>2, WorkflowAssumption
      DEF Review, Reviewable, Passes, WorkflowInv, TypeOK, l
    <2>4. request[p].investigation = c.investigation
      BY <1>1, <2>3 DEF ThreadInv, c
    <2> DEFINE r == [l EXCEPT !.review = request[p].decision, !.decided = request[p]]
               d == [r EXCEPT !.next = n]
    <2>5. Write(p, r)
      BY <1>3, <1>17, <2>3, <2>4 DEF Review, l
    <2>6. request[p].decision \in {"APPROVED", "REJECTED"}
      BY <2>3 DEF Request, Decision
    <2>7. r \in State /\ d \in State
      BY <1>2, <1>4, <2>3, <2>6 DEF State
    <2>8. /\ d.status = "COMPLETED" /\ d.review = request[p].decision
          /\ d.decided = request[p] /\ d.report = l.report
          /\ d.investigation = l.investigation /\ d.evidence = l.evidence
      BY <1>2, <2>2 DEF State
    <2>9. Stage(d) = "decided"
      BY <2>6, <2>7, <2>8, StageOfState DEF Final
    <2>10. Moves(c, d)
      BY <1>3, <2>2, <2>3, <2>4, <2>8, <2>9 DEF Moves
    <2> QED BY <1>1, <1>5, <2>5, <2>7, <2>10 DEF c
  <1>18. CASE Close(p)
    <2>1. l.next = "close" /\ l.status # "FAILED" /\ Write(p, l)
      BY <1>18 DEF Close, Working, At, Skips, l
    <2>2. /\ l.status = "COMPLETED" /\ Final(l) /\ l.decided \in Request
          /\ l.decided.investigation = l.investigation
          /\ Stage(c) \in {"pending", "decided"}
      BY <1>2, <2>1 DEF Sound
    <2> DEFINE d == [l EXCEPT !.next = n]
    <2>3. d \in State
      BY <1>2, <1>4 DEF State
    <2>4. /\ d.status = "COMPLETED" /\ d.review = l.review /\ d.decided = l.decided
          /\ d.report = l.report /\ d.investigation = l.investigation
          /\ d.evidence = l.evidence
      BY <1>2, <2>2 DEF State
    <2>5. Stage(d) = "decided"
      BY <2>2, <2>3, <2>4, StageOfState DEF Final
    <2>6. Moves(c, d)
      BY <1>3, <2>2, <2>4, <2>5 DEF Moves
    <2> QED BY <1>1, <1>2, <1>5, <2>1, <2>6 DEF c
  <1> QED BY <1>9, <1>10, <1>11, <1>12, <1>13, <1>14, <1>15, <1>16, <1>17, <1>18 DEF GraphStep

LEMMA InitThreads == Init => ThreadInv
PROOF
  BY DEF Init, ThreadInv

(* A call that ends is one invocation less, and changes no thread.         *)
LEMMA EndKeepsThreads ==
  ASSUME WorkflowInv, ThreadInv, NEW p \in Process, EndInvocation(p), checkpoint' = checkpoint
  PROVE  ThreadInv'
PROOF
  <1>1. \A q \in Process : mode'[q] # "idle" =>
          /\ q # p
          /\ mode'[q] = mode[q] /\ thread'[q] = thread[q]
          /\ local'[q] = local[q] /\ request'[q] = request[q]
    BY DEF WorkflowInv, TypeOK, EndInvocation
  <1>2. \A q \in Process : mode'[q] \in {"submit", "run"} => mode'[q] # "idle"
    OBVIOUS
  <1>3. \A q \in Process : mode'[q] = "idle" => request'[q] = NoRequest
    BY DEF WorkflowInv, TypeOK, EndInvocation, ThreadInv
  <1> QED BY <1>1, <1>2, <1>3 DEF ThreadInv, UnderReview

(* On a thread under review the others keep the report they hold; on an    *)
(* open one there are no others.                                           *)
LEMMA MoveKeepsThreads ==
  ASSUME WorkflowInv, ThreadInv, NEW p \in Process, mode[p] = "run",
         NEW d \in State, Writes(p, d), Moves(checkpoint[thread[p]], d)
  PROVE  ThreadInv'
PROOF
  <1> DEFINE t == thread[p]
             c == checkpoint[t]
  <1>1. TypeOK /\ t \in Thread /\ c \in State
    BY DEF WorkflowInv, TypeOK
  <1>2. /\ checkpoint' = [checkpoint EXCEPT ![t] = d]
        /\ \A u \in Thread : u # t => checkpoint'[u] = checkpoint[u]
        /\ checkpoint'[t] = d
    BY <1>1 DEF Writes, TypeOK
  <1>3. ASSUME NEW q \in Process, mode'[q] # "idle"
        PROVE  /\ mode'[q] = mode[q] /\ thread'[q] = thread[q] /\ thread[q] \in Thread
               /\ request'[q] = NoRequest \/ request'[q] = request[q]
               /\ q # p => local'[q] = local[q]
               /\ q = p => local'[q] = d /\ d.next # "done"
    BY <1>1, <1>3 DEF Writes, EndInvocation, TypeOK
  <1>4. d.investigation = c.investigation
    BY DEF Moves
  <1>5. Stage(c) \in {"pending", "decided"} =>
          Stage(d) = "decided" /\ d.report = c.report /\ d.evidence = c.evidence
    BY DEF Moves
  <1>6. Stage(c) = "failed" => Stage(d) = "failed"
    BY DEF Moves
  <1>7. Stage(c) = "open" => \A q \in Process : mode[q] # "idle" /\ thread[q] = t => q = p
    <2>1. ASSUME Stage(c) = "open", NEW q \in Process, mode[q] # "idle", thread[q] = t
          PROVE  q = p
      <3>1. mode[q] = "run"
        BY <1>1, <2>1 DEF ThreadInv, UnderReview, TypeOK
      <3> QED BY <2>1, <3>1 DEF ThreadInv
    <2> QED BY <2>1
  <1>8. Stage(c) \in {"open", "pending", "decided", "failed"}
    BY DEF ThreadInv
  <1>9. /\ Stage(d) = "failed" => d.status = "FAILED"
        /\ Stage(d) \in {"failed", "ready", "decided", "pending", "open"}
        /\ Stage(d) = "ready" => d.next = "done"
    BY StageOfState DEF Moves
  <1> HIDE DEF t, c
  <1>10. ASSUME NEW q \in Process, mode'[q] = "submit" PROVE UnderReview(thread[q])'
    <2>1. mode[q] = "submit" /\ thread'[q] = thread[q] /\ thread[q] \in Thread /\ q # p
      BY <1>3, <1>10
    <2>2. Stage(checkpoint[thread[q]]) \in {"pending", "decided"}
      BY <2>1 DEF ThreadInv, UnderReview
    <2>3. Stage(checkpoint'[thread[q]]) \in {"pending", "decided"}
      BY <1>2, <1>5, <2>1, <2>2 DEF c
    <2> QED BY <2>1, <2>3 DEF UnderReview
  <1>11. ASSUME NEW q \in Process, mode'[q] # "idle", request'[q] # NoRequest
         PROVE  request'[q].investigation = checkpoint'[thread'[q]].investigation
    <2>1. mode[q] # "idle" /\ thread'[q] = thread[q] /\ thread[q] \in Thread
            /\ request'[q] = request[q]
      BY <1>3, <1>11
    <2>2. request[q].investigation = checkpoint[thread[q]].investigation
      BY <1>11, <2>1 DEF ThreadInv
    <2> QED BY <1>2, <1>4, <2>1, <2>2 DEF c
  <1>12. ASSUME NEW q \in Process, mode'[q] = "run"
         PROVE  /\ Stage(checkpoint'[thread'[q]]) \in {"open", "pending", "decided", "failed"}
                /\ local'[q].investigation = checkpoint'[thread'[q]].investigation
                /\ Stage(checkpoint'[thread'[q]]) = "open" =>
                     local'[q] = checkpoint'[thread'[q]]
                /\ Stage(checkpoint'[thread'[q]]) = "failed" => local'[q].status = "FAILED"
                /\ UnderReview(thread[q])' =>
                     /\ Stage(local'[q]) \in {"pending", "decided"}
                     /\ local'[q].report = checkpoint'[thread'[q]].report
                     /\ local'[q].evidence = checkpoint'[thread'[q]].evidence
    <2>1. mode[q] = "run" /\ thread'[q] = thread[q] /\ thread[q] \in Thread
      BY <1>3, <1>12
    <2>2. CASE q = p
      <3>1. thread[q] = t /\ local'[q] = d /\ d.next # "done" /\ checkpoint'[thread'[q]] = d
        BY <1>2, <1>3, <1>12, <2>1, <2>2 DEF t
      <3> QED BY <1>9, <3>1 DEF UnderReview
    <2>3. CASE q # p /\ thread[q] # t
      <3>1. local'[q] = local[q] /\ checkpoint'[thread'[q]] = checkpoint[thread[q]]
        BY <1>2, <1>3, <1>12, <2>1, <2>3
      <3> QED BY <2>1, <3>1 DEF ThreadInv, UnderReview
    <2>4. CASE q # p /\ thread[q] = t
      <3>1. local'[q] = local[q] /\ checkpoint'[thread'[q]] = d
        BY <1>2, <1>3, <1>12, <2>1, <2>4
      <3>2. Stage(c) \in {"pending", "decided", "failed"}
        BY <1>7, <1>8, <2>1, <2>4
      <3>3. /\ local[q].investigation = c.investigation
            /\ Stage(c) = "failed" => local[q].status = "FAILED"
            /\ Stage(c) \in {"pending", "decided"} =>
                 /\ Stage(local[q]) \in {"pending", "decided"}
                 /\ local[q].report = c.report
                 /\ local[q].evidence = c.evidence
        BY <2>1, <2>4 DEF ThreadInv, UnderReview, c
      <3> QED BY <1>4, <1>5, <1>6, <3>1, <3>2, <3>3 DEF UnderReview
    <2> QED BY <2>2, <2>3, <2>4
  <1>13. ASSUME NEW q \in Process, NEW r \in Process, mode'[q] = "run", mode'[r] = "run",
                thread'[q] = thread'[r], Stage(checkpoint'[thread'[q]]) = "open"
         PROVE  q = r
    <2>1. mode[q] = "run" /\ mode[r] = "run" /\ thread[q] = thread[r] /\ thread[q] \in Thread
            /\ thread'[q] = thread[q]
      BY <1>3, <1>13
    <2>2. CASE thread[q] # t
      BY <1>2, <1>13, <2>1, <2>2 DEF ThreadInv
    <2>3. CASE thread[q] = t
      <3>1. Stage(c) = "open"
        BY <1>2, <1>5, <1>6, <1>8, <1>13, <2>1, <2>3
      <3> QED BY <1>7, <2>1, <2>3, <3>1
    <2> QED BY <2>2, <2>3
  <1>14. \A q \in Process : mode'[q] = "idle" => request'[q] = NoRequest
    BY DEF WorkflowInv, TypeOK, Writes, EndInvocation, ThreadInv
  <1> QED BY <1>10, <1>11, <1>12, <1>13, <1>14 DEF ThreadInv

LEMMA StartKeepsThreads ==
  ASSUME ~ReuseThreads, WorkflowInv, ThreadInv, NEW p \in Process, NEW t \in Thread,
         NEW i \in Investigation, NEW node \in {"prepare", "supplier"}, Start(p, t, i, node)
  PROVE  /\ ThreadInv'
         /\ Fresh(i, node) \in State
         /\ Stage(Fresh(i, node)) = "open"
         /\ checkpoint[t] = NoState
PROOF
  <1> DEFINE f == Fresh(i, node)
  <1>1. f \in State /\ f.status = "CREATED" /\ f.review = "NOT_REQUESTED"
    BY DEF State, Fresh, Node
  <1>2. Stage(f) = "open"
    BY <1>1, StageOfState
  <1>3. /\ checkpoint[t] = NoState /\ mode[p] = "idle"
        /\ checkpoint' = [checkpoint EXCEPT ![t] = f]
        /\ local'      = [local  EXCEPT ![p] = f]
        /\ mode'       = [mode   EXCEPT ![p] = "run"]
        /\ thread'     = [thread EXCEPT ![p] = t]
        /\ request' = request
    BY DEF Start
  <1> HIDE DEF f
  <1>4. \A q \in Process : mode[q] # "idle" => thread[q] \in Thread /\ thread[q] # t
    BY <1>3, WorkflowAssumption DEF WorkflowInv, TypeOK
  <1>5. /\ mode'[p] = "run" /\ thread'[p] = t /\ local'[p] = f /\ checkpoint'[t] = f
        /\ request'[p] = request[p]
        /\ \A q \in Process : q # p =>
             mode'[q] = mode[q] /\ thread'[q] = thread[q] /\ local'[q] = local[q]
               /\ request'[q] = request[q]
        /\ \A u \in Thread : u # t => checkpoint'[u] = checkpoint[u]
    BY <1>3 DEF WorkflowInv, TypeOK
  <1>6. ASSUME NEW q \in Process, mode'[q] # "idle", q # p
        PROVE  checkpoint'[thread'[q]] = checkpoint[thread[q]]
    BY <1>4, <1>5, <1>6
  <1>7. \A q \in Process : mode'[q] = "submit" => UnderReview(thread[q])'
    BY <1>5, <1>6 DEF ThreadInv, UnderReview
  <1>8. \A q \in Process : mode'[q] # "idle" /\ request'[q] # NoRequest =>
          request'[q].investigation = checkpoint'[thread'[q]].investigation
    <2>1. request[p] = NoRequest
      BY <1>3 DEF ThreadInv
    <2> QED BY <1>5, <1>6, <2>1 DEF ThreadInv
  <1>9. ASSUME NEW q \in Process, mode'[q] = "run"
        PROVE  /\ Stage(checkpoint'[thread'[q]]) \in {"open", "pending", "decided", "failed"}
               /\ local'[q].investigation = checkpoint'[thread'[q]].investigation
               /\ Stage(checkpoint'[thread'[q]]) = "open" =>
                    local'[q] = checkpoint'[thread'[q]]
               /\ Stage(checkpoint'[thread'[q]]) = "failed" => local'[q].status = "FAILED"
               /\ UnderReview(thread[q])' =>
                    /\ Stage(local'[q]) \in {"pending", "decided"}
                    /\ local'[q].report = checkpoint'[thread'[q]].report
                    /\ local'[q].evidence = checkpoint'[thread'[q]].evidence
    <2>1. CASE q = p
      BY <1>2, <1>5, <2>1 DEF UnderReview
    <2>2. CASE q # p
      BY <1>5, <1>6, <1>9, <2>2 DEF ThreadInv, UnderReview
    <2> QED BY <2>1, <2>2
  <1>10. \A q, r \in Process :
           mode'[q] = "run" /\ mode'[r] = "run" /\ thread'[q] = thread'[r]
             /\ Stage(checkpoint'[thread'[q]]) = "open" => q = r
    BY <1>4, <1>5, <1>6 DEF ThreadInv
  <1>11. \A q \in Process : mode'[q] = "idle" => request'[q] = NoRequest
    BY <1>5 DEF ThreadInv
  <1>12. ThreadInv'
    BY <1>7, <1>8, <1>9, <1>10, <1>11 DEF ThreadInv
  <1> QED BY <1>1, <1>2, <1>3, <1>12 DEF f

LEMMA SubmissionKeepsThreads ==
  ASSUME WorkflowInv, ThreadInv, NEW p \in Process, NEW t \in Thread, NEW r \in Request,
         SubmitReview(p, t, r)
  PROVE  ThreadInv'
PROOF
  <1>1. checkpoint[t] \in State
    BY DEF SubmitReview, WorkflowInv, TypeOK
  <1>2. Stage(checkpoint[t]) = "pending" /\ r.investigation = checkpoint[t].investigation
    BY <1>1, StageOfState DEF SubmitReview, ReviewIsPending
  <1>3. /\ checkpoint' = checkpoint /\ local' = local
        /\ mode'[p] = "submit" /\ thread'[p] = t /\ request'[p] = r
        /\ \A q \in Process : q # p =>
             mode'[q] = mode[q] /\ thread'[q] = thread[q] /\ request'[q] = request[q]
    BY DEF SubmitReview, WorkflowInv, TypeOK
  <1> QED BY <1>2, <1>3 DEF ThreadInv, UnderReview

LEMMA ResumeKeepsThreads ==
  ASSUME WorkflowInv, ThreadInv, NEW p \in Process, Resume(p)
  PROVE  ThreadInv'
PROOF
  <1> DEFINE c == checkpoint[thread[p]]
  <1>1. /\ mode[p] = "submit" /\ thread[p] \in Thread /\ c \in State
        /\ Stage(c) \in {"pending", "decided"}
    BY DEF Resume, WorkflowInv, TypeOK, ThreadInv, UnderReview
  <1>2. CASE EndInvocation(p)
    <2>1. checkpoint' = checkpoint
      BY DEF Resume
    <2> QED BY <1>2, <2>1, EndKeepsThreads
  <1>3. CASE /\ local' = [local EXCEPT ![p] = c]
             /\ mode'  = [mode  EXCEPT ![p] = "run"]
             /\ UNCHANGED <<thread, request>>
    <2>1. /\ checkpoint' = checkpoint /\ thread' = thread /\ request' = request
          /\ local'[p] = c /\ mode'[p] = "run"
          /\ \A q \in Process : q # p => mode'[q] = mode[q] /\ local'[q] = local[q]
      BY <1>3 DEF Resume, WorkflowInv, TypeOK
    <2>2. \A q \in Process : mode'[q] = "submit" => UnderReview(thread[q])'
      BY <2>1 DEF ThreadInv, UnderReview
    <2>3. /\ \A q \in Process : mode'[q] = "idle" => request'[q] = NoRequest
          /\ \A q \in Process : mode'[q] # "idle" /\ request'[q] # NoRequest =>
               request'[q].investigation = checkpoint'[thread'[q]].investigation
      BY <1>1, <2>1 DEF ThreadInv
    <2>4. ASSUME NEW q \in Process, mode'[q] = "run"
          PROVE  /\ Stage(checkpoint'[thread'[q]]) \in {"open", "pending", "decided", "failed"}
                 /\ local'[q].investigation = checkpoint'[thread'[q]].investigation
                 /\ Stage(checkpoint'[thread'[q]]) = "open" =>
                      local'[q] = checkpoint'[thread'[q]]
                 /\ Stage(checkpoint'[thread'[q]]) = "failed" => local'[q].status = "FAILED"
                 /\ UnderReview(thread[q])' =>
                      /\ Stage(local'[q]) \in {"pending", "decided"}
                      /\ local'[q].report = checkpoint'[thread'[q]].report
                      /\ local'[q].evidence = checkpoint'[thread'[q]].evidence
      <3>1. CASE q = p
        BY <1>1, <2>1, <3>1 DEF UnderReview
      <3>2. CASE q # p
        BY <2>1, <2>4, <3>2 DEF ThreadInv, UnderReview
      <3> QED BY <3>1, <3>2
    <2>5. \A q, r \in Process :
            mode'[q] = "run" /\ mode'[r] = "run" /\ thread'[q] = thread'[r]
              /\ Stage(checkpoint'[thread'[q]]) = "open" => q = r
      BY <1>1, <2>1 DEF ThreadInv
    <2> QED BY <2>2, <2>3, <2>4, <2>5 DEF ThreadInv
  <1> QED BY <1>2, <1>3 DEF Resume

-----------------------------------------------------------------------------
(* The steps as HumanReview sees them.                                     *)

(* A write changes what is seen of one thread only, and what the state has *)
(* in common with the one before it not at all.                            *)
SeenAs(t, d) ==
  /\ [u \in Thread |-> Stage(checkpoint'[u])]
       = [[u \in Thread |-> Stage(checkpoint[u])] EXCEPT ![t] = Stage(d)]
  /\ Stage(d) = Stage(checkpoint[t]) =>
       [u \in Thread |-> Stage(checkpoint'[u])] = [u \in Thread |-> Stage(checkpoint[u])]
  /\ [u \in Thread |-> Subject(checkpoint'[u])]
       = [[u \in Thread |-> Subject(checkpoint[u])] EXCEPT ![t] = Subject(d)]
  /\ Subject(d) = Subject(checkpoint[t]) =>
       [u \in Thread |-> Subject(checkpoint'[u])] = [u \in Thread |-> Subject(checkpoint[u])]
  /\ [u \in Thread |-> OfferOf(checkpoint'[u])]
       = [[u \in Thread |-> OfferOf(checkpoint[u])] EXCEPT ![t] = OfferOf(d)]
  /\ OfferOf(d) = OfferOf(checkpoint[t]) =>
       [u \in Thread |-> OfferOf(checkpoint'[u])] = [u \in Thread |-> OfferOf(checkpoint[u])]
  /\ [u \in Thread |-> ShownWith(checkpoint'[u])]
       = [[u \in Thread |-> ShownWith(checkpoint[u])] EXCEPT ![t] = ShownWith(d)]
  /\ ShownWith(d) = ShownWith(checkpoint[t]) =>
       [u \in Thread |-> ShownWith(checkpoint'[u])] = [u \in Thread |-> ShownWith(checkpoint[u])]
  /\ [u \in Thread |-> VerdictOn(checkpoint'[u])]
       = [[u \in Thread |-> VerdictOn(checkpoint[u])] EXCEPT ![t] = VerdictOn(d)]
  /\ VerdictOn(d) = VerdictOn(checkpoint[t]) =>
       [u \in Thread |-> VerdictOn(checkpoint'[u])] = [u \in Thread |-> VerdictOn(checkpoint[u])]

LEMMA SeenUpdate ==
  ASSUME TypeOK, NEW t \in Thread, NEW d, checkpoint' = [checkpoint EXCEPT ![t] = d]
  PROVE  SeenAs(t, d)
PROOF
  <1>1. /\ checkpoint'[t] = d
        /\ \A u \in Thread : u # t => checkpoint'[u] = checkpoint[u]
    BY DEF TypeOK
  <1>2. /\ [u \in Thread |-> Stage(checkpoint'[u])]
             = [[u \in Thread |-> Stage(checkpoint[u])] EXCEPT ![t] = Stage(d)]
        /\ Stage(d) = Stage(checkpoint[t]) =>
             [u \in Thread |-> Stage(checkpoint'[u])] = [u \in Thread |-> Stage(checkpoint[u])]
    <2> DEFINE f == [u \in Thread |-> Stage(checkpoint[u])]
               g == [u \in Thread |-> Stage(checkpoint'[u])]
    <2>1. \A u \in Thread : g[u] = IF u = t THEN Stage(d) ELSE f[u]
      BY <1>1
    <2>2. f = [u \in Thread |-> f[u]] /\ g = [u \in Thread |-> g[u]]
      OBVIOUS
    <2>3. f[t] = Stage(checkpoint[t])
      OBVIOUS
    <2> HIDE DEF f, g
    <2>4. g = [f EXCEPT ![t] = Stage(d)]
      BY <2>1, <2>2
    <2>5. Stage(d) = Stage(checkpoint[t]) => g = f
      BY <2>1, <2>2, <2>3
    <2> QED BY <2>4, <2>5 DEF f, g
  <1>3. /\ [u \in Thread |-> Subject(checkpoint'[u])]
             = [[u \in Thread |-> Subject(checkpoint[u])] EXCEPT ![t] = Subject(d)]
        /\ Subject(d) = Subject(checkpoint[t]) =>
             [u \in Thread |-> Subject(checkpoint'[u])] = [u \in Thread |-> Subject(checkpoint[u])]
    <2> DEFINE f == [u \in Thread |-> Subject(checkpoint[u])]
               g == [u \in Thread |-> Subject(checkpoint'[u])]
    <2>1. \A u \in Thread : g[u] = IF u = t THEN Subject(d) ELSE f[u]
      BY <1>1
    <2>2. f = [u \in Thread |-> f[u]] /\ g = [u \in Thread |-> g[u]]
      OBVIOUS
    <2>3. f[t] = Subject(checkpoint[t])
      OBVIOUS
    <2> HIDE DEF f, g
    <2>4. g = [f EXCEPT ![t] = Subject(d)]
      BY <2>1, <2>2
    <2>5. Subject(d) = Subject(checkpoint[t]) => g = f
      BY <2>1, <2>2, <2>3
    <2> QED BY <2>4, <2>5 DEF f, g
  <1>4. /\ [u \in Thread |-> OfferOf(checkpoint'[u])]
             = [[u \in Thread |-> OfferOf(checkpoint[u])] EXCEPT ![t] = OfferOf(d)]
        /\ OfferOf(d) = OfferOf(checkpoint[t]) =>
             [u \in Thread |-> OfferOf(checkpoint'[u])] = [u \in Thread |-> OfferOf(checkpoint[u])]
    <2> DEFINE f == [u \in Thread |-> OfferOf(checkpoint[u])]
               g == [u \in Thread |-> OfferOf(checkpoint'[u])]
    <2>1. \A u \in Thread : g[u] = IF u = t THEN OfferOf(d) ELSE f[u]
      BY <1>1
    <2>2. f = [u \in Thread |-> f[u]] /\ g = [u \in Thread |-> g[u]]
      OBVIOUS
    <2>3. f[t] = OfferOf(checkpoint[t])
      OBVIOUS
    <2> HIDE DEF f, g
    <2>4. g = [f EXCEPT ![t] = OfferOf(d)]
      BY <2>1, <2>2
    <2>5. OfferOf(d) = OfferOf(checkpoint[t]) => g = f
      BY <2>1, <2>2, <2>3
    <2> QED BY <2>4, <2>5 DEF f, g
  <1>5. /\ [u \in Thread |-> ShownWith(checkpoint'[u])]
             = [[u \in Thread |-> ShownWith(checkpoint[u])] EXCEPT ![t] = ShownWith(d)]
        /\ ShownWith(d) = ShownWith(checkpoint[t]) =>
             [u \in Thread |-> ShownWith(checkpoint'[u])] = [u \in Thread |-> ShownWith(checkpoint[u])]
    <2> DEFINE f == [u \in Thread |-> ShownWith(checkpoint[u])]
               g == [u \in Thread |-> ShownWith(checkpoint'[u])]
    <2>1. \A u \in Thread : g[u] = IF u = t THEN ShownWith(d) ELSE f[u]
      BY <1>1
    <2>2. f = [u \in Thread |-> f[u]] /\ g = [u \in Thread |-> g[u]]
      OBVIOUS
    <2>3. f[t] = ShownWith(checkpoint[t])
      OBVIOUS
    <2> HIDE DEF f, g
    <2>4. g = [f EXCEPT ![t] = ShownWith(d)]
      BY <2>1, <2>2
    <2>5. ShownWith(d) = ShownWith(checkpoint[t]) => g = f
      BY <2>1, <2>2, <2>3
    <2> QED BY <2>4, <2>5 DEF f, g
  <1>6. /\ [u \in Thread |-> VerdictOn(checkpoint'[u])]
             = [[u \in Thread |-> VerdictOn(checkpoint[u])] EXCEPT ![t] = VerdictOn(d)]
        /\ VerdictOn(d) = VerdictOn(checkpoint[t]) =>
             [u \in Thread |-> VerdictOn(checkpoint'[u])] = [u \in Thread |-> VerdictOn(checkpoint[u])]
    <2> DEFINE f == [u \in Thread |-> VerdictOn(checkpoint[u])]
               g == [u \in Thread |-> VerdictOn(checkpoint'[u])]
    <2>1. \A u \in Thread : g[u] = IF u = t THEN VerdictOn(d) ELSE f[u]
      BY <1>1
    <2>2. f = [u \in Thread |-> f[u]] /\ g = [u \in Thread |-> g[u]]
      OBVIOUS
    <2>3. f[t] = VerdictOn(checkpoint[t])
      OBVIOUS
    <2> HIDE DEF f, g
    <2>4. g = [f EXCEPT ![t] = VerdictOn(d)]
      BY <2>1, <2>2
    <2>5. VerdictOn(d) = VerdictOn(checkpoint[t]) => g = f
      BY <2>1, <2>2, <2>3
    <2> QED BY <2>4, <2>5 DEF f, g
  <1> QED BY <1>2, <1>3, <1>4, <1>5, <1>6 DEF SeenAs

LEMMA SeenUnchanged ==
  ASSUME checkpoint' = checkpoint
  PROVE  UNCHANGED Promise!reviewVars
PROOF
  BY DEF Promise!reviewVars

LEMMA StartIsSeen ==
  ASSUME WorkflowInv, NEW t \in Thread, NEW i \in Investigation,
         NEW node \in {"prepare", "supplier"}, checkpoint[t] = NoState,
         Fresh(i, node) \in State, Stage(Fresh(i, node)) = "open",
         checkpoint' = [checkpoint EXCEPT ![t] = Fresh(i, node)]
  PROVE  Promise!ReviewNext
PROOF
  <1> DEFINE f == Fresh(i, node)
  <1>1. /\ Subject(f) = i /\ OfferOf(f) = NoReport /\ ShownWith(f) = {}
        /\ VerdictOn(f) = NoDecision
    BY WorkflowAssumption DEF Subject, OfferOf, ShownWith, VerdictOn, Fresh
  <1>2. /\ Stage(checkpoint[t]) = "absent" /\ OfferOf(checkpoint[t]) = NoReport
        /\ ShownWith(checkpoint[t]) = {} /\ VerdictOn(checkpoint[t]) = NoDecision
    BY DEF Stage, OfferOf, ShownWith, VerdictOn
  <1>3. TypeOK
    BY DEF WorkflowInv
  <1>4. SeenAs(t, f)
    BY <1>3, SeenUpdate
  <1>5. Stage(f) = "open"
    OBVIOUS
  <1> HIDE DEF f
  <1>6. Promise!Open(t, i)
    BY <1>1, <1>2, <1>4, <1>5 DEF Promise!Open, SeenAs
  <1> QED BY <1>6 DEF Promise!ReviewNext

LEMMA MoveIsSeen ==
  ASSUME WorkflowInv, NEW t \in Thread, checkpoint[t] \in State, NEW d \in State,
         Moves(checkpoint[t], d), checkpoint' = [checkpoint EXCEPT ![t] = d]
  PROVE  Promise!ReviewNext \/ UNCHANGED Promise!reviewVars
PROOF
  <1> DEFINE c == checkpoint[t]
  <1>1. SeenAs(t, d)
    BY SeenUpdate DEF WorkflowInv
  <1>2. Subject(c) = c.investigation /\ Subject(d) = c.investigation
    BY WorkflowAssumption DEF Subject, Moves
  <1>3. CASE Stage(d) = Stage(c) /\ Stage(c) \in {"open", "failed"}
    <2>1. /\ OfferOf(d) = OfferOf(c) /\ ShownWith(d) = ShownWith(c)
          /\ VerdictOn(d) = VerdictOn(c)
      BY <1>3 DEF OfferOf, ShownWith, VerdictOn
    <2>2. UNCHANGED Promise!reviewVars
      BY <1>1, <1>2, <1>3, <2>1 DEF SeenAs, Promise!reviewVars
    <2> QED BY <2>2
  <1>4. CASE Stage(c) = "open" /\ Stage(d) \in {"ready", "failed"}
    <2>1. /\ OfferOf(d) = OfferOf(c) /\ ShownWith(d) = ShownWith(c)
          /\ VerdictOn(d) = VerdictOn(c)
      BY <1>4 DEF OfferOf, ShownWith, VerdictOn
    <2>2. Promise!Conclude(t, Stage(d))
      BY <1>1, <1>2, <1>4, <2>1 DEF SeenAs, Promise!Conclude
    <2> QED BY <1>4, <2>2 DEF Promise!ReviewNext
  <1>5. CASE Stage(c) = "open" /\ Stage(d) = "pending" /\ d.report \in Report /\ Passes(d)
    <2>1. /\ OfferOf(d) = d.report /\ ShownWith(d) = d.evidence
          /\ VerdictOn(d) = VerdictOn(c)
      BY <1>5 DEF OfferOf, ShownWith, VerdictOn
    <2>2. /\ d.report = [investigation |-> Subject(c), cited |-> d.report.cited]
          /\ d.report.cited \in SUBSET d.evidence /\ d.evidence \in SUBSET Evidence
      BY <1>2, <1>5 DEF Passes, Moves, Report, State
    <2>3. /\ [u \in Thread |-> Stage(checkpoint[u])][t] = "open"
          /\ [u \in Thread |-> Subject(checkpoint[u])][t] = Subject(c)
      BY <1>5
    <2>4. [u \in Thread |-> OfferOf(checkpoint'[u])]
            = [[u \in Thread |-> OfferOf(checkpoint[u])] EXCEPT
                 ![t] = [investigation |-> Subject(c), cited |-> d.report.cited]]
      BY <1>1, <2>1, <2>2 DEF SeenAs
    <2>5. [u \in Thread |-> ShownWith(checkpoint'[u])]
            = [[u \in Thread |-> ShownWith(checkpoint[u])] EXCEPT ![t] = d.evidence]
      BY <1>1, <2>1 DEF SeenAs
    <2>6. /\ [u \in Thread |-> Stage(checkpoint'[u])]
               = [[u \in Thread |-> Stage(checkpoint[u])] EXCEPT ![t] = "pending"]
          /\ [u \in Thread |-> Subject(checkpoint'[u])] = [u \in Thread |-> Subject(checkpoint[u])]
          /\ [u \in Thread |-> VerdictOn(checkpoint'[u])]
               = [u \in Thread |-> VerdictOn(checkpoint[u])]
      BY <1>1, <1>2, <1>5, <2>1 DEF SeenAs
    <2>7. Promise!OfferReport(t)
      BY <2>2, <2>3, <2>4, <2>5, <2>6 DEF Promise!OfferReport
    <2> QED BY <2>7 DEF Promise!ReviewNext
  <1>6. CASE /\ Stage(c) \in {"pending", "decided"} /\ Stage(d) = "decided"
             /\ d.report = c.report /\ d.evidence = c.evidence
             /\ d.decided \in Request /\ d.decided.investigation = c.investigation
    <2>1. /\ OfferOf(d) = OfferOf(c) /\ ShownWith(d) = ShownWith(c)
          /\ VerdictOn(d) = d.decided
      BY <1>6 DEF OfferOf, ShownWith, VerdictOn
    <2>2. /\ d.decided = [investigation |-> Subject(c), decision |-> d.decided.decision]
          /\ d.decided.decision \in Promise!Decision
      BY <1>2, <1>6 DEF Request, Decision, Promise!Decision
    <2>3. /\ [u \in Thread |-> Stage(checkpoint[u])][t] \in {"pending", "decided"}
          /\ [u \in Thread |-> Subject(checkpoint[u])][t] = Subject(c)
      BY <1>6
    <2>4. [u \in Thread |-> VerdictOn(checkpoint'[u])]
            = [[u \in Thread |-> VerdictOn(checkpoint[u])] EXCEPT
                 ![t] = [investigation |-> Subject(c), decision |-> d.decided.decision]]
      BY <1>1, <2>1, <2>2 DEF SeenAs
    <2>5. /\ [u \in Thread |-> Stage(checkpoint'[u])]
               = [[u \in Thread |-> Stage(checkpoint[u])] EXCEPT ![t] = "decided"]
          /\ [u \in Thread |-> Subject(checkpoint'[u])] = [u \in Thread |-> Subject(checkpoint[u])]
          /\ [u \in Thread |-> OfferOf(checkpoint'[u])] = [u \in Thread |-> OfferOf(checkpoint[u])]
          /\ [u \in Thread |-> ShownWith(checkpoint'[u])]
               = [u \in Thread |-> ShownWith(checkpoint[u])]
      BY <1>1, <1>2, <1>6, <2>1 DEF SeenAs
    <2>6. Promise!Decide(t)
      BY <2>2, <2>3, <2>4, <2>5 DEF Promise!Decide
    <2> QED BY <2>6 DEF Promise!ReviewNext
  <1> QED BY <1>3, <1>4, <1>5, <1>6 DEF Moves

LEMMA NextKeepsThreads ==
  ASSUME ~ReuseThreads, WorkflowInv, ThreadInv, [Next]_vars
  PROVE  ThreadInv' /\ (Promise!ReviewNext \/ UNCHANGED Promise!reviewVars)
PROOF
  <1>1. ASSUME NEW p \in Process, GraphStep(p)
        PROVE  ThreadInv' /\ (Promise!ReviewNext \/ UNCHANGED Promise!reviewVars)
    <2>1. mode[p] = "run"
      BY <1>1, NodesMove
    <2>2. CASE EndInvocation(p) /\ UNCHANGED <<checkpoint, faults>>
      BY <1>1, <2>2, EndKeepsThreads, SeenUnchanged
    <2>3. CASE \E d \in State : Writes(p, d) /\ Moves(checkpoint[thread[p]], d)
      <3>1. PICK d \in State : Writes(p, d) /\ Moves(checkpoint[thread[p]], d)
        BY <2>3
      <3>2. thread[p] \in Thread /\ checkpoint[thread[p]] \in State
        BY <2>1 DEF WorkflowInv, TypeOK
      <3>3. checkpoint' = [checkpoint EXCEPT ![thread[p]] = d]
        BY <3>1 DEF Writes
      <3>4. Promise!ReviewNext \/ UNCHANGED Promise!reviewVars
        BY <3>1, <3>2, <3>3, MoveIsSeen
      <3> QED BY <2>1, <3>1, <3>4, MoveKeepsThreads
    <2> QED BY <1>1, <2>2, <2>3, NodesMove
  <1>2. ASSUME NEW p \in Process, Resume(p)
        PROVE  ThreadInv' /\ (Promise!ReviewNext \/ UNCHANGED Promise!reviewVars)
    <2>1. checkpoint' = checkpoint
      BY <1>2 DEF Resume
    <2> QED BY <1>2, <2>1, ResumeKeepsThreads, SeenUnchanged
  <1>3. ASSUME NEW p \in Process, Crash(p)
        PROVE  ThreadInv' /\ (Promise!ReviewNext \/ UNCHANGED Promise!reviewVars)
    <2>1. EndInvocation(p) /\ checkpoint' = checkpoint
      BY <1>3 DEF Crash
    <2> QED BY <2>1, EndKeepsThreads, SeenUnchanged
  <1>4. ASSUME NEW p \in Process, NEW t \in Thread, NEW i \in Investigation,
               CreateInvestigation(p, t, i) \/ RunInvestigation(p, t, i)
        PROVE  ThreadInv' /\ (Promise!ReviewNext \/ UNCHANGED Promise!reviewVars)
    <2>1. PICK node \in {"prepare", "supplier"} : Start(p, t, i, node)
      BY <1>4 DEF CreateInvestigation, RunInvestigation
    <2>2. /\ ThreadInv'
          /\ Fresh(i, node) \in State /\ Stage(Fresh(i, node)) = "open"
          /\ checkpoint[t] = NoState
      BY <2>1, StartKeepsThreads
    <2>3. checkpoint' = [checkpoint EXCEPT ![t] = Fresh(i, node)]
      BY <2>1 DEF Start
    <2>4. Promise!ReviewNext
      BY <2>2, <2>3, StartIsSeen
    <2> QED BY <2>2, <2>4
  <1>5. ASSUME NEW p \in Process, NEW t \in Thread, NEW r \in Request, SubmitReview(p, t, r)
        PROVE  ThreadInv' /\ (Promise!ReviewNext \/ UNCHANGED Promise!reviewVars)
    <2>1. checkpoint' = checkpoint
      BY <1>5 DEF SubmitReview
    <2> QED BY <1>5, <2>1, SubmissionKeepsThreads, SeenUnchanged
  <1>6. ASSUME UNCHANGED vars
        PROVE  ThreadInv' /\ (Promise!ReviewNext \/ UNCHANGED Promise!reviewVars)
    <2>1. /\ checkpoint' = checkpoint /\ mode' = mode /\ thread' = thread
          /\ local' = local /\ request' = request
      BY <1>6 DEF vars
    <2>2. ThreadInv'
      BY <2>1 DEF ThreadInv, UnderReview
    <2> QED BY <2>1, <2>2, SeenUnchanged
  <1> QED BY <1>1, <1>2, <1>3, <1>4, <1>5, <1>6 DEF Next

(* When threads are not reused, the workflow implements HumanReview: for   *)
(* any number of processes and reviewers, a thread offers at most one      *)
(* report, validated and about its own investigation, and never another.   *)
THEOREM ReviewImplemented ==
  ASSUME ~ReuseThreads
  PROVE  Spec => ImplementsHumanReview
PROOF
  <1>1. Init => Promise!ReviewInit
    BY DEF Init, Promise!ReviewInit, Stage, Subject, OfferOf, ShownWith, VerdictOn
  <1>2. WorkflowInv /\ ThreadInv /\ [Next]_vars => ThreadInv'
    BY NextKeepsThreads
  <1>3. WorkflowInv /\ ThreadInv /\ [Next]_vars => [Promise!ReviewNext]_(Promise!reviewVars)
    BY NextKeepsThreads
  <1>4. Spec => []ThreadInv
    BY InitThreads, InvCorrect, <1>2, PTL DEF Spec
  <1> QED
    BY <1>1, <1>3, <1>4, InvCorrect, PTL DEF Spec, ImplementsHumanReview, Promise!ReviewSpec

-----------------------------------------------------------------------------
(* Where the two claims the code does not keep do hold.  No operation of    *)
(* the service takes a lock: a caller that wants a thread for itself has to *)
(* see to it that no other process is working on it.                        *)

Exclusive ==
  \A p, q \in Process :
    mode[p] # "idle" /\ mode[q] # "idle" /\ thread[p] = thread[q] => p = q

(* What an invocation alone on its thread has is what the thread holds, and *)
(* an answer it has still to give is one the thread still waits for.        *)
AloneInv ==
  /\ \A p \in Process : mode[p] = "idle" => request[p] = NoRequest
  /\ \A p \in Process : mode[p] = "run" => local[p] = checkpoint[thread[p]]
  /\ \A p \in Process :
       mode[p] # "idle" /\ request[p] # NoRequest =>
         ReviewIsPending(checkpoint[thread[p]], request[p])

(* A node ends its invocation or writes one state.                          *)
LEMMA NodesWrite ==
  ASSUME NEW p \in Process, GraphStep(p)
  PROVE  /\ mode[p] = "run"
         /\ \/ EndInvocation(p) /\ checkpoint' = checkpoint
            \/ \E d : Writes(p, d)
PROOF
  <1>1. mode[p] = "run"
    BY DEF GraphStep, PassOn, Prepare, Retrieve, RetrievalRejected, RetrievalRaises, Analyze,
           AnalysisFails, Finalize, Validate, Interrupt, Review, Close, Working, At
  <1>2. CASE RetrievalRaises(p) \/ Interrupt(p)
    BY <1>1, <1>2 DEF RetrievalRaises, Interrupt
  <1>3. ASSUME ~(RetrievalRaises(p) \/ Interrupt(p))
        PROVE  \E s : Write(p, s)
    BY <1>3
    DEF GraphStep, PassOn, Prepare, Retrieve, RetrievalRejected, Analyze, AnalysisFails,
        Finalize, Validate, Review, Close
  <1>4. ASSUME NEW s, Write(p, s)
        PROVE  Writes(p, [s EXCEPT !.next = Successor[local[p].next]])
    <2> DEFINE d == [s EXCEPT !.next = Successor[local[p].next]]
    <2>1. /\ checkpoint' = [checkpoint EXCEPT ![thread[p]] = d]
          /\ faults' = faults
          /\ IF d.next = "done"
               THEN EndInvocation(p)
               ELSE /\ local'   = [local   EXCEPT ![p] = d]
                    /\ request' = [request EXCEPT ![p] = NoRequest]
                    /\ UNCHANGED <<mode, thread>>
      BY <1>4 DEF Write
    <2> QED BY <2>1 DEF Writes
  <1> QED BY <1>1, <1>2, <1>3, <1>4

LEMMA EndKeepsAlone ==
  ASSUME WorkflowInv, AloneInv, NEW p \in Process, EndInvocation(p), checkpoint' = checkpoint
  PROVE  AloneInv'
PROOF
  <1>1. \A q \in Process : mode'[q] # "idle" =>
          /\ mode'[q] = mode[q] /\ thread'[q] = thread[q]
          /\ local'[q] = local[q] /\ request'[q] = request[q]
    BY DEF WorkflowInv, TypeOK, EndInvocation
  <1>2. \A q \in Process : mode'[q] = "idle" => request'[q] = NoRequest
    BY DEF WorkflowInv, TypeOK, EndInvocation, AloneInv
  <1>3. \A q \in Process : mode'[q] = "run" => local'[q] = checkpoint'[thread'[q]]
    BY <1>1 DEF AloneInv
  <1>4. \A q \in Process : mode'[q] # "idle" /\ request'[q] # NoRequest =>
          ReviewIsPending(checkpoint'[thread'[q]], request'[q])
    BY <1>1 DEF AloneInv
  <1> QED BY <1>2, <1>3, <1>4 DEF AloneInv, ReviewIsPending

(* The threads of the others are not the one that is written.               *)
LEMMA WriteKeepsAlone ==
  ASSUME WorkflowInv, AloneInv, Exclusive, NEW p \in Process, mode[p] = "run",
         NEW d, Writes(p, d)
  PROVE  AloneInv'
PROOF
  <1>1. /\ thread[p] \in Thread
        /\ checkpoint' = [checkpoint EXCEPT ![thread[p]] = d]
        /\ checkpoint'[thread[p]] = d
    BY DEF Writes, WorkflowInv, TypeOK
  <1>2. \A q \in Process : q # p =>
          /\ mode'[q] = mode[q] /\ thread'[q] = thread[q]
          /\ local'[q] = local[q] /\ request'[q] = request[q]
    BY DEF WorkflowInv, TypeOK, EndInvocation, Writes
  <1>3. \A q \in Process : q # p /\ mode[q] # "idle" =>
          checkpoint'[thread[q]] = checkpoint[thread[q]]
    BY <1>1 DEF Exclusive, WorkflowInv, TypeOK
  <1>4. /\ request'[p] = NoRequest
        /\ mode'[p] # "idle" => thread'[p] = thread[p] /\ local'[p] = d
    BY DEF WorkflowInv, TypeOK, EndInvocation, Writes
  <1>5. \A q \in Process : mode'[q] = "idle" => request'[q] = NoRequest
    BY <1>2, <1>4 DEF AloneInv
  <1>6. \A q \in Process : mode'[q] = "run" => local'[q] = checkpoint'[thread'[q]]
    BY <1>1, <1>2, <1>3, <1>4 DEF AloneInv
  <1>7. \A q \in Process : mode'[q] # "idle" /\ request'[q] # NoRequest =>
          ReviewIsPending(checkpoint'[thread'[q]], request'[q])
    BY <1>2, <1>3, <1>4 DEF AloneInv
  <1> QED BY <1>5, <1>6, <1>7 DEF AloneInv, ReviewIsPending

(* A thread is started while no other process is on it.                     *)
LEMMA StartKeepsAlone ==
  ASSUME WorkflowInv, AloneInv, Exclusive', NEW p \in Process, NEW t \in Thread,
         NEW i \in Investigation, NEW node \in {"prepare", "supplier"}, Start(p, t, i, node)
  PROVE  AloneInv'
PROOF
  <1> DEFINE f == Fresh(i, node)
  <1>1. /\ mode[p] = "idle"
        /\ checkpoint' = [checkpoint EXCEPT ![t] = f]
        /\ local'      = [local  EXCEPT ![p] = f]
        /\ mode'       = [mode   EXCEPT ![p] = "run"]
        /\ thread'     = [thread EXCEPT ![p] = t]
        /\ request' = request
    BY DEF Start
  <1> HIDE DEF f
  <1>2. /\ mode'[p] = "run" /\ thread'[p] = t /\ local'[p] = f
        /\ checkpoint'[t] = f /\ request'[p] = NoRequest
    BY <1>1 DEF WorkflowInv, TypeOK, AloneInv
  <1>3. \A q \in Process : q # p =>
          mode'[q] = mode[q] /\ thread'[q] = thread[q] /\ local'[q] = local[q]
    BY <1>1 DEF WorkflowInv, TypeOK
  <1>4. \A q \in Process : q # p /\ mode'[q] # "idle" => thread'[q] # t
    BY <1>2 DEF Exclusive
  <1>5. \A q \in Process : q # p /\ mode'[q] # "idle" =>
          checkpoint'[thread'[q]] = checkpoint[thread[q]]
    BY <1>1, <1>3, <1>4 DEF WorkflowInv, TypeOK
  <1>6. \A q \in Process : mode'[q] = "idle" => request'[q] = NoRequest
    BY <1>1, <1>2, <1>3 DEF AloneInv
  <1>7. \A q \in Process : mode'[q] = "run" => local'[q] = checkpoint'[thread'[q]]
    BY <1>2, <1>3, <1>5 DEF AloneInv
  <1>8. \A q \in Process : mode'[q] # "idle" /\ request'[q] # NoRequest =>
          ReviewIsPending(checkpoint'[thread'[q]], request'[q])
    BY <1>1, <1>2, <1>3, <1>5 DEF AloneInv
  <1> QED BY <1>6, <1>7, <1>8 DEF AloneInv, ReviewIsPending

LEMMA SubmissionKeepsAlone ==
  ASSUME WorkflowInv, AloneInv, NEW p \in Process, NEW t \in Thread, NEW r \in Request,
         SubmitReview(p, t, r)
  PROVE  AloneInv'
PROOF
  <1>1. /\ checkpoint' = checkpoint /\ local' = local
        /\ mode'[p] = "submit" /\ thread'[p] = t /\ request'[p] = r
        /\ ReviewIsPending(checkpoint[t], r)
    BY DEF SubmitReview, WorkflowInv, TypeOK
  <1>2. \A q \in Process : q # p =>
          mode'[q] = mode[q] /\ thread'[q] = thread[q] /\ request'[q] = request[q]
    BY DEF SubmitReview, WorkflowInv, TypeOK
  <1>3. \A q \in Process : mode'[q] = "idle" => request'[q] = NoRequest
    BY <1>1, <1>2 DEF AloneInv
  <1>4. \A q \in Process : mode'[q] = "run" => local'[q] = checkpoint'[thread'[q]]
    BY <1>1, <1>2 DEF AloneInv
  <1>5. \A q \in Process : mode'[q] # "idle" /\ request'[q] # NoRequest =>
          ReviewIsPending(checkpoint'[thread'[q]], request'[q])
    BY <1>1, <1>2 DEF AloneInv
  <1> QED BY <1>3, <1>4, <1>5 DEF AloneInv, ReviewIsPending

LEMMA ResumeKeepsAlone ==
  ASSUME WorkflowInv, AloneInv, NEW p \in Process, Resume(p)
  PROVE  AloneInv'
PROOF
  <1>1. checkpoint' = checkpoint /\ mode[p] = "submit"
    BY DEF Resume
  <1>2. CASE EndInvocation(p)
    BY <1>1, <1>2, EndKeepsAlone
  <1>3. CASE /\ local' = [local EXCEPT ![p] = checkpoint[thread[p]]]
             /\ mode'  = [mode  EXCEPT ![p] = "run"]
             /\ UNCHANGED <<thread, request>>
    <2>1. /\ thread' = thread /\ request' = request
          /\ mode'[p] = "run" /\ local'[p] = checkpoint[thread[p]]
      BY <1>3 DEF WorkflowInv, TypeOK
    <2>2. \A q \in Process : q # p => mode'[q] = mode[q] /\ local'[q] = local[q]
      BY <1>3 DEF WorkflowInv, TypeOK
    <2>3. \A q \in Process : mode'[q] = "idle" => request'[q] = NoRequest
      BY <2>1, <2>2 DEF AloneInv
    <2>4. \A q \in Process : mode'[q] = "run" => local'[q] = checkpoint'[thread'[q]]
      BY <1>1, <2>1, <2>2 DEF AloneInv
    <2>5. \A q \in Process : mode'[q] # "idle" /\ request'[q] # NoRequest =>
            ReviewIsPending(checkpoint'[thread'[q]], request'[q])
      BY <1>1, <2>1, <2>2 DEF AloneInv
    <2> QED BY <2>3, <2>4, <2>5 DEF AloneInv, ReviewIsPending
  <1> QED BY <1>2, <1>3 DEF Resume

LEMMA NextKeepsAlone ==
  ASSUME WorkflowInv, AloneInv, Exclusive, Exclusive', [Next]_vars
  PROVE  AloneInv'
PROOF
  <1>1. ASSUME NEW p \in Process, GraphStep(p) PROVE AloneInv'
    BY <1>1, NodesWrite, EndKeepsAlone, WriteKeepsAlone
  <1>2. ASSUME NEW p \in Process, Resume(p) PROVE AloneInv'
    BY <1>2, ResumeKeepsAlone
  <1>3. ASSUME NEW p \in Process, Crash(p) PROVE AloneInv'
    BY <1>3, EndKeepsAlone DEF Crash
  <1>4. ASSUME NEW p \in Process, NEW t \in Thread, NEW i \in Investigation,
               CreateInvestigation(p, t, i) \/ RunInvestigation(p, t, i)
        PROVE  AloneInv'
    BY <1>4, StartKeepsAlone DEF CreateInvestigation, RunInvestigation
  <1>5. ASSUME NEW p \in Process, NEW t \in Thread, NEW r \in Request, SubmitReview(p, t, r)
        PROVE  AloneInv'
    BY <1>5, SubmissionKeepsAlone
  <1>6. CASE UNCHANGED vars
    BY <1>6 DEF vars, AloneInv, ReviewIsPending
  <1> QED BY <1>1, <1>2, <1>3, <1>4, <1>5, <1>6 DEF Next

(* Only "close" can follow a decision, and it writes the decision again.    *)
LEMMA DecisionIsWrittenAgain ==
  ASSUME WorkflowInv, AloneInv, NEW p \in Process, GraphStep(p), Final(checkpoint[thread[p]])
  PROVE  \/ checkpoint' = checkpoint
         \/ /\ checkpoint'[thread[p]].review = checkpoint[thread[p]].review
            /\ checkpoint'[thread[p]].decided = checkpoint[thread[p]].decided
            /\ \A u \in Thread : u # thread[p] => checkpoint'[u] = checkpoint[u]
PROOF
  <1> DEFINE l == local[p]
  <1>1. mode[p] = "run"
    BY NodesWrite
  <1>2. /\ l \in State /\ Sound(l) /\ thread[p] \in Thread
        /\ l = checkpoint[thread[p]]
    BY <1>1, WorkflowAssumption DEF WorkflowInv, TypeOK, AloneInv
  <1>3. l.status = "COMPLETED" /\ l.next \notin BeforeReview \cup {"review"}
    BY <1>2 DEF Sound, Final
  <1>4. ~Skips(l)
    BY <1>3 DEF Skips
  <1>5. Close(p)
    BY <1>3, <1>4
    DEF GraphStep, PassOn, Prepare, Retrieve, RetrievalRejected, RetrievalRaises, Analyze,
        AnalysisFails, Finalize, Validate, Interrupt, Review, Working, At, BeforeReview
  <1>6. checkpoint' = [checkpoint EXCEPT ![thread[p]] =
                         [l EXCEPT !.next = Successor[l.next]]]
    BY <1>5 DEF Close, Write
  <1>7. /\ [l EXCEPT !.next = Successor[l.next]].review = l.review
        /\ [l EXCEPT !.next = Successor[l.next]].decided = l.decided
    BY <1>2 DEF State
  <1>8. /\ checkpoint'[thread[p]] = [l EXCEPT !.next = Successor[l.next]]
        /\ \A u \in Thread : u # thread[p] => checkpoint'[u] = checkpoint[u]
    BY <1>2, <1>6 DEF WorkflowInv, TypeOK
  <1> QED BY <1>2, <1>7, <1>8

LEMMA DecisionStands ==
  ASSUME WorkflowInv, AloneInv, [Next]_vars, NEW t \in Thread, Decided(t), Decided(t)',
         checkpoint'[t].investigation = checkpoint[t].investigation
  PROVE  /\ checkpoint'[t].review = checkpoint[t].review
         /\ checkpoint'[t].decided = checkpoint[t].decided
PROOF
  <1> DEFINE Same == /\ checkpoint'[t].review = checkpoint[t].review
                     /\ checkpoint'[t].decided = checkpoint[t].decided
  <1>1. ASSUME NEW p \in Process, GraphStep(p)
        PROVE  Same
    <2>1. CASE thread[p] = t
      BY <1>1, <2>1, DecisionIsWrittenAgain DEF Decided
    <2>2. CASE thread[p] # t
      <3>1. checkpoint'[t] = checkpoint[t]
        BY <1>1, <2>2, NodesWrite DEF Writes, WorkflowInv, TypeOK
      <3> QED BY <3>1
    <2> QED BY <2>1, <2>2
  <1>2. ASSUME NEW p \in Process, Resume(p) \/ Crash(p)
        PROVE  checkpoint' = checkpoint
    BY <1>2 DEF Resume, Crash
  <1>3. ASSUME NEW p \in Process, NEW u \in Thread, NEW i \in Investigation,
               CreateInvestigation(p, u, i) \/ RunInvestigation(p, u, i)
        PROVE  checkpoint'[t] = checkpoint[t]
    <2>1. PICK node \in {"prepare", "supplier"} : Start(p, u, i, node)
      BY <1>3 DEF CreateInvestigation, RunInvestigation
    <2>2. checkpoint' = [checkpoint EXCEPT ![u] = Fresh(i, node)]
      BY <2>1 DEF Start
    <2>3. ~Final(Fresh(i, node))
      BY DEF Final, Fresh
    <2>4. u # t
      BY <2>2, <2>3 DEF Decided, WorkflowInv, TypeOK
    <2> QED BY <2>2, <2>4 DEF WorkflowInv, TypeOK
  <1>4. ASSUME NEW p \in Process, NEW u \in Thread, NEW r \in Request, SubmitReview(p, u, r)
        PROVE  checkpoint' = checkpoint
    BY <1>4 DEF SubmitReview
  <1>5. CASE UNCHANGED vars
    BY <1>5 DEF vars
  <1> QED BY <1>1, <1>2, <1>3, <1>4, <1>5 DEF Next

(* A review node that has its answer writes the report it holds, when the   *)
(* answer is for the investigation the node is working on.                  *)
LEMMA AnsweredReviewKeepsReport ==
  ASSUME WorkflowInv, NEW p \in Process, Review(p),
         request[p] # NoRequest => request[p].investigation = local[p].investigation
  PROVE  checkpoint'[thread[p]].report = local[p].report
PROOF
  <1> DEFINE l == local[p]
             r == [l EXCEPT !.review = request[p].decision, !.decided = request[p]]
  <1>1. mode[p] = "run" /\ l.next = "review" /\ l.status # "FAILED"
    BY DEF Review, Working, At, Skips
  <1>2. l \in State /\ Sound(l) /\ thread[p] \in Thread
    BY <1>1, WorkflowAssumption DEF WorkflowInv, TypeOK
  <1>3. Reviewable(l)
    BY <1>1, <1>2 DEF Sound, Reviewable, Passes
  <1>4. Write(p, r)
    BY <1>3 DEF Review
  <1>5. checkpoint' = [checkpoint EXCEPT ![thread[p]] =
                         [r EXCEPT !.next = Successor[l.next]]]
    BY <1>4 DEF Write
  <1>6. [r EXCEPT !.next = Successor[l.next]].report = l.report
    BY <1>2 DEF State
  <1>7. checkpoint'[thread[p]] = [r EXCEPT !.next = Successor[l.next]]
    BY <1>2, <1>5 DEF WorkflowInv, TypeOK
  <1> QED BY <1>6, <1>7

LEMMA InitAlone == Init => AloneInv
PROOF
  BY DEF Init, AloneInv

(* As long as no two processes are on one thread, the first decision on a   *)
(* report stands, although nothing in the code refuses a second one that    *)
(* was let in before the first was written; threads may be started again,   *)
(* and processes may die.                                                   *)
THEOREM FirstDecisionStandsAlone ==
  Spec /\ []Exclusive => FirstDecisionStands
PROOF
  <1> DEFINE Stands == \A t \in Thread :
               Decided(t) /\ Decided(t)'
                 /\ checkpoint'[t].investigation = checkpoint[t].investigation
               => checkpoint'[t].review = checkpoint[t].review
  <1>1. WorkflowInv /\ AloneInv /\ [Next]_vars => Stands
    BY DecisionStands
  <1>2. WorkflowInv /\ AloneInv /\ Exclusive /\ Exclusive' /\ [Next]_vars => AloneInv'
    BY NextKeepsAlone
  <1> HIDE DEF Stands
  <1>3. Spec /\ []Exclusive => [][Stands]_vars
    BY InitAlone, InvCorrect, <1>1, <1>2, PTL DEF Spec
  <1> QED BY <1>3 DEF FirstDecisionStands, Stands

(* Under the same condition a review never drops the report it decides on.  *)
THEOREM ReviewKeepsReportAlone ==
  Spec /\ []Exclusive => ReviewKeepsReport
PROOF
  <1> DEFINE Keeps == \A p \in Process :
               Review(p) => checkpoint'[thread[p]].report = local[p].report
  <1>1. ASSUME WorkflowInv, AloneInv, NEW p \in Process, Review(p)
        PROVE  checkpoint'[thread[p]].report = local[p].report
    <2>1. mode[p] = "run"
      BY <1>1 DEF Review, Working, At
    <2>2. request[p] # NoRequest => request[p].investigation = local[p].investigation
      BY <1>1, <2>1 DEF AloneInv, ReviewIsPending
    <2> QED BY <1>1, <2>2, AnsweredReviewKeepsReport
  <1>2. WorkflowInv /\ AloneInv => Keeps
    BY <1>1
  <1>3. WorkflowInv /\ AloneInv /\ Exclusive /\ Exclusive' /\ [Next]_vars => AloneInv'
    BY NextKeepsAlone
  <1> HIDE DEF Keeps
  <1>4. Spec /\ []Exclusive => [][Keeps]_vars
    BY InitAlone, InvCorrect, <1>2, <1>3, PTL DEF Spec
  <1> QED BY <1>4 DEF ReviewKeepsReport, Keeps

(* It also never does when threads are not reused, with any number of       *)
(* reviewers at once: only another investigation in the thread can make an  *)
(* answer that was let in the answer to something else.                     *)
THEOREM ReviewKeepsReportWithoutReuse ==
  ASSUME ~ReuseThreads
  PROVE  Spec => ReviewKeepsReport
PROOF
  <1> DEFINE Keeps == \A p \in Process :
               Review(p) => checkpoint'[thread[p]].report = local[p].report
  <1>1. ASSUME WorkflowInv, ThreadInv, NEW p \in Process, Review(p)
        PROVE  checkpoint'[thread[p]].report = local[p].report
    <2>1. mode[p] = "run"
      BY <1>1 DEF Review, Working, At
    <2>2. request[p] # NoRequest => request[p].investigation = local[p].investigation
      BY <1>1, <2>1 DEF ThreadInv
    <2> QED BY <1>1, <2>2, AnsweredReviewKeepsReport
  <1>2. WorkflowInv /\ ThreadInv => Keeps
    BY <1>1
  <1>3. WorkflowInv /\ ThreadInv /\ [Next]_vars => ThreadInv'
    BY NextKeepsThreads
  <1> HIDE DEF Keeps
  <1>4. Spec => [][Keeps]_vars
    BY InitThreads, InvCorrect, <1>2, <1>3, PTL DEF Spec
  <1> QED BY <1>4 DEF ReviewKeepsReport, Keeps

(* When threads are not reused and no two processes are on one, every step  *)
(* takes a thread further (OnceSpec), and its first decision stands.  The   *)
(* page of the application does not see to that: Dashboard keeps ReviewSpec *)
(* at all times, and OnceSpec only while reviews do not overlap.            *)
THEOREM OneReviewImplemented ==
  ASSUME ~ReuseThreads
  PROVE  Spec /\ []Exclusive => Promise!OnceSpec
PROOF
  <1>1. Init => Promise!ReviewInit
    BY DEF Init, Promise!ReviewInit, Stage, Subject, OfferOf, ShownWith, VerdictOn
  <1>2. WorkflowInv /\ ThreadInv /\ [Next]_vars => ThreadInv'
    BY NextKeepsThreads
  <1>3. WorkflowInv /\ AloneInv /\ Exclusive /\ Exclusive' /\ [Next]_vars => AloneInv'
    BY NextKeepsAlone
  <1>4. ASSUME WorkflowInv, AloneInv, [Next]_vars, Promise!ReviewNext,
               ~UNCHANGED Promise!reviewVars
        PROVE  [u \in Thread |-> Stage(checkpoint'[u])] # [u \in Thread |-> Stage(checkpoint[u])]
    <2> DEFINE f == [u \in Thread |-> Stage(checkpoint[u])]
               g == [u \in Thread |-> Stage(checkpoint'[u])]
    <2>1. PICK t \in Thread :
            \/ \E i \in Investigation : Promise!Open(t, i)
            \/ \E end \in {"ready", "failed"} : Promise!Conclude(t, end)
            \/ Promise!OfferReport(t)
            \/ Promise!Decide(t)
      BY <1>4 DEF Promise!ReviewNext
    <2>2. CASE ~Promise!Decide(t)
      <3>1. f[t] # g[t]
        BY <2>1, <2>2 DEF Promise!Open, Promise!Conclude, Promise!OfferReport
      <3> QED BY <3>1
    <2>3. CASE Promise!Decide(t) /\ f[t] = "pending"
      <3>1. f[t] # g[t]
        BY <2>3 DEF Promise!Decide
      <3> QED BY <3>1
    <2>4. CASE Promise!Decide(t) /\ f[t] # "pending"
      <3>1. Stage(checkpoint[t]) = "decided" /\ Stage(checkpoint'[t]) = "decided"
        BY <2>4 DEF Promise!Decide
      <3>2. Subject(checkpoint'[t]) = Subject(checkpoint[t])
        <4>1. [u \in Thread |-> Subject(checkpoint'[u])][t]
                = [u \in Thread |-> Subject(checkpoint[u])][t]
          BY <2>4 DEF Promise!Decide
        <4> QED BY <4>1
      <3>3. Decided(t) /\ Decided(t)'
        BY <3>1 DEF Stage, Decided
      <3>4. checkpoint'[t].decided = checkpoint[t].decided
        BY <1>4, <3>2, <3>3, DecisionStands DEF Subject, Decided
      <3>5. VerdictOn(checkpoint'[t]) = VerdictOn(checkpoint[t])
        BY <3>1, <3>4 DEF VerdictOn
      <3> DEFINE v == [u \in Thread |-> VerdictOn(checkpoint[u])]
                 w == [u \in Thread |-> VerdictOn(checkpoint'[u])]
      <3>6. v[t] = w[t]
        BY <3>5
      <3>7. v = [u \in Thread |-> v[u]] /\ \E x : w = [v EXCEPT ![t] = x]
        BY <2>4 DEF Promise!Decide
      <3>8. f = [u \in Thread |-> f[u]] /\ g = [f EXCEPT ![t] = "decided"] /\ f[t] = "decided"
        BY <2>4, <3>1 DEF Promise!Decide
      <3> HIDE DEF f, g, v, w
      <3>9. w = v /\ g = f
        BY <3>6, <3>7, <3>8
      <3>10. UNCHANGED Promise!reviewVars
        BY <2>4, <3>9 DEF Promise!Decide, Promise!reviewVars, f, g, v, w
      <3> QED BY <1>4, <3>10
    <2> QED BY <2>2, <2>3, <2>4
  <1>5. WorkflowInv /\ ThreadInv /\ AloneInv /\ [Next]_vars
          => [Promise!OnceNext]_(Promise!reviewVars)
    BY <1>4, NextKeepsThreads DEF Promise!OnceNext
  <1>6. Spec => []ThreadInv
    BY InitThreads, InvCorrect, <1>2, PTL DEF Spec
  <1>7. Spec /\ []Exclusive => []AloneInv
    BY InitAlone, InvCorrect, <1>3, PTL DEF Spec
  <1> QED
    BY <1>1, <1>5, <1>6, <1>7, InvCorrect, PTL DEF Spec, Promise!OnceSpec

=============================================================================
