# A verification of the supply-chain risk pipeline

This directory holds TLA+ specifications of the pipeline in `src/src/supplychain`, the TLC runs that
check them on small instances, and TLAPS proofs of what matters most for instances of any size.
Paths below are relative to `src/src/supplychain` unless they begin with `src/`.

The pipeline in one line: *source adapters* publish canonical events to Pub/Sub; *processing
workers* store them in BigQuery and keep a ledger of what they accepted; a view selects the current
version of each event; *risk batches* assess suppliers from the view and publish the MART tables;
*investigations* have a language model explain an assessment and a human decide on the report.
Almost nothing in it is hard to compute. What is hard is that every component works against a
service it shares with others and that may fail, answer late or answer twice, and that **no
transaction and no lock spans two of its calls**. That is what the specifications are about.

## 1. Inventory

| component | state it keeps | operations | interacts through |
|---|---|---|---|
| HTTP client and adapters (`integrations/`) | none between calls | fetch with retries, parse, canonicalize | calls; returns canonical events |
| Pub/Sub client and topology (`messaging/`) | the broker's: messages, deadlines, delivery attempts; emulator resources | publish, pull, acknowledge, request redelivery, bootstrap | at-least-once messages |
| event processing (`processing/coordinator.py`, `disposition.py`, `failures.py`) | none between deliveries | process: assess, handle, record, acknowledge or request redelivery | calls the ledger, the sink and the consumer |
| processing ledger (`processing/ledger.py`, `decisions.py`, `revisions.py`, `fingerprints.py`) | SQLite table `processed_events`: the accepted version of each key | assess, record_success | shared by all workers |
| RAW sink and CORE view (`warehouse/bigquery.py`, `src/infra/sql/core/`) | append-only RAW rows | append; the view computes the current version of a key | read by risk batches and investigations |
| supplier risk batch (`warehouse/bigquery.py`) | CORE suppliers, MART history and current tables | load_snapshot, run | reads CORE, writes MART; read by the UI and the agent |
| risk scoring (`risk/`) | none | assess a supplier | called by the batch |
| agent data access (`agent/data.py`, `context.py`) | a list of executed queries | guarded reads | called by the retrieval nodes |
| investigation workflow (`agent/graph.py`, `service.py`, `validation.py`, `models.py`) | a checkpoint per thread, in PostgreSQL | create, run, get, submit_review | shared by all processes |
| language model client (`agent/llm.py`) | none | one structured request | called by the analysis node |
| user interface (`ui/`) | session state and caches of one page | render, start, review | calls the service |
| observability (`observability/`) | context variables, instruments | bind, span, record | wraps every call; feeds nothing back |
| contracts, sample data, evaluation harness, infrastructure | – | – | – |

What makes each of them correct, and what threatens it:

* **Processing.** A message is acknowledged only when the ledger covers what it carries; what the
  ledger accepts is stored; the ledger and the view never go back; every message ends acknowledged
  or dead-lettered. Threats: two workers on one message after its 30 s deadline, revisions in any
  order, duplicates, a crash or exception between any two of the four steps, a load job that commits
  after the handler gave up on it, a view that decides without the ledger.
* **Risk batches.** Readers of the current table see one whole batch that history holds too, with
  all the evidence that counts. Threats: failure between the two load jobs, overlapping batches,
  jobs that commit late, inputs that change between the reads, two windows behind one query bound.
* **Investigations.** A reviewer is asked only about a validated report; a decision is recorded on
  what it was made for; a failed investigation keeps neither report nor decision; an accepted review
  takes effect. Threats: submit_review decides on one checkpoint and resumes another, threads that
  are started again, the last writer of a checkpoint wins, exceptions that leave the graph.
* **Scoring.** A score stays close to the exact weighted sum through two roundings of floats; more
  evidence never lowers it; the family named as dominant is one that contributes most. Threats:
  half-way cases and exact ties, which the last bit of a float decides.
* **Integrations.** Attempts and delays are bounded whatever a provider answers, and what a page
  leaves out is later than what it returns. Threats: `Retry-After`, the limit, malformed features.
* **Messaging.** A message that decodes reaches a caller unless every pull of it was spoiled; a
  bootstrap that found or made what it declares is not undone by a later one. Threats: one foreign
  message fails a whole pull; two bootstraps interleave between their reads, deletions and
  creations.
* **Data access and user interface.** No query is billed over budget; a page and a report never
  combine an assessment with history or evidence of another; a page shows the report under review,
  and a form that is submitted again changes no decision that is settled. Threats: tables change
  between a dry run and its query, and between any two reads; a click starts a script while the one
  before it goes on in its call; a call fails after it took effect.

`PROJECT.json` lists these hazards line by line, with the properties that would catch each of them.

## 2. The modules

| module | what it specifies |
|---|---|
| `SourceVersions` | versions of events, their order, the verdict on an incoming version, the view's choice of rows. Operators only. |
| `EventProcessing` | broker, workers, RAW and ledger as one state machine; extends `SourceVersions` |
| `EventStore` | the abstract specification that event processing implements |
| `InvestigationWorkflow` | the checkpointed graph and the service around it |
| `HumanReview` | the abstract specification of a reviewed investigation, in two strengths: what is kept always, and what is kept as long as reviews of a thread do not overlap |
| `RiskMart` | batches of assessments, and the abstract specification of the MART tables |
| `RiskBatch` | supplier snapshots, risk batches and load jobs; extends `RiskMart`, and takes the view from `SourceVersions` |
| `RiskScoring` | the arithmetic of an assessment, re-run as events enter and leave the window |
| `SourceFetch` | one fetch: the retry loop, and what the adapters make of a reply |
| `Messaging` | publishing, pulls of several messages, and the bootstrap of the emulator |
| `Ingestion` | a producer that fetches and publishes: composes `SourceFetch` and `Messaging` |
| `GuardedReads` | reads of BigQuery under a budget |
| `Dashboard` | sessions of the application: composes `GuardedReads`, the tables as `RiskMart` promises them, and investigations as `HumanReview` does |
| `MC*` | instances for TLC; one `.cfg` per run |
| `*_proofs` | theorems and their proofs |

### 2.1 Event processing

**State.** `carried[m]` is the version (content and revision) a message carries; it is free in
`Init`, so several messages of one version (a publish repeated after a timeout, an event fetched
twice) are always included. `status`, `lease` and `attempts` are the broker's record of a message.
`pc[w]` and `job[w]` are a worker's place in `ProcessingCoordinator`. `ledger` is
`processed_events`; `raw` the rows of RAW; `lateJobs` the load jobs whose callers stopped waiting
(`_submit_load_job` never cancels one).

**Actions.** `Assess` is `ledger.assess`, `HandleSucceeds`/`HandleFails` the handler, `Record` the
SQLite transaction of `record_success`, `Acknowledge` and `RequestRedelivery` the calls on the
consumer. The code makes these calls in sequence with nothing held in between, so each is an action
and all interleave. `record_success` is one action because it is one `BEGIN IMMEDIATE` transaction.
Everything the runtime maps to REDELIVER or DEAD_LETTER is one request for redelivery in
`disposition.py`; only the broker moves a message to the dead-letter topic (`DeadLetter`). An
exception the runtime does not catch, and a crash, are `Abandon`.

**Abstraction.** A version stands for an event's identity, fingerprint and revision; event ids,
payloads and telemetry are left out. One delivery at a time is handed to a worker, where `pull` may
return several; with enough workers this has the same interleavings. RAW is a set: repeated rows of
one version are the same to every reader of the view.

### 2.2 Investigations

**State.** `checkpoint[t]` is the latest checkpoint of a thread; `local[p]` the channel values of a
running invocation, `request[p]` the answer a submission resumes the graph with. A state holds what
properties tell apart: the next node, identity, status, retrieved evidence, the report with the
events it cites, the validation result, the review status and the decision.

**Actions.** One per node, because LangGraph writes a checkpoint after each. `Write` is that
checkpoint: it replaces whatever the thread holds, since an invocation continues from what it
loaded. `SubmitReview` is the read and the checks of `submit_review`, `Resume` its later call of the
graph. A submission that is refused, and a read, change nothing and are no actions. `Analyze` lets
the model cite anything. `RetrievalRaises` is an exception that the retrieval nodes do not catch.

**Abstraction.** The checkpoints of the input and of the first node, which differ in nothing that a
reader or a submission can tell apart, are one. Risk figures of the report, and their comparison
with the context in `validate`, are not modelled: only the identity and citation checks are.

### 2.3 Risk batches

**State.** `suppliers`, `history`, `current` are tables; `stored` the event versions that have a row
in RAW; `late` the load jobs nobody waits for. `at`, `roster`, `batch` are the locals of `run()`.
What a batch reads is `visible`, the CORE view of `stored`: the operator of `SourceVersions` that
`EventProcessing` uses too, so that a newer version may move an event away from a supplier, and a
conflict may make the view show nothing of a key. `known` and `shown` are history variables: what
was visible when the batch began, and what the view has ever shown. `history` is a set of batches
because one load job appends all rows of a batch or none.

**Actions.** One per BigQuery call, and `EventStored`: any one version gets a row, in any order.
That is all `EventProcessing` lets RAW do (theorem `RawOnlyGains`), so that nothing about the events
is assumed here that is not proved there. The engine is pure and runs between two calls, so it is
part of `ReadEvents`; it filters events by family, window and relevance exactly as `_weather_score`
and `_seismic_score` do, after the query's own bound. `Abort` covers every exception and a crash;
`FailedLoad` says which of them leave a job behind. An empty list of rows submits no job. Scores are
left out of the rows: they are a function of what the rows keep. An assessment time is the time at
which the batch begins, as a caller that assesses the present passes it.

### 2.4 Risk scoring

**State.** The supplier, the observations and earthquakes of its window, and the assessment. The
engine is a pure function; the state machine re-runs it on every window, so that properties can
compare one assessment with the next.

**Abstraction.** Scores are integers in hundredths. Inputs are decimals with two places and
distances whole kilometres, so that a score is an exact fraction before it is rounded. The floats of
the code differ from it by far less than the distance to the next rounding boundary, except *on* a
boundary: there every input says itself (`up`, `TiesUp`) which way it falls, and equal contributions
may compare either way (`DominantFactors`). The latter does happen: 56.94 structural and 94.90
weather contribute 28.47 each, the float products differ in the last bit, and the engine names
WEATHER where the documented order of ties would name STRUCTURAL.

### 2.5 Ingestion

**State.** `fetch`, `attempt` and `waited` are the locals of `get_json_object`. `held`, `lease` and
`deliveries` are the broker's, `late` the messages whose publisher stopped waiting, `batch[c]` what
a pull returned and its caller has not settled, `boot[b]` the next call of a bootstrap.

**Actions.** One per attempt, per call on the broker, and per call of the bootstrap, which reads,
deletes and creates in separate calls. `Pull` decodes a response as a whole, after the broker has
leased it: one foreign message in it and the caller gets nothing. What a worker does with one
message is the subject of `EventProcessing`, and only its outcome appears here (`Acknowledge`,
`RequestRedelivery`, `Forget`).

**Abstraction.** `missed`, `returned`, `stale` and `dropped` are history variables. A page of USGS
is any set of the earliest features up to the limit. The repository has an adapter and a publisher
and no program that joins them: `PublishFetched` is that external caller, and publishes what was
fetched in any order, any number of times. Of the ways in which a processing subscription may differ
from its declaration, a missing dead-letter policy is the one that tells them apart here: a
`mismatched` one never gives a message up.

### 2.6 Dashboard

**State.** Streamlit runs a script for each click, in a thread of its own. `doing[c]` is how far
script `c` is, `owner[c]` the session it runs for, `view[c]` what it has read, `thread[c]` and
`answer[c]` the arguments of its call, `local[c]` the investigation as the graph it resumed has
loaded it. `portfolio[s]` is the cached snapshot of a session, `active[s]` and `page[s]` the
investigation in its state. `recorded[t]` are the investigations as checkpointed, `closing` the
threads that are decided and whose last node has still to run.

**Actions.** One per read: a dry run (`Estimate`), then the query or its failure. A submission is
four steps, because `submit_review` is: it reads the investigation and decides on what it has read
(`Accepted`, `Duplicate`; `service.py:223`), resumes the graph from what is recorded by then
(`Resume`, `NothingToResume`; `service.py:275`), and the two nodes that are left write their
checkpoints (`Decide`, `Close`). `Assess` is the warehouse, which publishes and shows any batch
between any two reads. Every call has an action in which it raises and the page shows an error,
whether it took effect or not.

**Scripts overlap.** Nothing on a page is disabled while a call runs (`ui/app.py:435-439`), and with
the fast reruns that Streamlit has by default the next click does not wait for the script before
it. `ClickTooEarly` and `SessionEnds` therefore tell a script to stop, and no more: it goes on in
its call, with all that the call reads and checkpoints, and ends without touching the session when
the call returns; meanwhile the session has a new script, which may submit the same form. A script
that was stopped while it read something for a page is only a read to be finished (`dropped`).

**What this leaves of a review.** One reader with two clicks reaches finding 2: both submissions are
let in before either resumes, the second decision replaces the first, and the page may show the one
that lost. No property here says otherwise. What holds for all clicks is this. A page asks for a
review of the report that is under review, and shows a decision only when one is recorded
(`PageShowsItsReport`). When the last submission that was let in is over, the decision stands for
good: no failure and no page that lags behind leads to another (`SettledDecisionStands`). And an
investigation opens once and offers one report that never changes again (`ImplementsReview`). A
reader who waits for the call, so that no two submissions are let in to a thread at a time
(`OneReviewAtATime`), gets what the project would like to promise to all: the first decision is
never changed, an investigation is decided once, and a page shows no decision but the one recorded
(theorems `FirstDecisionsStand`, `OneReviewKept`, `PagesShowTheDecision`).

**Composition.** `Dashboard` extends `RiskMart`, which `RiskBatch` implements: what is shown here of
sessions over the abstract tables holds over the detailed batches. (The finding `current` is within
what `RiskMart` allows: `Show` takes any batch of history.) Investigations are used as `HumanReview`
promises them: `recorded` keeps `ReviewSpec` (`ImplementsReview`), which is what
`InvestigationWorkflow` implements when threads are not started again (`ReviewImplemented`), and
each run of a session takes a new thread. Sessions have no thread in common
(`SessionsShareNoThread`), but the scripts of one session may, so that the workflow's condition
`Exclusive` is not one the page sees to. A run is two checkpoints here, its first and its last, and
the nodes between them are the subject of `InvestigationWorkflow`. That a script is a process of
that module is prose: no module contains both.

## 3. The runs

`INVARIANT`s are state properties, `PROPERTY`s action or temporal ones. Every property that holds
has been seen violated by a plausible bug of the code (`mutants` in `PROJECT.json`; the variants
stand next to the definitions they change).

| run | instance | states | shows |
|---|---|---|---|
| `safety` | 2 workers, 3 messages, an earthquake (two contents of revision 1, a revision 2) and a forecast without revisions, 2 faults | 812 881 | `AckedIsCovered`, `AcceptedIsStored`, `CoreNeverBehindLedger`, `SettledKeysAgree`, `LedgerOnlyAdvances`, `CoreOnlyAdvances`, `AckedNeverHandledAgain`; the refinement `ImplementsEventStore` |
| `settles` | 2 workers, 2 messages of conflicting or later contents, 3 deliveries, 2 faults | 82 596 | under fairness, `EveryMessageSettles`: acknowledged or dead-lettered; `EveryMessageAcked`: nothing is dead-lettered when no contents conflict |
| `reuse` | 2 processes on one thread, 2 investigations, 1 event, 1 crash; threads started again at any time | 59 997 | `ReviewedIsValidated`, `DecisionNamesItsInvestigation`, `FailedKeepsNothing` |
| `review` | 3 processes, thread started once, 1 crash | 19 287 | the refinement `ImplementsHumanReview`; `ReviewTakesEffect` under fairness |
| `batch` | 2 overlapping batches, 2 suppliers, an earthquake with a first revision and two that conflict, 1 fault | 413 480 | the refinement `ImplementsRiskMart`; `EvidenceIsWhole` |
| `scoring` | 6 suppliers, 4 observations, 5 earthquakes, entering and leaving in any order | 3 072 | `ScoreNearExact`, `DominantContributesMost`, `MoreEvidenceNeverLowers` |
| `ingestion` | one fetch from either source, 3 events and a foreign message, pulls of up to 2, 2 bootstraps, 1 fault | 1 673 773 | `FetchBounded`, `LeftOutIsLater`, `UnseenOnlyIfMissed`, `MatchingOutlivesLaterBootstraps`, `NothingDroppedOnceSetUp` |
| `dashboard` | a session with 2 scripts and 2 investigations, 2 batches of one supplier, tables that outgrow the budget, 1 click too early or end of the session | 1 159 796 | `BilledWithinBudget`, `HistoryHasAssessment`, `EvidenceIsNamed`, `PageShowsItsReport`, `SettledDecisionStands`; the refinement `ImplementsReview` |
| `retrieval`, `decision`, `report`, `current` | one or two processes | small | the four findings of section 6 |

**Why these bounds.** A race of the ledger or of the view needs two workers on one key and three
versions (two that conflict or follow each other, one to be overtaken); a third message lets an
acknowledged one meet two that are under way. Two faults let a late job outlive a retry that itself
fails. `MaxDeliveryAttempts = 1` in `safety` loses nothing: there the broker may dead-letter from
the first delivery on and need not. In `reuse` two processes suffice for one to overwrite, resume or
restart what the other holds; `review` has a third so that two submissions meet a running
invocation. In `batch` the earthquake has three versions, so that the view can replace one and can
then show none. It lies one unit before the clock starts, so that at time 1 it is within its own
window (2) and outside the weather window (1); a second batch can begin at either time, and the
supplier list may grow and shrink in between. In `scoring` the inputs are the extremes of each
field, ordinary values, and values that tie at each of the roundings. In `ingestion` a pull of two
is the smallest that a foreign message can spoil, two deliveries let a spoiled message come back,
and two bootstraps are what it takes to delete what another created; the malformed earthquake lies
between two good ones, so that skipping it would leave a gap. In `dashboard` one click too early is
what it takes for two submissions of one thread to overlap, a second thread lets a run or a review
meet the one that went on in its call, and the two batches have no evidence and one event; what
exceeds a lookup or a context is a failed run or read, which may happen at any time anyway. Sessions
share only the tables and the budget, since each run has a thread of its own, so that one session
and an environment that changes the tables at any time suffices (the theorems are for any number).
Without the condition on overlaps, TLC refutes the three conditional statements of section 2.6 on
this instance; with it they hold on the 671 892 states that meet it. Bounds on faults, batches, the
clock, the copies of an event and the size of the tables are guards of the actions that use them up
(`MaxFaults`, `MaxRuns`, `MaxTime`, `MaxCopies`, `MaxBytes`); nothing else is bounded. Symmetry is
used only for constants that are interchangeable in the initial states and that no property names,
and not in the runs with liveness.

**Deadlock** is checked except where the system really comes to rest: when every message is settled
(and, in `ingestion`, the fetch and the bootstraps have ended), or when every thread that may be
started once is done.

**Fairness.** `EventProcessing`: a call a worker has made returns, one way or the other (each has a
timeout); a lease under which nobody works runs out; the broker goes on delivering an outstanding
message while some worker is free, and dead-letters one whose deliveries are used up. The last two
are strong, since other deliveries disable them again and again, and are what Pub/Sub promises.
Nothing obliges a handler to succeed: the *number* of failures is bounded instead.
`InvestigationWorkflow`: a call that was made goes on, since each node returns or raises. Nobody is
obliged to start, submit or resume anything. The other modules have no liveness property and no
fairness: nothing in the code runs a batch, a fetch, a bootstrap or a read again, and a page waits
for its reader.

## 4. The theorems

All constants are arbitrary: any sets of keys, versions, messages, workers, processes, threads,
suppliers, events, any windows, revisions and fault bounds, under the named assumptions
(`VersionAssumption`, `ProcessingAssumption`, `WorkflowAssumption`, `BatchAssumption`,
`ScoringAssumption`, `FetchAssumption`, `MessagingAssumption`, `IngestionAssumption`,
`ReadsAssumption`, `DashboardAssumption`), which only fix types, keep sentinels apart, and give the
versions of one event one time.

* **`SourceVersions_proofs`**: the order of versions and the meaning of the ledger's verdicts.
* **`EventProcessing_proofs`**: every safety property of the run `safety`, the refinement of
  `EventStore`, and two facts that others rely on: `RawOnlyGains`, and `CoreNeverReturns`, which
  says over any number of steps what `CoreOnlyAdvances` says of one. The invariant is
  `ProcessingInv`: to `AckedIsCovered` it adds that a worker about to acknowledge is *still* covered
  by the ledger (rows only advance, so others' steps cannot take it back), that one about to record
  has its row in RAW, and that RAW and late jobs hold only versions some message carries, which the
  refinement needs. The view is a function of RAW: `CoreNeverBehindLedger` and `SettledKeysAgree`
  follow from that invariant and from what its two selections return.
* **`InvestigationWorkflow_proofs`**: `TypeOK`, `ReviewedIsValidated`,
  `DecisionNamesItsInvestigation`, `FailedKeepsNothing` from `WorkflowInv`; and, when threads are
  not reused, the refinement of `HumanReview` from `ThreadInv` in addition. The difficulty is that
  two invocations of a thread know nothing of each other. `WorkflowInv` therefore says nothing about
  how states relate: it says that *each* held state is `Sound`, that its fields are what its next
  node relies on, so that it does not matter whose state a checkpoint is overwritten with.
  `ThreadInv` adds what holds without reuse: every invocation of a thread is about the same
  investigation, only one of them computes a report, and those that come later hold that same
  report. Then the conditions under which the code does what findings 2 and 3 show it does not do in
  general. As long as no two processes are on one thread (`Exclusive`), the first decision stands
  and a review keeps the report it decides on (`FirstDecisionStandsAlone`,
  `ReviewKeepsReportAlone`), from `AloneInv`: what an invocation holds is what the checkpoint holds,
  and the answer it brings is one the checkpoint still waits for. The report is also kept without
  that condition when threads are not reused (`ReviewKeepsReportWithoutReuse`). With both
  conditions, the workflow implements the stronger promise of `HumanReview`
  (`OneReviewImplemented`).
* **`RiskBatch_proofs`**: `TypeOK`, the refinement of `RiskMart`, and `EvidenceIsWhole`, from
  `BatchInv`. `Ordered` follows the sets of rows: one that may still reach the current table, from a
  process or from a late job, is in the history already. `Remembered` follows what they say: RAW
  only grows, what the view has shown stays in `shown`, and a stored version that the view does not
  show is never shown again, so that an event that was visible when the batch began and still is has
  been visible to its query. `EvidenceMeaning` is the arithmetic fact that the longer window
  contains the shorter. `CurrentAdvancesAlone` is the condition under which finding 4 cannot happen:
  batches do not overlap (`OneAtATime`), and no replacement that its caller gave up on is left to
  commit (`NothingLate`); `InOrder` then says that a batch in progress is no older than what the
  table shows.
* **`RiskScoring_proofs`**: bounds of all scores, `ScoreNearExact`, `DominantContributesMost`,
  `MoreEvidenceNeverLowers`. The invariant `ScoringInv` only says that the assessment is one the
  engine makes of the present window; the rest is arithmetic: a rounded number is at most half a
  hundredth off (`RoundNear`), rounding is monotone whichever way ties fall (`RoundMonotone`), and
  so the errors of the families add up, weighted, to at most half a hundredth before the second
  rounding.
* **`Ingestion_proofs`**: all seven properties of the run. `FetchInv` bounds what the loop has slept
  through by its attempts; `PullInv` counts, for each message, deliveries against misses; `BootInv`
  says that a bootstrap past a subscription left it matching, or that another one is about to create
  it or was cut short, and that one which deletes a matching subscription read what was there
  before.
* **`Dashboard_proofs`**: all seven properties of the run, from `DashboardInv`. `Known` says that a
  row a session has seen is in the history and stays there, so that a portfolio may be as old as it
  likes; `Views` that a script holds no history or evidence from before the assessment it holds now.
  `CallInv` follows the investigations through scripts that no page waits for any more: each call
  has a thread that its run or its page gave it (`Calls`), a run has its thread for itself (`Runs`),
  what a submission has loaded and what a page shows is the report that is recorded, with or without
  a decision (`Calls`, `Pages`), and sessions share none of this (`ThreadsNotShared`).
  `SettledDecisionsStand` adds that a submission is let in only to a thread that is pending;
  `ReviewKept` takes each step to one of `HumanReview` or to none. `FirstDecisionsStand`,
  `OneReviewKept` and `PagesShowTheDecision` are for behaviours where reviews do not overlap
  (`OneReviewAtATime`): then what a submission has loaded is what is recorded, its decision included
  (`Alone`).

Each inductive invariant was checked by TLC, as an invariant of the same instances, before it was
proved.

**Only model-checked:** the liveness properties `EveryMessageSettles`, `EveryMessageAcked` and
`ReviewTakesEffect`, which are out of the prover's reach: it does not reason about fairness and
`ENABLED`; and `RetrievalFailurePersists`, which the code violates. The code violates
`CurrentNeverGoesBack`, `FirstDecisionStands` and `ReviewKeepsReport` too; these are proved under
the conditions named above, which are stated over behaviours (`Spec /\ []Exclusive => ...`) and are
no assumptions on the constants. Whoever operates the system can meet them: one call at a time on a
thread, and a batch that begins only when no other batch and no load job is under way. The runs that
refute the three properties are behaviours that do not meet them. No module declares a RECURSIVE
operator.

## 5. Plan

Written first: what everything else stands on. In this order,

1. `SourceVersions`, `EventProcessing`, `EventStore` – done.
2. `InvestigationWorkflow`, `HumanReview` – done.
3. `RiskMart`, `RiskBatch` – done.
4. `RiskScoring` – done.
5. `SourceFetch`, `Messaging`, `Ingestion` – done.
6. `GuardedReads`, `Dashboard` – done.
7. A version of the report in `InvestigationWorkflow`, to tell two runs of one investigation id
   apart, and its risk fields, whose comparison with the context is now part of "validates".
8. Several sessions of `Dashboard` on one thread, for callers other than the page. (That the scripts
   of one session overlap on a thread, and that a submission is more than one step, is done.)
9. `RiskBatch` over the view of `EventProcessing` – done.

## 6. Findings

1. **A retrieval failure may leave no trace** (`retrieval`). `graph.py:204`: the retrieval nodes
   catch some exceptions only; one raised while rows are paged or converted leaves the graph, and
   the checkpoint stays CREATED, although the documentation says that retrieval failures persist
   FAILED.
2. **The second of two concurrent decisions replaces the first** (`decision`). `service.py:275`:
   submit_review checks a state and resumes another; a test expects the second to be rejected. It
   does not take two people: the page lets one reader submit again while the first call runs
   (section 2.6). The first does stand when calls on one thread do not overlap
   (`FirstDecisionStandsAlone`, `FirstDecisionsStand`).
3. **A review can drop the report of another investigation** (`report`). `graph.py:434`: when the
   thread was started again meanwhile, the mismatch fails the investigation it now holds.
   It cannot when calls on one thread do not overlap, or when threads are not reused
   (`ReviewKeepsReportAlone`, `ReviewKeepsReportWithoutReuse`).
4. **The current snapshot can go back in time** (`current`). `bigquery.py:529`: a replacement that
   timed out is not cancelled and may commit after a later batch, although the documentation calls
   the table the latest completed snapshot. It is, when batches do not overlap and no replacement
   is left behind (`CurrentAdvancesAlone`).

The tie of section 2.4 is not among them: the order of ties is documented, but no run refutes it,
since the model leaves a tie open instead of computing in floats; for the same reason no property
notices which way a tie falls. A message that decodes may be dead-lettered unseen when each response
that held it was lost or held an unreadable one too. That is no finding either, since nothing in the
repository says otherwise: `UnseenOnlyIfMissed` says that a message is lost in no other way, and not
that none is.

## 7. Not modelled, and why

* **Language model client, prompts**: one request without retries, whose outcomes are inputs of the
  workflow.
* **Layout, wording and caching by Streamlit itself**: of the user interface, only what a script
  reads, keeps and submits is modelled, and that scripts overlap.
* **The text of an investigation's context**: its limit on events is in `Dashboard`, its limits on
  characters are one of the ways a run fails.
* **Observability**: nothing it records is read back, and the context variables it binds are
  restored by the statements that bound them.
* **Contracts, sample suppliers, evaluation harness, infrastructure code**: validation of records,
  fixed data, offline replay, declarations.
* **A corrected event time.** The deduplication key contains it, so a correction is another event;
  the models start from the key.
* **Haversine distance** and the validation of payloads: relevance is a constant relation, a payload
  that does not validate an `Abort`.
* **Retention** of BigQuery partitions and Pub/Sub messages: rows and messages do not expire here.
