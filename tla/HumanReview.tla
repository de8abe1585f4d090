---------------------------- MODULE HumanReview ------------------------------
(***************************************************************************)
(* What the investigation workflow promises for each thread to whoever     *)
(* asks for an investigation and whoever reviews it, without nodes,        *)
(* checkpoints or processes.                                               *)
(***************************************************************************)
CONSTANTS Thread, Investigation, Evidence, NoState, NoReport, NoDecision

VARIABLES stage,    \* how far the investigation of each thread is
          subject,  \* the investigation
          offered,  \* the report offered for review
          shown,    \* the evidence it rests on
          verdict   \* the latest decision on it

reviewVars == <<stage, subject, offered, shown, verdict>>

Decision == {"APPROVED", "REJECTED"}

ReviewInit ==
  /\ stage   = [t \in Thread |-> "absent"]
  /\ subject = [t \in Thread |-> NoState]
  /\ offered = [t \in Thread |-> NoReport]
  /\ shown   = [t \in Thread |-> {}]
  /\ verdict = [t \in Thread |-> NoDecision]

Open(t, i) ==
  /\ stage[t] = "absent"
  /\ stage'   = [stage EXCEPT ![t] = "open"]
  /\ subject' = [subject EXCEPT ![t] = i]
  /\ UNCHANGED <<offered, shown, verdict>>

(* An open investigation is prepared, or fails, and then never changes.    *)
Conclude(t, end) ==
  /\ stage[t] = "open"
  /\ stage' = [stage EXCEPT ![t] = end]
  /\ UNCHANGED <<subject, offered, shown, verdict>>

(* A report is offered about its own investigation, and cites nothing that *)
(* was not retrieved.                                                      *)
OfferReport(t) ==
  /\ stage[t] = "open"
  /\ stage' = [stage EXCEPT ![t] = "pending"]
  /\ \E found \in SUBSET Evidence : \E cited \in SUBSET found :
       /\ offered' = [offered EXCEPT ![t] = [investigation |-> subject[t], cited |-> cited]]
       /\ shown'   = [shown   EXCEPT ![t] = found]
  /\ UNCHANGED <<subject, verdict>>

(* Only a reader who saw the review pending decides, but several may have: *)
(* a later decision may take the place of an earlier one.                  *)
Decide(t) ==
  /\ stage[t] \in {"pending", "decided"}
  /\ stage' = [stage EXCEPT ![t] = "decided"]
  /\ \E d \in Decision :
       verdict' = [verdict EXCEPT ![t] = [investigation |-> subject[t], decision |-> d]]
  /\ UNCHANGED <<subject, offered, shown>>

ReviewNext ==
  \E t \in Thread :
    \/ \E i \in Investigation : Open(t, i)
    \/ \E end \in {"ready", "failed"} : Conclude(t, end)
    \/ OfferReport(t)
    \/ Decide(t)

ReviewSpec == ReviewInit /\ [][ReviewNext]_reviewVars

(* What is kept as long as the reviews of a thread do not overlap: every   *)
(* step takes a thread further, so the first decision stands.              *)
OnceNext == stage' # stage /\ ReviewNext

OnceSpec == ReviewInit /\ [][OnceNext]_reviewVars

==============================================================================
