-------------------------- MODULE SecurityDetection --------------------------
(***************************************************************************)
(* Security Detection: the log lines that arrive one batch at a time, the  *)
(* finding and the inspection each of them is merged into, the answer the  *)
(* Security AI gives, the transition that is asked of the Lifecycle        *)
(* Manager, and the people who review a finding while all of this goes on. *)
(*                                                                         *)
(* A finding is one document per window and agent.  A batch reads it,      *)
(* writes it whole, and updates it again once the model has answered; a    *)
(* review reads it, asks for the transition and then updates it.  None of  *)
(* these is a transaction, and a message that was not acknowledged comes   *)
(* back from the beginning.                                                *)
(***************************************************************************)
EXTENDS Integers, FiniteSets

CONSTANTS
  Lines,      \* log lines, delivered one at a time
  Findings,   \* a window and an agent
  Agents,
  FindingOf,  \* the finding a line contributes to
  AgentOf,
  RiskOf,     \* what the batch of this line alone scores: a rung of Risk
  Reviewers,  \* requests of the review route
  Answers,    \* what the Security AI may answer
  MaxFaults   \* bound on failed calls, lost answers, crashes, redeliveries

\* LOW, MEDIUM, HIGH and CRITICAL; 0 is a line no rule fires on.
Risk == 0..4
LOW      == 1
HIGH     == 3
CRITICAL == 4

\* AGENT_SECURITY_STATES, rung by rung.
Rungs == <<"ACTIVE", "SUSPICIOUS", "QUARANTINED", "REVOKED", "DESTROYED">>
States == {Rungs[i] : i \in DOMAIN Rungs}
Rung(state) == CHOOSE i \in DOMAIN Rungs : Rungs[i] = state

NoAnswer == [response |-> "none", confident |-> FALSE]

ASSUME ConstantsAssumption ==
  /\ FindingOf \in [Lines -> Findings]
  /\ AgentOf \in [Findings -> Agents]
  /\ RiskOf \in [Lines -> Risk]
  /\ Answers \subseteq [response : States, confident : BOOLEAN] \union {NoAnswer}
  /\ MaxFaults \in Nat

VARIABLES
  row,        \* the documents in security_findings
  examined,   \* events_examined of the documents in security_inspections
  measured,   \* agents whose baseline can be read
  held,       \* answers that were put off until a person decides, by finding
  agent,      \* what the Lifecycle Manager's record says of each agent
  run,        \* how far the batch of each line is
  review,     \* how far each review is
  asked,      \* transitions the Lifecycle Manager has been asked for
  told,       \* quarantines published on the person's timeline
  disturbed,  \* findings two batches were at together, or whose read or
              \* inspection failed in a way the code swallows
  faults

vars == <<row, examined, measured, held, agent, run, review, asked, told, disturbed, faults>>

-----------------------------------------------------------------------------
Detector == "detector"
Nobody   == "nobody"

Row == [codes : SUBSET Lines, risk : Risk,
        status : {"absent", "none", "pending", "approved", "rejected"},
        response : States \union {"none"},
        source : {"none", "rules", "analysed"},
        reviewer : Reviewers \union {Nobody}]
NoRow == [codes |-> {}, risk |-> 0, status |-> "absent", response |-> "none",
          source |-> "none", reviewer |-> Nobody]

RunPcs == {"waiting", "inspect", "inspecting", "read", "write", "analyse",
           "respond", "announce", "finish", "acked"}
\* count and row are what the batch read of the inspection and the finding.
Run == [pc : RunPcs, count : Nat, row : Row, response : States \union {"none"}]
NoRun == [pc |-> "waiting", count |-> 0, row |-> NoRow, response |-> "none"]
Acked == [NoRun EXCEPT !.pc = "acked"]

\* found is the status the route has read.
Review == [pc : {"idle", "ask", "record", "announce", "over"},
           finding : Findings \union {Nobody},
           found : {"none", "pending"},
           decision : {"none", "approve", "reject"},
           to : States \union {"none"},
           outcome : {"none", "sent", "refused", "failed"}]
NoReview == [pc |-> "idle", finding |-> Nobody, found |-> "none", decision |-> "none",
             to |-> "none", outcome |-> "none"]

Init ==
  /\ row = [f \in Findings |-> NoRow]
  /\ examined = [f \in Findings |-> 0]
  /\ measured \in SUBSET Agents
  /\ held = {}
  /\ agent = [a \in Agents |-> "ACTIVE"]
  /\ run = [l \in Lines |-> NoRun]
  /\ review = [r \in Reviewers |-> NoReview]
  /\ asked = {}
  /\ told = {}
  /\ disturbed = {}
  /\ faults = 0

TypeOK ==
  /\ row \in [Findings -> Row]
  /\ examined \in [Findings -> Nat]
  /\ measured \subseteq Agents
  /\ held \subseteq [finding : Findings, response : States]
  /\ agent \in [Agents -> States]
  /\ run \in [Lines -> Run]
  /\ review \in [Reviewers -> Review]
  /\ asked \subseteq [finding : Findings, to : States, by : Reviewers \union {Detector}]
  /\ told \subseteq [agent : Agents, finding : Findings, by : Reviewers \union {Detector}]
  /\ disturbed \subseteq Findings
  /\ faults \in 0..MaxFaults

-----------------------------------------------------------------------------
Goto(l, pc) == run' = [run EXCEPT ![l].pc = pc]
Faulty == faults < MaxFaults /\ faults' = faults + 1
Underway(l) == run[l].pc \notin {"waiting", "acked"}
Decided(status) == status \in {"approved", "rejected"}

\* The finding as the batch of one line has it before the merge.
Scored(l) ==
  [NoRow EXCEPT !.codes = {l}, !.risk = RiskOf[l], !.status = "none",
                !.source = IF RiskOf[l] = LOW THEN "rules" ELSE "none"]

\* A slip: the row becomes what the last batch saw.
mergeReplaces(previous, next) == next

\* A slip: the status is the one of the last batch.
mergeResets(previous, next) ==
  [codes |-> previous.codes \union next.codes,
   risk |-> IF next.risk >= previous.risk THEN next.risk ELSE previous.risk,
   status |-> next.status,
   response |-> IF previous.source = "analysed" THEN previous.response ELSE next.response,
   source |-> IF previous.source = "analysed" THEN previous.source ELSE next.source,
   reviewer |-> previous.reviewer]

mergeFinding(previous, next) ==
  IF previous.status = "absent" THEN next
  ELSE LET judgement == IF previous.source = "analysed" THEN previous ELSE next
       IN [codes |-> previous.codes \union next.codes,
           risk |-> IF next.risk >= previous.risk THEN next.risk ELSE previous.risk,
           status |-> IF previous.status = "none" THEN next.status ELSE previous.status,
           response |-> judgement.response,
           source |-> judgement.source,
           reviewer |-> previous.reviewer]

fallbackResponse(risk) ==
  CASE risk = CRITICAL -> "QUARANTINED"
    [] risk = HIGH -> "SUSPICIOUS"
    [] OTHER -> "ACTIVE"

REVIEW_REQUIRED_RESPONSES == {"QUARANTINED", "REVOKED", "DESTROYED"}

needsHumanReview(answer) ==
  \/ answer = NoAnswer
  \/ ~answer.confident
  \/ answer.response \in REVIEW_REQUIRED_RESPONSES

canTransition(from, to) == Rung(to) > Rung(from)

\* A slip: a repeated request is taken for done.
TakesAgain(state, to) ==
  \/ state = to
  \/ <<state, to>> \in {<<"ACTIVE", "SUSPICIOUS">>, <<"SUSPICIOUS", "QUARANTINED">>,
                        <<"ACTIVE", "QUARANTINED">>, <<"QUARANTINED", "REVOKED">>,
                        <<"ACTIVE", "REVOKED">>, <<"REVOKED", "DESTROYED">>}

\* The far side: the table of the Lifecycle Manager, which knows the state the
\* agent is really in.  The sender calls every quarantine CRITICAL.
Takes(state, to) ==
  <<state, to>> \in {<<"ACTIVE", "SUSPICIOUS">>, <<"SUSPICIOUS", "QUARANTINED">>,
                     <<"ACTIVE", "QUARANTINED">>, <<"QUARANTINED", "REVOKED">>,
                     <<"ACTIVE", "REVOKED">>, <<"REVOKED", "DESTROYED">>}

\* The request and how it ends.  A request that changed the status is failed
\* too when its answer is lost, or when a later step of the quarantine threw.
requestTransition(f, to, by, outcome) ==
  LET a == AgentOf[f]
      moved == agent' = [agent EXCEPT ![a] = to]
  IN IF ~canTransition("ACTIVE", to)
     THEN /\ outcome = "refused"
          /\ UNCHANGED <<agent, asked, faults>>
     ELSE /\ asked' = asked \union {[finding |-> f, to |-> to, by |-> by]}
          /\ \/ outcome = "sent" /\ Takes(agent[a], to) /\ moved /\ UNCHANGED faults
             \/ outcome = "failed" /\ ~Takes(agent[a], to) /\ UNCHANGED <<agent, faults>>
             \/ outcome = "failed" /\ Faulty /\ UNCHANGED agent
             \/ outcome = "failed" /\ Faulty /\ Takes(agent[a], to) /\ moved

announceQuarantine(f, to, by, outcome) ==
  told' = IF to = "QUARANTINED" /\ outcome = "sent"
          THEN told \union {[agent |-> AgentOf[f], finding |-> f, by |-> by]}
          ELSE told

-----------------------------------------------------------------------------
(***************************************************************************)
(* runOnce: one batch, which is one line.                                  *)
(***************************************************************************)

\* The message arrives, for the first time or again, and the baseline is read.
Deliver(l) ==
  /\ run[l].pc = "waiting"
  /\ Goto(l, "inspect")
  /\ disturbed' = IF \E k \in Lines \ {l} : Underway(k) /\ FindingOf[k] = FindingOf[l]
                  THEN disturbed \union {FindingOf[l]}
                  ELSE disturbed
  /\ UNCHANGED <<row, examined, measured, held, agent, review, asked, told, faults>>

\* recordInspections reads the document, and takes a failed read for no document.
InspectionRead(l) ==
  LET f == FindingOf[l]
      found(n) == run' = [run EXCEPT ![l].pc = "inspecting", ![l].count = n]
  IN /\ run[l].pc = "inspect"
     /\ \/ found(examined[f]) /\ UNCHANGED <<disturbed, faults>>
        \/ found(0) /\ Faulty /\ disturbed' = disturbed \union {f}
     /\ UNCHANGED <<row, examined, measured, held, agent, review, asked, told>>

\* mergeInspection adds the counts.  A failed write is logged and swallowed.
InspectionWritten(l) ==
  LET f == FindingOf[l]
      after == IF RiskOf[l] = 0 THEN "finish" ELSE "read"
  IN /\ run[l].pc = "inspecting"
     /\ run' = [run EXCEPT ![l].pc = after, ![l].count = 0]
     /\ \/ /\ examined' = [examined EXCEPT ![f] = run[l].count + 1]
           /\ UNCHANGED <<disturbed, faults>>
        \/ Faulty /\ disturbed' = disturbed \union {f} /\ UNCHANGED examined
     /\ UNCHANGED <<row, measured, held, agent, review, asked, told>>

\* writeFinding reads the document, and takes a failed read for no document.
FindingRead(l) ==
  LET f == FindingOf[l]
      found(r) == run' = [run EXCEPT ![l].pc = "write", ![l].row = r]
  IN /\ run[l].pc = "read"
     /\ \/ found(row[f]) /\ UNCHANGED <<disturbed, faults>>
        \/ found(NoRow) /\ Faulty /\ disturbed' = disturbed \union {f}
     /\ UNCHANGED <<row, examined, measured, held, agent, review, asked, told>>

\* A LOW finding ends here; the others go on to the model.
FindingWritten(l) ==
  /\ run[l].pc = "write"
  /\ row' = [row EXCEPT ![FindingOf[l]] = mergeFinding(run[l].row, Scored(l))]
  /\ Goto(l, IF RiskOf[l] = LOW THEN "finish" ELSE "analyse")
  /\ UNCHANGED <<examined, measured, held, agent, review, asked, told, disturbed, faults>>

\* No baseline to judge against: the finding waits for a person.  The update
\* is allowed to fail.
NotAnalysed(l) ==
  /\ run[l].pc = "analyse"
  /\ AgentOf[FindingOf[l]] \notin measured
  /\ \/ /\ row' = [row EXCEPT ![FindingOf[l]].status = "pending",
                              ![FindingOf[l]].source = "rules"]
        /\ UNCHANGED <<disturbed, faults>>
     \/ Faulty /\ disturbed' = disturbed \union {FindingOf[l]} /\ UNCHANGED row
  /\ Goto(l, "finish")
  /\ UNCHANGED <<examined, measured, held, agent, review, asked, told>>

\* The model answers, and the row is updated with what it said.
Analysed(l) ==
  \E answer \in Answers :
    LET f == FindingOf[l]
        response == IF answer = NoAnswer THEN fallbackResponse(RiskOf[l]) ELSE answer.response
        hold == needsHumanReview(answer)
    IN /\ run[l].pc = "analyse"
       /\ AgentOf[f] \in measured
       /\ row' = [row EXCEPT ![f].status = IF hold THEN "pending" ELSE "none",
                             ![f].response = response,
                             ![f].source = "analysed"]
       /\ run' = [run EXCEPT ![l].pc = IF hold THEN "finish" ELSE "respond",
                             ![l].response = IF hold THEN "none" ELSE response]
       /\ held' = IF hold THEN held \union {[finding |-> f, response |-> response]} ELSE held
       /\ UNCHANGED <<examined, measured, agent, review, asked, told, disturbed, faults>>

Respond(l) ==
  \E outcome \in {"sent", "refused", "failed"} :
    /\ run[l].pc = "respond"
    /\ requestTransition(FindingOf[l], run[l].response, Detector, outcome)
    /\ run' = [run EXCEPT ![l].pc = IF outcome = "sent" THEN "announce" ELSE "finish",
                          ![l].response = IF outcome = "sent" THEN run[l].response ELSE "none"]
    /\ UNCHANGED <<row, examined, measured, held, review, told, disturbed>>

Announce(l) ==
  /\ run[l].pc = "announce"
  /\ announceQuarantine(FindingOf[l], run[l].response, Detector, "sent")
  /\ run' = [run EXCEPT ![l].pc = "finish", ![l].response = "none"]
  /\ UNCHANGED <<row, examined, measured, held, agent, review, asked, disturbed, faults>>

Finish(l) ==
  /\ run[l].pc = "finish"
  /\ run' = [run EXCEPT ![l] = Acked]
  /\ UNCHANGED <<row, examined, measured, held, agent, review, asked, told, disturbed, faults>>

\* A call throws: the message is not acknowledged.
Fails(l) ==
  /\ Underway(l)
  /\ Faulty
  /\ run' = [run EXCEPT ![l] = NoRun]
  /\ UNCHANGED <<row, examined, measured, held, agent, review, asked, told, disturbed>>

\* A message comes a second time, its acknowledgement lost.
Redelivered(l) ==
  /\ run[l].pc = "acked"
  /\ Faulty
  /\ run' = [run EXCEPT ![l] = NoRun]
  /\ UNCHANGED <<row, examined, measured, held, agent, review, asked, told, disturbed>>

\* The process dies, and with it every batch and every review it was at.
Crash ==
  /\ Faulty
  /\ run' = [l \in Lines |-> IF Underway(l) THEN NoRun ELSE run[l]]
  /\ review' = [r \in Reviewers |->
       IF review[r].pc = "idle" THEN review[r] ELSE [review[r] EXCEPT !.pc = "over"]]
  /\ UNCHANGED <<row, examined, measured, held, agent, asked, told, disturbed>>

-----------------------------------------------------------------------------
(***************************************************************************)
(* The review route.                                                       *)
(***************************************************************************)
\* A slip: the decision is recorded before the request.
ReviewRecordsFirst(r) ==
  \E f \in Findings :
    /\ review[r].pc = "idle"
    /\ row[f].status \notin {"absent", "approved", "rejected"}
    /\ row' = [row EXCEPT ![f].status = "approved", ![f].reviewer = r]
    /\ review' = [review EXCEPT ![r] =
         [pc |-> "ask", finding |-> f, found |-> row[f].status,
          decision |-> "approve", outcome |-> "none",
          to |-> IF row[f].response = "none" THEN "SUSPICIOUS" ELSE row[f].response]]
    /\ UNCHANGED <<examined, measured, held, agent, run, asked, told, disturbed, faults>>

ReviewReads(r) ==
  \E f \in Findings, decision \in {"approve", "reject"} :
    /\ review[r].pc = "idle"
    /\ row[f].status \notin {"absent", "approved", "rejected"}
    /\ review' = [review EXCEPT ![r] =
         [pc |-> IF decision = "reject" THEN "record" ELSE "ask",
          finding |-> f, found |-> row[f].status,
          decision |-> decision, outcome |-> "none",
          to |-> IF decision = "reject" THEN "none"
                 ELSE IF row[f].response = "none" THEN "SUSPICIOUS" ELSE row[f].response]]
    /\ UNCHANGED <<row, examined, measured, held, agent, run, asked, told, disturbed, faults>>

ReviewAsks(r) ==
  \E outcome \in {"sent", "refused", "failed"} :
    /\ review[r].pc = "ask"
    /\ requestTransition(review[r].finding, review[r].to, r, outcome)
    /\ review' = [review EXCEPT ![r].pc = "record", ![r].outcome = outcome]
    /\ UNCHANGED <<row, examined, measured, held, run, told, disturbed>>

\* What is recorded is the decision, whatever became of the request.
ReviewRecords(r) ==
  LET f == review[r].finding
      approved == review[r].decision = "approve"
  IN /\ review[r].pc = "record"
     /\ row' = [row EXCEPT ![f].status = IF approved THEN "approved" ELSE "rejected",
                           ![f].reviewer = r]
     /\ review' = [review EXCEPT ![r].pc = IF approved THEN "announce" ELSE "over"]
     /\ UNCHANGED <<examined, measured, held, agent, run, asked, told, disturbed, faults>>

ReviewAnnounces(r) ==
  /\ review[r].pc = "announce"
  /\ announceQuarantine(review[r].finding, review[r].to, r, review[r].outcome)
  /\ review' = [review EXCEPT ![r].pc = "over"]
  /\ UNCHANGED <<row, examined, measured, held, agent, run, asked, disturbed, faults>>

ReviewFails(r) ==
  /\ review[r].pc \in {"ask", "record", "announce"}
  /\ Faulty
  /\ review' = [review EXCEPT ![r].pc = "over"]
  /\ UNCHANGED <<row, examined, measured, held, agent, run, asked, told, disturbed>>

\* The agent is stopped for a reason this service has no part in.
StoppedElsewhere(a) ==
  /\ Takes(agent[a], "REVOKED")
  /\ agent' = [agent EXCEPT ![a] = "REVOKED"]
  /\ UNCHANGED <<row, examined, measured, held, run, review, asked, told, disturbed, faults>>

-----------------------------------------------------------------------------
BatchStep(l) ==
  \/ Deliver(l) \/ InspectionRead(l) \/ InspectionWritten(l)
  \/ FindingRead(l) \/ FindingWritten(l) \/ NotAnalysed(l) \/ Analysed(l)
  \/ Respond(l) \/ Announce(l) \/ Finish(l)

ReviewStep(r) ==
  ReviewReads(r) \/ ReviewAsks(r) \/ ReviewRecords(r) \/ ReviewAnnounces(r) \/ ReviewFails(r)

Next ==
  \/ \E l \in Lines : BatchStep(l) \/ Fails(l) \/ Redelivered(l)
  \/ Crash
  \/ \E r \in Reviewers : ReviewStep(r)
  \/ \E a \in Agents : StoppedElsewhere(a)

Spec == Init /\ [][Next]_vars
-----------------------------------------------------------------------------
(***************************************************************************)
(* Properties                                                              *)
(***************************************************************************)

\* The lines of a finding whose batch is over.
Handled(f) == {l \in Lines : run[l].pc = "acked" /\ FindingOf[l] = f}

\* A line that was acknowledged is in its finding, which is at least as grave
\* as the line, and it is counted in the inspection of its window: nothing a
\* later batch, a retry, a crash or a review writes loses it.  (Two batches of
\* one window at once do lose evidence, and so does a read that failed; the
\* comment at writeFinding accepts the first.)
EvidenceIsKept ==
  \A f \in Findings \ disturbed :
    /\ Cardinality(Handled(f)) <= examined[f]
    /\ \A l \in Handled(f) :
         RiskOf[l] > 0 => l \in row[f].codes /\ RiskOf[l] <= row[f].risk

\* A finding of MEDIUM or above that no model could judge is waiting for a
\* person or was decided by one, however many LOW batches of its window
\* follow, and whatever is retried.
UnjudgedWaits ==
  \A f \in Findings \ disturbed :
    AgentOf[f] \notin measured =>
      \A l \in Handled(f) : RiskOf[l] > LOW => row[f].status \notin {"absent", "none"}

\* An agent is only quarantined, revoked or destroyed with a person's approval
\* of a finding that was waiting for her, and only as an analysis of that very
\* finding had put it off for her: no merge, stale copy, fallback, other batch
\* or other reviewer lends a finding a response it never had, and none that the
\* service did not hold back is carried out by a review.  The route takes the
\* response from the row, not from the request: what the reviewer's screen
\* showed is not known here.
DisruptionIsApproved ==
  \A q \in asked :
    q.to \in REVIEW_REQUIRED_RESPONSES =>
      /\ q.by \in Reviewers
      /\ review[q.by].decision = "approve"
      /\ review[q.by].finding = q.finding
      /\ review[q.by].found = "pending"
      /\ [finding |-> q.finding, response |-> q.to] \in held

\* The decision on a finding is one that the reviewer it names really took,
\* and an approval was put to the Lifecycle Manager before it was recorded:
\* two reviewers and any number of batches write that row.
DecisionIsTrue ==
  \A f \in Findings :
    Decided(row[f].status) =>
      LET r == row[f].reviewer
      IN /\ r \in Reviewers
         /\ review[r].finding = f
         /\ review[r].decision = IF row[f].status = "approved" THEN "approve" ELSE "reject"
         /\ row[f].status = "approved" =>
              \/ [finding |-> f, to |-> review[r].to, by |-> r] \in asked
              \/ ~canTransition("ACTIVE", review[r].to)

\* The timeline says that an agent was isolated only when it was, and says it
\* once: several findings, batches and reviewers ask for the same quarantine,
\* and each of them believes the agent to be ACTIVE.
ToldIsTrue ==
  /\ \A t \in told : Rung(agent[t.agent]) >= Rung("QUARANTINED")
  /\ \A t, u \in told : t.agent = u.agent => t = u

\* Whatever order the requests arrive in, no agent goes back down the ladder.
OnlyEscalates ==
  [][\A a \in Agents : Rung(agent'[a]) >= Rung(agent[a])]_vars
=============================================================================
