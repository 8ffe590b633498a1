----------------------- MODULE SecurityDetectionProofs -----------------------
(***************************************************************************)
(* What Security Detection promises about agents and reviewers, for any    *)
(* number of log lines, findings, agents and reviews, whatever fails.      *)
(*                                                                         *)
(* A review never changes what it has read, and what was asked for stays   *)
(* asked for: a decision, once true of a row, is true of every copy of     *)
(* that row, the stale ones a batch still has to write among them.         *)
(*                                                                         *)
(* What is kept of the log is said of the findings no two batches were at  *)
(* together.  The copy a batch holds of such a row is as old as the batch, *)
(* but no other batch has written since, and a review only adds to it.     *)
(***************************************************************************)
EXTENDS SecurityDetection, FiniteSetTheorems, TLAPS

-----------------------------------------------------------------------------
(* The ladder.                                                             *)

LEMMA RungValues ==
  /\ Rung("ACTIVE") = 1 /\ Rung("SUSPICIOUS") = 2 /\ Rung("QUARANTINED") = 3
  /\ Rung("REVOKED") = 4 /\ Rung("DESTROYED") = 5
<1>1. DOMAIN Rungs = 1..5
  BY DEF Rungs
<1>2. /\ Rungs[1] = "ACTIVE" /\ Rungs[2] = "SUSPICIOUS" /\ Rungs[3] = "QUARANTINED"
      /\ Rungs[4] = "REVOKED" /\ Rungs[5] = "DESTROYED"
  BY DEF Rungs
<1>3. \A s \in {"ACTIVE", "SUSPICIOUS", "QUARANTINED", "REVOKED", "DESTROYED"} :
        \E i \in 1..5 : Rungs[i] = s
  BY <1>2
<1>4. \A s \in {"ACTIVE", "SUSPICIOUS", "QUARANTINED", "REVOKED", "DESTROYED"} :
        Rung(s) \in 1..5 /\ Rungs[Rung(s)] = s
  BY <1>1, <1>3, Zenon DEF Rung
<1> QED
  BY <1>2, <1>4

LEMMA StateNames == States = {"ACTIVE", "SUSPICIOUS", "QUARANTINED", "REVOKED", "DESTROYED"}
<1>1. DOMAIN Rungs = 1..5
  BY DEF Rungs
<1>2. /\ Rungs[1] = "ACTIVE" /\ Rungs[2] = "SUSPICIOUS" /\ Rungs[3] = "QUARANTINED"
      /\ Rungs[4] = "REVOKED" /\ Rungs[5] = "DESTROYED"
  BY DEF Rungs
<1> QED
  BY <1>1, <1>2 DEF States

LEMMA TakesUp ==
  ASSUME NEW from \in States, NEW to, Takes(from, to)
  PROVE  to \in States /\ Rung(from) \in 1..5 /\ Rung(to) \in 1..5 /\ Rung(to) > Rung(from)
  BY RungValues, StateNames DEF Takes

LEMMA TakesType == \A from, to : Takes(from, to) => to \in States
BY StateNames DEF Takes

-----------------------------------------------------------------------------
(* Types.                                                                  *)

LEMMA MergeType ==
  ASSUME NEW previous \in Row, NEW next \in Row
  PROVE  mergeFinding(previous, next) \in Row
<1>1. previous.risk \in Nat /\ next.risk \in Nat
  BY DEF Row, Risk
<1> QED
  BY <1>1 DEF mergeFinding, Row

LEMMA InitialValues ==
  /\ NoRow \in Row /\ NoRun \in Run /\ Acked \in Run /\ NoReview \in Review
  /\ \A l \in Lines : Scored(l) \in Row
<1>1. NoRow \in Row /\ NoReview \in Review
  BY DEF NoRow, Row, Risk, NoReview, Review
<1>2. NoRun \in Run /\ Acked \in Run
  BY <1>1 DEF NoRun, Acked, Run, RunPcs
<1>3. ASSUME NEW l \in Lines PROVE Scored(l) \in Row
  <2>1. RiskOf[l] \in Risk
    BY ConstantsAssumption
  <2> QED
    BY <1>1, <2>1 DEF Scored, Row
<1> QED
  BY <1>1, <1>2, <1>3

\* What a request does, for the types of what it touches.
LEMMA RequestTypes ==
  ASSUME TypeOK, NEW f \in Findings, NEW to \in States \union {"none"},
         NEW by \in Reviewers \union {Detector}, NEW outcome,
         to \in States,
         requestTransition(f, to, by, outcome)
  PROVE  /\ agent' \in [Agents -> States]
         /\ asked' \subseteq [finding : Findings, to : States, by : Reviewers \union {Detector}]
         /\ faults' \in 0..MaxFaults
<1>1. AgentOf[f] \in Agents
  BY ConstantsAssumption
<1>2. CASE ~canTransition("ACTIVE", to)
  BY <1>2 DEF requestTransition, TypeOK
<1>3. CASE canTransition("ACTIVE", to)
  <2>1. asked' = asked \union {[finding |-> f, to |-> to, by |-> by]}
    BY <1>3 DEF requestTransition
  <2>2. agent' = agent \/ agent' = [agent EXCEPT ![AgentOf[f]] = to]
    BY <1>3 DEF requestTransition
  <2>3. faults' = faults \/ Faulty
    BY <1>3 DEF requestTransition
  <2> QED
    BY <1>1, <2>1, <2>2, <2>3, ConstantsAssumption DEF TypeOK, Faulty
<1> QED
  BY <1>2, <1>3

-----------------------------------------------------------------------------
(* The inductive invariant.                                                *)

\* The approval of r was put to the Lifecycle Manager, or is no transition.
WasPut(r) ==
  \/ [finding |-> review[r].finding, to |-> review[r].to, by |-> r] \in asked
  \/ ~canTransition("ACTIVE", review[r].to)

\* What r asks for an analysis of its finding had put off, and r found it so.
WasHeld(r) ==
  review[r].to \in REVIEW_REQUIRED_RESPONSES =>
    /\ review[r].found = "pending"
    /\ [finding |-> review[r].finding, response |-> review[r].to] \in held

Isolated(r) == review[r].outcome = "sent" /\ review[r].to = "QUARANTINED"

RunTrue(l) ==
  run[l].pc \in {"respond", "announce"} =>
    run[l].response \in States \ REVIEW_REQUIRED_RESPONSES

ReviewTrue(r) ==
  /\ review[r].pc # "idle" => review[r].finding \in Findings
  /\ review[r].pc = "ask" => review[r].decision = "approve" /\ review[r].outcome = "none"
  /\ review[r].pc \in {"ask", "announce"} => review[r].to \in States
  /\ review[r].pc = "record" => review[r].decision \in {"approve", "reject"}
  /\ review[r].pc = "record" /\ review[r].decision = "approve" => review[r].to \in States
  /\ review[r].pc \in {"record", "announce"} /\ review[r].decision = "approve" => WasPut(r)
  /\ WasHeld(r)
  /\ Isolated(r) =>
       review[r].pc # "idle" /\ Rung(agent[AgentOf[review[r].finding]]) >= Rung("QUARANTINED")

OneIsolates ==
  \A r, s \in Reviewers :
    /\ Isolated(r) /\ Isolated(s)
    /\ AgentOf[review[r].finding] = AgentOf[review[s].finding]
    => r = s

AskedTrue ==
  \A q \in asked :
    q.to \in REVIEW_REQUIRED_RESPONSES =>
      /\ q.by \in Reviewers
      /\ review[q.by].pc # "idle"
      /\ review[q.by].decision = "approve"
      /\ review[q.by].finding = q.finding
      /\ review[q.by].to = q.to

ToldTrue ==
  \A t \in told :
    /\ t.by \in Reviewers
    /\ review[t.by].finding = t.finding
    /\ Isolated(t.by)
    /\ t.agent = AgentOf[t.finding]

\* A disruptive response was put off, and was so in this row.
HeldTrue(f, document) ==
  document.response \in REVIEW_REQUIRED_RESPONSES =>
    /\ [finding |-> f, response |-> document.response] \in held
    /\ document.status \notin {"absent", "none"}

RowTrue(f, document) ==
  Decided(document.status) =>
    LET r == document.reviewer
    IN /\ r \in Reviewers
       /\ review[r].pc # "idle"
       /\ review[r].finding = f
       /\ review[r].decision = IF document.status = "approved" THEN "approve" ELSE "reject"
       /\ document.status = "approved" => WasPut(r)

RowsTrue ==
  /\ \A f \in Findings : RowTrue(f, row[f])
  /\ \A l \in Lines : RowTrue(FindingOf[l], run[l].row)

RowsHeld ==
  /\ \A f \in Findings : HeldTrue(f, row[f])
  /\ \A l \in Lines : HeldTrue(FindingOf[l], run[l].row)

IInv ==
  /\ TypeOK
  /\ \A l \in Lines : RunTrue(l)
  /\ \A r \in Reviewers : ReviewTrue(r)
  /\ OneIsolates
  /\ AskedTrue
  /\ ToldTrue
  /\ RowsTrue
  /\ RowsHeld

-----------------------------------------------------------------------------
LEMMA FaultType == ASSUME TypeOK, Faulty PROVE faults' \in 0..MaxFaults
<1>1. faults \in Nat /\ MaxFaults \in Nat /\ faults < MaxFaults /\ faults' = faults + 1
  BY ConstantsAssumption DEF TypeOK, Faulty
<1> QED
  BY <1>1

\* A batch moves on with what it has read or been told.
LEMMA RunType ==
  ASSUME TypeOK, NEW l \in Lines, NEW pc \in RunPcs
  PROVE  /\ \A n \in Nat : [run EXCEPT ![l].pc = pc, ![l].count = n] \in [Lines -> Run]
         /\ \A d \in Row : [run EXCEPT ![l].pc = pc, ![l].row = d] \in [Lines -> Run]
         /\ \A to \in States \union {"none"} :
              [run EXCEPT ![l].pc = pc, ![l].response = to] \in [Lines -> Run]
<1>1. run \in [Lines -> Run] /\ run[l] \in Run
  BY DEF TypeOK
<1>2. ASSUME NEW n \in Nat
      PROVE  [run EXCEPT ![l].pc = pc, ![l].count = n] \in [Lines -> Run]
  BY <1>1 DEF Run
<1>3. ASSUME NEW d \in Row
      PROVE  [run EXCEPT ![l].pc = pc, ![l].row = d] \in [Lines -> Run]
  BY <1>1 DEF Run
<1>4. ASSUME NEW to \in States \union {"none"}
      PROVE  [run EXCEPT ![l].pc = pc, ![l].response = to] \in [Lines -> Run]
  BY <1>1 DEF Run
<1> QED
  BY <1>2, <1>3, <1>4

LEMMA InitIInv == Init => IInv
<1> SUFFICES ASSUME Init PROVE IInv
  OBVIOUS
<1>1. TypeOK
  <2>1. "ACTIVE" \in States /\ 0 \in 0..MaxFaults
    BY StateNames, ConstantsAssumption
  <2> QED
    BY <2>1, InitialValues DEF Init, TypeOK
<1>2. \A l \in Lines : RunTrue(l)
  BY DEF Init, RunTrue, NoRun
<1>3. \A r \in Reviewers : ReviewTrue(r) /\ ~Isolated(r)
  BY DEF Init, ReviewTrue, Isolated, WasHeld, REVIEW_REQUIRED_RESPONSES, NoReview
<1>4. OneIsolates /\ AskedTrue /\ ToldTrue
  BY <1>3 DEF Init, OneIsolates, AskedTrue, ToldTrue
<1>5. RowsTrue /\ RowsHeld
  BY DEF Init, RowsTrue, RowTrue, RowsHeld, HeldTrue, REVIEW_REQUIRED_RESPONSES,
     NoRun, NoRow, Decided
<1> QED
  BY <1>1, <1>2, <1>3, <1>4, <1>5 DEF IInv

LEMMA TypeStep == IInv /\ [Next]_vars => TypeOK'
<1> SUFFICES ASSUME IInv, [Next]_vars PROVE TypeOK'
  OBVIOUS
<1> USE DEF TypeOK
<1>0. TypeOK
  BY DEF IInv
<1>1. ASSUME NEW l \in Lines, BatchStep(l) \/ Fails(l) \/ Redelivered(l) PROVE TypeOK'
  <2> DEFINE f == FindingOf[l]
  <2>0. /\ f \in Findings /\ AgentOf[f] \in Agents
        /\ run[l].pc \in RunPcs /\ run[l].count \in Nat /\ run[l].row \in Row
        /\ run[l].response \in States \union {"none"}
    BY <1>0, ConstantsAssumption DEF Run
  <2>1. CASE Deliver(l)
    BY <1>0, <2>0, <2>1 DEF Deliver, Goto, Run, RunPcs
  <2>2. CASE InspectionRead(l)
    <3>1. PICK n \in {examined[f], 0} :
            run' = [run EXCEPT ![l].pc = "inspecting", ![l].count = n]
      BY <2>2 DEF InspectionRead
    <3>2. n \in Nat /\ "inspecting" \in RunPcs
      BY <1>0, <2>0 DEF RunPcs
    <3>3. run' \in [Lines -> Run]
      BY <1>0, <3>1, <3>2, RunType
    <3>4. faults' \in 0..MaxFaults /\ disturbed' \subseteq Findings
      BY <1>0, <2>0, <2>2, FaultType DEF InspectionRead
    <3> QED
      BY <1>0, <2>2, <3>3, <3>4 DEF InspectionRead
  <2>3. CASE InspectionWritten(l)
    <3>1. run' \in [Lines -> Run]
      BY <1>0, <2>0, <2>3 DEF InspectionWritten, Run, RunPcs
    <3>2. faults' \in 0..MaxFaults /\ disturbed' \subseteq Findings
      BY <1>0, <2>0, <2>3, FaultType DEF InspectionWritten
    <3> QED
      BY <1>0, <2>0, <2>3, <3>1, <3>2 DEF InspectionWritten
  <2>4. CASE FindingRead(l)
    <3>1. PICK document \in Row :
            run' = [run EXCEPT ![l].pc = "write", ![l].row = document]
      BY <1>0, <2>0, <2>4, InitialValues DEF FindingRead
    <3>2. run' \in [Lines -> Run]
      BY <1>0, <2>0, <3>1 DEF Run, RunPcs
    <3>3. faults' \in 0..MaxFaults /\ disturbed' \subseteq Findings
      BY <1>0, <2>0, <2>4, FaultType DEF FindingRead
    <3> QED
      BY <1>0, <2>4, <3>2, <3>3 DEF FindingRead
  <2>5. CASE FindingWritten(l)
    <3>1. mergeFinding(run[l].row, Scored(l)) \in Row
      BY <2>0, MergeType, InitialValues
    <3>2. run' \in [Lines -> Run]
      BY <1>0, <2>0, <2>5 DEF FindingWritten, Goto, Run, RunPcs
    <3> QED
      BY <1>0, <2>0, <2>5, <3>1, <3>2 DEF FindingWritten
  <2>6. CASE NotAnalysed(l)
    <3>1. run' \in [Lines -> Run]
      BY <1>0, <2>0, <2>6 DEF NotAnalysed, Goto, Run, RunPcs
    <3>2. row' \in [Findings -> Row]
      BY <1>0, <2>0, <2>6 DEF NotAnalysed, Row
    <3>3. faults' \in 0..MaxFaults /\ disturbed' \subseteq Findings
      BY <1>0, <2>0, <2>6, FaultType DEF NotAnalysed
    <3> QED
      BY <1>0, <2>6, <3>1, <3>2, <3>3 DEF NotAnalysed
  <2>7. CASE Analysed(l)
    <3>0. PICK answer \in Answers :
            LET response == IF answer = NoAnswer THEN fallbackResponse(RiskOf[l])
                            ELSE answer.response
                hold == needsHumanReview(answer)
            IN /\ row' = [row EXCEPT ![f].status = IF hold THEN "pending" ELSE "none",
                                     ![f].response = response,
                                     ![f].source = "analysed"]
               /\ run' = [run EXCEPT ![l].pc = IF hold THEN "finish" ELSE "respond",
                                     ![l].response = IF hold THEN "none" ELSE response]
               /\ held' = IF hold THEN held \union {[finding |-> f, response |-> response]}
                          ELSE held
      BY <2>7 DEF Analysed
    <3> DEFINE
          response == IF answer = NoAnswer THEN fallbackResponse(RiskOf[l]) ELSE answer.response
          status == IF needsHumanReview(answer) THEN "pending" ELSE "none"
          pc == IF needsHumanReview(answer) THEN "finish" ELSE "respond"
          to == IF needsHumanReview(answer) THEN "none" ELSE response
    <3>1. /\ row' = [row EXCEPT ![f].status = status,
                                ![f].response = response,
                                ![f].source = "analysed"]
          /\ run' = [run EXCEPT ![l].pc = pc, ![l].response = to]
      BY <3>0
    <3>2. response \in States
      BY StateNames, ConstantsAssumption DEF fallbackResponse
    <3>3. run' \in [Lines -> Run]
      <4>1. pc \in RunPcs /\ to \in States \union {"none"}
        BY <3>2 DEF RunPcs
      <4> HIDE DEF pc, to
      <4> QED
        BY <1>0, <3>1, <4>1, RunType
    <3>4. row' \in [Findings -> Row]
      <4>1. status \in {"pending", "none"}
        OBVIOUS
      <4> HIDE DEF status, response
      <4>2. row \in [Findings -> Row] /\ row[f] \in Row
        BY <1>0, <2>0
      <4>3. [row[f] EXCEPT !.status = status, !.response = response, !.source = "analysed"]
              \in Row
        BY <3>2, <4>1, <4>2 DEF Row
      <4> QED
        BY <3>1, <4>2, <4>3
    <3>5. held' \subseteq [finding : Findings, response : States]
      <4>1. held' = held \/ held' = held \union {[finding |-> f, response |-> response]}
        BY <3>0
      <4> HIDE DEF response
      <4> QED
        BY <1>0, <2>0, <3>2, <4>1
    <3> QED
      BY <1>0, <2>7, <3>3, <3>4, <3>5 DEF Analysed
  <2>8. CASE Respond(l)
    <3>1. run[l].response \in States
      BY <2>8 DEF Respond, IInv, RunTrue
    <3>2. PICK outcome : requestTransition(f, run[l].response, Detector, outcome)
      BY <2>8 DEF Respond
    <3>3. run' \in [Lines -> Run]
      <4>1. PICK pc \in RunPcs, to \in States \union {"none"} :
              run' = [run EXCEPT ![l].pc = pc, ![l].response = to]
        BY <2>0, <2>8 DEF Respond, RunPcs
      <4> QED
        BY <1>0, <4>1, RunType
    <3> QED
      BY <1>0, <2>0, <2>8, <3>1, <3>2, <3>3, RequestTypes DEF Respond
  <2>9. CASE Announce(l)
    <3>1. run' \in [Lines -> Run]
      BY <1>0, <2>0, <2>9 DEF Announce, Run, RunPcs
    <3> QED
      BY <1>0, <2>0, <2>9, <3>1 DEF Announce, announceQuarantine
  <2>10. CASE Finish(l) \/ Fails(l) \/ Redelivered(l)
    <3>1. run' \in [Lines -> Run]
      BY <1>0, <2>10, InitialValues DEF Finish, Fails, Redelivered
    <3>2. faults' \in 0..MaxFaults
      BY <1>0, <2>10, FaultType DEF Finish, Fails, Redelivered
    <3> QED
      BY <1>0, <2>10, <3>1, <3>2 DEF Finish, Fails, Redelivered
  <2> QED
    BY <1>1, <2>1, <2>2, <2>3, <2>4, <2>5, <2>6, <2>7, <2>8, <2>9, <2>10 DEF BatchStep
<1>2. CASE Crash
  <2>1. run' \in [Lines -> Run]
    BY <1>0, <1>2, InitialValues DEF Crash
  <2>2. review' \in [Reviewers -> Review]
    BY <1>0, <1>2 DEF Crash, Review
  <2> QED
    BY <1>0, <1>2, <2>1, <2>2, FaultType DEF Crash
<1>3. ASSUME NEW r \in Reviewers, ReviewStep(r) PROVE TypeOK'
  <2>1. CASE ReviewReads(r)
    <3>1. PICK f \in Findings, decision \in {"approve", "reject"}, found \in {"none", "pending"},
               to \in States \union {"none"}, pc \in {"record", "ask"} :
            review' = [review EXCEPT ![r] =
              [pc |-> pc, finding |-> f, found |-> found,
               decision |-> decision, outcome |-> "none", to |-> to]]
      <4>1. PICK f \in Findings, decision \in {"approve", "reject"} :
              /\ row[f].status \notin {"absent", "approved", "rejected"}
              /\ review' = [review EXCEPT ![r] =
                   [pc |-> IF decision = "reject" THEN "record" ELSE "ask",
                    finding |-> f, found |-> row[f].status,
                    decision |-> decision, outcome |-> "none",
                    to |-> IF decision = "reject" THEN "none"
                           ELSE IF row[f].response = "none" THEN "SUSPICIOUS"
                           ELSE row[f].response]]
        BY <2>1 DEF ReviewReads
      <4>2. /\ row[f].response \in States \union {"none"} /\ "SUSPICIOUS" \in States
            /\ row[f].status \in {"none", "pending"}
        BY <1>0, <4>1, StateNames DEF Row
      <4> QED
        BY <4>1, <4>2
    <3>2. review' \in [Reviewers -> Review]
      BY <1>0, <3>1 DEF Review
    <3> QED
      BY <1>0, <2>1, <3>2 DEF ReviewReads
  <2>2. CASE ReviewAsks(r)
    <3>1. review[r].finding \in Findings /\ review[r].to \in States
      BY <2>2 DEF ReviewAsks, IInv, ReviewTrue
    <3>2. PICK outcome \in {"sent", "refused", "failed"} :
            /\ requestTransition(review[r].finding, review[r].to, r, outcome)
            /\ review' = [review EXCEPT ![r].pc = "record", ![r].outcome = outcome]
      BY <2>2 DEF ReviewAsks
    <3>3. review' \in [Reviewers -> Review]
      <4>1. outcome \in {"none", "sent", "refused", "failed"} /\ review[r] \in Review
        BY <1>0
      <4> QED
        BY <1>0, <3>2, <4>1 DEF Review
    <3> QED
      BY <1>0, <2>2, <3>1, <3>2, <3>3, RequestTypes DEF ReviewAsks
  <2>3. CASE ReviewRecords(r)
    <3>1. review[r].finding \in Findings
      BY <2>3 DEF ReviewRecords, IInv, ReviewTrue
    <3>2. review' \in [Reviewers -> Review]
      BY <1>0, <2>3 DEF ReviewRecords, Review
    <3>3. row' \in [Findings -> Row]
      BY <1>0, <2>3, <3>1 DEF ReviewRecords, Row
    <3> QED
      BY <1>0, <2>3, <3>2, <3>3 DEF ReviewRecords
  <2>4. CASE ReviewAnnounces(r)
    <3>1. review[r].finding \in Findings
      BY <2>4 DEF ReviewAnnounces, IInv, ReviewTrue
    <3>2. review' \in [Reviewers -> Review]
      BY <1>0, <2>4 DEF ReviewAnnounces, Review
    <3>3. AgentOf[review[r].finding] \in Agents
      BY <3>1, ConstantsAssumption
    <3> QED
      BY <1>0, <2>4, <3>1, <3>2, <3>3 DEF ReviewAnnounces, announceQuarantine
  <2>5. CASE ReviewFails(r)
    <3>1. review' \in [Reviewers -> Review]
      BY <1>0, <2>5 DEF ReviewFails, Review
    <3> QED
      BY <1>0, <2>5, <3>1, FaultType DEF ReviewFails
  <2> QED
    BY <1>3, <2>1, <2>2, <2>3, <2>4, <2>5 DEF ReviewStep
<1>4. ASSUME NEW a \in Agents, StoppedElsewhere(a) PROVE TypeOK'
  BY <1>0, <1>4, StateNames DEF StoppedElsewhere
<1>5. CASE UNCHANGED vars
  BY <1>0, <1>5 DEF vars
<1> QED
  BY <1>1, <1>2, <1>3, <1>4, <1>5 DEF Next

-----------------------------------------------------------------------------
(* What a step leaves standing.                                            *)

LEMMA RequestMoves ==
  ASSUME TypeOK, NEW f \in Findings, NEW to, NEW by, NEW outcome,
         requestTransition(f, to, by, outcome)
  PROVE  /\ \/ agent' = agent /\ outcome # "sent"
            \/ /\ Takes(agent[AgentOf[f]], to)
               /\ agent' = [agent EXCEPT ![AgentOf[f]] = to]
         /\ \/ asked' = asked /\ ~canTransition("ACTIVE", to)
            \/ asked' = asked \union {[finding |-> f, to |-> to, by |-> by]}
<1>1. CASE ~canTransition("ACTIVE", to)
  BY <1>1 DEF requestTransition
<1>2. CASE canTransition("ACTIVE", to)
  BY <1>2 DEF requestTransition
<1> QED
  BY <1>1, <1>2

\* Agents move by a request of a batch or a review, or from elsewhere.
LEMMA AgentMoves ==
  ASSUME IInv, [Next]_vars
  PROVE  \/ agent' = agent
         \/ \E a \in Agents : \E to \in States : Takes(agent[a], to) /\ agent' = [agent EXCEPT ![a] = to]
<1>0. TypeOK
  BY DEF IInv
<1>1. ASSUME NEW l \in Lines, BatchStep(l) \/ Fails(l) \/ Redelivered(l)
      PROVE  \/ agent' = agent
             \/ \E a \in Agents : \E to \in States : Takes(agent[a], to) /\ agent' = [agent EXCEPT ![a] = to]
  <2>1. CASE Respond(l)
    <3>1. FindingOf[l] \in Findings /\ AgentOf[FindingOf[l]] \in Agents
      BY ConstantsAssumption
    <3> QED
      BY <1>0, <2>1, <3>1, RequestMoves, TakesType DEF Respond
  <2>2. CASE ~Respond(l)
    BY <1>1, <2>2 DEF BatchStep, Deliver, InspectionRead, InspectionWritten, FindingRead,
       FindingWritten, NotAnalysed, Analysed, Announce, Finish, Fails, Redelivered
  <2> QED
    BY <2>1, <2>2
<1>2. CASE Crash
  BY <1>2 DEF Crash
<1>3. ASSUME NEW r \in Reviewers, ReviewStep(r)
      PROVE  \/ agent' = agent
             \/ \E a \in Agents : \E to \in States : Takes(agent[a], to) /\ agent' = [agent EXCEPT ![a] = to]
  <2>1. CASE ReviewAsks(r)
    <3>1. review[r].finding \in Findings
      BY <2>1 DEF IInv, ReviewTrue, ReviewAsks
    <3>2. AgentOf[review[r].finding] \in Agents
      BY <3>1, ConstantsAssumption
    <3> QED
      BY <1>0, <2>1, <3>1, <3>2, RequestMoves, TakesType DEF ReviewAsks
  <2>2. CASE ~ReviewAsks(r)
    BY <1>3, <2>2 DEF ReviewStep, ReviewReads, ReviewRecords, ReviewAnnounces, ReviewFails
  <2> QED
    BY <2>1, <2>2
<1>4. ASSUME NEW a \in Agents, StoppedElsewhere(a)
      PROVE  Takes(agent[a], "REVOKED") /\ agent' = [agent EXCEPT ![a] = "REVOKED"]
  BY <1>4 DEF StoppedElsewhere
<1>5. CASE UNCHANGED vars
  BY <1>5 DEF vars
<1> QED
  BY <1>1, <1>2, <1>3, <1>4, <1>5, TakesType DEF Next

LEMMA Ascends ==
  ASSUME IInv, [Next]_vars, NEW a \in Agents
  PROVE  /\ agent[a] \in States /\ agent'[a] \in States
         /\ Rung(agent[a]) \in 1..5 /\ Rung(agent'[a]) \in 1..5
         /\ Rung(agent'[a]) >= Rung(agent[a])
<1>1. agent \in [Agents -> States] /\ agent' \in [Agents -> States]
  BY TypeStep DEF IInv, TypeOK
<1>2. Rung(agent[a]) \in 1..5 /\ Rung(agent'[a]) \in 1..5
  BY <1>1, RungValues, StateNames
<1>3. CASE agent'[a] = agent[a]
  BY <1>1, <1>2, <1>3
<1>4. CASE agent'[a] # agent[a]
  <2>1. PICK b \in Agents, to \in States : Takes(agent[b], to) /\ agent' = [agent EXCEPT ![b] = to]
    BY <1>4, AgentMoves
  <2>2. Takes(agent[a], agent'[a])
    BY <1>1, <1>4, <2>1
  <2> QED
    BY <1>1, <1>2, <2>2, TakesUp
<1> QED
  BY <1>3, <1>4

Stands(r) ==
  review[r].pc # "idle" =>
    /\ review'[r].pc # "idle"
    /\ review'[r].finding = review[r].finding
    /\ review'[r].found = review[r].found
    /\ review'[r].decision = review[r].decision
    /\ review'[r].to = review[r].to
    /\ review[r].pc # "ask" => review'[r].outcome = review[r].outcome

LEMMA ReviewsStand ==
  IInv /\ [Next]_vars => asked \subseteq asked' /\ \A r \in Reviewers : Stands(r)
<1> SUFFICES ASSUME IInv, [Next]_vars
             PROVE  asked \subseteq asked' /\ \A r \in Reviewers : Stands(r)
  OBVIOUS
<1>0. TypeOK /\ review \in [Reviewers -> Review]
  BY DEF IInv, TypeOK
<1>1. asked \subseteq asked'
  <2>1. ASSUME NEW l \in Lines, BatchStep(l) \/ Fails(l) \/ Redelivered(l)
        PROVE  asked \subseteq asked'
    <3>1. CASE Respond(l)
      <4>1. FindingOf[l] \in Findings
        BY ConstantsAssumption
      <4> QED
        BY <1>0, <3>1, <4>1, RequestMoves DEF Respond
    <3>2. CASE ~Respond(l)
      BY <2>1, <3>2 DEF BatchStep, Deliver, InspectionRead, InspectionWritten, FindingRead,
         FindingWritten, NotAnalysed, Analysed, Announce, Finish, Fails, Redelivered
    <3> QED
      BY <3>1, <3>2
  <2>2. ASSUME NEW r \in Reviewers, ReviewStep(r) PROVE asked \subseteq asked'
    <3>1. CASE ReviewAsks(r)
      <4>1. review[r].finding \in Findings
        BY <3>1 DEF IInv, ReviewTrue, ReviewAsks
      <4> QED
        BY <1>0, <3>1, <4>1, RequestMoves DEF ReviewAsks
    <3>2. CASE ~ReviewAsks(r)
      BY <2>2, <3>2 DEF ReviewStep, ReviewReads, ReviewRecords, ReviewAnnounces, ReviewFails
    <3> QED
      BY <3>1, <3>2
  <2> QED
    BY <2>1, <2>2 DEF Next, Crash, StoppedElsewhere, vars
<1>2. ASSUME NEW r \in Reviewers, ReviewStep(r), NEW s \in Reviewers PROVE Stands(s)
  <2>1. CASE ReviewReads(r)
    BY <1>0, <2>1 DEF ReviewReads, Stands
  <2>2. CASE ReviewAsks(r)
    BY <1>0, <2>2 DEF ReviewAsks, Stands
  <2>3. CASE ReviewRecords(r) \/ ReviewAnnounces(r) \/ ReviewFails(r)
    BY <1>0, <2>3 DEF ReviewRecords, ReviewAnnounces, ReviewFails, Stands, Review
  <2> QED
    BY <1>2, <2>1, <2>2, <2>3 DEF ReviewStep
<1>3. ASSUME Crash, NEW s \in Reviewers PROVE Stands(s)
  BY <1>0, <1>3 DEF Crash, Stands, Review
<1>4. ASSUME UNCHANGED review, NEW s \in Reviewers PROVE Stands(s)
  BY <1>4 DEF Stands
<1>5. \/ UNCHANGED review
      \/ Crash
      \/ \E r \in Reviewers : ReviewStep(r)
  BY DEF Next, vars, BatchStep, Deliver, InspectionRead, InspectionWritten, FindingRead,
     FindingWritten, NotAnalysed, Analysed, Respond, Announce, Finish, Fails, Redelivered,
     StoppedElsewhere
<1> QED
  BY <1>1, <1>2, <1>3, <1>4, <1>5

-----------------------------------------------------------------------------
(* The conjuncts of the invariant, one by one.                             *)

LEMMA RunStep ==
  IInv /\ [Next]_vars => \A l \in Lines : RunTrue(l)'
<1> SUFFICES ASSUME IInv, [Next]_vars, NEW k \in Lines PROVE RunTrue(k)'
  OBVIOUS
<1>0. run \in [Lines -> Run] /\ RunTrue(k)
  BY DEF IInv, TypeOK
<1>1. ASSUME NEW l \in Lines, BatchStep(l) \/ Fails(l) \/ Redelivered(l)
      PROVE  RunTrue(k)'
  <2>1. CASE Analysed(l)
    <3>1. PICK answer \in Answers :
            LET response == IF answer = NoAnswer THEN fallbackResponse(RiskOf[l])
                            ELSE answer.response
                hold == needsHumanReview(answer)
            IN run' = [run EXCEPT ![l].pc = IF hold THEN "finish" ELSE "respond",
                                  ![l].response = IF hold THEN "none" ELSE response]
      BY <2>1 DEF Analysed
    <3>2. CASE needsHumanReview(answer)
      BY <1>0, <3>1, <3>2 DEF RunTrue, Run
    <3>3. CASE ~needsHumanReview(answer)
      <4>1. answer # NoAnswer /\ answer.response \in States \ REVIEW_REQUIRED_RESPONSES
        BY <3>3, ConstantsAssumption DEF needsHumanReview
      <4>2. run' = [run EXCEPT ![l].pc = "respond", ![l].response = answer.response]
        BY <3>1, <3>3, <4>1
      <4> QED
        BY <1>0, <4>1, <4>2 DEF RunTrue, Run
    <3> QED
      BY <3>2, <3>3
  <2>2. CASE Respond(l)
    BY <1>0, <2>2 DEF Respond, RunTrue, Run
  <2>3. CASE Deliver(l) \/ InspectionRead(l) \/ InspectionWritten(l) \/ FindingRead(l)
    BY <1>0, <2>3 DEF Deliver, InspectionRead, InspectionWritten, FindingRead, Goto, RunTrue, Run
  <2>4. CASE FindingWritten(l) \/ NotAnalysed(l) \/ Announce(l)
    BY <1>0, <2>4 DEF FindingWritten, NotAnalysed, Announce, Goto, RunTrue, Run
  <2>5. CASE Finish(l) \/ Fails(l) \/ Redelivered(l)
    BY <1>0, <2>5 DEF Finish, Fails, Redelivered, RunTrue, NoRun, Acked
  <2> QED
    BY <1>1, <2>1, <2>2, <2>3, <2>4, <2>5 DEF BatchStep
<1>2. CASE Crash
  BY <1>0, <1>2 DEF Crash, RunTrue, NoRun
<1>3. CASE UNCHANGED run
  BY <1>0, <1>3 DEF RunTrue
<1>4. UNCHANGED run \/ Crash \/ \E l \in Lines : BatchStep(l) \/ Fails(l) \/ Redelivered(l)
  BY DEF Next, vars, ReviewStep, ReviewReads, ReviewAsks, ReviewRecords, ReviewAnnounces,
     ReviewFails, StoppedElsewhere
<1> QED
  BY <1>1, <1>2, <1>3, <1>4

\* What a review has put to the Lifecycle Manager stays put.
LEMMA PutStands ==
  ASSUME IInv, [Next]_vars, NEW r \in Reviewers, review[r].pc # "idle", WasPut(r)
  PROVE  WasPut(r)'
BY ReviewsStand DEF Stands, WasPut

LEMMA IsolatedStands ==
  ASSUME IInv, [Next]_vars, NEW r \in Reviewers, Isolated(r)
  PROVE  /\ review[r].pc \notin {"idle", "ask"} /\ review[r].finding \in Findings
         /\ AgentOf[review[r].finding] \in Agents
         /\ Isolated(r)' /\ review'[r].pc # "idle"
         /\ review'[r].finding = review[r].finding
         /\ Rung(agent[AgentOf[review[r].finding]]) >= Rung("QUARANTINED")
         /\ Rung(agent'[AgentOf[review[r].finding]]) >= Rung("QUARANTINED")
<1>1. ReviewTrue(r) /\ Stands(r)
  BY ReviewsStand DEF IInv
<1>2. review[r].pc \notin {"idle", "ask"} /\ review[r].finding \in Findings
  BY <1>1 DEF ReviewTrue, Isolated
<1>3. AgentOf[review[r].finding] \in Agents
  BY <1>2, ConstantsAssumption
<1>4. Rung(agent[AgentOf[review[r].finding]]) >= Rung("QUARANTINED")
  BY <1>1 DEF ReviewTrue
<1> QED
  BY <1>1, <1>2, <1>3, <1>4, Ascends, RungValues DEF Stands, Isolated

\* A review isolates an agent by moving it, and it was not isolated before.
LEMMA Isolates ==
  ASSUME IInv, [Next]_vars, NEW r \in Reviewers, ~Isolated(r), Isolated(r)'
  PROVE  /\ review[r].pc = "ask" /\ review'[r].pc = "record"
         /\ review[r].finding \in Findings /\ review'[r].finding = review[r].finding
         /\ Rung(agent[AgentOf[review[r].finding]]) < Rung("QUARANTINED")
         /\ Rung(agent'[AgentOf[review[r].finding]]) >= Rung("QUARANTINED")
         /\ \A s \in Reviewers \ {r} : review'[s] = review[s]
<1>0. TypeOK /\ review \in [Reviewers -> Review]
  BY DEF IInv, TypeOK
<1>1. ReviewAsks(r)
  <2>1. ASSUME NEW s \in Reviewers, ReviewStep(s) PROVE ReviewAsks(r)
    <3>1. CASE ReviewAsks(s)
      <4>1. s = r
        BY <1>0, <3>1 DEF ReviewAsks, Isolated
      <4> QED
        BY <3>1, <4>1
    <3>2. CASE ReviewReads(s)
      BY <1>0, <3>2 DEF ReviewReads, Isolated
    <3>3. CASE ReviewRecords(s) \/ ReviewAnnounces(s) \/ ReviewFails(s)
      BY <1>0, <3>3 DEF ReviewRecords, ReviewAnnounces, ReviewFails, Isolated, Review
    <3> QED
      BY <2>1, <3>1, <3>2, <3>3 DEF ReviewStep
  <2>2. ~Crash
    BY <1>0 DEF Crash, Isolated, Review
  <2>3. ~UNCHANGED review
    BY DEF Isolated
  <2> QED
    BY <2>1, <2>2, <2>3 DEF Next, vars, BatchStep, Deliver, InspectionRead, InspectionWritten,
       FindingRead, FindingWritten, NotAnalysed, Analysed, Respond, Announce, Finish, Fails,
       Redelivered, StoppedElsewhere
<1>2. PICK outcome \in {"sent", "refused", "failed"} :
        /\ requestTransition(review[r].finding, review[r].to, r, outcome)
        /\ review' = [review EXCEPT ![r].pc = "record", ![r].outcome = outcome]
  BY <1>1 DEF ReviewAsks
<1>3. /\ review'[r].pc = "record" /\ review'[r].outcome = outcome
      /\ review'[r].to = review[r].to /\ review'[r].finding = review[r].finding
      /\ \A s \in Reviewers \ {r} : review'[s] = review[s]
  BY <1>0, <1>2 DEF Review
<1>4. outcome = "sent" /\ review[r].to = "QUARANTINED"
  BY <1>3 DEF Isolated
<1>5. review[r].pc = "ask" /\ review[r].finding \in Findings
  BY <1>1 DEF ReviewAsks, IInv, ReviewTrue
<1>6. /\ AgentOf[review[r].finding] \in Agents
      /\ Takes(agent[AgentOf[review[r].finding]], "QUARANTINED")
      /\ agent' = [agent EXCEPT ![AgentOf[review[r].finding]] = "QUARANTINED"]
  BY <1>0, <1>2, <1>4, <1>5, RequestMoves, ConstantsAssumption
<1>7. agent[AgentOf[review[r].finding]] \in States
      /\ agent'[AgentOf[review[r].finding]] = "QUARANTINED"
  BY <1>0, <1>6 DEF TypeOK
<1>8. Rung(agent[AgentOf[review[r].finding]]) < Rung("QUARANTINED")
  BY <1>6, <1>7, TakesUp
<1> QED
  BY <1>3, <1>5, <1>7, <1>8, RungValues

\* What was put off stays known, whatever the model answers later.
LEMMA HeldStays == [Next]_vars => held \subseteq held'
<1> SUFFICES ASSUME [Next]_vars PROVE held \subseteq held'
  OBVIOUS
<1>1. ASSUME NEW l \in Lines, Analysed(l) PROVE held \subseteq held'
  BY <1>1 DEF Analysed
<1> QED
  BY <1>1 DEF Next, vars, BatchStep, Deliver, InspectionRead, InspectionWritten, FindingRead,
     FindingWritten, NotAnalysed, Respond, Announce, Finish, Fails, Redelivered, Crash,
     ReviewStep, ReviewReads, ReviewAsks, ReviewRecords, ReviewAnnounces, ReviewFails,
     StoppedElsewhere

\* What a review has read of a finding it keeps.
LEMMA WasHeldStays ==
  ASSUME IInv, [Next]_vars, NEW r \in Reviewers, review[r].pc # "idle" \/ review'[r] = review[r]
  PROVE  WasHeld(r)'
<1>1. /\ review'[r].finding = review[r].finding /\ review'[r].found = review[r].found
      /\ review'[r].to = review[r].to
  BY ReviewsStand DEF Stands
<1> QED
  BY <1>1, HeldStays DEF IInv, ReviewTrue, WasHeld

LEMMA ReviewStepTrue ==
  IInv /\ [Next]_vars => \A r \in Reviewers : ReviewTrue(r)'
<1> SUFFICES ASSUME IInv, [Next]_vars, NEW s \in Reviewers PROVE ReviewTrue(s)'
  OBVIOUS
<1>0. /\ TypeOK /\ review \in [Reviewers -> Review] /\ ReviewTrue(s) /\ Stands(s)
  BY ReviewsStand DEF IInv, TypeOK
<1>1. /\ Isolated(s)' =>
           /\ review'[s].pc # "idle"
           /\ Rung(agent'[AgentOf[review'[s].finding]]) >= Rung("QUARANTINED")
  <2>1. CASE Isolated(s)
    BY <2>1, IsolatedStands
  <2>2. CASE ~Isolated(s)
    BY <2>2, Isolates
  <2> QED
    BY <2>1, <2>2
<1>2. ASSUME review'[s] = review[s] PROVE ReviewTrue(s)'
  <2>1. CASE review[s].pc = "idle"
    BY <1>0, <1>1, <1>2, <2>1, WasHeldStays DEF ReviewTrue
  <2>2. CASE review[s].pc # "idle"
    BY <1>0, <1>1, <1>2, <2>2, PutStands, WasHeldStays DEF ReviewTrue
  <2> QED
    BY <2>1, <2>2
<1>3. ASSUME Crash PROVE ReviewTrue(s)'
  <2>1. review'[s] = review[s] \/ review[s].pc # "idle"
    BY <1>0, <1>3 DEF Crash
  <2>2. WasHeld(s)'
    BY <2>1, WasHeldStays
  <2> QED
    BY <1>0, <1>1, <1>2, <1>3, <2>2 DEF Crash, ReviewTrue, Review
<1>4. ASSUME ReviewStep(s) PROVE ReviewTrue(s)'
  <2>1. CASE ReviewReads(s)
    <3>1. PICK f \in Findings, decision \in {"approve", "reject"} :
            review' = [review EXCEPT ![s] =
              [pc |-> IF decision = "reject" THEN "record" ELSE "ask",
               finding |-> f, found |-> row[f].status,
               decision |-> decision, outcome |-> "none",
               to |-> IF decision = "reject" THEN "none"
                      ELSE IF row[f].response = "none" THEN "SUSPICIOUS" ELSE row[f].response]]
      BY <2>1 DEF ReviewReads
    <3>5. review[s].pc = "idle" /\ row[f].status \notin {"absent", "approved", "rejected"}
      <4>1. /\ review[s].pc = "idle"
            /\ \E g \in Findings, verdict \in {"approve", "reject"} :
                 /\ row[g].status \notin {"absent", "approved", "rejected"}
                 /\ review'[s].finding = g
        BY <1>0, <2>1 DEF ReviewReads
      <4> QED
        BY <1>0, <3>1, <4>1
    <3>2. row[f].response \in States \union {"none"} /\ "SUSPICIOUS" \in States
      BY <1>0, StateNames DEF TypeOK, Row
    <3>3. /\ review'[s].finding \in Findings /\ review'[s].outcome = "none"
          /\ \/ review'[s].pc = "record" /\ review'[s].decision = "reject"
             \/ /\ review'[s].pc = "ask" /\ review'[s].decision = "approve"
                /\ review'[s].to \in States
      BY <1>0, <3>1, <3>2
    <3>4. WasHeld(s)'
      <4>1. /\ review'[s].finding = f /\ review'[s].found = row[f].status
            /\ review'[s].to \in {"none", "SUSPICIOUS", row[f].response}
        BY <1>0, <3>1
      <4>2. HeldTrue(f, row[f]) /\ row[f].status \in {"none", "pending"}
        BY <1>0, <3>5 DEF IInv, RowsHeld, TypeOK, Row
      <4> QED
        BY <4>1, <4>2, HeldStays DEF WasHeld, HeldTrue, REVIEW_REQUIRED_RESPONSES
    <3> QED
      BY <1>1, <3>3, <3>4 DEF ReviewTrue
  <2>2. CASE ReviewAsks(s)
    <3>1. review[s].finding \in Findings /\ review[s].to \in States
          /\ review[s].decision = "approve"
      BY <1>0, <2>2 DEF ReviewAsks, ReviewTrue
    <3>2. PICK outcome \in {"sent", "refused", "failed"} :
            /\ requestTransition(review[s].finding, review[s].to, s, outcome)
            /\ review' = [review EXCEPT ![s].pc = "record", ![s].outcome = outcome]
      BY <2>2 DEF ReviewAsks
    <3>3. /\ review'[s].pc = "record" /\ review'[s].finding = review[s].finding
          /\ review'[s].to = review[s].to /\ review'[s].decision = review[s].decision
      BY <1>0, <3>2 DEF Review
    <3>4. WasPut(s)'
      BY <1>0, <3>1, <3>2, <3>3, RequestMoves DEF WasPut
    <3>5. WasHeld(s)'
      BY <2>2, WasHeldStays DEF ReviewAsks
    <3> QED
      BY <1>1, <3>1, <3>3, <3>4, <3>5 DEF ReviewTrue
  <2>3. CASE ReviewRecords(s)
    <3>1. /\ review[s].pc = "record" /\ review[s].decision \in {"approve", "reject"}
          /\ review'[s] = [review[s] EXCEPT
               !.pc = IF review[s].decision = "approve" THEN "announce" ELSE "over"]
          /\ WasHeld(s)'
      BY <1>0, <2>3, WasHeldStays DEF ReviewRecords, ReviewTrue
    <3>2. CASE review[s].decision = "approve"
      <4>1. WasPut(s)' /\ review[s].to \in States
        BY <1>0, <3>1, <3>2, PutStands DEF ReviewTrue
      <4> QED
        BY <1>0, <1>1, <3>1, <3>2, <4>1 DEF ReviewTrue, Review
    <3>3. CASE review[s].decision = "reject"
      BY <1>0, <1>1, <3>1, <3>3 DEF ReviewTrue, Review
    <3> QED
      BY <3>1, <3>2, <3>3
  <2>4. CASE ReviewAnnounces(s) \/ ReviewFails(s)
    <3>1. /\ review[s].pc # "idle" /\ review'[s] = [review[s] EXCEPT !.pc = "over"]
          /\ WasHeld(s)'
      BY <1>0, <2>4, WasHeldStays DEF ReviewAnnounces, ReviewFails
    <3> QED
      BY <1>0, <1>1, <3>1 DEF ReviewTrue, Review
  <2> QED
    BY <1>4, <2>1, <2>2, <2>3, <2>4 DEF ReviewStep
<1>5. ASSUME NEW r \in Reviewers \ {s}, ReviewStep(r) PROVE review'[s] = review[s]
  BY <1>0, <1>5 DEF ReviewStep, ReviewReads, ReviewAsks, ReviewRecords, ReviewAnnounces,
     ReviewFails
<1>6. UNCHANGED review \/ Crash \/ \E r \in Reviewers : ReviewStep(r)
  BY DEF Next, vars, BatchStep, Deliver, InspectionRead, InspectionWritten, FindingRead,
     FindingWritten, NotAnalysed, Analysed, Respond, Announce, Finish, Fails, Redelivered,
     StoppedElsewhere
<1> QED
  BY <1>2, <1>3, <1>4, <1>5, <1>6

LEMMA OneIsolatesStep == IInv /\ [Next]_vars => OneIsolates'
<1> SUFFICES ASSUME IInv, [Next]_vars, NEW r \in Reviewers, NEW s \in Reviewers,
                    Isolated(r)', Isolated(s)',
                    AgentOf[review'[r].finding] = AgentOf[review'[s].finding]
             PROVE  r = s
  BY DEF OneIsolates
<1>1. CASE Isolated(r) /\ Isolated(s)
  BY <1>1, IsolatedStands DEF IInv, OneIsolates
<1>2. ASSUME NEW x \in Reviewers, NEW y \in Reviewers, x # y,
             ~Isolated(x), Isolated(x)', Isolated(y)',
             AgentOf[review'[x].finding] = AgentOf[review'[y].finding]
      PROVE  FALSE
  <2>1. /\ Rung(agent[AgentOf[review'[x].finding]]) < Rung("QUARANTINED")
        /\ review'[y] = review[y] /\ AgentOf[review[x].finding] \in Agents
        /\ review'[x].finding = review[x].finding
    BY <1>2, Isolates, ConstantsAssumption
  <2>2. Isolated(y)
    BY <1>2, <2>1 DEF Isolated
  <2>3. Rung(agent[AgentOf[review[y].finding]]) >= Rung("QUARANTINED")
    BY <2>2, IsolatedStands
  <2>4. Rung(agent[AgentOf[review[x].finding]]) \in 1..5
    BY <2>1, Ascends
  <2> QED
    BY <1>2, <2>1, <2>3, <2>4, RungValues
<1> QED
  BY <1>1, <1>2

\* What the service asks for by itself is not disruptive, and what a review
\* asks for is what it has read.
LEMMA AskedStep == IInv /\ [Next]_vars => AskedTrue'
<1> SUFFICES ASSUME IInv, [Next]_vars, NEW q \in asked', q.to \in REVIEW_REQUIRED_RESPONSES
             PROVE  /\ q.by \in Reviewers
                    /\ review'[q.by].pc # "idle"
                    /\ review'[q.by].decision = "approve"
                    /\ review'[q.by].finding = q.finding
                    /\ review'[q.by].to = q.to
  BY DEF AskedTrue
<1>0. TypeOK /\ review \in [Reviewers -> Review]
  BY DEF IInv, TypeOK
<1>1. CASE q \in asked
  BY <1>1, ReviewsStand DEF IInv, AskedTrue, Stands
<1>2. CASE q \notin asked
  <2>1. ASSUME NEW l \in Lines, Respond(l) PROVE FALSE
    <3>1. FindingOf[l] \in Findings /\ run[l].response \notin REVIEW_REQUIRED_RESPONSES
      BY <2>1, ConstantsAssumption DEF Respond, IInv, RunTrue
    <3>2. q.to = run[l].response
      BY <1>0, <1>2, <2>1, <3>1, RequestMoves DEF Respond
    <3> QED
      BY <3>1, <3>2
  <2>2. PICK r \in Reviewers : ReviewAsks(r)
    BY <1>2, <2>1 DEF Next, vars, BatchStep, Deliver, InspectionRead, InspectionWritten,
       FindingRead, FindingWritten, NotAnalysed, Analysed, Announce, Finish, Fails,
       Redelivered, Crash, ReviewStep, ReviewReads, ReviewRecords, ReviewAnnounces,
       ReviewFails, StoppedElsewhere
  <2>3. /\ review[r].finding \in Findings /\ review[r].decision = "approve"
        /\ review[r].pc = "ask"
    BY <2>2 DEF ReviewAsks, IInv, ReviewTrue
  <2>4. q = [finding |-> review[r].finding, to |-> review[r].to, by |-> r]
    BY <1>0, <1>2, <2>2, <2>3, RequestMoves DEF ReviewAsks
  <2> QED
    BY <2>3, <2>4, ReviewsStand DEF Stands
<1> QED
  BY <1>1, <1>2

LEMMA ToldStep == IInv /\ [Next]_vars => ToldTrue'
<1> SUFFICES ASSUME IInv, [Next]_vars, NEW t \in told'
             PROVE  /\ t.by \in Reviewers
                    /\ review'[t.by].finding = t.finding
                    /\ Isolated(t.by)'
                    /\ t.agent = AgentOf[t.finding]
  BY DEF ToldTrue
<1>1. CASE t \in told
  BY <1>1, IsolatedStands DEF IInv, ToldTrue
<1>2. CASE t \notin told
  <2>1. ASSUME NEW l \in Lines, Announce(l) PROVE FALSE
    <3>1. run[l].response # "QUARANTINED"
      BY <2>1 DEF Announce, IInv, RunTrue, REVIEW_REQUIRED_RESPONSES
    <3> QED
      BY <1>2, <2>1, <3>1 DEF Announce, announceQuarantine
  <2>2. PICK r \in Reviewers : ReviewAnnounces(r)
    BY <1>2, <2>1 DEF Next, vars, BatchStep, Deliver, InspectionRead, InspectionWritten,
       FindingRead, FindingWritten, NotAnalysed, Analysed, Respond, Finish, Fails,
       Redelivered, Crash, ReviewStep, ReviewReads, ReviewRecords, ReviewAsks,
       ReviewFails, StoppedElsewhere
  <2>3. /\ Isolated(r)
        /\ t = [agent |-> AgentOf[review[r].finding], finding |-> review[r].finding, by |-> r]
    BY <1>2, <2>2 DEF ReviewAnnounces, announceQuarantine, Isolated
  <2> QED
    BY <2>3, IsolatedStands
<1> QED
  BY <1>1, <1>2

\* What is true of a copy of a row stays true of it.
LEMMA RowStands ==
  ASSUME IInv, [Next]_vars, NEW f, NEW document, RowTrue(f, document)
  PROVE  RowTrue(f, document)'
BY ReviewsStand, PutStands DEF RowTrue, Stands

\* A merge decides nothing: the status and the reviewer go together.
LEMMA MergeKeeps ==
  ASSUME NEW f, NEW previous, RowTrue(f, previous), NEW l
  PROVE  RowTrue(f, mergeFinding(previous, Scored(l)))
<1>1. Scored(l).status = "none"
  BY DEF Scored, NoRow
<1>2. CASE previous.status = "absent"
  BY <1>1, <1>2 DEF RowTrue, mergeFinding, Decided
<1>3. CASE previous.status = "none"
  BY <1>1, <1>3 DEF RowTrue, mergeFinding, Decided
<1>4. CASE previous.status \notin {"absent", "none"}
  <2>1. /\ mergeFinding(previous, Scored(l)).status = previous.status
        /\ mergeFinding(previous, Scored(l)).reviewer = previous.reviewer
    BY <1>4 DEF mergeFinding
  <2> QED
    BY <2>1 DEF RowTrue
<1> QED
  BY <1>2, <1>3, <1>4

\* A batch's copy of a row is one it had, none, or the row.
LEMMA CopyComesFrom ==
  ASSUME IInv, [Next]_vars, NEW k \in Lines
  PROVE  run'[k].row \in {run[k].row, NoRow, row[FindingOf[k]]}
<1>0. run \in [Lines -> Run]
  BY DEF IInv, TypeOK
<1>1. ASSUME NEW l \in Lines, BatchStep(l) \/ Fails(l) \/ Redelivered(l)
      PROVE  run'[k].row \in {run[k].row, NoRow, row[FindingOf[k]]}
  <2>1. CASE FindingRead(l)
    BY <1>0, <2>1 DEF FindingRead, Run
  <2>2. CASE Deliver(l) \/ InspectionRead(l) \/ InspectionWritten(l) \/ FindingWritten(l)
    BY <1>0, <2>2 DEF Deliver, InspectionRead, InspectionWritten, FindingWritten, Goto, Run
  <2>3. CASE NotAnalysed(l) \/ Analysed(l) \/ Respond(l) \/ Announce(l)
    <3>1. CASE NotAnalysed(l)
      BY <1>0, <3>1 DEF NotAnalysed, Goto, Run
    <3>2. CASE Analysed(l)
      BY <1>0, <3>2 DEF Analysed, Run
    <3>3. CASE Respond(l)
      BY <1>0, <3>3 DEF Respond, Run
    <3>4. CASE Announce(l)
      BY <1>0, <3>4 DEF Announce, Run
    <3> QED
      BY <2>3, <3>1, <3>2, <3>3, <3>4
  <2>4. CASE Finish(l) \/ Fails(l) \/ Redelivered(l)
    <3>1. Acked.row = NoRow /\ NoRun.row = NoRow
      BY DEF Acked, NoRun
    <3> QED
      BY <1>0, <2>4, <3>1 DEF Finish, Fails, Redelivered
  <2> QED
    BY <1>1, <2>1, <2>2, <2>3, <2>4 DEF BatchStep
<1>2. CASE Crash
  BY <1>0, <1>2 DEF Crash, NoRun
<1>3. \/ UNCHANGED run \/ Crash
      \/ \E l \in Lines : BatchStep(l) \/ Fails(l) \/ Redelivered(l)
  BY DEF Next, vars, ReviewStep, ReviewReads, ReviewAsks, ReviewRecords, ReviewAnnounces,
     ReviewFails, StoppedElsewhere
<1> QED
  BY <1>1, <1>2, <1>3

LEMMA RowsStep == IInv /\ [Next]_vars => RowsTrue'
<1> SUFFICES ASSUME IInv, [Next]_vars PROVE RowsTrue'
  OBVIOUS
<1>0. /\ TypeOK /\ row \in [Findings -> Row] /\ run \in [Lines -> Run]
      /\ \A f \in Findings : RowTrue(f, row[f])
      /\ \A l \in Lines : RowTrue(FindingOf[l], run[l].row)
  BY DEF IInv, TypeOK, RowsTrue
<1>1. ASSUME NEW f \in Findings PROVE RowTrue(f, row[f])'
  <2>0. PICK d : d = row'[f]
    OBVIOUS
  <2> SUFFICES RowTrue(f, d)'
    BY <2>0 DEF RowTrue
  <2>1. CASE d = row[f]
    <3>1. RowTrue(f, d)
      BY <1>0, <2>0, <2>1
    <3> QED
      BY <3>1, RowStands
  <2>2. ASSUME NEW l \in Lines, FindingWritten(l), f = FindingOf[l] PROVE RowTrue(f, d)'
    <3>1. PICK p : p = run[l].row
      OBVIOUS
    <3>2. d = mergeFinding(p, Scored(l)) /\ RowTrue(f, p)
      BY <1>0, <2>0, <2>2, <3>1 DEF FindingWritten
    <3>3. RowTrue(f, d)
      BY <3>2, MergeKeeps
    <3> QED
      BY <3>3, RowStands
  <2>3. ASSUME NEW l \in Lines, NotAnalysed(l) \/ Analysed(l), d # row[f]
        PROVE  RowTrue(f, d)'
    <3>1. ~Decided(d.status)
      <4>1. CASE NotAnalysed(l)
        <5>1. row' = [row EXCEPT ![FindingOf[l]].status = "pending",
                                ![FindingOf[l]].source = "rules"]
          BY <1>0, <2>0, <2>3, <4>1 DEF NotAnalysed
        <5>2. d = [row[f] EXCEPT !.status = "pending", !.source = "rules"]
          BY <1>0, <2>0, <2>3, <5>1
        <5> QED
          BY <1>0, <5>2 DEF Decided, Row
      <4>2. CASE Analysed(l)
        <5>1. \E status \in {"pending", "none"} : \E response :
                row' = [row EXCEPT ![FindingOf[l]].status = status,
                                   ![FindingOf[l]].response = response,
                                   ![FindingOf[l]].source = "analysed"]
          BY <4>2 DEF Analysed
        <5>2. PICK status \in {"pending", "none"} :
                \E response : row' = [row EXCEPT ![FindingOf[l]].status = status,
                                                ![FindingOf[l]].response = response,
                                                ![FindingOf[l]].source = "analysed"]
          BY <5>1
        <5>3. PICK response : row' = [row EXCEPT ![FindingOf[l]].status = status,
                                                 ![FindingOf[l]].response = response,
                                                 ![FindingOf[l]].source = "analysed"]
          BY <5>2
        <5>4. d = [row[f] EXCEPT !.status = status, !.response = response, !.source = "analysed"]
          BY <1>0, <2>0, <2>3, <5>3
        <5> QED
          BY <1>0, <5>4 DEF Decided, Row
      <4> QED
        BY <2>3, <4>1, <4>2
    <3> QED
      BY <3>1 DEF RowTrue, Decided
  <2>4. ASSUME NEW r \in Reviewers, ReviewRecords(r), d # row[f]
        PROVE  RowTrue(f, d)'
    <3>1. /\ review[r].pc = "record" /\ review[r].finding = f
          /\ d.status = IF review[r].decision = "approve" THEN "approved" ELSE "rejected"
          /\ d.reviewer = r
      BY <1>0, <2>0, <2>4 DEF ReviewRecords, Row
    <3>2. review[r].decision \in {"approve", "reject"}
      BY <3>1 DEF IInv, ReviewTrue
    <3>3. review[r].decision = "approve" => WasPut(r)'
      BY <3>1, PutStands DEF IInv, ReviewTrue
    <3> QED
      BY <3>1, <3>2, <3>3, ReviewsStand DEF RowTrue, Stands
  <2>5. \/ d = row[f]
        \/ \E l \in Lines : FindingWritten(l) /\ f = FindingOf[l]
        \/ \E l \in Lines : NotAnalysed(l) \/ Analysed(l)
        \/ \E r \in Reviewers : ReviewRecords(r)
    <3>1. ASSUME NEW l \in Lines, FindingWritten(l), f # FindingOf[l] PROVE d = row[f]
      BY <1>0, <2>0, <3>1 DEF FindingWritten
    <3> QED
      BY <2>0, <3>1 DEF Next, vars, BatchStep, Deliver, InspectionRead, InspectionWritten,
         FindingRead, Respond, Announce, Finish, Fails, Redelivered, Crash,
         ReviewStep, ReviewReads, ReviewAsks, ReviewAnnounces, ReviewFails, StoppedElsewhere
  <2> QED
    BY <2>1, <2>2, <2>3, <2>4, <2>5
<1>2. ASSUME NEW k \in Lines PROVE RowTrue(FindingOf[k], run[k].row)'
  <2>1. FindingOf[k] \in Findings
    BY ConstantsAssumption
  <2>2. run'[k].row \in {run[k].row, NoRow, row[FindingOf[k]]}
    BY CopyComesFrom
  <2>3. RowTrue(FindingOf[k], NoRow)
    BY DEF RowTrue, Decided, NoRow
  <2>4. PICK d : d = run'[k].row
    OBVIOUS
  <2>5. RowTrue(FindingOf[k], d)
    BY <1>0, <2>1, <2>2, <2>3, <2>4
  <2>6. RowTrue(FindingOf[k], d)'
    BY <2>5, RowStands
  <2> QED
    BY <2>4, <2>6 DEF RowTrue
<1> QED
  BY <1>1, <1>2 DEF RowsTrue

\* A merge lends a row no response: it keeps the row's own, with its status,
\* or has none.
LEMMA MergeHolds ==
  ASSUME NEW f, NEW previous, HeldTrue(f, previous), NEW l
  PROVE  HeldTrue(f, mergeFinding(previous, Scored(l)))
<1>1. Scored(l).status = "none" /\ Scored(l).response = "none"
  BY DEF Scored, NoRow
<1>2. CASE previous.status = "absent"
  BY <1>1, <1>2 DEF HeldTrue, mergeFinding, REVIEW_REQUIRED_RESPONSES
<1>3. CASE previous.status # "absent"
  <2>1. /\ mergeFinding(previous, Scored(l)).response \in {previous.response, "none"}
        /\ previous.status # "none" =>
             mergeFinding(previous, Scored(l)).status = previous.status
    BY <1>1, <1>3 DEF mergeFinding
  <2> QED
    BY <2>1 DEF HeldTrue, REVIEW_REQUIRED_RESPONSES
<1> QED
  BY <1>2, <1>3

\* An answer that is not put off is not disruptive.
LEMMA AnswerHolds ==
  ASSUME IInv, NEW l \in Lines, Analysed(l), FindingOf[l] \in Findings,
         NEW d, d = row'[FindingOf[l]]
  PROVE  HeldTrue(FindingOf[l], d)'
<1>0. row \in [Findings -> Row]
  BY DEF IInv, TypeOK
<1>1. PICK answer \in Answers :
        LET response == IF answer = NoAnswer THEN fallbackResponse(RiskOf[l]) ELSE answer.response
            hold == needsHumanReview(answer)
        IN /\ row' = [row EXCEPT ![FindingOf[l]].status = IF hold THEN "pending" ELSE "none",
                                 ![FindingOf[l]].response = response,
                                 ![FindingOf[l]].source = "analysed"]
           /\ held' = IF hold
                      THEN held \union {[finding |-> FindingOf[l], response |-> response]}
                      ELSE held
  BY DEF Analysed
<1> DEFINE response == IF answer = NoAnswer THEN fallbackResponse(RiskOf[l]) ELSE answer.response
<1>2. /\ d.response = response
      /\ d.status = IF needsHumanReview(answer) THEN "pending" ELSE "none"
  BY <1>0, <1>1 DEF Row
<1>3. CASE needsHumanReview(answer)
  BY <1>1, <1>2, <1>3 DEF HeldTrue
<1>4. CASE ~needsHumanReview(answer)
  <2>1. response \notin REVIEW_REQUIRED_RESPONSES
    BY <1>4 DEF needsHumanReview
  <2> QED
    BY <1>2, <2>1 DEF HeldTrue
<1> QED
  BY <1>3, <1>4

LEMMA RowsHeldStep == IInv /\ [Next]_vars => RowsHeld'
<1> SUFFICES ASSUME IInv, [Next]_vars PROVE RowsHeld'
  OBVIOUS
<1>0. /\ row \in [Findings -> Row] /\ run \in [Lines -> Run] /\ held \subseteq held'
      /\ \A f \in Findings : HeldTrue(f, row[f])
      /\ \A l \in Lines : HeldTrue(FindingOf[l], run[l].row)
  BY HeldStays DEF IInv, TypeOK, RowsHeld
<1>1. ASSUME NEW f, NEW document, HeldTrue(f, document) PROVE HeldTrue(f, document)'
  BY <1>0, <1>1 DEF HeldTrue
<1>2. ASSUME NEW f \in Findings PROVE HeldTrue(f, row[f])'
  <2>0. PICK d : d = row'[f]
    OBVIOUS
  <2> SUFFICES HeldTrue(f, d)'
    BY <2>0 DEF HeldTrue
  <2>1. CASE d = row[f]
    <3>1. HeldTrue(f, d)
      BY <1>0, <2>1
    <3> QED
      BY <1>1, <3>1
  <2>2. ASSUME NEW l \in Lines, FindingWritten(l), f = FindingOf[l] PROVE HeldTrue(f, d)'
    <3>1. PICK p : p = run[l].row
      OBVIOUS
    <3>2. d = mergeFinding(p, Scored(l)) /\ HeldTrue(f, p)
      BY <1>0, <2>0, <2>2, <3>1 DEF FindingWritten
    <3>3. HeldTrue(f, d)
      BY <3>2, MergeHolds
    <3> QED
      BY <1>1, <3>3
  <2>3. ASSUME NEW l \in Lines, NotAnalysed(l), d # row[f] PROVE HeldTrue(f, d)'
    <3>1. row' = [row EXCEPT ![FindingOf[l]].status = "pending",
                            ![FindingOf[l]].source = "rules"]
      BY <2>0, <2>3 DEF NotAnalysed
    <3>2. d = [row[f] EXCEPT !.status = "pending", !.source = "rules"]
      BY <1>0, <2>0, <2>3, <3>1
    <3>3. HeldTrue(f, d)
      BY <1>0, <3>2 DEF HeldTrue, Row
    <3> QED
      BY <1>1, <3>3
  <2>4. ASSUME NEW l \in Lines, Analysed(l), d # row[f] PROVE HeldTrue(f, d)'
    <3>1. FindingOf[l] \in Findings
      BY ConstantsAssumption
    <3>2. f = FindingOf[l]
      BY <1>0, <2>0, <2>4, <3>1 DEF Analysed
    <3> QED
      BY <2>0, <2>4, <3>1, <3>2, AnswerHolds
  <2>5. ASSUME NEW r \in Reviewers, ReviewRecords(r), d # row[f] PROVE HeldTrue(f, d)'
    <3>1. d.response = row[f].response /\ d.status \in {"approved", "rejected"}
      BY <1>0, <2>0, <2>5 DEF ReviewRecords, Row
    <3>2. HeldTrue(f, d)
      BY <1>0, <3>1 DEF HeldTrue
    <3> QED
      BY <1>1, <3>2
  <2>6. \/ d = row[f]
        \/ \E l \in Lines : FindingWritten(l) /\ f = FindingOf[l]
        \/ \E l \in Lines : NotAnalysed(l) \/ Analysed(l)
        \/ \E r \in Reviewers : ReviewRecords(r)
    <3>1. ASSUME NEW l \in Lines, FindingWritten(l), f # FindingOf[l] PROVE d = row[f]
      BY <1>0, <2>0, <3>1 DEF FindingWritten
    <3> QED
      BY <2>0, <3>1 DEF Next, vars, BatchStep, Deliver, InspectionRead, InspectionWritten,
         FindingRead, Respond, Announce, Finish, Fails, Redelivered, Crash,
         ReviewStep, ReviewReads, ReviewAsks, ReviewAnnounces, ReviewFails, StoppedElsewhere
  <2> QED
    BY <2>1, <2>2, <2>3, <2>4, <2>5, <2>6
<1>3. ASSUME NEW k \in Lines PROVE HeldTrue(FindingOf[k], run[k].row)'
  <2>1. FindingOf[k] \in Findings
    BY ConstantsAssumption
  <2>2. HeldTrue(FindingOf[k], NoRow)
    BY DEF HeldTrue, NoRow, REVIEW_REQUIRED_RESPONSES
  <2>3. PICK d : d = run'[k].row
    OBVIOUS
  <2>4. HeldTrue(FindingOf[k], d)
    BY <1>0, <2>1, <2>2, <2>3, CopyComesFrom
  <2>5. HeldTrue(FindingOf[k], d)'
    BY <1>1, <2>4
  <2> QED
    BY <2>3, <2>5 DEF HeldTrue
<1> QED
  BY <1>2, <1>3 DEF RowsHeld

-----------------------------------------------------------------------------
(* The theorems.                                                           *)

LEMMA Inductive == Spec => []IInv
<1>1. IInv /\ [Next]_vars => IInv'
  BY TypeStep, RunStep, ReviewStepTrue, OneIsolatesStep, AskedStep, ToldStep, RowsStep,
     RowsHeldStep DEF IInv
<1> QED
  BY InitIInv, <1>1, PTL DEF Spec

\* However many batches, reviewers and failures meet, no agent is quarantined,
\* revoked or destroyed but by the approval of a finding that waited for a
\* person, with a response an analysis of that finding had put off for her.
THEOREM DisruptionNeedsAPerson == Spec => []DisruptionIsApproved
<1>1. IInv => DisruptionIsApproved
  BY DEF IInv, AskedTrue, ReviewTrue, WasHeld, DisruptionIsApproved
<1> QED
  BY Inductive, <1>1, PTL

\* The decision in a row was taken by the reviewer it names, and an approval
\* was asked for first, whatever stale copies of the row are written back.
THEOREM DecisionsAreTrue == Spec => []DecisionIsTrue
<1>1. IInv => DecisionIsTrue
  BY DEF IInv, RowsTrue, RowTrue, WasPut, DecisionIsTrue
<1> QED
  BY Inductive, <1>1, PTL

\* The timeline reports an isolation that happened, and reports it once.
THEOREM TimelineIsTrue == Spec => []ToldIsTrue
<1> SUFFICES ASSUME IInv PROVE ToldIsTrue
  BY Inductive, PTL
<1>0. told \subseteq [agent : Agents, finding : Findings, by : Reviewers \union {Detector}]
  BY DEF IInv, TypeOK
<1>1. ASSUME NEW t \in told PROVE Rung(agent[t.agent]) >= Rung("QUARANTINED")
  BY <1>1 DEF IInv, ToldTrue, ReviewTrue
<1>2. ASSUME NEW t \in told, NEW u \in told, t.agent = u.agent PROVE t = u
  <2>1. t.by = u.by
    BY <1>2 DEF IInv, ToldTrue, OneIsolates
  <2>2. t.finding = u.finding
    BY <2>1 DEF IInv, ToldTrue
  <2> QED
    BY <1>0, <1>2, <2>1, <2>2
<1> QED
  BY <1>1, <1>2 DEF ToldIsTrue

\* No agent goes back down the ladder, whoever asks and in whatever order.
THEOREM AgentsEscalate == Spec => OnlyEscalates
<1>1. IInv /\ [Next]_vars => [\A a \in Agents : Rung(agent'[a]) >= Rung(agent[a])]_vars
  BY Ascends
<1> QED
  BY Inductive, <1>1, PTL DEF Spec, OnlyEscalates

-----------------------------------------------------------------------------
(* What is kept of the log.  A finding that is not disturbed has had one   *)
(* batch at a time, and no read of it was taken for an empty document.     *)

Of(f) == {l \in Lines : FindingOf[l] = f}

\* The lines of f that its inspection has taken in, those whose batch has
\* written the finding, and those it has nothing left to write for.
Counted(f) == {l \in Of(f) : run[l].pc \notin {"waiting", "inspect", "inspecting"}}
Written(l) == run[l].pc \in {"analyse", "respond", "announce", "finish", "acked"}
Through(l) == run[l].pc \in {"finish", "acked"}

\* A document has kept a line; and it is one that waits for a person, or that
\* a person has decided.
KeepsLine(document, l) ==
  RiskOf[l] > 0 =>
    document.status # "absent" /\ l \in document.codes /\ RiskOf[l] <= document.risk
Waits(document, l) == RiskOf[l] > LOW => document.status \notin {"absent", "none"}

OneBatch(f) == \A k, l \in Of(f) : Underway(k) /\ Underway(l) => k = l

CountTrue(f) ==
  /\ IsFiniteSet(Counted(f))
  /\ Cardinality(Counted(f)) <= examined[f]
  /\ \A l \in Of(f) : run[l].pc = "inspecting" => run[l].count = examined[f]

\* What the row has kept, so has the copy a batch is about to write back.
LinesKept(f) ==
  \A l \in Of(f) : Written(l) =>
    /\ KeepsLine(row[f], l)
    /\ \A k \in Of(f) : run[k].pc = "write" => KeepsLine(run[k].row, l)

LinesWait(f) ==
  AgentOf[f] \notin measured =>
    \A l \in Of(f) :
      /\ run[l].pc \notin {"respond", "announce"}
      /\ Through(l) =>
           /\ Waits(row[f], l)
           /\ \A k \in Of(f) : run[k].pc = "write" => Waits(run[k].row, l)

Keeping(f) == OneBatch(f) /\ CountTrue(f) /\ LinesKept(f) /\ LinesWait(f)
KInv == \A f \in Findings \ disturbed : Keeping(f)

-----------------------------------------------------------------------------
LEMMA InitKeeping == Init => KInv
<1> SUFFICES ASSUME Init, NEW f \in Findings PROVE Keeping(f)
  BY DEF KInv
<1>1. \A l \in Lines : run[l].pc = "waiting"
  BY DEF Init, NoRun
<1>2. Counted(f) = {}
  BY <1>1 DEF Counted, Of
<1>3. CountTrue(f)
  <2>1. examined[f] = 0
    BY DEF Init
  <2> QED
    BY <1>1, <1>2, <2>1, FS_EmptySet DEF CountTrue, Of
<1> QED
  BY <1>1, <1>3 DEF Keeping, OneBatch, LinesKept, LinesWait, Of, Underway, Written, Through

\* A step that leaves a finding and its batches alone.
LEMMA KeepingStays ==
  ASSUME NEW f \in Findings, Keeping(f),
         row'[f] = row[f], examined'[f] = examined[f], measured' = measured,
         \A k \in Of(f) : run'[k] = run[k]
  PROVE  Keeping(f)'
<1>1. Counted(f)' = Counted(f)
  BY DEF Counted
<1>2. CountTrue(f)'
  BY <1>1 DEF Keeping, CountTrue
<1>3. OneBatch(f)'
  BY DEF Keeping, OneBatch, Underway
<1>4. LinesKept(f)' /\ LinesWait(f)'
  BY DEF Keeping, LinesKept, LinesWait, Written, Through
<1> QED
  BY <1>2, <1>3, <1>4 DEF Keeping

\* Lines that are counted no longer leave the count large enough.
LEMMA CountStays ==
  ASSUME TypeOK, NEW f \in Findings, CountTrue(f),
         Counted(f)' \subseteq Counted(f), examined'[f] = examined[f],
         \A k \in Of(f) : run'[k].pc = "inspecting" => run'[k].count = examined[f]
  PROVE  CountTrue(f)'
<1>0. examined[f] \in Nat
  BY DEF TypeOK
<1>1. /\ IsFiniteSet(Counted(f))
      /\ Cardinality(Counted(f)) <= examined[f]
  BY DEF CountTrue
<1>2. /\ IsFiniteSet(Counted(f)')
      /\ Cardinality(Counted(f)') <= Cardinality(Counted(f))
  BY <1>1, FS_Subset
<1>3. Cardinality(Counted(f)) \in Nat /\ Cardinality(Counted(f)') \in Nat
  BY <1>1, <1>2, FS_CardinalityType
<1>4. Cardinality(Counted(f)') <= examined[f]
  BY <1>0, <1>1, <1>2, <1>3
<1> QED
  BY <1>2, <1>4 DEF CountTrue

\* A batch that moves on without a word to the row or to the inspection.
LEMMA BatchMoves ==
  ASSUME TypeOK, NEW l \in Lines, NEW f, f = FindingOf[l], Keeping(f),
         row'[f] = row[f], examined'[f] = examined[f], measured' = measured,
         \A k \in Of(f) \ {l} : run'[k] = run[k],
         run'[l].pc # "waiting" => \A k \in Of(f) \ {l} : ~Underway(k),
         run[l].pc \in {"waiting", "inspect", "inspecting"} =>
           run'[l].pc \in {"waiting", "inspect", "inspecting"},
         run'[l].pc = "inspecting" => run'[l].count = examined[f],
         run'[l].pc = "write" => run'[l].row = row[f],
         Written(l)' => KeepsLine(row[f], l),
         Through(l)' /\ AgentOf[f] \notin measured => Waits(row[f], l),
         run'[l].pc \in {"respond", "announce"} => AgentOf[f] \in measured
  PROVE  Keeping(f)'
<1>0. f \in Findings /\ l \in Of(f)
  BY ConstantsAssumption DEF Of
<1>1. OneBatch(f)'
  BY DEF Keeping, OneBatch, Underway
<1>2. Counted(f)' \subseteq Counted(f)
  BY DEF Counted
<1>3. \A k \in Of(f) : run'[k].pc = "inspecting" => run'[k].count = examined[f]
  BY DEF Keeping, CountTrue
<1>4. CountTrue(f)'
  BY <1>0, <1>2, <1>3, CountStays DEF Keeping
<1>5. Written(l)' => \A k \in Of(f) : run'[k].pc # "write"
  BY DEF Written, Underway
<1>6. LinesKept(f)'
  BY <1>5 DEF Keeping, LinesKept, Written
<1>7. LinesWait(f)'
  BY <1>5 DEF Keeping, LinesWait, Written, Through
<1> QED
  BY <1>1, <1>4, <1>6, <1>7 DEF Keeping

\* The batch of a line is the only one of its finding that is under way.
LEMMA Others ==
  ASSUME NEW l \in Lines, Keeping(FindingOf[l]), Underway(l)
  PROVE  \A k \in Of(FindingOf[l]) \ {l} : ~Underway(k)
BY DEF Keeping, OneBatch, Of

\* The steps of a batch that write nothing.
LEMMA QuietBatchKeeps ==
  ASSUME TypeOK, NEW l \in Lines, FindingOf[l] \notin disturbed', Keeping(FindingOf[l]),
         \/ Deliver(l) \/ InspectionRead(l) \/ FindingRead(l)
         \/ Respond(l) \/ Announce(l) \/ Finish(l) \/ Fails(l) \/ Redelivered(l)
  PROVE  Keeping(FindingOf[l])'
<1> DEFINE f == FindingOf[l]
<1>0. /\ f \in Findings /\ l \in Of(f)
      /\ run \in [Lines -> Run] /\ run[l] \in Run
      /\ disturbed \subseteq Findings
  BY ConstantsAssumption DEF Of, TypeOK
<1>1. row' = row /\ examined' = examined /\ measured' = measured
  BY DEF Deliver, InspectionRead, FindingRead, Respond, Announce, Finish, Fails, Redelivered
<1>2. \A k \in Of(f) \ {l} : run'[k] = run[k]
  BY <1>0 DEF Deliver, Goto, InspectionRead, FindingRead, Respond, Announce, Finish, Fails,
              Redelivered, Of
<1>3. /\ Written(l) => KeepsLine(row[f], l)
      /\ Through(l) /\ AgentOf[f] \notin measured => Waits(row[f], l)
      /\ run[l].pc \in {"respond", "announce"} => AgentOf[f] \in measured
  BY <1>0 DEF Keeping, LinesKept, LinesWait
<1>4. CASE Deliver(l)
  <2>1. run[l].pc = "waiting" /\ run'[l].pc = "inspect"
    BY <1>0, <1>4 DEF Deliver, Goto, Run
  <2>2. \A k \in Of(f) \ {l} : ~Underway(k)
    BY <1>0, <1>4 DEF Deliver, Of
  <2> QED
    BY <1>0, <1>1, <1>2, <2>1, <2>2, BatchMoves DEF Written, Through
<1>5. CASE InspectionRead(l)
  <2>1. run' = [run EXCEPT ![l].pc = "inspecting", ![l].count = examined[f]]
    BY <1>0, <1>5 DEF InspectionRead
  <2>2. run[l].pc = "inspect" /\ run'[l].pc = "inspecting" /\ run'[l].count = examined[f]
    BY <1>0, <1>5, <2>1 DEF InspectionRead, Run
  <2>3. \A k \in Of(f) \ {l} : ~Underway(k)
    BY <2>2, Others DEF Underway
  <2> QED
    BY <1>0, <1>1, <1>2, <2>2, <2>3, BatchMoves DEF Written, Through
<1>6. CASE FindingRead(l)
  <2>1. run' = [run EXCEPT ![l].pc = "write", ![l].row = row[f]]
    BY <1>0, <1>6 DEF FindingRead
  <2>2. run[l].pc = "read" /\ run'[l].pc = "write" /\ run'[l].row = row[f]
    BY <1>0, <1>6, <2>1 DEF FindingRead, Run
  <2>3. \A k \in Of(f) \ {l} : ~Underway(k)
    BY <2>2, Others DEF Underway
  <2> QED
    BY <1>0, <1>1, <1>2, <2>2, <2>3, BatchMoves DEF Written, Through
<1>7. CASE Respond(l) \/ Announce(l)
  <2>1. run[l].pc \in {"respond", "announce"} /\ run'[l].pc \in {"announce", "finish"}
    <3>1. CASE Respond(l)
      BY <1>0, <3>1 DEF Respond, Run
    <3>2. CASE Announce(l)
      BY <1>0, <3>2 DEF Announce, Run
    <3> QED
      BY <1>7, <3>1, <3>2
  <2>2. \A k \in Of(f) \ {l} : ~Underway(k)
    BY <2>1, Others DEF Underway
  <2> QED
    BY <1>0, <1>1, <1>2, <1>3, <2>1, <2>2, BatchMoves DEF Written, Through
<1>8. CASE Finish(l)
  <2>1. run[l].pc = "finish" /\ run'[l].pc = "acked"
    BY <1>0, <1>8 DEF Finish, Acked, NoRun
  <2>2. \A k \in Of(f) \ {l} : ~Underway(k)
    BY <2>1, Others DEF Underway
  <2> QED
    BY <1>0, <1>1, <1>2, <1>3, <2>1, <2>2, BatchMoves DEF Written, Through
<1>9. CASE Fails(l) \/ Redelivered(l)
  <2>1. run'[l].pc = "waiting"
    BY <1>0, <1>9 DEF Fails, Redelivered, NoRun
  <2> QED
    BY <1>0, <1>1, <1>2, <2>1, BatchMoves DEF Written, Through, Underway
<1> QED
  BY <1>4, <1>5, <1>6, <1>7, <1>8, <1>9

\* The count that was read is the count that is written, and one more.
LEMMA InspectionKeeps ==
  ASSUME TypeOK, NEW l \in Lines, FindingOf[l] \notin disturbed', Keeping(FindingOf[l]),
         InspectionWritten(l)
  PROVE  Keeping(FindingOf[l])'
<1> DEFINE f == FindingOf[l]
<1>0. /\ f \in Findings /\ l \in Of(f)
      /\ run \in [Lines -> Run] /\ run[l] \in Run
      /\ examined \in [Findings -> Nat]
  BY ConstantsAssumption DEF Of, TypeOK
<1>1. row' = row /\ measured' = measured /\ run[l].pc = "inspecting"
  BY DEF InspectionWritten
<1>2. /\ run'[l].pc = IF RiskOf[l] = 0 THEN "finish" ELSE "read"
      /\ \A k \in Of(f) \ {l} : run'[k] = run[k]
  BY <1>0 DEF InspectionWritten, Run, Of
<1>3. \A k \in Of(f) \ {l} : ~Underway(k)
  BY <1>1, Others DEF Underway
<1>4. examined'[f] = examined[f] + 1
  BY <1>0, <1>1 DEF InspectionWritten, Keeping, CountTrue
<1>5. Counted(f)' = Counted(f) \union {l}
  BY <1>0, <1>2 DEF Counted
<1>6. CountTrue(f)'
  <2>1. /\ IsFiniteSet(Counted(f)) /\ Cardinality(Counted(f)) <= examined[f]
        /\ Cardinality(Counted(f)) \in Nat
    BY FS_CardinalityType DEF Keeping, CountTrue
  <2>2. l \notin Counted(f)
    BY <1>1 DEF Counted
  <2>3. /\ IsFiniteSet(Counted(f)')
        /\ Cardinality(Counted(f)') = Cardinality(Counted(f)) + 1
    BY <1>5, <2>1, <2>2, FS_AddElement
  <2>4. \A k \in Of(f) : run'[k].pc # "inspecting"
    BY <1>2, <1>3 DEF Underway
  <2> QED
    BY <1>0, <1>4, <2>1, <2>3, <2>4 DEF CountTrue
<1>7. RiskOf[l] = 0 => \A d \in Row : KeepsLine(d, l) /\ Waits(d, l)
  BY DEF KeepsLine, Waits, LOW
<1>8. \A k \in Of(f) : run'[k].pc # "write"
  BY <1>2, <1>3 DEF Underway
<1>9. OneBatch(f)'
  BY <1>3, <1>2 DEF OneBatch, Underway
<1>10. row[f] \in Row
  BY <1>0 DEF TypeOK
<1>11. LinesKept(f)'
  BY <1>0, <1>1, <1>2, <1>7, <1>8, <1>10 DEF Keeping, LinesKept, Written
<1>12. LinesWait(f)'
  BY <1>0, <1>1, <1>2, <1>7, <1>8, <1>10 DEF Keeping, LinesWait, Through
<1> QED
  BY <1>6, <1>9, <1>11, <1>12 DEF Keeping

\* What a merge keeps of the document it was merged into, and of its own line.
LEMMA MergeLosesNothing ==
  ASSUME NEW d \in Row, NEW l \in Lines
  PROVE  /\ KeepsLine(mergeFinding(d, Scored(l)), l)
         /\ \A k \in Lines : KeepsLine(d, k) => KeepsLine(mergeFinding(d, Scored(l)), k)
         /\ \A k \in Lines : Waits(d, k) => Waits(mergeFinding(d, Scored(l)), k)
<1>0. d.risk \in Nat /\ \A k \in Lines : RiskOf[k] \in Nat
  <2>1. d.risk \in Nat
    BY DEF Row, Risk
  <2>2. \A k \in Lines : RiskOf[k] \in Nat
    BY ConstantsAssumption DEF Risk
  <2> QED
    BY <2>1, <2>2
<1>1. Scored(l).codes = {l} /\ Scored(l).risk = RiskOf[l] /\ Scored(l).status = "none"
  BY DEF Scored, NoRow
<1>2. d.status = "absent" => mergeFinding(d, Scored(l)) = Scored(l)
  BY DEF mergeFinding
<1>3. d.status # "absent" =>
        /\ mergeFinding(d, Scored(l)).codes = d.codes \union {l}
        /\ mergeFinding(d, Scored(l)).risk = IF RiskOf[l] >= d.risk THEN RiskOf[l] ELSE d.risk
        /\ mergeFinding(d, Scored(l)).status = d.status
  BY <1>1 DEF mergeFinding
<1>4. KeepsLine(mergeFinding(d, Scored(l)), l)
  BY <1>0, <1>1, <1>2, <1>3 DEF KeepsLine
<1>5. ASSUME NEW k \in Lines, KeepsLine(d, k)
      PROVE  KeepsLine(mergeFinding(d, Scored(l)), k)
  BY <1>0, <1>3, <1>5 DEF KeepsLine
<1>6. ASSUME NEW k \in Lines, Waits(d, k)
      PROVE  Waits(mergeFinding(d, Scored(l)), k)
  <2>1. CASE RiskOf[k] > LOW
    BY <1>3, <1>6, <2>1 DEF Waits
  <2>2. CASE ~(RiskOf[k] > LOW)
    BY <2>2 DEF Waits
  <2> QED
    BY <2>1, <2>2
<1> QED
  BY <1>4, <1>5, <1>6

\* A batch that writes the row, and loses nothing of what it has.
LEMMA RowWritesKeep ==
  ASSUME TypeOK, NEW l \in Lines, NEW f, f = FindingOf[l], Keeping(f), Underway(l),
         examined' = examined, measured' = measured,
         \A k \in Of(f) \ {l} : run'[k] = run[k],
         Counted(f)' = Counted(f),
         Underway(l)', run'[l].pc \notin {"inspecting", "write"},
         run'[l].pc \in {"respond", "announce"} => AgentOf[f] \in measured,
         KeepsLine(row'[f], l),
         Through(l)' /\ AgentOf[f] \notin measured => Waits(row'[f], l),
         \A k \in Of(f) \ {l} :
           /\ Written(k) => KeepsLine(row'[f], k)
           /\ Through(k) /\ AgentOf[f] \notin measured => Waits(row'[f], k)
  PROVE  Keeping(f)'
<1>0. f \in Findings /\ l \in Of(f)
  BY ConstantsAssumption DEF Of
<1>1. \A k \in Of(f) \ {l} : ~Underway(k)
  BY <1>0, Others
<1>2. OneBatch(f)'
  BY <1>1 DEF OneBatch, Underway
<1>3. \A k \in Of(f) : run'[k].pc \notin {"inspecting", "write"}
  BY <1>1 DEF Underway
<1>4. CountTrue(f)'
  BY <1>0, <1>3, CountStays DEF Keeping
<1>5. \A k \in Of(f) : Written(k)' => KeepsLine(row'[f], k)
  BY DEF Written
<1>6. LinesKept(f)'
  BY <1>3, <1>5 DEF LinesKept
<1>7. LinesWait(f)'
  BY <1>0, <1>1, <1>3 DEF LinesWait, Through, Underway
<1> QED
  BY <1>2, <1>4, <1>6, <1>7 DEF Keeping

LEMMA WriteKeeps ==
  ASSUME TypeOK, NEW l \in Lines, FindingOf[l] \notin disturbed', Keeping(FindingOf[l]),
         FindingWritten(l)
  PROVE  Keeping(FindingOf[l])'
<1> DEFINE f == FindingOf[l]
<1>0. /\ f \in Findings /\ l \in Of(f)
      /\ run \in [Lines -> Run] /\ run[l] \in Run /\ run[l].row \in Row
      /\ row \in [Findings -> Row]
  <2>1. f \in Findings /\ l \in Of(f) /\ run \in [Lines -> Run] /\ row \in [Findings -> Row]
    BY ConstantsAssumption DEF Of, TypeOK
  <2> QED
    BY <2>1 DEF Run
<1>1. examined' = examined /\ measured' = measured /\ run[l].pc = "write"
  BY DEF FindingWritten
<1>2. /\ run'[l].pc = IF RiskOf[l] = LOW THEN "finish" ELSE "analyse"
      /\ \A k \in Of(f) \ {l} : run'[k] = run[k]
  BY <1>0 DEF FindingWritten, Goto, Run, Of
<1>3. row'[f] = mergeFinding(run[l].row, Scored(l))
  BY <1>0 DEF FindingWritten
<1>4. Counted(f)' = Counted(f)
  BY <1>0, <1>1, <1>2 DEF Counted
<1>5. KeepsLine(row'[f], l)
  BY <1>0, <1>3, MergeLosesNothing DEF KeepsLine
<1>6. Through(l)' => Waits(row'[f], l)
  BY <1>2 DEF Through, Waits, LOW
<1>7. ASSUME NEW k \in Of(f) \ {l}
      PROVE  /\ Written(k) => KeepsLine(row'[f], k)
             /\ Through(k) /\ AgentOf[f] \notin measured => Waits(row'[f], k)
  <2>1. Written(k) => KeepsLine(run[l].row, k)
    BY <1>0, <1>1 DEF Keeping, LinesKept
  <2>2. Through(k) /\ AgentOf[f] \notin measured => Waits(run[l].row, k)
    BY <1>0, <1>1 DEF Keeping, LinesWait
  <2> QED
    BY <1>0, <1>3, <2>1, <2>2, MergeLosesNothing DEF Of
<1> QED
  BY <1>0, <1>1, <1>2, <1>4, <1>5, <1>6, <1>7, RowWritesKeep DEF Underway

\* What is done with an answer, whatever it is.
LEMMA AnswerIs ==
  ASSUME NEW l \in Lines, Analysed(l)
  PROVE  \E hold \in BOOLEAN, response \in States \union {"none"} :
           /\ row' = [row EXCEPT ![FindingOf[l]].status = IF hold THEN "pending" ELSE "none",
                                 ![FindingOf[l]].response = response,
                                 ![FindingOf[l]].source = "analysed"]
           /\ run' = [run EXCEPT ![l].pc = IF hold THEN "finish" ELSE "respond",
                                 ![l].response = IF hold THEN "none" ELSE response]
<1>1. PICK answer \in Answers :
        LET response == IF answer = NoAnswer THEN fallbackResponse(RiskOf[l])
                        ELSE answer.response
            hold == needsHumanReview(answer)
        IN /\ row' = [row EXCEPT ![FindingOf[l]].status = IF hold THEN "pending" ELSE "none",
                                 ![FindingOf[l]].response = response,
                                 ![FindingOf[l]].source = "analysed"]
           /\ run' = [run EXCEPT ![l].pc = IF hold THEN "finish" ELSE "respond",
                                 ![l].response = IF hold THEN "none" ELSE response]
  BY DEF Analysed
<1> DEFINE response == IF answer = NoAnswer THEN fallbackResponse(RiskOf[l]) ELSE answer.response
<1> DEFINE hold == needsHumanReview(answer)
<1>2. response \in States
  BY StateNames, ConstantsAssumption DEF fallbackResponse
<1>3. hold \in BOOLEAN
  BY DEF needsHumanReview
<1> QED
  BY <1>1, <1>2, <1>3

\* The answer of the model, or the want of one: neither touches what was kept.
LEMMA AnswerKeeps ==
  ASSUME TypeOK, NEW l \in Lines, FindingOf[l] \notin disturbed', Keeping(FindingOf[l]),
         NotAnalysed(l) \/ Analysed(l)
  PROVE  Keeping(FindingOf[l])'
<1> DEFINE f == FindingOf[l]
<1>0. /\ f \in Findings /\ l \in Of(f)
      /\ run \in [Lines -> Run] /\ run[l] \in Run
      /\ row \in [Findings -> Row] /\ row[f] \in Row
      /\ disturbed \subseteq Findings
  BY ConstantsAssumption DEF Of, TypeOK
<1>1. examined' = examined /\ measured' = measured /\ run[l].pc = "analyse"
  BY DEF NotAnalysed, Analysed
<1>2. /\ run'[l].pc \in {"finish", "respond"}
      /\ run'[l].pc = "respond" => AgentOf[f] \in measured
      /\ \A k \in Of(f) \ {l} : run'[k] = run[k]
  <2>1. CASE NotAnalysed(l)
    BY <1>0, <2>1 DEF NotAnalysed, Goto, Run, Of
  <2>2. CASE Analysed(l)
    <3>1. PICK hold \in BOOLEAN, response \in States \union {"none"} :
            /\ row' = [row EXCEPT ![f].status = IF hold THEN "pending" ELSE "none",
                                  ![f].response = response,
                                  ![f].source = "analysed"]
            /\ run' = [run EXCEPT ![l].pc = IF hold THEN "finish" ELSE "respond",
                                  ![l].response = IF hold THEN "none" ELSE response]
      BY <2>2, AnswerIs
    <3>2. AgentOf[f] \in measured
      BY <2>2 DEF Analysed
    <3>3. run'[l].pc \in {"finish", "respond"}
      <4>1. CASE hold
        <5>1. run' = [run EXCEPT ![l].pc = "finish", ![l].response = "none"]
          BY <3>1, <4>1
        <5> QED
          BY <1>0, <5>1 DEF Run
      <4>2. CASE ~hold
        <5>1. run' = [run EXCEPT ![l].pc = "respond", ![l].response = response]
          BY <3>1, <4>2
        <5> QED
          BY <1>0, <5>1 DEF Run
      <4> QED
        BY <4>1, <4>2
    <3>4. \A k \in Of(f) \ {l} : run'[k] = run[k]
      BY <1>0, <3>1 DEF Of
    <3> QED
      BY <3>2, <3>3, <3>4
  <2> QED
    BY <2>1, <2>2
<1>3. /\ row'[f].codes = row[f].codes /\ row'[f].risk = row[f].risk
      /\ row'[f].status \in {"pending", "none"}
      /\ AgentOf[f] \notin measured => row'[f].status = "pending"
  <2>1. CASE NotAnalysed(l)
    <3>1. row' = [row EXCEPT ![f].status = "pending", ![f].source = "rules"]
      BY <1>0, <2>1 DEF NotAnalysed
    <3> QED
      BY <1>0, <3>1 DEF Row
  <2>2. CASE Analysed(l)
    <3>1. PICK hold \in BOOLEAN, response \in States \union {"none"} :
            /\ row' = [row EXCEPT ![f].status = IF hold THEN "pending" ELSE "none",
                                  ![f].response = response,
                                  ![f].source = "analysed"]
            /\ run' = [run EXCEPT ![l].pc = IF hold THEN "finish" ELSE "respond",
                                  ![l].response = IF hold THEN "none" ELSE response]
      BY <2>2, AnswerIs
    <3>2. AgentOf[f] \in measured
      BY <2>2 DEF Analysed
    <3> QED
      BY <1>0, <1>1, <3>1, <3>2 DEF Row
  <2> QED
    BY <2>1, <2>2
<1>4. Counted(f)' = Counted(f)
  BY <1>0, <1>1, <1>2 DEF Counted
<1>5. \A k \in Of(f) : Written(k) => KeepsLine(row'[f], k)
  <2>1. \A k \in Of(f) : Written(k) => KeepsLine(row[f], k)
    BY DEF Keeping, LinesKept
  <2> QED
    BY <1>3, <2>1 DEF KeepsLine
<1>6. Written(l)
  BY <1>1 DEF Written
<1>7. AgentOf[f] \notin measured => \A k \in Of(f) : Waits(row'[f], k)
  BY <1>3 DEF Waits
<1> QED
  BY <1>0, <1>1, <1>2, <1>4, <1>5, <1>6, <1>7, RowWritesKeep DEF Underway

\* The process dies: a batch it was at begins again.
LEMMA CrashKeeps ==
  ASSUME TypeOK, NEW f \in Findings, Keeping(f), Crash
  PROVE  Keeping(f)'
<1>0. \A k \in Of(f) : run[k] \in Run
  BY DEF TypeOK, Of
<1>1. row' = row /\ examined' = examined /\ measured' = measured
  BY DEF Crash
<1>2. \A k \in Of(f) :
        /\ Underway(k) => run'[k].pc = "waiting"
        /\ ~Underway(k) => run'[k] = run[k]
  BY DEF Crash, NoRun, Of
<1>3. \A k \in Of(f) : run'[k].pc \in {"waiting", "acked"}
  BY <1>2 DEF Underway
<1>4. Counted(f)' \subseteq Counted(f)
  BY <1>2, <1>3 DEF Counted
<1>5. CountTrue(f)'
  BY <1>1, <1>3, <1>4, CountStays DEF Keeping
<1>6. OneBatch(f)'
  BY <1>3 DEF OneBatch, Underway
<1>7. LinesKept(f)' /\ LinesWait(f)'
  BY <1>1, <1>2, <1>3 DEF Keeping, LinesKept, LinesWait, Written, Through
<1> QED
  BY <1>5, <1>6, <1>7 DEF Keeping

\* A review writes a decision, and nothing a batch has found.
LEMMA ReviewKeeps ==
  ASSUME IInv, NEW f \in Findings, Keeping(f), NEW r \in Reviewers, ReviewStep(r)
  PROVE  Keeping(f)'
<1>0. TypeOK /\ row \in [Findings -> Row] /\ row[f] \in Row
  BY DEF IInv, TypeOK
<1>1. run' = run /\ examined' = examined /\ measured' = measured
  BY DEF ReviewStep, ReviewReads, ReviewAsks, ReviewRecords, ReviewAnnounces, ReviewFails
<1>2. CASE row'[f] = row[f]
  BY <1>1, <1>2, KeepingStays
<1>3. CASE row'[f] # row[f]
  <2>1. ReviewRecords(r)
    BY <1>3 DEF ReviewStep, ReviewReads, ReviewAsks, ReviewAnnounces, ReviewFails
  <2>2. PICK g : row' = [row EXCEPT
          ![g].status = IF review[r].decision = "approve" THEN "approved" ELSE "rejected",
          ![g].reviewer = r]
    BY <2>1 DEF ReviewRecords
  <2>3. /\ row'[f].codes = row[f].codes /\ row'[f].risk = row[f].risk
        /\ row'[f].status \in {"approved", "rejected"}
    BY <1>0, <1>3, <2>2 DEF Row
  <2>4. CountTrue(f)' /\ OneBatch(f)'
    <3>1. Counted(f)' = Counted(f)
      BY <1>1 DEF Counted
    <3> QED
      BY <1>1, <3>1 DEF Keeping, CountTrue, OneBatch, Underway
  <2>5. LinesKept(f)'
    <3>1. \A k \in Of(f) : KeepsLine(row[f], k) => KeepsLine(row'[f], k)
      BY <2>3 DEF KeepsLine
    <3> QED
      BY <1>1, <3>1 DEF Keeping, LinesKept, Written
  <2>6. LinesWait(f)'
    <3>1. \A k \in Of(f) : Waits(row'[f], k)
      BY <2>3 DEF Waits
    <3> QED
      BY <1>1, <3>1 DEF Keeping, LinesWait, Through
  <2> QED
    BY <2>4, <2>5, <2>6 DEF Keeping
<1> QED
  BY <1>2, <1>3

LEMMA KeepingStep == IInv /\ KInv /\ [Next]_vars => KInv'
<1> SUFFICES ASSUME IInv, KInv, [Next]_vars, NEW f \in Findings, f \notin disturbed'
             PROVE  Keeping(f)'
  BY DEF KInv
<1>0. TypeOK
  BY DEF IInv
<1>1. ASSUME NEW l \in Lines, BatchStep(l) \/ Fails(l) \/ Redelivered(l)
      PROVE  Keeping(f)'
  <2>1. f \notin disturbed
    BY <1>1 DEF BatchStep, Deliver, InspectionRead, InspectionWritten, FindingRead,
                FindingWritten, NotAnalysed, Analysed, Respond, Announce, Finish, Fails, Redelivered
  <2>2. Keeping(f)
    BY <2>1 DEF KInv
  <2>3. CASE f = FindingOf[l]
    BY <1>0, <1>1, <2>2, <2>3, QuietBatchKeeps, InspectionKeeps, WriteKeeps, AnswerKeeps
       DEF BatchStep
  <2>4. CASE f # FindingOf[l]
    <3>1. row'[f] = row[f] /\ examined'[f] = examined[f] /\ measured' = measured
      BY <1>0, <1>1, <2>4
         DEF TypeOK, BatchStep, Deliver, InspectionRead, InspectionWritten, FindingRead,
             FindingWritten, NotAnalysed, Analysed, Respond, Announce, Finish, Fails, Redelivered
    <3>2. \A k \in Of(f) : k # l /\ k \in Lines
      BY <2>4 DEF Of
    <3>3. \A k \in Of(f) : run'[k] = run[k]
      BY <1>0, <1>1, <3>2
         DEF TypeOK, BatchStep, Deliver, Goto, InspectionRead, InspectionWritten, FindingRead,
             FindingWritten, NotAnalysed, Analysed, Respond, Announce, Finish, Fails, Redelivered
    <3> QED
      BY <2>2, <3>1, <3>3, KeepingStays
  <2> QED
    BY <2>3, <2>4
<1>2. CASE Crash
  BY <1>0, <1>2, CrashKeeps DEF Crash, KInv
<1>3. ASSUME NEW r \in Reviewers, ReviewStep(r)
      PROVE  Keeping(f)'
  <2>1. f \notin disturbed
    BY <1>3 DEF ReviewStep, ReviewReads, ReviewAsks, ReviewRecords, ReviewAnnounces, ReviewFails
  <2> QED
    BY <1>3, <2>1, ReviewKeeps DEF KInv
<1>4. CASE (\E a \in Agents : StoppedElsewhere(a)) \/ UNCHANGED vars
  <2>1. /\ f \notin disturbed /\ row' = row /\ examined' = examined
        /\ measured' = measured /\ run' = run
    BY <1>4 DEF StoppedElsewhere, vars
  <2> QED
    BY <2>1, KeepingStays DEF KInv
<1> QED
  BY <1>1, <1>2, <1>3, <1>4 DEF Next

LEMMA Keeps == Spec => []KInv
<1>1. Spec => []IInv
  BY Inductive
<1> QED
  BY <1>1, InitKeeping, KeepingStep, PTL DEF Spec

\* An acknowledged line is in its finding and in the inspection of its window,
\* whatever a later batch, a retry, a crash or a review writes.
THEOREM EvidenceHolds == Spec => []EvidenceIsKept
<1>1. IInv /\ KInv => EvidenceIsKept
  <2> SUFFICES ASSUME IInv, KInv, NEW f \in Findings \ disturbed
               PROVE  /\ Cardinality(Handled(f)) <= examined[f]
                      /\ \A l \in Handled(f) :
                           RiskOf[l] > 0 => l \in row[f].codes /\ RiskOf[l] <= row[f].risk
    BY DEF EvidenceIsKept
  <2>0. Keeping(f) /\ examined[f] \in Nat
    BY DEF KInv, IInv, TypeOK
  <2>1. Handled(f) \subseteq Counted(f)
    BY DEF Handled, Counted, Of
  <2>2. IsFiniteSet(Counted(f)) /\ Cardinality(Counted(f)) <= examined[f]
    BY <2>0 DEF Keeping, CountTrue
  <2>3. IsFiniteSet(Handled(f)) /\ Cardinality(Handled(f)) <= Cardinality(Counted(f))
    BY <2>1, <2>2, FS_Subset
  <2>4. Cardinality(Handled(f)) \in Nat /\ Cardinality(Counted(f)) \in Nat
    BY <2>2, <2>3, FS_CardinalityType
  <2>5. Cardinality(Handled(f)) <= examined[f]
    BY <2>0, <2>2, <2>3, <2>4
  <2>6. \A l \in Handled(f) : KeepsLine(row[f], l)
    BY <2>0 DEF Keeping, LinesKept, Handled, Of, Written
  <2> QED
    BY <2>5, <2>6 DEF KeepsLine
<1> QED
  BY <1>1, Inductive, Keeps, PTL

\* A finding of MEDIUM or above that no model could judge waits for a person,
\* or was decided by one, however many batches follow.
THEOREM UnjudgedHolds == Spec => []UnjudgedWaits
<1>1. KInv => UnjudgedWaits
  <2> SUFFICES ASSUME KInv, NEW f \in Findings \ disturbed, AgentOf[f] \notin measured,
                      NEW l \in Handled(f), RiskOf[l] > LOW
               PROVE  row[f].status \notin {"absent", "none"}
    BY DEF UnjudgedWaits
  <2>1. Waits(row[f], l)
    BY DEF KInv, Keeping, LinesWait, Handled, Of, Through
  <2> QED
    BY <2>1 DEF Waits
<1> QED
  BY <1>1, Keeps, PTL
=============================================================================
