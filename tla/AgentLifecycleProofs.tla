------------------------ MODULE AgentLifecycleProofs ------------------------
(***************************************************************************)
(* What holds of AgentLifecycle for any number of agents, steps, attempts, *)
(* overlapping executions and faults.                                      *)
(***************************************************************************)
EXTENDS AgentLifecycle, TLAPS

USE DEF Agents, Steps, AuditStep, AllSteps, Procs, history

-----------------------------------------------------------------------------
(* Values of the right type.                                               *)

LEMMA NotRunType == NotRun \in StepResult
BY DEF StepResult

LEMMA StartedType == StartedAgent \in Meta
BY NotRunType DEF StartedAgent, Meta, Statuses, StepResults

LEMMA IdleType == Idle \in Run
BY NotRunType, ConstantsAssumption
DEF Idle, Run, PCs, StepResults, ConstantsAssumption

LEMMA ReturnedType ==
  ASSUME NEW rows \in SUBSET Row
  PROVE  Returned(rows) \in Run /\ Scanning(rows) \in Run
BY IdleType DEF Returned, Scanning, Run, PCs

LEMMA ThrownType ==
  ASSUME NEW rows \in SUBSET Row, NEW p
  PROVE  Thrown(p, rows) \in Run
BY IdleType, ReturnedType DEF Thrown

LEMMA CleaningType ==
  ASSUME NEW rows \in SUBSET Row, NEW a \in Agents, NEW reason \in Reasons
  PROVE  Cleaning(rows, a, reason) \in Run
BY IdleType DEF Cleaning, Run, PCs

\* A record that is there is not the absent one.
LEMMA PresentMeta ==
  ASSUME NEW a \in Agents, meta \in [Agents -> Meta \union {NoMeta}], Present(a)
  PROVE  meta[a] \in Meta
BY DEF Present

LEMMA MetaPresent == \A m \in Meta : m # NoMeta
BY DEF Meta, NoMeta, Statuses

LEMMA WriteStatusType ==
  ASSUME NEW a \in Agents, NEW to \in Statuses, NEW reason \in Reasons \union {NoReason},
         meta \in [Agents -> Meta \union {NoMeta}]
  PROVE  WriteStatus(a, to, reason) \in [Agents -> Meta \union {NoMeta}]
<1>1. CASE Accepts(a, to)
  <2>1. meta[a] \in Meta
    BY <1>1, PresentMeta DEF Accepts
  <2>2. Moved(meta[a], to, reason) \in Meta
    BY <2>1 DEF Meta, Moved
  <2> QED BY <1>1, <2>2 DEF WriteStatus
<1>2. CASE ~Accepts(a, to)
  BY <1>2 DEF WriteStatus
<1> QED BY <1>1, <1>2

LEMMA MergedType ==
  ASSUME TypeOK, NEW p \in Procs, NEW done \in BOOLEAN,
         run[p].step \in AllSteps, ~LeftAlone(run[p].results[run[p].step])
  PROVE  Merged(p, done) \in StepResults
<1> DEFINE s == run[p].step
           r == run[p].results[s]
<1>1. run[p].results \in StepResults
  BY DEF TypeOK, Run
<1>2. r \in StepResult
  BY <1>1 DEF StepResults
<1>3. r.attempts + 1 \in 1 .. MaxAttempts
  BY <1>2, ConstantsAssumption
  DEF LeftAlone, Exhausted, StepResult, NotRun, ConstantsAssumption
<1>4. [status |-> IF done THEN "done" ELSE "failed", attempts |-> r.attempts + 1] \in StepResult
  BY <1>3 DEF StepResult
<1> QED BY <1>1, <1>4 DEF Merged, StepResults

-----------------------------------------------------------------------------
(* Type correctness.                                                       *)

LEMMA TypeInit == Init => TypeOK
<1> SUFFICES ASSUME Init PROVE TypeOK
  OBVIOUS
<1>1. meta \in [Agents -> Meta \union {NoMeta}]
  BY StartedType DEF Init
<1>2. run \in [Procs -> Run]
  BY IdleType DEF Init
<1>3. held \in [Agents -> SUBSET Steps]
  BY DEF Init
<1>4. due \in [Agents -> {"later", "soon", "past"}]
  BY ConstantsAssumption DEF Init, ConstantsAssumption
<1>5. events \in [Agents -> SUBSET {"AGENT_EXPIRED", "AGENT_REVOKED_SECURITY"}]
  BY DEF Init
<1>6. faults \in 0 .. MaxFaults /\ refused \in [Agents -> SUBSET Steps] /\ declared \subseteq Agents
  BY ConstantsAssumption DEF Init, ConstantsAssumption
<1> QED BY <1>1, <1>2, <1>3, <1>4, <1>5, <1>6 DEF TypeOK

\* The rows an execution works through are rows, and so is the one at hand.
LEMMA RowsType ==
  ASSUME TypeOK, NEW p \in Procs
  PROVE  /\ run[p].rows \in SUBSET Row
         /\ \A r \in run[p].rows : run[p].rows \ {r} \in SUBSET Row
         /\ \A r \in run[p].rows : r.agent \in Agents /\ r.reason \in Reasons
BY DEF TypeOK, Run, Row

LEMMA TypeSweep ==
  ASSUME TypeOK, NEW t \in Ticks, SweepStart(t) \/ Sweep(t)
  PROVE  TypeOK'
<1>1. CASE SweepStart(t)
  <2>1. SweepRows \in SUBSET Row
    BY DEF SweepRows
  <2> QED BY <1>1, <2>1, ReturnedType DEF SweepStart, TypeOK
<1>2. ASSUME NEW r \in run[t].rows, SweepWarn(t, r)
      PROVE  TypeOK'
  <2>1. meta' \in [Agents -> Meta \union {NoMeta}]
    BY <1>2, RowsType, WriteStatusType DEF SweepWarn, TypeOK, Statuses
  <2>2. run' \in [Procs -> Run]
    BY <1>2, RowsType, ReturnedType DEF SweepWarn, TypeOK
  <2> QED BY <1>2, <2>1, <2>2 DEF SweepWarn, TypeOK
<1>3. ASSUME NEW r \in run[t].rows, SweepWalk(t, r)
      PROVE  TypeOK'
  <2>1. meta' \in [Agents -> Meta \union {NoMeta}]
    BY <1>3, RowsType, WriteStatusType DEF SweepWalk, TypeOK, Statuses
  <2>2. (run[t].rows \ {r}) \union {[r EXCEPT !.task = "expire"]} \in SUBSET Row
    BY RowsType DEF Row, Tasks
  <2>3. run' \in [Procs -> Run]
    BY <1>3, <2>2, ReturnedType DEF SweepWalk, TypeOK
  <2> QED BY <1>3, <2>1, <2>3 DEF SweepWalk, TypeOK
<1>4. ASSUME NEW r \in run[t].rows, SweepExpire(t, r)
      PROVE  TypeOK'
  <2>1. meta' \in [Agents -> Meta \union {NoMeta}]
    BY <1>4, RowsType, WriteStatusType DEF SweepExpire, TypeOK, Statuses
  <2>2. "EXPIRED" \in Reasons
    BY DEF Reasons
  <2>3. run' \in [Procs -> Run]
    BY <1>4, <2>2, RowsType, CleaningType, ThrownType DEF SweepExpire, TypeOK
  <2> QED BY <1>4, <2>1, <2>3 DEF SweepExpire, TypeOK
<1>5. ASSUME NEW r \in run[t].rows, SweepRetry(t, r)
      PROVE  TypeOK'
  <2>1. run' \in [Procs -> Run]
    BY <1>5, RowsType, CleaningType DEF SweepRetry, TypeOK
  <2> QED BY <1>5, <2>1 DEF SweepRetry, TypeOK
<1> QED BY <1>1, <1>2, <1>3, <1>4, <1>5 DEF Sweep

LEMMA TypeSubscriber ==
  ASSUME TypeOK, NEW p \in Requests, IdentityDisabled(p) \/ Subscriber(p)
  PROVE  TypeOK'
<1>1. CASE IdentityDisabled(p)
  <2>1. ASSUME NEW a \in Agents, NEW task \in Tasks
        PROVE  [agent |-> a, reason |-> "IDENTITY_DISABLED", task |-> task] \in Row
    BY DEF Row, Reasons
  <2>2. DisabledRows \in SUBSET Row
    BY <2>1 DEF DisabledRows, Tasks
  <2> QED BY <1>1, <2>2, ReturnedType DEF IdentityDisabled, TypeOK
<1>2. ASSUME NEW r \in run[p].rows, DisableExpiring(p, r)
      PROVE  TypeOK'
  <2>1. meta' \in [Agents -> Meta \union {NoMeta}]
    BY <1>2, RowsType, WriteStatusType DEF DisableExpiring, TypeOK, Statuses
  <2>2. (run[p].rows \ {r}) \union {[r EXCEPT !.task = "disable"]} \in SUBSET Row
    BY RowsType DEF Row, Tasks
  <2>3. run' \in [Procs -> Run]
    BY <1>2, <2>2, RowsType, ReturnedType, ThrownType DEF DisableExpiring, TypeOK
  <2> QED BY <1>2, <2>1, <2>3 DEF DisableExpiring, TypeOK
<1>3. ASSUME NEW r \in run[p].rows, Disable(p, r)
      PROVE  TypeOK'
  <2>1. meta' \in [Agents -> Meta \union {NoMeta}]
    BY <1>3, RowsType, WriteStatusType DEF Disable, TypeOK, Statuses
  <2>2. run' \in [Procs -> Run]
    BY <1>3, RowsType, CleaningType, ThrownType DEF Disable, TypeOK
  <2> QED BY <1>3, <2>1, <2>2 DEF Disable, TypeOK
<1> QED BY <1>1, <1>2, <1>3 DEF Subscriber

LEMMA TypeRoute ==
  ASSUME TypeOK, NEW p \in Requests, NEW a \in Agents, Route(p, a)
  PROVE  TypeOK'
<1> USE DEF TypeOK, Statuses, Reasons
<1>0. {} \in SUBSET Row
  OBVIOUS
<1>1. CASE StopAgent(p, a)
  <2>1. meta' \in [Agents -> Meta \union {NoMeta}]
    BY <1>1, WriteStatusType DEF StopAgent
  <2>2. Cleaning({}, a, "USER_STOP") \in Run
    BY <1>0, CleaningType
  <2> QED BY <1>1, <2>1, <2>2 DEF StopAgent
<1>2. ASSUME NEW reason \in StopReasons, TransitionRevoked(p, a, reason)
      PROVE  TypeOK'
  <2>0. reason \in Reasons
    BY ConstantsAssumption DEF ConstantsAssumption
  <2>1. meta' \in [Agents -> Meta \union {NoMeta}]
    BY <1>2, <2>0, WriteStatusType DEF TransitionRevoked
  <2>2. Cleaning({}, a, reason) \in Run
    BY <1>0, <2>0, CleaningType
  <2> QED BY <1>2, <2>1, <2>2 DEF TransitionRevoked
<1>3. CASE TransitionQuarantined(p, a)
  <2>1. meta' \in [Agents -> Meta \union {NoMeta}]
    BY <1>3, WriteStatusType DEF TransitionQuarantined
  <2>2. [Idle EXCEPT !.pc = "issuance", !.agent = a] \in Run
    BY IdleType DEF Run, PCs
  <2> QED BY <1>3, <2>1, <2>2 DEF TransitionQuarantined
<1>4. CASE Reprovision(p, a)
  <2>1. Cleaning({}, a, "REPROVISION") \in Run
    BY <1>0, CleaningType
  <2> QED BY <1>4, <2>1 DEF Reprovision
<1> QED BY <1>1, <1>2, <1>3, <1>4 DEF Route

LEMMA TypeTransitionOther ==
  ASSUME TypeOK, NEW a \in Agents, NEW to \in Targets, NEW reason \in StopReasons,
         TransitionOther(a, to, reason)
  PROVE  TypeOK'
<1>1. to \in Statuses /\ reason \in Reasons
  BY ConstantsAssumption DEF ConstantsAssumption
<1>2. meta' \in [Agents -> Meta \union {NoMeta}]
  BY <1>1, WriteStatusType DEF TransitionOther, TypeOK
<1>3. declared' \subseteq Agents
  BY DEF TransitionOther, TypeOK
<1> QED BY <1>2, <1>3 DEF TransitionOther, TypeOK

LEMMA ReleasedType ==
  ASSUME TypeOK, NEW a, NEW s, NEW answer
  PROVE  Released(a, s, answer) \in [Agents -> SUBSET Steps]
BY DEF TypeOK, Released

LEMMA TypeQuarantine ==
  ASSUME TypeOK, NEW p \in Procs, QuarantineIssuance(p) \/ QuarantineBridge(p)
  PROVE  TypeOK'
<1>1. held' \in [Agents -> SUBSET Steps]
  BY ReleasedType DEF QuarantineIssuance, QuarantineBridge
<1>2. CASE QuarantineIssuance(p)
  <2>1. run[p] \in Run /\ run[p].agent \in Agents
    BY <1>2 DEF TypeOK, Run, QuarantineIssuance
  <2>2. [run[p] EXCEPT !.pc = "bridge"] \in Run
    BY <2>1 DEF Run, PCs
  <2>3. run' \in [Procs -> Run]
    BY <1>2, <2>2, IdleType DEF QuarantineIssuance, TypeOK
  <2> QED BY <1>1, <1>2, <2>3 DEF QuarantineIssuance, TypeOK
<1>3. CASE QuarantineBridge(p)
  <2>1. run' \in [Procs -> Run]
    BY <1>3, IdleType DEF QuarantineBridge, TypeOK
  <2> QED BY <1>1, <1>3, <2>1 DEF QuarantineBridge, TypeOK
<1> QED BY <1>2, <1>3

\* What an execution in the middle of a cleanup has at hand.
LEMMA InsideType ==
  ASSUME TypeOK, NEW p \in Procs, run[p].pc \notin {"idle", "rows"}
  PROVE  /\ run[p] \in Run
         /\ run[p].agent \in Agents
         /\ run[p].rows \in SUBSET Row
         /\ run[p].reason \in Reasons \union {NoReason}
         /\ run[p].results \in StepResults
         /\ run[p].step \in 1 .. AuditStep + 1
         /\ run[p].pc = "save" => run[p].step \in AllSteps
BY DEF TypeOK, Run

LEMMA TypeBookkeeping ==
  ASSUME TypeOK, NEW p \in Procs,
         AcquireLock(p) \/ LoadDomain(p) \/ WriteRevoked(p) \/ ReleaseLock(p)
  PROVE  TypeOK'
<1>1. CASE AcquireLock(p)
  <2>1. /\ run[p].agent \in Agents
        /\ run[p].rows \in SUBSET Row
        /\ run[p] \in Run
    BY <1>1, InsideType DEF AcquireLock
  <2>2. [run[p] EXCEPT !.pc = "load"] \in Run
    BY <2>1 DEF Run, PCs
  <2>3. CASE Present(run[p].agent) /\ meta[run[p].agent].cleanup_lock # "fresh"
    <3>1. meta[run[p].agent] \in Meta
      BY <2>1, <2>3, PresentMeta DEF TypeOK
    <3>2. [meta[run[p].agent] EXCEPT !.cleanup_lock = "fresh"] \in Meta
      BY <3>1 DEF Meta
    <3>3. meta' \in [Agents -> Meta \union {NoMeta}]
      BY <1>1, <2>3, <3>2 DEF AcquireLock, TypeOK
    <3>4. run' \in [Procs -> Run]
      BY <1>1, <2>3, <2>2 DEF AcquireLock, TypeOK
    <3> QED BY <1>1, <3>3, <3>4 DEF AcquireLock, TypeOK
  <2>4. CASE ~(Present(run[p].agent) /\ meta[run[p].agent].cleanup_lock # "fresh")
    BY <1>1, <2>1, <2>4, ReturnedType DEF AcquireLock, TypeOK
  <2> QED BY <2>3, <2>4
<1>2. CASE LoadDomain(p)
  <2>1. /\ run[p].agent \in Agents
        /\ run[p].rows \in SUBSET Row
        /\ run[p] \in Run
    BY <1>2, InsideType DEF LoadDomain
  <2>2. ASSUME Present(run[p].agent)
        PROVE  [run[p] EXCEPT !.pc = "revoke", !.results = meta[run[p].agent].results] \in Run
    <3>1. meta[run[p].agent] \in Meta
      BY <2>1, <2>2, PresentMeta DEF TypeOK
    <3>2. meta[run[p].agent].results \in StepResults
      BY <3>1 DEF Meta
    <3> QED BY <2>1, <3>2 DEF Run, PCs
  <2>3. run' \in [Procs -> Run]
    BY <1>2, <2>1, <2>2, ThrownType DEF LoadDomain, TypeOK
  <2> QED BY <1>2, <2>3 DEF LoadDomain, TypeOK
<1>3. CASE WriteRevoked(p)
  <2>1. /\ run[p].agent \in Agents
        /\ run[p].rows \in SUBSET Row
        /\ run[p].reason \in Reasons \union {NoReason}
        /\ run[p] \in Run
    BY <1>3, InsideType DEF WriteRevoked
  <2>2. 1 \in 1 .. AuditStep + 1
    BY ConstantsAssumption DEF ConstantsAssumption
  <2>3. [run[p] EXCEPT !.pc = "steps", !.step = 1] \in Run
    BY <2>1, <2>2 DEF Run, PCs
  <2>4. run' \in [Procs -> Run]
    BY <1>3, <2>1, <2>3, ThrownType DEF WriteRevoked, TypeOK
  <2>5. meta' \in [Agents -> Meta \union {NoMeta}]
    BY <1>3, <2>1, WriteStatusType DEF WriteRevoked, TypeOK, Statuses
  <2> QED BY <1>3, <2>4, <2>5 DEF WriteRevoked, TypeOK
<1>4. CASE ReleaseLock(p)
  <2>1. /\ run[p].agent \in Agents
        /\ run[p].rows \in SUBSET Row
    BY <1>4, InsideType DEF ReleaseLock
  <2>2. run' \in [Procs -> Run]
    BY <1>4, <2>1, ReturnedType DEF ReleaseLock, TypeOK
  <2>3. ASSUME Present(run[p].agent)
        PROVE  [meta[run[p].agent] EXCEPT !.cleanup_lock = "free"] \in Meta
    BY <2>1, <2>3, PresentMeta DEF TypeOK, Meta
  <2>4. meta' \in [Agents -> Meta \union {NoMeta}]
    BY <1>4, <2>3 DEF ReleaseLock, TypeOK
  <2>5. faults' \in 0 .. MaxFaults
    BY <1>4, ConstantsAssumption DEF ReleaseLock, TypeOK, ConstantsAssumption
  <2> QED BY <1>4, <2>2, <2>4, <2>5 DEF ReleaseLock, TypeOK
<1> QED BY <1>1, <1>2, <1>3, <1>4

LEMMA TypeSteps ==
  ASSUME TypeOK, NEW p \in Procs,
         SkipStep(p) \/ RunStep(p) \/ AuditPersist(p) \/ SaveResults(p)
  PROVE  TypeOK'
<1>0. /\ run[p] \in Run
      /\ run[p].agent \in Agents
      /\ run[p].rows \in SUBSET Row
      /\ run[p].results \in StepResults
      /\ run[p].step \in AllSteps
  BY InsideType DEF SkipStep, RunStep, AuditPersist, SaveResults, AtStep
<1>1. run[p].step + 1 \in 1 .. AuditStep + 1
  BY <1>0, ConstantsAssumption DEF ConstantsAssumption
<1>2. [run[p] EXCEPT !.pc = "steps", !.step = run[p].step + 1] \in Run
  BY <1>0, <1>1 DEF Run, PCs
<1>3. ASSUME NEW done \in BOOLEAN, ~LeftAlone(run[p].results[run[p].step])
      PROVE  [run[p] EXCEPT !.results = Merged(p, done), !.pc = "save"] \in Run
  <2>1. Merged(p, done) \in StepResults
    BY <1>0, <1>3, MergedType
  <2> QED BY <1>0, <2>1 DEF Run, PCs
<1>4. CASE SkipStep(p)
  <2>1. [run[p] EXCEPT !.step = run[p].step + 1] \in Run
    BY <1>0, <1>1, <1>4 DEF Run, PCs, SkipStep, AtStep
  <2> QED BY <1>4, <2>1 DEF SkipStep, TypeOK
<1>5. CASE RunStep(p)
  <2>1. PICK answer \in Answers :
          /\ held' = Released(run[p].agent, run[p].step, answer)
          /\ refused' \in {refused, [refused EXCEPT ![run[p].agent] =
                                       @ \union ({run[p].step} \intersect held[run[p].agent])]}
          /\ run' = [run EXCEPT ![p].results = Merged(p, Counts(answer)), ![p].pc = "save"]
    BY <1>5 DEF RunStep
  <2>2. run' = [run EXCEPT ![p] = [run[p] EXCEPT !.results = Merged(p, Counts(answer)),
                                                 !.pc = "save"]]
    BY <2>1
  <2>3. Counts(answer) \in BOOLEAN
    BY DEF Counts
  <2>4. run' \in [Procs -> Run]
    BY <1>3, <1>5, <2>2, <2>3 DEF TypeOK, RunStep
  <2>5. held' \in [Agents -> SUBSET Steps]
    BY <2>1, ReleasedType
  <2>6. refused' \in [Agents -> SUBSET Steps]
    <3>1. held \in [Agents -> SUBSET Steps] /\ refused \in [Agents -> SUBSET Steps]
      BY DEF TypeOK
    <3> QED BY <1>0, <2>1, <3>1
  <2> QED BY <1>5, <2>4, <2>5, <2>6 DEF RunStep, TypeOK
<1>6. CASE AuditPersist(p)
  <2> DEFINE done == ~Outstanding(run[p].results)
  <2>1. run' = [run EXCEPT ![p] = [run[p] EXCEPT !.results = Merged(p, done), !.pc = "save"]]
    BY <1>6 DEF AuditPersist
  <2>2. done \in BOOLEAN
    OBVIOUS
  <2>3. [run[p] EXCEPT !.results = Merged(p, done), !.pc = "save"] \in Run
    BY <1>3, <1>6, <2>2 DEF AuditPersist
  <2>4. run' \in [Procs -> Run]
    BY <2>1, <2>3 DEF TypeOK
  <2>5. meta' \in [Agents -> Meta \union {NoMeta}] /\ faults' \in 0 .. MaxFaults
    BY <1>6, ConstantsAssumption DEF AuditPersist, TypeOK, ConstantsAssumption
  <2> QED BY <1>6, <2>4, <2>5 DEF AuditPersist, TypeOK
<1>7. CASE SaveResults(p)
  <2>1. run' = [run EXCEPT ![p] = [run[p] EXCEPT !.pc = "steps", !.step = run[p].step + 1]]
    BY <1>7 DEF SaveResults
  <2>2. run' \in [Procs -> Run]
    BY <1>2, <2>1 DEF TypeOK
  <2>3. ASSUME Present(run[p].agent)
        PROVE  [meta[run[p].agent] EXCEPT !.results = run[p].results] \in Meta
    BY <1>0, <2>3, PresentMeta DEF TypeOK, Meta
  <2>4. meta' \in [Agents -> Meta \union {NoMeta}]
    BY <1>7, <2>3 DEF SaveResults, TypeOK
  <2>5. faults' \in 0 .. MaxFaults
    BY <1>7, ConstantsAssumption DEF SaveResults, TypeOK, ConstantsAssumption
  <2> QED BY <1>7, <2>2, <2>4, <2>5 DEF SaveResults, TypeOK
<1> QED BY <1>4, <1>5, <1>6, <1>7

LEMMA TypeEnd ==
  ASSUME TypeOK, NEW p \in Procs, WriteDestroyed(p) \/ Announce(p)
  PROVE  TypeOK'
<1>0. /\ run[p] \in Run
      /\ run[p].agent \in Agents
      /\ run[p].rows \in SUBSET Row
      /\ run[p].reason \in Reasons \union {NoReason}
  BY InsideType DEF WriteDestroyed, Announce
<1>1. CASE WriteDestroyed(p)
  <2>1. [run[p] EXCEPT !.pc = "announce"] \in Run
    BY <1>0 DEF Run, PCs
  <2>2. run' = [run EXCEPT ![p] = [run[p] EXCEPT !.pc = "announce"]]
    BY <1>1 DEF WriteDestroyed
  <2>3. meta' \in [Agents -> Meta \union {NoMeta}]
    BY <1>0, <1>1, WriteStatusType DEF WriteDestroyed, TypeOK, Statuses
  <2> QED BY <1>1, <2>1, <2>2, <2>3 DEF WriteDestroyed, TypeOK
<1>2. CASE Announce(p)
  <2>1. run' \in [Procs -> Run]
    BY <1>0, <1>2, ReturnedType, ThrownType DEF Announce, TypeOK
  <2>2. eventTypeFor(run[p].reason) \subseteq {"AGENT_EXPIRED", "AGENT_REVOKED_SECURITY"}
    BY DEF eventTypeFor
  <2>3. events' \in [Agents -> SUBSET {"AGENT_EXPIRED", "AGENT_REVOKED_SECURITY"}]
    BY <1>2, <2>2 DEF Announce, TypeOK
  <2>4. faults' \in 0 .. MaxFaults
    BY <1>2, ConstantsAssumption DEF Announce, TypeOK, ConstantsAssumption
  <2> QED BY <1>2, <2>1, <2>3, <2>4 DEF Announce, TypeOK
<1> QED BY <1>1, <1>2

LEMMA TypeWorld ==
  ASSUME TypeOK,
         \/ \E a \in Agents : Clock(a) \/ LockAges(a)
         \/ \E p \in Procs : Crash(p)
  PROVE  TypeOK'
<1>1. ASSUME NEW a \in Agents, Clock(a)
      PROVE  TypeOK'
  BY <1>1 DEF Clock, TypeOK
<1>2. ASSUME NEW a \in Agents, LockAges(a)
      PROVE  TypeOK'
  <2>1. ASSUME Present(a)
        PROVE  [meta[a] EXCEPT !.cleanup_lock = "old"] \in Meta
    BY <2>1, PresentMeta DEF TypeOK, Meta
  <2>2. meta' \in [Agents -> Meta \union {NoMeta}]
    BY <1>2, <2>1 DEF LockAges, TypeOK
  <2> QED BY <1>2, <2>2 DEF LockAges, TypeOK
<1>3. ASSUME NEW p \in Procs, Crash(p)
      PROVE  TypeOK'
  <2>1. faults' \in 0 .. MaxFaults
    BY <1>3, ConstantsAssumption DEF Crash, TypeOK, ConstantsAssumption
  <2>2. run' \in [Procs -> Run]
    BY <1>3, IdleType DEF Crash, TypeOK
  <2> QED BY <1>3, <2>1, <2>2 DEF Crash, TypeOK
<1> QED BY <1>1, <1>2, <1>3

LEMMA TypeStep == TypeOK /\ [Next]_vars => TypeOK'
<1> SUFFICES ASSUME TypeOK, [Next]_vars PROVE TypeOK'
  OBVIOUS
<1>1. CASE UNCHANGED vars
  BY <1>1 DEF vars, TypeOK
<1>2. CASE \E t \in Ticks : SweepStart(t)
  BY <1>2, TypeSweep
<1>3. CASE \E p \in Requests : IdentityDisabled(p)
  BY <1>3, TypeSubscriber
<1>4. CASE \E p \in Requests, a \in Agents : Route(p, a)
  BY <1>4, TypeRoute
<1>5. CASE \E a \in Agents, to \in Targets, reason \in StopReasons :
             TransitionOther(a, to, reason)
  BY <1>5, TypeTransitionOther
<1>6. CASE \E p \in Procs : Progress(p)
  <2>1. PICK p \in Procs : Progress(p)
    BY <1>6
  <2>2. CASE p \in Ticks /\ Sweep(p)
    BY <2>2, TypeSweep
  <2>3. CASE p \in Requests /\ Subscriber(p)
    BY <2>3, TypeSubscriber
  <2>4. CASE QuarantineIssuance(p) \/ QuarantineBridge(p)
    BY <2>4, TypeQuarantine
  <2>5. CASE Cleanup(p)
    BY <2>5, TypeBookkeeping, TypeSteps, TypeEnd DEF Cleanup
  <2> QED BY <2>1, <2>2, <2>3, <2>4, <2>5 DEF Progress
<1>7. CASE (\E a \in Agents : Clock(a) \/ LockAges(a)) \/ \E p \in Procs : Crash(p)
  BY <1>7, TypeWorld
<1> QED BY <1>1, <1>2, <1>3, <1>4, <1>5, <1>6, <1>7 DEF Next

\* Every variable keeps its type; no step is tried more often than
\* CLEANUP_MAX_ATTEMPTS, however many cleanups count attempts at once.
THEOREM TypeCorrect == Spec => []TypeOK
BY TypeInit, TypeStep, PTL DEF Spec

-----------------------------------------------------------------------------
(* Nothing outlives the record of an agent but what a service refused to   *)
(* end.  The inductive invariant says that a step said to be done, on the  *)
(* record or in any cleanup under way, is owed no more: since what is owed *)
(* only gets less, such a claim stays true however stale it gets, and that *)
(* is why overlapping cleanups do no harm of their own.                    *)

HIDE DEF Agents, Steps, AuditStep, AllSteps

Busy == {"revoke", "steps", "save", "announce"}

IInv ==
  /\ TypeOK
  /\ RecordIsTrue
  /\ RunIsTrue
  /\ NothingOutlivesTheRecord

-----------------------------------------------------------------------------
(* What a step has to keep.                                                *)

OwedShrinks == \A a \in Agents : owed'[a] \subseteq owed[a]

ResultsKept ==
  \A a \in Agents : Present(a)' => Present(a) /\ meta'[a].results = meta[a].results

EndsEarned ==
  \A a \in Agents :
     Ended(a)' \/ events'[a] # {} => Ended(a) \/ events[a] # {} \/ owed[a] = {}

\* An execution is outside the busy part of a cleanup, or where it was.
Unmoved(q) ==
  /\ run'[q].pc = run[q].pc
  /\ run'[q].agent = run[q].agent
  /\ run'[q].step = run[q].step
  /\ run'[q].results = run[q].results

Settled(q) == run'[q].pc \notin Busy \/ Unmoved(q)

LEMMA RecordKept ==
  ASSUME RecordIsTrue, OwedShrinks, ResultsKept
  PROVE  RecordIsTrue'
BY DEF RecordIsTrue, OwedShrinks, ResultsKept, Earned, Present, isDone

LEMMA EndKept ==
  ASSUME NothingOutlivesTheRecord, OwedShrinks, EndsEarned
  PROVE  NothingOutlivesTheRecord'
BY DEF NothingOutlivesTheRecord, OwedShrinks, EndsEarned

LEMMA CredibleKept ==
  ASSUME TypeOK, RunIsTrue, OwedShrinks, NEW q \in Procs, Settled(q)
  PROVE  Credible(run[q])'
<1>1. CASE run'[q].pc \notin Busy
  BY <1>1 DEF Busy, Credible
<1>2. CASE run'[q].pc \in Busy /\ Unmoved(q)
  <2>1. run[q].pc \in Busy
    BY <1>2 DEF Unmoved
  <2>2. run[q].agent \in Agents
    BY <2>1 DEF TypeOK, Run, Busy
  <2>3. owed'[run[q].agent] \subseteq owed[run[q].agent]
    BY <2>2 DEF OwedShrinks
  <2>4. Credible(run[q])
    BY DEF RunIsTrue
  <2>5. Earned(run[q].results, owed[run[q].agent])
    BY <2>1, <2>4 DEF Credible, Busy
  <2>6. Earned(run[q].results, owed'[run[q].agent])
    BY <2>3, <2>5 DEF Earned
  <2> QED BY <1>2, <2>1, <2>4, <2>6 DEF Unmoved, Credible, Passed, Busy
<1> QED BY <1>1, <1>2 DEF Settled

LEMMA WriteStatusKeeps ==
  ASSUME TypeOK, NEW a \in Agents, NEW to \in Statuses, NEW reason \in Reasons \union {NoReason},
         meta' = WriteStatus(a, to, reason), NEW b \in Agents
  PROVE  /\ Present(b)' <=> Present(b)
         /\ Present(b) => meta'[b].results = meta[b].results
         /\ Present(b) => \/ meta'[b].status = meta[b].status
                          \/ b = a /\ Accepts(a, to) /\ meta'[b].status = to
<1>1. CASE Accepts(a, to) /\ b = a
  <2>1. meta[a] \in Meta /\ Present(a)
    BY <1>1, PresentMeta DEF Accepts, TypeOK
  <2>2. meta'[a] = Moved(meta[a], to, reason)
    BY <1>1 DEF WriteStatus, TypeOK
  <2>3. Moved(meta[a], to, reason) \in Meta
    BY <2>1 DEF Meta, Moved
  <2>4. Present(a)'
    BY <2>2, <2>3, MetaPresent DEF Present
  <2>5. meta'[a].results = meta[a].results /\ meta'[a].status = to
    BY <2>1, <2>2 DEF Meta, Moved
  <2> QED BY <1>1, <2>1, <2>4, <2>5
<1>2. CASE ~(Accepts(a, to) /\ b = a)
  <2>1. meta'[b] = meta[b]
    BY <1>2 DEF WriteStatus, TypeOK
  <2> QED BY <2>1 DEF Present
<1> QED BY <1>1, <1>2

\* A status is written, other than DESTROYED, or none is, and whoever moves
\* ends up outside the busy part.
LEMMA Quiet ==
  ASSUME IInv, UNCHANGED <<held, refused, declared, events>>, \A q \in Procs : Settled(q), TypeOK',
         \/ UNCHANGED meta
         \/ \E a \in Agents, to \in Statuses \ {"DESTROYED"}, reason \in Reasons \union {NoReason} :
               meta' = WriteStatus(a, to, reason)
  PROVE  IInv'
<1> USE DEF IInv
<1>1. OwedShrinks
  BY DEF OwedShrinks, owed
<1>2. ResultsKept /\ EndsEarned
  <2>1. CASE UNCHANGED meta
    BY <2>1 DEF ResultsKept, EndsEarned, Ended, Present
  <2>2. ASSUME NEW a \in Agents, NEW to \in Statuses \ {"DESTROYED"},
               NEW reason \in Reasons \union {NoReason},
               meta' = WriteStatus(a, to, reason)
        PROVE  ResultsKept /\ EndsEarned
    <3>1. \A b \in Agents :
             /\ Present(b)' <=> Present(b)
             /\ Present(b) => meta'[b].results = meta[b].results
             /\ Present(b) => meta'[b].status \in {meta[b].status, to}
      BY <2>2, WriteStatusKeeps
    <3> QED BY <3>1 DEF ResultsKept, EndsEarned, Ended
  <2> QED BY <2>1, <2>2
<1>3. RunIsTrue'
  BY <1>1, CredibleKept DEF RunIsTrue
<1> QED BY <1>1, <1>2, <1>3, RecordKept, EndKept

LEMMA Outside ==
  ASSUME NEW rows, NEW p
  PROVE  /\ Scanning(rows).pc \notin Busy
         /\ Returned(rows).pc \notin Busy
         /\ Thrown(p, rows).pc \notin Busy
         /\ Idle.pc \notin Busy
         /\ \A a, reason : Cleaning(rows, a, reason).pc \notin Busy
BY DEF Scanning, Returned, Thrown, Idle, Cleaning, Busy

\* One execution moves to a place outside the busy part.
LEMMA OneSettles ==
  ASSUME TypeOK, NEW p \in Procs, NEW r, r.pc \notin Busy, run' = [run EXCEPT ![p] = r],
         NEW q \in Procs
  PROVE  Settled(q)
BY DEF TypeOK, Settled, Unmoved

LEMMA SafeSweep ==
  ASSUME IInv, TypeOK', NEW t \in Ticks, SweepStart(t) \/ Sweep(t)
  PROVE  IInv'
<1> USE DEF Statuses
<1>0. TypeOK
  BY DEF IInv
<1>1. CASE SweepStart(t)
  <2>1. \A q \in Procs : Settled(q)
    BY <1>0, <1>1, Outside, OneSettles DEF SweepStart
  <2> QED BY <1>1, <2>1, Quiet DEF SweepStart
<1>2. ASSUME NEW r \in run[t].rows, SweepWarn(t, r)
      PROVE  IInv'
  <2>1. \A q \in Procs : Settled(q)
    BY <1>0, <1>2, Outside, OneSettles DEF SweepWarn
  <2> QED BY <1>0, <1>2, <2>1, Quiet, RowsType DEF SweepWarn
<1>3. ASSUME NEW r \in run[t].rows, SweepWalk(t, r)
      PROVE  IInv'
  <2>1. \A q \in Procs : Settled(q)
    BY <1>0, <1>3, Outside, OneSettles DEF SweepWalk
  <2> QED BY <1>0, <1>3, <2>1, Quiet, RowsType DEF SweepWalk
<1>4. ASSUME NEW r \in run[t].rows, SweepExpire(t, r)
      PROVE  IInv'
  <2> DEFINE rest == run[t].rows \ {r}
             next == IF Present(r.agent) THEN Cleaning(rest, r.agent, "EXPIRED")
                                         ELSE Thrown(t, rest)
  <2>1. run' = [run EXCEPT ![t] = next]
    BY <1>4 DEF SweepExpire
  <2>2. next.pc \notin Busy
    BY Outside
  <2>3. \A q \in Procs : Settled(q)
    BY <1>0, <2>1, <2>2, OneSettles
  <2> QED BY <1>0, <1>4, <2>3, Quiet, RowsType DEF SweepExpire
<1>5. ASSUME NEW r \in run[t].rows, SweepRetry(t, r)
      PROVE  IInv'
  <2>1. \A q \in Procs : Settled(q)
    BY <1>0, <1>5, Outside, OneSettles DEF SweepRetry
  <2> QED BY <1>5, <2>1, Quiet DEF SweepRetry
<1> QED BY <1>1, <1>2, <1>3, <1>4, <1>5 DEF Sweep

LEMMA SafeSubscriber ==
  ASSUME IInv, TypeOK', NEW p \in Requests, IdentityDisabled(p) \/ Subscriber(p)
  PROVE  IInv'
<1> USE DEF Statuses
<1>0. TypeOK
  BY DEF IInv
<1>1. CASE IdentityDisabled(p)
  <2>1. \A q \in Procs : Settled(q)
    BY <1>0, <1>1, Outside, OneSettles DEF IdentityDisabled
  <2> QED BY <1>1, <2>1, Quiet DEF IdentityDisabled
<1>2. ASSUME NEW r \in run[p].rows, DisableExpiring(p, r)
      PROVE  IInv'
  <2> DEFINE rest == run[p].rows \ {r}
             next == IF Accepts(r.agent, "EXPIRED")
                     THEN Scanning(rest \union {[r EXCEPT !.task = "disable"]})
                     ELSE Thrown(p, rest)
  <2>1. run' = [run EXCEPT ![p] = next]
    BY <1>2 DEF DisableExpiring
  <2>2. next.pc \notin Busy
    BY Outside
  <2>3. \A q \in Procs : Settled(q)
    BY <1>0, <2>1, <2>2, OneSettles
  <2> QED BY <1>0, <1>2, <2>3, Quiet, RowsType DEF DisableExpiring
<1>3. ASSUME NEW r \in run[p].rows, Disable(p, r)
      PROVE  IInv'
  <2> DEFINE rest == run[p].rows \ {r}
             next == IF Present(r.agent) THEN Cleaning(rest, r.agent, r.reason)
                                         ELSE Thrown(p, rest)
  <2>1. run' = [run EXCEPT ![p] = next]
    BY <1>3 DEF Disable
  <2>2. next.pc \notin Busy
    BY Outside
  <2>3. \A q \in Procs : Settled(q)
    BY <1>0, <2>1, <2>2, OneSettles
  <2> QED BY <1>0, <1>3, <2>3, Quiet, RowsType DEF Disable
<1> QED BY <1>1, <1>2, <1>3 DEF Subscriber

LEMMA SafeRoute ==
  ASSUME IInv, TypeOK', NEW p \in Requests, NEW a \in Agents, Route(p, a)
  PROVE  IInv'
<1> USE DEF Statuses, Reasons
<1>0. TypeOK
  BY DEF IInv
<1>1. CASE StopAgent(p, a)
  <2>1. \A q \in Procs : Settled(q)
    BY <1>0, <1>1, Outside, OneSettles DEF StopAgent
  <2> QED BY <1>1, <2>1, Quiet DEF StopAgent
<1>2. ASSUME NEW reason \in StopReasons, TransitionRevoked(p, a, reason)
      PROVE  IInv'
  <2>1. \A q \in Procs : Settled(q)
    BY <1>0, <1>2, Outside, OneSettles DEF TransitionRevoked
  <2>2. reason \in Reasons
    BY ConstantsAssumption DEF ConstantsAssumption
  <2> QED BY <1>2, <2>1, <2>2, Quiet DEF TransitionRevoked
<1>3. CASE TransitionQuarantined(p, a)
  <2>1. [Idle EXCEPT !.pc = "issuance", !.agent = a].pc \notin Busy
    BY DEF Busy, Idle
  <2>2. \A q \in Procs : Settled(q)
    BY <1>0, <1>3, <2>1, OneSettles DEF TransitionQuarantined
  <2> QED BY <1>3, <2>2, Quiet DEF TransitionQuarantined
<1>4. CASE Reprovision(p, a)
  <2>1. \A q \in Procs : Settled(q)
    BY <1>0, <1>4, Outside, OneSettles DEF Reprovision
  <2> QED BY <1>4, <2>1, Quiet DEF Reprovision
<1> QED BY <1>1, <1>2, <1>3, <1>4 DEF Route

LEMMA SafeTransitionOther ==
  ASSUME IInv, TypeOK', NEW a \in Agents, NEW to \in Targets, NEW reason \in StopReasons,
         TransitionOther(a, to, reason)
  PROVE  IInv'
<1>0. TypeOK /\ to \in Statuses /\ reason \in Reasons
  BY ConstantsAssumption DEF ConstantsAssumption, IInv
<1>1. \A q \in Procs : Settled(q)
  BY DEF TransitionOther, Settled, Unmoved
<1>2. CASE to # "DESTROYED"
  BY <1>0, <1>1, <1>2, Quiet DEF TransitionOther
<1>3. CASE to = "DESTROYED"
  <2>1. OwedShrinks
    BY DEF TransitionOther, OwedShrinks, owed
  <2>2. \A b \in Agents :
           /\ Present(b)' <=> Present(b)
           /\ Present(b) => meta'[b].results = meta[b].results
           /\ Present(b) => meta'[b].status = meta[b].status \/ b = a
    BY <1>0, WriteStatusKeeps DEF TransitionOther
  <2>3. declared' = declared \union {a} /\ events' = events
    BY <1>3 DEF TransitionOther
  <2>4. ResultsKept /\ EndsEarned
    BY <2>2, <2>3 DEF ResultsKept, EndsEarned, Ended
  <2>5. RunIsTrue'
    BY <1>0, <1>1, <2>1, CredibleKept DEF RunIsTrue, IInv
  <2> QED BY <2>1, <2>4, <2>5, RecordKept, EndKept DEF IInv
<1> QED BY <1>2, <1>3

LEMMA SafeWorld ==
  ASSUME IInv, TypeOK',
         \/ \E a \in Agents : Clock(a) \/ LockAges(a)
         \/ \E p \in Procs : Crash(p)
  PROVE  IInv'
<1>0. TypeOK
  BY DEF IInv
<1>1. ASSUME NEW a \in Agents, Clock(a)
      PROVE  IInv'
  <2>1. \A q \in Procs : Settled(q)
    BY <1>1 DEF Clock, Settled, Unmoved
  <2> QED BY <1>1, <2>1, Quiet DEF Clock
<1>2. ASSUME NEW a \in Agents, LockAges(a)
      PROVE  IInv'
  <2>1. \A q \in Procs : Settled(q)
    BY <1>0, <1>2 DEF LockAges, TypeOK, Run, Settled, Unmoved
  <2>2. ResultsKept /\ EndsEarned
    <3>1. \A b \in Agents : Present(b) =>
             LET m == [meta[b] EXCEPT !.cleanup_lock = "old"] IN
             m \in Meta /\ m.results = meta[b].results /\ m.status = meta[b].status
      BY <1>0, PresentMeta DEF TypeOK, Meta
    <3>2. \A b \in Agents : Present(b)' <=> Present(b)
      BY <1>0, <1>2, <3>1, MetaPresent DEF LockAges, TypeOK, Present
    <3>3. \A b \in Agents : Present(b) =>
             meta'[b].results = meta[b].results /\ meta'[b].status = meta[b].status
      BY <1>0, <1>2, <3>1 DEF LockAges, TypeOK
    <3> QED BY <1>2, <3>2, <3>3 DEF LockAges, ResultsKept, EndsEarned, Ended
  <2>3. OwedShrinks
    BY <1>2 DEF LockAges, OwedShrinks, owed
  <2>4. RunIsTrue'
    BY <1>0, <2>1, <2>3, CredibleKept DEF RunIsTrue, IInv
  <2> QED BY <2>2, <2>3, <2>4, RecordKept, EndKept DEF IInv
<1>3. ASSUME NEW p \in Procs, Crash(p)
      PROVE  IInv'
  <2>1. \A q \in Procs : Settled(q)
    BY <1>0, <1>3, Outside, OneSettles DEF Crash
  <2> QED BY <1>3, <2>1, Quiet DEF Crash
<1> QED BY <1>1, <1>2, <1>3

-----------------------------------------------------------------------------
(* The calls that end something, and the cleanup.                          *)

\* What a call, or the refusal of one, does to what is owed.
OwedLess(a, s) == owed' \in {owed, [owed EXCEPT ![a] = @ \ {s}]}

LEMMA ReleasedOwed ==
  ASSUME TypeOK, NEW a \in Agents, NEW s, NEW answer, held' = Released(a, s, answer),
         UNCHANGED refused
  PROVE  OwedLess(a, s)
<1>1. CASE Takes(answer)
  <2>1. held' = [held EXCEPT ![a] = @ \ {s}]
    BY <1>1 DEF Released
  <2>2. \A b \in Agents : owed'[b] = [owed EXCEPT ![a] = @ \ {s}][b]
    BY <2>1 DEF TypeOK, owed
  <2>3. owed' = [owed EXCEPT ![a] = @ \ {s}]
    BY <2>2 DEF owed
  <2> QED BY <2>3 DEF OwedLess
<1>2. CASE ~Takes(answer)
  BY <1>2 DEF Released, OwedLess, owed
<1> QED BY <1>1, <1>2

LEMMA RunStepOwed ==
  ASSUME TypeOK, NEW a \in Agents, NEW s, NEW answer, held' = Released(a, s, answer),
         refused' = IF answer = "swallowed"
                    THEN [refused EXCEPT ![a] = @ \union ({s} \intersect held[a])]
                    ELSE refused
  PROVE  /\ OwedLess(a, s)
         /\ Counts(answer) => s \notin owed'[a]
<1>1. CASE answer = "swallowed"
  <2>1. held' = held /\ refused' = [refused EXCEPT ![a] = @ \union ({s} \intersect held[a])]
    BY <1>1 DEF Released, Takes
  <2>2. \A b \in Agents : owed'[b] = [owed EXCEPT ![a] = @ \ {s}][b]
    BY <2>1 DEF TypeOK, owed
  <2>3. owed' = [owed EXCEPT ![a] = @ \ {s}]
    BY <2>2 DEF owed
  <2>4. s \notin owed'[a]
    BY <2>3 DEF owed
  <2> QED BY <2>3, <2>4 DEF OwedLess
<1>2. CASE answer # "swallowed"
  <2>1. OwedLess(a, s)
    BY <1>2, ReleasedOwed
  <2>2. ASSUME Counts(answer) PROVE s \notin owed'[a]
    <3>1. held' = [held EXCEPT ![a] = @ \ {s}]
      BY <1>2, <2>2 DEF Released, Counts, Takes
    <3> QED BY <3>1 DEF TypeOK, owed
  <2> QED BY <2>1, <2>2
<1> QED BY <1>1, <1>2

LEMMA OwedLessShrinks ==
  ASSUME NEW a \in Agents, NEW s, OwedLess(a, s)
  PROVE  OwedShrinks
BY DEF OwedLess, OwedShrinks, owed

\* One execution moves, and what it carries is true where it arrives.
LEMMA OneMoves ==
  ASSUME TypeOK, RunIsTrue, OwedShrinks, NEW p \in Procs,
         \A q \in Procs \ {p} : run'[q] = run[q],
         Credible(run[p])'
  PROVE  RunIsTrue'
<1>1. \A q \in Procs \ {p} : Settled(q)
  BY DEF Settled, Unmoved
<1> QED BY <1>1, CredibleKept DEF RunIsTrue

\* Records whose lock alone may change.
LEMMA LockOnly ==
  ASSUME TypeOK, NEW a \in Agents, NEW lock \in {"free", "fresh", "old"},
         UNCHANGED <<events, declared>>,
         \/ UNCHANGED meta
         \/ Present(a) /\ meta' = [meta EXCEPT ![a].cleanup_lock = lock]
  PROVE  ResultsKept /\ EndsEarned
<1>1. CASE UNCHANGED meta
  BY <1>1 DEF ResultsKept, EndsEarned, Ended, Present
<1>2. CASE Present(a) /\ meta' = [meta EXCEPT ![a].cleanup_lock = lock]
  <2> DEFINE m == [meta[a] EXCEPT !.cleanup_lock = lock]
  <2>1. m \in Meta /\ m.results = meta[a].results /\ m.status = meta[a].status
    BY <1>2, PresentMeta DEF TypeOK, Meta
  <2>2. meta' = [meta EXCEPT ![a] = m]
    BY <1>2
  <2> HIDE DEF m
  <2>3. \A b \in Agents : Present(b)' <=> Present(b)
    BY <1>2, <2>1, <2>2, MetaPresent DEF TypeOK, Present
  <2>4. \A b \in Agents :
           meta'[b].results = meta[b].results /\ meta'[b].status = meta[b].status
    BY <2>1, <2>2 DEF TypeOK
  <2> QED BY <2>3, <2>4 DEF ResultsKept, EndsEarned, Ended
<1> QED BY <1>1, <1>2

LEMMA SafeQuarantine ==
  ASSUME IInv, TypeOK', NEW p \in Procs, QuarantineIssuance(p) \/ QuarantineBridge(p)
  PROVE  IInv'
<1>0. TypeOK
  BY DEF IInv
<1>1. OwedShrinks
  <2>1. run[p].agent \in Agents
    BY <1>0, InsideType DEF QuarantineIssuance, QuarantineBridge
  <2> QED BY <1>0, <2>1, ReleasedOwed, OwedLessShrinks DEF QuarantineIssuance, QuarantineBridge
<1>2. meta' = meta /\ events' = events /\ declared' = declared
  BY DEF QuarantineIssuance, QuarantineBridge
<1>3. ResultsKept /\ EndsEarned
  BY <1>2 DEF ResultsKept, EndsEarned, Ended, Present
<1>4. /\ run'[p].pc \in {"idle", "bridge"}
      /\ \A q \in Procs \ {p} : run'[q] = run[q]
  BY <1>0 DEF QuarantineIssuance, QuarantineBridge, TypeOK, Run, Idle
<1>5. Credible(run[p])'
  BY <1>4 DEF Credible
<1>6. RunIsTrue'
  BY <1>0, <1>1, <1>4, <1>5, OneMoves DEF IInv
<1> QED BY <1>1, <1>3, <1>6, RecordKept, EndKept DEF IInv

LEMMA SafeBookkeeping ==
  ASSUME IInv, TypeOK', NEW p \in Procs,
         AcquireLock(p) \/ LoadDomain(p) \/ WriteRevoked(p) \/ ReleaseLock(p)
  PROVE  IInv'
<1> DEFINE a == run[p].agent
<1>0. TypeOK /\ RunIsTrue
  BY DEF IInv
<1>1. a \in Agents /\ run[p] \in Run /\ run[p].reason \in Reasons \union {NoReason}
  BY <1>0, InsideType DEF AcquireLock, LoadDomain, WriteRevoked, ReleaseLock
<1>2. OwedShrinks
  BY DEF AcquireLock, LoadDomain, WriteRevoked, ReleaseLock, OwedShrinks, owed
<1>3. \A q \in Procs \ {p} : run'[q] = run[q]
  BY <1>0 DEF AcquireLock, LoadDomain, WriteRevoked, ReleaseLock, TypeOK
<1>4. ResultsKept /\ EndsEarned
  <2>1. CASE AcquireLock(p)
    BY <1>0, <1>1, <2>1, LockOnly DEF AcquireLock
  <2>2. CASE LoadDomain(p)
    BY <2>2 DEF LoadDomain, ResultsKept, EndsEarned, Ended, Present
  <2>3. CASE WriteRevoked(p)
    <3>1. \A b \in Agents :
             /\ Present(b)' <=> Present(b)
             /\ Present(b) => meta'[b].results = meta[b].results
             /\ Present(b) => meta'[b].status \in {meta[b].status, "REVOKED"}
      BY <1>0, <1>1, <2>3, WriteStatusKeeps DEF WriteRevoked, Statuses
    <3> QED BY <2>3, <3>1 DEF WriteRevoked, ResultsKept, EndsEarned, Ended
  <2>4. CASE ReleaseLock(p)
    BY <1>0, <1>1, <2>4, LockOnly DEF ReleaseLock
  <2> QED BY <2>1, <2>2, <2>3, <2>4
<1>5. Credible(run[p])'
  <2>1. CASE AcquireLock(p)
    <3>1. \/ run'[p] = [run[p] EXCEPT !.pc = "load"]
          \/ run'[p] = Returned(run[p].rows)
      BY <1>0, <2>1 DEF AcquireLock, TypeOK
    <3>2. run'[p].pc = "load" \/ run'[p].pc \notin Busy
      BY <1>1, <3>1, Outside DEF Run
    <3> QED BY <3>2 DEF Credible, Busy
  <2>2. CASE LoadDomain(p)
    <3>1. CASE Present(a)
      <4>1. run'[p] = [run[p] EXCEPT !.pc = "revoke", !.results = meta[a].results]
        BY <1>0, <2>2, <3>1 DEF LoadDomain, TypeOK
      <4>2. /\ run'[p].pc = "revoke"
            /\ run'[p].agent = a
            /\ run'[p].results = meta[a].results
        BY <1>1, <4>1 DEF Run
      <4>3. Earned(meta[a].results, owed[a])
        BY <1>1, <3>1 DEF IInv, RecordIsTrue
      <4> QED BY <2>2, <4>2, <4>3 DEF LoadDomain, Credible, owed
    <3>2. CASE ~Present(a)
      BY <1>0, <2>2, <3>2, Outside DEF LoadDomain, TypeOK, Credible, Busy
    <3> QED BY <3>1, <3>2
  <2>3. CASE WriteRevoked(p)
    <3>1. CASE Present(a)
      <4>1. run'[p] = [run[p] EXCEPT !.pc = "steps", !.step = 1]
        BY <1>0, <2>3, <3>1 DEF WriteRevoked, TypeOK
      <4>2. /\ run'[p].pc = "steps"
            /\ run'[p].agent = a
            /\ run'[p].step = 1
            /\ run'[p].results = run[p].results
        BY <1>1, <4>1 DEF Run
      <4>3. Earned(run[p].results, owed[a])
        BY <1>0, <2>3 DEF WriteRevoked, RunIsTrue, Credible
      <4>4. \A s \in AllSteps : ~Passed(run'[p], s)
        BY <4>2, ConstantsAssumption
        DEF Passed, AllSteps, Steps, AuditStep, ConstantsAssumption
      <4> QED BY <2>3, <4>2, <4>3, <4>4 DEF WriteRevoked, Credible, owed
    <3>2. CASE ~Present(a)
      BY <1>0, <2>3, <3>2, Outside DEF WriteRevoked, TypeOK, Credible, Busy
    <3> QED BY <3>1, <3>2
  <2>4. CASE ReleaseLock(p)
    BY <1>0, <2>4, Outside DEF ReleaseLock, TypeOK, Credible, Busy
  <2> QED BY <2>1, <2>2, <2>3, <2>4
<1>6. RunIsTrue'
  BY <1>0, <1>2, <1>3, <1>5, OneMoves
<1> QED BY <1>2, <1>4, <1>6, RecordKept, EndKept DEF IInv

LEMMA TriedWhenLeftAlone ==
  ASSUME NEW result \in StepResult, LeftAlone(result)
  PROVE  result # NotRun
BY ConstantsAssumption DEF LeftAlone, isDone, Exhausted, NotRun, ConstantsAssumption

LEMMA SafeSkip ==
  ASSUME IInv, TypeOK', NEW p \in Procs, SkipStep(p)
  PROVE  IInv'
<1> DEFINE r == run[p]
<1>0. /\ TypeOK
      /\ r \in Run
      /\ r.results \in StepResults
      /\ r.step \in AllSteps
      /\ r.pc = "steps"
      /\ Credible(r)
  BY InsideType DEF IInv, SkipStep, AtStep, RunIsTrue
<1>1. /\ run'[p].pc = "steps"
      /\ run'[p].agent = r.agent
      /\ run'[p].step = r.step + 1
      /\ run'[p].results = r.results
      /\ \A q \in Procs \ {p} : run'[q] = run[q]
  BY <1>0 DEF SkipStep, TypeOK, Run
<1>2. OwedShrinks /\ ResultsKept /\ EndsEarned
  BY DEF SkipStep, OwedShrinks, owed, ResultsKept, EndsEarned, Ended, Present
<1>3. r.results[r.step] # NotRun
  BY <1>0, TriedWhenLeftAlone DEF SkipStep, StepResults
<1>4. ASSUME NEW s \in AllSteps, s < r.step + 1
      PROVE  r.results[s] # NotRun
  <2>1. s = r.step \/ s < r.step
    BY <1>0, <1>4, ConstantsAssumption
    DEF AllSteps, Steps, AuditStep, ConstantsAssumption
  <2> QED BY <1>0, <1>3, <2>1 DEF Credible, Passed
<1>5. Credible(run[p])'
  BY <1>0, <1>1, <1>4 DEF SkipStep, Credible, Passed, owed
<1>6. RunIsTrue'
  BY <1>0, <1>1, <1>2, <1>5, OneMoves DEF IInv
<1> QED BY <1>2, <1>6, RecordKept, EndKept DEF IInv

\* The list after a try, where the step at hand has just been given its result.
LEMMA MergedResults ==
  ASSUME TypeOK, NEW p \in Procs, NEW done \in BOOLEAN, run[p].results \in StepResults,
         run[p].step \in AllSteps, NEW s \in AllSteps
  PROVE  /\ s # run[p].step => Merged(p, done)[s] = run[p].results[s]
         /\ s = run[p].step => /\ isDone(Merged(p, done)[s]) <=> done
                               /\ Merged(p, done)[s] # NotRun
<1>1. CASE s # run[p].step
  BY <1>1 DEF Merged, StepResults
<1>2. CASE s = run[p].step
  <2>1. Merged(p, done)[s] = [status |-> IF done THEN "done" ELSE "failed",
                              attempts |-> run[p].results[s].attempts + 1]
    BY <1>2 DEF Merged, StepResults
  <2> QED BY <1>2, <2>1 DEF isDone, NotRun
<1> QED BY <1>1, <1>2

\* After a try an execution stands at "save", its list merged.
LEMMA TryMoves ==
  ASSUME IInv, OwedShrinks, NEW p \in Procs, NEW done \in BOOLEAN, AtStep(p),
         run' = [run EXCEPT ![p].results = Merged(p, done), ![p].pc = "save"],
         run[p].step \in Steps /\ done => run[p].step \notin owed'[run[p].agent],
         run[p].step = AuditStep /\ done => owed[run[p].agent] = {}
  PROVE  RunIsTrue'
<1> DEFINE r == run[p]
<1>0. /\ TypeOK
      /\ r \in Run
      /\ r.agent \in Agents
      /\ r.results \in StepResults
      /\ r.step \in AllSteps
      /\ r.pc = "steps"
      /\ Credible(r)
  BY InsideType DEF IInv, AtStep, RunIsTrue
<1>1. run'[p] = [r EXCEPT !.results = Merged(p, done), !.pc = "save"]
  BY <1>0 DEF TypeOK
<1>2. /\ run'[p].pc = "save"
      /\ run'[p].agent = r.agent
      /\ run'[p].step = r.step
      /\ run'[p].results = Merged(p, done)
  <2>1. r \in Run
    BY <1>0
  <2> QED BY <1>1, <2>1 DEF Run
<1>3. \A q \in Procs \ {p} : run'[q] = run[q]
  BY <1>0 DEF TypeOK
<1>4. owed'[r.agent] \subseteq owed[r.agent]
  BY <1>0 DEF OwedShrinks
<1>5. Earned(r.results, owed'[r.agent])
  BY <1>0, <1>4 DEF Credible, Earned
<1>6. Earned(Merged(p, done), owed'[r.agent])
  BY <1>0, <1>4, <1>5, MergedResults, ConstantsAssumption
  DEF Earned, AllSteps
<1>7. \A s \in AllSteps : s < r.step \/ s = r.step => Merged(p, done)[s] # NotRun
  BY <1>0, MergedResults DEF Credible, Passed
<1>8. Credible(run[p])'
  BY <1>2, <1>6, <1>7 DEF Credible, Passed
<1> QED BY <1>0, <1>3, <1>8, OneMoves DEF IInv

LEMMA SafeRunStep ==
  ASSUME IInv, TypeOK', NEW p \in Procs, RunStep(p)
  PROVE  IInv'
<1>0. TypeOK
  BY DEF IInv
<1>1. AtStep(p) /\ run[p].step \in Steps /\ run[p].agent \in Agents
  BY <1>0, InsideType DEF RunStep, AtStep
<1>2. PICK answer \in Answers :
        /\ held' = Released(run[p].agent, run[p].step, answer)
        /\ refused' = IF answer = "swallowed"
                      THEN [refused EXCEPT ![run[p].agent] =
                              @ \union ({run[p].step} \intersect held[run[p].agent])]
                      ELSE refused
        /\ run' = [run EXCEPT ![p].results = Merged(p, Counts(answer)), ![p].pc = "save"]
  BY DEF RunStep
<1>3. /\ OwedLess(run[p].agent, run[p].step)
      /\ Counts(answer) => run[p].step \notin owed'[run[p].agent]
  BY <1>0, <1>1, <1>2, RunStepOwed
<1>4. OwedShrinks
  BY <1>1, <1>3, OwedLessShrinks
<1>5. run[p].step # AuditStep
  BY <1>1, ConstantsAssumption DEF Steps, AuditStep, ConstantsAssumption
<1>6. Counts(answer) \in BOOLEAN
  BY DEF Counts
<1>7. RunIsTrue'
  BY <1>1, <1>2, <1>3, <1>4, <1>5, <1>6, TryMoves
<1>8. ResultsKept /\ EndsEarned
  BY DEF RunStep, ResultsKept, EndsEarned, Ended, Present
<1> QED BY <1>4, <1>7, <1>8, RecordKept, EndKept DEF IInv

LEMMA SafeAuditPersist ==
  ASSUME IInv, TypeOK', NEW p \in Procs, AuditPersist(p)
  PROVE  IInv'
<1> DEFINE r == run[p]
           a == run[p].agent
           done == ~Outstanding(r.results)
<1>0. /\ TypeOK
      /\ AtStep(p) /\ r.step = AuditStep /\ r.pc = "steps"
      /\ a \in Agents
      /\ r.results \in StepResults
      /\ Credible(r)
  BY InsideType DEF IInv, AuditPersist, AtStep, RunIsTrue
<1>1. ASSUME done
      PROVE  owed[a] = {}
  <2>1. ASSUME NEW s \in Steps
        PROVE  s \notin owed[a]
    <3>1. s \in AllSteps /\ s < r.step
      BY <1>0, ConstantsAssumption DEF AllSteps, Steps, AuditStep, ConstantsAssumption
    <3>2. r.results[s] # NotRun /\ r.results[s] \in StepResult
      BY <1>0, <3>1 DEF Credible, Passed, StepResults
    <3>3. isDone(r.results[s])
      BY <1>1, <3>2 DEF Outstanding, StepResult, isDone
    <3> QED BY <1>0, <3>3 DEF Credible, Earned
  <2>2. owed[a] \subseteq Steps
    BY <1>0 DEF TypeOK, owed
  <2> QED BY <2>1, <2>2
<1>2. OwedShrinks
  BY DEF AuditPersist, OwedShrinks, owed
<1>3. run' = [run EXCEPT ![p].results = Merged(p, done), ![p].pc = "save"]
  BY DEF AuditPersist
<1>4. r.step \notin Steps
  BY <1>0, ConstantsAssumption DEF Steps, AuditStep, ConstantsAssumption
<1>5. RunIsTrue'
  <2> HIDE DEF done
  <2>1. done \in BOOLEAN
    BY DEF done
  <2> QED BY <1>0, <1>1, <1>2, <1>3, <1>4, <2>1, TryMoves
<1>6. ResultsKept /\ EndsEarned
  <2>1. CASE UNCHANGED meta
    BY <2>1 DEF AuditPersist, ResultsKept, EndsEarned, Ended, Present
  <2>2. CASE done /\ meta' = [meta EXCEPT ![a] = NoMeta]
    <3>1. \A b \in Agents :
             meta'[b] = meta[b] \/ (meta'[b] = NoMeta /\ owed[b] = {})
      BY <1>0, <1>1, <2>2 DEF TypeOK
    <3> QED BY <2>2, <3>1
            DEF AuditPersist, ResultsKept, EndsEarned, Ended, Present
  <2> QED BY <2>1, <2>2 DEF AuditPersist
<1> QED BY <1>2, <1>5, <1>6, RecordKept, EndKept DEF IInv

LEMMA SafeSaveResults ==
  ASSUME IInv, TypeOK', NEW p \in Procs, SaveResults(p)
  PROVE  IInv'
<1> DEFINE r == run[p]
<1>0. /\ TypeOK
      /\ r \in Run
      /\ r.pc = "save"
      /\ r.agent \in Agents
      /\ r.results \in StepResults
      /\ r.step \in AllSteps
      /\ Credible(r)
  BY InsideType DEF IInv, SaveResults, RunIsTrue
<1>1. OwedShrinks
  BY DEF SaveResults, OwedShrinks, owed
<1>2. run'[p] = [r EXCEPT !.pc = "steps", !.step = r.step + 1]
  BY <1>0 DEF SaveResults, TypeOK
<1>3. /\ run'[p].pc = "steps"
      /\ run'[p].agent = r.agent
      /\ run'[p].step = r.step + 1
      /\ run'[p].results = r.results
  <2>1. r \in Run
    BY <1>0
  <2> QED BY <1>2, <2>1 DEF Run
<1>4. \A q \in Procs \ {p} : run'[q] = run[q]
  BY <1>0 DEF SaveResults, TypeOK
<1>5. ASSUME NEW s \in AllSteps, s < r.step + 1
      PROVE  r.results[s] # NotRun
  <2>1. s = r.step \/ s < r.step
    BY <1>0, <1>5, ConstantsAssumption DEF AllSteps, Steps, AuditStep, ConstantsAssumption
  <2> QED BY <1>0, <2>1 DEF Credible, Passed
<1>6. Credible(run[p])'
  BY <1>0, <1>3, <1>5 DEF SaveResults, Credible, Passed, owed
<1>7. RunIsTrue'
  BY <1>0, <1>1, <1>4, <1>6, OneMoves DEF IInv
<1>8. RecordIsTrue' /\ EndsEarned
  <2>1. CASE UNCHANGED meta
    BY <2>1 DEF SaveResults, IInv, RecordIsTrue, EndsEarned, Ended, Present, owed
  <2>2. CASE Present(r.agent) /\ meta' = [meta EXCEPT ![r.agent].results = r.results]
    <3> DEFINE m == [meta[r.agent] EXCEPT !.results = r.results]
    <3>1. m \in Meta /\ m.results = r.results /\ m.status = meta[r.agent].status
      BY <1>0, <2>2, PresentMeta DEF TypeOK, Meta
    <3>2. meta' = [meta EXCEPT ![r.agent] = m]
      BY <2>2
    <3> HIDE DEF m
    <3>3. \A b \in Agents :
             \/ meta'[b] = meta[b]
             \/ b = r.agent /\ meta'[b] = m
      BY <1>0, <3>2 DEF TypeOK
    <3>4. Earned(m.results, owed[r.agent])
      BY <1>0, <3>1 DEF Credible
    <3>5. RecordIsTrue'
      BY <3>3, <3>4 DEF SaveResults, IInv, RecordIsTrue, Earned, Present, isDone, owed
    <3>6. EndsEarned
      BY <2>2, <3>1, <3>3, MetaPresent DEF SaveResults, EndsEarned, Ended, Present
    <3> QED BY <3>5, <3>6
  <2> QED BY <2>1, <2>2 DEF SaveResults
<1> QED BY <1>1, <1>7, <1>8, EndKept DEF IInv

LEMMA SafeEnd ==
  ASSUME IInv, TypeOK', NEW p \in Procs, WriteDestroyed(p) \/ Announce(p)
  PROVE  IInv'
<1> DEFINE r == run[p]
<1>0. /\ TypeOK
      /\ r \in Run
      /\ r.agent \in Agents
      /\ r.rows \in SUBSET Row
      /\ r.reason \in Reasons \union {NoReason}
      /\ r.pc \in {"steps", "announce"}
      /\ Credible(r)
  BY InsideType DEF IInv, WriteDestroyed, Announce, RunIsTrue
<1>1. OwedShrinks
  BY DEF WriteDestroyed, Announce, OwedShrinks, owed
<1>2. isDone(r.results[AuditStep])
  BY <1>0 DEF WriteDestroyed, Announce, Complete, AllSteps, Credible
<1>3. owed[r.agent] = {}
  BY <1>0, <1>2 DEF Credible, Earned
<1>4. \A q \in Procs \ {p} : run'[q] = run[q]
  BY <1>0 DEF WriteDestroyed, Announce, TypeOK
<1>5. CASE WriteDestroyed(p)
  <2>1. run'[p] = [r EXCEPT !.pc = "announce"]
    BY <1>0, <1>5 DEF WriteDestroyed, TypeOK
  <2>2. /\ run'[p].pc = "announce"
        /\ run'[p].agent = r.agent
        /\ run'[p].results = r.results
    <3>1. r \in Run
      BY <1>0
    <3> QED BY <2>1, <3>1 DEF Run
  <2>3. Credible(run[p])'
    BY <1>0, <1>2, <1>5, <2>2 DEF WriteDestroyed, Credible, owed
  <2>4. RunIsTrue'
    BY <1>0, <1>1, <1>4, <2>3, OneMoves DEF IInv
  <2>5. \A b \in Agents :
           /\ Present(b)' <=> Present(b)
           /\ Present(b) => meta'[b].results = meta[b].results
           /\ Present(b) => meta'[b].status = meta[b].status \/ b = r.agent
    BY <1>0, <1>5, WriteStatusKeeps DEF WriteDestroyed, Statuses
  <2>6. ResultsKept /\ EndsEarned
    BY <1>3, <1>5, <2>5 DEF WriteDestroyed, ResultsKept, EndsEarned, Ended
  <2> QED BY <1>1, <2>4, <2>6, RecordKept, EndKept DEF IInv
<1>6. CASE Announce(p)
  <2>1. run'[p].pc \notin Busy
    BY <1>0, <1>6, Outside DEF Announce, TypeOK
  <2>2. RunIsTrue'
    BY <1>0, <1>1, <1>4, <2>1, OneMoves DEF IInv, Credible, Busy
  <2>3. \A b \in Agents : events'[b] = events[b] \/ b = r.agent
    BY <1>0, <1>6 DEF Announce, TypeOK
  <2>4. ResultsKept /\ EndsEarned
    BY <1>3, <1>6, <2>3 DEF Announce, ResultsKept, EndsEarned, Ended, Present
  <2> QED BY <1>1, <2>2, <2>4, RecordKept, EndKept DEF IInv
<1> QED BY <1>5, <1>6

-----------------------------------------------------------------------------
(* The theorems.                                                           *)

LEMMA SafeInit == Init => IInv
<1> SUFFICES ASSUME Init PROVE IInv
  OBVIOUS
<1>1. TypeOK
  BY TypeInit
<1>2. \A a \in Agents : meta[a] = StartedAgent
  BY DEF Init
<1>3. \A a \in Agents, s \in AllSteps : ~isDone(meta[a].results[s])
  BY <1>2 DEF StartedAgent, NotRun, isDone
<1>4. RecordIsTrue
  BY <1>3 DEF RecordIsTrue, Earned, AllSteps
<1>5. RunIsTrue
  BY DEF Init, RunIsTrue, Credible, Idle
<1>6. NothingOutlivesTheRecord
  <2>1. StartedAgent # NoMeta /\ StartedAgent.status = "ACTIVE"
    BY StartedType, MetaPresent DEF StartedAgent
  <2> QED BY <1>2, <2>1 DEF Init, NothingOutlivesTheRecord, Ended, Present
<1> QED BY <1>1, <1>4, <1>5, <1>6 DEF IInv

LEMMA SafeStep == IInv /\ [Next]_vars => IInv'
<1> SUFFICES ASSUME IInv, [Next]_vars PROVE IInv'
  OBVIOUS
<1>0. TypeOK'
  BY TypeStep DEF IInv
<1>1. CASE UNCHANGED vars
  <2>1. \A q \in Procs : Settled(q)
    BY <1>1 DEF vars, Settled, Unmoved
  <2> QED BY <1>0, <1>1, <2>1, Quiet DEF vars
<1>2. CASE \E t \in Ticks : SweepStart(t)
  BY <1>0, <1>2, SafeSweep
<1>3. CASE \E p \in Requests : IdentityDisabled(p)
  BY <1>0, <1>3, SafeSubscriber
<1>4. CASE \E p \in Requests, a \in Agents : Route(p, a)
  BY <1>0, <1>4, SafeRoute
<1>5. CASE \E a \in Agents, to \in Targets, reason \in StopReasons :
             TransitionOther(a, to, reason)
  BY <1>0, <1>5, SafeTransitionOther
<1>6. CASE \E p \in Procs : Progress(p)
  <2>1. PICK p \in Procs : Progress(p)
    BY <1>6
  <2>2. CASE p \in Ticks /\ Sweep(p)
    BY <1>0, <2>2, SafeSweep
  <2>3. CASE p \in Requests /\ Subscriber(p)
    BY <1>0, <2>3, SafeSubscriber
  <2>4. CASE QuarantineIssuance(p) \/ QuarantineBridge(p)
    BY <1>0, <2>4, SafeQuarantine
  <2>5. CASE Cleanup(p)
    BY <1>0, <2>5, SafeBookkeeping, SafeSkip, SafeRunStep, SafeAuditPersist,
       SafeSaveResults, SafeEnd DEF Cleanup
  <2> QED BY <2>1, <2>2, <2>3, <2>4, <2>5 DEF Progress
<1>7. CASE (\E a \in Agents : Clock(a) \/ LockAges(a)) \/ \E p \in Procs : Crash(p)
  BY <1>0, <1>7, SafeWorld
<1> QED BY <1>1, <1>2, <1>3, <1>4, <1>5, <1>6, <1>7 DEF Next

\* Whatever answers the calls get and whatever the transition route is asked
\* for: of an agent whose record is gone, or that a cleanup has called
\* DESTROYED, or whose end has been announced, nothing is left but what a
\* service refused to end while the step counted that as success.
THEOREM NothingOutlives == Spec => []NothingOutlivesTheRecord
<1>1. IInv => NothingOutlivesTheRecord
  BY DEF IInv
<1> QED BY <1>1, SafeInit, SafeStep, PTL DEF Spec

\* A step recorded as done, on the record or in a cleanup under way, has been
\* done, or was refused by its service when it was tried.
THEOREM ResultsAreTrue == Spec => []ClaimsAreTrue
<1>1. IInv => ClaimsAreTrue
  BY DEF IInv, ClaimsAreTrue
<1> QED BY <1>1, SafeInit, SafeStep, PTL DEF Spec

-----------------------------------------------------------------------------
(* The Lifecycle Manager keeps the promise of AgentLife, and writes the    *)
(* reason of a stop once.  Both rest on what a step may do to a record:    *)
(* one agent's at a time, and its status only along the table.             *)

\* What becomes of the record of a, in a step that touches it.
Deleted(a) == ~Present(a)'

SameDeclared(a) == a \in declared' <=> a \in declared

Touched(a) ==
  /\ Present(a) /\ Present(a)'
  /\ meta'[a].status = meta[a].status
  /\ meta'[a].cleanup_reason = meta[a].cleanup_reason
  /\ SameDeclared(a)

Written(a) ==
  /\ Present(a) /\ Present(a)'
  /\ CanMove(meta[a].status, meta'[a].status)

RecordStep ==
  /\ UNCHANGED <<held, refused>>
  /\ \E a \in Agents :
        /\ \A b \in Agents \ {a} : meta'[b] = meta[b] /\ SameDeclared(b)
        /\ Deleted(a) \/ Touched(a) \/ Written(a)

CallStep ==
  /\ UNCHANGED <<meta, declared>>
  /\ \E a \in Agents : \E s : OwedLess(a, s)

LEMMA WriteIsRecordStep ==
  ASSUME TypeOK, UNCHANGED <<held, refused>>, NEW a \in Agents, NEW to \in Statuses,
         NEW reason \in Reasons \union {NoReason}, meta' = WriteStatus(a, to, reason),
         \/ UNCHANGED declared
         \/ Accepts(a, to) /\ declared' = declared \union {a}
  PROVE  RecordStep
<1>1. \A b \in Agents \ {a} : meta'[b] = meta[b] /\ SameDeclared(b)
  BY DEF WriteStatus, TypeOK, SameDeclared
<1>2. CASE Accepts(a, to)
  <2>1. meta[a] \in Meta /\ Present(a)
    BY <1>2, PresentMeta DEF Accepts, TypeOK
  <2>2. meta'[a] = Moved(meta[a], to, reason)
    BY <1>2 DEF WriteStatus, TypeOK
  <2>3. meta'[a] \in Meta /\ meta'[a].status = to
    BY <2>1, <2>2 DEF Meta, Moved
  <2>4. Written(a)
    BY <1>2, <2>1, <2>3, MetaPresent DEF Written, Accepts, Present
  <2> QED BY <1>1, <2>4 DEF RecordStep
<1>3. CASE ~Accepts(a, to)
  <2>1. meta' = meta /\ declared' = declared
    BY <1>3 DEF WriteStatus
  <2> QED BY <1>1, <2>1 DEF RecordStep, Deleted, Touched, Present, SameDeclared
<1> QED BY <1>2, <1>3

\* A record that stays, with another lock or other results.
LEMMA TouchIsRecordStep ==
  ASSUME TypeOK, UNCHANGED <<held, history>>, NEW a \in Agents, NEW m \in Meta, Present(a),
         m.status = meta[a].status, m.cleanup_reason = meta[a].cleanup_reason,
         meta' = [meta EXCEPT ![a] = m]
  PROVE  RecordStep
<1>1. meta'[a] = m /\ \A b \in Agents \ {a} : meta'[b] = meta[b] /\ SameDeclared(b)
  BY DEF TypeOK, SameDeclared
<1>2. Touched(a)
  BY <1>1, MetaPresent DEF Touched, Present, SameDeclared
<1> QED BY <1>1, <1>2 DEF RecordStep

LEMMA SameIsRecordStep ==
  ASSUME UNCHANGED <<meta, held, history>>
  PROVE  RecordStep
<1>1. 1 \in Agents
  BY ConstantsAssumption DEF Agents, ConstantsAssumption
<1> QED BY <1>1 DEF RecordStep, Deleted, Touched, Present, SameDeclared

LEMMA CleanupShape ==
  ASSUME TypeOK, NEW p \in Procs, Cleanup(p)
  PROVE  RecordStep \/ CallStep
<1> DEFINE a == run[p].agent
           m == meta[run[p].agent]
<1>0. /\ run[p].pc \notin {"idle", "rows"}
      /\ a \in Agents
      /\ run[p].reason \in Reasons \union {NoReason}
      /\ run[p].results \in StepResults
  BY InsideType DEF Cleanup, AcquireLock, LoadDomain, WriteRevoked, SkipStep, RunStep,
     AuditPersist, SaveResults, ReleaseLock, WriteDestroyed, Announce, AtStep
<1>1. ASSUME Present(a), NEW lock \in {"free", "fresh", "old"}
      PROVE  LET n == [m EXCEPT !.cleanup_lock = lock] IN
             n \in Meta /\ n.status = m.status /\ n.cleanup_reason = m.cleanup_reason
  BY <1>0, <1>1, PresentMeta DEF TypeOK, Meta
<1>2. ASSUME Present(a)
      PROVE  LET n == [m EXCEPT !.results = run[p].results] IN
             n \in Meta /\ n.status = m.status /\ n.cleanup_reason = m.cleanup_reason
  BY <1>0, <1>2, PresentMeta DEF TypeOK, Meta
<1>3. CASE AcquireLock(p) \/ ReleaseLock(p)
  <2>1. \/ UNCHANGED <<meta, held, history>>
        \/ \E lock \in {"free", "fresh", "old"} :
              Present(a) /\ UNCHANGED <<held, history>> /\ meta' = [meta EXCEPT ![a] = [m EXCEPT !.cleanup_lock = lock]]
    BY <1>3 DEF AcquireLock, ReleaseLock
  <2> QED BY <1>0, <1>1, <2>1, SameIsRecordStep, TouchIsRecordStep
<1>4. CASE SaveResults(p)
  <2>1. \/ UNCHANGED <<meta, held, history>>
        \/ Present(a) /\ UNCHANGED <<held, history>> /\ meta' = [meta EXCEPT ![a] = [m EXCEPT !.results = run[p].results]]
    BY <1>4 DEF SaveResults
  <2> QED BY <1>0, <1>2, <2>1, SameIsRecordStep, TouchIsRecordStep
<1>5. CASE LoadDomain(p) \/ SkipStep(p) \/ Announce(p)
  BY <1>5, SameIsRecordStep DEF LoadDomain, SkipStep, Announce
<1>6. CASE WriteRevoked(p) \/ WriteDestroyed(p)
  BY <1>0, <1>6, WriteIsRecordStep DEF WriteRevoked, WriteDestroyed, Statuses
<1>7. CASE RunStep(p)
  BY <1>0, <1>7, RunStepOwed DEF RunStep, CallStep
<1>8. CASE AuditPersist(p)
  <2>1. CASE UNCHANGED meta
    BY <1>8, <2>1, SameIsRecordStep DEF AuditPersist
  <2>2. CASE meta' = [meta EXCEPT ![a] = NoMeta]
    <3>1. PICK b \in Agents : b = a
      BY <1>0
    <3>2. Deleted(b) /\ \A c \in Agents \ {b} : meta'[c] = meta[c] /\ SameDeclared(c)
      BY <1>8, <2>2, <3>1 DEF AuditPersist, TypeOK, Deleted, Present, SameDeclared
    <3> QED BY <1>8, <3>2 DEF AuditPersist, RecordStep
  <2> QED BY <1>8, <2>1, <2>2 DEF AuditPersist
<1> QED BY <1>3, <1>4, <1>5, <1>6, <1>7, <1>8 DEF Cleanup

LEMMA Shape ==
  ASSUME TypeOK, [Next]_vars
  PROVE  RecordStep \/ CallStep
<1>1. CASE UNCHANGED vars
  BY <1>1, SameIsRecordStep DEF vars
<1>2. CASE \/ \E t \in Ticks : SweepStart(t)
           \/ \E p \in Requests : IdentityDisabled(p)
           \/ \E p \in Procs : Crash(p)
           \/ \E a \in Agents : Clock(a)
  BY <1>2, SameIsRecordStep DEF SweepStart, IdentityDisabled, Crash, Clock
<1>3. ASSUME NEW t \in Ticks, NEW r \in run[t].rows,
             SweepWarn(t, r) \/ SweepWalk(t, r) \/ SweepExpire(t, r) \/ SweepRetry(t, r)
      PROVE  RecordStep \/ CallStep
  <2>1. r.agent \in Agents
    BY RowsType
  <2> QED BY <1>3, <2>1, WriteIsRecordStep, SameIsRecordStep
          DEF SweepWarn, SweepWalk, SweepExpire, SweepRetry, Statuses
<1>4. ASSUME NEW p \in Requests, NEW r \in run[p].rows, DisableExpiring(p, r) \/ Disable(p, r)
      PROVE  RecordStep \/ CallStep
  <2>1. r.agent \in Agents /\ r.reason \in Reasons
    BY RowsType
  <2> QED BY <1>4, <2>1, WriteIsRecordStep DEF DisableExpiring, Disable, Statuses
<1>5. ASSUME NEW p \in Requests, NEW a \in Agents, Route(p, a)
      PROVE  RecordStep \/ CallStep
  <2>1. StopReasons \subseteq Reasons
    BY ConstantsAssumption DEF ConstantsAssumption
  <2> QED BY <1>5, <2>1, WriteIsRecordStep, SameIsRecordStep
          DEF Route, StopAgent, TransitionRevoked, TransitionQuarantined, Reprovision,
              Statuses, Reasons
<1>6. ASSUME NEW a \in Agents, NEW to \in Targets, NEW reason \in StopReasons,
             TransitionOther(a, to, reason)
      PROVE  RecordStep \/ CallStep
  <2>1. to \in Statuses /\ reason \in Reasons
    BY ConstantsAssumption DEF ConstantsAssumption
  <2> QED BY <1>6, <2>1, WriteIsRecordStep DEF TransitionOther
<1>7. ASSUME NEW p \in Procs, QuarantineIssuance(p) \/ QuarantineBridge(p) \/ Cleanup(p)
      PROVE  RecordStep \/ CallStep
  <2>1. CASE Cleanup(p)
    BY <2>1, CleanupShape
  <2>2. CASE QuarantineIssuance(p) \/ QuarantineBridge(p)
    <3>1. run[p].agent \in Agents
      BY <2>2, InsideType DEF QuarantineIssuance, QuarantineBridge
    <3> QED BY <2>2, <3>1, ReleasedOwed DEF QuarantineIssuance, QuarantineBridge, CallStep
  <2> QED BY <1>7, <2>1, <2>2
<1>8. ASSUME NEW a \in Agents, LockAges(a)
      PROVE  RecordStep \/ CallStep
  <2>1. CASE UNCHANGED meta
    BY <1>8, <2>1, SameIsRecordStep DEF LockAges
  <2>2. CASE Present(a) /\ meta' = [meta EXCEPT ![a].cleanup_lock = "old"]
    <3> DEFINE m == [meta[a] EXCEPT !.cleanup_lock = "old"]
    <3>1. m \in Meta /\ m.status = meta[a].status /\ m.cleanup_reason = meta[a].cleanup_reason
      BY <2>2, PresentMeta DEF TypeOK, Meta
    <3>2. meta' = [meta EXCEPT ![a] = m] /\ UNCHANGED <<held, history>>
      BY <1>8, <2>2 DEF LockAges
    <3> QED BY <2>2, <3>1, <3>2, TouchIsRecordStep
  <2> QED BY <1>8, <2>1, <2>2 DEF LockAges
<1> QED BY <1>1, <1>2, <1>3, <1>4, <1>5, <1>6, <1>7, <1>8
        DEF Next, Progress, Sweep, Subscriber

-----------------------------------------------------------------------------

\* The table has no move from REVOKED to REVOKED, so the reason written with
\* the first is never overwritten.
THEOREM ReasonKept == Spec => ReasonIsKept
<1> DEFINE Kept == \A a \in Agents :
              Present(a) /\ meta[a].status = "REVOKED" /\ Present(a)' /\ meta[a].status' = "REVOKED"
              => meta[a].cleanup_reason' = meta[a].cleanup_reason
<1>1. TypeOK /\ [Next]_vars => Kept
  <2> SUFFICES ASSUME TypeOK, [Next]_vars, NEW a \in Agents,
                      Present(a), meta[a].status = "REVOKED",
                      Present(a)', meta[a].status' = "REVOKED"
               PROVE  meta[a].cleanup_reason' = meta[a].cleanup_reason
    OBVIOUS
  <2>1. ~CanMove("REVOKED", "REVOKED")
    BY DEF CanMove, ALLOWED_TRANSITIONS
  <2>2. CASE RecordStep
    BY <2>1, <2>2 DEF RecordStep, Deleted, Touched, Written
  <2>3. CASE CallStep
    BY <2>3 DEF CallStep
  <2> QED BY <2>2, <2>3, Shape
<1> QED BY <1>1, TypeCorrect, PTL DEF Spec, ReasonIsKept

-----------------------------------------------------------------------------
(* The refinement.                                                         *)

LEMMA LifeInit == Init => Life!Init
<1> SUFFICES ASSUME Init PROVE Life!Init
  OBVIOUS
<1>1. \A a \in Agents : meta[a] = StartedAgent
  BY DEF Init
<1>2. StartedAgent # NoMeta /\ StartedAgent.status = "ACTIVE"
  BY StartedType, MetaPresent DEF StartedAgent
<1>3. \A a \in Agents : LifeOf(a) = "running"
  BY <1>1, <1>2 DEF LifeOf, Ended, Present
<1>4. owed = [a \in Agents |-> Steps]
  BY DEF Init, owed
<1> QED BY <1>3, <1>4 DEF Life!Init

LEMMA LifeOther ==
  ASSUME NEW a \in Agents, meta'[a] = meta[a], SameDeclared(a)
  PROVE  LifeOf(a)' = LifeOf(a)
BY DEF SameDeclared, LifeOf, Ended, Present

\* What a step on the record of a is in the life of a.
LEMMA LifeOne ==
  ASSUME TypeOK, NEW a \in Agents, Deleted(a) \/ Touched(a) \/ Written(a)
  PROVE  \/ LifeOf(a)' = LifeOf(a)
         \/ LifeOf(a) = "running" /\ LifeOf(a)' = "contained"
         \/ LifeOf(a) \in {"running", "contained"} /\ LifeOf(a)' = "stopped"
         \/ LifeOf(a) # "gone" /\ LifeOf(a)' = "gone"
<1>1. CASE Deleted(a)
  BY <1>1 DEF Deleted, LifeOf, Ended
<1>2. CASE Touched(a)
  BY <1>2 DEF Touched, LifeOf, Ended, SameDeclared
<1>3. CASE Written(a)
  <2>1. \/ <<meta[a].status, meta'[a].status>> \in ALLOWED_TRANSITIONS
        \/ meta[a].status = "ACTIVE" /\ meta'[a].status = "QUARANTINED"
    BY <1>3 DEF Written, CanMove
  <2> QED BY <1>3, <2>1 DEF Written, ALLOWED_TRANSITIONS, LifeOf, Ended
<1> QED BY <1>1, <1>2, <1>3

LEMMA LifeStep ==
  ASSUME IInv, IInv', RecordStep \/ CallStep
  PROVE  [Life!Next]_<<[a \in Agents |-> LifeOf(a)], owed>>
<1> DEFINE life == [a \in Agents |-> LifeOf(a)]
<1>1. CASE RecordStep
  <2>1. PICK a \in Agents :
          /\ \A b \in Agents \ {a} : meta'[b] = meta[b] /\ SameDeclared(b)
          /\ Deleted(a) \/ Touched(a) \/ Written(a)
    BY <1>1 DEF RecordStep
  <2>2. owed' = owed
    BY <1>1 DEF RecordStep, owed
  <2>3. \A b \in Agents \ {a} : LifeOf(b)' = LifeOf(b)
    BY <2>1, LifeOther
  <2>4. life' = [life EXCEPT ![a] = LifeOf(a)']
    BY <2>3
  <2>5. LifeOf(a)' = "gone" => owed[a] = {}
    BY <2>2 DEF LifeOf, IInv, NothingOutlivesTheRecord
  <2>10. life'[a] = LifeOf(a)' /\ life[a] = LifeOf(a)
    BY <2>4
  <2>6. CASE LifeOf(a)' = LifeOf(a)
    <3>1. life' = life
      BY <2>3, <2>6
    <3> QED BY <2>2, <3>1
  <2>7. CASE LifeOf(a) = "running" /\ LifeOf(a)' = "contained"
    <3>1. Life!Contain(a)
      BY <2>2, <2>4, <2>7 DEF Life!Contain
    <3> QED BY <2>10, <2>7, <3>1 DEF Life!Next
  <2>8. CASE LifeOf(a) \in {"running", "contained"} /\ LifeOf(a)' = "stopped"
    <3>1. Life!Stop(a)
      BY <2>2, <2>4, <2>8 DEF Life!Stop
    <3> QED BY <2>10, <2>8, <3>1 DEF Life!Next
  <2>9. CASE LifeOf(a) # "gone" /\ LifeOf(a)' = "gone"
    <3>1. Life!Vanish(a)
      BY <2>2, <2>4, <2>5, <2>9 DEF Life!Vanish
    <3> QED BY <2>10, <2>9, <3>1 DEF Life!Next
  <2> QED BY <2>1, <2>6, <2>7, <2>8, <2>9, LifeOne DEF IInv
<1>2. CASE CallStep
  <2>1. PICK a \in Agents : \E s : OwedLess(a, s)
    BY <1>2 DEF CallStep
  <2>2. PICK s : OwedLess(a, s)
    BY <2>1
  <2>3. life' = life
    BY <1>2, LifeOther DEF CallStep, SameDeclared
  <2>4. CASE s \in owed[a] /\ owed' = [owed EXCEPT ![a] = @ \ {s}]
    <3>1. s \in Steps
      BY <2>4 DEF IInv, TypeOK, owed
    <3>2. Life!LetGo(a, s)
      BY <2>3, <2>4 DEF Life!LetGo
    <3>3. owed'[a] # owed[a]
      BY <2>4 DEF owed
    <3> QED BY <3>1, <3>2, <3>3 DEF Life!Next
  <2>5. CASE owed' = owed
    BY <2>3, <2>5
  <2>6. CASE s \notin owed[a] /\ owed' = [owed EXCEPT ![a] = @ \ {s}]
    <3>1. owed' = owed
      BY <2>6 DEF owed
    <3> QED BY <2>3, <3>1
  <2> QED BY <2>2, <2>4, <2>5, <2>6 DEF OwedLess
<1> QED BY <1>1, <1>2

\* The Lifecycle Manager implements AgentLife: no stopped agent comes back,
\* what is owed of it only gets less, and none is gone while a cleanup still
\* owes something.
THEOREM LifeIsKept == Spec => LifePromise
<1>1. IInv /\ IInv' /\ [Next]_vars => [Life!Next]_<<[a \in Agents |-> LifeOf(a)], owed>>
  BY Shape, LifeStep DEF IInv
<1> QED BY <1>1, SafeInit, SafeStep, LifeInit, PTL DEF Spec, LifePromise, Life!Spec

=============================================================================
