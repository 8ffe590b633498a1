--------------------------- MODULE AgentLifecycle ---------------------------
(***************************************************************************)
(* The Lifecycle Manager: an agent's status, the cleanup that destroys an  *)
(* agent step by step, and the requests, the periodic sweep and the        *)
(* identity-disabled subscriber that start it.  Several of them run at     *)
(* once, in several Cloud Run instances; every await of the code is a      *)
(* place where another one may run, where the instance may die, and where  *)
(* an answer may be lost.                                                  *)
(*                                                                         *)
(* A cleanup has NumSteps steps that each put an end to one thing the      *)
(* agent holds (its execution, its right to be issued grants, its          *)
(* connection, ...), and a last one, audit_persist, that deletes the       *)
(* agent's record.  The code has ten of the former.                        *)
(*                                                                         *)
(* The agents of this module have been provisioned: each one's transaction *)
(* is COMPLETED, so the sweep's stage (d) and the subscriber's first loop, *)
(* which abandon unfinished transactions, find nothing to do, and the      *)
(* Provisioner no longer writes to the records.                            *)
(***************************************************************************)
EXTENDS Integers, FiniteSets

CONSTANTS
  NumAgents,      \* agents are numbered in the order of their ids
  NumSteps,       \* cleanup steps before audit_persist (10 in the code)
  IssuanceStep,   \* the step that stops the Agent OP from issuing
  BridgeStep,     \* the step that disables the Bridge bindings
  FirstDue,       \* where the expiry of an agent lies when it starts
  MaxAttempts,    \* CLEANUP_MAX_ATTEMPTS
  SweepBatch,     \* SWEEP_BATCH_SIZE
  Ticks,          \* executions of the sweep that may overlap
  Requests,       \* other executions: routes and the subscriber
  Answers,        \* what a call to another service can come to
  Targets,        \* the statuses the transition route is asked for
  StopReasons,    \* the reasons the transition route is given
  MaxFaults       \* bound on crashes and failed writes in a behaviour

Agents    == 1 .. NumAgents
Steps     == 1 .. NumSteps
AuditStep == NumSteps + 1
AllSteps  == Steps \union {AuditStep}
Procs     == Ticks \union Requests

Statuses == {"CREATED", "PROVISIONING", "ACTIVE", "EXPIRING", "EXPIRED",
             "SUSPICIOUS", "QUARANTINED", "REVOKED", "DESTROYED"}
Reasons  == {"EXPIRED", "USER_STOP", "QUARANTINE", "IDENTITY_DISABLED",
             "REPROVISION"}
NoReason == "none"

\* ok: the far side did it.  unavailable: it did not.  lost: it did, but the
\* caller saw an error.  swallowed: it did not, and the step takes the answer
\* for a success all the same (any 4xx, the 404 of a route that the far side
\* does not serve among them, and a store error caught).
AnswerKinds == {"ok", "unavailable", "lost", "swallowed"}

ASSUME ConstantsAssumption ==
  /\ NumAgents \in Nat \ {0}
  /\ NumSteps \in Nat \ {0}
  /\ {IssuanceStep, BridgeStep} \subseteq Steps
  /\ FirstDue \in {"later", "soon"}
  /\ MaxAttempts \in Nat \ {0}
  /\ SweepBatch \in Nat \ {0}
  /\ Ticks \intersect Requests = {}
  /\ Answers \subseteq AnswerKinds
  /\ Targets \subseteq Statuses
  /\ StopReasons \subseteq Reasons
  /\ MaxFaults \in Nat

VARIABLES
  meta,     \* agents/{agent_id}/meta, or NoMeta
  held,     \* per agent, the steps whose object is still alive elsewhere
  due,      \* where expires_at lies as seen from the clock
  run,      \* per execution, what it is in the middle of
  events,   \* terminal Activity Events published, per agent
  faults    \* crashes and failed writes so far

\* History variables: nothing in the code reads them, only the properties do.
VARIABLES
  refused,  \* per agent, the steps a service refused and a cleanup counted done
  declared  \* agents the transition route itself has called DESTROYED

history == <<refused, declared>>
vars == <<meta, held, due, run, events, faults, refused, declared>>

-----------------------------------------------------------------------------
(* The record of an agent.                                                 *)

NoMeta == [status |-> "absent"]

NotRun      == [status |-> "none", attempts |-> 0]
StepResult  == {NotRun} \union [status : {"done", "failed"}, attempts : 1 .. MaxAttempts]
StepResults == [AllSteps -> StepResult]

\* The lock is its acquired_at: none, younger or older than five minutes.
Meta == [status : Statuses, cleanup_reason : Reasons \union {NoReason},
         cleanup_lock : {"free", "fresh", "old"}, results : StepResults]

\* What the Provisioner leaves behind for an agent that has started.
StartedAgent ==
  [status |-> "ACTIVE", cleanup_reason |-> NoReason, cleanup_lock |-> "free",
   results |-> [s \in AllSteps |-> NotRun]]

Present(a) == meta[a] # NoMeta
isDone(result) == result.status = "done"
Exhausted(result) == result.attempts >= MaxAttempts
SomeFailed(results) == \E s \in AllSteps : results[s].status = "failed"
Complete(results) == \A s \in AllSteps : isDone(results[s])

ALLOWED_TRANSITIONS ==
  {<<"CREATED", "PROVISIONING">>, <<"PROVISIONING", "ACTIVE">>,
   <<"PROVISIONING", "REVOKED">>, <<"ACTIVE", "EXPIRING">>,
   <<"EXPIRING", "EXPIRED">>, <<"EXPIRED", "REVOKED">>,
   <<"ACTIVE", "SUSPICIOUS">>, <<"SUSPICIOUS", "QUARANTINED">>,
   <<"QUARANTINED", "REVOKED">>, <<"ACTIVE", "REVOKED">>,
   <<"REVOKED", "DESTROYED">>}

\* The detector always sends severity CRITICAL with QUARANTINED, the one
\* exception the table leaves to the caller.
CanMove(from, to) ==
  \/ <<from, to>> \in ALLOWED_TRANSITIONS
  \/ <<from, to>> = <<"ACTIVE", "QUARANTINED">>

Accepts(a, to) == Present(a) /\ CanMove(meta[a].status, to)

Moved(m, to, reason) ==
  [m EXCEPT !.status = to,
            !.cleanup_reason = IF reason = NoReason THEN m.cleanup_reason ELSE reason]

\* The new record map when a status write is tried: one Firestore
\* transaction, which throws, and writes nothing, on a record that is gone or
\* a move the table does not have.
WriteStatus(a, to, reason) ==
  IF Accepts(a, to) THEN [meta EXCEPT ![a] = Moved(meta[a], to, reason)] ELSE meta

-----------------------------------------------------------------------------
(* Executions.                                                             *)

\* What the sweep and the subscriber found to do for an agent when they read
\* its record, and act on later.
Tasks == {"warn", "walk", "expire", "retry", "disable_expiring", "disable"}
Row   == [agent : Agents, task : Tasks, reason : Reasons]

PCs == {"idle", "rows", "lock", "load", "revoke", "steps", "save", "announce",
        "issuance", "bridge"}

Run ==
  {r \in [pc : PCs, rows : SUBSET Row, agent : Agents \union {0},
          reason : Reasons \union {NoReason}, step : 1 .. AuditStep + 1,
          results : StepResults] :
     /\ r.pc \in {"idle", "rows"} \/ r.agent \in Agents
     /\ r.pc = "save" => r.step \in AllSteps}

Idle == [pc |-> "idle", rows |-> {}, agent |-> 0, reason |-> NoReason,
         step |-> 1, results |-> [s \in AllSteps |-> NotRun]]

Scanning(rows) == [Idle EXCEPT !.pc = "rows", !.rows = rows]

\* A caller going on after cleanupAgent has returned.
Returned(rows) == IF rows = {} THEN Idle ELSE Scanning(rows)

\* A caller after cleanupAgent, or a status write of its own, has thrown: the
\* subscriber catches and goes on, the sweep ends where it is, and a request
\* has nothing left.
Thrown(p, rows) == IF p \in Ticks THEN Idle ELSE Returned(rows)

Cleaning(rows, a, reason) ==
  [Idle EXCEPT !.pc = "lock", !.rows = rows, !.agent = a, !.reason = reason]

Init ==
  /\ meta = [a \in Agents |-> StartedAgent]
  /\ held = [a \in Agents |-> Steps]
  /\ due = [a \in Agents |-> FirstDue]
  /\ run = [p \in Procs |-> Idle]
  /\ events = [a \in Agents |-> {}]
  /\ faults = 0
  /\ refused = [a \in Agents |-> {}]
  /\ declared = {}

-----------------------------------------------------------------------------
(* The sweep.  It reads every record once and then works through them in   *)
(* the order of their ids.  Only records with something to do are kept.    *)

\* A slip: a stage (b) that overlooks what it left half done.
TaskOfFirstWrite(m, d) ==
  CASE m.status = "ACTIVE" /\ d = "soon" -> {"warn"}
    [] m.status = "ACTIVE" /\ d = "past" -> {"walk"}
    [] m.status = "EXPIRING" /\ d = "past" -> {"expire"}
    [] m.status = "REVOKED" /\ SomeFailed(m.results) -> {"retry"}
    [] OTHER -> {}

TaskOf(m, d) ==
  CASE m.status = "ACTIVE" /\ d = "soon" -> {"warn"}
    [] m.status = "ACTIVE" /\ d = "past" -> {"walk"}
    [] m.status \in {"EXPIRING", "EXPIRED"} /\ d = "past" -> {"expire"}
    [] m.status = "REVOKED" /\ SomeFailed(m.results) -> {"retry"}
    [] OTHER -> {}

RetryReason(m) ==
  IF m.status = "REVOKED" /\ m.cleanup_reason # NoReason
  THEN m.cleanup_reason ELSE "EXPIRED"

FirstRows ==
  {a \in Agents : Present(a) /\
     Cardinality({b \in Agents : b < a /\ Present(b)}) < SweepBatch}

SweepRows ==
  {r \in Row : /\ r.agent \in FirstRows
               /\ r.task \in TaskOf(meta[r.agent], due[r.agent])
               /\ r.reason = RetryReason(meta[r.agent])}

SweepStart(t) ==
  /\ run[t].pc = "idle"
  /\ SweepRows # {}
  /\ run' = [run EXCEPT ![t] = Scanning(SweepRows)]
  /\ UNCHANGED <<meta, held, due, events, faults, history>>

\* r is the row p deals with next, and asks for one of tasks.
AtRow(p, r, tasks) ==
  /\ run[p].pc = "rows"
  /\ r \in run[p].rows
  /\ \A q \in run[p].rows : r.agent <= q.agent
  /\ r.task \in tasks

\* Stage (a): the write's failure is dropped.
SweepWarn(t, r) ==
  /\ AtRow(t, r, {"warn"})
  /\ meta' = WriteStatus(r.agent, "EXPIRING", NoReason)
  /\ run' = [run EXCEPT ![t] = Returned(@.rows \ {r})]
  /\ UNCHANGED <<held, due, events, faults, history>>

\* Stage (b), the first of its two writes, for an agent read as ACTIVE.
SweepWalk(t, r) ==
  /\ AtRow(t, r, {"walk"})
  /\ meta' = WriteStatus(r.agent, "EXPIRING", NoReason)
  /\ run' = [run EXCEPT ![t] =
               Scanning((@.rows \ {r}) \union {[r EXCEPT !.task = "expire"]})]
  /\ UNCHANGED <<held, due, events, faults, history>>

\* Stage (b), the second: a refusal is dropped, a missing record is thrown.
SweepExpire(t, r) ==
  /\ AtRow(t, r, {"expire"})
  /\ meta' = WriteStatus(r.agent, "EXPIRED", NoReason)
  /\ run' = [run EXCEPT ![t] =
               IF Present(r.agent)
               THEN Cleaning(@.rows \ {r}, r.agent, "EXPIRED")
               ELSE Thrown(t, @.rows \ {r})]
  /\ UNCHANGED <<held, due, events, faults, history>>

\* Stage (c).
SweepRetry(t, r) ==
  /\ AtRow(t, r, {"retry"})
  /\ run' = [run EXCEPT ![t] = Cleaning(@.rows \ {r}, r.agent, r.reason)]
  /\ UNCHANGED <<meta, held, due, events, faults, history>>

Sweep(t) ==
  \E r \in run[t].rows :
     SweepWarn(t, r) \/ SweepWalk(t, r) \/ SweepExpire(t, r) \/ SweepRetry(t, r)

-----------------------------------------------------------------------------
(* The identity-disabled subscriber.  All agents are the one person's.     *)

REVOCABLE_STATUSES == {"CREATED", "PROVISIONING", "ACTIVE", "EXPIRING",
                       "SUSPICIOUS", "QUARANTINED"}

DisabledRows ==
  {[agent |-> a, reason |-> "IDENTITY_DISABLED",
    task |-> IF meta[a].status = "EXPIRING" THEN "disable_expiring" ELSE "disable"] :
   a \in {b \in Agents : Present(b) /\ meta[b].status \in REVOCABLE_STATUSES}}

IdentityDisabled(p) ==
  /\ run[p].pc = "idle"
  /\ DisabledRows # {}
  /\ run' = [run EXCEPT ![p] = Scanning(DisabledRows)]
  /\ UNCHANGED <<meta, held, due, events, faults, history>>

\* An agent read as EXPIRING goes through EXPIRED; any error ends its turn.
DisableExpiring(p, r) ==
  /\ AtRow(p, r, {"disable_expiring"})
  /\ meta' = WriteStatus(r.agent, "EXPIRED", NoReason)
  /\ run' = [run EXCEPT ![p] =
               IF Accepts(r.agent, "EXPIRED")
               THEN Scanning((@.rows \ {r}) \union {[r EXCEPT !.task = "disable"]})
               ELSE Thrown(p, @.rows \ {r})]
  /\ UNCHANGED <<held, due, events, faults, history>>

Disable(p, r) ==
  /\ AtRow(p, r, {"disable"})
  /\ meta' = WriteStatus(r.agent, "REVOKED", r.reason)
  /\ run' = [run EXCEPT ![p] =
               IF Present(r.agent)
               THEN Cleaning(@.rows \ {r}, r.agent, r.reason)
               ELSE Thrown(p, @.rows \ {r})]
  /\ UNCHANGED <<held, due, events, faults, history>>

Subscriber(p) == \E r \in run[p].rows : DisableExpiring(p, r) \/ Disable(p, r)

-----------------------------------------------------------------------------
(* The routes.  A refused request changes nothing and is not an action.    *)

\* POST /agents/{id}/revoke: a refused write is dropped, and the cleanup
\* starts behind the answer.
StopAgent(p, a) ==
  /\ run[p].pc = "idle"
  /\ Present(a) /\ meta[a].status # "DESTROYED"
  /\ meta' = WriteStatus(a, "REVOKED", "USER_STOP")
  /\ run' = [run EXCEPT ![p] = Cleaning({}, a, "USER_STOP")]
  /\ UNCHANGED <<held, due, events, faults, history>>

\* POST /internal/agents/{id}/transition, REVOKED: here a refusal is a 409.
TransitionRevoked(p, a, reason) ==
  /\ run[p].pc = "idle"
  /\ "REVOKED" \in Targets
  /\ Accepts(a, "REVOKED")
  /\ meta' = WriteStatus(a, "REVOKED", reason)
  /\ run' = [run EXCEPT ![p] = Cleaning({}, a, reason)]
  /\ UNCHANGED <<held, due, events, faults, history>>

\* The same route, QUARANTINED: the status first, then the calls.
TransitionQuarantined(p, a) ==
  /\ run[p].pc = "idle"
  /\ "QUARANTINED" \in Targets
  /\ Accepts(a, "QUARANTINED")
  /\ meta' = WriteStatus(a, "QUARANTINED", NoReason)
  /\ run' = [run EXCEPT ![p] = [Idle EXCEPT !.pc = "issuance", !.agent = a]]
  /\ UNCHANGED <<held, due, events, faults, history>>

\* The same route, any other status: the write and nothing else.
TransitionOther(a, to, reason) ==
  /\ to \in Targets \ {"REVOKED", "QUARANTINED"}
  /\ Accepts(a, to)
  /\ meta' = WriteStatus(a, to, reason)
  /\ declared' = IF to = "DESTROYED" THEN declared \union {a} ELSE declared
  /\ UNCHANGED <<held, due, run, events, faults, refused>>

\* POST /internal/agents/{id}/reprovision: cleanup without a status write.
Reprovision(p, a) ==
  /\ run[p].pc = "idle"
  /\ Present(a)
  /\ run' = [run EXCEPT ![p] = Cleaning({}, a, "REPROVISION")]
  /\ UNCHANGED <<meta, held, due, events, faults, history>>

\* What a call does to the thing it is about, and whether it looks done.
Takes(answer)  == answer \in {"ok", "lost"}

\* A slip: the status code is not looked at.
CountsUnavailable(answer) == answer \in {"ok", "unavailable", "swallowed"}

Counts(answer) == answer \in {"ok", "swallowed"}

Released(a, s, answer) ==
  IF Takes(answer) THEN [held EXCEPT ![a] = @ \ {s}] ELSE held

\* quarantine(): the status code is not looked at, so an error answer goes
\* on to the Bridge, and only a call that throws ends the request.
QuarantineIssuance(p) ==
  /\ run[p].pc = "issuance"
  /\ \E answer \in Answers, throws \in BOOLEAN :
       /\ throws => ~Counts(answer)
       /\ held' = Released(run[p].agent, IssuanceStep, answer)
       /\ run' = [run EXCEPT ![p] = IF throws THEN Idle ELSE [@ EXCEPT !.pc = "bridge"]]
  /\ UNCHANGED <<meta, due, events, faults, history>>

QuarantineBridge(p) ==
  /\ run[p].pc = "bridge"
  /\ \E answer \in Answers : held' = Released(run[p].agent, BridgeStep, answer)
  /\ run' = [run EXCEPT ![p] = Idle]
  /\ UNCHANGED <<meta, due, events, faults, history>>

-----------------------------------------------------------------------------
(* cleanupAgent.                                                           *)

\* A slip: a lock is respected however old it is.
AcquireFreeLock(p) ==
  LET a == run[p].agent IN
  /\ run[p].pc = "lock"
  /\ IF Present(a) /\ meta[a].cleanup_lock = "free"
     THEN /\ meta' = [meta EXCEPT ![a].cleanup_lock = "fresh"]
          /\ run' = [run EXCEPT ![p].pc = "load"]
     ELSE /\ run' = [run EXCEPT ![p] = Returned(@.rows)]
          /\ UNCHANGED meta
  /\ UNCHANGED <<held, due, events, faults, history>>

\* Compare-and-set on the record; a record that is gone has no lock to take.
AcquireLock(p) ==
  LET a == run[p].agent IN
  /\ run[p].pc = "lock"
  /\ IF Present(a) /\ meta[a].cleanup_lock # "fresh"
     THEN /\ meta' = [meta EXCEPT ![a].cleanup_lock = "fresh"]
          /\ run' = [run EXCEPT ![p].pc = "load"]
     ELSE /\ run' = [run EXCEPT ![p] = Returned(@.rows)]
          /\ UNCHANGED meta
  /\ UNCHANGED <<held, due, events, faults, history>>

LoadDomain(p) ==
  LET a == run[p].agent IN
  /\ run[p].pc = "load"
  /\ run' = [run EXCEPT ![p] =
               IF Present(a) THEN [@ EXCEPT !.pc = "revoke", !.results = meta[a].results]
                             ELSE Thrown(p, @.rows)]
  /\ UNCHANGED <<meta, held, due, events, faults, history>>

WriteRevoked(p) ==
  LET a == run[p].agent IN
  /\ run[p].pc = "revoke"
  /\ meta' = WriteStatus(a, "REVOKED", run[p].reason)
  /\ run' = [run EXCEPT ![p] = IF Present(a) THEN [@ EXCEPT !.pc = "steps", !.step = 1]
                                             ELSE Thrown(p, @.rows)]
  /\ UNCHANGED <<held, due, events, faults, history>>

\* A step is left alone once it is done, and once it has used its attempts.
LeftAlone(result) == isDone(result) \/ Exhausted(result)

AtStep(p) == run[p].pc = "steps" /\ run[p].step \in AllSteps

SkipStep(p) ==
  /\ AtStep(p)
  /\ LeftAlone(run[p].results[run[p].step])
  /\ run' = [run EXCEPT ![p].step = @ + 1]
  /\ UNCHANGED <<meta, held, due, events, faults, history>>

\* mergeResult: the entry of this step, with one attempt more.
Merged(p, done) ==
  [run[p].results EXCEPT ![run[p].step] =
     [status |-> IF done THEN "done" ELSE "failed", attempts |-> @.attempts + 1]]

isAbnormalReason(reason) == reason \in {"QUARANTINE", "IDENTITY_DISABLED"}

RunStep(p) ==
  LET a == run[p].agent
      s == run[p].step
  IN
  /\ AtStep(p) /\ s \in Steps
  /\ ~LeftAlone(run[p].results[s])
  /\ \E answer \in Answers :
       /\ held' = Released(a, s, answer)
       /\ refused' = IF answer = "swallowed"
                     THEN [refused EXCEPT ![a] = @ \union ({s} \intersect held[a])]
                     ELSE refused
       /\ run' = [run EXCEPT ![p].results = Merged(p, Counts(answer)), ![p].pc = "save"]
  /\ UNCHANGED <<meta, due, events, faults, declared>>

\* A slip: audit_persist does not look at the other steps.
OutstandingIgnored(results) == FALSE

\* audit_persist refuses while any other step is failed; otherwise it deletes
\* the record, a deletion whose own error is dropped.
Outstanding(results) == \E s \in Steps : results[s].status = "failed"

AuditPersist(p) ==
  LET a == run[p].agent
      outstanding == Outstanding(run[p].results)
  IN
  /\ AtStep(p) /\ run[p].step = AuditStep
  /\ ~LeftAlone(run[p].results[AuditStep])
  /\ run' = [run EXCEPT ![p].results = Merged(p, ~outstanding), ![p].pc = "save"]
  /\ \/ /\ outstanding
        /\ UNCHANGED <<meta, faults>>
     \/ /\ ~outstanding
        /\ meta' = [meta EXCEPT ![a] = NoMeta]
        /\ UNCHANGED faults
     \/ /\ ~outstanding
        /\ faults < MaxFaults
        /\ faults' = faults + 1
        /\ UNCHANGED meta
  /\ UNCHANGED <<held, due, events, history>>

\* A slip: the list is written with set, which makes a record anew.
SaveResultsAnew(p) ==
  LET a == run[p].agent IN
  /\ run[p].pc = "save"
  /\ run' = [run EXCEPT ![p].pc = "steps", ![p].step = @ + 1]
  /\ meta' = [meta EXCEPT ![a] = [StartedAgent EXCEPT !.status = "REVOKED",
                                                     !.results = run[p].results]]
  /\ UNCHANGED <<held, due, events, faults, history>>

\* saveResults writes the whole list, over whatever is there, and only if the
\* record still exists; its failure is dropped.
SaveResults(p) ==
  LET a == run[p].agent IN
  /\ run[p].pc = "save"
  /\ run' = [run EXCEPT ![p].pc = "steps", ![p].step = @ + 1]
  /\ \/ /\ meta' = IF Present(a) THEN [meta EXCEPT ![a].results = run[p].results] ELSE meta
        /\ UNCHANGED faults
     \/ /\ Present(a)
        /\ faults < MaxFaults
        /\ faults' = faults + 1
        /\ UNCHANGED meta
  /\ UNCHANGED <<held, due, events, history>>

\* Not complete: the lock is given back, whoever holds it by now.
ReleaseLock(p) ==
  LET a == run[p].agent IN
  /\ run[p].pc = "steps" /\ run[p].step = AuditStep + 1
  /\ ~Complete(run[p].results)
  /\ run' = [run EXCEPT ![p] = Returned(@.rows)]
  /\ \/ /\ meta' = IF Present(a) THEN [meta EXCEPT ![a].cleanup_lock = "free"] ELSE meta
        /\ UNCHANGED faults
     \/ /\ Present(a)
        /\ faults < MaxFaults
        /\ faults' = faults + 1
        /\ UNCHANGED meta
  /\ UNCHANGED <<held, due, events, history>>

\* Complete: DESTROYED is written if there is anything left to write it to.
WriteDestroyed(p) ==
  /\ run[p].pc = "steps" /\ run[p].step = AuditStep + 1
  /\ Complete(run[p].results)
  /\ meta' = WriteStatus(run[p].agent, "DESTROYED", run[p].reason)
  /\ run' = [run EXCEPT ![p].pc = "announce"]
  /\ UNCHANGED <<held, due, events, faults, history>>

eventTypeFor(reason) ==
  CASE reason = "EXPIRED" -> {"AGENT_EXPIRED"}
    [] isAbnormalReason(reason) -> {"AGENT_REVOKED_SECURITY"}
    [] OTHER -> {}

\* onDestroyed: publishing can fail, and then cleanupAgent throws.
Announce(p) ==
  LET a == run[p].agent IN
  /\ run[p].pc = "announce"
  /\ \/ /\ events' = [events EXCEPT ![a] = @ \union eventTypeFor(run[p].reason)]
        /\ run' = [run EXCEPT ![p] = Returned(@.rows)]
        /\ UNCHANGED faults
     \/ /\ faults < MaxFaults
        /\ faults' = faults + 1
        /\ run' = [run EXCEPT ![p] = Thrown(p, @.rows)]
        /\ UNCHANGED events
  /\ UNCHANGED <<meta, held, due, history>>

Cleanup(p) ==
  \/ AcquireLock(p) \/ LoadDomain(p) \/ WriteRevoked(p)
  \/ SkipStep(p) \/ RunStep(p) \/ AuditPersist(p) \/ SaveResults(p)
  \/ ReleaseLock(p) \/ WriteDestroyed(p) \/ Announce(p)

-----------------------------------------------------------------------------
(* Time and failure.                                                       *)

Clock(a) ==
  /\ due[a] # "past"
  /\ due' = [due EXCEPT ![a] = IF @ = "later" THEN "soon" ELSE "past"]
  /\ UNCHANGED <<meta, held, run, events, faults, history>>

\* Five minutes pass: whoever took the lock, and whether that cleanup is dead or
\* still at work, the lock has become old.
LockAges(a) ==
  /\ Present(a) /\ meta[a].cleanup_lock = "fresh"
  /\ meta' = [meta EXCEPT ![a].cleanup_lock = "old"]
  /\ UNCHANGED <<held, due, run, events, faults, history>>

\* The instance dies: what it was doing is gone, what it wrote stays.
Crash(p) ==
  /\ run[p].pc # "idle"
  /\ faults < MaxFaults
  /\ faults' = faults + 1
  /\ run' = [run EXCEPT ![p] = Idle]
  /\ UNCHANGED <<meta, held, due, events, history>>

-----------------------------------------------------------------------------

Progress(p) ==
  \/ p \in Ticks /\ Sweep(p)
  \/ p \in Requests /\ Subscriber(p)
  \/ QuarantineIssuance(p) \/ QuarantineBridge(p)
  \/ Cleanup(p)

Route(p, a) ==
  \/ StopAgent(p, a)
  \/ \E reason \in StopReasons : TransitionRevoked(p, a, reason)
  \/ TransitionQuarantined(p, a)
  \/ Reprovision(p, a)

Next ==
  \/ \E t \in Ticks : SweepStart(t)
  \/ \E p \in Requests : IdentityDisabled(p)
  \/ \E p \in Requests, a \in Agents : Route(p, a)
  \/ \E a \in Agents, to \in Targets, reason \in StopReasons : TransitionOther(a, to, reason)
  \/ \E p \in Procs : Progress(p)
  \/ \E a \in Agents : Clock(a) \/ LockAges(a)
  \/ \E p \in Procs : Crash(p)

Spec == Init /\ [][Next]_vars

\* An execution under way goes on, the scheduler keeps sending ticks, and time
\* passes.  Nothing makes a person or the detector send a request.
Fairness ==
  /\ \A p \in Procs : WF_vars(Progress(p))
  /\ \A t \in Ticks : WF_vars(SweepStart(t))
  /\ \A a \in Agents : WF_vars(Clock(a)) /\ WF_vars(LockAges(a))

FairSpec == Spec /\ Fairness

-----------------------------------------------------------------------------
(* Properties that hold.                                                   *)

\* Every variable has its type; in particular no step is ever tried more
\* often than CLEANUP_MAX_ATTEMPTS allows (cleanupAgent's attempts check).
TypeOK ==
  /\ meta \in [Agents -> Meta \union {NoMeta}]
  /\ held \in [Agents -> SUBSET Steps]
  /\ due \in [Agents -> {"later", "soon", "past"}]
  /\ run \in [Procs -> Run]
  /\ events \in [Agents -> SUBSET {"AGENT_EXPIRED", "AGENT_REVOKED_SECURITY"}]
  /\ faults \in 0 .. MaxFaults
  /\ refused \in [Agents -> SUBSET Steps]
  /\ declared \subseteq Agents

Destroyed(a) == ~Present(a) \/ meta[a].status = "DESTROYED"

\* The end of an agent that the Lifecycle Manager itself has brought about: not
\* the one a caller of the transition route declares, which runs no cleanup.
Ended(a) == ~Present(a) \/ (meta[a].status = "DESTROYED" /\ a \notin declared)

\* What a cleanup still owes: what the agent holds, less what a service refused
\* to end and a step took for ended all the same.
owed == [a \in Agents |-> held[a] \ refused[a]]

\* Once an agent's record is deleted, or a cleanup has called it DESTROYED, or
\* its end has been announced, all that is left of it anywhere is what a
\* service refused to end while its step counted the refusal as success:
\* overlapping cleanups, deaths, retries and lost bookkeeping never add to that
\* (cleanupAgent and audit_persist).
NothingOutlivesTheRecord ==
  \A a \in Agents : Ended(a) \/ events[a] # {} => owed[a] = {}

\* A list of results claims no more than has been done, when left is what is
\* still owed.
Earned(results, left) ==
  /\ \A s \in Steps : isDone(results[s]) => s \notin left
  /\ isDone(results[AuditStep]) => left = {}

\* The record of an agent says done of no step that is still owed.
RecordIsTrue ==
  \A a \in Agents : Present(a) => Earned(meta[a].results, owed[a])

\* Nor does the list a cleanup carries; and the cleanup gets past a step, and to
\* the end, only by trying it or finding it tried.
Passed(r, s) == s < r.step \/ (s = r.step /\ r.pc = "save")

Credible(r) ==
  r.pc \in {"revoke", "steps", "save", "announce"} =>
    /\ Earned(r.results, owed[r.agent])
    /\ r.pc \in {"steps", "save"} => \A s \in AllSteps : Passed(r, s) => r.results[s] # NotRun
    /\ r.pc = "announce" => isDone(r.results[AuditStep])

RunIsTrue == \A p \in Procs : Credible(run[p])

\* A step said to be done, on the record or in any cleanup under way, has been
\* done, or was refused by its service at the time it was tried: however stale
\* the record it was read from has become, and whoever wrote over it, the only
\* false claims are the answers the steps misread (saveResults over isDone,
\* cleanupAgent's loop).
ClaimsAreTrue == RecordIsTrue /\ RunIsTrue

\* Why an agent was stopped is written once: while it stays REVOKED no later
\* stop, sweep or disabled identity relabels it (writeStatus).
ReasonIsKept ==
  [][\A a \in Agents :
       Present(a) /\ meta[a].status = "REVOKED" /\ Present(a)' /\ meta[a].status' = "REVOKED"
       => meta[a].cleanup_reason' = meta[a].cleanup_reason]_vars

\* The Lifecycle Manager keeps the promise of AgentLife: no stopped agent
\* comes back, and none is gone while a cleanup still owes something of it.  One
\* that a caller has declared DESTROYED is stopped, not gone.
LifeOf(a) ==
  IF Ended(a) THEN "gone"
  ELSE IF meta[a].status \in {"REVOKED", "DESTROYED"} THEN "stopped"
  ELSE IF meta[a].status = "QUARANTINED" THEN "contained"
  ELSE "running"

Life == INSTANCE AgentLife WITH
  Things <- Steps, life <- [a \in Agents |-> LifeOf(a)],
  alive <- owed

LifePromise == Life!Spec

OutOfAttempts(a) ==
  Present(a) /\ \E s \in AllSteps : ~isDone(meta[a].results[s]) /\ Exhausted(meta[a].results[s])

\* A revoked agent on whose record some step has failed is taken up again, by
\* one sweep or another, until it is destroyed or a step has used all its
\* attempts: no crashed holder of the lock and no other agent's trouble can
\* keep it waiting for ever (sweep stage (c), acquireLock).
FailedCleanupIsRetried ==
  \A a \in Agents :
     (Present(a) /\ meta[a].status = "REVOKED" /\ SomeFailed(meta[a].results))
       ~> (Destroyed(a) \/ OutOfAttempts(a))

\* An agent that reaches its expiry while active is not left so: whatever dies
\* between the sweep's two writes and the revocation, a later sweep goes on
\* from there (sweep stage (b)).
ExpiryIsActedOn ==
  \A a \in Agents :
     (Present(a) /\ due[a] = "past" /\ meta[a].status \in {"ACTIVE", "EXPIRING", "EXPIRED"})
       ~> (Destroyed(a) \/ meta[a].status \in {"SUSPICIOUS", "QUARANTINED", "REVOKED"})
=============================================================================
