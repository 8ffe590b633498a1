---------------------------- MODULE AgentRuntime ----------------------------
(***************************************************************************)
(* One execution of an agent and what a person is told of it: the          *)
(* reasoning loop with its bound, the instructions and failure exercises   *)
(* the Automation App leaves for it in agent_instructions, the checkpoint  *)
(* both read and write, and the one terminal event that makes the task     *)
(* replayable on the timeline.                                             *)
(*                                                                         *)
(* An agent has one execution: the Job is never retried and its task is    *)
(* always the initial one, so a fault row and the checkpoint name the same *)
(* task whenever the checkpoint names any.  What an instruction says, what *)
(* the model is shown and the events of single tool calls are left out: no *)
(* property tells them apart.                                              *)
(***************************************************************************)
EXTENDS Naturals, Sequences

CONSTANTS
  MaxSteps,        \* MAX_REASONING_STEPS
  MaxInstructions  \* bound on the rows a person writes

ASSUME BoundsAssumption == MaxSteps \in Nat \ {0} /\ MaxInstructions \in Nat

VARIABLES
  meta,       \* agents/{id}__meta: the agent's status
  expired,    \* whether its expires_at has passed
  rows,       \* agent_instructions, in the order of created_at
  state,      \* agents/{id}__state, the checkpoint
  run,        \* the execution
  emitted,    \* the flag of the terminal emitter
  topic,      \* terminal events published; an event's place is its event_id
  timeline,   \* the event_ids stored in user_activity
  \* What happened, for the properties.
  exercised,  \* the exercises the execution has carried out, in order
  saidDone,   \* the model said it was finished
  broke,      \* a read or write of the store failed
  unheard     \* the terminal event was not accepted by the topic

execution == <<run, state, emitted, topic, exercised, saidDone, broke, unheard>>
runVars == <<meta, expired, rows, execution, timeline>>

-----------------------------------------------------------------------------
FAULT_KINDS == {"runtime_crash", "model_unavailable", "tool_failure"}
Outcomes == {"success", "blocked", "failed"}
None == 0
Pcs == {"waiting", "start", "read", "decide", "crash", "tool", "save", "close",
        "verdict", "caught", "finally", "over", "refused", "killed"}
Stops == {"done", "no_decision", "reasoning_step_limit", "agent_expired"}

TaskOutcome == {"TASK_BLOCKED", "TASK_FAILED", "TASK_COMPLETED"}
Row == [kind : {"words"} \union FAULT_KINDS, applied : BOOLEAN]

\* task: whether the checkpoint names the task; fault: fault_instruction_id.
Checkpoint == [exists : BOOLEAN, task : BOOLEAN, fault : Nat, failure : BOOLEAN]
NoState == [exists |-> FALSE, task |-> FALSE, fault |-> None, failure |-> FALSE]

\* armed: an exercise read and not yet carried out; fault and failure:
\* execution_state; results: the outcomes among the results.
Execution == [pc : Pcs, step : 0 .. MaxSteps, armed : Nat, fault : Nat, failure : BOOLEAN,
              results : SUBSET Outcomes, stoppedBy : Stops]

\* over: run to its end; refused: failed before the loop, without a word;
\* killed: by its timeout, its platform or the Lifecycle Manager.
Alive == run.pc \in Pcs \ {"waiting", "over", "refused", "killed"}

RunInit ==
  /\ meta = "creating" /\ expired = FALSE
  /\ rows = <<>>
  /\ state = NoState
  /\ run = [pc |-> "waiting", step |-> 0, armed |-> None, fault |-> None, failure |-> FALSE,
            results |-> {}, stoppedBy |-> "reasoning_step_limit"]
  /\ emitted = FALSE /\ topic = <<>> /\ timeline = {}
  /\ exercised = <<>> /\ saidDone = FALSE /\ broke = FALSE /\ unheard = FALSE

RunGoto(pc) == run' = [run EXCEPT !.pc = pc]
Kind(i) == rows[i].kind

-----------------------------------------------------------------------------
(* The execution.                                                          *)

\* The Provisioner starts the Job; a bad environment ends it at once.
Started ==
  /\ run.pc = "waiting" /\ meta \in {"creating", "ACTIVE"}
  /\ \/ RunGoto("start") \/ RunGoto("refused")
  /\ UNCHANGED <<meta, expired, rows, state, emitted, topic, timeline, exercised, saidDone, broke, unheard>>

\* A slip: the closing checkpoint still names the task.
checkpointNamesTask(finished) ==
  state' = [exists |-> TRUE, task |-> TRUE, fault |-> run.fault, failure |-> run.failure]

checkpoint(finished) ==
  state' = [exists |-> TRUE, task |-> ~finished, fault |-> run.fault, failure |-> run.failure]

FirstCheckpoint ==
  /\ run.pc = "start"
  /\ checkpoint(FALSE)
  /\ RunGoto("read")
  /\ UNCHANGED <<meta, expired, rows, emitted, topic, timeline, exercised, saidDone, broke, unheard>>

Pending == {i \in DOMAIN rows : ~rows[i].applied}
PendingFaults == {i \in Pending : Kind(i) \in FAULT_KINDS}

\* One transaction reads the rows and marks them.  An exercise among them,
\* and addFault sees to it that there is one at most, is armed in place of
\* one armed before.
readPendingInstructions ==
  /\ run.pc = "read" /\ run.step < MaxSteps
  /\ rows' = [i \in DOMAIN rows |-> [rows[i] EXCEPT !.applied = TRUE]]
  /\ \E last \in IF PendingFaults = {} THEN {run.armed} ELSE PendingFaults :
       run' = [run EXCEPT !.pc = "decide", !.armed = last]
  /\ UNCHANGED <<meta, expired, state, emitted, topic, timeline, exercised, saidDone, broke, unheard>>

StepsUsedUp ==
  /\ run.pc = "read" /\ run.step = MaxSteps
  /\ RunGoto("close")
  /\ UNCHANGED <<meta, expired, rows, state, emitted, topic, timeline, exercised, saidDone, broke, unheard>>

Armed(kind) == run.armed # None /\ Kind(run.armed) = kind
Exercise == exercised' = Append(exercised, run.armed)

\* The checkpoint of an exercised crash is written before it is thrown.
CrashExercise ==
  /\ run.pc = "decide" /\ Armed("runtime_crash")
  /\ run' = [run EXCEPT !.pc = "crash", !.fault = run.armed, !.failure = TRUE]
  /\ Exercise
  /\ UNCHANGED <<meta, expired, rows, state, emitted, topic, timeline, saidDone, broke, unheard>>

Thrown ==
  /\ run.pc = "crash"
  /\ checkpoint(TRUE)
  /\ RunGoto("caught")
  /\ UNCHANGED <<meta, expired, rows, emitted, topic, timeline, exercised, saidDone, broke, unheard>>

ModelExercise ==
  /\ run.pc = "decide" /\ Armed("model_unavailable")
  /\ run' = [run EXCEPT !.pc = "close", !.fault = run.armed, !.failure = TRUE,
                        !.stoppedBy = "no_decision"]
  /\ Exercise
  /\ UNCHANGED <<meta, expired, rows, state, emitted, topic, timeline, saidDone, broke, unheard>>

Deciding == run.pc = "decide" /\ ~Armed("runtime_crash") /\ ~Armed("model_unavailable")

NoDecision ==
  /\ Deciding
  /\ run' = [run EXCEPT !.pc = "close", !.stoppedBy = "no_decision"]
  /\ UNCHANGED <<meta, expired, rows, state, emitted, topic, timeline, exercised, saidDone, broke, unheard>>

Done ==
  /\ Deciding
  /\ run' = [run EXCEPT !.pc = "close", !.stoppedBy = "done"]
  /\ saidDone' = TRUE
  /\ UNCHANGED <<meta, expired, rows, state, emitted, topic, timeline, exercised, broke, unheard>>

\* A slip: the model is asked again, and no step is counted.
InvalidCallRetried ==
  /\ Deciding
  /\ RunGoto("read")
  /\ UNCHANGED <<meta, expired, rows, state, emitted, topic, timeline, exercised, saidDone, broke, unheard>>

\* An answer that names no call that can be made is a failed result of the
\* step; nothing is exercised by it.
InvalidCall ==
  /\ Deciding
  /\ run' = [run EXCEPT !.pc = "save", !.results = @ \union {"failed"}]
  /\ UNCHANGED <<meta, expired, rows, state, emitted, topic, timeline, exercised, saidDone, broke, unheard>>

ToolCall ==
  /\ Deciding
  /\ RunGoto("tool")
  /\ UNCHANGED <<meta, expired, rows, state, emitted, topic, timeline, exercised, saidDone, broke, unheard>>

ToolExercise ==
  /\ run.pc = "tool" /\ Armed("tool_failure")
  /\ run' = [run EXCEPT !.pc = "save", !.fault = run.armed, !.armed = None,
                        !.results = @ \union {"failed"}]
  /\ Exercise
  /\ UNCHANGED <<meta, expired, rows, state, emitted, topic, timeline, saidDone, broke, unheard>>

\* The manifest comes before the lifetime: a tool it does not have is refused
\* even of an agent past its lifetime, and only an allowed one ends the loop.
executeTool ==
  /\ run.pc = "tool" /\ ~Armed("tool_failure")
  /\ \E outcome \in Outcomes :
       /\ expired => outcome # "success"
       /\ run' = [run EXCEPT !.pc = "save", !.results = @ \union {outcome},
            !.stoppedBy = IF expired /\ outcome = "failed" THEN "agent_expired" ELSE @]
  /\ UNCHANGED <<meta, expired, rows, state, emitted, topic, timeline, exercised, saidDone, broke, unheard>>

Save ==
  /\ run.pc = "save"
  /\ checkpoint(FALSE)
  /\ run' = [run EXCEPT
       !.pc = IF run.stoppedBy = "agent_expired" THEN "close" ELSE "read", !.step = @ + 1]
  /\ UNCHANGED <<meta, expired, rows, emitted, topic, timeline, exercised, saidDone, broke, unheard>>

Close ==
  /\ run.pc = "close"
  /\ checkpoint(TRUE)
  /\ RunGoto("verdict")
  /\ UNCHANGED <<meta, expired, rows, emitted, topic, timeline, exercised, saidDone, broke, unheard>>

decideTaskOutcome(results) ==
  IF "blocked" \in results THEN "TASK_BLOCKED"
  ELSE IF "failed" \in results THEN "TASK_FAILED" ELSE "TASK_COMPLETED"

\* A slip: a model that never answered leaves a task with nothing to do.
OutcomeOfResults ==
  IF run.stoppedBy = "reasoning_step_limit" THEN "TASK_FAILED" ELSE decideTaskOutcome(run.results)

Outcome ==
  IF run.stoppedBy \in {"reasoning_step_limit", "no_decision"} THEN "TASK_FAILED"
  ELSE decideTaskOutcome(run.results)

\* The flag is set before the event is sent, and an event the topic does not
\* take is logged and forgotten.
emitTerminalOnce(outcome) ==
  IF emitted THEN UNCHANGED <<emitted, topic, unheard>>
  ELSE /\ emitted' = TRUE
       /\ \/ topic' = Append(topic, outcome) /\ UNCHANGED unheard
          \/ unheard' = TRUE /\ UNCHANGED topic

Verdict ==
  /\ run.pc = "verdict"
  /\ emitTerminalOnce(Outcome)
  /\ RunGoto("finally")
  /\ UNCHANGED <<meta, expired, rows, state, timeline, exercised, saidDone, broke>>

Caught ==
  /\ run.pc = "caught"
  /\ emitTerminalOnce("TASK_FAILED")
  /\ RunGoto("finally")
  /\ UNCHANGED <<meta, expired, rows, state, timeline, exercised, saidDone, broke>>

\* The way out of every end that was not killed emits as well.
Finally ==
  /\ run.pc = "finally"
  /\ emitTerminalOnce("TASK_FAILED")
  /\ RunGoto("over")
  /\ UNCHANGED <<meta, expired, rows, state, timeline, exercised, saidDone, broke>>

\* A read or write of the store that fails is thrown out of the loop.
StoreFails ==
  /\ run.pc \in {"start", "read", "crash", "save", "close"}
  /\ RunGoto("caught")
  /\ broke' = TRUE
  /\ UNCHANGED <<meta, expired, rows, state, emitted, topic, timeline, exercised, saidDone, unheard>>

\* The process is gone wherever it was: its timeout, its platform, or the
\* first step of a cleanup.
Killed ==
  /\ Alive
  /\ RunGoto("killed")
  /\ UNCHANGED <<meta, expired, rows, state, emitted, topic, timeline, exercised, saidDone, broke, unheard>>

-----------------------------------------------------------------------------
(* The Automation App.                                                     *)

\* Words for the model: no look at whether anybody is left to read them.
addInstruction ==
  /\ meta = "ACTIVE" /\ Len(rows) < MaxInstructions
  /\ rows' = Append(rows, [kind |-> "words", applied |-> FALSE])
  /\ UNCHANGED <<meta, expired, timeline, execution>>

\* An exercise, for the task the checkpoint names and one at a time.
addFault(kind) ==
  /\ meta = "ACTIVE" /\ Len(rows) < MaxInstructions
  /\ ~expired
  /\ state.task
  /\ PendingFaults = {}
  /\ rows' = Append(rows, [kind |-> kind, applied |-> FALSE])
  /\ UNCHANGED <<meta, expired, timeline, execution>>

\* A slip: an agent past its lifetime still counts as one that will read it.
trialIgnoresExpiry(i) ==
  IF state.fault = i THEN "failed"
  ELSE IF rows[i].applied THEN "received"
  ELSE IF state.task /\ meta = "ACTIVE" THEN "queued" ELSE "not_applied"

\* How far an exercise is, as the person is shown it.
trial(i) ==
  IF state.fault = i THEN "failed"
  ELSE IF rows[i].applied THEN "received"
  ELSE IF state.task /\ meta = "ACTIVE" /\ ~expired THEN "queued" ELSE "not_applied"

\* At least once; a row that is there already stays as it is.
storeActivityEvent ==
  /\ \E event \in DOMAIN topic \ timeline : timeline' = timeline \union {event}
  /\ UNCHANGED <<meta, expired, rows, execution>>

-----------------------------------------------------------------------------
(* What happens to the agent meanwhile.                                    *)

Activated ==
  /\ meta = "creating" /\ meta' = "ACTIVE"
  /\ UNCHANGED <<expired, rows, timeline, execution>>

Stopped ==
  /\ meta \in {"creating", "ACTIVE"} /\ meta' = "stopped"
  /\ UNCHANGED <<expired, rows, timeline, execution>>

LifetimeEnds ==
  /\ ~expired /\ expired' = TRUE
  /\ UNCHANGED <<meta, rows, timeline, execution>>

\* Step 7 of the cleanup, long after the execution was cancelled.
runtimeStateDelete ==
  /\ meta = "stopped" /\ ~Alive /\ state.exists
  /\ state' = NoState
  /\ UNCHANGED <<meta, expired, rows, run, emitted, topic, timeline, exercised, saidDone, broke, unheard>>

-----------------------------------------------------------------------------
RunStep ==
  \/ FirstCheckpoint \/ readPendingInstructions \/ StepsUsedUp
  \/ CrashExercise \/ Thrown \/ ModelExercise
  \/ NoDecision \/ Done \/ InvalidCall \/ ToolCall
  \/ ToolExercise \/ executeTool \/ Save
  \/ Close \/ Verdict \/ Caught \/ Finally

AppStep ==
  \/ addInstruction
  \/ \E kind \in FAULT_KINDS : addFault(kind)

RunNext ==
  \/ Started \/ RunStep \/ StoreFails \/ Killed
  \/ AppStep \/ storeActivityEvent
  \/ Activated \/ Stopped \/ LifetimeEnds \/ runtimeStateDelete

\* A live process goes on, a lifetime ends, a published event is delivered.
\* Nobody has to ask for anything, and the platform need not let the process live.
RunSpec == /\ RunInit /\ [][RunNext]_runVars
        /\ WF_runVars(RunStep) /\ WF_runVars(LifetimeEnds) /\ WF_runVars(storeActivityEvent)

-----------------------------------------------------------------------------
(* Properties.                                                             *)

\* The states of the execution, the documents and what was published.
RunTypeOK ==
  /\ meta \in {"creating", "ACTIVE", "stopped"} /\ expired \in BOOLEAN
  /\ rows \in Seq(Row)
  /\ state \in Checkpoint
  /\ run \in Execution
  /\ emitted \in BOOLEAN
  /\ topic \in Seq(TaskOutcome)
  /\ timeline \subseteq Nat
  /\ exercised \in Seq(Nat)
  /\ saidDone \in BOOLEAN /\ broke \in BOOLEAN /\ unheard \in BOOLEAN

\* A task ends once on the timeline, and as it really ended: completed only
\* if the model itself said it was finished and nothing was refused, failed
\* or made to fail; blocked only if something was refused; failed only if
\* something went wrong.  (run.ts, telemetry/task-outcome.ts)
OneTrueEnding ==
  /\ Len(topic) <= 1
  /\ \A e \in DOMAIN topic :
       /\ topic[e] = "TASK_COMPLETED" =>
            saidDone /\ ~broke /\ run.results \subseteq {"success"} /\ exercised = <<>>
       /\ topic[e] = "TASK_BLOCKED" => "blocked" \in run.results
       /\ topic[e] = "TASK_FAILED" => ~saidDone \/ broke \/ "failed" \in run.results

Trials == {i \in DOMAIN rows : Kind(i) \in FAULT_KINDS}
Closed == run.pc \in {"verdict", "finally", "over"} /\ ~broke

\* What a person is told of an exercise is so: a confirmed one was carried
\* out, the last one carried out is confirmed when the execution has ended,
\* and nobody is shown as waiting for an execution that is over, unless it
\* was killed or could not write.  (faults.ts, loop.ts)
TrialIsTrue ==
  \A i \in Trials :
    /\ trial(i) = "failed" => \E n \in DOMAIN exercised : exercised[n] = i
    /\ Closed => trial(i) # "queued"
    /\ Closed /\ state.exists /\ exercised # <<>> /\ exercised[Len(exercised)] = i
         => trial(i) = "failed"

\* An execution that has begun ends as a task on the timeline, whatever the
\* model answers, unless the process is killed or the topic does not take the
\* event.  (loop.ts: the bound; run.ts: the finally clause)
EveryRunIsClosed ==
  run.pc = "start" ~> timeline # {} \/ unheard \/ run.pc = "killed"

Queued(i) == i \in Trials /\ trial(i) = "queued"

\* No exercise waits for ever, not even for an execution that died without
\* writing its closing checkpoint: it is read, or the person is told it will
\* not happen.  (faults.ts)
NoTrialQueuedForever ==
  \A i \in 1 .. MaxInstructions : Queued(i) ~> ~Queued(i)
=============================================================================
