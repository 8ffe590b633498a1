------------------------- MODULE AgentRuntimeProofs -------------------------
(***************************************************************************)
(* Proofs about an agent's execution, AgentRuntime, and about the access   *)
(* its calls are served with, AgentAccess; the two share no state, and     *)
(* neither part uses the other.                                            *)
(*                                                                         *)
(* The execution, for every bound on the steps and on the rows: the        *)
(* invariants of the runs follow from RunInv, which is what each point of  *)
(* the execution implies of the emitter, the results, the reason it        *)
(* stopped and the checkpoint.                                             *)
(*                                                                         *)
(* How long access lasts, for any number of agents, processes, calls and   *)
(* revocations and for every value of the times.  Each bound is carried    *)
(* along the chain of credentials: what a read can have missed, then the   *)
(* grant, the request it was sent with, the token and the request that was *)
(* sent with.  Sound says it of a single request; all of it is inductive   *)
(* together.                                                               *)
(***************************************************************************)
EXTENDS AgentRuntime, AgentAccess, TLAPS

Ended == run.pc \in {"finally", "over", "killed"}

\* The terminal event has been sent only where nothing changes any more.
EmitterInv ==
  /\ topic # <<>> => emitted
  /\ Len(topic) <= 1
  /\ emitted => Ended
  /\ run.pc = "finally" => emitted

\* A step that has begun is one of MaxSteps.
StepInv == run.pc \in {"decide", "tool", "save"} => run.step < MaxSteps

\* Why the loop stopped, beside what happened.
ReasonInv ==
  /\ saidDone => run.stoppedBy = "done"
  /\ run.stoppedBy = "done" => saidDone
  /\ run.stoppedBy = "agent_expired" => "failed" \in run.results
  /\ run.stoppedBy \in {"done", "no_decision"} =>
       run.pc \notin {"waiting", "start", "read", "decide", "crash", "tool", "save"}
  /\ broke => run.pc = "caught" \/ Ended
  /\ run.pc = "caught" => broke \/ ~saidDone

\* An exercise carried out shows in the results, in the reason or in the end
\* it led to, and is the one the execution writes down.
ExerciseInv ==
  /\ exercised # <<>> => \/ "failed" \in run.results
                         \/ run.stoppedBy = "no_decision"
                         \/ run.pc \in {"crash", "caught"} \/ Ended
  /\ exercised = <<>> => run.fault = None
  /\ exercised # <<>> => run.fault = exercised[Len(exercised)]

\* The checkpoint names an exercise that was carried out, and the closing one
\* the last of them and no task.
CheckpointInv ==
  /\ state.fault # None => \E n \in DOMAIN exercised : exercised[n] = state.fault
  /\ run.pc \in {"verdict", "caught", "finally", "over"} /\ ~broke =>
       ~state.task /\ (state.exists => state.fault = run.fault)

EndingsInv ==
  \A e \in DOMAIN topic :
    /\ topic[e] = "TASK_COMPLETED" =>
         saidDone /\ ~broke /\ run.results \subseteq {"success"} /\ exercised = <<>>
    /\ topic[e] = "TASK_BLOCKED" => "blocked" \in run.results
    /\ topic[e] = "TASK_FAILED" => ~saidDone \/ broke \/ "failed" \in run.results

RunInv == RunTypeOK /\ StepInv /\ EmitterInv /\ ReasonInv /\ ExerciseInv /\ CheckpointInv /\ EndingsInv

-----------------------------------------------------------------------------
LEMMA EmptySequence == ASSUME NEW S PROVE <<>> \in Seq(S)
OBVIOUS

LEMMA RunInitInv == RunInit => RunInv
<1> SUFFICES ASSUME RunInit PROVE RunInv
  OBVIOUS
<1>1. rows \in Seq(Row) /\ topic \in Seq(TaskOutcome) /\ exercised \in Seq(Nat)
  BY EmptySequence DEF RunInit
<1>2. RunTypeOK
  <2>1. state \in Checkpoint
    BY DEF RunInit, NoState, None, Checkpoint
  <2>2. 0 \in 0 .. MaxSteps
    BY BoundsAssumption DEF BoundsAssumption
  <2>3. run \in Execution
    BY <2>2 DEF RunInit, None, Pcs, Stops, Execution
  <2> QED BY <1>1, <2>1, <2>3 DEF RunInit, RunTypeOK
<1>3. StepInv /\ EmitterInv /\ ReasonInv /\ ExerciseInv /\ CheckpointInv /\ EndingsInv
  BY DEF RunInit, StepInv, EmitterInv, ReasonInv, ExerciseInv, CheckpointInv, EndingsInv, Ended, NoState, None
<1> QED BY <1>2, <1>3 DEF RunInv

\* What a step of the loop does to its record keeps its type; the other
\* variables follow.
LEMMA RunType == RunTypeOK /\ StepInv /\ RunStep => run' \in Execution
<1> SUFFICES ASSUME RunTypeOK, StepInv, RunStep PROVE run' \in Execution
  OBVIOUS
<1>0. run \in Execution
  BY DEF RunTypeOK
<1>1. ASSUME NEW pc \in Pcs PROVE [run EXCEPT !.pc = pc] \in Execution
  BY <1>0, <1>1 DEF Execution
<1>2. CASE FirstCheckpoint \/ StepsUsedUp \/ Thrown \/ ToolCall \/ Close
           \/ Verdict \/ Caught \/ Finally
  BY <1>1, <1>2 DEF FirstCheckpoint, StepsUsedUp, Thrown, ToolCall, Close, Verdict, Caught,
                    Finally, RunGoto, Pcs
<1>3. CASE readPendingInstructions
  <2>1. PendingFaults \subseteq Nat /\ run.armed \in Nat
    BY <1>0 DEF PendingFaults, Pending, RunTypeOK, Execution
  <2>2. PICK last \in Nat : run' = [run EXCEPT !.pc = "decide", !.armed = last]
    BY <1>3, <2>1 DEF readPendingInstructions
  <2> QED BY <1>0, <2>2 DEF Execution, Pcs
<1>4. CASE CrashExercise
  BY <1>0, <1>4 DEF CrashExercise, Execution, Pcs
<1>5. CASE ModelExercise
  BY <1>0, <1>5 DEF ModelExercise, Execution, Pcs, Stops
<1>6. CASE NoDecision \/ Done
  BY <1>0, <1>6 DEF NoDecision, Done, Execution, Pcs, Stops
<1>7. CASE InvalidCall
  BY <1>0, <1>7 DEF InvalidCall, Execution, Pcs, Outcomes
<1>8. CASE ToolExercise
  BY <1>0, <1>8 DEF ToolExercise, Execution, Pcs, Outcomes, None
<1>9. CASE executeTool
  <2>1. PICK outcome \in Outcomes :
          run' = [run EXCEPT !.pc = "save", !.results = @ \union {outcome},
            !.stoppedBy = IF expired /\ outcome = "failed" THEN "agent_expired" ELSE @]
    BY <1>9 DEF executeTool
  <2> QED BY <1>0, <2>1 DEF Execution, Pcs, Stops
<1>10. CASE Save
  <2>1. run.step + 1 \in 0 .. MaxSteps
    BY <1>0, <1>10, BoundsAssumption DEF Save, StepInv, Execution, BoundsAssumption
  <2> QED BY <1>0, <1>10, <2>1 DEF Save, Execution, Pcs
<1> QED BY <1>2, <1>3, <1>4, <1>5, <1>6, <1>7, <1>8, <1>9, <1>10 DEF RunStep

LEMMA TypeStep == RunTypeOK /\ StepInv /\ [RunNext]_runVars => RunTypeOK'
<1> SUFFICES ASSUME RunTypeOK, StepInv, [RunNext]_runVars PROVE RunTypeOK'
  OBVIOUS
<1>1. CASE RunStep
  <2>1. run' \in Execution
    BY <1>1, RunType
  <2>2. state' \in Checkpoint
    <3>1. ASSUME NEW finished \in BOOLEAN, checkpoint(finished) PROVE state' \in Checkpoint
      BY <3>1 DEF checkpoint, Checkpoint, RunTypeOK, Execution
    <3> QED BY <1>1, <3>1 DEF RunStep, FirstCheckpoint, readPendingInstructions, StepsUsedUp,
                CrashExercise, Thrown, ModelExercise, NoDecision, Done, InvalidCall, ToolCall,
                ToolExercise, executeTool, Save, Close, Verdict, Caught, Finally, RunTypeOK
  <2>3. exercised' \in Seq(Nat)
    <3>1. Append(exercised, run.armed) \in Seq(Nat)
      BY DEF RunTypeOK, Execution
    <3> QED BY <1>1, <3>1 DEF RunStep, FirstCheckpoint, readPendingInstructions, StepsUsedUp,
                CrashExercise, Thrown, ModelExercise, NoDecision, Done, InvalidCall, ToolCall,
                ToolExercise, executeTool, Save, Close, Verdict, Caught, Finally, RunTypeOK, Exercise
  <2>4. topic' \in Seq(TaskOutcome) /\ emitted' \in BOOLEAN /\ unheard' \in BOOLEAN
    <3>1. ASSUME NEW outcome \in TaskOutcome, emitTerminalOnce(outcome)
          PROVE topic' \in Seq(TaskOutcome) /\ emitted' \in BOOLEAN /\ unheard' \in BOOLEAN
      <4>1. Append(topic, outcome) \in Seq(TaskOutcome)
        BY DEF RunTypeOK
      <4> QED BY <3>1, <4>1 DEF emitTerminalOnce, RunTypeOK
    <3>2. Outcome \in TaskOutcome /\ "TASK_FAILED" \in TaskOutcome
      BY DEF Outcome, decideTaskOutcome, TaskOutcome
    <3>3. CASE Verdict \/ Caught \/ Finally
      BY <3>1, <3>2, <3>3 DEF Verdict, Caught, Finally
    <3>4. CASE ~(Verdict \/ Caught \/ Finally)
      BY <1>1, <3>4 DEF RunStep, FirstCheckpoint, readPendingInstructions, StepsUsedUp,
                CrashExercise, Thrown, ModelExercise, NoDecision, Done, InvalidCall, ToolCall,
                ToolExercise, executeTool, Save, Close, RunTypeOK
    <3> QED BY <3>3, <3>4
  <2>5. rows' \in Seq(Row)
    <3>1. CASE readPendingInstructions
      <4>1. DOMAIN rows = 1 .. Len(rows) /\ Len(rows) \in Nat /\ \A i \in DOMAIN rows : rows[i] \in Row
        BY DEF RunTypeOK
      <4>2. \A i \in DOMAIN rows : [rows[i] EXCEPT !.applied = TRUE] \in Row
        BY <4>1 DEF Row
      <4> QED BY <3>1, <4>1, <4>2 DEF readPendingInstructions
    <3>2. CASE ~readPendingInstructions
      BY <1>1, <3>2 DEF RunStep, FirstCheckpoint, StepsUsedUp,
                CrashExercise, Thrown, ModelExercise, NoDecision, Done, InvalidCall, ToolCall,
                ToolExercise, executeTool, Save, Close, Verdict, Caught, Finally, RunTypeOK
    <3> QED BY <3>1, <3>2
  <2>6. meta' \in {"creating", "ACTIVE", "stopped"} /\ expired' \in BOOLEAN
        /\ timeline' \subseteq Nat /\ saidDone' \in BOOLEAN /\ broke' \in BOOLEAN
    BY <1>1 DEF RunStep, FirstCheckpoint, readPendingInstructions, StepsUsedUp,
                CrashExercise, Thrown, ModelExercise, NoDecision, Done, InvalidCall, ToolCall,
                ToolExercise, executeTool, Save, Close, Verdict, Caught, Finally, RunTypeOK
  <2> QED BY <2>1, <2>2, <2>3, <2>4, <2>5, <2>6 DEF RunTypeOK
<1>2. CASE Started \/ StoreFails \/ Killed
  BY <1>2 DEF Started, StoreFails, Killed, RunGoto, RunTypeOK, Execution, Pcs
<1>3. CASE AppStep
  <2>1. ASSUME NEW kind \in {"words"} \union FAULT_KINDS
        PROVE Append(rows, [kind |-> kind, applied |-> FALSE]) \in Seq(Row)
    BY <2>1 DEF RunTypeOK, Row
  <2> QED BY <1>3, <2>1 DEF AppStep, addInstruction, addFault, execution, RunTypeOK
<1>4. CASE storeActivityEvent
  <2>1. DOMAIN topic \subseteq Nat
    BY DEF RunTypeOK
  <2> QED BY <1>4, <2>1 DEF storeActivityEvent, execution, RunTypeOK
<1>5. CASE Activated \/ Stopped \/ LifetimeEnds
  BY <1>5 DEF Activated, Stopped, LifetimeEnds, execution, RunTypeOK
<1>6. CASE runtimeStateDelete
  BY <1>6 DEF runtimeStateDelete, RunTypeOK, NoState, Checkpoint, None
<1>7. CASE UNCHANGED runVars
  BY <1>7 DEF runVars, execution, RunTypeOK
<1> QED BY <1>1, <1>2, <1>3, <1>4, <1>5, <1>6, <1>7 DEF RunNext

\* Outside RunStep little happens to the execution.
LEMMA Elsewhere ==
  ASSUME RunTypeOK, [RunNext]_runVars, ~RunStep
  PROVE /\ UNCHANGED <<emitted, topic, exercised, saidDone, unheard>>
        /\ \/ run' = run /\ broke' = broke /\ state' \in {state, NoState}
           \/ /\ run.pc \notin {"over", "refused", "killed"} /\ state' = state
              /\ run' = [run EXCEPT !.pc = run'.pc]
              /\ \/ run.pc = "waiting" /\ run'.pc \in {"start", "refused"} /\ broke' = broke
                 \/ run'.pc = "killed" /\ broke' = broke /\ run.pc # "waiting"
                 \/ run.pc \in {"start", "read", "crash", "save", "close"} /\ run'.pc = "caught"
                    /\ broke'
<1> USE DEF RunTypeOK, Execution
<1>1. CASE Started \/ StoreFails \/ Killed
  BY <1>1 DEF Started, StoreFails, Killed, RunGoto, Alive
<1>2. CASE AppStep \/ storeActivityEvent \/ Activated \/ Stopped \/ LifetimeEnds
  BY <1>2 DEF AppStep, addInstruction, addFault, storeActivityEvent, Activated, Stopped,
              LifetimeEnds, execution
<1>3. CASE runtimeStateDelete \/ UNCHANGED runVars
  BY <1>3 DEF runtimeStateDelete, runVars, execution
<1> QED BY <1>1, <1>2, <1>3 DEF RunNext

LEMMA StepStep == RunInv /\ [RunNext]_runVars => StepInv'
<1> SUFFICES ASSUME RunInv, [RunNext]_runVars PROVE StepInv'
  OBVIOUS
<1> USE DEF RunInv, StepInv, RunTypeOK, Execution
<1>1. CASE readPendingInstructions
  BY <1>1 DEF readPendingInstructions
<1>2. CASE FirstCheckpoint \/ StepsUsedUp \/ CrashExercise \/ Thrown \/ ModelExercise \/ NoDecision
           \/ Done \/ Save \/ Close \/ Verdict \/ Caught \/ Finally
  BY <1>2 DEF FirstCheckpoint, StepsUsedUp, CrashExercise, Thrown, ModelExercise, NoDecision, Done,
              Save, Close, Verdict, Caught, Finally, RunGoto
<1>3. CASE InvalidCall \/ ToolCall \/ ToolExercise \/ executeTool
  BY <1>3 DEF InvalidCall, ToolCall, ToolExercise, executeTool, Deciding, RunGoto
<1>4. CASE ~RunStep
  BY <1>4, Elsewhere
<1> QED BY <1>1, <1>2, <1>3, <1>4 DEF RunStep

LEMMA EmitterStep == RunInv /\ [RunNext]_runVars => EmitterInv'
<1> SUFFICES ASSUME RunInv, [RunNext]_runVars PROVE EmitterInv'
  OBVIOUS
<1> USE DEF RunInv, EmitterInv, Ended, RunTypeOK, Execution
<1>1. CASE Verdict \/ Caught
  <2>1. ~emitted /\ topic = <<>> /\ run'.pc = "finally"
    BY <1>1 DEF Verdict, Caught, RunGoto
  <2>2. PICK outcome : emitTerminalOnce(outcome)
    BY <1>1 DEF Verdict, Caught
  <2>3. emitted' /\ (topic' = <<>> \/ topic' = <<outcome>>)
    BY <2>1, <2>2 DEF emitTerminalOnce
  <2>4. Len(<<>>) = 0 /\ Len(<<outcome>>) = 1
    OBVIOUS
  <2>5. Len(topic') <= 1
    <3>1. CASE topic' = <<>>
      BY <2>4, <3>1
    <3>2. CASE topic' = <<outcome>>
      BY <2>4, <3>2
    <3> QED BY <2>3, <3>1, <3>2
  <2> QED BY <2>1, <2>3, <2>5
<1>2. CASE Finally
  BY <1>2 DEF Finally, emitTerminalOnce, RunGoto
<1>3. CASE RunStep /\ ~(Verdict \/ Caught \/ Finally)
  <2>1. emitted' = emitted /\ topic' = topic /\ ~Ended
    BY <1>3 DEF RunStep, FirstCheckpoint, readPendingInstructions, StepsUsedUp,
                CrashExercise, Thrown, ModelExercise, NoDecision, Done, InvalidCall, ToolCall,
                ToolExercise, executeTool, Save, Close, Deciding
  <2>2. run'.pc # "finally"
    BY <1>3 DEF RunStep, FirstCheckpoint, readPendingInstructions, StepsUsedUp,
                CrashExercise, Thrown, ModelExercise, NoDecision, Done, InvalidCall, ToolCall,
                ToolExercise, executeTool, Save, Close, RunGoto
  <2> QED BY <2>1, <2>2
<1>4. CASE ~RunStep
  BY <1>4, Elsewhere
<1> QED BY <1>1, <1>2, <1>3, <1>4

LEMMA ReasonStep == RunInv /\ [RunNext]_runVars => ReasonInv'
<1> SUFFICES ASSUME RunInv, [RunNext]_runVars PROVE ReasonInv'
  OBVIOUS
<1> DEFINE Loop == {"waiting", "start", "read", "decide", "crash", "tool", "save"}
<1>0. RunTypeOK /\ run \in Execution /\ ReasonInv
  BY DEF RunInv, RunTypeOK
<1>1. CASE FirstCheckpoint \/ readPendingInstructions \/ StepsUsedUp \/ CrashExercise \/ Thrown
           \/ Save \/ InvalidCall \/ ToolCall \/ ToolExercise
  <2> DEFINE Kept == /\ run.pc \in Loop /\ run'.stoppedBy = run.stoppedBy
                     /\ run.results \subseteq run'.results /\ saidDone' = saidDone /\ broke' = broke
  <2>1. CASE FirstCheckpoint \/ StepsUsedUp \/ Thrown \/ ToolCall
    <3>1. Kept
      BY <1>0, <2>1 DEF FirstCheckpoint, StepsUsedUp, Thrown, ToolCall, Deciding, RunGoto, Execution
    <3> QED BY <1>0, <3>1 DEF ReasonInv, Ended
  <2>2. CASE readPendingInstructions \/ CrashExercise
    <3>1. Kept
      BY <1>0, <2>2 DEF readPendingInstructions, CrashExercise, Execution
    <3> QED BY <1>0, <3>1 DEF ReasonInv, Ended
  <2>3. CASE Save
    <3>1. Kept
      BY <1>0, <2>3 DEF Save, Execution
    <3> QED BY <1>0, <3>1 DEF ReasonInv, Ended
  <2>4. CASE InvalidCall \/ ToolExercise
    <3>1. Kept
      BY <1>0, <2>4 DEF InvalidCall, ToolExercise, Deciding, Execution
    <3> QED BY <1>0, <3>1 DEF ReasonInv, Ended
  <2> QED BY <1>1, <2>1, <2>2, <2>3, <2>4
<1>2. CASE Close \/ Verdict \/ Caught \/ Finally
  <2>1. run'.stoppedBy = run.stoppedBy /\ run.results = run'.results
        /\ saidDone' = saidDone /\ broke' = broke /\ run'.pc \in {"verdict", "finally", "over"}
        /\ (run'.pc = "verdict" => run.pc = "close")
    BY <1>0, <1>2 DEF Close, Verdict, Caught, Finally, RunGoto, Execution
  <2> QED BY <1>0, <2>1 DEF ReasonInv, Ended
<1>3. CASE ModelExercise \/ NoDecision
  <2>1. run.pc = "decide" /\ run'.pc = "close" /\ run'.stoppedBy = "no_decision"
        /\ saidDone' = saidDone /\ broke' = broke
    BY <1>0, <1>3 DEF ModelExercise, NoDecision, Deciding, Execution
  <2> QED BY <1>0, <2>1 DEF ReasonInv, Ended
<1>4. CASE Done
  <2>1. run.pc = "decide" /\ run'.pc = "close" /\ run'.stoppedBy = "done"
        /\ saidDone' = TRUE /\ broke' = broke
    BY <1>0, <1>4 DEF Done, Deciding, Execution
  <2> QED BY <1>0, <2>1 DEF ReasonInv, Ended
<1>5. CASE executeTool
  <2>1. run.pc = "tool" /\ run'.pc = "save" /\ run.results \subseteq run'.results
        /\ (run'.stoppedBy = run.stoppedBy
            \/ (run'.stoppedBy = "agent_expired" /\ "failed" \in run'.results))
        /\ saidDone' = saidDone /\ broke' = broke
    <3>1. PICK outcome \in Outcomes :
            run' = [run EXCEPT !.pc = "save", !.results = @ \union {outcome},
              !.stoppedBy = IF expired /\ outcome = "failed" THEN "agent_expired" ELSE @]
      BY <1>5 DEF executeTool
    <3> QED BY <1>0, <1>5, <3>1 DEF executeTool, Execution
  <2> QED BY <1>0, <2>1 DEF ReasonInv, Ended
<1>6. CASE ~RunStep
  <2>1. CASE run' = run /\ broke' = broke
    BY <1>0, <1>6, <2>1, Elsewhere DEF ReasonInv, Ended
  <2>2. CASE run' # run \/ broke' # broke
    <3>1. run'.stoppedBy = run.stoppedBy /\ run'.results = run.results /\ saidDone' = saidDone
      BY <1>0, <1>6, <2>2, Elsewhere DEF Execution
    <3>2. \/ run.pc = "waiting" /\ run'.pc \in {"start", "refused"} /\ broke' = broke
          \/ run'.pc = "killed" /\ broke' = broke
          \/ run'.pc = "caught" /\ broke'
      BY <1>0, <1>6, <2>2, Elsewhere
    <3> QED BY <1>0, <3>1, <3>2 DEF ReasonInv, Ended
  <2> QED BY <2>1, <2>2
<1> QED BY <1>1, <1>2, <1>3, <1>4, <1>5, <1>6 DEF RunStep

LEMMA ExerciseStep == RunInv /\ [RunNext]_runVars => ExerciseInv'
<1> SUFFICES ASSUME RunInv, [RunNext]_runVars PROVE ExerciseInv'
  OBVIOUS
<1> USE DEF RunInv, ExerciseInv, Ended, RunTypeOK, Execution
<1>1. CASE readPendingInstructions
  BY <1>1 DEF readPendingInstructions
<1>2. CASE FirstCheckpoint \/ StepsUsedUp \/ Thrown \/ Save \/ Close
  BY <1>2 DEF FirstCheckpoint, StepsUsedUp, Thrown, Save, Close, RunGoto
<1>3. CASE Verdict \/ Caught \/ Finally
  BY <1>3 DEF Verdict, Caught, Finally, RunGoto
<1>4. CASE CrashExercise \/ ModelExercise \/ ToolExercise
  <2>1. exercised' = Append(exercised, run.armed) /\ run'.fault = run.armed
        /\ (run'.pc = "crash" \/ run'.stoppedBy = "no_decision" \/ "failed" \in run'.results)
    BY <1>4 DEF CrashExercise, ModelExercise, ToolExercise, Exercise
  <2>2. exercised' # <<>> /\ exercised'[Len(exercised')] = run.armed
    BY <2>1
  <2> QED BY <2>1, <2>2
<1>5. CASE NoDecision \/ Done \/ InvalidCall \/ ToolCall
  <2>1. run.pc = "decide" /\ run.stoppedBy # "no_decision"
    BY <1>5 DEF NoDecision, Done, InvalidCall, ToolCall, Deciding, ReasonInv
  <2>2. exercised # <<>> => "failed" \in run.results
    BY <2>1
  <2>3. exercised' = exercised /\ run'.fault = run.fault /\ run.results \subseteq run'.results
    <3>1. CASE NoDecision
      BY <3>1 DEF NoDecision
    <3>2. CASE Done
      BY <3>2 DEF Done
    <3>3. CASE InvalidCall
      BY <3>3 DEF InvalidCall
    <3>4. CASE ToolCall
      BY <3>4 DEF ToolCall, RunGoto
    <3> QED BY <1>5, <3>1, <3>2, <3>3, <3>4
  <2> QED BY <2>2, <2>3
<1>6. CASE executeTool
  <2>1. run.pc = "tool" /\ run.stoppedBy # "no_decision"
    BY <1>6 DEF executeTool, ReasonInv
  <2>2. exercised' = exercised /\ run'.fault = run.fault /\ run.results \subseteq run'.results
    BY <1>6 DEF executeTool
  <2> QED BY <2>1, <2>2
<1>7. CASE ~RunStep
  BY <1>7, Elsewhere
<1> QED BY <1>1, <1>2, <1>3, <1>4, <1>5, <1>6, <1>7 DEF RunStep

LEMMA CheckpointStep == RunInv /\ [RunNext]_runVars => CheckpointInv'
<1> SUFFICES ASSUME RunInv, [RunNext]_runVars PROVE CheckpointInv'
  OBVIOUS
<1> USE DEF RunInv, CheckpointInv, RunTypeOK, Execution
<1>1. CASE FirstCheckpoint \/ Thrown \/ Save \/ Close
  <2>1. PICK finished \in BOOLEAN : checkpoint(finished)
    BY <1>1 DEF FirstCheckpoint, Thrown, Save, Close
  <2>2. state'.fault = run.fault
    BY <2>1 DEF checkpoint
  <2>3. run'.fault = run.fault /\ exercised' = exercised
    <3>1. CASE FirstCheckpoint \/ Thrown \/ Close
      BY <3>1 DEF FirstCheckpoint, Thrown, Close, RunGoto
    <3>2. CASE Save
      BY <3>2 DEF Save
    <3> QED BY <1>1, <3>1, <3>2
  <2>4. run.fault # None => \E n \in DOMAIN exercised : exercised[n] = run.fault
    BY DEF ExerciseInv, None
  <2>5. run'.pc \in {"verdict", "caught", "finally", "over"} => ~state'.task
    <3>1. CASE FirstCheckpoint
      BY <3>1 DEF FirstCheckpoint, RunGoto
    <3>2. CASE Thrown \/ Close
      <4>1. checkpoint(TRUE)
        BY <3>2 DEF Thrown, Close
      <4>2. state'.task = FALSE
        BY <4>1 DEF checkpoint
      <4> QED BY <4>2
    <3>3. CASE Save
      BY <3>3 DEF Save
    <3> QED BY <1>1, <3>1, <3>2, <3>3
  <2> QED BY <2>2, <2>3, <2>4, <2>5
<1>2. CASE CrashExercise \/ ModelExercise \/ ToolExercise
  <2>1. exercised' = Append(exercised, run.armed) /\ state' = state
        /\ run'.pc \in {"crash", "close", "save"}
    BY <1>2 DEF CrashExercise, ModelExercise, ToolExercise, Exercise
  <2>2. \A n \in DOMAIN exercised : n \in DOMAIN exercised' /\ exercised'[n] = exercised[n]
    BY <2>1
  <2> QED BY <2>1, <2>2
<1>3. CASE Verdict \/ Caught \/ Finally
  BY <1>3 DEF Verdict, Caught, Finally, RunGoto
<1>4. CASE readPendingInstructions \/ StepsUsedUp \/ NoDecision \/ Done \/ InvalidCall \/ ToolCall
           \/ executeTool
  BY <1>4 DEF readPendingInstructions, StepsUsedUp, NoDecision, Done, InvalidCall, ToolCall,
              executeTool, RunGoto
<1>5. CASE ~RunStep
  BY <1>5, Elsewhere DEF NoState
<1> QED BY <1>1, <1>2, <1>3, <1>4, <1>5 DEF RunStep

LEMMA EndingsStep == RunInv /\ [RunNext]_runVars => EndingsInv'
<1> SUFFICES ASSUME RunInv, [RunNext]_runVars PROVE EndingsInv'
  OBVIOUS
<1> USE DEF RunInv, EndingsInv, RunTypeOK, Execution
<1>1. CASE Verdict
  <2>1. topic = <<>> /\ emitTerminalOnce(Outcome) /\ exercised' = exercised /\ broke' = broke
        /\ saidDone' = saidDone /\ run'.results = run.results
    BY <1>1 DEF Verdict, RunGoto, EmitterInv, Ended
  <2>2. topic' = <<>> \/ topic' = <<Outcome>>
    BY <2>1 DEF emitTerminalOnce
  <2>3. run.pc = "verdict" /\ ~broke
    BY <1>1 DEF Verdict, ReasonInv, Ended
  <2>4. /\ Outcome = "TASK_COMPLETED" =>
             saidDone /\ ~broke /\ run.results \subseteq {"success"} /\ exercised = <<>>
        /\ Outcome = "TASK_BLOCKED" => "blocked" \in run.results
        /\ Outcome = "TASK_FAILED" => ~saidDone \/ broke \/ "failed" \in run.results
    BY <2>3 DEF Outcome, decideTaskOutcome, Outcomes, ReasonInv, ExerciseInv, Ended, Stops
  <2> QED BY <2>1, <2>2, <2>4
<1>2. CASE Caught
  <2>1. topic = <<>> /\ emitTerminalOnce("TASK_FAILED") /\ broke' = broke /\ saidDone' = saidDone
    BY <1>2 DEF Caught, EmitterInv, Ended
  <2>2. topic' = <<>> \/ topic' = <<"TASK_FAILED">>
    BY <2>1 DEF emitTerminalOnce
  <2>3. broke \/ ~saidDone
    BY <1>2 DEF Caught, ReasonInv
  <2> QED BY <2>1, <2>2, <2>3
<1>3. CASE Finally
  BY <1>3 DEF Finally, emitTerminalOnce, EmitterInv, RunGoto
<1>4. CASE RunStep /\ ~(Verdict \/ Caught \/ Finally)
  <2>1. topic' = topic /\ ~Ended
    BY <1>4 DEF RunStep, FirstCheckpoint, readPendingInstructions, StepsUsedUp,
                CrashExercise, Thrown, ModelExercise, NoDecision, Done, InvalidCall, ToolCall,
                ToolExercise, executeTool, Save, Close, Deciding, Ended
  <2> QED BY <2>1 DEF EmitterInv
<1>5. CASE ~RunStep
  <2>1. topic' = topic /\ saidDone' = saidDone /\ exercised' = exercised
        /\ run'.results = run.results /\ (Ended => broke' = broke)
    BY <1>5, Elsewhere DEF Ended
  <2> QED BY <2>1 DEF EmitterInv
<1> QED BY <1>1, <1>2, <1>3, <1>4, <1>5

-----------------------------------------------------------------------------
LEMMA RunInductive == RunSpec => []RunInv
<1>1. RunInv /\ [RunNext]_runVars => RunInv'
  BY TypeStep, StepStep, EmitterStep, ReasonStep, ExerciseStep, CheckpointStep, EndingsStep DEF RunInv
<1> QED BY <1>1, RunInitInv, PTL DEF RunSpec

\* The states, documents and events are of their types, for every bound.
THEOREM RunTypeCorrect == RunSpec => []RunTypeOK
<1>1. RunInv => RunTypeOK
  BY DEF RunInv
<1> QED BY <1>1, RunInductive, PTL

\* A task ends at most once, and as it really ended.  (run.ts, task-outcome.ts)
THEOREM EndingIsTrue == RunSpec => []OneTrueEnding
<1>1. RunInv => OneTrueEnding
  BY DEF RunInv, EmitterInv, EndingsInv, OneTrueEnding
<1> QED BY <1>1, RunInductive, PTL

\* What a person is told of an exercise is so.  (faults.ts)
THEOREM ExerciseIsTrue == RunSpec => []TrialIsTrue
<1>1. RunInv => TrialIsTrue
  <2> SUFFICES ASSUME RunInv, NEW i \in Trials
      PROVE /\ trial(i) = "failed" => \E n \in DOMAIN exercised : exercised[n] = i
            /\ Closed => trial(i) # "queued"
            /\ Closed /\ state.exists /\ exercised # <<>> /\ exercised[Len(exercised)] = i
                 => trial(i) = "failed"
    BY DEF TrialIsTrue
  <2>1. i # None
    BY DEF Trials, RunInv, RunTypeOK, None
  <2>2. Closed => ~state.task /\ (state.exists => state.fault = run.fault)
    BY DEF Closed, RunInv, CheckpointInv
  <2>3. state.fault = i => \E n \in DOMAIN exercised : exercised[n] = i
    BY <2>1 DEF RunInv, CheckpointInv
  <2> QED BY <2>2, <2>3 DEF trial, RunInv, ExerciseInv
<1> QED BY <1>1, RunInductive, PTL

-----------------------------------------------------------------------------
(* The chain.  a is an agent, e an exp, s the time a request was sent.     *)

GrantBy(a, e) ==
  /\ e <= ExpiresAt[a] /\ e <= now + Grant
  /\ stopped[a] # Never => e <= stopped[a] + Handle + Grant

RedeemedBy(a, s) ==
  /\ s < ExpiresAt[a] + GrantLeeway
  /\ stopped[a] # Never => s < stopped[a] + Handle + Grant + GrantLeeway

TokenBy(a, e) ==
  /\ e <= now + Token
  /\ e < ExpiresAt[a] + GrantLeeway + Handle + Token
  /\ stopped[a] # Never => e < stopped[a] + Handle + Grant + GrantLeeway + Handle + Token

ServedBy(a, s) ==
  /\ s < ExpiresAt[a] + GrantLeeway + Handle + Token + Leeway
  /\ stopped[a] # Never =>
       s < stopped[a] + Handle + Grant + GrantLeeway + Handle + Token + Leeway

\* What a guard may have let through, or be about to.
Unrevoked(q) ==
  cut[q.agent] # Never =>
    /\ q.pc = "fill" /\ ~ q.seen => q.since <= cut[q.agent]
    /\ q.pc \in {"mint", "serving"} => q.since < cut[q.agent] + Handle + Cache

Placed(q) ==
  /\ q.pc # "idle" => q.agent \in Agents
  /\ q.pc \in {"ledger", "fill", "mint", "serving"} => q.proc \in Processes
  /\ q.pc = "mint" => q.proc \in Servers
  /\ q.pc = "serving" => q.proc \in Apis
  /\ q.pc \in ServicePcs => q.since <= now /\ now <= q.since + Handle

Bounded(q) ==
  /\ q.pc = "issue" /\ q.seen /\ stopped[q.agent] # Never => q.since <= stopped[q.agent]
  /\ q.pc = "granted" => GrantBy(q.agent, q.exp)
  /\ q.pc \in {"ledger", "fill", "mint"} /\ q.proc \in Servers => RedeemedBy(q.agent, q.since)
  /\ q.pc \in {"minted", "send"} => TokenBy(q.agent, q.exp)
  /\ q.pc \in {"ledger", "fill", "serving"} /\ q.proc \in Apis => ServedBy(q.agent, q.since)

Sound(q) == Placed(q) /\ Unrevoked(q) /\ Bounded(q)

Past ==
  \A a \in Agents :
    /\ cut[a] <= now /\ stopped[a] <= now
    /\ ledger[a] = Never <=> cut[a] = Never
    /\ status[a] = "issuable" <=> stopped[a] = Never

Entries ==
  \A p \in Processes, a \in Agents :
    /\ cache[p][a].readAt <= now
    /\ cache[p][a].readAt # Never /\ ~ cache[p][a].revoked /\ cut[a] # Never
         => cache[p][a].readAt <= cut[a] + Handle

HeldSound == \A a \in Agents : held[a].until # 0 => TokenBy(a, held[a].exp)

RequestsSound == \A r \in Requests : Sound(req[r])

IInv == TypeOK /\ now # Never /\ Past /\ Entries /\ HeldSound /\ RequestsSound

-----------------------------------------------------------------------------
LEMMA InitSound == Init => IInv
<1> USE ConstantsAssumption
<1> SUFFICES ASSUME Init PROVE IInv
  OBVIOUS
<1>1. NoRequest \in Request /\ NoToken \in [exp : Nat, until : Nat]
      /\ NoEntry \in [revoked : BOOLEAN, readAt : Nat]
  BY DEF NoRequest, Request, NoToken, NoEntry, Never
<1>2. TypeOK
  BY <1>1 DEF Init, TypeOK, NoRevocation, Statuses, Never
<1>3. now # Never /\ Past
  BY DEF Init, Past, Never
<1>4. Entries /\ HeldSound
  BY DEF Init, Entries, HeldSound, NoEntry, NoToken, Never
<1>5. Sound(NoRequest)
  BY DEF NoRequest, Sound, Placed, Unrevoked, Bounded, ServicePcs
<1>6. RequestsSound
  BY <1>5 DEF Init, RequestsSound
<1> QED
  BY <1>2, <1>3, <1>4, <1>6 DEF IInv

\* A step of one request and nothing else keeps IInv when the request it
\* leaves behind is sound.
LEMMA RequestStep ==
  ASSUME IInv, NEW r \in Requests, NEW q \in Request, Sound(q),
         req' = [req EXCEPT ![r] = q],
         UNCHANGED <<now, status, stopped, running, held, ledger, cut, cache, revoking, cleanup>>
  PROVE  IInv'
<1>1. TypeOK'
  BY DEF IInv, TypeOK
<1>2. (now # Never)' /\ Past' /\ Entries'
  BY DEF IInv, Past, Entries
<1>3. HeldSound'
  BY DEF IInv, HeldSound, TokenBy
<1>4. ASSUME NEW s \in Requests PROVE Sound(req[s])'
  <2>1. req'[s] = IF s = r THEN q ELSE req[s]
    BY DEF IInv, TypeOK
  <2>2. Sound(req'[s])
    BY <2>1 DEF IInv, RequestsSound
  <2> QED
    BY <2>2 DEF Sound, Placed, Unrevoked, Bounded, GrantBy, RedeemedBy, TokenBy, ServedBy
<1> QED
  BY <1>1, <1>2, <1>3, <1>4 DEF IInv, RequestsSound

LEMMA NothingLeft ==
  /\ NoRequest \in Request
  /\ Sound(NoRequest)
BY DEF NoRequest, Request, Sound, Placed, Unrevoked, Bounded, ServicePcs

LEMMA EndsSound ==
  ASSUME IInv, NEW r \in Requests, Ends(r),
         UNCHANGED <<now, status, stopped, running, held, ledger, cut, cache, revoking, cleanup>>
  PROVE  IInv'
BY NothingLeft, RequestStep DEF Ends

\* The request r with what is known of it.
LEMMA RequestTyped ==
  ASSUME IInv, NEW r \in Requests
  PROVE  /\ req[r] \in Request
         /\ Sound(req[r])
         /\ now \in Nat
BY DEF IInv, TypeOK, RequestsSound

-----------------------------------------------------------------------------
(* The call, step by step.                                                 *)

LEMMA CallSound ==
  ASSUME IInv, NEW r \in Requests, NEW a \in Agents, Call(r, a)
  PROVE  IInv'
<1> USE ConstantsAssumption
<1>1. CASE held[a].until > now + Skew
  <2> DEFINE q == [NoRequest EXCEPT !.pc = "send", !.agent = a, !.exp = held[a].exp]
  <2>1. held[a] \in [exp : Nat, until : Nat] /\ now \in Nat
    BY DEF IInv, TypeOK
  <2>2. TokenBy(a, held[a].exp)
    BY <1>1, <2>1 DEF IInv, HeldSound
  <2>3. q \in Request
    BY <2>1 DEF NoRequest, Request, RuntimePcs
  <2>4. Sound(q)
    BY <2>2 DEF NoRequest, Sound, Placed, Unrevoked, Bounded, ServicePcs
  <2>5. req' = [req EXCEPT ![r] = q]
    BY <1>1 DEF Call
  <2> QED
    BY <2>3, <2>4, <2>5, RequestStep DEF Call
<1>2. CASE ~(held[a].until > now + Skew)
  <2> DEFINE q == [NoRequest EXCEPT !.pc = "exchange", !.agent = a]
  <2>1. q \in Request
    BY DEF NoRequest, Request, RuntimePcs
  <2>2. Sound(q)
    BY DEF NoRequest, Sound, Placed, Unrevoked, Bounded, ServicePcs
  <2>3. req' = [req EXCEPT ![r] = q]
    BY <1>2 DEF Call
  <2> QED
    BY <2>1, <2>2, <2>3, RequestStep DEF Call
<1> QED
  BY <1>1, <1>2

LEMMA ExchangeSound ==
  ASSUME IInv, NEW r \in Requests, Exchange(r)
  PROVE  IInv'
<1> USE ConstantsAssumption
<1> DEFINE a == req[r].agent
           q == [req[r] EXCEPT !.pc = "issue", !.since = now, !.seen = (status[a] = "issuable")]
<1>1. CASE status[a] = "gone"
  BY <1>1, EndsSound DEF Exchange
<1>2. CASE status[a] # "gone"
  <2>1. req[r] \in Request /\ now \in Nat /\ a \in Agents
    BY RequestTyped DEF Exchange, At, Sound, Placed
  <2>2. q \in Request
    BY <2>1 DEF Request, ServicePcs
  <2>3. q.seen => stopped[a] = Never
    BY <2>1 DEF IInv, Past, Request
  <2>4. Sound(q)
    BY <2>1, <2>3 DEF Sound, Placed, Unrevoked, Bounded, ServicePcs, Request
  <2>5. req' = [req EXCEPT ![r] = q]
    BY <1>2, <2>1 DEF Exchange, IInv, TypeOK
  <2> HIDE DEF q
  <2> QED
    BY <2>2, <2>4, <2>5, RequestStep DEF Exchange
<1> QED
  BY <1>1, <1>2

LEMMA IssueSound ==
  ASSUME IInv, NEW r \in Requests, Issue(r)
  PROVE  IInv'
<1> USE ConstantsAssumption
<1> DEFINE a == req[r].agent
           q == [req[r] EXCEPT !.pc = "granted", !.exp = capExp(a)]
<1>1. CASE verifyAgentState(req[r].seen, a) /\ capExp(a) > now
  <2>1. req[r] \in Request /\ now \in Nat /\ a \in Agents /\ Sound(req[r])
    BY RequestTyped DEF Issue, At, Sound, Placed
  <2>2. ExpiresAt[a] \in Nat /\ stopped[a] \in Nat
    BY <2>1 DEF IInv, TypeOK
  <2>3. capExp(a) \in Nat /\ capExp(a) <= ExpiresAt[a] /\ capExp(a) <= now + Grant
    BY <2>1, <2>2 DEF capExp
  <2>4. stopped[a] # Never => now <= stopped[a] + Handle
    BY <1>1, <2>1, <2>2 DEF Issue, At, Sound, Placed, Bounded, verifyAgentState, ServicePcs, Request
  <2>5. GrantBy(a, capExp(a))
    BY <2>1, <2>2, <2>3, <2>4 DEF GrantBy
  <2>6. q \in Request
    BY <2>1, <2>3 DEF Request, RuntimePcs
  <2>7. Sound(q)
    BY <2>1, <2>5 DEF Sound, Placed, Unrevoked, Bounded, ServicePcs, Request
  <2>8. req' = [req EXCEPT ![r] = q]
    BY <1>1, <2>1 DEF Issue, IInv, TypeOK
  <2> HIDE DEF q
  <2> QED
    BY <2>6, <2>7, <2>8, RequestStep DEF Issue
<1>2. CASE ~(verifyAgentState(req[r].seen, a) /\ capExp(a) > now)
  BY <1>2, EndsSound DEF Issue
<1> QED
  BY <1>1, <1>2

LEMMA RedeemSound ==
  ASSUME IInv, NEW r \in Requests, NEW p \in Servers, Redeem(r, p)
  PROVE  IInv'
<1> USE ConstantsAssumption
<1> DEFINE a == req[r].agent
           q == [req[r] EXCEPT !.pc = "ledger", !.proc = p, !.since = now]
<1>1. CASE now < req[r].exp + GrantLeeway
  <2>1. req[r] \in Request /\ now \in Nat /\ a \in Agents /\ GrantBy(a, req[r].exp)
    BY RequestTyped DEF Redeem, At, Sound, Placed, Bounded
  <2>2. ExpiresAt[a] \in Nat /\ stopped[a] \in Nat /\ req[r].exp \in Nat
    BY <2>1 DEF IInv, TypeOK, Request
  <2>3. RedeemedBy(a, now)
    BY <1>1, <2>1, <2>2 DEF GrantBy, RedeemedBy
  <2>4. q \in Request
    BY <2>1 DEF Request, ServicePcs, Processes
  <2>5. Sound(q)
    BY <2>1, <2>3 DEF Sound, Placed, Unrevoked, Bounded, ServicePcs, Request, Processes
  <2>6. req' = [req EXCEPT ![r] = q]
    BY <1>1, <2>1 DEF Redeem, IInv, TypeOK
  <2> HIDE DEF q
  <2> QED
    BY <2>4, <2>5, <2>6, RequestStep DEF Redeem
<1>2. CASE ~(now < req[r].exp + GrantLeeway)
  BY <1>2, EndsSound DEF Redeem
<1> QED
  BY <1>1, <1>2

LEMMA MintSound ==
  ASSUME IInv, NEW r \in Requests, Mint(r)
  PROVE  IInv'
<1> USE ConstantsAssumption
<1> DEFINE a == req[r].agent
           q == [req[r] EXCEPT !.pc = "minted", !.exp = now + Token]
<1>1. req[r] \in Request /\ now \in Nat /\ a \in Agents /\ req[r].proc \in Servers
      /\ RedeemedBy(a, req[r].since) /\ now <= req[r].since + Handle
  BY RequestTyped DEF Mint, At, Sound, Placed, Bounded, ServicePcs
<1>2. ExpiresAt[a] \in Nat /\ stopped[a] \in Nat /\ req[r].since \in Nat
  BY <1>1 DEF IInv, TypeOK, Request
<1>3. TokenBy(a, now + Token)
  BY <1>1, <1>2 DEF RedeemedBy, TokenBy
<1>4. q \in Request
  <2>1. now + Token \in Nat
    BY <1>1
  <2> QED
    BY <1>1, <2>1 DEF Request, RuntimePcs, ServicePcs
<1>5. Sound(q)
  BY <1>1, <1>3 DEF Sound, Placed, Unrevoked, Bounded, ServicePcs, Request
<1>6. req' = [req EXCEPT ![r] = q]
  BY <1>1 DEF Mint, IInv, TypeOK
<1> HIDE DEF q
<1> QED
  BY <1>4, <1>5, <1>6, RequestStep DEF Mint

LEMMA SendSound ==
  ASSUME IInv, NEW r \in Requests, NEW p \in Apis, Send(r, p)
  PROVE  IInv'
<1> USE ConstantsAssumption
<1> DEFINE a == req[r].agent
           q == [req[r] EXCEPT !.pc = "ledger", !.proc = p, !.since = now]
<1>1. CASE req[r].exp < now - Leeway
  BY <1>1, EndsSound DEF Send
<1>2. CASE ~(req[r].exp < now - Leeway)
  <2>1. req[r] \in Request /\ now \in Nat /\ a \in Agents /\ TokenBy(a, req[r].exp)
    BY RequestTyped DEF Send, At, Sound, Placed, Bounded
  <2>2. ExpiresAt[a] \in Nat /\ stopped[a] \in Nat /\ req[r].exp \in Nat
    BY <2>1 DEF IInv, TypeOK, Request
  <2>3. ServedBy(a, now)
    BY <1>2, <2>1, <2>2 DEF TokenBy, ServedBy
  <2>4. q \in Request
    BY <2>1 DEF Request, ServicePcs, Processes
  <2>5. Sound(q)
    BY <2>1, <2>3 DEF Sound, Placed, Unrevoked, Bounded, ServicePcs, Request, Processes
  <2>6. req' = [req EXCEPT ![r] = q]
    BY <1>2, <2>1 DEF Send, IInv, TypeOK
  <2> HIDE DEF q
  <2> QED
    BY <2>4, <2>5, <2>6, RequestStep DEF Send
<1> QED
  BY <1>1, <1>2

\* What a guard lets through is sound when its answer was not from too long
\* before the revocation.
LEMMA JudgedSound ==
  ASSUME IInv, NEW r \in Requests, NEW revoked \in BOOLEAN,
         req[r].pc \in {"ledger", "fill"},
         ~ revoked /\ cut[req[r].agent] # Never =>
           req[r].since < cut[req[r].agent] + Handle + Cache
  PROVE  Judged(r, revoked) \in Request /\ Sound(Judged(r, revoked))
<1> USE ConstantsAssumption
<1>1. CASE revoked
  BY <1>1, NothingLeft DEF Judged
<1>2. CASE ~ revoked
  <2> DEFINE q == [req[r] EXCEPT !.pc = IF req[r].proc \in Servers THEN "mint" ELSE "serving",
                                 !.seen = FALSE]
  <2>1. req[r] \in Request /\ Sound(req[r]) /\ req[r].agent \in Agents
        /\ req[r].proc \in Processes
    BY RequestTyped DEF Sound, Placed
  <2>2. q \in Request
    BY <2>1 DEF Request, ServicePcs
  <2>3. Placed(q) /\ Bounded(q)
    BY <2>1 DEF Sound, Placed, Bounded, ServicePcs, Request, Processes
  <2>4. Unrevoked(q)
    BY <1>2, <2>1 DEF Unrevoked, Request
  <2>5. Judged(r, revoked) = q
    BY <1>2 DEF Judged
  <2> QED
    BY <2>2, <2>3, <2>4, <2>5 DEF Sound
<1> QED
  BY <1>1, <1>2

LEMMA CacheAnswersSound ==
  ASSUME IInv, NEW r \in Requests, CacheAnswers(r)
  PROVE  IInv'
<1> USE ConstantsAssumption
<1> DEFINE a == req[r].agent
           entry == cache[req[r].proc][a]
<1>1. req[r] \in Request /\ now \in Nat /\ a \in Agents /\ req[r].proc \in Processes
      /\ req[r].since <= now
  BY RequestTyped DEF CacheAnswers, At, Sound, Placed, ServicePcs
<1>2. entry \in [revoked : BOOLEAN, readAt : Nat] /\ cut[a] \in Nat /\ req[r].since \in Nat
  BY <1>1 DEF IInv, TypeOK, Request
<1>3. entry.readAt # Never /\ now - entry.readAt < Cache
  BY DEF CacheAnswers, Fresh
<1>4. ~ entry.revoked /\ cut[a] # Never => entry.readAt <= cut[a] + Handle
  BY <1>1, <1>3 DEF IInv, Entries
<1>5. ~ entry.revoked /\ cut[a] # Never => req[r].since < cut[a] + Handle + Cache
  BY <1>1, <1>2, <1>3, <1>4
<1>6. Judged(r, entry.revoked) \in Request /\ Sound(Judged(r, entry.revoked))
  BY <1>2, <1>5, JudgedSound DEF CacheAnswers, At
<1>7. req' = [req EXCEPT ![r] = Judged(r, entry.revoked)]
  BY DEF CacheAnswers
<1> HIDE DEF entry
<1> QED
  BY <1>6, <1>7, RequestStep DEF CacheAnswers

LEMMA LedgerReadSound ==
  ASSUME IInv, NEW r \in Requests, LedgerRead(r)
  PROVE  IInv'
<1> USE ConstantsAssumption
<1> DEFINE a == req[r].agent
           q == [req[r] EXCEPT !.pc = "fill", !.seen = (ledger[a] # Never)]
<1>1. req[r] \in Request /\ now \in Nat /\ a \in Agents /\ Sound(req[r])
  BY RequestTyped DEF LedgerRead, At, Sound, Placed
<1>2. ~ q.seen => cut[a] = Never
  BY <1>1 DEF IInv, Past, Request
<1>3. q \in Request
  BY <1>1 DEF Request, ServicePcs
<1>4. Placed(q) /\ Bounded(q)
  BY <1>1 DEF LedgerRead, At, Sound, Placed, Bounded, ServicePcs, Request
<1>5. Unrevoked(q)
  BY <1>1, <1>2 DEF Unrevoked, Request
<1>6. req' = [req EXCEPT ![r] = q]
  BY <1>1 DEF LedgerRead, IInv, TypeOK
<1> HIDE DEF q
<1> QED
  BY <1>3, <1>4, <1>5, <1>6, RequestStep DEF LedgerRead, Sound

LEMMA GiveUpOrServeSound ==
  ASSUME IInv, NEW r \in Requests, GiveUp(r) \/ Serve(r)
  PROVE  IInv'
BY EndsSound DEF GiveUp, Serve

-----------------------------------------------------------------------------
(* Steps that change more than a request.                                  *)

LEMMA ReceiveSound ==
  ASSUME IInv, NEW r \in Requests, Receive(r)
  PROVE  IInv'
<1> USE ConstantsAssumption
<1> DEFINE a == req[r].agent
           h == [exp |-> req[r].exp, until |-> req[r].since + Token]
           q == [req[r] EXCEPT !.pc = "send"]
<1>1. req[r] \in Request /\ now \in Nat /\ a \in Agents /\ TokenBy(a, req[r].exp)
      /\ Sound(req[r])
  BY RequestTyped DEF Receive, At, Sound, Placed, Bounded
<1>2. h \in [exp : Nat, until : Nat]
  BY <1>1 DEF Request
<1>3. q \in Request
  BY <1>1 DEF Request, RuntimePcs, ServicePcs
<1>4. Sound(q)
  BY <1>1 DEF Sound, Placed, Unrevoked, Bounded, ServicePcs, Request
<1>5. req' = [req EXCEPT ![r] = q] /\ held' = [held EXCEPT ![a] = h]
      /\ UNCHANGED <<now, status, stopped, running, ledger, cut, cache, revoking, cleanup>>
  BY DEF Receive, Goto
<1> DEFINE old == req[r].exp
<1>10. h.exp = old
  OBVIOUS
<1> HIDE DEF q, h, old
<1>6. TypeOK'
  BY <1>1, <1>2, <1>3, <1>5 DEF IInv, TypeOK
<1>7. (now # Never)' /\ Past' /\ Entries'
  BY DEF Receive, IInv, Past, Entries
<1>8. HeldSound'
  <2> SUFFICES ASSUME NEW b \in Agents, held'[b].until # 0
               PROVE  TokenBy(b, held[b].exp)'
    BY DEF HeldSound
  <2>1. CASE b = a
    <3>1. held'[b] = h
      BY <1>5, <2>1 DEF IInv, TypeOK
    <3>2. TokenBy(b, h.exp)
      BY <1>1, <1>10, <2>1 DEF old
    <3> QED
      BY <1>5, <3>1, <3>2 DEF TokenBy
  <2>2. CASE b # a
    <3>1. held'[b] = held[b]
      BY <1>5, <2>2 DEF IInv, TypeOK
    <3>2. TokenBy(b, held[b].exp)
      BY <3>1 DEF IInv, HeldSound
    <3> QED
      BY <1>5, <3>1, <3>2 DEF TokenBy
  <2> QED
    BY <2>1, <2>2
<1>9. ASSUME NEW s \in Requests PROVE Sound(req[s])'
  <2>1. Sound(req'[s])
    BY <1>4, <1>5 DEF IInv, TypeOK, RequestsSound
  <2> QED
    BY <2>1 DEF Receive, Sound, Placed, Unrevoked, Bounded, GrantBy, RedeemedBy, TokenBy, ServedBy
<1> QED
  BY <1>6, <1>7, <1>8, <1>9 DEF IInv, RequestsSound

LEMMA CacheFillSound ==
  ASSUME IInv, NEW r \in Requests, CacheFill(r)
  PROVE  IInv'
<1> USE ConstantsAssumption
<1> DEFINE a == req[r].agent
           p == req[r].proc
           e == [revoked |-> req[r].seen, readAt |-> now]
           q == Judged(r, req[r].seen)
           row == [cache[p] EXCEPT ![a] = e]
<1>1. req[r] \in Request /\ now \in Nat /\ a \in Agents /\ p \in Processes /\ Sound(req[r])
  BY RequestTyped DEF CacheFill, At, Sound, Placed
<1>2. req[r].since \in Nat /\ cut[a] \in Nat /\ req[r].seen \in BOOLEAN
  BY <1>1 DEF IInv, TypeOK, Request
<1>3. ~ req[r].seen /\ cut[a] # Never => req[r].since <= cut[a]
  BY <1>1 DEF CacheFill, At, Sound, Unrevoked
<1>4. now <= req[r].since + Handle
  BY <1>1 DEF CacheFill, At, Sound, Placed, ServicePcs
<1>5. q \in Request /\ Sound(q)
  BY <1>2, <1>3, JudgedSound DEF CacheFill, At
<1>6. req' = [req EXCEPT ![r] = q]
  BY DEF CacheFill
<1>7. e \in [revoked : BOOLEAN, readAt : Nat]
  BY <1>1, <1>2
<1>8. row \in [Agents -> [revoked : BOOLEAN, readAt : Nat]]
  BY <1>1, <1>7 DEF IInv, TypeOK
<1>9. cache' = [cache EXCEPT ![p] = row]
      /\ UNCHANGED <<now, status, stopped, running, held, ledger, cut, revoking, cleanup>>
  BY DEF CacheFill
<1>15. /\ row[a] = e
       /\ \A b \in Agents : b # a => row[b] = cache[p][b]
  BY <1>1 DEF IInv, TypeOK
<1> HIDE DEF q, row
<1>10. TypeOK'
  BY <1>5, <1>6, <1>8, <1>9 DEF IInv, TypeOK
<1>11. (now # Never)' /\ Past'
  BY DEF CacheFill, IInv, Past
<1>12. Entries'
  <2> SUFFICES ASSUME NEW p1 \in Processes, NEW b \in Agents
               PROVE  /\ cache'[p1][b].readAt <= now'
                      /\ cache'[p1][b].readAt # Never /\ ~ cache'[p1][b].revoked /\ cut'[b] # Never
                           => cache'[p1][b].readAt <= cut'[b] + Handle
    BY DEF Entries
  <2>1. CASE p1 = p /\ b = a
    <3>1. cache'[p1][b] = e
      BY <1>1, <1>9, <1>15, <2>1 DEF IInv, TypeOK
    <3> QED
      BY <1>1, <1>2, <1>3, <1>4, <2>1, <3>1 DEF CacheFill
  <2>2. CASE ~(p1 = p /\ b = a)
    <3>1. cache'[p1][b] = cache[p1][b]
      BY <1>1, <1>9, <1>15, <2>2 DEF IInv, TypeOK
    <3> QED
      BY <3>1 DEF CacheFill, IInv, Entries
  <2> QED
    BY <2>1, <2>2
<1>13. HeldSound'
  BY DEF CacheFill, IInv, HeldSound, TokenBy
<1>14. ASSUME NEW s \in Requests PROVE Sound(req[s])'
  <2>1. Sound(req'[s])
    BY <1>5, <1>6 DEF IInv, TypeOK, RequestsSound
  <2> QED
    BY <2>1 DEF CacheFill, Sound, Placed, Unrevoked, Bounded, GrantBy, RedeemedBy, TokenBy, ServedBy
<1> QED
  BY <1>10, <1>11, <1>12, <1>13, <1>14 DEF IInv, RequestsSound

\* A step that leaves every request alone keeps them sound, given that it
\* moves neither the clock nor what is known of any agent's end.
LEMMA RequestsUntouched ==
  ASSUME IInv, UNCHANGED <<now, stopped, cut, req>>
  PROVE  RequestsSound'
<1> SUFFICES ASSUME NEW s \in Requests PROVE Sound(req[s])'
  BY DEF RequestsSound
<1>1. Sound(req[s])
  BY DEF IInv, RequestsSound
<1> QED
  BY <1>1 DEF Sound, Placed, Unrevoked, Bounded, GrantBy, RedeemedBy, TokenBy, ServedBy

LEMMA RestartSound ==
  ASSUME IInv, NEW p \in Processes, Restart(p)
  PROVE  IInv'
<1> USE ConstantsAssumption
<1>1. NoEntry \in [revoked : BOOLEAN, readAt : Nat] /\ NoEntry.readAt = Never
  BY DEF NoEntry, Never
<1>2. TypeOK'
  BY <1>1, NothingLeft DEF Restart, IInv, TypeOK
<1>3. (now # Never)' /\ Past'
  BY DEF Restart, IInv, Past
<1>4. Entries'
  BY <1>1 DEF Restart, IInv, TypeOK, Entries, Never
<1>5. HeldSound'
  BY DEF Restart, IInv, HeldSound, TokenBy
<1>6. ASSUME NEW s \in Requests PROVE Sound(req[s])'
  <2>1. Sound(req'[s])
    BY NothingLeft DEF Restart, IInv, RequestsSound
  <2> QED
    BY <2>1 DEF Restart, Sound, Placed, Unrevoked, Bounded, GrantBy, RedeemedBy, TokenBy, ServedBy
<1> QED
  BY <1>2, <1>3, <1>4, <1>5, <1>6 DEF IInv, RequestsSound

\* Time passes: nothing that is bounded from above by the past moves.
LEMMA TickSound ==
  ASSUME IInv, Tick
  PROVE  IInv'
<1> USE ConstantsAssumption
<1>1. now \in Nat /\ now' = now + 1
      /\ UNCHANGED <<status, stopped, running, held, ledger, cut, cache, req, revoking, cleanup>>
  BY DEF Tick, IInv, TypeOK
<1>2. TypeOK' /\ (now # Never)'
  BY <1>1 DEF IInv, TypeOK, Never
<1>3. Past'
  BY <1>1 DEF IInv, TypeOK, Past
<1>4. Entries'
  BY <1>1 DEF IInv, TypeOK, Entries
<1>5. HeldSound'
  <2> SUFFICES ASSUME NEW b \in Agents, held[b].until # 0
               PROVE  TokenBy(b, held[b].exp)'
    BY <1>1 DEF HeldSound
  <2>1. TokenBy(b, held[b].exp) /\ held[b].exp \in Nat
    BY DEF IInv, HeldSound, TypeOK
  <2> QED
    BY <1>1, <2>1 DEF TokenBy
<1>6. ASSUME NEW s \in Requests PROVE Sound(req[s])'
  <2> DEFINE q == req[s]
  <2>1. q \in Request /\ Sound(q)
    BY RequestTyped
  <2>2. Placed(q)'
    BY <1>1, <2>1 DEF Tick, Sound, Placed, Request
  <2>3. Unrevoked(q)'
    BY <1>1, <2>1 DEF Sound, Unrevoked
  <2>4. q.exp \in Nat /\ q.since \in Nat
    BY <2>1 DEF Request
  <2>5. q' = q
    BY <1>1
  <2> HIDE DEF q
  <2>6. Bounded(q)'
    BY <1>1, <2>1, <2>4, <2>5 DEF Sound, Bounded, GrantBy, RedeemedBy, TokenBy, ServedBy
  <2> QED
    BY <2>2, <2>3, <2>6 DEF Sound, q
<1> QED
  BY <1>2, <1>3, <1>4, <1>5, <1>6 DEF IInv, RequestsSound

LEMMA RevokeFindsSound ==
  ASSUME IInv, NEW c \in RevokeCalls, NEW a \in Agents, NEW p \in Apis, RevokeFinds(c, a, p)
  PROVE  IInv'
<1>1. TypeOK'
  BY DEF RevokeFinds, IInv, TypeOK
<1>2. (now # Never)' /\ Past' /\ Entries' /\ HeldSound'
  BY DEF RevokeFinds, IInv, Past, Entries, HeldSound, TokenBy
<1>3. RequestsSound'
  BY RequestsUntouched DEF RevokeFinds
<1> QED
  BY <1>1, <1>2, <1>3 DEF IInv

LEMMA RuntimeCancelSound ==
  ASSUME IInv, NEW a \in Agents, NEW succeeds \in BOOLEAN, RuntimeCancel(a, succeeds)
  PROVE  IInv'
<1>1. NoToken \in [exp : Nat, until : Nat] /\ NoToken.until = 0
  BY DEF NoToken
<1>2. TypeOK'
  BY <1>1 DEF RuntimeCancel, IInv, TypeOK
<1>3. (now # Never)' /\ Past' /\ Entries'
  BY DEF RuntimeCancel, IInv, Past, Entries
<1>4. \A b \in Agents : held'[b] = held[b] \/ held'[b] = NoToken
  BY DEF RuntimeCancel, IInv, TypeOK
<1>5. HeldSound'
  <2> SUFFICES ASSUME NEW b \in Agents, held'[b].until # 0
               PROVE  TokenBy(b, held[b].exp)'
    BY DEF HeldSound
  <2>1. held'[b] = held[b]
    BY <1>1, <1>4
  <2>2. TokenBy(b, held[b].exp)
    BY <2>1 DEF IInv, HeldSound
  <2> QED
    BY <2>1, <2>2 DEF RuntimeCancel, TokenBy
<1>6. RequestsSound'
  BY RequestsUntouched DEF RuntimeCancel
<1> QED
  BY <1>2, <1>3, <1>5, <1>6 DEF IInv

LEMMA CredentialRevokeSound ==
  ASSUME IInv, NEW a \in Agents, CredentialRevoke(a)
  PROVE  IInv'
<1>1. TypeOK'
  BY DEF CredentialRevoke, IInv, TypeOK
<1>2. (now # Never)' /\ Past' /\ Entries' /\ HeldSound'
  BY DEF CredentialRevoke, IInv, Past, Entries, HeldSound, TokenBy
<1>3. RequestsSound'
  BY RequestsUntouched DEF CredentialRevoke
<1> QED
  BY <1>1, <1>2, <1>3 DEF IInv

\* An agent is revoked: whatever was let through, or read, before is from
\* before now.
LEMMA RevokeWritesSound ==
  ASSUME IInv, NEW c \in RevokeCalls, RevokeWrites(c)
  PROVE  IInv'
<1> USE ConstantsAssumption
<1> DEFINE a == revoking[c].agent
           p == revoking[c].proc
           row == [cache[p] EXCEPT ![a] = NoEntry]
<1>1. now \in Nat /\ now # Never /\ a \in Agents /\ p \in Processes
  BY DEF RevokeWrites, NoRevocation, Processes, IInv, TypeOK
<1>2. /\ ledger' = [ledger EXCEPT ![a] = now]
      /\ cut' = [cut EXCEPT ![a] = IF @ = Never THEN now ELSE @]
      /\ cache' = [cache EXCEPT ![p] = row]
      /\ revoking' = [revoking EXCEPT ![c] = NoRevocation]
      /\ UNCHANGED <<now, status, stopped, running, held, req, cleanup>>
  BY DEF RevokeWrites
<1>3. NoEntry \in [revoked : BOOLEAN, readAt : Nat] /\ NoEntry.readAt = Never
  BY DEF NoEntry, Never
<1>4. /\ row \in [Agents -> [revoked : BOOLEAN, readAt : Nat]]
      /\ row[a] = NoEntry
      /\ \A b \in Agents : b # a => row[b] = cache[p][b]
  BY <1>1, <1>3 DEF IInv, TypeOK
<1> HIDE DEF row
<1>6. TypeOK'
  BY <1>1, <1>2, <1>4 DEF IInv, TypeOK
<1>7. \A b \in Agents : cut[b] \in Nat /\ cut[b] <= now
                        /\ cut'[b] = IF b = a /\ cut[a] = Never THEN now ELSE cut[b]
  BY <1>1, <1>2 DEF IInv, TypeOK, Past
<1>8. (now # Never)' /\ Past'
  BY <1>1, <1>2, <1>7 DEF IInv, TypeOK, Past
<1>9. Entries'
  <2> SUFFICES ASSUME NEW p1 \in Processes, NEW b \in Agents
               PROVE  /\ cache'[p1][b].readAt <= now'
                      /\ cache'[p1][b].readAt # Never /\ ~ cache'[p1][b].revoked /\ cut'[b] # Never
                           => cache'[p1][b].readAt <= cut'[b] + Handle
    BY DEF Entries
  <2>1. cache'[p1][b] = IF p1 = p /\ b = a THEN NoEntry ELSE cache[p1][b]
    BY <1>1, <1>2, <1>4 DEF IInv, TypeOK
  <2>2. cache[p1][b].readAt <= now /\ cache[p1][b].readAt \in Nat
    BY DEF IInv, Entries, TypeOK
  <2>3. cache[p1][b].readAt # Never /\ ~ cache[p1][b].revoked /\ cut[b] # Never
                           => cache[p1][b].readAt <= cut[b] + Handle
    BY DEF IInv, Entries
  <2> QED
    BY <1>1, <1>2, <1>3, <1>7, <2>1, <2>2, <2>3 DEF Never
<1>10. HeldSound'
  BY <1>2 DEF IInv, HeldSound, TokenBy
<1>11. ASSUME NEW s \in Requests PROVE Sound(req[s])'
  <2> DEFINE q == req[s]
  <2>1. q \in Request /\ Sound(q) /\ q' = q
    BY <1>2, RequestTyped
  <2>2. q.since \in Nat /\ (q.pc # "idle" => q.agent \in Agents)
        /\ (q.pc \in ServicePcs => q.since <= now)
    BY <2>1 DEF Request, Sound, Placed
  <2> HIDE DEF q
  <2>3. Placed(q)' /\ Bounded(q)'
    BY <1>2, <2>1 DEF Sound, Placed, Bounded, GrantBy, RedeemedBy, TokenBy, ServedBy
  <2>4. Unrevoked(q)'
    <3>1. CASE q.pc \in {"fill", "mint", "serving"}
      BY <1>1, <1>2, <1>7, <2>1, <2>2, <3>1 DEF Sound, Unrevoked, ServicePcs
    <3>2. CASE q.pc \notin {"fill", "mint", "serving"}
      BY <2>1, <3>2 DEF Unrevoked
    <3> QED
      BY <3>1, <3>2
  <2> QED
    BY <2>3, <2>4 DEF Sound, q
<1> QED
  BY <1>6, <1>8, <1>9, <1>10, <1>11 DEF IInv, RequestsSound

\* An agent is stopped: whatever it was granted before, it was by now.
LEMMA StopIssuingSound ==
  ASSUME IInv, NEW a \in Agents, NEW to \in {"stopped", "gone"}, StopIssuing(a, to),
         UNCHANGED <<now, running, held, ledger, cut, cache, req, revoking>>, TypeOK'
  PROVE  IInv'
<1> USE ConstantsAssumption
<1>1. now \in Nat /\ now # Never
  BY DEF IInv, TypeOK
<1>2. \A b \in Agents :
        /\ stopped[b] \in Nat /\ stopped[b] <= now
        /\ stopped'[b] = IF b = a /\ stopped[a] = Never THEN now ELSE stopped[b]
        /\ status'[b] = IF b = a THEN to ELSE status[b]
  BY DEF StopIssuing, IInv, TypeOK, Past
<1>3. Past'
  BY <1>1, <1>2 DEF IInv, Past
<1>4. Entries'
  BY DEF IInv, Entries
<1>5. ASSUME NEW b \in Agents, NEW e \in Nat PROVE TokenBy(b, e) => TokenBy(b, e)'
  BY <1>1, <1>2 DEF TokenBy
<1>6. ASSUME NEW b \in Agents, NEW s \in Nat, s <= now PROVE ServedBy(b, s) => ServedBy(b, s)'
  BY <1>1, <1>2, <1>6 DEF ServedBy
<1>7. ASSUME NEW b \in Agents, NEW s \in Nat, s <= now
      PROVE  RedeemedBy(b, s) => RedeemedBy(b, s)'
  BY <1>1, <1>2, <1>7 DEF RedeemedBy
<1>8. ASSUME NEW b \in Agents, NEW e \in Nat PROVE GrantBy(b, e) => GrantBy(b, e)'
  BY <1>1, <1>2 DEF GrantBy
<1>9. HeldSound'
  BY <1>5 DEF IInv, TypeOK, HeldSound
<1>10. ASSUME NEW s \in Requests PROVE Sound(req[s])'
  <2> DEFINE q == req[s]
  <2>1. q \in Request /\ Sound(q) /\ q' = q
    BY RequestTyped
  <2>2. q.since \in Nat /\ q.exp \in Nat /\ (q.pc # "idle" => q.agent \in Agents)
        /\ (q.pc \in ServicePcs => q.since <= now)
    BY <2>1 DEF Request, Sound, Placed
  <2> HIDE DEF q
  <2>3. Placed(q)' /\ Unrevoked(q)'
    BY <2>1 DEF Sound, Placed, Unrevoked
  <2>4. q.pc = "issue" /\ q.seen /\ stopped'[q.agent] # Never => q.since <= stopped'[q.agent]
    BY <1>1, <1>2, <2>1, <2>2 DEF Sound, Bounded, ServicePcs
  <2>5. Bounded(q)'
    BY <1>5, <1>6, <1>7, <1>8, <2>1, <2>2, <2>4 DEF Sound, Bounded, ServicePcs
  <2> QED
    BY <2>3, <2>5 DEF Sound, q
<1> QED
  BY <1>1, <1>3, <1>4, <1>9, <1>10 DEF IInv, RequestsSound

LEMMA StopStepSound ==
  ASSUME IInv, NEW a \in Agents, StopStep(a)
  PROVE  IInv'
<1>1. CASE Quarantine(a)
  <2>1. TypeOK'
    BY <1>1 DEF Quarantine, StopIssuing, IInv, TypeOK, Statuses
  <2> QED
    BY <1>1, <2>1, StopIssuingSound DEF Quarantine
<1>2. CASE CleanupStarts(a)
  <2>1. TypeOK'
    BY <1>2 DEF CleanupStarts, StopIssuing, IInv, TypeOK, Statuses
  <2> QED
    BY <1>2, <2>1, StopIssuingSound DEF CleanupStarts
<1>3. CASE AuditPersist(a)
  <2>1. TypeOK'
    BY <1>3 DEF AuditPersist, StopIssuing, IInv, TypeOK, Statuses
  <2> QED
    BY <1>3, <2>1, StopIssuingSound DEF AuditPersist
<1> QED
  BY <1>1, <1>2, <1>3, RuntimeCancelSound, CredentialRevokeSound DEF StopStep

LEMMA CallStepSound ==
  ASSUME IInv, NEW r \in Requests, CallStep(r)
  PROVE  IInv'
BY CallSound, ExchangeSound, IssueSound, RedeemSound, MintSound, ReceiveSound, SendSound,
   GiveUpOrServeSound, CacheAnswersSound, LedgerReadSound, CacheFillSound
   DEF CallStep

LEMMA NothingHappensSound ==
  ASSUME IInv, UNCHANGED vars
  PROVE  IInv'
<1>1. TypeOK' /\ (now # Never)' /\ Past' /\ Entries' /\ HeldSound'
  BY DEF vars, IInv, TypeOK, Past, Entries, HeldSound, TokenBy
<1>2. RequestsSound'
  BY RequestsUntouched DEF vars
<1> QED
  BY <1>1, <1>2 DEF IInv

\* IInv holds of every state: the strengthening the bounds rest on.
LEMMA Inductive == Spec => []IInv
<1>1. IInv /\ [Next]_vars => IInv'
  <2> SUFFICES ASSUME IInv, [Next]_vars PROVE IInv'
    OBVIOUS
  <2>1. CASE Next
    BY <2>1, TickSound, CallStepSound, RestartSound, RevokeWritesSound, RevokeFindsSound,
       StopStepSound DEF Next
  <2>2. CASE UNCHANGED vars
    BY <2>2, NothingHappensSound
  <2> QED
    BY <2>1, <2>2
<1> QED
  BY <1>1, InitSound, PTL DEF Spec

-----------------------------------------------------------------------------
(* The theorems.                                                           *)

\* Every variable keeps its type.
THEOREM TypeCorrect == Spec => []TypeOK
<1>1. IInv => TypeOK
  BY DEF IInv
<1> QED
  BY <1>1, Inductive, PTL

\* After a revocation is written, no guard lets a request of the actor through
\* that was sent later than the time of a request and the lifetime of a cache
\* entry from it, however many processes, caches and calls there are.
THEOREM RevocationTakesEffect == Spec => []RevokedIsRefused
<1>1. IInv => RevokedIsRefused
  BY DEF IInv, RequestsSound, Sound, Unrevoked, RevokedIsRefused
<1> QED
  BY <1>1, Inductive, PTL

\* An agent that is no longer issuable is served nothing that was sent later
\* than the lifetimes of what it can have held, even when nobody revokes it.
THEOREM StoppingTakesEffect == Spec => []StoppedRunsOut
<1>1. IInv => StoppedRunsOut
  BY DEF IInv, RequestsSound, Sound, Placed, Bounded, ServedBy, StoppedRunsOut, At
<1> QED
  BY <1>1, Inductive, PTL

\* The lifetime of an agent bounds what it is served, though no access token
\* carries it.
THEOREM ExpiryTakesEffect == Spec => []ExpiredRunsOut
<1>1. IInv => ExpiredRunsOut
  BY DEF IInv, RequestsSound, Sound, Placed, Bounded, ServedBy, ExpiredRunsOut, At
<1> QED
  BY <1>1, Inductive, PTL
=============================================================================
