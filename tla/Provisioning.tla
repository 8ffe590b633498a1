----------------------------- MODULE Provisioning -----------------------------
(***************************************************************************)
(* How an agent comes to be: the Provisioner's ordered list of steps and   *)
(* the undoing of it, the two consents it pauses for (the identity         *)
(* provider's, by way of the Agent OP, and that of the outside service, by *)
(* way of the Google Bridge), the resume requests that pick it up again,   *)
(* and what the Lifecycle Manager does to it meanwhile.                    *)
(*                                                                         *)
(* One Firestore transaction row per agent carries the state.  The row is  *)
(* read, checked and written in separate calls, by several requests at     *)
(* once, and by the Agent OP, the sweep and the subscriber without any     *)
(* check at all.  Each await of the code is a place where another one may  *)
(* run, where a call may fail or where the instance may die.               *)
(*                                                                         *)
(* A full-isolation agent's dedicated resources (service accounts, keys,   *)
(* service, job) are one resource here; all agents act for one person,     *)
(* whose connection to the outside service they share.  What a cleanup     *)
(* does in detail is the subject of AgentLifecycle.                        *)
(***************************************************************************)
EXTENDS Integers, FiniteSets

CONSTANTS
  Agents,
  Full,       \* agents that get dedicated resources (full_isolation)
  Bridged,    \* agents with a tool behind the Bridge
  Capacity,   \* config.maxFullIsolationAgents
  First,      \* the request that starts a provisioning
  Resumes,    \* requests that may resume it, per agent
  Callbacks,  \* browser returns to the Agent OP, per agent
  MaxStarts,  \* bound on visits to the Bridge's consent URL, per agent
  MaxFaults   \* bound on failed calls and crashes in a behaviour

Runs == Resumes \union {First}

ASSUME ConstantsAssumption ==
  /\ Full \subseteq Agents
  /\ Bridged \subseteq Agents
  /\ Capacity \in Nat
  /\ First \notin Resumes
  /\ MaxStarts \in Nat
  /\ MaxFaults \in Nat

VARIABLES
  txn,        \* status of the row in provisioning_transactions
  stale,      \* agents whose row is older than TRANSACTION_TTL_SECONDS
  meta,       \* agents/{agent_id}/meta: its status, and whether it names a job
  executions, \* job executions started, per agent
  dedicated,  \* the row in dedicated_resources, and what it stands for
  holders,    \* the slot register
  op,         \* the Agent OP's consent state, connection and one-time code
  bridge,     \* the Bridge's consent states, one-time codes and bindings
  granted,    \* whether the person's connection to the outside service exists
  run,        \* per agent and request, how far the request is
  back,       \* per agent and browser return, how far it is
  sweeping,   \* agents whose row the sweep has read as stale and unfinished
  disable,    \* how far the person's identity-disabled event is
  cleaning,   \* agents whose cleanup has begun
  faults      \* failed calls and crashes so far

rows     == <<txn, stale, meta, dedicated, holders>>
outside  == <<executions, op, bridge, granted>>
lm       == <<sweeping, disable, cleaning>>
vars     == <<rows, outside, run, back, lm, faults>>

-----------------------------------------------------------------------------
(* The transaction row.                                                    *)

Unfinished == {"CREATED", "WAITING_IDP_CONSENT", "WAITING_EXTERNAL_CONSENT",
               "RESUMABLE", "PROVISIONING"}
TERMINAL_STATUSES    == {"COMPLETED", "FAILED", "ABANDONED"}
TRANSACTION_STATUSES == Unfinished \union TERMINAL_STATUSES
NoRow == "absent"

ALLOWED ==
  [s \in TRANSACTION_STATUSES |->
     CASE s = "CREATED" ->
            {"WAITING_IDP_CONSENT", "WAITING_EXTERNAL_CONSENT", "PROVISIONING",
             "FAILED", "ABANDONED"}
       [] s \in {"WAITING_IDP_CONSENT", "WAITING_EXTERNAL_CONSENT"} ->
            {"RESUMABLE", "FAILED", "ABANDONED"}
       [] s = "RESUMABLE" ->
            {"PROVISIONING", "WAITING_EXTERNAL_CONSENT", "FAILED", "ABANDONED"}
       [] s = "PROVISIONING" -> {"COMPLETED", "FAILED", "ABANDONED"}
       [] OTHER -> {}]

CanAdvance(a, to) == txn[a] # NoRow /\ to \in ALLOWED[txn[a]]

-----------------------------------------------------------------------------
(* The registration.                                                       *)

NoMeta     == [status |-> "absent", named |-> FALSE]
Registered == [status |-> "PROVISIONING", named |-> FALSE]
Present(a) == meta[a] # NoMeta

\* The Lifecycle Manager's part of the status: a stop, from the two statuses
\* a registration of this module can have.
Stopped(a) ==
  IF meta[a].status \in {"PROVISIONING", "ACTIVE"}
  THEN [meta EXCEPT ![a].status = "REVOKED"]
  ELSE meta

-----------------------------------------------------------------------------
(* The isolation slots.                                                    *)

\* exists and listed: the resource is there, the ledger lists it undeleted.
\* made: it has been there once; neither a key ring entry nor, for a month,
\* a service account id is given out twice.
NoLedger == [status |-> "absent", listed |-> FALSE, exists |-> FALSE, made |-> FALSE]

\* A slip: a failed reservation gives its slot back at once.
stillHoldingUnlessFailed(a) ==
  dedicated[a].status \notin {"absent", "RELEASED", "FAILED"}

stillHolding(a) ==
  /\ dedicated[a].status \notin {"absent", "RELEASED"}
  /\ dedicated[a].status = "FAILED" => dedicated[a].listed

\* The holders a reservation for a finds: those that still hold their slot.
Pruned(a) == {h \in holders \ {a} : stillHolding(h)}

\* dedicated with the ledger row of a failed, if there is one.
LedgerFailed(a) ==
  IF dedicated[a].status = "absent"
  THEN dedicated
  ELSE [dedicated EXCEPT ![a].status = "FAILED"]

-----------------------------------------------------------------------------
(* Requests.  pc is what a request does next; checked says that the first  *)
(* half of TransactionStore.advance, the read and the check, is behind it; *)
(* done are the completed steps that have a compensation; lost says that a *)
(* compensation has failed, which goes into the log.                       *)

Undone == <<"register_agent", "create_dedicated_resources",
            "verify_idp_connection", "create_transaction">>
Compensated == {Undone[i] : i \in DOMAIN Undone}

\* The status each call of advance asks for.
Target ==
  [pause_idp      |-> "WAITING_IDP_CONSENT",
   resumable      |-> "RESUMABLE",
   provisioning   |-> "PROVISIONING",
   pause_external |-> "WAITING_EXTERNAL_CONSENT",
   complete       |-> "COMPLETED",
   fail           |-> "FAILED",
   refuse         |-> "FAILED"]

\* What fails in these ends the request, without undoing anything: the checks
\* of the resume route, the first step itself, and the recording of a failure
\* (the resume route has a second try at that).
EndsRequest ==
  {"create_transaction", "spend_idp", "spend_external", "confirm",
   "resumable", "permissions", "refuse", "fail"}
\* What fails in these fails a step of the flow.
DedicatedSteps == {"create_dedicated", "record_dedicated", "ready_dedicated"}
FailsStep ==
  {"idp_consent", "pause_idp", "verify", "provisioning", "check_external",
   "pause_external", "bind", "register", "set_meta", "write_manifest",
   "start", "run_job", "name_job", "activate", "complete", "baseline"}
  \union DedicatedSteps
Underway == EndsRequest \union FailsStep \union {"undo"}
Points   == Underway \union {"idle", "over"}

Request == [pc : Points, checked : BOOLEAN, done : SUBSET Compensated, lost : BOOLEAN]
Idle    == [pc |-> "idle", checked |-> FALSE, done |-> {}, lost |-> FALSE]

At(a, p, pc)  == run[a][p].pc = pc
Goto(a, p, pc) == run' = [run EXCEPT ![a][p].pc = pc]
Completes(a, p, step, pc) ==
  run' = [run EXCEPT ![a][p].pc = pc, ![a][p].done = @ \union {step}]

\* Behind a flow that has failed, written or not, the resume route writes
\* FAILED itself.
AfterFail(p) == IF p = First THEN "over" ELSE "refuse"

\* Where request p is sent by an error thrown at pc.
Thrown(p, pc) ==
  CASE pc = "fail" -> AfterFail(p)
    [] pc \in EndsRequest \ {"fail"} -> "over"
    [] OTHER -> "undo"
Throws(a, p) ==
  run' = [run EXCEPT ![a][p].pc = Thrown(p, @), ![a][p].checked = FALSE]

\* The step after create_dedicated_resources, and the one after
\* verify_idp_connection, which full_isolation and bridged put others between.
AfterDedicated(a) == IF a \in Bridged THEN "check_external" ELSE "register"
AfterVerify(a) ==
  IF a \in Full THEN "create_dedicated" ELSE AfterDedicated(a)

\* advance, first half: the status is read and the move checked.
AdvanceChecks(a, p) ==
  /\ run[a][p].pc \in DOMAIN Target
  /\ ~run[a][p].checked
  /\ IF CanAdvance(a, Target[run[a][p].pc])
     THEN run' = [run EXCEPT ![a][p].checked = TRUE]
     ELSE Throws(a, p)
  /\ UNCHANGED <<rows, outside, back, lm, faults>>

\* What follows a call of advance, and the step it completes.
AfterAdvance(a, p, pc) ==
  CASE pc = "fail" -> AfterFail(p)
    [] pc = "resumable" -> "permissions"
    [] pc = "provisioning" ->
         IF a \in Bridged THEN "bind" ELSE AfterVerify(a)
    [] pc = "complete" -> "baseline"
    [] OTHER -> "over"
Completed(pc) ==
  IF pc = "provisioning" THEN {"verify_idp_connection"} ELSE {}

\* advance, second half: the status is written, whatever it is by now.
AdvanceWrites(a, p) ==
  /\ run[a][p].checked
  /\ txn' = [txn EXCEPT ![a] = Target[run[a][p].pc]]
  /\ run' = [run EXCEPT
       ![a][p].pc = AfterAdvance(a, p, @), ![a][p].checked = FALSE,
       ![a][p].done = @ \union Completed(run[a][p].pc)]
  /\ UNCHANGED <<stale, meta, dedicated, holders, outside, back, lm, faults>>

-----------------------------------------------------------------------------
(* The first request, up to the identity provider's consent.  The agent's  *)
(* id is new, so that the Agent OP can have no connection for it and       *)
(* always asks for consent: none of the later steps is the first           *)
(* request's.  The steps between the two only note how far it is.          *)

\* create_transaction, the slot: one Firestore transaction.  503 if there is
\* none left.
Reserve(a) ==
  /\ At(a, First, "idle")
  /\ IF a \notin Full
     THEN /\ Goto(a, First, "create_transaction")
          /\ UNCHANGED <<dedicated, holders>>
     ELSE IF Cardinality(Pruned(a)) >= Capacity
     THEN /\ Goto(a, First, "over")
          /\ UNCHANGED <<dedicated, holders>>
     ELSE /\ holders' = Pruned(a) \union {a}
          /\ dedicated' = [dedicated EXCEPT ![a].status = "CREATING"]
          /\ Goto(a, First, "create_transaction")
  /\ UNCHANGED <<txn, stale, meta, outside, back, lm, faults>>

CreateTransaction(a) ==
  /\ At(a, First, "create_transaction")
  /\ txn' = [txn EXCEPT ![a] = "CREATED"]
  /\ Completes(a, First, "create_transaction", "idp_consent")
  /\ UNCHANGED <<stale, meta, dedicated, holders, outside, back, lm, faults>>

\* createIdpConnection: the Agent OP keeps a consent state and answers
\* CONSENT_REQUIRED; the flow goes on to WAITING_IDP_CONSENT and halts.
CreateIdpConnection(a) ==
  /\ At(a, First, "idp_consent")
  /\ op' = [op EXCEPT ![a].state = "open"]
  /\ Goto(a, First, "pause_idp")
  /\ UNCHANGED <<rows, executions, bridge, granted, back, lm, faults>>

-----------------------------------------------------------------------------
(* Resuming.                                                               *)

\* The row is read, a finished one refused, and the kind of consent taken
\* from its status.  Somebody must have come back with a code.
ResumeReads(a, r) ==
  /\ At(a, r, "idle")
  /\ op[a].code # "none"
  /\ txn[a] \in Unfinished
  /\ Goto(a, r, IF txn[a] = "WAITING_EXTERNAL_CONSENT"
                THEN "spend_external" ELSE "spend_idp")
  /\ UNCHANGED <<rows, outside, back, lm, faults>>

\* codes.consume: one Firestore transaction.
SpendIdpCode(a, r) ==
  /\ At(a, r, "spend_idp")
  /\ IF op[a].code = "issued"
     THEN /\ op' = [op EXCEPT ![a].code = "spent"]
          /\ Goto(a, r, "confirm")
     ELSE Throws(a, r) /\ UNCHANGED op
  /\ UNCHANGED <<rows, executions, bridge, granted, back, lm, faults>>

\* verifyIdpConnection, asked by the route.
ConfirmIdpConnection(a, r) ==
  /\ At(a, r, "confirm")
  /\ IF op[a].connection = "ACTIVE" THEN Goto(a, r, "resumable") ELSE Throws(a, r)
  /\ UNCHANGED <<rows, outside, back, lm, faults>>

\* bridge.verifyConnection: the Bridge spends the code in a Firestore
\* transaction and answers for the connection behind it.
SpendBridgeCode(a, r) ==
  /\ At(a, r, "spend_external")
  /\ IF bridge[a].codes > 0
     THEN /\ bridge' = [bridge EXCEPT ![a].codes = @ - 1]
          /\ IF granted THEN Goto(a, r, "resumable") ELSE Throws(a, r)
     ELSE Throws(a, r) /\ UNCHANGED bridge
  /\ UNCHANGED <<rows, executions, op, granted, back, lm, faults>>

\* The checks before the first step: the person may have lost a permission,
\* and the agent's time may be over.  The route fails the transaction then.
PermissionsHeld(a, r) ==
  /\ At(a, r, "permissions")
  /\ \E pc \in {"verify", "refuse"} : Goto(a, r, pc)
  /\ UNCHANGED <<rows, outside, back, lm, faults>>

\* verify_idp_connection, asked again by the flow (RULE-51).
VerifyIdpConnection(a, r) ==
  /\ At(a, r, "verify")
  /\ IF op[a].connection # "ACTIVE"
     THEN Throws(a, r)
     ELSE IF a \in Bridged
     THEN Completes(a, r, "verify_idp_connection", AfterVerify(a))
     ELSE Goto(a, r, "provisioning")
  /\ UNCHANGED <<rows, outside, back, lm, faults>>

-----------------------------------------------------------------------------
(* The steps behind the consents.                                          *)

\* create_dedicated_resources: each resource is created, then listed.  One
\* that has been there before is refused by the cloud; whatever fails here
\* marks the ledger FAILED before it is thrown on.
CreateDedicated(a, r) ==
  /\ At(a, r, "create_dedicated")
  /\ IF dedicated[a].made
     THEN /\ dedicated' = LedgerFailed(a)
          /\ Throws(a, r)
     ELSE /\ dedicated' = [dedicated EXCEPT ![a].exists = TRUE, ![a].made = TRUE]
          /\ Goto(a, r, "record_dedicated")
  /\ UNCHANGED <<txn, stale, meta, holders, outside, back, lm, faults>>

RecordDedicated(a, r) ==
  /\ At(a, r, "record_dedicated")
  /\ dedicated' = [dedicated EXCEPT ![a].listed = TRUE]
  /\ Goto(a, r, "ready_dedicated")
  /\ UNCHANGED <<txn, stale, meta, holders, outside, back, lm, faults>>

ReadyDedicated(a, r) ==
  /\ At(a, r, "ready_dedicated")
  /\ dedicated' = [dedicated EXCEPT ![a].status = "READY"]
  /\ Completes(a, r, "create_dedicated_resources", AfterDedicated(a))
  /\ UNCHANGED <<txn, stale, meta, holders, outside, back, lm, faults>>

\* external_consent: READY if the person's connection exists.
CheckExternal(a, r) ==
  /\ At(a, r, "check_external")
  /\ Goto(a, r, IF granted THEN "provisioning" ELSE "pause_external")
  /\ UNCHANGED <<rows, outside, back, lm, faults>>

\* create_agent_binding.  The Bridge refuses a second binding of an agent to
\* one connector.
CreateBinding(a, r) ==
  /\ At(a, r, "bind")
  /\ IF bridge[a].bound
     THEN Throws(a, r) /\ UNCHANGED bridge
     ELSE /\ bridge' = [bridge EXCEPT ![a].bound = TRUE]
          /\ Goto(a, r, "register")
  /\ UNCHANGED <<rows, executions, op, granted, back, lm, faults>>

\* register_agent: AgentAlreadyExists is decided by one call, the record
\* written by another, the manifest by a third.
FindNoAgent(a, r) ==
  /\ At(a, r, "register")
  /\ IF Present(a) THEN Throws(a, r) ELSE Goto(a, r, "set_meta")
  /\ UNCHANGED <<rows, outside, back, lm, faults>>

CreateAgentRegistration(a, r) ==
  /\ At(a, r, "set_meta")
  /\ meta' = [meta EXCEPT ![a] = Registered]
  /\ Goto(a, r, "write_manifest")
  /\ UNCHANGED <<txn, stale, dedicated, holders, outside, back, lm, faults>>

WriteAgentManifest(a, r) ==
  /\ At(a, r, "write_manifest")
  /\ Completes(a, r, "register_agent", "start")
  /\ UNCHANGED <<rows, outside, back, lm, faults>>

\* start_job_execution: ExecutionAlreadyRunning is decided by one call, the
\* job started by another, its name written by a third, an update, which is
\* refused when the record is gone.
FindNoExecution(a, r) ==
  /\ At(a, r, "start")
  /\ IF meta[a].named THEN Throws(a, r) ELSE Goto(a, r, "run_job")
  /\ UNCHANGED <<rows, outside, back, lm, faults>>

RunJob(a, r) ==
  /\ At(a, r, "run_job")
  /\ executions' = [executions EXCEPT ![a] = @ + 1]
  /\ Goto(a, r, "name_job")
  /\ UNCHANGED <<rows, op, bridge, granted, back, lm, faults>>

SetJobExecutionName(a, r) ==
  /\ At(a, r, "name_job")
  /\ IF Present(a)
     THEN /\ meta' = [meta EXCEPT ![a].named = TRUE]
          /\ Goto(a, r, "activate")
     ELSE Throws(a, r) /\ UNCHANGED meta
  /\ UNCHANGED <<txn, stale, dedicated, holders, outside, back, lm, faults>>

\* A slip: the status is written into the record, whether it is there or not.
ActivateUpserts(a, r) ==
  /\ At(a, r, "activate")
  /\ meta' = [meta EXCEPT ![a].status = "ACTIVE"]
  /\ Goto(a, r, "complete")
  /\ UNCHANGED <<txn, stale, dedicated, holders, outside, back, lm, faults>>

\* activate, first write: the status, whatever it is by now.  The second is
\* an advance to COMPLETED, the third the baseline.
Activate(a, r) ==
  /\ At(a, r, "activate")
  /\ IF Present(a)
     THEN /\ meta' = [meta EXCEPT ![a].status = "ACTIVE"]
          /\ Goto(a, r, "complete")
     ELSE Throws(a, r) /\ UNCHANGED meta
  /\ UNCHANGED <<txn, stale, dedicated, holders, outside, back, lm, faults>>

WriteAgentBaseline(a, r) ==
  /\ At(a, r, "baseline")
  /\ Goto(a, r, "over")
  /\ UNCHANGED <<rows, outside, back, lm, faults>>

-----------------------------------------------------------------------------
(* Failing.  What a step has done when it fails is what the steps before   *)
(* it in this module have done: a call whose effect is there and whose     *)
(* answer is lost is a failure of the action after it.                     *)

StepFails(a, p) ==
  /\ faults < MaxFaults
  /\ run[a][p].pc \in EndsRequest \union FailsStep
  /\ faults' = faults + 1
  /\ dedicated' = IF run[a][p].pc \in DedicatedSteps
                  THEN LedgerFailed(a) ELSE dedicated
  /\ Throws(a, p)
  /\ UNCHANGED <<txn, stale, meta, holders, outside, back, lm>>

Crash(a, p) ==
  /\ faults < MaxFaults
  /\ run[a][p].pc \in Underway
  /\ faults' = faults + 1
  /\ run' = [run EXCEPT ![a][p].pc = "over", ![a][p].checked = FALSE]
  /\ UNCHANGED <<rows, outside, back, lm>>

\* The completed step to undo next: the last one of the list above.
NextUndone(a, p) ==
  Undone[CHOOSE i \in DOMAIN Undone :
           /\ Undone[i] \in run[a][p].done
           /\ \A j \in 1 .. i - 1 : Undone[j] \notin run[a][p].done]

\* A slip: the undo of register_agent is a noop.
CompensateKeepsAgent(a, p) ==
  /\ At(a, p, "undo")
  /\ run[a][p].done # {}
  /\ LET step == NextUndone(a, p) IN
       /\ run' = [run EXCEPT ![a][p].done = @ \ {step}]
       /\ dedicated' =
            IF step = "create_dedicated_resources" THEN LedgerFailed(a) ELSE dedicated
  /\ UNCHANGED <<txn, stale, meta, holders, outside, back, lm, faults>>

\* One compensation.  That of the consent calls a route the Agent OP does not
\* have, and the 404 is collected with the other compensation failures.
Compensate(a, p) ==
  /\ At(a, p, "undo")
  /\ run[a][p].done # {}
  /\ LET step == NextUndone(a, p) IN
       /\ run' = [run EXCEPT ![a][p].done = @ \ {step}]
       /\ meta' = IF step = "register_agent"
                  THEN [meta EXCEPT ![a] = NoMeta] ELSE meta
       /\ dedicated' =
            IF \/ step = "create_dedicated_resources"
               \/ step = "create_transaction" /\ dedicated[a].status = "CREATING"
            THEN LedgerFailed(a) ELSE dedicated
  /\ UNCHANGED <<txn, stale, holders, outside, back, lm, faults>>

CompensationFails(a, p) ==
  /\ At(a, p, "undo")
  /\ run[a][p].done # {}
  /\ faults < MaxFaults
  /\ faults' = faults + 1
  /\ run' = [run EXCEPT ![a][p].done = @ \ {NextUndone(a, p)},
                        ![a][p].lost = TRUE]
  /\ UNCHANGED <<rows, outside, back, lm>>

\* The failure is recorded on the transaction, best effort.
RolledBack(a, p) ==
  /\ At(a, p, "undo")
  /\ run[a][p].done = {}
  /\ Goto(a, p, "fail")
  /\ UNCHANGED <<rows, outside, back, lm, faults>>

-----------------------------------------------------------------------------
(* The browser coming back to the Agent OP.  The consent state is read in  *)
(* one call and marked used in another; whatever goes wrong behind that,   *)
(* the transaction is written FAILED without a look at it.  An             *)
(* authorization code is exchanged once: a second return with the same one *)
(* is refused by the identity provider.                                    *)

BackPoints == {"idle", "mark", "exchange", "issue", "refused", "over"}

CallbackReads(a, c) ==
  /\ back[a][c] = "idle"
  /\ op[a].state = "open"
  /\ back' = [back EXCEPT ![a][c] = "mark"]
  /\ UNCHANGED <<rows, outside, run, lm, faults>>

CallbackMarksUsed(a, c) ==
  /\ back[a][c] = "mark"
  /\ op' = [op EXCEPT ![a].state = "used"]
  /\ back' = [back EXCEPT ![a][c] = "exchange"]
  /\ UNCHANGED <<rows, executions, bridge, granted, run, lm, faults>>

\* The consent was given: the connection is written.
CallbackGranted(a, c) ==
  /\ back[a][c] = "exchange"
  /\ op[a].connection = "none"
  /\ op' = [op EXCEPT ![a].connection = "ACTIVE"]
  /\ back' = [back EXCEPT ![a][c] = "issue"]
  /\ UNCHANGED <<rows, executions, bridge, granted, run, lm, faults>>

\* The consent was refused or too late, or the exchange was.
CallbackRefused(a, c) ==
  /\ back[a][c] = "exchange"
  /\ back' = [back EXCEPT ![a][c] = "refused"]
  /\ UNCHANGED <<rows, outside, run, lm, faults>>

failTransaction(a, c) ==
  /\ back[a][c] = "refused"
  /\ txn' = IF txn[a] = NoRow THEN txn ELSE [txn EXCEPT ![a] = "FAILED"]
  /\ back' = [back EXCEPT ![a][c] = "over"]
  /\ UNCHANGED <<stale, meta, dedicated, holders, outside, run, lm, faults>>

CallbackIssuesCode(a, c) ==
  /\ back[a][c] = "issue"
  /\ op' = [op EXCEPT ![a].code = "issued"]
  /\ back' = [back EXCEPT ![a][c] = "over"]
  /\ UNCHANGED <<rows, executions, bridge, granted, run, lm, faults>>

-----------------------------------------------------------------------------
(* The browser at the Bridge.  A consent state is used once, by a          *)
(* Firestore transaction, and its code as well; but the consent URL may be *)
(* opened as often as one likes while the transaction waits.               *)

OauthStart(a) ==
  /\ txn[a] = "WAITING_EXTERNAL_CONSENT"
  /\ bridge[a].starts < MaxStarts
  /\ bridge' = [bridge EXCEPT ![a].starts = @ + 1, ![a].states = @ + 1]
  /\ UNCHANGED <<rows, executions, op, granted, run, back, lm, faults>>

\* The person's connection is written, and then the code.
OauthCallback(a) ==
  /\ bridge[a].states > 0
  /\ granted' = TRUE
  /\ bridge' = [bridge EXCEPT ![a].states = @ - 1, ![a].codes = @ + 1]
  /\ UNCHANGED <<rows, executions, op, run, back, lm, faults>>

-----------------------------------------------------------------------------
(* The Lifecycle Manager.                                                  *)

\* A row has reached the half hour it may take.
Ages(a) ==
  /\ txn[a] # NoRow
  /\ a \notin stale
  /\ stale' = stale \union {a}
  /\ UNCHANGED <<txn, meta, dedicated, holders, outside, run, back, lm, faults>>

\* A cleanup: the record is stopped.  Without a record, or while another
\* cleanup holds the lock, it does nothing.
CleanupStarts(a) ==
  IF Present(a) /\ a \notin cleaning
  THEN meta' = Stopped(a) /\ cleaning' = cleaning \union {a}
  ELSE UNCHANGED <<meta, cleaning>>

\* Its end, with all that the record names gone (AgentLifecycle has the steps
\* on the way there).  The record names no binding (register_agent writes
\* none), and the two steps that would disable and delete it look at nothing
\* else: it stays.
CleanupEnds(a) ==
  /\ a \in cleaning
  /\ cleaning' = cleaning \ {a}
  /\ meta' = [meta EXCEPT ![a] = NoMeta]
  /\ op' = [op EXCEPT ![a].connection = IF @ = "ACTIVE" THEN "REVOKED" ELSE @]
  /\ dedicated' = IF dedicated[a].status = "absent"
                  THEN dedicated
                  ELSE [dedicated EXCEPT
                          ![a].status = "RELEASED", ![a].listed = FALSE,
                          ![a].exists = @ /\ ~dedicated[a].listed]
  /\ UNCHANGED <<txn, stale, holders, executions, bridge, granted, run, back,
                 sweeping, disable, faults>>

\* The sweep, stage (d): all rows are read first, the stale unfinished ones
\* are written ABANDONED later, one by one, and their agents cleaned up.
\* A slip: a consent that came back is taken for finished.
SweptStatusesWithoutResumable ==
  {"WAITING_EXTERNAL_CONSENT", "WAITING_IDP_CONSENT", "PROVISIONING"}

SweptStatuses == {"WAITING_EXTERNAL_CONSENT", "WAITING_IDP_CONSENT",
                  "RESUMABLE", "PROVISIONING"}

SweepReads ==
  /\ sweeping = {}
  /\ sweeping' = {a \in stale : txn[a] \in SweptStatuses}
  /\ sweeping' # {}
  /\ UNCHANGED <<rows, outside, run, back, disable, cleaning, faults>>

SweepAbandons(a) ==
  /\ a \in sweeping
  /\ sweeping' = sweeping \ {a}
  /\ txn' = [txn EXCEPT ![a] = "ABANDONED"]
  /\ CleanupStarts(a)
  /\ UNCHANGED <<stale, dedicated, holders, outside, run, back, disable, faults>>

\* Stage (e): dedicated resources whose label names an agent without a record.
SweepDeletesOrphan(a) ==
  /\ dedicated[a].exists
  /\ ~Present(a)
  /\ dedicated' = [dedicated EXCEPT ![a].exists = FALSE]
  /\ UNCHANGED <<txn, stale, meta, holders, outside, run, back, lm, faults>>

\* The subscriber: the person's unfinished transactions first, then the
\* agents that can be revoked.  It reads each list in one call and writes
\* what is in it one by one.
DisableReadsTransactions ==
  /\ disable.pc = "idle"
  /\ disable' = [disable EXCEPT !.pc = "transactions",
                               !.left = {a \in Agents : txn[a] \in Unfinished},
                               !.abandoned = {a \in Agents : txn[a] \in Unfinished}]
  /\ UNCHANGED <<rows, outside, run, back, sweeping, cleaning, faults>>

DisableAbandons(a) ==
  /\ disable.pc = "transactions"
  /\ a \in disable.left
  /\ txn' = [txn EXCEPT ![a] = "ABANDONED"]
  /\ disable' = [disable EXCEPT !.left = @ \ {a}]
  /\ UNCHANGED <<stale, meta, dedicated, holders, outside, run, back,
                 sweeping, cleaning, faults>>

DisableReadsAgents ==
  /\ disable.pc = "transactions"
  /\ disable.left = {}
  /\ LET found == {a \in Agents : meta[a].status \in {"PROVISIONING", "ACTIVE"}} IN
     disable' = [pc |-> "agents", left |-> found,
                 abandoned |-> disable.abandoned \ found]
  /\ UNCHANGED <<rows, outside, run, back, sweeping, cleaning, faults>>

DisableRevokes(a) ==
  /\ disable.pc = "agents"
  /\ a \in disable.left
  /\ disable' = [disable EXCEPT !.left = @ \ {a}]
  /\ CleanupStarts(a)
  /\ UNCHANGED <<txn, stale, dedicated, holders, outside, run, back,
                 sweeping, faults>>

-----------------------------------------------------------------------------

Init ==
  /\ txn = [a \in Agents |-> NoRow]
  /\ stale = {}
  /\ meta = [a \in Agents |-> NoMeta]
  /\ executions = [a \in Agents |-> 0]
  /\ dedicated = [a \in Agents |-> NoLedger]
  /\ holders = {}
  /\ op = [a \in Agents |-> [state |-> "none", connection |-> "none", code |-> "none"]]
  /\ bridge = [a \in Agents |-> [starts |-> 0, states |-> 0, codes |-> 0, bound |-> FALSE]]
  /\ granted = FALSE
  /\ run = [a \in Agents |-> [p \in Runs |-> Idle]]
  /\ back = [a \in Agents |-> [c \in Callbacks |-> "idle"]]
  /\ sweeping = {}
  /\ disable = [pc |-> "idle", left |-> {}, abandoned |-> {}]
  /\ cleaning = {}
  /\ faults = 0

Start(a) == Reserve(a) \/ CreateTransaction(a) \/ CreateIdpConnection(a)

Resume(a, r) ==
  \/ ResumeReads(a, r)
  \/ SpendIdpCode(a, r)
  \/ ConfirmIdpConnection(a, r)
  \/ SpendBridgeCode(a, r)
  \/ PermissionsHeld(a, r)
  \/ VerifyIdpConnection(a, r)
  \/ CreateDedicated(a, r)
  \/ RecordDedicated(a, r)
  \/ ReadyDedicated(a, r)
  \/ CheckExternal(a, r)
  \/ CreateBinding(a, r)
  \/ FindNoAgent(a, r)
  \/ CreateAgentRegistration(a, r)
  \/ WriteAgentManifest(a, r)
  \/ FindNoExecution(a, r)
  \/ RunJob(a, r)
  \/ SetJobExecutionName(a, r)
  \/ Activate(a, r)
  \/ WriteAgentBaseline(a, r)

Either(a, p) ==
  \/ AdvanceChecks(a, p)
  \/ AdvanceWrites(a, p)
  \/ StepFails(a, p)
  \/ Crash(a, p)
  \/ Compensate(a, p)
  \/ CompensationFails(a, p)
  \/ RolledBack(a, p)

Callback(a, c) ==
  \/ CallbackReads(a, c)
  \/ CallbackMarksUsed(a, c)
  \/ CallbackGranted(a, c)
  \/ CallbackRefused(a, c)
  \/ failTransaction(a, c)
  \/ CallbackIssuesCode(a, c)

Lifecycle(a) ==
  \/ Ages(a)
  \/ SweepAbandons(a)
  \/ SweepDeletesOrphan(a)
  \/ DisableAbandons(a)
  \/ DisableRevokes(a)
  \/ CleanupEnds(a)

Next ==
  \/ SweepReads
  \/ DisableReadsTransactions
  \/ DisableReadsAgents
  \/ \E a \in Agents :
       \/ Start(a)
       \/ \E r \in Resumes : Resume(a, r)
       \/ \E p \in Runs : Either(a, p)
       \/ \E c \in Callbacks : Callback(a, c)
       \/ OauthStart(a)
       \/ OauthCallback(a)
       \/ Lifecycle(a)

Spec == Init /\ [][Next]_vars

\* Cloud Scheduler calls the sweep again and again, and time passes.  Nothing
\* makes a person come back from a consent, and nothing a request go on.
FairSpec ==
  /\ Spec
  /\ WF_vars(SweepReads)
  /\ \A a \in Agents : WF_vars(Ages(a)) /\ WF_vars(SweepAbandons(a))

-----------------------------------------------------------------------------
(* Properties.                                                             *)

Registrations ==
  [status : {"absent", "PROVISIONING", "ACTIVE", "REVOKED"}, named : BOOLEAN]
Ledgers ==
  [status : {"absent", "CREATING", "READY", "FAILED", "RELEASED"},
   listed : BOOLEAN, exists : BOOLEAN, made : BOOLEAN]
Connections ==
  [state : {"none", "open", "used"}, connection : {"none", "ACTIVE", "REVOKED"},
   code : {"none", "issued", "spent"}]
Consents ==
  [starts : 0 .. MaxStarts, states : Nat, codes : Nat, bound : BOOLEAN]

RowsTyped ==
  /\ txn \in [Agents -> TRANSACTION_STATUSES \union {NoRow}]
  /\ stale \subseteq Agents
  /\ meta \in [Agents -> Registrations]
  /\ dedicated \in [Agents -> Ledgers]
  /\ holders \subseteq Agents
OutsideTyped ==
  /\ executions \in [Agents -> Nat]
  /\ op \in [Agents -> Connections]
  /\ bridge \in [Agents -> Consents]
  /\ granted \in BOOLEAN
RunTyped == run \in [Agents -> [Runs -> Request]]
BackTyped == back \in [Agents -> [Callbacks -> BackPoints]]
LmTyped ==
  /\ sweeping \subseteq Agents
  /\ disable \in [pc : {"idle", "transactions", "agents"},
                  left : SUBSET Agents, abandoned : SUBSET Agents]
  /\ cleaning \subseteq Agents

\* Every row, register and request has one of its values.
TypeOK ==
  /\ RowsTyped
  /\ OutsideTyped
  /\ RunTyped
  /\ BackTyped
  /\ LmTyped
  /\ faults \in 0 .. MaxFaults

\* The Bridge's consent URL was opened for the agent no more than once.  Each
\* visit of a waiting transaction makes a code of its own, and two codes let two
\* resume requests through at once, the second of which fails.
OneVisit(a) == bridge[a].starts <= 1

\* RULE-51, "an agent whose refresh token is not usable must not be given
\* anything else": while an agent has a record that counts or a dedicated
\* resource, its connection to the identity provider is there and active, and
\* nothing is bound at the Bridge for an agent that never had one.  A binding
\* may outlive the connection, since no cleanup takes it away; then a cleanup
\* has ended, and the agent has no record and no dedicated resource beside it.
\* This holds unless a cleanup is under way.
AgentHasItsDelegation ==
  \A a \in {b \in Agents \ cleaning : OneVisit(b)} :
    /\ \/ meta[a].status \in {"PROVISIONING", "ACTIVE"}
       \/ dedicated[a].exists
       => op[a].connection = "ACTIVE"
    /\ bridge[a].bound =>
         \/ op[a].connection = "ACTIVE"
         \/ op[a].connection = "REVOKED" /\ ~Present(a) /\ ~dedicated[a].exists

\* However often a consent comes back and a resume is sent again, an agent
\* is started once (startAgentExecution: "One execution per agent"); and when
\* it can be issued grants it has been, and its record names the execution, so
\* that a cleanup finds it and can stop it.
OneStoppableExecution ==
  \A a \in {b \in Agents : OneVisit(b)} :
    /\ executions[a] <= 1
    /\ meta[a].status = "ACTIVE" => meta[a].named /\ executions[a] = 1

\* The undo of register_agent: when a run that failed has undone what it
\* completed, and logged no compensation failure, the agent is not one the
\* Agent OP issues grants to.
RolledBackCannotObtainGrants ==
  \A a \in {b \in Agents : OneVisit(b)}, p \in Runs :
    run[a][p].pc = "fail" /\ ~run[a][p].lost => meta[a].status # "ACTIVE"

\* The limit of capacity.ts: a dedicated resource the ledger lists is under a
\* slot, and the agents that hold one are no more than there may be.
ListedResourcesHoldASlot ==
  /\ Cardinality(holders) <= Capacity
  /\ \A a \in Agents : OneVisit(a) /\ dedicated[a].listed => a \in holders

\* Whatever a person, a crash or a late write does to it, a transaction that
\* got as far as a consent is finished in the end and stays so: stage (d) of
\* the sweep finds all that is left lying.
EveryTransactionEnds ==
  \A a \in Agents :
    [](txn[a] \in Unfinished \ {"CREATED"} => <>[](txn[a] \in TERMINAL_STATUSES))
=============================================================================
