-------------------------- MODULE ProvisioningProofs --------------------------
(***************************************************************************)
(* What holds of Provisioning for any number of agents, slots, requests,   *)
(* browser returns, visits and faults: its types, and what an agent for    *)
(* which the Bridge was asked for consent once can rely on.                *)
(***************************************************************************)
EXTENDS Provisioning, FiniteSetTheorems, TLAPS

-----------------------------------------------------------------------------
(* Types.  A status is written behind a check, and the check is only made  *)
(* at a call of advance: TypeOK is inductive together with that.           *)

CheckedAtAdvance ==
  \A a \in Agents, p \in Runs : run[a][p].checked = TRUE => run[a][p].pc \in DOMAIN Target

TInv == TypeOK /\ CheckedAtAdvance

\* One request of one agent changes.
LEMMA RequestChanges ==
  ASSUME RunTyped, NEW a \in Agents, NEW p \in Runs, NEW r \in Request,
         run' = [run EXCEPT ![a][p] = r]
  PROVE  /\ RunTyped'
         /\ \A b \in Agents, q \in Runs :
              run'[b][q] = IF b = a /\ q = p THEN r ELSE run[b][q]
<1> DEFINE runs == [run[a] EXCEPT ![p] = r]
<1>1. runs \in [Runs -> Request]
  BY DEF RunTyped
<1>2. run' = [run EXCEPT ![a] = runs]
  OBVIOUS
<1> QED
  BY <1>1, <1>2 DEF RunTyped

LEMMA ChangeIsTyped ==
  ASSUME RunTyped, CheckedAtAdvance, NEW a \in Agents, NEW p \in Runs,
         NEW r \in Request, run' = [run EXCEPT ![a][p] = r],
         r.checked = TRUE => r.pc \in DOMAIN Target
  PROVE  RunTyped' /\ CheckedAtAdvance'
<1>1. RunTyped'
  BY RequestChanges
<1>2. \A b \in Agents, q \in Runs :
        run'[b][q] = IF b = a /\ q = p THEN r ELSE run[b][q]
  BY RequestChanges
<1>3. ASSUME NEW b \in Agents, NEW q \in Runs, run'[b][q].checked = TRUE
      PROVE  run'[b][q].pc \in DOMAIN Target
  <2>1. CASE b = a /\ q = p
    BY <1>2, <1>3, <2>1
  <2>2. CASE ~(b = a /\ q = p)
    BY <1>2, <1>3, <2>2 DEF CheckedAtAdvance
  <2> QED
    BY <2>1, <2>2
<1> QED
  BY <1>1, <1>3 DEF CheckedAtAdvance

\* Sending a request on that is not at a call of advance.
LEMMA GotoTyped ==
  ASSUME RunTyped, CheckedAtAdvance, NEW a \in Agents, NEW p \in Runs,
         NEW pc \in Points, run[a][p].pc \notin DOMAIN Target, Goto(a, p, pc)
  PROVE  RunTyped' /\ CheckedAtAdvance'
<1> DEFINE r == [run[a][p] EXCEPT !.pc = pc]
<1>1. run[a][p] \in Request
  BY DEF RunTyped
<1>2. r \in Request /\ r.checked = run[a][p].checked
  BY <1>1 DEF Request
<1>3. r.checked = TRUE => r.pc \in DOMAIN Target
  BY <1>2 DEF CheckedAtAdvance
<1>4. run' = [run EXCEPT ![a][p] = r]
  BY DEF Goto
<1> HIDE DEF r
<1> QED
  BY <1>2, <1>3, <1>4, ChangeIsTyped

LEMMA CompletesTyped ==
  ASSUME RunTyped, CheckedAtAdvance, NEW a \in Agents, NEW p \in Runs,
         NEW pc \in Points, NEW step \in Compensated,
         run[a][p].pc \notin DOMAIN Target, Completes(a, p, step, pc)
  PROVE  RunTyped' /\ CheckedAtAdvance'
<1> DEFINE r == [run[a][p] EXCEPT !.pc = pc, !.done = @ \union {step}]
<1>1. run[a][p] \in Request
  BY DEF RunTyped
<1>2. r \in Request /\ r.checked = run[a][p].checked
  BY <1>1 DEF Request
<1>3. r.checked = TRUE => r.pc \in DOMAIN Target
  BY <1>2 DEF CheckedAtAdvance
<1>4. run' = [run EXCEPT ![a][p] = r]
  BY <1>1 DEF Completes, RunTyped, Request
<1> HIDE DEF r
<1> QED
  BY <1>2, <1>3, <1>4, ChangeIsTyped

LEMMA ThrowsTyped ==
  ASSUME RunTyped, CheckedAtAdvance, NEW a \in Agents, NEW p \in Runs, Throws(a, p)
  PROVE  RunTyped' /\ CheckedAtAdvance'
<1> DEFINE r == [run[a][p] EXCEPT !.pc = Thrown(p, @), !.checked = FALSE]
<1>1. run[a][p] \in Request
  BY DEF RunTyped
<1>2. Thrown(p, run[a][p].pc) \in Points
  BY DEF Thrown, AfterFail, Points, Underway, EndsRequest
<1>3. r \in Request /\ r.checked = FALSE
  BY <1>1, <1>2 DEF Request
<1>4. run' = [run EXCEPT ![a][p] = r]
  BY <1>1 DEF Throws, RunTyped, Request
<1> HIDE DEF r
<1> QED
  BY <1>3, <1>4, ChangeIsTyped

-----------------------------------------------------------------------------
(* The steps, by whose they are.                                           *)

\* What a step away from the calls of advance does with a request.
Moves(a, p) ==
  /\ run[a][p].pc \notin DOMAIN Target
  /\ \/ \E pc \in Points : Goto(a, p, pc)
     \/ \E pc \in Points, step \in Compensated : Completes(a, p, step, pc)
     \/ Throws(a, p)

LEMMA MovesTyped ==
  ASSUME RunTyped, CheckedAtAdvance, NEW a \in Agents, NEW p \in Runs, Moves(a, p)
  PROVE  RunTyped' /\ CheckedAtAdvance'
<1>1. CASE \E pc \in Points : Goto(a, p, pc)
  BY <1>1, GotoTyped DEF Moves
<1>2. CASE \E pc \in Points, step \in Compensated : Completes(a, p, step, pc)
  BY <1>2, CompletesTyped DEF Moves
<1>3. CASE Throws(a, p)
  BY <1>3, ThrowsTyped
<1> QED
  BY <1>1, <1>2, <1>3 DEF Moves

LEMMA RunUnchanged ==
  ASSUME RunTyped, CheckedAtAdvance, UNCHANGED run
  PROVE  RunTyped' /\ CheckedAtAdvance'
BY DEF RunTyped, CheckedAtAdvance

\* The points of a request by name.
LEMMA AdvancePoints ==
  DOMAIN Target = {"pause_idp", "resumable", "provisioning", "pause_external",
                   "complete", "fail", "refuse"}
BY DEF Target

LEMMA AllPoints ==
  Points = {"create_transaction", "spend_idp", "spend_external", "confirm",
            "resumable", "permissions", "refuse", "fail",
            "idp_consent", "pause_idp", "verify", "provisioning", "check_external",
            "pause_external", "bind", "register", "set_meta", "write_manifest",
            "start", "run_job", "name_job", "activate", "complete", "baseline",
            "create_dedicated", "record_dedicated", "ready_dedicated",
            "undo", "idle", "over"}
BY DEF Points, Underway, EndsRequest, FailsStep, DedicatedSteps

LEMMA AllCompensated ==
  Compensated = {"register_agent", "create_dedicated_resources",
                 "verify_idp_connection", "create_transaction"}
<1>1. DOMAIN Undone = 1 .. 4
  BY DEF Undone
<1> QED
  BY <1>1 DEF Compensated, Undone

LEMMA AfterPoints ==
  ASSUME NEW a
  PROVE  AfterDedicated(a) \in Points /\ AfterVerify(a) \in Points
BY AllPoints DEF AfterDedicated, AfterVerify

\* The records that change in some of their fields.
LEMMA LedgerChanges ==
  ASSUME RowsTyped, NEW a \in Agents
  PROVE  /\ \A s \in {"CREATING", "READY", "FAILED"} : [dedicated EXCEPT ![a].status = s] \in [Agents -> Ledgers]
         /\ [dedicated EXCEPT ![a].listed = TRUE] \in [Agents -> Ledgers]
         /\ [dedicated EXCEPT ![a].exists = TRUE, ![a].made = TRUE] \in [Agents -> Ledgers]
         /\ [dedicated EXCEPT ![a].exists = FALSE] \in [Agents -> Ledgers]
<1>1. dedicated \in [Agents -> Ledgers] /\ dedicated[a] \in Ledgers
  BY DEF RowsTyped
<1>2. \A r \in Ledgers : [dedicated EXCEPT ![a] = r] \in [Agents -> Ledgers]
  BY <1>1
<1>3. ASSUME NEW s \in {"CREATING", "READY", "FAILED"}
      PROVE  [dedicated EXCEPT ![a].status = s] \in [Agents -> Ledgers]
  <2>1. [dedicated[a] EXCEPT !.status = s] \in Ledgers
    BY <1>1 DEF Ledgers
  <2> QED
    BY <1>1, <1>2, <2>1
<1>4. [dedicated EXCEPT ![a].listed = TRUE] \in [Agents -> Ledgers]
  <2>1. [dedicated[a] EXCEPT !.listed = TRUE] \in Ledgers
    BY <1>1 DEF Ledgers
  <2> QED
    BY <1>1, <1>2, <2>1
<1>5. [dedicated EXCEPT ![a].exists = TRUE, ![a].made = TRUE] \in [Agents -> Ledgers]
  <2>1. [dedicated[a] EXCEPT !.exists = TRUE, !.made = TRUE] \in Ledgers
    BY <1>1 DEF Ledgers
  <2> QED
    BY <1>1, <1>2, <2>1
<1>6. [dedicated EXCEPT ![a].exists = FALSE] \in [Agents -> Ledgers]
  <2>1. [dedicated[a] EXCEPT !.exists = FALSE] \in Ledgers
    BY <1>1 DEF Ledgers
  <2> QED
    BY <1>1, <1>2, <2>1
<1> QED
  BY <1>3, <1>4, <1>5, <1>6

LEMMA RegistrationChanges ==
  ASSUME RowsTyped, NEW a \in Agents
  PROVE  /\ [meta EXCEPT ![a].named = TRUE] \in [Agents -> Registrations]
         /\ \A s \in {"ACTIVE", "REVOKED"} : [meta EXCEPT ![a].status = s] \in [Agents -> Registrations]
<1>1. meta \in [Agents -> Registrations] /\ meta[a] \in Registrations
  BY DEF RowsTyped
<1>2. \A r \in Registrations : [meta EXCEPT ![a] = r] \in [Agents -> Registrations]
  BY <1>1
<1>3. [meta EXCEPT ![a].named = TRUE] \in [Agents -> Registrations]
  <2>1. [meta[a] EXCEPT !.named = TRUE] \in Registrations
    BY <1>1 DEF Registrations
  <2> QED
    BY <1>1, <1>2, <2>1
<1>4. ASSUME NEW s \in {"ACTIVE", "REVOKED"}
      PROVE  [meta EXCEPT ![a].status = s] \in [Agents -> Registrations]
  <2>1. [meta[a] EXCEPT !.status = s] \in Registrations
    BY <1>1 DEF Registrations
  <2> QED
    BY <1>1, <1>2, <2>1
<1> QED
  BY <1>3, <1>4

LEMMA ConnectionChanges ==
  ASSUME OutsideTyped, NEW a \in Agents
  PROVE  /\ \A s \in {"open", "used"} : [op EXCEPT ![a].state = s] \in [Agents -> Connections]
         /\ \A s \in {"ACTIVE", "REVOKED"} : [op EXCEPT ![a].connection = s] \in [Agents -> Connections]
         /\ \A s \in {"issued", "spent"} : [op EXCEPT ![a].code = s] \in [Agents -> Connections]
<1>1. op \in [Agents -> Connections] /\ op[a] \in Connections
  BY DEF OutsideTyped
<1>2. \A r \in Connections : [op EXCEPT ![a] = r] \in [Agents -> Connections]
  BY <1>1
<1>3. ASSUME NEW s \in {"open", "used"}
      PROVE  [op EXCEPT ![a].state = s] \in [Agents -> Connections]
  <2>1. [op[a] EXCEPT !.state = s] \in Connections
    BY <1>1 DEF Connections
  <2> QED
    BY <1>1, <1>2, <2>1
<1>4. ASSUME NEW s \in {"ACTIVE", "REVOKED"}
      PROVE  [op EXCEPT ![a].connection = s] \in [Agents -> Connections]
  <2>1. [op[a] EXCEPT !.connection = s] \in Connections
    BY <1>1 DEF Connections
  <2> QED
    BY <1>1, <1>2, <2>1
<1>5. ASSUME NEW s \in {"issued", "spent"}
      PROVE  [op EXCEPT ![a].code = s] \in [Agents -> Connections]
  <2>1. [op[a] EXCEPT !.code = s] \in Connections
    BY <1>1 DEF Connections
  <2> QED
    BY <1>1, <1>2, <2>1
<1> QED
  BY <1>3, <1>4, <1>5

LEMMA ConsentChanges ==
  ASSUME OutsideTyped, NEW a \in Agents
  PROVE  /\ \A b \in BOOLEAN : [bridge EXCEPT ![a].bound = b] \in [Agents -> Consents]
<1>1. bridge \in [Agents -> Consents] /\ bridge[a] \in Consents
  BY DEF OutsideTyped
<1>2. \A r \in Consents : [bridge EXCEPT ![a] = r] \in [Agents -> Consents]
  BY <1>1
<1>3. ASSUME NEW b \in BOOLEAN
      PROVE  [bridge EXCEPT ![a].bound = b] \in [Agents -> Consents]
  <2>1. [bridge[a] EXCEPT !.bound = b] \in Consents
    BY <1>1 DEF Consents
  <2> QED
    BY <1>1, <1>2, <2>1
<1> QED
  BY <1>3

LEMMA LedgerFailedTyped ==
  ASSUME RowsTyped, NEW a \in Agents
  PROVE  LedgerFailed(a) \in [Agents -> Ledgers]
<1>1. CASE dedicated[a].status = "absent"
  BY <1>1 DEF LedgerFailed, RowsTyped
<1>2. CASE dedicated[a].status # "absent"
  BY <1>2, LedgerChanges DEF LedgerFailed
<1> QED
  BY <1>1, <1>2

\* All that is not the requests.
OthersTyped ==
  RowsTyped /\ OutsideTyped /\ BackTyped /\ LmTyped /\ faults \in 0 .. MaxFaults

LEMMA StartTyped ==
  ASSUME TInv, NEW a \in Agents, Start(a)
  PROVE  TInv'
<1> First \in Runs
  BY DEF Runs
<1> USE DEF TInv, TypeOK, OthersTyped
<1>1. CASE Reserve(a)
  <2>1. Moves(a, First)
    BY <1>1, AdvancePoints, AllPoints, AllCompensated, AfterPoints
    DEF Reserve, Moves, At
  <2>2. dedicated' \in [Agents -> Ledgers] /\ holders' \subseteq Agents
    <3>1. [dedicated EXCEPT ![a].status = "CREATING"] \in [Agents -> Ledgers]
      BY LedgerChanges
    <3> QED
      BY <1>1, <3>1 DEF Reserve, Pruned, RowsTyped
  <2>3. OthersTyped'
    BY <1>1, <2>2
    DEF Reserve, rows, outside, lm, RowsTyped, OutsideTyped, BackTyped, LmTyped
  <2> QED
    BY <2>1, <2>3, MovesTyped
<1>2. CASE CreateTransaction(a)
  <2>1. Moves(a, First)
    BY <1>2, AdvancePoints, AllPoints, AllCompensated, AfterPoints
    DEF CreateTransaction, Moves, At
  <2>2. OthersTyped'
    BY <1>2
    DEF CreateTransaction, rows, outside, lm, RowsTyped, OutsideTyped, BackTyped, LmTyped, TRANSACTION_STATUSES, Unfinished
  <2> QED
    BY <2>1, <2>2, MovesTyped
<1>3. CASE CreateIdpConnection(a)
  <2>1. Moves(a, First)
    BY <1>3, AdvancePoints, AllPoints, AllCompensated, AfterPoints
    DEF CreateIdpConnection, Moves, At
  <2>2. OthersTyped'
    BY <1>3, ConnectionChanges
    DEF CreateIdpConnection, rows, outside, lm, RowsTyped, OutsideTyped, BackTyped, LmTyped
  <2> QED
    BY <2>1, <2>2, MovesTyped
<1> QED
  BY <1>1, <1>2, <1>3 DEF Start

LEMMA ResumeTyped ==
  ASSUME TInv, NEW a \in Agents, NEW r \in Resumes, Resume(a, r)
  PROVE  TInv'
<1> r \in Runs
  BY DEF Runs
<1> USE DEF TInv, TypeOK, OthersTyped
<1>1. CASE ResumeReads(a, r)
  <2>1. Moves(a, r)
    BY <1>1, AdvancePoints, AllPoints, AllCompensated, AfterPoints
    DEF ResumeReads, Moves, At
  <2>2. OthersTyped'
    BY <1>1
    DEF ResumeReads, rows, outside, lm, RowsTyped, OutsideTyped, BackTyped, LmTyped
  <2> QED
    BY <2>1, <2>2, MovesTyped
<1>2. CASE SpendIdpCode(a, r)
  <2>1. Moves(a, r)
    BY <1>2, AdvancePoints, AllPoints, AllCompensated, AfterPoints
    DEF SpendIdpCode, Moves, At
  <2>2. OthersTyped'
    BY <1>2, ConnectionChanges
    DEF SpendIdpCode, rows, outside, lm, RowsTyped, OutsideTyped, BackTyped, LmTyped
  <2> QED
    BY <2>1, <2>2, MovesTyped
<1>3. CASE ConfirmIdpConnection(a, r)
  <2>1. Moves(a, r)
    BY <1>3, AdvancePoints, AllPoints, AllCompensated, AfterPoints
    DEF ConfirmIdpConnection, Moves, At
  <2>2. OthersTyped'
    BY <1>3
    DEF ConfirmIdpConnection, rows, outside, lm, RowsTyped, OutsideTyped, BackTyped, LmTyped
  <2> QED
    BY <2>1, <2>2, MovesTyped
<1>4. CASE SpendBridgeCode(a, r)
  <2>1. Moves(a, r)
    BY <1>4, AdvancePoints, AllPoints, AllCompensated, AfterPoints
    DEF SpendBridgeCode, Moves, At
  <2>2. ASSUME bridge[a].codes > 0
        PROVE  [bridge EXCEPT ![a].codes = @ - 1] \in [Agents -> Consents]
    <3>1. [bridge[a] EXCEPT !.codes = @ - 1] \in Consents
      BY <2>2 DEF OutsideTyped, Consents
    <3> QED
      BY <3>1 DEF OutsideTyped
  <2>3. OthersTyped'
    BY <1>4, <2>2
    DEF SpendBridgeCode, rows, outside, lm, RowsTyped, OutsideTyped, BackTyped, LmTyped
  <2> QED
    BY <2>1, <2>3, MovesTyped
<1>5. CASE PermissionsHeld(a, r)
  <2>1. Moves(a, r)
    BY <1>5, AdvancePoints, AllPoints, AllCompensated, AfterPoints
    DEF PermissionsHeld, Moves, At
  <2>2. OthersTyped'
    BY <1>5
    DEF PermissionsHeld, rows, outside, lm, RowsTyped, OutsideTyped, BackTyped, LmTyped
  <2> QED
    BY <2>1, <2>2, MovesTyped
<1>6. CASE VerifyIdpConnection(a, r)
  <2>1. Moves(a, r)
    BY <1>6, AdvancePoints, AllPoints, AllCompensated, AfterPoints
    DEF VerifyIdpConnection, Moves, At
  <2>2. OthersTyped'
    BY <1>6
    DEF VerifyIdpConnection, rows, outside, lm, RowsTyped, OutsideTyped, BackTyped, LmTyped
  <2> QED
    BY <2>1, <2>2, MovesTyped
<1>7. CASE CreateDedicated(a, r)
  <2>1. Moves(a, r)
    BY <1>7, AdvancePoints, AllPoints, AllCompensated, AfterPoints
    DEF CreateDedicated, Moves, At
  <2>2. dedicated' \in [Agents -> Ledgers]
    BY <1>7, LedgerChanges, LedgerFailedTyped DEF CreateDedicated
  <2>3. OthersTyped'
    BY <1>7, <2>2
    DEF CreateDedicated, rows, outside, lm, RowsTyped, OutsideTyped, BackTyped, LmTyped
  <2> QED
    BY <2>1, <2>3, MovesTyped
<1>8. CASE RecordDedicated(a, r)
  <2>1. Moves(a, r)
    BY <1>8, AdvancePoints, AllPoints, AllCompensated, AfterPoints
    DEF RecordDedicated, Moves, At
  <2>2. OthersTyped'
    BY <1>8, LedgerChanges
    DEF RecordDedicated, rows, outside, lm, RowsTyped, OutsideTyped, BackTyped, LmTyped
  <2> QED
    BY <2>1, <2>2, MovesTyped
<1>9. CASE ReadyDedicated(a, r)
  <2>1. Moves(a, r)
    BY <1>9, AdvancePoints, AllPoints, AllCompensated, AfterPoints
    DEF ReadyDedicated, Moves, At
  <2>2. OthersTyped'
    BY <1>9, LedgerChanges
    DEF ReadyDedicated, rows, outside, lm, RowsTyped, OutsideTyped, BackTyped, LmTyped
  <2> QED
    BY <2>1, <2>2, MovesTyped
<1>10. CASE CheckExternal(a, r)
  <2>1. Moves(a, r)
    BY <1>10, AdvancePoints, AllPoints, AllCompensated, AfterPoints
    DEF CheckExternal, Moves, At
  <2>2. OthersTyped'
    BY <1>10
    DEF CheckExternal, rows, outside, lm, RowsTyped, OutsideTyped, BackTyped, LmTyped
  <2> QED
    BY <2>1, <2>2, MovesTyped
<1>11. CASE CreateBinding(a, r)
  <2>1. Moves(a, r)
    BY <1>11, AdvancePoints, AllPoints, AllCompensated, AfterPoints
    DEF CreateBinding, Moves, At
  <2>2. OthersTyped'
    BY <1>11, ConsentChanges
    DEF CreateBinding, rows, outside, lm, RowsTyped, OutsideTyped, BackTyped, LmTyped
  <2> QED
    BY <2>1, <2>2, MovesTyped
<1>12. CASE FindNoAgent(a, r)
  <2>1. Moves(a, r)
    BY <1>12, AdvancePoints, AllPoints, AllCompensated, AfterPoints
    DEF FindNoAgent, Moves, At
  <2>2. OthersTyped'
    BY <1>12
    DEF FindNoAgent, rows, outside, lm, RowsTyped, OutsideTyped, BackTyped, LmTyped
  <2> QED
    BY <2>1, <2>2, MovesTyped
<1>13. CASE CreateAgentRegistration(a, r)
  <2>1. Moves(a, r)
    BY <1>13, AdvancePoints, AllPoints, AllCompensated, AfterPoints
    DEF CreateAgentRegistration, Moves, At
  <2>2. OthersTyped'
    BY <1>13
    DEF CreateAgentRegistration, rows, outside, lm, RowsTyped, OutsideTyped, BackTyped, LmTyped, Registered, Registrations
  <2> QED
    BY <2>1, <2>2, MovesTyped
<1>14. CASE WriteAgentManifest(a, r)
  <2>1. Moves(a, r)
    BY <1>14, AdvancePoints, AllPoints, AllCompensated, AfterPoints
    DEF WriteAgentManifest, Moves, At
  <2>2. OthersTyped'
    BY <1>14
    DEF WriteAgentManifest, rows, outside, lm, RowsTyped, OutsideTyped, BackTyped, LmTyped
  <2> QED
    BY <2>1, <2>2, MovesTyped
<1>15. CASE FindNoExecution(a, r)
  <2>1. Moves(a, r)
    BY <1>15, AdvancePoints, AllPoints, AllCompensated, AfterPoints
    DEF FindNoExecution, Moves, At
  <2>2. OthersTyped'
    BY <1>15
    DEF FindNoExecution, rows, outside, lm, RowsTyped, OutsideTyped, BackTyped, LmTyped
  <2> QED
    BY <2>1, <2>2, MovesTyped
<1>16. CASE RunJob(a, r)
  <2>1. Moves(a, r)
    BY <1>16, AdvancePoints, AllPoints, AllCompensated, AfterPoints
    DEF RunJob, Moves, At
  <2>2. OthersTyped'
    BY <1>16
    DEF RunJob, rows, outside, lm, RowsTyped, OutsideTyped, BackTyped, LmTyped
  <2> QED
    BY <2>1, <2>2, MovesTyped
<1>17. CASE SetJobExecutionName(a, r)
  <2>1. Moves(a, r)
    BY <1>17, AdvancePoints, AllPoints, AllCompensated, AfterPoints
    DEF SetJobExecutionName, Moves, At
  <2>2. OthersTyped'
    BY <1>17, RegistrationChanges
    DEF SetJobExecutionName, rows, outside, lm, RowsTyped, OutsideTyped, BackTyped, LmTyped
  <2> QED
    BY <2>1, <2>2, MovesTyped
<1>18. CASE Activate(a, r)
  <2>1. Moves(a, r)
    BY <1>18, AdvancePoints, AllPoints, AllCompensated, AfterPoints
    DEF Activate, Moves, At
  <2>2. OthersTyped'
    BY <1>18, RegistrationChanges
    DEF Activate, rows, outside, lm, RowsTyped, OutsideTyped, BackTyped, LmTyped
  <2> QED
    BY <2>1, <2>2, MovesTyped
<1>19. CASE WriteAgentBaseline(a, r)
  <2>1. Moves(a, r)
    BY <1>19, AdvancePoints, AllPoints, AllCompensated, AfterPoints
    DEF WriteAgentBaseline, Moves, At
  <2>2. OthersTyped'
    BY <1>19
    DEF WriteAgentBaseline, rows, outside, lm, RowsTyped, OutsideTyped, BackTyped, LmTyped
  <2> QED
    BY <2>1, <2>2, MovesTyped
<1> QED
  BY <1>1, <1>2, <1>3, <1>4, <1>5, <1>6, <1>7, <1>8, <1>9, <1>10, <1>11, <1>12, <1>13, <1>14, <1>15, <1>16, <1>17, <1>18, <1>19 DEF Resume

\* The record of the request is the same but for what is said.
LEMMA EitherTyped ==
  ASSUME TInv, NEW a \in Agents, NEW p \in Runs, Either(a, p)
  PROVE  TInv'
<1> USE DEF TInv, TypeOK, OthersTyped
<1>0. run[a][p] \in Request
  BY DEF RunTyped
<1>1. CASE AdvanceChecks(a, p)
  <2>1. ASSUME Throws(a, p)
        PROVE  RunTyped' /\ CheckedAtAdvance'
    BY <2>1, ThrowsTyped
  <2>2. ASSUME run' = [run EXCEPT ![a][p].checked = TRUE]
        PROVE  RunTyped' /\ CheckedAtAdvance'
    <3> DEFINE r == [run[a][p] EXCEPT !.checked = TRUE]
    <3>1. r \in Request /\ r.pc \in DOMAIN Target
      BY <1>0, <1>1 DEF AdvanceChecks, Request
    <3>2. run' = [run EXCEPT ![a][p] = r]
      BY <2>2
    <3> HIDE DEF r
    <3> QED
      BY <3>1, <3>2, ChangeIsTyped
  <2>3. OthersTyped'
    BY <1>1 DEF AdvanceChecks, rows, outside, lm, RowsTyped, OutsideTyped,
                BackTyped, LmTyped
  <2> QED
    BY <1>1, <2>1, <2>2, <2>3 DEF AdvanceChecks
<1>2. CASE AdvanceWrites(a, p)
  <2>1. run[a][p].pc \in DOMAIN Target
    BY <1>0, <1>2 DEF AdvanceWrites, CheckedAtAdvance, Request
  <2>2. Target[run[a][p].pc] \in TRANSACTION_STATUSES
    BY <2>1, AdvancePoints
    DEF Target, TRANSACTION_STATUSES, Unfinished, TERMINAL_STATUSES
  <2>3. AfterAdvance(a, p, run[a][p].pc) \in Points
    BY AfterPoints, AllPoints DEF AfterAdvance, AfterFail
  <2>4. Completed(run[a][p].pc) \subseteq Compensated
    BY AllCompensated DEF Completed
  <2>5. RunTyped' /\ CheckedAtAdvance'
    <3> DEFINE r == [run[a][p] EXCEPT !.pc = AfterAdvance(a, p, @), !.checked = FALSE,
                                      !.done = @ \union Completed(run[a][p].pc)]
    <3>1. r \in Request /\ r.checked = FALSE
      BY <1>0, <2>3, <2>4 DEF Request
    <3>2. run' = [run EXCEPT ![a][p] = r]
      BY <1>0, <1>2 DEF AdvanceWrites, RunTyped, Request
    <3> HIDE DEF r
    <3> QED
      BY <3>1, <3>2, ChangeIsTyped
  <2>6. OthersTyped'
    BY <1>2, <2>2 DEF AdvanceWrites, rows, outside, lm, RowsTyped, OutsideTyped,
                      BackTyped, LmTyped
  <2> QED
    BY <2>5, <2>6
<1>3. CASE StepFails(a, p)
  <2>1. RunTyped' /\ CheckedAtAdvance'
    BY <1>3, ThrowsTyped DEF StepFails
  <2>2. dedicated' \in [Agents -> Ledgers]
    BY <1>3, LedgerFailedTyped DEF StepFails, RowsTyped
  <2>3. faults' \in 0 .. MaxFaults
    BY <1>3, ConstantsAssumption DEF StepFails, ConstantsAssumption
  <2>4. OthersTyped'
    BY <1>3, <2>2, <2>3 DEF StepFails, outside, lm, RowsTyped, OutsideTyped,
                            BackTyped, LmTyped
  <2> QED
    BY <2>1, <2>4
<1>4. CASE Crash(a, p)
  <2>1. RunTyped' /\ CheckedAtAdvance'
    <3> DEFINE r == [run[a][p] EXCEPT !.pc = "over", !.checked = FALSE]
    <3>1. r \in Request /\ r.checked = FALSE
      BY <1>0, AllPoints DEF Request
    <3>2. run' = [run EXCEPT ![a][p] = r]
      BY <1>0, <1>4 DEF Crash, RunTyped, Request
    <3> HIDE DEF r
    <3> QED
      BY <3>1, <3>2, ChangeIsTyped
  <2>2. faults' \in 0 .. MaxFaults
    BY <1>4, ConstantsAssumption DEF Crash, ConstantsAssumption
  <2>3. OthersTyped'
    BY <1>4, <2>2 DEF Crash, rows, outside, lm, RowsTyped, OutsideTyped,
                      BackTyped, LmTyped
  <2> QED
    BY <2>1, <2>3
<1>5. CASE Compensate(a, p)
  <2>1. run[a][p].pc \notin DOMAIN Target
    BY <1>5, AdvancePoints DEF Compensate, At
  <2>2. RunTyped' /\ CheckedAtAdvance'
    <3> DEFINE r == [run[a][p] EXCEPT !.done = @ \ {NextUndone(a, p)}]
    <3>1. r \in Request /\ r.pc = run[a][p].pc /\ r.checked = run[a][p].checked
      BY <1>0 DEF Request
    <3>2. run' = [run EXCEPT ![a][p] = r]
      BY <1>5 DEF Compensate
    <3>3. r.checked = TRUE => r.pc \in DOMAIN Target
      BY <3>1 DEF CheckedAtAdvance
    <3> HIDE DEF r
    <3> QED
      BY <3>1, <3>2, <3>3, ChangeIsTyped
  <2>3. dedicated' \in [Agents -> Ledgers]
    BY <1>5, LedgerFailedTyped DEF Compensate, RowsTyped
  <2>4. meta' \in [Agents -> Registrations]
    <3>1. NoMeta \in Registrations
      BY DEF NoMeta, Registrations
    <3> QED
      BY <1>5, <3>1 DEF Compensate, RowsTyped
  <2>5. OthersTyped'
    BY <1>5, <2>3, <2>4 DEF Compensate, outside, lm, RowsTyped, OutsideTyped,
                            BackTyped, LmTyped
  <2> QED
    BY <2>2, <2>5
<1>6. CASE CompensationFails(a, p)
  <2>1. RunTyped' /\ CheckedAtAdvance'
    <3> DEFINE r == [run[a][p] EXCEPT !.done = @ \ {NextUndone(a, p)}, !.lost = TRUE]
    <3>1. r \in Request /\ r.pc = run[a][p].pc /\ r.checked = run[a][p].checked
      BY <1>0 DEF Request
    <3>2. run' = [run EXCEPT ![a][p] = r]
      BY <1>0, <1>6 DEF CompensationFails, RunTyped, Request
    <3>3. r.checked = TRUE => r.pc \in DOMAIN Target
      BY <3>1 DEF CheckedAtAdvance
    <3> HIDE DEF r
    <3> QED
      BY <3>1, <3>2, <3>3, ChangeIsTyped
  <2>2. faults' \in 0 .. MaxFaults
    BY <1>6, ConstantsAssumption DEF CompensationFails, ConstantsAssumption
  <2>3. OthersTyped'
    BY <1>6, <2>2 DEF CompensationFails, rows, outside, lm, RowsTyped, OutsideTyped,
                      BackTyped, LmTyped
  <2> QED
    BY <2>1, <2>3
<1>7. CASE RolledBack(a, p)
  <2>1. Moves(a, p)
    BY <1>7, AdvancePoints, AllPoints DEF RolledBack, Moves, At
  <2>2. OthersTyped'
    BY <1>7 DEF RolledBack, rows, outside, lm, RowsTyped, OutsideTyped, BackTyped, LmTyped
  <2> QED
    BY <2>1, <2>2, MovesTyped
<1> QED
  BY <1>1, <1>2, <1>3, <1>4, <1>5, <1>6, <1>7 DEF Either

LEMMA CallbackTyped ==
  ASSUME TInv, NEW a \in Agents, NEW c \in Callbacks, Callback(a, c)
  PROVE  TInv'
<1> USE DEF TInv, TypeOK, OthersTyped
<1>1. run' = run
  BY DEF Callback, CallbackReads, CallbackMarksUsed, CallbackGranted,
         CallbackRefused, failTransaction, CallbackIssuesCode
<1>2. RunTyped' /\ CheckedAtAdvance'
  BY <1>1, RunUnchanged
<1>3. BackTyped'
  <2>1. \A pc \in BackPoints :
          [back EXCEPT ![a][c] = pc] \in [Agents -> [Callbacks -> BackPoints]]
    BY DEF BackTyped
  <2>2. {"mark", "exchange", "issue", "refused", "over"} \subseteq BackPoints
    BY DEF BackPoints
  <2> QED
    BY <2>1, <2>2
    DEF Callback, CallbackReads, CallbackMarksUsed, CallbackGranted,
        CallbackRefused, failTransaction, CallbackIssuesCode, BackTyped
<1>4. txn' \in [Agents -> TRANSACTION_STATUSES \union {NoRow}]
  BY DEF Callback, CallbackReads, CallbackMarksUsed, CallbackGranted,
         CallbackRefused, failTransaction, CallbackIssuesCode, rows, RowsTyped,
         TRANSACTION_STATUSES, TERMINAL_STATUSES
<1>5. op' \in [Agents -> Connections]
  <2>1. \/ op' = op
        \/ op' = [op EXCEPT ![a].state = "used"]
        \/ op' = [op EXCEPT ![a].connection = "ACTIVE"]
        \/ op' = [op EXCEPT ![a].code = "issued"]
    BY DEF Callback, CallbackReads, CallbackMarksUsed, CallbackGranted,
           CallbackRefused, failTransaction, CallbackIssuesCode, outside
  <2>2. op \in [Agents -> Connections]
    BY DEF OutsideTyped
  <2> QED
    BY <2>1, <2>2, ConnectionChanges
<1>6. UNCHANGED <<stale, meta, dedicated, holders, executions, bridge, granted, lm, faults>>
  BY DEF Callback, CallbackReads, CallbackMarksUsed, CallbackGranted,
         CallbackRefused, failTransaction, CallbackIssuesCode, rows, outside
<1>7. RowsTyped' /\ OutsideTyped' /\ LmTyped' /\ faults' \in 0 .. MaxFaults
  <2>1. RowsTyped'
    BY <1>4, <1>6 DEF RowsTyped
  <2>2. OutsideTyped'
    BY <1>5, <1>6 DEF OutsideTyped
  <2>3. LmTyped' /\ faults' \in 0 .. MaxFaults
    BY <1>6 DEF LmTyped, lm
  <2> QED
    BY <2>1, <2>2, <2>3
<1> QED
  BY <1>2, <1>3, <1>7

LEMMA ConsentTyped ==
  ASSUME TInv, NEW a \in Agents, OauthStart(a) \/ OauthCallback(a)
  PROVE  TInv'
<1> USE DEF TInv, TypeOK
<1>1. run' = run
  BY DEF OauthStart, OauthCallback
<1>2. RunTyped' /\ CheckedAtAdvance'
  BY <1>1, RunUnchanged
<1>3. /\ bridge[a] \in Consents
      /\ bridge[a].starts \in 0 .. MaxStarts /\ MaxStarts \in Nat
      /\ bridge[a].states \in Nat /\ bridge[a].codes \in Nat
  BY ConstantsAssumption DEF OutsideTyped, Consents, ConstantsAssumption
<1>4. ASSUME NEW r \in Consents, bridge' = [bridge EXCEPT ![a] = r]
      PROVE  bridge' \in [Agents -> Consents]
  BY <1>4 DEF OutsideTyped
<1>5. bridge' \in [Agents -> Consents]
  <2>1. CASE OauthStart(a)
    <3> DEFINE r == [bridge[a] EXCEPT !.starts = @ + 1, !.states = @ + 1]
    <3>1. r \in Consents
      <4>1. bridge[a].starts + 1 \in 0 .. MaxStarts /\ bridge[a].states + 1 \in Nat
        BY <1>3, <2>1 DEF OauthStart
      <4> QED
        BY <1>3, <4>1 DEF Consents
    <3>2. bridge' = [bridge EXCEPT ![a] = r]
      BY <1>3, <2>1 DEF OauthStart, OutsideTyped, Consents
    <3> HIDE DEF r
    <3> QED
      BY <1>4, <3>1, <3>2
  <2>2. CASE OauthCallback(a)
    <3> DEFINE r == [bridge[a] EXCEPT !.states = @ - 1, !.codes = @ + 1]
    <3>1. r \in Consents
      <4>1. bridge[a].states - 1 \in Nat /\ bridge[a].codes + 1 \in Nat
        BY <1>3, <2>2 DEF OauthCallback
      <4> QED
        BY <1>3, <4>1 DEF Consents
    <3>2. bridge' = [bridge EXCEPT ![a] = r]
      BY <1>3, <2>2 DEF OauthCallback, OutsideTyped, Consents
    <3> HIDE DEF r
    <3> QED
      BY <1>4, <3>1, <3>2
  <2> QED
    BY <2>1, <2>2
<1>6. granted' \in BOOLEAN
  BY DEF OauthStart, OauthCallback, OutsideTyped
<1>7. UNCHANGED <<rows, executions, op, back, lm, faults>>
  BY DEF OauthStart, OauthCallback
<1>8. RowsTyped' /\ OutsideTyped' /\ BackTyped' /\ LmTyped' /\ faults' \in 0 .. MaxFaults
  BY <1>5, <1>6, <1>7 DEF rows, lm, RowsTyped, OutsideTyped, BackTyped, LmTyped
<1> QED
  BY <1>2, <1>8

LEMMA CleanupStartsTyped ==
  ASSUME RowsTyped, LmTyped, NEW a \in Agents, CleanupStarts(a)
  PROVE  meta' \in [Agents -> Registrations] /\ cleaning' \subseteq Agents
BY RegistrationChanges DEF CleanupStarts, Stopped, RowsTyped, LmTyped

LEMMA LifecycleTyped ==
  ASSUME TInv, NEW a \in Agents, Lifecycle(a)
  PROVE  TInv'
<1> USE DEF TInv, TypeOK
<1>1. run' = run
  BY DEF Lifecycle, Ages, SweepAbandons, SweepDeletesOrphan, DisableAbandons,
         DisableRevokes, CleanupEnds
<1>2. RunTyped' /\ CheckedAtAdvance'
  BY <1>1, RunUnchanged
<1>3. "ABANDONED" \in TRANSACTION_STATUSES
  BY DEF TRANSACTION_STATUSES, TERMINAL_STATUSES
<1>4. CASE Ages(a)
  BY <1>2, <1>4 DEF Ages, outside, lm, RowsTyped, OutsideTyped, BackTyped, LmTyped
<1>5. CASE SweepAbandons(a)
  <2>1. meta' \in [Agents -> Registrations] /\ cleaning' \subseteq Agents
    BY <1>5, CleanupStartsTyped DEF SweepAbandons
  <2> QED
    BY <1>2, <1>3, <1>5, <2>1
    DEF SweepAbandons, outside, RowsTyped, OutsideTyped, BackTyped, LmTyped
<1>6. CASE SweepDeletesOrphan(a)
  <2>1. dedicated' \in [Agents -> Ledgers]
    BY <1>6, LedgerChanges DEF SweepDeletesOrphan
  <2> QED
    BY <1>2, <1>6, <2>1
    DEF SweepDeletesOrphan, outside, lm, RowsTyped, OutsideTyped, BackTyped, LmTyped
<1>7. CASE DisableAbandons(a)
  BY <1>2, <1>3, <1>7
  DEF DisableAbandons, outside, RowsTyped, OutsideTyped, BackTyped, LmTyped
<1>8. CASE DisableRevokes(a)
  <2>1. meta' \in [Agents -> Registrations] /\ cleaning' \subseteq Agents
    BY <1>8, CleanupStartsTyped DEF DisableRevokes
  <2> QED
    BY <1>2, <1>8, <2>1
    DEF DisableRevokes, outside, RowsTyped, OutsideTyped, BackTyped, LmTyped
<1>9. CASE CleanupEnds(a)
  <2>1. meta' \in [Agents -> Registrations]
    BY <1>9 DEF CleanupEnds, RowsTyped, NoMeta, Registrations
  <2>2. op' \in [Agents -> Connections]
    <3>1. CASE op[a].connection = "ACTIVE"
      BY <1>9, <3>1, ConnectionChanges DEF CleanupEnds
    <3>2. CASE op[a].connection # "ACTIVE"
      BY <1>9, <3>2 DEF CleanupEnds, OutsideTyped, Connections
    <3> QED
      BY <3>1, <3>2
  <2>3. bridge' \in [Agents -> Consents]
    BY <1>9 DEF CleanupEnds, OutsideTyped
  <2>4. dedicated' \in [Agents -> Ledgers]
    <3>1. CASE dedicated[a].status = "absent"
      BY <1>9, <3>1 DEF CleanupEnds, RowsTyped
    <3>2. CASE dedicated[a].status # "absent"
      <4> DEFINE kept == dedicated[a].exists /\ ~dedicated[a].listed
      <4>1. kept \in BOOLEAN
        OBVIOUS
      <4> HIDE DEF kept
      <4>2. [dedicated[a] EXCEPT !.status = "RELEASED", !.listed = FALSE,
                                 !.exists = kept] \in Ledgers
        BY <4>1 DEF RowsTyped, Ledgers
      <4>3. dedicated' = [dedicated EXCEPT
                            ![a] = [dedicated[a] EXCEPT !.status = "RELEASED",
                                      !.listed = FALSE, !.exists = kept]]
        BY <1>9, <3>2 DEF CleanupEnds, kept, RowsTyped, Ledgers
      <4> QED
        BY <4>2, <4>3 DEF RowsTyped
    <3> QED
      BY <3>1, <3>2
  <2>5. UNCHANGED <<txn, stale, holders, executions, granted, back, sweeping,
                    disable, faults>> /\ cleaning' \subseteq Agents
    BY <1>9 DEF CleanupEnds, LmTyped
  <2>6. RowsTyped' /\ OutsideTyped' /\ BackTyped' /\ LmTyped' /\ faults' \in 0 .. MaxFaults
    BY <2>1, <2>2, <2>3, <2>4, <2>5 DEF RowsTyped, OutsideTyped, BackTyped, LmTyped
  <2> QED
    BY <1>2, <2>6
<1> QED
  BY <1>4, <1>5, <1>6, <1>7, <1>8, <1>9 DEF Lifecycle

\* The lists read by the sweep and by the subscriber.
LEMMA ReadingTyped ==
  ASSUME TInv, SweepReads \/ DisableReadsTransactions \/ DisableReadsAgents
  PROVE  TInv'
<1> USE DEF TInv, TypeOK
<1>1. run' = run
  BY DEF SweepReads, DisableReadsTransactions, DisableReadsAgents
<1>2. RunTyped' /\ CheckedAtAdvance'
  BY <1>1, RunUnchanged
<1>3. LmTyped'
  <2>1. CASE SweepReads
    BY <2>1 DEF SweepReads, LmTyped, RowsTyped
  <2>2. CASE DisableReadsTransactions
    BY <2>2 DEF DisableReadsTransactions, LmTyped
  <2>3. CASE DisableReadsAgents
    BY <2>3 DEF DisableReadsAgents, LmTyped
  <2> QED
    BY <2>1, <2>2, <2>3
<1>4. UNCHANGED <<rows, outside, back, faults>>
  BY DEF SweepReads, DisableReadsTransactions, DisableReadsAgents
<1>5. RowsTyped' /\ OutsideTyped' /\ BackTyped' /\ faults' \in 0 .. MaxFaults
  BY <1>4 DEF rows, outside, RowsTyped, OutsideTyped, BackTyped
<1> QED
  BY <1>2, <1>3, <1>5

LEMMA InitTyped == Init => TInv
<1> SUFFICES ASSUME Init
             PROVE  TInv
  OBVIOUS
<1> USE DEF Init
<1>1. RowsTyped
  BY DEF RowsTyped, NoMeta, NoLedger, Registrations, Ledgers
<1>2. OutsideTyped
  <2>1. [starts |-> 0, states |-> 0, codes |-> 0, bound |-> FALSE] \in Consents
    BY ConstantsAssumption DEF ConstantsAssumption, Consents
  <2> QED
    BY <2>1 DEF OutsideTyped, Connections
<1>3. RunTyped /\ CheckedAtAdvance
  <2>1. Idle \in Request /\ Idle.checked = FALSE
    BY AllPoints DEF Idle, Request
  <2> QED
    BY <2>1 DEF RunTyped, CheckedAtAdvance
<1>4. BackTyped /\ LmTyped
  BY DEF BackTyped, BackPoints, LmTyped
<1>5. faults \in 0 .. MaxFaults
  BY ConstantsAssumption DEF ConstantsAssumption
<1> QED
  BY <1>1, <1>2, <1>3, <1>4, <1>5 DEF TInv, TypeOK

LEMMA StepTyped == TInv /\ [Next]_vars => TInv'
<1> SUFFICES ASSUME TInv, [Next]_vars
             PROVE  TInv'
  OBVIOUS
<1>1. CASE UNCHANGED vars
  <2>1. RunTyped' /\ CheckedAtAdvance'
    BY <1>1, RunUnchanged DEF vars, TInv, TypeOK
  <2> QED
    BY <1>1, <2>1 DEF vars, rows, outside, lm, TInv, TypeOK, RowsTyped,
                      OutsideTyped, BackTyped, LmTyped
<1>2. ASSUME NEW a \in Agents, Start(a)
      PROVE  TInv'
  BY <1>2, StartTyped
<1>3. ASSUME NEW a \in Agents, NEW r \in Resumes, Resume(a, r)
      PROVE  TInv'
  BY <1>3, ResumeTyped
<1>4. ASSUME NEW a \in Agents, NEW p \in Runs, Either(a, p)
      PROVE  TInv'
  BY <1>4, EitherTyped
<1>5. ASSUME NEW a \in Agents, NEW c \in Callbacks, Callback(a, c)
      PROVE  TInv'
  BY <1>5, CallbackTyped
<1>6. ASSUME NEW a \in Agents, OauthStart(a) \/ OauthCallback(a)
      PROVE  TInv'
  BY <1>6, ConsentTyped
<1>7. ASSUME NEW a \in Agents, Lifecycle(a)
      PROVE  TInv'
  BY <1>7, LifecycleTyped
<1>8. CASE SweepReads \/ DisableReadsTransactions \/ DisableReadsAgents
  BY <1>8, ReadingTyped
<1> QED
  BY <1>1, <1>2, <1>3, <1>4, <1>5, <1>6, <1>7, <1>8 DEF Next

\* Every row, register and request has one of its values, whatever the number
\* of agents and of requests that meet: no status but those of state.ts
\* is written, by a checked step or by an unchecked one.
THEOREM TypeCorrect == Spec => []TypeOK
<1>1. TInv => TypeOK
  BY DEF TInv
<1> QED
  BY <1>1, InitTyped, StepTyped, PTL DEF Spec

-----------------------------------------------------------------------------
(* One consent, one way on.  Each code is spent by one request, so that an *)
(* agent whose consent URL at the Bridge is opened once has one request at *)
(* a time behind the codes: it drives the provisioning, and nothing has    *)
(* been made that it does not know of.                                     *)

FirstPoints == {"create_transaction", "idp_consent", "pause_idp"}
\* Points in front of a code, and behind everything.
Waits == {"idle", "spend_idp", "spend_external", "over"}
\* Points behind a code and in front of the transaction's going on.
Asking == {"confirm", "resumable"}
Unproven == Asking \union {"permissions", "verify"}
Early == Unproven \union DedicatedSteps \union
  {"check_external", "provisioning", "pause_external", "bind", "register", "set_meta"}
Behind == {"start", "run_job", "name_job", "activate", "complete", "baseline"}
Waiting == {"WAITING_IDP_CONSENT", "WAITING_EXTERNAL_CONSENT"}

Drives(a, r) == run[a][r].pc \notin Waits
Fresh(a) == meta[a] = NoMeta /\ a \notin cleaning
AllListed(a) == dedicated[a].exists => dedicated[a].listed
Holding(a) == a \in holders /\ stillHolding(a)

\* A code that is not spent yet may still come, or be asked for.
Coming(a) ==
  \/ op[a].code # "spent"
  \/ txn[a] = "WAITING_EXTERNAL_CONSENT" /\ bridge[a].starts = 0
  \/ bridge[a].states + bridge[a].codes > 0

\* Who is where.
WhoIsWhere(a) ==
  /\ run[a][First].pc \in FirstPoints \union {"idle", "undo", "fail", "over"}
  /\ run[a][First].done \subseteq {"create_transaction"}
  /\ \A r \in Resumes :
       /\ run[a][r].pc \notin FirstPoints
       /\ run[a][r].pc \in DedicatedSteps => a \in Full

\* Codes are not more than visits, and the Agent OP issues one.
CodesCount(a) ==
  /\ bridge[a].states + bridge[a].codes <= bridge[a].starts
  /\ op[a].connection = "none" =>
       op[a].code = "none" /\ \A c \in Callbacks : back[a][c] # "issue"
  /\ \A c \in Callbacks : back[a][c] = "issue" =>
       op[a].code = "none" /\ \A d \in Callbacks : back[a][d] = "issue" => c = d

\* Nobody gets past RESUMABLE before the first request is over, ...
FirstComesFirst(a) ==
  ~At(a, First, "over") =>
    /\ txn[a] \in {NoRow, "CREATED", "FAILED", "ABANDONED"}
    /\ Fresh(a)
    /\ \A r \in Resumes :
         \/ run[a][r].pc \in Waits \union {"confirm"}
         \/ At(a, r, "resumable") /\ ~run[a][r].checked

\* ... nor while the row waits.
WaitingIsQuiet(a) ==
  txn[a] \in Waiting =>
    Fresh(a) /\ \A r \in Resumes : run[a][r].pc \in Waits \union Asking

\* One request drives, and none while a code may still come.
OneDriver(a) ==
  /\ \A r, s \in Resumes : Drives(a, r) /\ Drives(a, s) => r = s
  /\ op[a].code # "spent" => bridge[a].starts = 0 /\ txn[a] # "WAITING_EXTERNAL_CONSENT"
  /\ Coming(a) =>
       /\ \A r \in Resumes : ~Drives(a, r)
       /\ Fresh(a) /\ executions[a] = 0 /\ op[a].connection # "REVOKED"
       /\ ~bridge[a].bound /\ AllListed(a)

\* What there is before the record is written.
EarlyHasNothing(a) ==
  \A r \in Resumes : run[a][r].pc \in Early =>
    /\ Fresh(a) /\ executions[a] = 0 /\ op[a].connection # "REVOKED"
    /\ run[a][r].pc \notin {"register", "set_meta"} => ~bridge[a].bound
    /\ run[a][r].pc # "record_dedicated" => AllListed(a)
    /\ run[a][r].pc \notin Unproven => op[a].connection # "none"

\* What there is behind it.
ExecutionIsKnown(a) ==
  /\ executions[a] <= 1
  /\ meta[a].status = "ACTIVE" => meta[a].named /\ executions[a] = 1
  /\ \A r \in Resumes :
       /\ run[a][r].pc \in {"write_manifest", "start", "run_job"} => executions[a] = 0
       /\ run[a][r].pc \in {"name_job", "activate"} => executions[a] = 1
       /\ run[a][r].pc = "activate" => (Present(a) => meta[a].named)

\* An active agent's registration is among the steps to be undone, until that
\* fails.
UndoKnowsTheAgent(a) ==
  \A r \in Resumes :
    /\ run[a][r].pc \in Behind => "register_agent" \in run[a][r].done
    /\ meta[a].status = "ACTIVE" =>
         /\ run[a][r].pc = "undo" => run[a][r].lost \/ "register_agent" \in run[a][r].done
         /\ run[a][r].pc = "fail" => run[a][r].lost

\* The connection is there before anything is made, and goes with all of it.
DelegationFirst(a) ==
  /\ Present(a) \/ bridge[a].bound \/ dedicated[a].exists => op[a].connection # "none"
  /\ op[a].connection = "REVOKED" => Fresh(a) /\ ~dedicated[a].exists
  /\ Present(a) \/ a \in cleaning => AllListed(a)

\* A slot is given up by nobody who may still list something under it.
SlotIsKept(a) ==
  /\ dedicated[a].listed => Holding(a)
  /\ /\ a \in Full
     /\ \/ run[a][First].pc \in FirstPoints
        \/ txn[a] \in Waiting
        \/ \E r \in Resumes :
             \/ run[a][r].pc \in Early \ Asking
             \/ At(a, r, "resumable") /\ run[a][r].checked
     => Holding(a)

Life(a) ==
  /\ WhoIsWhere(a) /\ CodesCount(a) /\ FirstComesFirst(a) /\ WaitingIsQuiet(a)
  /\ OneDriver(a) /\ EarlyHasNothing(a) /\ ExecutionIsKnown(a)
  /\ UndoKnowsTheAgent(a) /\ DelegationFirst(a) /\ SlotIsKept(a)

\* Nobody may have more slots than there are.
SlotsCount == IsFiniteSet(holders) /\ Cardinality(holders) <= Capacity

\* What is inductive.  With a second visit to the Bridge's consent URL there is a
\* second code, and two requests may drive: nothing is said of such an agent.
IInv ==
  /\ TInv /\ SlotsCount
  /\ \A a \in Agents : OneVisit(a) => Life(a)

\* Request p of agent a is sent to pc, with done behind it; no other one moves.
Sent(a, p, pc, done) ==
  /\ \A q \in Runs : q # p => run'[a][q] = run[a][q]
  /\ run'[a][p].pc = pc
  /\ run'[a][p].done = done
  /\ run'[a][p].checked => run[a][p].checked
  /\ run'[a][p].lost = run[a][p].lost

LEMMA GotoSends ==
  ASSUME RunTyped, NEW a \in Agents, NEW p \in Runs, NEW pc, Goto(a, p, pc)
  PROVE  Sent(a, p, pc, run[a][p].done)
BY DEF RunTyped, Goto, Request, Sent

LEMMA CompletesSends ==
  ASSUME RunTyped, NEW a \in Agents, NEW p \in Runs, NEW pc, NEW step,
         Completes(a, p, step, pc)
  PROVE  Sent(a, p, pc, run[a][p].done \union {step})
BY DEF RunTyped, Completes, Request, Sent

LEMMA ThrowsSends ==
  ASSUME RunTyped, NEW a \in Agents, NEW p \in Runs, Throws(a, p)
  PROVE  Sent(a, p, Thrown(p, run[a][p].pc), run[a][p].done)
BY DEF RunTyped, Throws, Request, Sent

\* A resume request's error: two of its calls of advance are its last word.
LEMMA WhereThrown ==
  ASSUME NEW r \in Resumes, NEW pc
  PROVE  Thrown(r, pc) =
           IF pc = "fail" THEN "refuse"
           ELSE IF pc \in {"create_transaction", "spend_idp", "spend_external", "confirm",
                           "resumable", "permissions", "refuse"}
                THEN "over" ELSE "undo"
BY ConstantsAssumption DEF Thrown, AfterFail, EndsRequest, ConstantsAssumption

\* The ledger row of a is marked FAILED, if there is one.
FailedRow(a) ==
  /\ dedicated'[a].exists = dedicated[a].exists
  /\ dedicated'[a].listed = dedicated[a].listed
  /\ dedicated'[a].status = IF dedicated[a].status = "absent" THEN "absent" ELSE "FAILED"

LEMMA LedgerFails ==
  ASSUME RowsTyped, NEW a \in Agents, dedicated' = LedgerFailed(a)
  PROVE  FailedRow(a)
BY DEF RowsTyped, Ledgers, LedgerFailed, FailedRow

LEMMA ResumeKeepsLife ==
  ASSUME TInv, NEW a \in Agents, NEW r \in Resumes, Resume(a, r), Life(a), OneVisit(a)
  PROVE  Life(a)'
<1> USE DEF FirstPoints, Waits, Asking, Unproven, Early, Behind, Waiting, Drives, Fresh,
           AllListed, Holding, Coming, At, Present, stillHolding, DedicatedSteps, NoRow, Sent
<1>r. /\ r \in Runs /\ First \in Runs /\ r # First /\ Resumes \subseteq Runs
      /\ RunTyped /\ run[a][r].checked \in BOOLEAN
      /\ run[a][r].checked = TRUE => run[a][r].pc \in DOMAIN Target
  BY ConstantsAssumption DEF Runs, ConstantsAssumption, TInv, TypeOK, RunTyped, Request,
     CheckedAtAdvance
<1>v. /\ bridge[a].starts \in Nat /\ bridge[a].starts <= 1
       /\ bridge[a].states \in Nat /\ bridge[a].codes \in Nat
  BY ConstantsAssumption DEF ConstantsAssumption, TInv, TypeOK, OutsideTyped, Consents, OneVisit
<1>1. CASE ResumeReads(a, r)
  <2>1. /\ run[a][r].pc = "idle"
        /\ UNCHANGED <<txn, meta, executions, dedicated, holders, op, bridge, back, cleaning>>
    BY <1>1 DEF ResumeReads, At, rows, outside, lm
  <2>2. \E pc \in {"spend_idp", "spend_external"} : Sent(a, r, pc, run[a][r].done)
    BY <1>r, <1>1, GotoSends DEF ResumeReads
  <2> QED
    BY <1>r, <2>1, <2>2
    DEF Life, WhoIsWhere, CodesCount, FirstComesFirst, WaitingIsQuiet, OneDriver, EarlyHasNothing,
        ExecutionIsKnown, UndoKnowsTheAgent, DelegationFirst, SlotIsKept
<1>2. CASE SpendIdpCode(a, r)
  <2>1. /\ run[a][r].pc = "spend_idp"
        /\ UNCHANGED <<txn, meta, executions, dedicated, holders, bridge, back, cleaning>>
    BY <1>2 DEF SpendIdpCode, At, rows, lm
  <2>2. CASE op[a].code = "issued"
    <3>1. op'[a].code = "spent" /\ op'[a].connection = op[a].connection
      BY <1>2, <2>2 DEF SpendIdpCode, TInv, TypeOK, OutsideTyped, Connections
    <3>2. Sent(a, r, "confirm", run[a][r].done)
      BY <1>r, <1>2, <2>2, GotoSends DEF SpendIdpCode
    <3> QED
      BY <1>r, <1>v, <2>1, <2>2, <3>1, <3>2, AdvancePoints
      DEF Life, WhoIsWhere, CodesCount, FirstComesFirst, WaitingIsQuiet, OneDriver, EarlyHasNothing,
          ExecutionIsKnown, UndoKnowsTheAgent, DelegationFirst, SlotIsKept
  <2>3. CASE op[a].code # "issued"
    <3>1. op' = op
      BY <1>2, <2>3 DEF SpendIdpCode
    <3>2. Sent(a, r, "over", run[a][r].done)
      BY <1>r, <1>2, <2>1, <2>3, ThrowsSends, WhereThrown DEF SpendIdpCode
    <3> QED
      BY <1>r, <2>1, <3>1, <3>2
      DEF Life, WhoIsWhere, CodesCount, FirstComesFirst, WaitingIsQuiet, OneDriver, EarlyHasNothing,
          ExecutionIsKnown, UndoKnowsTheAgent, DelegationFirst, SlotIsKept
  <2> QED
    BY <2>2, <2>3
<1>3. CASE ConfirmIdpConnection(a, r)
  <2>1. /\ run[a][r].pc = "confirm"
        /\ UNCHANGED <<txn, meta, executions, dedicated, holders, op, bridge, back, cleaning>>
    BY <1>3 DEF ConfirmIdpConnection, At, rows, outside, lm
  <2>2. \E pc \in {"resumable", "over"} : Sent(a, r, pc, run[a][r].done)
    BY <1>r, <1>3, <2>1, GotoSends, ThrowsSends, WhereThrown DEF ConfirmIdpConnection
  <2> QED
    BY <1>r, <2>1, <2>2, AdvancePoints
    DEF Life, WhoIsWhere, CodesCount, FirstComesFirst, WaitingIsQuiet, OneDriver, EarlyHasNothing,
        ExecutionIsKnown, UndoKnowsTheAgent, DelegationFirst, SlotIsKept
<1>4. CASE SpendBridgeCode(a, r)
  <2>1. /\ run[a][r].pc = "spend_external"
        /\ UNCHANGED <<txn, meta, executions, dedicated, holders, op, back, cleaning>>
    BY <1>4 DEF SpendBridgeCode, At, rows, lm
  <2>3. CASE bridge[a].codes > 0
    <3>1. /\ bridge'[a].codes = bridge[a].codes - 1
          /\ bridge'[a].states = bridge[a].states
          /\ bridge'[a].starts = bridge[a].starts
          /\ bridge'[a].bound = bridge[a].bound
      BY <1>4, <2>3 DEF SpendBridgeCode, TInv, TypeOK, OutsideTyped, Consents
    <3>2. \E pc \in {"resumable", "over"} : Sent(a, r, pc, run[a][r].done)
      BY <1>r, <1>4, <2>1, <2>3, GotoSends, ThrowsSends, WhereThrown DEF SpendBridgeCode
    <3>3. Coming(a)
      BY <1>v, <2>3 DEF Coming
    <3>4. ~Coming(a)'
      <4>1. op[a].code = "spent" /\ bridge[a].states + bridge[a].codes <= 1 /\ bridge[a].starts # 0
        BY <1>v, <2>3, <3>3 DEF Life, OneDriver, CodesCount
      <4> QED
        BY <1>v, <2>1, <2>3, <3>1, <4>1 DEF Coming
    <3> HIDE DEF Coming
    <3> QED
      BY <1>r, <1>v, <2>1, <2>3, <3>1, <3>2, <3>3, <3>4, AdvancePoints
      DEF Life, WhoIsWhere, CodesCount, FirstComesFirst, WaitingIsQuiet, OneDriver, EarlyHasNothing,
          ExecutionIsKnown, UndoKnowsTheAgent, DelegationFirst, SlotIsKept
  <2>4. CASE ~(bridge[a].codes > 0)
    <3>1. bridge' = bridge
      BY <1>4, <2>4 DEF SpendBridgeCode
    <3>2. Sent(a, r, "over", run[a][r].done)
      BY <1>r, <1>4, <2>1, <2>4, ThrowsSends, WhereThrown DEF SpendBridgeCode
    <3> QED
      BY <1>r, <2>1, <3>1, <3>2
      DEF Life, WhoIsWhere, CodesCount, FirstComesFirst, WaitingIsQuiet, OneDriver, EarlyHasNothing,
          ExecutionIsKnown, UndoKnowsTheAgent, DelegationFirst, SlotIsKept
  <2> QED
    BY <2>3, <2>4
<1>5. CASE PermissionsHeld(a, r)
  <2>1. /\ run[a][r].pc = "permissions"
        /\ UNCHANGED <<txn, meta, executions, dedicated, holders, op, bridge, back, cleaning>>
    BY <1>5 DEF PermissionsHeld, At, rows, outside, lm
  <2>2. \E pc \in {"verify", "refuse"} : Sent(a, r, pc, run[a][r].done)
    BY <1>r, <1>5, GotoSends DEF PermissionsHeld
  <2> QED
    BY <1>r, <2>1, <2>2
    DEF Life, WhoIsWhere, CodesCount, FirstComesFirst, WaitingIsQuiet, OneDriver, EarlyHasNothing,
        ExecutionIsKnown, UndoKnowsTheAgent, DelegationFirst, SlotIsKept
<1>6. CASE VerifyIdpConnection(a, r)
  <2>1. /\ run[a][r].pc = "verify"
        /\ UNCHANGED <<txn, meta, executions, dedicated, holders, op, bridge, back, cleaning>>
    BY <1>6 DEF VerifyIdpConnection, At, rows, outside, lm
  <2>2. CASE op[a].connection # "ACTIVE"
    <3>1. Sent(a, r, "undo", run[a][r].done)
      BY <1>r, <1>6, <2>1, <2>2, ThrowsSends, WhereThrown DEF VerifyIdpConnection
    <3> QED
      BY <1>r, <2>1, <3>1
      DEF Life, WhoIsWhere, CodesCount, FirstComesFirst, WaitingIsQuiet, OneDriver, EarlyHasNothing,
          ExecutionIsKnown, UndoKnowsTheAgent, DelegationFirst, SlotIsKept
  <2>3. CASE op[a].connection = "ACTIVE"
    <3>1. \E pc \in {"provisioning", "create_dedicated", "check_external", "register"},
             done \in {run[a][r].done, run[a][r].done \union {"verify_idp_connection"}} :
            /\ Sent(a, r, pc, done)
            /\ pc = "create_dedicated" => a \in Full
      BY <1>r, <1>6, <2>1, <2>3, GotoSends, CompletesSends
      DEF VerifyIdpConnection, AfterVerify, AfterDedicated
    <3> QED
      BY <1>r, <2>1, <2>3, <3>1
      DEF Life, WhoIsWhere, CodesCount, FirstComesFirst, WaitingIsQuiet, OneDriver, EarlyHasNothing,
          ExecutionIsKnown, UndoKnowsTheAgent, DelegationFirst, SlotIsKept
  <2> QED
    BY <2>2, <2>3
<1>7. CASE CreateDedicated(a, r)
  <2>1. /\ run[a][r].pc = "create_dedicated"
        /\ UNCHANGED <<txn, meta, executions, holders, op, bridge, back, cleaning>>
    BY <1>7 DEF CreateDedicated, At, outside, lm
  <2>2. CASE dedicated[a].made
    <3>1. FailedRow(a)
      BY <1>7, <2>2, LedgerFails DEF CreateDedicated, TInv, TypeOK
    <3>2. Sent(a, r, "undo", run[a][r].done)
      BY <1>r, <1>7, <2>1, <2>2, ThrowsSends, WhereThrown DEF CreateDedicated
    <3> QED
      BY <1>r, <2>1, <3>1, <3>2
      DEF Life, WhoIsWhere, CodesCount, FirstComesFirst, WaitingIsQuiet, OneDriver, EarlyHasNothing,
          ExecutionIsKnown, UndoKnowsTheAgent, DelegationFirst, SlotIsKept, FailedRow
  <2>3. CASE ~dedicated[a].made
    <3>1. /\ dedicated'[a].exists
          /\ dedicated'[a].status = dedicated[a].status
          /\ dedicated'[a].listed = dedicated[a].listed
      BY <1>7, <2>3 DEF CreateDedicated, TInv, TypeOK, RowsTyped, Ledgers
    <3>2. Sent(a, r, "record_dedicated", run[a][r].done)
      BY <1>r, <1>7, <2>1, <2>3, GotoSends DEF CreateDedicated
    <3> QED
      BY <1>r, <2>1, <3>1, <3>2
      DEF Life, WhoIsWhere, CodesCount, FirstComesFirst, WaitingIsQuiet, OneDriver, EarlyHasNothing,
          ExecutionIsKnown, UndoKnowsTheAgent, DelegationFirst, SlotIsKept
  <2> QED
    BY <2>2, <2>3
<1>8. CASE RecordDedicated(a, r)
  <2>1. /\ run[a][r].pc = "record_dedicated"
        /\ UNCHANGED <<txn, meta, executions, holders, op, bridge, back, cleaning>>
    BY <1>8 DEF RecordDedicated, At, outside, lm
  <2>2. /\ dedicated'[a].exists = dedicated[a].exists
        /\ dedicated'[a].status = dedicated[a].status
        /\ dedicated'[a].listed
    BY <1>8 DEF RecordDedicated, TInv, TypeOK, RowsTyped, Ledgers
  <2>3. Sent(a, r, "ready_dedicated", run[a][r].done)
    BY <1>r, <1>8, GotoSends DEF RecordDedicated
  <2> QED
    BY <1>r, <2>1, <2>2, <2>3
    DEF Life, WhoIsWhere, CodesCount, FirstComesFirst, WaitingIsQuiet, OneDriver, EarlyHasNothing,
        ExecutionIsKnown, UndoKnowsTheAgent, DelegationFirst, SlotIsKept
<1>9. CASE ReadyDedicated(a, r)
  <2>1. /\ run[a][r].pc = "ready_dedicated"
        /\ UNCHANGED <<txn, meta, executions, holders, op, bridge, back, cleaning>>
    BY <1>9 DEF ReadyDedicated, At, outside, lm
  <2>2. /\ dedicated'[a].exists = dedicated[a].exists
        /\ dedicated'[a].listed = dedicated[a].listed
        /\ dedicated'[a].status = "READY"
    BY <1>9 DEF ReadyDedicated, TInv, TypeOK, RowsTyped, Ledgers
  <2>3. \E pc \in {"check_external", "register"} :
          Sent(a, r, pc, run[a][r].done \union {"create_dedicated_resources"})
    BY <1>r, <1>9, CompletesSends DEF ReadyDedicated, AfterDedicated
  <2> QED
    BY <1>r, <2>1, <2>2, <2>3
    DEF Life, WhoIsWhere, CodesCount, FirstComesFirst, WaitingIsQuiet, OneDriver, EarlyHasNothing,
        ExecutionIsKnown, UndoKnowsTheAgent, DelegationFirst, SlotIsKept
<1>10. CASE CheckExternal(a, r)
  <2>1. /\ run[a][r].pc = "check_external"
        /\ UNCHANGED <<txn, meta, executions, dedicated, holders, op, bridge, back, cleaning>>
    BY <1>10 DEF CheckExternal, At, rows, outside, lm
  <2>2. \E pc \in {"provisioning", "pause_external"} : Sent(a, r, pc, run[a][r].done)
    BY <1>r, <1>10, GotoSends DEF CheckExternal
  <2> QED
    BY <1>r, <2>1, <2>2
    DEF Life, WhoIsWhere, CodesCount, FirstComesFirst, WaitingIsQuiet, OneDriver, EarlyHasNothing,
        ExecutionIsKnown, UndoKnowsTheAgent, DelegationFirst, SlotIsKept
<1>11. CASE CreateBinding(a, r)
  <2>1. /\ run[a][r].pc = "bind"
        /\ UNCHANGED <<txn, meta, executions, dedicated, holders, op, back, cleaning>>
    BY <1>11 DEF CreateBinding, At, rows, lm
  <2>2. /\ bridge'[a].starts = bridge[a].starts
        /\ bridge'[a].states = bridge[a].states
        /\ bridge'[a].codes = bridge[a].codes
    BY <1>11 DEF CreateBinding, TInv, TypeOK, OutsideTyped, Consents
  <2>3. ~bridge[a].bound
    BY <1>r, <2>1 DEF Life, EarlyHasNothing, Early
  <2>4. Sent(a, r, "register", run[a][r].done)
    BY <1>r, <1>11, <2>3, GotoSends DEF CreateBinding
  <2> QED
    BY <1>r, <2>1, <2>2, <2>4
    DEF Life, WhoIsWhere, CodesCount, FirstComesFirst, WaitingIsQuiet, OneDriver, EarlyHasNothing,
        ExecutionIsKnown, UndoKnowsTheAgent, DelegationFirst, SlotIsKept
<1>12. CASE FindNoAgent(a, r)
  <2>1. /\ run[a][r].pc = "register"
        /\ UNCHANGED <<txn, meta, executions, dedicated, holders, op, bridge, back, cleaning>>
    BY <1>12 DEF FindNoAgent, At, rows, outside, lm
  <2>2. \E pc \in {"set_meta", "undo"} : Sent(a, r, pc, run[a][r].done)
    BY <1>r, <1>12, <2>1, GotoSends, ThrowsSends, WhereThrown DEF FindNoAgent
  <2> QED
    BY <1>r, <2>1, <2>2
    DEF Life, WhoIsWhere, CodesCount, FirstComesFirst, WaitingIsQuiet, OneDriver, EarlyHasNothing,
        ExecutionIsKnown, UndoKnowsTheAgent, DelegationFirst, SlotIsKept
<1>13. CASE CreateAgentRegistration(a, r)
  <2>1. /\ run[a][r].pc = "set_meta"
        /\ UNCHANGED <<txn, executions, dedicated, holders, op, bridge, back, cleaning>>
    BY <1>13 DEF CreateAgentRegistration, At, outside, lm
  <2>2. meta'[a].status = "PROVISIONING" /\ ~meta'[a].named
    BY <1>13 DEF CreateAgentRegistration, TInv, TypeOK, RowsTyped, Registered
  <2>3. Sent(a, r, "write_manifest", run[a][r].done)
    BY <1>r, <1>13, GotoSends DEF CreateAgentRegistration
  <2> QED
    BY <1>r, <2>1, <2>2, <2>3
    DEF Life, WhoIsWhere, CodesCount, FirstComesFirst, WaitingIsQuiet, OneDriver, EarlyHasNothing,
        ExecutionIsKnown, UndoKnowsTheAgent, DelegationFirst, SlotIsKept
<1>14. CASE WriteAgentManifest(a, r)
  <2>1. /\ run[a][r].pc = "write_manifest"
        /\ UNCHANGED <<txn, meta, executions, dedicated, holders, op, bridge, back, cleaning>>
    BY <1>14 DEF WriteAgentManifest, At, rows, outside, lm
  <2>2. Sent(a, r, "start", run[a][r].done \union {"register_agent"})
    BY <1>r, <1>14, CompletesSends DEF WriteAgentManifest
  <2> QED
    BY <1>r, <2>1, <2>2
    DEF Life, WhoIsWhere, CodesCount, FirstComesFirst, WaitingIsQuiet, OneDriver, EarlyHasNothing,
        ExecutionIsKnown, UndoKnowsTheAgent, DelegationFirst, SlotIsKept
<1>15. CASE FindNoExecution(a, r)
  <2>1. /\ run[a][r].pc = "start"
        /\ UNCHANGED <<txn, meta, executions, dedicated, holders, op, bridge, back, cleaning>>
    BY <1>15 DEF FindNoExecution, At, rows, outside, lm
  <2>2. \E pc \in {"run_job", "undo"} : Sent(a, r, pc, run[a][r].done)
    BY <1>r, <1>15, <2>1, GotoSends, ThrowsSends, WhereThrown DEF FindNoExecution
  <2> QED
    BY <1>r, <2>1, <2>2
    DEF Life, WhoIsWhere, CodesCount, FirstComesFirst, WaitingIsQuiet, OneDriver, EarlyHasNothing,
        ExecutionIsKnown, UndoKnowsTheAgent, DelegationFirst, SlotIsKept
<1>16. CASE RunJob(a, r)
  <2>1. /\ run[a][r].pc = "run_job"
        /\ UNCHANGED <<txn, meta, dedicated, holders, op, bridge, back, cleaning>>
    BY <1>16 DEF RunJob, At, rows, lm
  <2>2. executions'[a] = executions[a] + 1 /\ executions[a] \in Nat
    BY <1>16 DEF RunJob, TInv, TypeOK, OutsideTyped
  <2>3. Sent(a, r, "name_job", run[a][r].done)
    BY <1>r, <1>16, GotoSends DEF RunJob
  <2> QED
    BY <1>r, <2>1, <2>2, <2>3
    DEF Life, WhoIsWhere, CodesCount, FirstComesFirst, WaitingIsQuiet, OneDriver, EarlyHasNothing,
        ExecutionIsKnown, UndoKnowsTheAgent, DelegationFirst, SlotIsKept
<1>17. CASE SetJobExecutionName(a, r)
  <2>1. /\ run[a][r].pc = "name_job"
        /\ UNCHANGED <<txn, executions, dedicated, holders, op, bridge, back, cleaning>>
    BY <1>17 DEF SetJobExecutionName, At, outside, lm
  <2>2. CASE Present(a)
    <3>1. meta'[a].status = meta[a].status /\ meta'[a].named
      BY <1>17, <2>2 DEF SetJobExecutionName, TInv, TypeOK, RowsTyped, Registrations
    <3>2. Sent(a, r, "activate", run[a][r].done)
      BY <1>r, <1>17, <2>2, GotoSends DEF SetJobExecutionName
    <3> QED
      BY <1>r, <2>1, <2>2, <3>1, <3>2
      DEF Life, WhoIsWhere, CodesCount, FirstComesFirst, WaitingIsQuiet, OneDriver, EarlyHasNothing,
          ExecutionIsKnown, UndoKnowsTheAgent, DelegationFirst, SlotIsKept
  <2>3. CASE ~Present(a)
    <3>1. meta' = meta
      BY <1>17, <2>3 DEF SetJobExecutionName
    <3>2. Sent(a, r, "undo", run[a][r].done)
      BY <1>r, <1>17, <2>1, <2>3, ThrowsSends, WhereThrown DEF SetJobExecutionName
    <3> QED
      BY <1>r, <2>1, <3>1, <3>2
      DEF Life, WhoIsWhere, CodesCount, FirstComesFirst, WaitingIsQuiet, OneDriver, EarlyHasNothing,
          ExecutionIsKnown, UndoKnowsTheAgent, DelegationFirst, SlotIsKept
  <2> QED
    BY <2>2, <2>3
<1>18. CASE Activate(a, r)
  <2>1. /\ run[a][r].pc = "activate"
        /\ UNCHANGED <<txn, executions, dedicated, holders, op, bridge, back, cleaning>>
    BY <1>18 DEF Activate, At, outside, lm
  <2>2. CASE Present(a)
    <3>1. meta'[a].status = "ACTIVE" /\ meta'[a].named = meta[a].named
      BY <1>18, <2>2 DEF Activate, TInv, TypeOK, RowsTyped, Registrations
    <3>2. Sent(a, r, "complete", run[a][r].done)
      BY <1>r, <1>18, <2>2, GotoSends DEF Activate
    <3> QED
      BY <1>r, <2>1, <2>2, <3>1, <3>2
      DEF Life, WhoIsWhere, CodesCount, FirstComesFirst, WaitingIsQuiet, OneDriver, EarlyHasNothing,
          ExecutionIsKnown, UndoKnowsTheAgent, DelegationFirst, SlotIsKept
  <2>3. CASE ~Present(a)
    <3>1. meta' = meta
      BY <1>18, <2>3 DEF Activate
    <3>2. Sent(a, r, "undo", run[a][r].done)
      BY <1>r, <1>18, <2>1, <2>3, ThrowsSends, WhereThrown DEF Activate
    <3> QED
      BY <1>r, <2>1, <3>1, <3>2
      DEF Life, WhoIsWhere, CodesCount, FirstComesFirst, WaitingIsQuiet, OneDriver, EarlyHasNothing,
          ExecutionIsKnown, UndoKnowsTheAgent, DelegationFirst, SlotIsKept
  <2> QED
    BY <2>2, <2>3
<1>19. CASE WriteAgentBaseline(a, r)
  <2>1. /\ run[a][r].pc = "baseline"
        /\ UNCHANGED <<txn, meta, executions, dedicated, holders, op, bridge, back, cleaning>>
    BY <1>19 DEF WriteAgentBaseline, At, rows, outside, lm
  <2>2. Sent(a, r, "over", run[a][r].done)
    BY <1>r, <1>19, GotoSends DEF WriteAgentBaseline
  <2> QED
    BY <1>r, <2>1, <2>2
    DEF Life, WhoIsWhere, CodesCount, FirstComesFirst, WaitingIsQuiet, OneDriver, EarlyHasNothing,
        ExecutionIsKnown, UndoKnowsTheAgent, DelegationFirst, SlotIsKept
<1> QED
  BY <1>1, <1>2, <1>3, <1>4, <1>5, <1>6, <1>7, <1>8, <1>9, <1>10, <1>11, <1>12, <1>13,
     <1>14, <1>15, <1>16, <1>17, <1>18, <1>19 DEF Resume

LEMMA StartKeepsLife ==
  ASSUME TInv, NEW a \in Agents, Start(a), Life(a)
  PROVE  Life(a)'
<1> USE DEF FirstPoints, Waits, Asking, Unproven, Early, Behind, Waiting, Drives, Fresh,
           AllListed, Holding, Coming, At, Present, stillHolding, DedicatedSteps, NoRow, Sent
<1>1. /\ First \in Runs /\ Resumes \subseteq Runs /\ First \notin Resumes
      /\ RunTyped
  BY ConstantsAssumption DEF Runs, ConstantsAssumption, TInv, TypeOK
<1>2. CASE Reserve(a)
  <2>1. /\ run[a][First].pc = "idle"
        /\ UNCHANGED <<txn, meta, executions, op, bridge, back, cleaning>>
    BY <1>2 DEF Reserve, At, outside, lm
  <2>2. CASE a \in Full /\ ~(Cardinality(Pruned(a)) >= Capacity)
    <3>1. /\ a \in holders'
          /\ dedicated'[a].status = "CREATING"
          /\ dedicated'[a].exists = dedicated[a].exists
          /\ dedicated'[a].listed = dedicated[a].listed
      BY <1>2, <2>2 DEF Reserve, TInv, TypeOK, RowsTyped, Ledgers
    <3>2. Sent(a, First, "create_transaction", run[a][First].done)
      BY <1>1, <1>2, <2>2, GotoSends DEF Reserve
    <3> QED
      BY <1>1, <2>1, <2>2, <3>1, <3>2
      DEF Life, WhoIsWhere, CodesCount, FirstComesFirst, WaitingIsQuiet, OneDriver, EarlyHasNothing,
          ExecutionIsKnown, UndoKnowsTheAgent, DelegationFirst, SlotIsKept
  <2>3. CASE a \notin Full
    <3>1. UNCHANGED <<dedicated, holders>>
      BY <1>2, <2>3 DEF Reserve
    <3>2. Sent(a, First, "create_transaction", run[a][First].done)
      BY <1>1, <1>2, <2>3, GotoSends DEF Reserve
    <3> QED
      BY <1>1, <2>1, <2>3, <3>1, <3>2
      DEF Life, WhoIsWhere, CodesCount, FirstComesFirst, WaitingIsQuiet, OneDriver, EarlyHasNothing,
          ExecutionIsKnown, UndoKnowsTheAgent, DelegationFirst, SlotIsKept
  <2>4. CASE a \in Full /\ Cardinality(Pruned(a)) >= Capacity
    <3>1. UNCHANGED <<dedicated, holders>>
      BY <1>2, <2>4 DEF Reserve
    <3>2. Sent(a, First, "over", run[a][First].done)
      BY <1>1, <1>2, <2>4, GotoSends DEF Reserve
    <3> QED
      BY <1>1, <2>1, <2>4, <3>1, <3>2
      DEF Life, WhoIsWhere, CodesCount, FirstComesFirst, WaitingIsQuiet, OneDriver, EarlyHasNothing,
          ExecutionIsKnown, UndoKnowsTheAgent, DelegationFirst, SlotIsKept
  <2> QED
    BY <2>2, <2>3, <2>4
<1>3. CASE CreateTransaction(a)
  <2>1. /\ run[a][First].pc = "create_transaction"
        /\ UNCHANGED <<meta, executions, dedicated, holders, op, bridge, back, cleaning>>
        /\ txn'[a] = "CREATED"
    BY <1>3 DEF CreateTransaction, At, outside, lm, TInv, TypeOK, RowsTyped
  <2>2. Sent(a, First, "idp_consent", run[a][First].done \union {"create_transaction"})
    BY <1>1, <1>3, CompletesSends DEF CreateTransaction
  <2> QED
    BY <1>1, <2>1, <2>2
    DEF Life, WhoIsWhere, CodesCount, FirstComesFirst, WaitingIsQuiet, OneDriver, EarlyHasNothing,
        ExecutionIsKnown, UndoKnowsTheAgent, DelegationFirst, SlotIsKept
<1>4. CASE CreateIdpConnection(a)
  <2>1. /\ run[a][First].pc = "idp_consent"
        /\ UNCHANGED <<txn, meta, executions, dedicated, holders, bridge, back, cleaning>>
        /\ op'[a].connection = op[a].connection /\ op'[a].code = op[a].code
    BY <1>4 DEF CreateIdpConnection, At, rows, lm, TInv, TypeOK, OutsideTyped, Connections
  <2>2. Sent(a, First, "pause_idp", run[a][First].done)
    BY <1>1, <1>4, GotoSends DEF CreateIdpConnection
  <2> QED
    BY <1>1, <2>1, <2>2
    DEF Life, WhoIsWhere, CodesCount, FirstComesFirst, WaitingIsQuiet, OneDriver, EarlyHasNothing,
        ExecutionIsKnown, UndoKnowsTheAgent, DelegationFirst, SlotIsKept
<1> QED
  BY <1>2, <1>3, <1>4 DEF Start

\* Undoing begins with the registration.
LEMMA UndoneInOrder ==
  ASSUME TInv, NEW a \in Agents, NEW p \in Runs, run[a][p].done # {}
  PROVE  /\ NextUndone(a, p) \in run[a][p].done
         /\ "register_agent" \in run[a][p].done => NextUndone(a, p) = "register_agent"
<1> DEFINE done == run[a][p].done
           IsNext(i) == Undone[i] \in done /\ \A j \in 1 .. i - 1 : Undone[j] \notin done
<1>1. done \subseteq Compensated
  BY DEF TInv, TypeOK, RunTyped, Request
<1>2. DOMAIN Undone = 1 .. 4
  BY DEF Undone
<1>3. /\ Undone[1] = "register_agent" /\ Undone[2] = "create_dedicated_resources"
      /\ Undone[3] = "verify_idp_connection" /\ Undone[4] = "create_transaction"
  BY DEF Undone
<1> HIDE DEF done
<1>4. \E i \in DOMAIN Undone : IsNext(i)
  <2>1. CASE Undone[1] \in done
    BY <1>2, <2>1
  <2>2. CASE Undone[1] \notin done /\ Undone[2] \in done
    <3>1. 2 - 1 = 1
      OBVIOUS
    <3> QED
      BY <1>2, <2>2, <3>1
  <2>3. CASE Undone[1] \notin done /\ Undone[2] \notin done /\ Undone[3] \in done
    <3>1. 1 .. 3 - 1 = {1, 2}
      OBVIOUS
    <3> QED
      BY <1>2, <2>3, <3>1
  <2>4. CASE Undone[1] \notin done /\ Undone[2] \notin done /\ Undone[3] \notin done
    <3>1. Undone[4] \in done
      <4>1. done # {}
        BY DEF done
      <4> QED
        BY <1>1, <1>3, <2>4, <4>1, AllCompensated
    <3>2. 1 .. 4 - 1 = {1, 2, 3}
      OBVIOUS
    <3> QED
      BY <1>2, <2>4, <3>1, <3>2
  <2> QED
    BY <2>1, <2>2, <2>3, <2>4
<1> DEFINE next == CHOOSE i \in DOMAIN Undone : IsNext(i)
<1>5. next \in DOMAIN Undone /\ IsNext(next)
  BY <1>4
<1>6. NextUndone(a, p) = Undone[next]
  BY DEF NextUndone, done
<1> HIDE DEF next
<1>7. Undone[next] \in done
  BY <1>5
<1>8. ASSUME "register_agent" \in done
      PROVE  Undone[next] = "register_agent"
  <2>1. next = 1 \/ 1 \in 1 .. next - 1
    BY <1>2, <1>5
  <2> QED
    BY <1>3, <1>5, <1>8, <2>1
<1> QED
  BY <1>6, <1>7, <1>8 DEF done

\* The steps any request may take, on the first request and on one that resumes.
LEMMA EitherKeepsLife ==
  ASSUME TInv, NEW a \in Agents, NEW p \in Runs, Either(a, p), Life(a)
  PROVE  Life(a)'
<1> USE DEF FirstPoints, Waits, Asking, Unproven, Early, Behind, Waiting, Drives, Fresh,
           AllListed, Holding, Coming, At, Present, stillHolding, DedicatedSteps, NoRow, Sent
<1>1. /\ First \in Runs /\ Resumes \subseteq Runs /\ First \notin Resumes
      /\ p = First \/ p \in Resumes
      /\ RunTyped /\ run[a][p] \in Request
      /\ run[a][p].checked = TRUE => run[a][p].pc \in DOMAIN Target
  BY ConstantsAssumption DEF Runs, ConstantsAssumption, TInv, TypeOK, RunTyped,
     CheckedAtAdvance
<1>2. Thrown(p, run[a][p].pc) =
        IF run[a][p].pc = "fail" THEN (IF p = First THEN "over" ELSE "refuse")
        ELSE IF run[a][p].pc \in {"create_transaction", "spend_idp", "spend_external",
                                  "confirm", "resumable", "permissions", "refuse"}
             THEN "over" ELSE "undo"
  BY DEF Thrown, AfterFail, EndsRequest
<1>3. CASE AdvanceChecks(a, p)
  <2>1. /\ run[a][p].pc \in DOMAIN Target
        /\ UNCHANGED <<txn, meta, executions, dedicated, holders, op, bridge, back, cleaning>>
    BY <1>3 DEF AdvanceChecks, rows, outside, lm
  <2>2. CASE CanAdvance(a, Target[run[a][p].pc])
    <3>1. /\ \A q \in Runs : q # p => run'[a][q] = run[a][q]
          /\ run'[a][p].pc = run[a][p].pc
          /\ run'[a][p].done = run[a][p].done
          /\ run'[a][p].lost = run[a][p].lost
      BY <1>1, <1>3, <2>2 DEF AdvanceChecks, RunTyped, Request
    <3>2. run[a][p].pc = "resumable" => txn[a] \in Waiting
      <4>1. ASSUME run[a][p].pc = "resumable"
            PROVE  txn[a] \in Waiting
        <5>1. txn[a] \in TRANSACTION_STATUSES /\ "RESUMABLE" \in ALLOWED[txn[a]]
          BY <2>2, <4>1 DEF CanAdvance, TInv, TypeOK, RowsTyped, Target
        <5> QED
          BY <5>1 DEF ALLOWED, Waiting, TRANSACTION_STATUSES, Unfinished, TERMINAL_STATUSES
      <4> QED
        BY <4>1
    <3>3. CASE p = First
      BY <1>1, <2>1, <3>1, <3>3
      DEF Life, WhoIsWhere, CodesCount, FirstComesFirst, WaitingIsQuiet, OneDriver, EarlyHasNothing,
          ExecutionIsKnown, UndoKnowsTheAgent, DelegationFirst, SlotIsKept
    <3>4. CASE p \in Resumes
      <4>1. WhoIsWhere(a)' /\ CodesCount(a)' /\ WaitingIsQuiet(a)' /\ OneDriver(a)'
        BY <1>1, <2>1, <3>1, <3>4
        DEF Life, WhoIsWhere, CodesCount, FirstComesFirst, WaitingIsQuiet, OneDriver, EarlyHasNothing,
            ExecutionIsKnown, UndoKnowsTheAgent, DelegationFirst, SlotIsKept
      <4>2. EarlyHasNothing(a)' /\ ExecutionIsKnown(a)' /\ UndoKnowsTheAgent(a)' /\ DelegationFirst(a)'
        BY <1>1, <2>1, <3>1, <3>4
        DEF Life, WhoIsWhere, CodesCount, FirstComesFirst, WaitingIsQuiet, OneDriver, EarlyHasNothing,
            ExecutionIsKnown, UndoKnowsTheAgent, DelegationFirst, SlotIsKept
      <4>3. FirstComesFirst(a)'
        BY <1>1, <2>1, <3>1, <3>2, <3>4
        DEF Life, WhoIsWhere, CodesCount, FirstComesFirst, WaitingIsQuiet, OneDriver, EarlyHasNothing,
            ExecutionIsKnown, UndoKnowsTheAgent, DelegationFirst, SlotIsKept
      <4>4. SlotIsKept(a)'
        BY <1>1, <2>1, <3>1, <3>2, <3>4
        DEF Life, WhoIsWhere, CodesCount, FirstComesFirst, WaitingIsQuiet, OneDriver, EarlyHasNothing,
            ExecutionIsKnown, UndoKnowsTheAgent, DelegationFirst, SlotIsKept
      <4> QED
        BY <4>1, <4>2, <4>3, <4>4 DEF Life
    <3> QED
      BY <1>1, <3>3, <3>4
  <2>3. CASE ~CanAdvance(a, Target[run[a][p].pc])
    <3>1. Sent(a, p, Thrown(p, run[a][p].pc), run[a][p].done)
      BY <1>1, <1>3, <2>3, ThrowsSends DEF AdvanceChecks
    <3> QED
      BY <1>1, <1>2, <2>1, <3>1, AdvancePoints
      DEF Life, WhoIsWhere, CodesCount, FirstComesFirst, WaitingIsQuiet, OneDriver, EarlyHasNothing,
          ExecutionIsKnown, UndoKnowsTheAgent, DelegationFirst, SlotIsKept
  <2> QED
    BY <2>2, <2>3
<1>4. CASE AdvanceWrites(a, p)
  <2>1. /\ run[a][p].pc \in DOMAIN Target
        /\ run[a][p].checked = TRUE
        /\ txn'[a] = Target[run[a][p].pc]
        /\ UNCHANGED <<meta, executions, dedicated, holders, op, bridge, back, cleaning>>
    BY <1>1, <1>4 DEF AdvanceWrites, outside, lm, TInv, TypeOK, RowsTyped, Request
  <2>2. /\ \A q \in Runs : q # p => run'[a][q] = run[a][q]
        /\ run'[a][p].pc = AfterAdvance(a, p, run[a][p].pc)
        /\ run'[a][p].checked = FALSE
        /\ run'[a][p].done = run[a][p].done \union Completed(run[a][p].pc)
        /\ run'[a][p].lost = run[a][p].lost
    BY <1>1, <1>4 DEF AdvanceWrites, RunTyped, Request
  <2>3. CASE run[a][p].pc = "resumable"
    <3>1. /\ txn'[a] = "RESUMABLE" /\ run'[a][p].pc = "permissions"
          /\ run'[a][p].done = run[a][p].done
      BY <2>1, <2>2, <2>3 DEF Target, AfterAdvance, Completed
    <3> QED
      BY <1>1, <2>1, <2>2, <2>3, <3>1
      DEF Life, WhoIsWhere, CodesCount, FirstComesFirst, WaitingIsQuiet, OneDriver, EarlyHasNothing,
          ExecutionIsKnown, UndoKnowsTheAgent, DelegationFirst, SlotIsKept
  <2>4. CASE run[a][p].pc = "provisioning"
    <3>1. /\ txn'[a] = "PROVISIONING"
          /\ run'[a][p].pc \in {"bind", "create_dedicated", "register"}
          /\ run'[a][p].pc = "create_dedicated" => a \in Full
      BY <2>1, <2>2, <2>4 DEF Target, AfterAdvance, AfterVerify, AfterDedicated
    <3> QED
      BY <1>1, <2>1, <2>2, <2>4, <3>1
      DEF Life, WhoIsWhere, CodesCount, FirstComesFirst, WaitingIsQuiet, OneDriver, EarlyHasNothing,
          ExecutionIsKnown, UndoKnowsTheAgent, DelegationFirst, SlotIsKept
  <2>5. CASE run[a][p].pc = "pause_external"
    <3>1. /\ txn'[a] = "WAITING_EXTERNAL_CONSENT" /\ run'[a][p].pc = "over"
          /\ run'[a][p].done = run[a][p].done
      BY <2>1, <2>2, <2>5 DEF Target, AfterAdvance, Completed
    <3> QED
      BY <1>1, <2>1, <2>2, <2>5, <3>1
      DEF Life, WhoIsWhere, CodesCount, FirstComesFirst, WaitingIsQuiet, OneDriver, EarlyHasNothing,
          ExecutionIsKnown, UndoKnowsTheAgent, DelegationFirst, SlotIsKept
  <2>6. CASE run[a][p].pc = "pause_idp"
    <3>1. /\ txn'[a] = "WAITING_IDP_CONSENT" /\ run'[a][p].pc = "over"
          /\ run'[a][p].done = run[a][p].done
      BY <2>1, <2>2, <2>6 DEF Target, AfterAdvance, Completed
    <3> QED
      BY <1>1, <2>1, <2>2, <2>6, <3>1
      DEF Life, WhoIsWhere, CodesCount, FirstComesFirst, WaitingIsQuiet, OneDriver, EarlyHasNothing,
          ExecutionIsKnown, UndoKnowsTheAgent, DelegationFirst, SlotIsKept
  <2>7. CASE run[a][p].pc = "complete"
    <3>1. /\ txn'[a] = "COMPLETED" /\ run'[a][p].pc = "baseline"
          /\ run'[a][p].done = run[a][p].done
      BY <2>1, <2>2, <2>7 DEF Target, AfterAdvance, Completed
    <3> QED
      BY <1>1, <2>1, <2>2, <2>7, <3>1
      DEF Life, WhoIsWhere, CodesCount, FirstComesFirst, WaitingIsQuiet, OneDriver, EarlyHasNothing,
          ExecutionIsKnown, UndoKnowsTheAgent, DelegationFirst, SlotIsKept
  <2>8. CASE run[a][p].pc \in {"fail", "refuse"}
    <3>1. /\ txn'[a] = "FAILED"
          /\ run'[a][p].pc \in {"over", "refuse"}
          /\ p = First => run'[a][p].pc = "over"
          /\ run'[a][p].done = run[a][p].done
      BY <2>1, <2>2, <2>8 DEF Target, AfterAdvance, AfterFail, Completed
    <3> QED
      BY <1>1, <2>1, <2>2, <2>8, <3>1
      DEF Life, WhoIsWhere, CodesCount, FirstComesFirst, WaitingIsQuiet, OneDriver, EarlyHasNothing,
          ExecutionIsKnown, UndoKnowsTheAgent, DelegationFirst, SlotIsKept
  <2> QED
    BY <2>1, <2>3, <2>4, <2>5, <2>6, <2>7, <2>8, AdvancePoints
<1>5. CASE StepFails(a, p)
  <2>1. /\ run[a][p].pc \in EndsRequest \union FailsStep
        /\ UNCHANGED <<txn, meta, executions, holders, op, bridge, back, cleaning>>
    BY <1>5 DEF StepFails, outside, lm
  <2>2. Sent(a, p, Thrown(p, run[a][p].pc), run[a][p].done)
    BY <1>1, <1>5, ThrowsSends DEF StepFails
  <2>3. run[a][p].pc \notin {"idle", "over", "undo"}
    BY <2>1 DEF EndsRequest, FailsStep, DedicatedSteps
  <2>4. (FailedRow(a) /\ run[a][p].pc \in DedicatedSteps) \/ dedicated' = dedicated
    BY <1>5, LedgerFails DEF StepFails, TInv, TypeOK
  <2>5. CASE FailedRow(a) /\ run[a][p].pc \in DedicatedSteps
    <3>1. p \in Resumes /\ Sent(a, p, "undo", run[a][p].done)
      BY <1>1, <1>2, <2>2, <2>5 DEF Life, WhoIsWhere, FirstPoints, DedicatedSteps
    <3> QED
      BY <1>1, <2>1, <2>5, <3>1
      DEF Life, WhoIsWhere, CodesCount, FirstComesFirst, WaitingIsQuiet, OneDriver, EarlyHasNothing,
          ExecutionIsKnown, UndoKnowsTheAgent, DelegationFirst, SlotIsKept, FailedRow
  <2>6. CASE dedicated' = dedicated
    <3>1. CASE p = First
      BY <1>1, <1>2, <2>1, <2>2, <2>3, <2>6, <3>1
      DEF Life, WhoIsWhere, CodesCount, FirstComesFirst, WaitingIsQuiet, OneDriver, EarlyHasNothing,
          ExecutionIsKnown, UndoKnowsTheAgent, DelegationFirst, SlotIsKept
    <3>2. CASE p \in Resumes
      BY <1>1, <1>2, <2>1, <2>2, <2>6, <3>2
      DEF Life, WhoIsWhere, CodesCount, FirstComesFirst, WaitingIsQuiet, OneDriver, EarlyHasNothing,
          ExecutionIsKnown, UndoKnowsTheAgent, DelegationFirst, SlotIsKept, EndsRequest, FailsStep
    <3> QED
      BY <1>1, <3>1, <3>2
  <2> QED
    BY <2>4, <2>5, <2>6
<1>6. CASE Crash(a, p)
  <2>1. /\ run[a][p].pc \in Underway
        /\ UNCHANGED <<txn, meta, executions, dedicated, holders, op, bridge, back, cleaning>>
    BY <1>6 DEF Crash, rows, outside, lm
  <2>2. run[a][p].pc \notin {"idle", "over"}
    BY <2>1 DEF Underway, EndsRequest, FailsStep, DedicatedSteps
  <2>3. Sent(a, p, "over", run[a][p].done)
    BY <1>1, <1>6 DEF Crash, RunTyped, Request, Sent
  <2> QED
    BY <1>1, <2>1, <2>2, <2>3
    DEF Life, WhoIsWhere, CodesCount, FirstComesFirst, WaitingIsQuiet, OneDriver, EarlyHasNothing,
        ExecutionIsKnown, UndoKnowsTheAgent, DelegationFirst, SlotIsKept
<1>7. CASE Compensate(a, p)
  <2> DEFINE step == NextUndone(a, p)
  <2>1. /\ run[a][p].pc = "undo" /\ run[a][p].done # {}
        /\ UNCHANGED <<txn, executions, holders, op, bridge, back, cleaning>>
        /\ meta'[a] = IF step = "register_agent" THEN NoMeta ELSE meta[a]
    BY <1>7 DEF Compensate, At, outside, lm, TInv, TypeOK, RowsTyped
  <2>2. /\ step \in run[a][p].done
        /\ "register_agent" \in run[a][p].done => step = "register_agent"
    BY <2>1, UndoneInOrder
  <2>3. Sent(a, p, "undo", run[a][p].done \ {step})
    BY <1>1, <1>7, <2>1 DEF Compensate, RunTyped, Request, Sent
  <2>4. FailedRow(a) \/ dedicated' = dedicated
    BY <1>7, LedgerFails DEF Compensate, TInv, TypeOK
  <2> HIDE DEF step
  <2>5. NoMeta.status = "absent"
    BY DEF NoMeta
  <2>6. CASE FailedRow(a)
    <3>1. CASE p = First
      <4>1. WhoIsWhere(a)' /\ CodesCount(a)' /\ WaitingIsQuiet(a)' /\ OneDriver(a)' /\ FirstComesFirst(a)'
        BY <1>1, <2>1, <2>2, <2>3, <2>5, <2>6, <3>1
        DEF Life, WhoIsWhere, CodesCount, FirstComesFirst, WaitingIsQuiet, OneDriver, EarlyHasNothing,
            ExecutionIsKnown, UndoKnowsTheAgent, DelegationFirst, SlotIsKept, FailedRow
      <4>2. EarlyHasNothing(a)' /\ ExecutionIsKnown(a)' /\ UndoKnowsTheAgent(a)' /\ DelegationFirst(a)'
        BY <1>1, <2>1, <2>2, <2>3, <2>5, <2>6, <3>1
        DEF Life, WhoIsWhere, CodesCount, FirstComesFirst, WaitingIsQuiet, OneDriver, EarlyHasNothing,
            ExecutionIsKnown, UndoKnowsTheAgent, DelegationFirst, SlotIsKept, FailedRow
      <4>4. SlotIsKept(a)'
        BY <1>1, <2>1, <2>2, <2>3, <2>5, <2>6, <3>1
        DEF Life, WhoIsWhere, CodesCount, FirstComesFirst, WaitingIsQuiet, OneDriver, EarlyHasNothing,
            ExecutionIsKnown, UndoKnowsTheAgent, DelegationFirst, SlotIsKept, FailedRow
      <4> QED
        BY <4>1, <4>2, <4>4 DEF Life
    <3>2. CASE p \in Resumes
      BY <1>1, <2>1, <2>2, <2>3, <2>5, <2>6, <3>2
      DEF Life, WhoIsWhere, CodesCount, FirstComesFirst, WaitingIsQuiet, OneDriver, EarlyHasNothing,
          ExecutionIsKnown, UndoKnowsTheAgent, DelegationFirst, SlotIsKept, FailedRow
    <3> QED
      BY <1>1, <3>1, <3>2
  <2>7. CASE dedicated' = dedicated
    BY <1>1, <2>1, <2>2, <2>3, <2>5, <2>7
    DEF Life, WhoIsWhere, CodesCount, FirstComesFirst, WaitingIsQuiet, OneDriver, EarlyHasNothing,
        ExecutionIsKnown, UndoKnowsTheAgent, DelegationFirst, SlotIsKept
  <2> QED
    BY <2>4, <2>6, <2>7
<1>8. CASE CompensationFails(a, p)
  <2> DEFINE step == NextUndone(a, p)
  <2>1. /\ run[a][p].pc = "undo" /\ run[a][p].done # {}
        /\ UNCHANGED <<txn, meta, executions, dedicated, holders, op, bridge, back, cleaning>>
    BY <1>8 DEF CompensationFails, At, rows, outside, lm
  <2>2. /\ \A q \in Runs : q # p => run'[a][q] = run[a][q]
        /\ run'[a][p].pc = "undo"
        /\ run'[a][p].done = run[a][p].done \ {step}
        /\ run'[a][p].lost = TRUE
    BY <1>1, <1>8, <2>1 DEF CompensationFails, RunTyped, Request
  <2> HIDE DEF step
  <2> QED
    BY <1>1, <2>1, <2>2
    DEF Life, WhoIsWhere, CodesCount, FirstComesFirst, WaitingIsQuiet, OneDriver, EarlyHasNothing,
        ExecutionIsKnown, UndoKnowsTheAgent, DelegationFirst, SlotIsKept
<1>9. CASE RolledBack(a, p)
  <2>1. /\ run[a][p].pc = "undo" /\ run[a][p].done = {}
        /\ UNCHANGED <<txn, meta, executions, dedicated, holders, op, bridge, back, cleaning>>
    BY <1>9 DEF RolledBack, At, rows, outside, lm
  <2>2. Sent(a, p, "fail", run[a][p].done)
    BY <1>1, <1>9, GotoSends DEF RolledBack
  <2> QED
    BY <1>1, <2>1, <2>2
    DEF Life, WhoIsWhere, CodesCount, FirstComesFirst, WaitingIsQuiet, OneDriver, EarlyHasNothing,
        ExecutionIsKnown, UndoKnowsTheAgent, DelegationFirst, SlotIsKept
<1> QED
  BY <1>3, <1>4, <1>5, <1>6, <1>7, <1>8, <1>9 DEF Either

LEMMA CallbackKeepsLife ==
  ASSUME TInv, NEW a \in Agents, NEW c \in Callbacks, Callback(a, c), Life(a)
  PROVE  Life(a)'
<1> USE DEF FirstPoints, Waits, Asking, Unproven, Early, Behind, Waiting, Drives, Fresh,
           AllListed, Holding, Coming, At, Present, stillHolding, DedicatedSteps, NoRow, Sent
<1>1. /\ First \in Runs /\ Resumes \subseteq Runs
      /\ UNCHANGED <<meta, executions, dedicated, holders, bridge, run, cleaning>>
  BY DEF Runs, Callback, CallbackReads, CallbackMarksUsed, CallbackGranted, CallbackRefused,
         failTransaction, CallbackIssuesCode, rows, outside, lm
<1>2. op[a] \in Connections /\ back[a] \in [Callbacks -> BackPoints]
  BY DEF TInv, TypeOK, OutsideTyped, BackTyped
<1>3. ASSUME txn'[a] = txn[a], op'[a].connection = op[a].connection, op'[a].code = op[a].code,
             \A d \in Callbacks : back'[a][d] = "issue" => back[a][d] = "issue"
      PROVE  Life(a)'
  BY <1>1, <1>3
  DEF Life, WhoIsWhere, CodesCount, FirstComesFirst, WaitingIsQuiet, OneDriver, EarlyHasNothing,
      ExecutionIsKnown, UndoKnowsTheAgent, DelegationFirst, SlotIsKept
<1>4. ASSUME NEW pc, back' = [back EXCEPT ![a][c] = pc], pc # "issue"
      PROVE  \A d \in Callbacks : back'[a][d] = "issue" => back[a][d] = "issue"
  BY <1>2, <1>4 DEF TInv, TypeOK, BackTyped
<1>5. CASE CallbackReads(a, c) \/ CallbackRefused(a, c)
  <2>1. \E pc \in {"mark", "refused"} : back' = [back EXCEPT ![a][c] = pc]
    BY <1>5 DEF CallbackReads, CallbackRefused
  <2> QED
    BY <1>3, <1>4, <1>5, <2>1 DEF CallbackReads, CallbackRefused, rows, outside
<1>6. CASE CallbackMarksUsed(a, c)
  <2>1. back' = [back EXCEPT ![a][c] = "exchange"]
    BY <1>6 DEF CallbackMarksUsed
  <2>2. txn' = txn /\ op'[a].connection = op[a].connection /\ op'[a].code = op[a].code
    BY <1>2, <1>6 DEF CallbackMarksUsed, rows, TInv, TypeOK, OutsideTyped, Connections
  <2> QED
    BY <1>3, <1>4, <2>1, <2>2
<1>7. CASE CallbackGranted(a, c)
  <2>1. /\ op[a].connection = "none" /\ op'[a].connection = "ACTIVE"
        /\ op'[a].code = op[a].code /\ txn' = txn
    BY <1>7 DEF CallbackGranted, rows, TInv, TypeOK, OutsideTyped, Connections
  <2>2. \A d \in Callbacks : back'[a][d] = IF d = c THEN "issue" ELSE back[a][d]
    BY <1>2, <1>7 DEF CallbackGranted, TInv, TypeOK, BackTyped
  <2> QED
    BY <1>1, <2>1, <2>2
    DEF Life, WhoIsWhere, CodesCount, FirstComesFirst, WaitingIsQuiet, OneDriver, EarlyHasNothing,
        ExecutionIsKnown, UndoKnowsTheAgent, DelegationFirst, SlotIsKept
<1>8. CASE failTransaction(a, c)
  <2>1. back' = [back EXCEPT ![a][c] = "over"] /\ op' = op
    BY <1>8 DEF failTransaction, outside
  <2>2. \A d \in Callbacks : back'[a][d] = "issue" => back[a][d] = "issue"
    BY <1>4, <2>1
  <2>3. txn'[a] = txn[a] \/ txn'[a] = "FAILED"
    BY <1>8 DEF failTransaction, TInv, TypeOK, RowsTyped
  <2> QED
    BY <1>1, <2>1, <2>2, <2>3
    DEF Life, WhoIsWhere, CodesCount, FirstComesFirst, WaitingIsQuiet, OneDriver, EarlyHasNothing,
        ExecutionIsKnown, UndoKnowsTheAgent, DelegationFirst, SlotIsKept
<1>9. CASE CallbackIssuesCode(a, c)
  <2>1. /\ back[a][c] = "issue" /\ txn' = txn
        /\ op'[a].connection = op[a].connection /\ op'[a].code = "issued"
    BY <1>9 DEF CallbackIssuesCode, rows, TInv, TypeOK, OutsideTyped, Connections
  <2>2. \A d \in Callbacks : back'[a][d] = IF d = c THEN "over" ELSE back[a][d]
    BY <1>2, <1>9 DEF CallbackIssuesCode, TInv, TypeOK, BackTyped
  <2> QED
    BY <1>1, <2>1, <2>2
    DEF Life, WhoIsWhere, CodesCount, FirstComesFirst, WaitingIsQuiet, OneDriver, EarlyHasNothing,
        ExecutionIsKnown, UndoKnowsTheAgent, DelegationFirst, SlotIsKept
<1> QED
  BY <1>5, <1>6, <1>7, <1>8, <1>9 DEF Callback

\* The first visit is what a code may come from.
LEMMA ConsentKeepsLife ==
  ASSUME TInv, NEW a \in Agents, OauthStart(a) \/ OauthCallback(a), OneVisit(a)', Life(a)
  PROVE  Life(a)'
<1> USE DEF FirstPoints, Waits, Asking, Unproven, Early, Behind, Waiting, Drives, Fresh,
           AllListed, Holding, Coming, At, Present, stillHolding, DedicatedSteps, NoRow, Sent
<1>1. /\ bridge[a].starts \in Nat /\ bridge[a].states \in Nat /\ bridge[a].codes \in Nat
      /\ First \in Runs /\ Resumes \subseteq Runs
  BY ConstantsAssumption DEF ConstantsAssumption, TInv, TypeOK, OutsideTyped, Consents, Runs
<1>2. UNCHANGED <<txn, meta, executions, dedicated, holders, op, run, back, cleaning>>
  BY DEF OauthStart, OauthCallback, rows, lm
<1>3. CASE OauthStart(a)
  <2>1. /\ txn[a] = "WAITING_EXTERNAL_CONSENT"
        /\ bridge'[a].starts = bridge[a].starts + 1
        /\ bridge'[a].states = bridge[a].states + 1
        /\ bridge'[a].codes = bridge[a].codes
        /\ bridge'[a].bound = bridge[a].bound
    BY <1>3 DEF OauthStart, TInv, TypeOK, OutsideTyped, Consents
  <2>2. bridge[a].starts = 0
    BY <1>1, <2>1 DEF OneVisit
  <2>3. Coming(a)
    BY <2>1, <2>2 DEF Coming
  <2>4. op[a].code = "spent"
    BY <2>1 DEF Life, OneDriver
  <2> QED
    BY <1>1, <1>2, <2>1, <2>2, <2>3, <2>4
    DEF Life, WhoIsWhere, CodesCount, FirstComesFirst, WaitingIsQuiet, OneDriver, EarlyHasNothing,
        ExecutionIsKnown, UndoKnowsTheAgent, DelegationFirst, SlotIsKept
<1>4. CASE OauthCallback(a)
  <2>1. /\ bridge'[a].starts = bridge[a].starts
        /\ bridge'[a].states + bridge'[a].codes = bridge[a].states + bridge[a].codes
        /\ bridge'[a].bound = bridge[a].bound
    <3>1. /\ bridge'[a].states = bridge[a].states - 1
          /\ bridge'[a].codes = bridge[a].codes + 1
      BY <1>4 DEF OauthCallback, TInv, TypeOK, OutsideTyped, Consents
    <3> QED
      BY <1>1, <1>4, <3>1 DEF OauthCallback, TInv, TypeOK, OutsideTyped, Consents
  <2> QED
    BY <1>1, <1>2, <2>1
    DEF Life, WhoIsWhere, CodesCount, FirstComesFirst, WaitingIsQuiet, OneDriver, EarlyHasNothing,
        ExecutionIsKnown, UndoKnowsTheAgent, DelegationFirst, SlotIsKept
<1> QED
  BY <1>3, <1>4

\* A stop is of a record that is there.
LEMMA CleanupStartKeepsLife ==
  ASSUME TInv, NEW a \in Agents, CleanupStarts(a), Life(a),
         UNCHANGED <<executions, dedicated, holders, op, bridge, run, back>>,
         txn'[a] = txn[a] \/ txn'[a] = "ABANDONED"
  PROVE  Life(a)'
<1> USE DEF FirstPoints, Waits, Asking, Unproven, Early, Behind, Waiting, Drives, Fresh,
           AllListed, Holding, Coming, At, Present, stillHolding, DedicatedSteps, NoRow, Sent
<1>1. First \in Runs /\ Resumes \subseteq Runs
  BY DEF Runs
<1>2. CASE Present(a) /\ a \notin cleaning
  <2>1. a \in cleaning'
    BY <1>2 DEF CleanupStarts
  <2>2. /\ meta'[a].named = meta[a].named
        /\ meta'[a].status = "ACTIVE" => meta[a].status = "ACTIVE"
    BY <1>2 DEF CleanupStarts, Stopped, TInv, TypeOK, RowsTyped, Registrations
  <2> QED
    BY <1>1, <1>2, <2>1, <2>2
    DEF Life, WhoIsWhere, CodesCount, FirstComesFirst, WaitingIsQuiet, OneDriver, EarlyHasNothing,
        ExecutionIsKnown, UndoKnowsTheAgent, DelegationFirst, SlotIsKept
<1>3. CASE ~(Present(a) /\ a \notin cleaning)
  BY <1>1, <1>3
  DEF Life, WhoIsWhere, CodesCount, FirstComesFirst, WaitingIsQuiet, OneDriver, EarlyHasNothing,
      ExecutionIsKnown, UndoKnowsTheAgent, DelegationFirst, SlotIsKept, CleanupStarts
<1> QED
  BY <1>2, <1>3

LEMMA LifecycleKeepsLife ==
  ASSUME TInv, NEW a \in Agents, Lifecycle(a), Life(a)
  PROVE  Life(a)'
<1> USE DEF FirstPoints, Waits, Asking, Unproven, Early, Behind, Waiting, Drives, Fresh,
           AllListed, Holding, Coming, At, Present, stillHolding, DedicatedSteps, NoRow, Sent
<1>1. First \in Runs /\ Resumes \subseteq Runs
  BY DEF Runs
<1>2. CASE Ages(a)
  BY <1>1, <1>2
  DEF Life, WhoIsWhere, CodesCount, FirstComesFirst, WaitingIsQuiet, OneDriver, EarlyHasNothing,
      ExecutionIsKnown, UndoKnowsTheAgent, DelegationFirst, SlotIsKept, Ages, outside, lm
<1>3. CASE SweepAbandons(a)
  <2>1. txn'[a] = "ABANDONED"
    BY <1>3 DEF SweepAbandons, TInv, TypeOK, RowsTyped
  <2> QED
    BY <1>3, <2>1, CleanupStartKeepsLife DEF SweepAbandons, outside
<1>4. CASE SweepDeletesOrphan(a)
  <2>1. /\ dedicated'[a].status = dedicated[a].status
        /\ dedicated'[a].listed = dedicated[a].listed
        /\ ~dedicated'[a].exists
        /\ UNCHANGED <<txn, meta, executions, holders, op, bridge, run, back, cleaning>>
    BY <1>4 DEF SweepDeletesOrphan, TInv, TypeOK, RowsTyped, Ledgers, outside, lm
  <2> QED
    BY <1>1, <2>1
    DEF Life, WhoIsWhere, CodesCount, FirstComesFirst, WaitingIsQuiet, OneDriver, EarlyHasNothing,
        ExecutionIsKnown, UndoKnowsTheAgent, DelegationFirst, SlotIsKept
<1>5. CASE DisableAbandons(a)
  <2>1. /\ txn'[a] = "ABANDONED"
        /\ UNCHANGED <<meta, executions, dedicated, holders, op, bridge, run, back, cleaning>>
    BY <1>5 DEF DisableAbandons, TInv, TypeOK, RowsTyped, outside
  <2> QED
    BY <1>1, <2>1
    DEF Life, WhoIsWhere, CodesCount, FirstComesFirst, WaitingIsQuiet, OneDriver, EarlyHasNothing,
        ExecutionIsKnown, UndoKnowsTheAgent, DelegationFirst, SlotIsKept
<1>6. CASE DisableRevokes(a)
  BY <1>6, CleanupStartKeepsLife DEF DisableRevokes, outside
<1>7. CASE CleanupEnds(a)
  <2>1. /\ a \in cleaning /\ a \notin cleaning'
        /\ UNCHANGED <<txn, executions, holders, run, back>>
        /\ meta'[a] = NoMeta /\ NoMeta.status = "absent"
    BY <1>7 DEF CleanupEnds, TInv, TypeOK, RowsTyped, NoMeta
  <2>2. /\ op'[a].code = op[a].code
        /\ op'[a].connection =
             IF op[a].connection = "ACTIVE" THEN "REVOKED" ELSE op[a].connection
    BY <1>7 DEF CleanupEnds, TInv, TypeOK, OutsideTyped, Connections
  <2>3. bridge' = bridge
    BY <1>7 DEF CleanupEnds
  <2>4. ~dedicated'[a].listed /\ ~dedicated'[a].exists
    <3>1. AllListed(a) /\ (dedicated[a].listed => dedicated[a].status # "absent")
      BY <2>1 DEF Life, DelegationFirst, SlotIsKept, Holding, stillHolding
    <3>2. CASE dedicated[a].status = "absent"
      BY <1>7, <3>1, <3>2 DEF CleanupEnds, AllListed
    <3>3. CASE dedicated[a].status # "absent"
      BY <1>7, <3>1, <3>3 DEF CleanupEnds, AllListed, TInv, TypeOK, RowsTyped, Ledgers
    <3> QED
      BY <3>2, <3>3
  <2> QED
    BY <1>1, <2>1, <2>2, <2>3, <2>4
    DEF Life, WhoIsWhere, CodesCount, FirstComesFirst, WaitingIsQuiet, OneDriver, EarlyHasNothing,
        ExecutionIsKnown, UndoKnowsTheAgent, DelegationFirst, SlotIsKept
<1> QED
  BY <1>2, <1>3, <1>4, <1>5, <1>6, <1>7 DEF Lifecycle

\* What a step of one agent leaves as it was of another.
Untouched(b) ==
  /\ txn'[b] = txn[b] /\ meta'[b] = meta[b] /\ executions'[b] = executions[b]
  /\ dedicated'[b] = dedicated[b] /\ op'[b] = op[b] /\ bridge'[b] = bridge[b]
  /\ run'[b] = run[b] /\ back'[b] = back[b]
  /\ b \in cleaning' <=> b \in cleaning
  /\ Holding(b) => b \in holders'

LEMMA UntouchedKeepsLife ==
  ASSUME NEW b \in Agents, Untouched(b), Life(b)
  PROVE  Life(b)'
<1> USE DEF FirstPoints, Waits, Asking, Unproven, Early, Behind, Waiting, Drives, Fresh,
           AllListed, Holding, Coming, At, Present, stillHolding, DedicatedSteps, NoRow, Sent
<1> QED
  BY DEF Life, WhoIsWhere, CodesCount, FirstComesFirst, WaitingIsQuiet, OneDriver, EarlyHasNothing,
      ExecutionIsKnown, UndoKnowsTheAgent, DelegationFirst, SlotIsKept, Untouched

\* A step of an agent is about that agent's rows, connections and requests.
StepOf(a) ==
  \/ Start(a)
  \/ \E r \in Resumes : Resume(a, r)
  \/ \E p \in Runs : Either(a, p)
  \/ \E c \in Callbacks : Callback(a, c)
  \/ OauthStart(a) \/ OauthCallback(a)
  \/ Lifecycle(a)

LEMMA OthersUntouched ==
  ASSUME TInv, NEW a \in Agents, StepOf(a), NEW b \in Agents, b # a
  PROVE  Untouched(b)
<1> USE DEF TInv, TypeOK, RowsTyped, OutsideTyped, RunTyped, BackTyped, rows, outside, lm
<1>1. ASSUME NEW p, \/ \E pc : Goto(a, p, pc)
                    \/ \E pc, step : Completes(a, p, step, pc)
                    \/ Throws(a, p)
      PROVE  run'[b] = run[b]
  BY <1>1 DEF Goto, Completes, Throws
<1>2. ASSUME dedicated' = LedgerFailed(a)
      PROVE  dedicated'[b] = dedicated[b]
  BY <1>2 DEF LedgerFailed
<1>3. ASSUME CleanupStarts(a)
      PROVE  meta'[b] = meta[b] /\ (b \in cleaning' <=> b \in cleaning)
  BY <1>3 DEF CleanupStarts, Stopped
<1>4. CASE Start(a)
  <2>1. run'[b] = run[b]
    BY <1>1, <1>4 DEF Start, Reserve, CreateTransaction, CreateIdpConnection
  <2>2. Holding(b) => b \in holders'
    BY <1>4 DEF Start, Reserve, CreateTransaction, CreateIdpConnection, Holding, Pruned
  <2> QED
    BY <1>4, <2>1, <2>2 DEF Start, Reserve, CreateTransaction, CreateIdpConnection, Untouched
<1>5. ASSUME NEW r \in Resumes, Resume(a, r)
      PROVE  Untouched(b)
  <2>1. run'[b] = run[b]
    BY <1>1, <1>5
    DEF Resume, ResumeReads, SpendIdpCode, ConfirmIdpConnection, SpendBridgeCode,
        PermissionsHeld, VerifyIdpConnection, CreateDedicated, RecordDedicated,
        ReadyDedicated, CheckExternal, CreateBinding, FindNoAgent, CreateAgentRegistration,
        WriteAgentManifest, FindNoExecution, RunJob, SetJobExecutionName, Activate,
        WriteAgentBaseline
  <2>2. /\ UNCHANGED <<txn, holders, back, cleaning>>
        /\ meta'[b] = meta[b] /\ executions'[b] = executions[b]
        /\ op'[b] = op[b] /\ bridge'[b] = bridge[b]
    BY <1>5
    DEF Resume, ResumeReads, SpendIdpCode, ConfirmIdpConnection, SpendBridgeCode,
        PermissionsHeld, VerifyIdpConnection, CreateDedicated, RecordDedicated,
        ReadyDedicated, CheckExternal, CreateBinding, FindNoAgent, CreateAgentRegistration,
        WriteAgentManifest, FindNoExecution, RunJob, SetJobExecutionName, Activate,
        WriteAgentBaseline
  <2>3. dedicated'[b] = dedicated[b]
    BY <1>2, <1>5
    DEF Resume, ResumeReads, SpendIdpCode, ConfirmIdpConnection, SpendBridgeCode,
        PermissionsHeld, VerifyIdpConnection, CreateDedicated, RecordDedicated,
        ReadyDedicated, CheckExternal, CreateBinding, FindNoAgent, CreateAgentRegistration,
        WriteAgentManifest, FindNoExecution, RunJob, SetJobExecutionName, Activate,
        WriteAgentBaseline
  <2> QED
    BY <2>1, <2>2, <2>3 DEF Untouched, Holding
<1>6. ASSUME NEW p \in Runs, Either(a, p)
      PROVE  Untouched(b)
  <2>1. run'[b] = run[b]
    BY <1>1, <1>6
    DEF Either, AdvanceChecks, AdvanceWrites, StepFails, Crash, Compensate,
        CompensationFails, RolledBack
  <2>2. /\ UNCHANGED <<executions, op, bridge, holders, back, cleaning>>
        /\ txn'[b] = txn[b] /\ meta'[b] = meta[b] /\ dedicated'[b] = dedicated[b]
    BY <1>2, <1>6
    DEF Either, AdvanceChecks, AdvanceWrites, StepFails, Crash, Compensate,
        CompensationFails, RolledBack
  <2> QED
    BY <2>1, <2>2 DEF Untouched, Holding
<1>7. ASSUME NEW c \in Callbacks, Callback(a, c)
      PROVE  Untouched(b)
  BY <1>7 DEF Callback, CallbackReads, CallbackMarksUsed, CallbackGranted, CallbackRefused,
              failTransaction, CallbackIssuesCode, Untouched, Holding
<1>8. CASE OauthStart(a) \/ OauthCallback(a)
  BY <1>8 DEF OauthStart, OauthCallback, Untouched, Holding
<1>9. CASE Lifecycle(a)
  BY <1>3, <1>9 DEF Lifecycle, Ages, SweepAbandons, SweepDeletesOrphan, DisableAbandons,
                    DisableRevokes, CleanupEnds, Untouched, Holding
<1> QED
  BY <1>4, <1>5, <1>6, <1>7, <1>8, <1>9 DEF StepOf

\* Visits are counted.
LEMMA VisitsAreCounted ==
  ASSUME TInv, TInv', NEW a \in Agents, StepOf(a), OneVisit(a)'
  PROVE  OneVisit(a)
<1>1. bridge[a].starts \in Nat /\ bridge'[a].starts \in Nat
  BY ConstantsAssumption DEF ConstantsAssumption, TInv, TypeOK, OutsideTyped, Consents
<1>2. bridge'[a].starts = bridge[a].starts \/ bridge'[a].starts = bridge[a].starts + 1
  <2> USE DEF TInv, TypeOK, OutsideTyped, Consents, rows, outside, lm
  <2>1. CASE OauthStart(a) \/ OauthCallback(a)
    BY <2>1 DEF OauthStart, OauthCallback
  <2>2. ASSUME NEW r \in Resumes, Resume(a, r)
        PROVE  bridge'[a].starts = bridge[a].starts
    BY <2>2
    DEF Resume, ResumeReads, SpendIdpCode, ConfirmIdpConnection, SpendBridgeCode,
        PermissionsHeld, VerifyIdpConnection, CreateDedicated, RecordDedicated,
        ReadyDedicated, CheckExternal, CreateBinding, FindNoAgent, CreateAgentRegistration,
        WriteAgentManifest, FindNoExecution, RunJob, SetJobExecutionName, Activate,
        WriteAgentBaseline
  <2>3. CASE Lifecycle(a)
    BY <2>3 DEF Lifecycle, Ages, SweepAbandons, SweepDeletesOrphan, DisableAbandons,
                DisableRevokes, CleanupEnds
  <2>4. CASE Start(a)
    BY <2>4 DEF Start, Reserve, CreateTransaction, CreateIdpConnection
  <2>5. ASSUME NEW p \in Runs, Either(a, p)
        PROVE  bridge' = bridge
    BY <2>5 DEF Either, AdvanceChecks, AdvanceWrites, StepFails, Crash, Compensate,
                CompensationFails, RolledBack
  <2>6. ASSUME NEW c \in Callbacks, Callback(a, c)
        PROVE  bridge' = bridge
    BY <2>6 DEF Callback, CallbackReads, CallbackMarksUsed, CallbackGranted,
                CallbackRefused, failTransaction, CallbackIssuesCode
  <2> QED
    BY <2>1, <2>2, <2>3, <2>4, <2>5, <2>6 DEF StepOf
<1> QED
  BY <1>1, <1>2 DEF OneVisit

\* A slot is taken where fewer are left than there are to have.
LEMMA SlotsAreCounted ==
  ASSUME SlotsCount, NEW a \in Agents, Start(a)
  PROVE  SlotsCount'
<1>1. CASE UNCHANGED holders
  BY <1>1 DEF SlotsCount
<1>2. CASE ~(Cardinality(Pruned(a)) >= Capacity) /\ holders' = Pruned(a) \union {a}
  <2>1. IsFiniteSet(Pruned(a)) /\ a \notin Pruned(a)
    BY FS_Subset DEF SlotsCount, Pruned
  <2>2. Cardinality(Pruned(a)) \in Nat /\ Capacity \in Nat
    BY <2>1, FS_CardinalityType, ConstantsAssumption DEF ConstantsAssumption
  <2>3. /\ IsFiniteSet(Pruned(a) \union {a})
        /\ Cardinality(Pruned(a) \union {a}) = Cardinality(Pruned(a)) + 1
    BY <2>1, FS_AddElement
  <2> QED
    BY <1>2, <2>2, <2>3 DEF SlotsCount
<1> QED
  BY <1>1, <1>2 DEF Start, Reserve, CreateTransaction, CreateIdpConnection, rows

LEMMA InitLives == Init => IInv
<1> USE DEF FirstPoints, Waits, Asking, Unproven, Early, Behind, Waiting, Drives, Fresh,
           AllListed, Holding, Coming, At, Present, stillHolding, DedicatedSteps, NoRow, Sent
<1> SUFFICES ASSUME Init
             PROVE  IInv
  OBVIOUS
<1>1. SlotsCount
  BY FS_EmptySet, ConstantsAssumption DEF Init, SlotsCount, ConstantsAssumption
<1>2. ASSUME NEW a \in Agents
      PROVE  Life(a)
  <2>1. /\ First \in Runs /\ Resumes \subseteq Runs
        /\ \A p \in Runs : run[a][p] = Idle
        /\ txn[a] = NoRow /\ meta[a] = NoMeta /\ executions[a] = 0
        /\ dedicated[a] = NoLedger /\ holders = {} /\ cleaning = {}
        /\ op[a] = [state |-> "none", connection |-> "none", code |-> "none"]
        /\ bridge[a] = [starts |-> 0, states |-> 0, codes |-> 0, bound |-> FALSE]
        /\ \A c \in Callbacks : back[a][c] = "idle"
    BY DEF Init, Runs
  <2> QED
    BY <2>1
    DEF Life, WhoIsWhere, CodesCount, FirstComesFirst, WaitingIsQuiet, OneDriver, EarlyHasNothing,
        ExecutionIsKnown, UndoKnowsTheAgent, DelegationFirst, SlotIsKept, Idle, NoMeta, NoLedger
<1> QED
  BY <1>1, <1>2, InitTyped DEF IInv

LEMMA StepLives == IInv /\ [Next]_vars => IInv'
<1> SUFFICES ASSUME IInv, [Next]_vars
             PROVE  IInv'
  OBVIOUS
<1>1. TInv /\ TInv'
  BY StepTyped DEF IInv
<1>2. ASSUME NEW a \in Agents, StepOf(a)
      PROVE  IInv'
  <2>1. SlotsCount'
    <3>1. CASE Start(a)
      BY <3>1, SlotsAreCounted DEF IInv
    <3>2. CASE UNCHANGED holders
      BY <3>2 DEF IInv, SlotsCount
    <3> QED
      BY <1>2, <3>1, <3>2
      DEF StepOf, rows,
        Resume, ResumeReads, SpendIdpCode, ConfirmIdpConnection, SpendBridgeCode,
        PermissionsHeld, VerifyIdpConnection, CreateDedicated, RecordDedicated,
        ReadyDedicated, CheckExternal, CreateBinding, FindNoAgent, CreateAgentRegistration,
        WriteAgentManifest, FindNoExecution, RunJob, SetJobExecutionName, Activate,
        WriteAgentBaseline, Either, AdvanceChecks, AdvanceWrites, StepFails, Crash, Compensate,
        CompensationFails, RolledBack, Callback, CallbackReads, CallbackMarksUsed,
        CallbackGranted, CallbackRefused, failTransaction, CallbackIssuesCode, OauthStart,
        OauthCallback, Lifecycle, Ages, SweepAbandons, SweepDeletesOrphan, DisableAbandons,
        DisableRevokes, CleanupEnds
  <2>2. ASSUME OneVisit(a)'
        PROVE  Life(a)'
    <3>1. OneVisit(a) /\ Life(a)
      BY <1>1, <1>2, <2>2, VisitsAreCounted DEF IInv
    <3> QED
      BY <1>1, <1>2, <2>2, <3>1, StartKeepsLife, ResumeKeepsLife, EitherKeepsLife,
         CallbackKeepsLife, ConsentKeepsLife, LifecycleKeepsLife DEF StepOf
  <2>3. ASSUME NEW b \in Agents, b # a, OneVisit(b)'
        PROVE  Life(b)'
    <3>1. Untouched(b)
      BY <1>1, <1>2, <2>3, OthersUntouched
    <3>2. OneVisit(b)
      BY <2>3, <3>1 DEF OneVisit, Untouched
    <3> QED
      BY <3>1, <3>2, UntouchedKeepsLife DEF IInv
  <2> QED
    BY <1>1, <2>1, <2>2, <2>3 DEF IInv
<1>3. CASE SweepReads \/ DisableReadsTransactions \/ DisableReadsAgents \/ UNCHANGED vars
  <2>1. UNCHANGED <<txn, meta, executions, dedicated, op, bridge, run, back, cleaning, holders>>
    BY <1>3 DEF SweepReads, DisableReadsTransactions, DisableReadsAgents, vars, rows, outside, lm
  <2>2. \A b \in Agents : Untouched(b) /\ (OneVisit(b)' => OneVisit(b))
    BY <2>1 DEF Untouched, OneVisit, Holding
  <2>3. SlotsCount'
    BY <2>1 DEF IInv, SlotsCount
  <2> QED
    BY <1>1, <2>2, <2>3, UntouchedKeepsLife DEF IInv
<1> QED
  BY <1>2, <1>3 DEF Next, StepOf

LEMMA Lives == Spec => []IInv
BY InitLives, StepLives, PTL DEF Spec

\* RULE-51 for any number of agents and of resumes: what an agent has it has
\* with a live connection behind it, as long as the Bridge was asked for
\* consent no more than once for it.
THEOREM DelegationHolds == Spec => []AgentHasItsDelegation
<1>1. IInv => AgentHasItsDelegation
  <2> SUFFICES ASSUME IInv, NEW a \in Agents, a \notin cleaning, OneVisit(a)
               PROVE  /\ \/ meta[a].status \in {"PROVISIONING", "ACTIVE"}
                         \/ dedicated[a].exists
                         => op[a].connection = "ACTIVE"
                      /\ bridge[a].bound =>
                           \/ op[a].connection = "ACTIVE"
                           \/ /\ op[a].connection = "REVOKED"
                              /\ ~Present(a) /\ ~dedicated[a].exists
    BY DEF AgentHasItsDelegation
  <2>1. DelegationFirst(a)
    BY DEF IInv, Life
  <2>2. op[a].connection \in {"none", "ACTIVE", "REVOKED"}
    BY DEF IInv, TInv, TypeOK, OutsideTyped, Connections
  <2> QED
    BY <2>1, <2>2 DEF DelegationFirst, Present, Fresh, NoMeta
<1> QED
  BY <1>1, Lives, PTL

\* However many requests and returns there are, one execution is started, and
\* an active agent's record names it.
THEOREM ExecutionHolds == Spec => []OneStoppableExecution
<1>1. IInv => OneStoppableExecution
  BY DEF IInv, Life, ExecutionIsKnown, OneStoppableExecution
<1> QED
  BY <1>1, Lives, PTL

\* Whichever of its steps a run fails in, and with any number of others under
\* way, an undoing that logged no failure leaves no active agent.
THEOREM RollbackHolds == Spec => []RolledBackCannotObtainGrants
<1>1. IInv => RolledBackCannotObtainGrants
  <2> SUFFICES ASSUME IInv, NEW a \in Agents, OneVisit(a), NEW p \in Runs,
                      run[a][p].pc = "fail", ~run[a][p].lost, meta[a].status = "ACTIVE"
               PROVE  FALSE
    BY DEF RolledBackCannotObtainGrants
  <2>1. Life(a)
    BY DEF IInv
  <2>2. CASE p \in Resumes
    BY <2>1, <2>2 DEF Life, UndoKnowsTheAgent
  <2>3. CASE p = First
    BY <2>1, <2>3 DEF Life, FirstComesFirst, At, Fresh, NoMeta
  <2> QED
    BY <2>2, <2>3 DEF Runs
<1> QED
  BY <1>1, Lives, PTL

\* Whatever the number of agents and whatever fails, the slots are not
\* overbooked, and what the ledger lists is under one.
THEOREM SlotsHold == Spec => []ListedResourcesHoldASlot
<1>1. IInv => ListedResourcesHoldASlot
  BY DEF IInv, SlotsCount, Life, SlotIsKept, Holding, ListedResourcesHoldASlot
<1> QED
  BY <1>1, Lives, PTL

=============================================================================
