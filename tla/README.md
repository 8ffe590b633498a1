# A verification of the agent platform

This directory holds TLA+ models of the platform's TypeScript services, the TLC
configurations that check them on small instances, and proofs that TLAPS checks
for every size. The code is the reference: each definition that stands for code
is tied to its lines in `PROJECT.json` under `map`. Paths below are relative to
`src/`; `lifecycle-manager/…` is short for `src/apps/lifecycle-manager/src/…`,
and so on for the other services.

## 1. The system

The platform lets a person delegate work to an AI agent for at most 24 hours.
An agent is an identity of its own: a record in Firestore, a key pair, a
connection to the Human IdP, bindings to SaaS connections, and one Cloud Run job
execution. Services talk by HTTPS calls with timeouts, by Pub/Sub, and through
shared Firestore documents.

| Component | State it keeps | Operations | Interacts with | What is hard | What makes it correct |
|---|---|---|---|---|---|
| **Lifecycle Manager** (`lifecycle-manager`) | status, reason, lock and step results in `agents/{id}__meta` | stop, transition, re-provision, periodic sweep, identity-disabled subscriber, ten cleanup steps and `audit_persist` | Agent OP, Bridge, Resource AS, KMS and Cloud Run deletions, Provisioner, Pub/Sub | overlapping cleanups, a lock that ages, crashes behind a 202, lost answers, retries with a limit, stale reads | no agent comes back; none disappears while it holds something; a record never claims too much; what failed is retried |
| **Agent Provisioner** (`provisioner`) | `provisioning_transactions`, completion codes, slot register, ledger of dedicated resources, and the agent record until it is active | provision, halt for consent, resume, compensate, abandon, reserve a slot | Agent OP, Bridge, Cloud Run jobs; Lifecycle reads and writes the same documents | halts spanning requests, compensation in reverse, races with revocation and sweep, leaked slots | one agent per consent; a failed run leaves nothing usable; terminal is final |
| **Agent OP** (`agent-op`) | IdP connections (encrypted refresh token, status), issuance-disabled flag, jti store, signing keys | issue ID-JAG, create/verify/revoke a connection, consent callback, rotate the refresh token | Human IdP, Provisioner, Lifecycle, Runtime | refresh rotation by several requests, issuance against disabling | nothing is issued after disabling; a refresh token is used once |
| **Google Bridge** (`google-bridge`) | SaaS connections, bindings, consent sessions and codes | consent, verify, bind, disable, exchange ID-JAG for a SaaS token | SaaS OP, Agent OP's keys, Provisioner, Lifecycle | concurrent refresh of one upstream token, disabling during a token request | no token through a disabled binding; a connection outlives one agent but not its scopes |
| **Authorization Platform** (`authorization`) | permissions, policies, decisions, evidence | decide on a work definition, re-evaluate on change, notify | Vertex AI, Automation App, Lifecycle | stale decisions, change during evaluation | an agent's capabilities are within its person's; a narrowed permission reaches running agents |
| **Agent Runtime** (`agent-runtime`) | loop state and checkpoints, token cache, Tool Manifest | reason, call a tool, obtain tokens, finish | Agent OP, Bridge, Resource AS and APIs, Vertex | limits, retries of non-idempotent calls, tokens that expire in use | bounded steps; only tools of the manifest; stops at expiry |
| **Security Detection** (`security-detection`) | findings, review status, baselines, ingested events | ingest, correlate, score, review, request a transition | Pub/Sub, Vertex, Lifecycle | redelivery, two reviewers, a refused request recorded as approved | an approved finding is acted upon; a decision is final |
| **Automation App** (`automation-app`) | sessions, work definitions, agent definitions, instructions, reports | define, revise, confirm, approve, start and stop work | Authorization, Provisioner, Lifecycle | records read, awaited over and written whole; double submits; return from consent | an agent only for approved work, told what was decided |
| **Human IdP** (`human-idp`) | users, sessions, codes, grants, disabled flag | OIDC, disable an identity | all | code and refresh reuse; publication of a disabled identity | single use; a disabled person gets nothing |
| **Resource AS ×2** (`resource-docs-as`, `resource-finance-as`) | agent registrations, codes, tokens | ID-JAG exchange, deregistration | Runtime, Lifecycle | replay, deregistration during an exchange | no token for a deregistered agent |
| **Resource APIs, JWKS publisher** | documents; published keys | guarded reads; key publication | Resource AS | jti replay; order of publication | each proof used once; a key is published before it signs |
| **Libraries** (`packages/*`) | none, except jti records | document store, crypto, guards, schemas, logging | all | atomicity of single use | contracts the services rely on |
| UI, local runner, seed, stubs, infrastructure, generated baseline | | | | | not core logic |

Each hazard we found while reading is listed at its line in `PROJECT.json` under
`hazards`, with the properties that would catch it or the reason none does yet.

## 2. Plan

Most important first. A module states an abstract promise where one is worth
stating, and is written to be proved about: constants with named assumptions,
one action per operation, no `RECURSIVE`.

| Module | Models | Checked | Proved |
|---|---|---|---|
| `AgentLifecycle`, `AgentLife` | the Lifecycle Manager, and the life it promises an agent (section 3) | `lifecycle_overlap`, `lifecycle_sweep` | types, safety, refinement |
| `Provisioning` | the Agent Provisioner with the consents of the Agent OP and the Bridge, and the parts of the Lifecycle Manager that write its rows (4) | `provisioning_consents`, `provisioning_slots` | types, all safety |
| `IdpTokens` | the Human IdP's codes and tokens (5) | `idp_tokens` | types, all safety |
| `SubjectTokens` | the Agent OP's connection, composed with `IdpTokens` (5) | `subject_tokens` | types, all safety |
| `BridgeTokens` | the Bridge's connection, bindings and token route (6) | `bridge_tokens` | safety, who revives |
| `SecurityDetection` | batches, findings, reviews and what they ask for (7) | `security_detection` | all safety, escalation |
| `AgentAccess` | how long a stopped, expired or revoked agent is still served, across four services (8) | `agent_access` | types, safety |
| `AgentRuntime` | one execution, and what the Automation App lets a person do to it and see of it (9) | `agent_runtime` | types, safety |
| `Reevaluation` | what a change of permissions does to running agents, across the Authorization Platform, the Lifecycle Manager and the Provisioner (10) | `reevaluation` | all safety |
| `WorkDefinitions` | the Automation App's ToDo, from the draft to the agent that was told it (11) | `work_definitions` | types, all safety |

`MC…` modules give TLC its constants, `…Proofs` modules hold the theorems: one for each
module, but for `SubjectTokensProofs`, which is about `IdpTokens` too, and
`AgentRuntimeProofs`, about `AgentAccess` too. Each safety invariant and action property
a run checks is a theorem there, and so is the refinement. Five properties stay with TLC
alone, as they are liveness under fairness, which the provers cannot reach:
`FailedCleanupIsRetried`, `ExpiryIsActedOn`, `EveryTransactionEnds`, `EveryRunIsClosed`
and `NoTrialQueuedForever`. Two
modules compose components over shared documents (`Provisioning`,
`SubjectTokens`), three over calls (`AgentAccess`, `AgentRuntime`, `Reevaluation`).

Left in the plan, in this order: the deletion marks in the ledger of dedicated
resources; the constraints a re-provisioned agent loses; the policy engine as
operators against a reference definition.

A run is kept for each question, and every run passes. Where a code path
contradicts what the repository says of it, the section's last part lists it; each
item was seen in a counterexample or read at the lines given, and the property
nearest to it says in its text what it leaves out because of it.

## 3. The Lifecycle Manager: `AgentLifecycle`

### State

| Variable | In the code |
|---|---|
| `meta[a]` | `agents/{id}__meta`: `status`, `cleanup_reason`, `cleanup_lock`, `cleanup_step_results`; `NoMeta` when deleted. The lock's time is kept as none, younger or older than five minutes |
| `held[a]` | what still exists elsewhere: one element per cleanup step (execution, issuance right, IdP connection, bindings, registrations, credentials, dedicated resources, …) |
| `due[a]` | `expires_at` against the clock: later, within the warning window, past |
| `run[p]` | an execution: program counter, rows read by a sweep or subscriber, agent, reason, step, the list of results it carries |
| `events[a]` | terminal Activity Events published |
| `faults` | crashes and failed writes so far, at most `MaxFaults` |
| `refused[a]`, `declared` | history, read by the properties alone: the steps a service refused to a cleanup that took the refusal for success; the agents that a caller of the transition route, not a cleanup, has called DESTROYED |

`NoReason`, `NotRun` stand for absent fields. A request that is refused changes
nothing and is not an action. A Firestore transaction is one step; everything
else between two `await`s is one step; between them anything may happen.

### Actions

* **The sweep**: `SweepStart` reads every record at once (first `SweepBatch` by
  id), then `SweepWarn` (a), `SweepWalk`/`SweepExpire` (b), `SweepRetry` (c) act
  row by row on what was read. An error ends the tick (`Thrown`).
* **The subscriber**: `IdentityDisabled`, then `DisableExpiring`, `Disable` per
  agent; errors are caught and the next agent is taken.
* **The routes**: `StopAgent`, `TransitionRevoked`, `TransitionQuarantined` with
  `QuarantineIssuance` and `QuarantineBridge`, `TransitionOther`, `Reprovision`.
* **The cleanup**: `AcquireLock`, `LoadDomain`, `WriteRevoked`, then per step
  `SkipStep`, `RunStep` or `AuditPersist`, each followed by `SaveResults`; at the
  end `ReleaseLock`, or `WriteDestroyed` and `Announce`.
* **Environment**: `Clock`, `LockAges`, `Crash`. A call's outcome is one of
  `Answers`: *ok*; *unavailable* (not done, error seen); *lost* (done, error
  seen); *swallowed* (not done, taken for success, as the steps do with every 4xx,
  see `cleanup/steps/issuance-disable.ts:19-21`).

Agents in this module are already provisioned, so stage (d) of the sweep and the
subscriber's first loop find nothing: those, and stage (e), are in `Provisioning`.
What a re-provisioning asks of the Provisioner is in `Reevaluation`. The code has ten steps before
`audit_persist`; steps differ only in what they put an end to, except for the two
that a quarantine also calls, which have constants (`IssuanceStep`, `BridgeStep`). That
the revocation of credentials also revokes the upstream SaaS token, for some reasons
only, is in no property here; the call itself is in `BridgeTokens`.

### Promise: `AgentLife`

An agent's life goes forward only (running, contained, stopped, gone), what is still
to be ended for it only gets less, and it is gone only when nothing is. `LifePromise` is
its specification under the mapping `LifeOf`, with `alive` mapped to `owed`: what the
agent holds less what a service refused to end. An agent that a caller has declared
DESTROYED is *stopped* under the mapping; it is *gone* when a cleanup says so.

### Properties

| Property | Says |
|---|---|
| `NothingOutlivesTheRecord` | once the record is deleted, or a cleanup has written DESTROYED, or the end is announced, all that is left is what a service refused and a step counted as done |
| `ClaimsAreTrue` | no list of results, stored (`RecordIsTrue`) or carried (`RunIsTrue`), claims what was neither done nor so refused, however stale |
| `LifePromise` | refinement of `AgentLife` |
| `FailedCleanupIsRetried` | a revoked agent with a failed step is retried until gone or out of attempts |
| `ExpiryIsActedOn` | an agent active at expiry is always moved on |

The types (with the limit of attempts, which are counted in lists that overlapping
cleanups overwrite) and `ReasonIsKept`, the reason of a revocation being written
once, are proved below and not checked by a run of their own.

### Runs

Both have one sweep (`Ticks = {t1}`) and at most one other execution at a time.

| Run | Bounds | Shows |
|---|---|---|
| `lifecycle_overlap` | 1 agent, 2 steps, 1 attempt, 1 request, all four answers, the detector's whole ladder with DESTROYED, 1 fault | safety under overlap, crash, lost answers and refusals taken for success. Two steps are needed for one to fail while the other succeeds |
| `lifecycle_sweep` | 2 agents, 2 steps, 2 attempts, no requests, 1 fault | liveness under a crash, the attempts limit reached by retries, and that one agent's trouble does not stop the other's |

Two executions suffice for every interleaving of a pair of cleanups; the proofs
below do not depend on their number. `SweepBatch` is above the number of agents
in all runs. Deadlock is not checked: the system really stops, when every agent
is gone and no request comes.

**Fairness.** `Progress(p)` is weakly fair: an execution that has not died goes
on, as every call has a timeout (`clients/http.ts:30`). `SweepStart` is weakly
fair: Cloud Scheduler sends a tick every five minutes
(`infra/envs/demo/scheduler.tf`). `Clock` and `LockAges` are time. Nothing makes
a person, the detector or the identity provider send a request, and nothing
makes a call succeed.

### Met while modelling

* **A crash can be forgotten.** The sweep takes up a REVOKED agent only if a
  recorded result is *failed* (`sweep.ts:86`); a cleanup that dies earlier, behind
  its 202, leaves none, and is never resumed. `index.ts:124-125` says the sweep
  retries whatever did not complete.
* **Stopping a SUSPICIOUS (or EXPIRING) agent.** The table has no such move,
  `cleanupAgent` drops the refusal (`cleanup/index.ts:53`) and runs all steps under
  the old status, where no sweep looks. `cleanup/index.ts:30-32` says that an agent
  with a failed step stays REVOKED.
* **A refusal is recorded as success.** The steps take any 4xx for done
  (`issuance-disable.ts:19-21`, `client-credential-revoke.ts:20-22`,
  `idp-connection-revoke.ts:23-26`, `bridge-binding-disable.ts:17`,
  `credential-revoke.ts:27`, `registration-delete.ts:16`), and the Agent OP serves none of
  the routes of steps 2, 6 and 10 (`agent-op/app.ts:33-49`), nor is that of step 5 served:
  every cleanup records those steps as *skipped* or *succeeded* over things that live on.
  `issuance-disable.ts:11` has 404 mean that the registration is already gone, and
  `docs/07-lifecycle.md:196-206` lists what the steps end. The properties say what
  remains true: nothing else outlives the record.
* **DESTROYED on request.** The transition route takes DESTROYED from REVOKED
  (`index.ts:152-188`), whatever steps are outstanding, and no sweep looks at the agent
  again. Its record stays, saying so.
* **The upstream token** is revoked only if the cleanup that completes the
  credential step has an abnormal reason (`credential-revoke.ts:33`); a security
  stop behind a plain one skips it. `docs/07-lifecycle.md:200` promises it.
* **Quarantine.** `quarantine.ts:32` does not look at the status codes: a 5xx leaves
  a QUARANTINED agent the calls never reached, and the retry is refused.
  `quarantine.ts:8-9` says that three things happen.

Further: SUSPICIOUS and QUARANTINED agents are
in no stage of the sweep and outlive their expiry; `releaseLock` frees a successor's lock;
`saveResults` overwrites a done step of an overlapping cleanup (harmless to
`RecordIsTrue`, which is why that is the property kept); a terminal event whose
publication fails once is never sent; stage (b) may clean an agent as EXPIRED
that was revoked for another reason since the tick read it. `FailedCleanupIsRetried`
fails if one crash is allowed *together with* an overlapping cleanup: the blind
`saveResults` removes the other's failed mark and its writer then dies. It also
fails with two crashes in a row, so its run has one crash and no overlap. With
overlap and no crash it holds (1 agent, 1 step, 2 attempts, 1 request).

### Proofs

| Module | Theorem | Statement |
|---|---|---|
| `AgentLifecycleProofs` | `TypeCorrect` | `Spec => []TypeOK` |
| | `NothingOutlives` | `Spec => []NothingOutlivesTheRecord` |
| | `ResultsAreTrue` | `Spec => []ClaimsAreTrue` |
| | `ReasonKept` | `Spec => ReasonIsKept` |
| | `LifeIsKept` | `Spec => LifePromise` |

They hold for any number of agents, steps, attempts, overlapping executions,
faults and lock ages, whatever the calls answer and the transition route is asked for,
under `ConstantsAssumption` alone.

The argument: `owed` (held, less refused) only shrinks, so a claim "this is done" stays
as true as it was however old it gets. Hence a list read, carried and written back at
any later time claims nothing that is still owed (`RecordIsTrue` and `RunIsTrue` together
are inductive, neither is alone: one is read from the other). A cleanup reaches
`audit_persist` only past all other steps, each done or failed (`RunIsTrue`), and that
step refuses if any is failed; so the record is deleted only when nothing is owed. The
types are needed because a list must cover every step. The inductive invariant is
`IInv`, the conjunction of the four. The refinement follows from `IInv` action by action.

Liveness is only model-checked.

## 4. The Agent Provisioner: `Provisioning`

### State

| Variable | In the code |
|---|---|
| `txn[a]` | `status` of the row in `provisioning_transactions`; one transaction per agent, as the agent's id is made with it. `stale` has those past `TRANSACTION_TTL_SECONDS` |
| `meta[a]` | `agents/{id}__meta`: its status, and whether it names a job execution |
| `executions[a]` | job executions that were started |
| `dedicated[a]` | the row in `dedicated_resources` and what it stands for: its status, whether it lists the resource, whether the resource exists, whether it has existed once (such names are not given out twice) |
| `holders` | the slot register (`provisioner/capacity.ts`) |
| `op[a]` | the Agent OP's consent state, connection and one-time code |
| `bridge[a]` | the Bridge's visits, unused consent states, unspent codes, and whether there is a binding |
| `granted` | whether the person's connection to the outside service exists |
| `run[a][p]` | a request: what it does next, whether the first half of `advance` is behind it, the completed steps that have a compensation, whether a compensation was lost |
| `back[a][c]` | a browser's return to the Agent OP |
| `sweeping`, `disable`, `cleaning` | the sweep's list, the subscriber's lists, the cleanups under way |
| `faults` | failed calls and crashes so far, at most `MaxFaults` |

A step that only answers or keeps something in the request's memory is part of
the one before it. Each other call is an action, and any request, return, sweep
or event may come between two of them. `Capacity` is
`config.maxFullIsolationAgents`. `First` is the request that starts a
provisioning, `Resumes` those that resume it; a request sent twice is two of them.

### Actions

* **The first request**: `Reserve` (one Firestore transaction),
  `CreateTransaction`, `CreateIdpConnection`, an advance to
  WAITING_IDP_CONSENT, and it halts. The agent is new, so it is always asked to.
* **A resume**: `ResumeReads` takes the kind of consent from the row's status;
  `SpendIdpCode` and `ConfirmIdpConnection`, or `SpendBridgeCode`; an advance to
  RESUMABLE; `PermissionsHeld`; then the steps `VerifyIdpConnection`, for full
  isolation `CreateDedicated`, `RecordDedicated` and `ReadyDedicated`, for an agent
  with a bridged tool `CheckExternal` (which may halt again) and `CreateBinding`,
  then `FindNoAgent`, `CreateAgentRegistration`, `WriteAgentManifest`,
  `FindNoExecution`, `RunJob`, `SetJobExecutionName`, `Activate`, an advance to
  COMPLETED and `WriteAgentBaseline`.
* **`TransactionStore.advance`** reads and checks (`AdvanceChecks`) and writes
  (`AdvanceWrites`) in separate calls.
* **What goes wrong**: `StepFails`, `Crash`, then `Compensate` or
  `CompensationFails` in reverse order, `RolledBack`, and the advance to FAILED. A
  call whose effect is there and whose answer is lost is a failure of the action
  behind it.
* **The browser**: `CallbackReads`, `CallbackMarksUsed`, `CallbackGranted` or
  `CallbackRefused` with `failTransaction`, `CallbackIssuesCode` at the Agent OP;
  `OauthStart` and `OauthCallback` at the Bridge.
* **The Lifecycle Manager**: `SweepReads` and `SweepAbandons` (stage (d)),
  `SweepDeletesOrphan` (stage (e)), `DisableReadsTransactions`, `DisableAbandons`,
  `DisableReadsAgents`, `DisableRevokes`; a cleanup is its beginning and its end
  (`CleanupStarts`, `CleanupEnds`), its steps being the subject of
  `AgentLifecycle`. `Ages` is time.

### Properties

| Property | Says |
|---|---|
| `AgentHasItsDelegation` | RULE-51: an agent with a record that counts or a dedicated resource has an active connection to the identity provider, and a binding is made for no agent without one; only a binding may be left behind the connection, after a cleanup and with nothing else of the agent there. Unless a cleanup is under way |
| `OneStoppableExecution` | codes that come twice and resumes that race start an agent once, and an active agent's record names the execution a stop has to cancel |
| `RolledBackCannotObtainGrants` | behind a failed run without a lost compensation the agent is not active |
| `ListedResourcesHoldASlot` | no more slots than `Capacity`, and each listed resource is under one |
| `EveryTransactionEnds` | a transaction that got to a consent ends in a terminal status and stays there |

The first three, and the second half of the slot property, speak of agents for which
the Bridge was asked for its consent once (`OneVisit`). With a second visit there is a
second code behind the first and two resumes drive the same provisioning: see *Met while
modelling*.

### Runs

| Run | Bounds | Shows |
|---|---|---|
| `provisioning_consents` | 1 agent with a bridged tool, 3 resumes, 2 returns to the Agent OP, 1 visit to the Bridge, 1 fault | every property above but the slot limit |
| `provisioning_slots` | 2 full-isolation agents, 1 slot, 1 resume, 1 return each, 1 fault | the slot limit, and the delegation behind a dedicated resource |

Two consents need two resumes; the third is the one that races or repeats. Two
returns of the browser are the smallest number at which a consent state is read
twice before it is marked. Two agents and one slot make the register's pruning
decide. One fault anywhere is a failed call, a crash, or a failed compensation
behind a refused step. Deadlock is not checked: a transaction ends.

**Fairness.** `SweepReads` and `SweepAbandons` are weakly fair, as Cloud
Scheduler calls the sweep every five minutes, and so is `Ages`, which is time. No
request is fair: nobody need come back from a consent, and an instance may be
gone.

### Met while modelling

**The second consent.** A resume starts behind the first consent always, so a
full-isolation agent's resources are created again on the way back from the second
one, and the run fails (`flow.ts:68` against `flow.ts:76-78`).

Further: between the advance to PROVISIONING and
the one to COMPLETED no step looks at the transaction, so a run that was abandoned
for a disabled identity still makes an active agent (`flow.ts:532`), behind the
subscriber's list of agents, which `identity-disabled.ts:59-60` says cannot happen;
the undo of the consent posts to a route the Agent OP does not serve
(`agent/idp-connection.ts:57`) and does not run at all for the step that fails, so
that a failed run leaves an active connection, against `flow.ts:171-174`; the
consent URL of the Bridge may be
opened again while the transaction waits, and with `MaxStarts = 2` the two codes
let two resumes through: what stops the second from starting the agent again is that
the Bridge refuses a second binding (`store/binding.ts:54-59`; with that, TLC finds
`AgentHasItsDelegation` and `OneStoppableExecution` to hold for two visits as well, in
9.4 million states), but it fails and writes FAILED beside an agent that is active, which
is `RolledBackCannotObtainGrants` without `OneVisit`; the binding of an agent that is
gone stays until it expires, as no record names it (`flow.ts:464-483`,
`agent/registration.ts:57-73`); a slot is not given
back when the reserving request dies or the transaction is abandoned before there
is a record (`TransactionStore.abandon`, which would, is called by nobody); stage
(e) may delete the resources of a run under way; a PROVISIONING record is left when
the manifest cannot be written; a repeated return to the Agent OP writes FAILED
over COMPLETED; stage (d) never takes CREATED (which is why
`EveryTransactionEnds` begins at a consent) and may write ABANDONED over a
COMPLETED written since it read; resources that exist and could not be listed do
not count against the limit.

### Proofs

| Module | Theorem | Statement |
|---|---|---|
| `ProvisioningProofs` | `TypeCorrect` | `Spec => []TypeOK` |
| | `DelegationHolds` | `Spec => []AgentHasItsDelegation` |
| | `ExecutionHolds` | `Spec => []OneStoppableExecution` |
| | `RollbackHolds` | `Spec => []RolledBackCannotObtainGrants` |
| | `SlotsHold` | `Spec => []ListedResourcesHoldASlot` |

They hold for any number of agents, requests, returns, visits and faults, under
`ConstantsAssumption`. A status is written in a call after the one that checked
it, so the types alone are not inductive: `TInv` adds that a request with a check
behind it is still at a call of `advance`.

The other four follow from one invariant, `IInv`, which says of each agent visited once
(`Life`):

* **one driver** (`OneDriver`, `CodesCount`): each code is spent by one request, and
  while a code is on its way, unspent or may still be asked for (`Coming`), no resume is
  behind one and nothing has been made; so two resumes never drive at once;
* **first things first** (`FirstComesFirst`, `WaitingIsQuiet`): no resume passes
  RESUMABLE before the first request is over, nor while the row waits, and until then
  there is no record and no cleanup;
* **what the driver knows** (`EarlyHasNothing`, `ExecutionIsKnown`,
  `UndoKnowsTheAgent`): before the record there is no execution and no binding, between
  the start and the naming there is exactly one execution, and a request that may make
  the agent active, or undoes behind that, has `register_agent` among the steps to undo;
* **in order** (`DelegationFirst`): a connection before anything else, and nothing but
  the binding left when it is revoked;
* **the slot** (`SlotIsKept`, `SlotsCount`): whoever may still list a resource has the
  slot and a transaction the pruning in `capacity.ts` counts as holding it.

The number of slots needs no condition on visits: the register is written in a
transaction that prunes, counts and adds. `EveryTransactionEnds` is liveness and is
model-checked only.

### Left out

Expiry and revocation of the person's connection to the outside service, more
than one connector, the single resources behind a dedicated one, activity events,
and cancelling a job. The re-provisioning route is in `Reevaluation`.

## 5. Tokens of the Human IdP: `IdpTokens` and `SubjectTokens`

### State and actions

`doc` is the Firestore collection `idp_tokens`: codes, access tokens and refresh
tokens, each with its grant, whether it is used and revoked, and the code exchange
it goes back to. `session` has the grants whose login lives, `lapsed` the exchanges
whose absolute lifetime is over, `req[r]` a request to the token or revocation
endpoint: what it does next and what it has read. No transaction is used in this
code, so each read and each write of a handler is an action: `PresentCode`,
`PresentRefreshToken`, `ValidateSession`, `ConsumeCodeGet`/`Put`, `SetAccessToken`
with the two calls that bind it to a key, `SetRefreshToken`,
`ConsumeRefreshTokenGet`/`Put`, `Answer`; a detected reuse goes to `QueryGrant` and
`UpdateGrant`, once for each kind of token, and `PresentRevocation` and
`DeleteRefreshToken` lead there too. A write replaces the document and clears its
revoked mark (`store/firestore-backend.ts:83-91`); the batch fails as a whole when a
document is gone. `Fails` is a failed storage call or a crash, `Lapse` time.

`SubjectTokens` extends this with the Agent OP's side: `used` (agents whose consent
state is marked used), `conn` (status and stored
token), `rotations` (tokens it remembers having replaced), `call[a][p]` (returns of the
browser to the consent callback, requests for a subject token, cleanups), each action an `await` of
`routes/xaa-subject-token.ts`, `routes/internal-revoke-connection.ts` or
`routes/xaa-callback.ts`. A call to the Human IdP starts a request `r` of
`IdpTokens` and waits for its reply, which a fault may lose. Only the Agent OP
presents its tokens: there is no thief in the model. The consent callback reads
whether its state is used and marks it in two calls (`ReadState`, `MarkUsed`;
`xaa-callback.ts:36-39`), exchanges the code (`ExchangeCode`) and writes the whole
connection (`CreateConnection`), so that two returns of the browser may both get that
far. `Lapse` is not part of it
(`refreshTokenAbsoluteLifetime` is 90 days, `human-idp/oidc/config.ts:92`, an agent's life
at most 24 hours), nor a later login, as an agent's grant is offline.

### Properties

| Property | Says |
|---|---|
| `SpentOnce` | a credential yields tokens once, except to two requests that had both read it before either was done with it |
| `QuietRevocationIsFinal` | a reuse or revocation no other request for the grant overlaps leaves nothing of it alive, then or later |
| `NothingBehindTheEnd` | rotation takes a grant past neither its session, when online, nor its absolute lifetime |
| `NeverStranded` | the order of writes leaves the client a usable token whatever fails before the last, even when one is presented twice and not taken for a reuse |
| `SerialRotationKeepsWorking` | without faults and without a token presented twice an ACTIVE connection holds the newest, usable token |
| `QuietCleanupEndsGrant` | a cleanup that reports the connection revoked has ended the grant, whatever other calls ran beside it or died between a rotation and its record, if no two requests for the grant met at the Human IdP |
| `RevokedStaysRevoked` | no rotation, revocation or cleanup under way brings a REVOKED connection back; only the consent callback can, with the second of two returns of the browser that exchanged the one code beside each other |

Exceptions in these (`alone`, `TwiceSpent`, `Undisturbed`) are what the code really
does not keep; each was a counterexample first. The proofs made two of the properties
stronger: `NeverStranded` also left out every token presented twice, and
`QuietCleanupEndsGrant` every cleanup with another call beside it, and neither is needed.

### Runs

`idp_tokens`: two grants, one offline and one key-bound, three requests, one fault:
two requests race, and a third comes later or in between. `subject_tokens`: one
agent, two returns of the browser, two requests for a subject token, one cleanup, four
requests to the Human IdP (code exchanges, rotations, revocation), one fault on either
side. Types
(`TypeOK`, `STypeOK`) hold in the same instances and are not among the runs'
properties. Deadlock is not checked: requests end.

### Proofs

| Module | Theorem | Statement |
|---|---|---|
| `SubjectTokensProofs` | `TypeCorrect` | `Spec => []TypeOK` |
| | `SpentOnceHolds` | `Spec => []SpentOnce` |
| | `RevocationHolds` | `Spec => []QuietRevocationIsFinal` |
| | `EndHolds` | `Spec => []NothingBehindTheEnd` |
| | `StrandedHolds` | `Spec => []NeverStranded` |
| | `SubjectTypeCorrect` | `SSpec => []STypeOK` |
| | `SerialRotationHolds` | `SSpec => []SerialRotationKeepsWorking` |
| | `QuietCleanupHolds` | `SSpec => []QuietCleanupEndsGrant` |
| | `RevokedHolds` | `SSpec => RevokedStaysRevoked` |

They hold for any number of grants, requests, calls and failures. The first five are
about the Human IdP alone (`IdpInv`), and hold for any lapses and logins too. A request works for a long time with
what it has read, so `RequestTrue` ties each point of a request to the documents:

* **spent is for good** (`SpentTrue`, `BarredTrue`): a request that is done with its
  credential leaves it unusable, though another one writes back an older copy of it, as
  each copy of a credential that is written back is marked used; so what came behind is
  refused or taken for a reuse, and stores nothing;
* **goes back to one exchange** (`CredTrue`, `RootTrue`, `TokensTrue`): a refresh token
  has the exchange its whole chain began with, so that rotation cannot gain lifetime;
* **alone finds everything** (`FoundTrue`, `QuietTrue`): a revocation that has the grant
  to itself has found all documents when it writes; behind it the grant is `Closed`, and
  a later request, which must present a document of it, is refused;
* **intact until revoked** (`IntactTrue`, `CodeIntact`): as long as no revocation of the
  grant has got to a write, each refresh token given out is there, and only a request
  that got as far as its answer has spent it. `NeverStranded` then needs a last one in
  the chain, which there is as only finitely many requests have begun (`FiniteInv`).

`Moves` and `Writes` say what a step of one request can do to the documents of the
others, so that each action is looked at for the request that takes it, once.

The last four are about the composition. An agent's own step leaves the Human IdP as it
is (`AgentStep`), a step of the Human IdP leaves the calls as they are (`IdpOnly`), and
presenting a token is a step of both (`Presents`); `SInv` adds to `IdpInv` what
a connection and each call know of the Human IdP: whose request a call waits for and that
its token was given out (`ConnTrue`, `CallTrue`), that a token on its way to the connection
is held by nobody else (`HeldTrue`), that two returns of the browser have requests of
their own (`ConsentTrue`) and of two requests for a grant one came behind the other or
neither was alone (`MetTrue`), and that the stored one was presented by nobody but a
call that is about to replace it, unless something failed or one was presented twice
(`SmoothTrue`). A return of the browser that creates a connection where there is one
has exchanged the code that another one exchanged; `SpentOnce`'s argument says that
neither came behind the other, so they met (`TwoReturns`).

### Met while modelling

Two returns from one consent pass the check of `used` when neither has marked it, and
where both exchange the code before it is spent, both get tokens; the later `create`
replaces the whole document, also one that a cleanup or a reuse has marked REVOKED in
between, and makes it ACTIVE with tokens of a grant that was handed back. Comments at
`xaa-callback.ts:38` and `:90-92` call the state one-shot and spent exactly once. Two overlapping subject-token calls are reported as a reuse and close the
connection though nobody leaked anything. A rotation in flight when a reuse is
detected or the connection cleaned up survives it. A crash, or a lost answer,
between the rotation and `SaveToken` leaves an ACTIVE connection with a spent
token. A `/revoke` whose second half failed answers 200 when it is retried, as the
refresh token is gone, and leaves the access tokens alive. A cleanup repeated after
`revokeAndForgetToken` has no ciphertext to decrypt and answers 502 for ever, which
the Lifecycle Manager counts as a failed step until its attempts are used up.
`revokeConsent` is called by nobody, and there is no logout route.

## 6. The Google Bridge: `BridgeTokens`

### State and actions

One person's connection (`conn`: status, token, scopes, expiry), her agents'
bindings, and what the SaaS accepts (`valid`, `withdrawn`). `flow[a]` is a consent
for an agent up to its binding (`CheckConnection`, `OauthStart`, `OauthCallback`,
`UpsertReads`/`UpsertWrites`, `VerifyConnection`, `BindReads`/`BindCreates`),
`req[r]` a token request (`Arrives`, `FindConnection`, then `Refresh`,
`RefreshRefused` or `RefreshLost`, then `SaveToken` or `MarkRevoked`), `call[c]` a
call of one of the three routes for the Lifecycle Manager (`DisableFinds` and
`DisableUpdates`; `DeleteBindings`; `RevokeFinds`, `RevokeAtSaas` or `RevokeUnheard`,
`RevokeMarks`). The SaaS may or must rotate (`Rotations`); the person may withdraw
there (`PersonWithdraws`).

The calls come in any order, for any agent and at any time: the module has no
caller. That is more than the system does. Today's cleanup makes none of these calls
to any effect (see below), so its real behaviours are those in which no call is made;
the properties hold with the calls and without.

### Properties and run

| Property | Says |
|---|---|
| `ActiveConnectionWorks` | outside overlaps and lost responses an ACTIVE connection holds a token the SaaS takes, and covers every bound agent's scopes |
| `RevokedConnectionIsDead` | under the same conditions a REVOKED one is dead at the SaaS, and a refused token marks it |
| `RevivedByConsentOnly` | only a consent, not a late rotation, makes a REVOKED connection ACTIVE |

`bridge_tokens`: two agents with different scopes, two requests, two calls (requests
and calls symmetric), rotation or none, one fault. Two users of the connection at a
time are the least that overlap; `overlapped` marks where they have.

### Proofs

`BridgeTokensProofs` proves all three for any agents, scopes, requests, calls and
faults: `ActiveWorks`, `RevokedIsDead`, `ConsentRevives`. The first two are not
inductive. `Fresh` says
that nobody holds a refresh token before it is in the connection, so that no step
can revive a revoked one or blame a new one for an old refusal; it holds always.
`Alone` says that without an overlap there is at most one user of the connection, and
`InTurn` what that user then knows of it between its steps (`RequestKnows`,
`CallKnows`) and what the connection itself is worth meanwhile (`ConnectionKnown`);
`Covered` says the same of scopes, and `Bound` that a binding comes behind the look
at them.

### Met while modelling

No cleanup cuts an agent off here: the Provisioner never writes the binding into the
record (`flow.ts:464-483`, `registration.ts:57-73`), so the cleanup's steps find none
(`domain.ts:102`, `steps/bridge-binding-disable.ts:4,13`,
`steps/registration-delete.ts:21`) and call neither route, and
`credential-revoke.ts:33-36` passes the IdP connection's id to `revoke-upstream`,
which answers 204 for an id it does not know. A destroyed agent's binding stays ACTIVE
until `expires_at`; what keeps the agent from using it is that it gets no ID-JAG
(`AgentAccess`). Nor would a disabled binding stop a request that has passed
`resolve-binding.ts:51`. A revocation the SaaS does not answer leaves the refresh token
valid there behind a REVOKED connection (`index.ts:305`). `invalid_grant` is taken for the person's withdrawal (`refresh-grant.ts:25`)
though an overlapping rotation or a stale read causes it as well. Two overlapping
consents lose one's scopes (`store/connection.ts:62-71`); a second consent leaves
the earlier refresh token valid at the SaaS; a rotation saved behind a new consent
overwrites its token; a response lost behind a rotation strands the connection.

## 7. Security Detection: `SecurityDetection`

### State and actions

`row[f]` is a document of `security_findings` (one per window and agent),
`examined[f]` the count in `security_inspections`, `agent[a]` the status the
Lifecycle Manager has, `asked` and `told` what was requested and published.
`run[l]` is the batch of a log line: `Deliver`, `InspectionRead`/`Written`,
`FindingRead`/`Written`, `NotAnalysed` or `Analysed`, `Respond`, `Announce`,
`Finish`; what is not acknowledged is delivered again (`Fails`, `Crash`,
`Redelivered`). `review[r]` is a call of the review route: `ReviewReads`,
`ReviewAsks`, `ReviewRecords`, `ReviewAnnounces`. The model's answer is any of
`Answers`, or none; `measured` has the agents with a baseline, `held` the responses
that were put off for a person. `Takes` is the Lifecycle Manager's table on the real
status, whatever `from` says.

### Properties and run

| Property | Says |
|---|---|
| `EvidenceIsKept` | an acknowledged line is in its finding and inspection, whatever is retried, reviewed or delivered later |
| `UnjudgedWaits` | a finding no model could judge is waiting for a person or decided by one |
| `DisruptionIsApproved` | nothing disruptive is asked for but by the approval of a finding that waited for a person, with a response an analysis of it had put off |
| `DecisionIsTrue` | a recorded decision was taken by the reviewer named, and an approval was put to the Lifecycle Manager first |
| `ToldIsTrue` | an isolation is announced only if it happened, and once |

`security_detection`: a grave line and a harmless one of one window, two reviewers,
five kinds of answer, one failed call, crash or redelivery. Two lines are the least
that share a finding. `disturbed` has the findings two batches were at together or
a swallowed failure hit: the first two properties leave them out, as the code loses
evidence there.

### Proofs

`SecurityDetectionProofs` proves all five for any lines, findings, agents and
reviewers, and that no order of requests takes an agent down the ladder
(`AgentsEscalate`). For the last three (`DisruptionNeedsAPerson`, `DecisionsAreTrue`,
`TimelineIsTrue`): a review never changes what it has read and requests are never taken
back (`ReviewsStand`); so a decision that is true of a row is true of every copy of it,
and `RowsTrue` says it of the rows and of the copies batches still have to write,
which is what makes it inductive. `RowsHeld` says likewise that a disruptive response
in a row or in a copy was put off, and that its row is pending or decided: what a
review takes from the row is then one that waited. `ToldIsTrue` needs `OneIsolates`: whoever was
answered that an agent is quarantined has moved it there, and it cannot be moved there
twice because it never comes down.

`EvidenceHolds` and `UnjudgedHolds` prove the first two. Their invariant (`KInv`) is
said of each finding that is not `disturbed`: one batch of it at a time (`OneBatch`),
a count that is as large as the set of lines taken in (`CountTrue`, over a set that is
shown to be finite because lines enter it one by one, so `Lines` need not be), and
that the row has kept every line written, and **so has the copy a batch is about to
write back** (`LinesKept`, `LinesWait`). The last is what a merge of a stale copy would
break; it holds because a line whose batch has written is over before another batch of
the finding reads, and because a review changes neither codes nor risk and never takes
a status back to `none`.

### Met while modelling

The body of a review has a decision and a reviewer (`index.ts:81`); the response that
is approved is the row's at the click (`index.ts:85,96`), so a batch between the screen
and the click changes what is approved, and nobody sees it. The model starts at the
click and says nothing of the screen. A finding held for review is set back to `none` by a later batch whose answer is
harmless, and a decision taken while a batch analyses is overwritten
(`index.ts:244-251`). An approval is recorded although the transition failed
(`index.ts:98`) and cannot be repeated. `writeFinding` takes a failed read for no row
(`index.ts:287-289`) and erases codes and decision; its comment (`281-284`) is wrong
for overlapping batches, which do not carry the same evidence. A redelivered line is
counted twice (`inspection.ts:116-118`). `dispatch.ts:38` counts on the Lifecycle
Manager being idempotent on the finding id, which answers 409. A publication that
fails behind a quarantine loses its event. The push route's 400 is meant to stop
redelivery; Pub/Sub redelivers anything but a success. The rule hits of the
signing-key rule are never fed.

## 8. How long an agent can act: `AgentAccess`

### State and actions

A tool call (`req[r]`) goes from the Runtime to the Agent OP (`Exchange`, `Issue`),
to an Authorization Server (`Redeem`, `Mint`) and to a Resource API (`Send`,
`Serve`), or uses the token held (`held`). At the last two it is judged by the
revocation ledger through the process's cache (`CacheAnswers`, `LedgerRead`,
`CacheFill`); a process may restart with an empty one. `RevokeFinds`/`RevokeWrites`
is the revocation route; `StopIssuing`, `Quarantine` and `CleanupStarts` write the
status the Agent OP reads; `RuntimeCancel`, `CredentialRevoke` and `AuditPersist`
are three steps of the cleanup as their far side answers them. `Tick` is the
clock: seconds, one clock, and no service holds a request longer than `Handle`.

### Properties and run

| Property | Says |
|---|---|
| `RevokedIsRefused` | a revoked actor passes a guard only with a request sent less than `Handle + Cache` behind the revocation |
| `StoppedRunsOut` | without any revocation, a stopped agent is served for `Handle + Grant + GrantLeeway + Handle + Token + Leeway` at most |
| `ExpiredRunsOut` | the same behind `expires_at`, less the grant's life, which is capped there |

`agent_access`: one agent, one process of each kind, two calls at a time, small
numbers for the lifetimes (each at least 1 where the code's is positive), eight
seconds. `VIEW` identifies states that differ only in cache entries and tokens past
their time, which no action or property tells apart. The proofs do without these bounds.

### Proofs

`AgentRuntimeProofs` (its second half): `TypeCorrect`, `RevocationTakesEffect`, `StoppingTakesEffect`
and `ExpiryTakesEffect`, each `Spec => []…`, for any agents, processes, calls and
lifetimes, under `ConstantsAssumption` (in which `Cache` and `Grant` are positive).
The argument is one of dates. The inductive invariant `IInv` says of every
credential, held or under way, who had been allowed what when it was made
(`HeldSound`, `RequestsSound`), and of every cache entry that claims an agent is not
revoked that it was read no later than `Handle` behind the revocation (`Entries`);
`Past` says that what is recorded has happened. A bound then follows by adding up. It
is needed because the properties speak of a request being served, whose date of
birth lies several services back.

### Met while modelling

Step 5 of the cleanup posts `actor_sub` to a route of the Authorization Servers that
only the Resource APIs serve, with `act_sub`; the 404 counts as done, so no cleanup
enters an agent in the ledger (`clients/http.ts:52`, against `credential-revoke.ts:8-10`).
What ends a stopped agent's access is `StoppedRunsOut` alone.

The Agent OP serves none of the three routes steps 2, 6 and 10 call (`app.ts:33-49`),
so these answer 404 and count as done: issuance ends by the status in
`agents/{id}__meta` alone. So `NothingOutlivesTheRecord` of section 3 is about what
the services do with the routes as the Lifecycle Manager names them. `revocation.ts:17-22` says no token is issued
behind a revocation; within the cache's lifetime one is. Two overlapping calls of
`revoke` may move `revoked_at`. `REGISTRATION_CACHE_TTL_SECONDS` is used by nobody.

## 9. One execution: `AgentRuntime`

### State and actions

`run` is the execution: `Started`, `FirstCheckpoint`, then rounds of
`readPendingInstructions`, a decision (`NoDecision`, `Done`, `InvalidCall`,
`ToolCall`) and a tool's result (`executeTool`, `Save`), until `StepsUsedUp` or an
end; `Close` writes the closing checkpoint, `Verdict`, `Caught` and `Finally` emit
the terminal event, once. `rows` are the instructions and failure exercises the
Automation App writes (`addInstruction`, `addFault`) and `CrashExercise`,
`ModelExercise`, `ToolExercise` carry out; `state` is the checkpoint, `trial(i)`
what a person is told of an exercise (`agents/faults.ts`). `topic` and `timeline` are
the terminal events published and stored; `storeActivityEvent` may come twice.
`StoreFails`, `Killed`, `Activated`, `Stopped`, `LifetimeEnds` and
`runtimeStateDelete` happen from outside.

### Properties, run and fairness

| Property | Says |
|---|---|
| `OneTrueEnding` | at most one terminal event, and it says how the task really ended |
| `TrialIsTrue` | what a person is told of an exercise is what the execution did with it |
| `EveryRunIsClosed` | a begun execution ends on the timeline, unless killed or the topic refuses |
| `NoTrialQueuedForever` | an exercise is read, or the person is told that it will not happen |

`agent_runtime`: three steps of the code's eight, three instructions. One step, one
in the middle and a last one are all the loop distinguishes, and three rows are an
exercise that is overwritten, its successor and words beside them. `RunStep` is
weakly fair (a live process goes on, as its calls have timeouts), `LifetimeEnds` (time)
and `storeActivityEvent` (Pub/Sub delivers until acknowledged). Nobody must write an
instruction, and a kill may come at any moment. Reading the three documents behind a
trial is one action: the code reads them outside a transaction, at almost one moment.

### Proofs

`AgentRuntimeProofs` (its first half): `RunTypeCorrect`, `EndingIsTrue` (`OneTrueEnding`), `ExerciseIsTrue`
(`TrialIsTrue`), for any `MaxSteps > 0` and `MaxInstructions`. `OneTrueEnding` alone
does not survive a step: the verdict is drawn from results whose relation to what
happened must be known. So `RunInv` adds why the loop stopped (`ReasonInv`), that an
exercise carried out shows in the results or in the way the loop ended
(`ExerciseInv`), what the closing checkpoint names (`CheckpointInv`), and that an
event is sent only where nothing changes any more (`EmitterInv`).

### Met while modelling

An instruction accepted behind the execution's last reading is read by nobody, as
`agent_status` stays ACTIVE; `instructions.ts:26-27` claims otherwise. A second
exercise overwrites a tool failure that was armed and not yet carried out, which
stays *received* for ever; the checkpoint names only the last, so an earlier confirmed
one falls back to *received*. Instructions read in the batch of a crash never reach
the model. The execution is started before its first instruction is written, so a
model may be done at once and the task be reported completed. A failed start
publishes no terminal event, though `task-outcome.ts:21` needs exactly one. A killed
run, or a failed closing checkpoint, leaves the task named, and exercises can be
queued until the lifetime ends. `lastInstructionId` looks for rows with the source
`instruction`, which none has. A terminal event the topic refuses is lost. Events of
tool calls, left out here, may reach the timeline behind the terminal one.

## 10. A change of permissions: `Reevaluation`

### State and actions

| Variable | In the code |
|---|---|
| `held` | `human_permissions` of one person |
| `changes`, `inbox`, `receipts` | the changes made, the messages Pub/Sub has no 2xx for, `permission_change_receipts` |
| `decisions` | `authorization_decisions` and `ai_proposals`, in the order of their `created_at` |
| `handler[h]` | a request of the Authorization Platform that handles a change: what it does next, the two lists it read, the agent at hand, the decision behind it, the one being made |
| `agent[w]` | how far the work definition is between the decision and its agent, then the agent's status and capabilities, and what its `created_at` is later than |
| `lock[w]` | `cleanup_lock` of the agent's record |
| `others` | agents a cleanup for another reason is at work on |
| `outlasted` | agents whose lock was taken from a cleanup that was not dead |
| `rebuilt[w]` | how often a replacement was begun for it |
| `disturbed`, `faults` | work a failure got in the way of; failures so far |

* **Work**: `Decide`, `DecideLoads`, `DecideSaves` (`created_at` is taken first and the
  permissions are read last), `Provision`, `Resume` (which checks the permissions once
  more), `HaltAgain`, `Activate`, `ProvisioningEnds`.
* **A change**: `HolderSet` from the console, in one request with the re-evaluation, or
  `PermSet` from the command, then `Deliver`, any number of times; `Claim`.
* **The re-evaluation**: `ListAgents`, `ListDecisions`, per agent `Examine`,
  `LoadPolicyInputs`, `SaveDecision`, and `Finish`.
* **The Lifecycle Manager and the Provisioner**: `LockAgent`, `Revoke`, `CleanupEnds`,
  `Rebuild` with `ReprovisionRoute`, `RebuildAborts`.
* **Meanwhile**: `Expiring`, `Expires`, a cleanup for another reason (`OtherLocks`,
  `OtherRevokes`, `OtherEnds`); `AgentFails`, `LifecycleDies`, `HandlerDies`;
  and `LockExpires`, by which a lock of five minutes is free for the next, whether the
  cleanup that took it died or is at work still, and ends by what it did itself.

### Properties and run

| Property | Says |
|---|---|
| `RevocationReaches` | a revocation that has been handled has stopped every agent that ran with the capability when it was written, unless it was granted again or a failure got in the way of that agent |
| `NarrowingNarrows` | a replacement is asked for with less than the agent has; what was granted at the same time stays out, and who lost nothing is not destroyed |
| `OneAgentAtATime` | however many changes reach an agent at once, a second replacement is not begun, and none beside a living agent, unless a cleanup of that agent outlasts its lock |

`reevaluation`: one work definition, two capabilities, two changes, two handlers, one
fault, every set of permissions to begin with. Two changes are the least that meet in
the same agent, and the least of which one decision takes one thing and gives another.
A second work definition only adds decisions of its own to the list `decisionBehind`
guesses from, which the last part speaks of: the first two properties are about agents
behind which none of them came between (`OwnDecisionBehind`; always so with one work).

Assumed: one person; policies that do not change (`Allowed`); no two changes with the
same `changed_at`; one cleanup of an agent for another reason at a time (a guard of
`OtherLocks`); an agent takes longer than the rest of its creation's second to
become active. There is no fairness, for nothing makes a person change anything:
`RevocationReaches` speaks of the states in which no change is announced or handled.

### Proofs

| Module | Theorem | Statement |
|---|---|---|
| `ReevaluationProofs` | `OneReplacement` | `Spec => OneAgentAtATime` |
| | `NarrowingHolds` | `Spec => []NarrowingNarrows` |
| | `RevocationHolds` | `Spec => []RevocationReaches` |

They hold for any work, capabilities, handlers, changes and faults.

`OneReplacement` speaks of the step that begins a replacement, and the lock does not
reach that far: it is deleted with the record. `IInv` says that, for an agent no cleanup of
which outlasted its lock: between the lock and the
deletion a handler, or the cleanup for another reason, has the lock and there is a record
(`LockIsHeld`, `OthersHold`); and between the
deletion and the replacement there is nothing, and no other handler is there
(`EndedByIt`). It says of every agent that an agent on a list ran once, so that no provisioning of it can
still fail and take the record from under the lock (`WasRunning`). Most steps are `Quiet`:
agents move forward, handlers go where they hold nothing, and the lock stays; one lemma
shows that those keep `IInv`, and each other step has one of its own.

`NarrowingHolds` adds `Judging`: an agent's own decision is the first on its work, is
saved with what the agent has, and every other on that work is later than the agent
(`OwnDecision`); what a handler has listed includes it (`Listed`); so the decision taken
to be behind the agent is its own (`DecisionBehindIsOwn`), and the set asked for less than
that (`Judged`). Each step moves decisions and agents `Forward`, which is what keeps the
judgement of the handlers that do not move.

`RevocationHolds` adds `Handling`: a reached agent that still runs has the revocation on
its way to it (`Underway`): unclaimed in the topic, with a request that has not come to
the agent, or with one at it whose decision lacks the capability. A request that dies
leaves the message or marks the agent as disturbed; one that finds the agent locked finds
another handler about to revoke it or another cleanup, since a lock left behind is over
a disturbed agent and a handler that cleans up has revoked (`Locked`, `Stopped`).

### Met while modelling

* **The claim comes before the work** (`permission-changed.ts:56`): a delivery that fails
  later answers 500 and its redelivery is a duplicate. The comment at `38-40` says a
  failure answers 500 so that it is redelivered.
* **The console's repetition** of a revocation that failed half-way finds nothing moved
  (`holder-store.ts:104`) and re-evaluates nothing.
* **`decisionBehind` guesses by time** (`reevaluate.ts:190`): a decision of other work, or
  of a re-evaluation, may be the newest before the agent, and becomes its baseline, against
  `classify.ts:24-28`. A re-evaluation stores no proposal, so an agent whose newest
  decision is one is left alone.
* A capability revoked between the Provisioner's check and ACTIVE stays with the agent:
  only ACTIVE and EXPIRING ones are listed (`authorization-store.ts:201`, against
  `docs/07-lifecycle.md:256`).
* **The replacement's consent page** is in an answer nobody reads (`lifecycle-manager/reprovision.ts:89`,
  against `docs/07-lifecycle.md:275`), so no replacement ever becomes active. The same
  line takes any status for success: a set the Provisioner refuses, the empty one among
  them, is reported as re-provisioned.
* *Blocked* counts as done (`lifecycle-manager/reprovision.ts:56`): behind a cleanup that
  died with the lock, the agent may stay ACTIVE with what was revoked.
* **Two cleanups that overlap** (`cleanup/index.ts:122`) of an agent to be re-provisioned
  both find every step done in their own results, both answer DESTROYED, and both ask the
  Provisioner (`lifecycle-manager/reprovision.ts:53-57`): two replacements are begun. The
  comment at `cleanup/index.ts:105-108` says the results of the steps make the overlap
  safe. Without its exception TLC refutes `OneAgentAtATime`, with two changes in a row and
  no failure.
* A re-provisioned agent gets `constraints: {}` (`provisioner/routes/reprovision.ts:86`).
  Two changes of one person within a millisecond have one receipt (`idempotency.ts:20`).

## 11. From the ToDo to an agent that was told it: `WorkDefinitions`

### State and actions

| Variable | In the code |
|---|---|
| `todo` | the record in `work_definitions`; `text` stands for its title, description, steps and so on |
| `definition[d]` | `agent_definitions`: not created, presented, approved; the wording it was decided for; `provisioning_transaction_id` |
| `run[x]` | the Provisioner's transaction and the one agent it may come to: asked for a consent, its page given to the person, ACTIVE, ending (EXPIRING or SUSPICIOUS, in which nothing of it is stopped), over; the instruction the agent was given |
| `req[r]` | a request: its next `await`, and the ToDo, definition and transaction it has read |
| `confirmed`, `withdrawn` | wordings the person has confirmed; the person was told that the ToDo is withdrawn |
| `overtaken`, `unlinked` | a save of the ToDo undid one made since its read; transactions whose way back to the work was lost |

Nothing in this code is a transaction but `addInstruction`, so that each handler is a
step that reads and checks and one that writes what it made of it, with any other
request in between: `ReadEdit`/`SaveEdit`, `ReadMessage`/`SaveMessage` or `NoRevision`,
`ReadConfirm`/`SaveConfirm`, `ReadComplete`/`SaveComplete`, `ReadCancel`/`Cancel`/`SaveCancel`
(which looks at the agent in between), `ReadSubmit`/`Decided` or `Refused`,
`ReadApprove`/`Approve`, `ReadProvision`/`Provision`/`RememberTransaction`. Back from the
consent: `Resume`, `FindWork`, `RememberAgent` or `LeaveClosed`, `Tell`. From outside:
`ResumeFails`, `AgentIsEnding`, `AgentEnds`, `RequestDies`.

An agent definition's id is new every time and its decision is never written again, so
that what was presented is what is decided (`assertStillApproved` compares the two).
The Provisioner's first answer is always a consent page (section 4), so the branch that
seeds an agent at once (`app.ts:594`) is never taken. An agent that is ending or over does not come
back to ACTIVE, as in the table of the Lifecycle Manager; what the Provisioner's blind activation
can do is in section 4. The model's revision is any wording, or none.

### Properties and run

| Property | Says |
|---|---|
| `OnlyApprovedWork` | an agent is created only for a wording the person confirmed, and a definition they approved behind its decision: RULE-08, whatever requests cross |
| `ToldWhatWasDecided` | an agent is told the wording its permissions were decided for, as long as no save of the ToDo undid another |
| `WithdrawnIsEnding` | a ToDo the person was told is withdrawn stays so, and the agent it names is over, or EXPIRING or SUSPICIOUS: never ACTIVE again and told nothing more, under the same condition |
| `EveryAgentIsTold` | an agent that is ACTIVE was told its work or is about to be, unless the request died or its transaction was overwritten in the definition |

`work_definitions`: one ToDo, two wordings, two definitions, two transactions, two
requests at once. Two requests are the least that overtake each other, two definitions
are two decisions on one ToDo, two transactions are two provisionings of one or of each.
The proofs do without these bounds. All four are safety properties and no fairness is
assumed; deadlock is not checked, as definitions and transactions run out.

### Proofs

`WorkDefinitionsProofs` proves the types and all four properties, for any number of
wordings, definitions, transactions and requests: `TypeCorrect`, `ApprovedWorkOnly`,
`ToldAsDecided`, `WithdrawnHolds`, `AgentsAreTold`. The assumption is that `None` is none
of the others. The inductive invariant `IInv` says what a record a request carries still
tells of the stored one (`RequestOK`), however long ago it was read. Part of it holds
however stale the record is, because what it rests on is never undone: a wording once
confirmed, a decision's wording, an approval, an agent that has begun, one that is no longer ACTIVE
(`Monotone`; `RequestKept` shows for all steps at once that what the other requests carry
stays true). The rest holds only while no save undid another (`WordingOK`): behind a
decision the ToDo is no draft and its wording is the one decided on, because whoever
could still change it has read a draft, and its save would be such a save. `RunsOK`
ties a transaction to the one definition that names it, which is what leads a consent
back to its work.

### Met while modelling

* **A late save.** The answer of the model to a message is saved over whatever the ToDo
  has become (`app.ts:404`, `422`; an edit likewise): it un-confirms the ToDo, or changes
  the wording behind a decision, and the agent is told words nobody confirmed.
  `initial-instruction.ts:24-26` says that what reaches it is what the person read.
* **A closed ToDo comes back.** The record read before and saved after (`app.ts:241` to
  `814`) makes a ToDo that was completed or withdrawn meanwhile IN_PROGRESS; the comment
  at `807-809` says it is left as it is.
* **Withdrawn, and an agent runs.** An approved definition can be provisioned when its
  ToDo is closed: the work is looked up in any status (`550`). The agent is told its work
  and the ToDo does not name it, which is why `WithdrawnIsEnding` speaks of the agent the
  ToDo names; `361-367` wants no ToDo to read as withdrawn while its agent works.
* **Withdrawn, and its agent works on.** The withdrawal is refused only when the agent's
  status is ACTIVE (`app.ts:391`). In the last minute of its lifetime the sweep makes it
  EXPIRING and stops nothing (`sweep.ts:64-67`), and the Agent OP still issues to it
  (`verify-agent-state.ts:7`); a finding makes it SUSPICIOUS, which changes the status and
  nothing else (`lifecycle-manager/src/index.ts:176`). Either passes the check with no
  request overlapping another, and `361-367` is not kept: `WithdrawnIsEnding` promises
  what is left of it. With "over" for "ending or over" in the property TLC finds it
  violated.
* **One definition, two agents.** Nothing spends an approval, so that a definition can
  be provisioned twice; it remembers the later transaction only (`587-589`), and the
  agent of the earlier one is told nothing. An approval that overlaps another is written
  whole (`approval.ts:104-107`) and erases the transaction remembered since.
* `confirm` confirms what is stored, not what the screen showed.
* An instance that dies between the Provisioner's answer and the instruction leaves an
  active agent that was told nothing; the consent's code is spent, and nothing repeats it.

## 12. Not modelled, and why

**Within the services that are modelled**: each component's note in `PROJECT.json` says
what is left out. The largest parts are login and consent pages and the checks of
requests in the Human IdP, the model calls of the Authorization Platform with the guards
on their answers, the rules and scores of Security Detection, and the screens of the
Automation App.

**The JWKS publisher, the libraries**: one publication or one atomic call each; the
document store's contract (a transaction is atomic, an update of a missing document
fails, a batch fails as a whole) is built into the actions of every module.

**Never**: cryptography and token formats (taken as working), the user interface and
its sessions, logging and schemas, prompts and model answers (any answer is a
nondeterministic choice), deployment. A large part of the repository's lines are
three copies of a generated OIDC server (`generated-baseline` and the servers made
from it), pages, and descriptions of infrastructure; the Human IdP's copy is the one
whose token handling is modelled, and the lines of the other two are not claimed for it.
