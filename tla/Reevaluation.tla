---------------------------- MODULE Reevaluation ----------------------------
(***************************************************************************)
(* What a change of a person's permissions does to the agents running for  *)
(* them.  The change is written and announced; the Authorization Platform  *)
(* re-evaluates each running agent against the decision it takes to be the *)
(* agent's, and asks the Lifecycle Manager to replace those that lost      *)
(* something; the Lifecycle Manager destroys the agent and asks the        *)
(* Provisioner for another.  Meanwhile decisions are made, agents become   *)
(* active, and agents are stopped for other reasons.                       *)
(*                                                                         *)
(* One person.  Decisions are numbered in the order of their created_at;   *)
(* the created_at of an agent is the number of decisions stamped before    *)
(* it.  The risk and organization policies do not change: what they leave  *)
(* is Allowed.  No two changes have the same changed_at.                   *)
(***************************************************************************)
EXTENDS Naturals, Sequences, FiniteSetsExt

CONSTANTS
  Capabilities,
  Works,       \* work definitions: each is decided on once
  Handlers,    \* requests the Authorization Platform handles at a time
  Proposes,    \* what the model proposed for each work definition
  Allowed,     \* what the policies let through
  Initially,   \* what the person may hold to begin with
  MaxChanges,  \* bound on the changes of permissions
  MaxFaults    \* bound on calls that fail and processes that die

None == 0

ASSUME ConstantsAssumption ==
  /\ Works \subseteq Nat \ {None}
  /\ Handlers \intersect {"free", "stale", "other"} = {}
  /\ Proposes \in [Works -> SUBSET Capabilities]
  /\ Allowed \subseteq Capabilities
  /\ Initially \subseteq SUBSET Capabilities
  /\ MaxChanges \in Nat /\ MaxFaults \in Nat

VARIABLES
  held,       \* human_permissions
  changes,    \* the changes made so far
  inbox,      \* messages of changes Pub/Sub has no 2xx for
  receipts,   \* permission_change_receipts
  handler,    \* how far each handling of a change is
  decisions,  \* authorization_decisions and ai_proposals
  agent,      \* how far each work definition is, then its agent
  lock,       \* cleanup_lock of the agent, and who left it there
  others,     \* agents being cleaned up for another reason
  outlasted,  \* agents a cleanup of which went on after its lock was old
  rebuilt,    \* how often the Provisioner began a replacement
  disturbed,  \* work definitions a failure got in the way of
  faults

evaluating == <<handler, decisions>>
cleanups == <<others, outlasted>>
vars == <<held, changes, inbox, receipts, evaluating, agent, lock, cleanups, rebuilt, disturbed,
          faults>>

-----------------------------------------------------------------------------
AzPcs == {"claim", "agents", "decisions", "next", "load", "save"}
LifecyclePcs == {"ask", "revoke", "cleanup", "rebuild"}

\* todo and known: what the two lists answered; work, previous and mine: the
\* agent being re-evaluated, the decision behind it and the one being made;
\* caps: what that decides, then what the replacement is to have.
Idle == [pc |-> "idle", change |-> None, pushed |-> FALSE, todo |-> {}, known |-> {},
         work |-> None, previous |-> None, mine |-> None, caps |-> {}, failed |-> FALSE]

\* PROVISIONING is "starting"; EXPIRED and what the detector makes of an agent
\* are "REVOKED": nothing is issued to it and nothing leads back.  url: the
\* person was sent to the consent page.
Statuses == {"none", "deciding", "loaded", "decided", "waiting", "starting",
             "ACTIVE", "EXPIRING", "REVOKED", "gone"}
NoAgent == [status |-> "none", decision |-> None, caps |-> {}, after |-> None, url |-> FALSE]

Init ==
  /\ held \in Initially
  /\ changes = <<>> /\ inbox = {} /\ receipts = {}
  /\ handler = [h \in Handlers |-> Idle]
  /\ decisions = <<>>
  /\ agent = [w \in Works |-> NoAgent]
  /\ lock = [w \in Works |-> "free"]
  /\ others = {} /\ outlasted = {}
  /\ rebuilt = [w \in Works |-> 0]
  /\ disturbed = {} /\ faults = 0

TypeOK ==
  /\ held \subseteq Capabilities
  /\ changes \in Seq([cap : Capabilities, reach : SUBSET Works])
  /\ inbox \union receipts \subseteq 1 .. Len(changes)
  /\ handler \in [Handlers ->
       [pc : {"idle"} \union AzPcs \union LifecyclePcs, change : 0 .. Len(changes),
        pushed : BOOLEAN, todo : SUBSET Works, known : SUBSET (1 .. Len(decisions)),
        work : Works \union {None}, previous : 0 .. Len(decisions),
        mine : 0 .. Len(decisions), caps : SUBSET Capabilities, failed : BOOLEAN]]
  /\ decisions \in Seq([work : Works, change : 0 .. Len(changes),
                        caps : SUBSET Capabilities, saved : BOOLEAN])
  /\ agent \in [Works -> [status : Statuses, decision : 0 .. Len(decisions),
                          caps : SUBSET Capabilities, after : 0 .. Len(decisions),
                          url : BOOLEAN]]
  /\ lock \in [Works -> {"free", "stale", "other"} \union Handlers]
  /\ others \subseteq Works /\ outlasted \subseteq Works
  /\ rebuilt \in [Works -> Nat]
  /\ disturbed \subseteq Works
  /\ faults \in 0 .. MaxFaults

Is(w, status) == agent[w].status = status
Becomes(w, status) == agent' = [agent EXCEPT ![w].status = status]
At(h, pc) == handler[h].pc = pc
Goto(h, pc) == handler' = [handler EXCEPT ![h].pc = pc]
Fault == faults < MaxFaults /\ faults' = faults + 1
Running == {w \in Works : agent[w].status \in {"ACTIVE", "EXPIRING"}}

\* The agent whose replacement a handler asked for has no record any more.
Gone(w) == rebuilt[w] > 0 \/ Is(w, "gone")

Effective(proposed) == proposed \intersect held \intersect Allowed

\* created_at of an agent is cut to the second and compared as text, so that
\* it is not before any decision of that second.  An agent takes longer than
\* that to become active.
Stamp(w, change) ==
  /\ decisions' = Append(decisions,
       [work |-> w, change |-> change, caps |-> {}, saved |-> FALSE])
  /\ \E same \in SUBSET {v \in Works : Is(v, "starting") /\ agent[v].after = Len(decisions)} :
       agent' = [v \in Works |->
         IF v \in same THEN [agent[v] EXCEPT !.after = @ + 1]
         ELSE IF v = w /\ change = None
         THEN [agent[v] EXCEPT !.status = "deciding", !.decision = Len(decisions) + 1]
         ELSE agent[v]]

Saved(i, caps) == decisions' = [decisions EXCEPT ![i].caps = caps, ![i].saved = TRUE]

-----------------------------------------------------------------------------
(* From the request to an active agent.                                    *)

\* created_at is taken first, the models are asked, and only then is it read
\* what the person holds.
Decide(w) ==
  /\ Is(w, "none")
  /\ Stamp(w, None)
  /\ UNCHANGED <<held, changes, inbox, receipts, handler, lock, cleanups, rebuilt,
                 disturbed, faults>>

DecideLoads(w) ==
  /\ Is(w, "deciding")
  /\ agent' = [agent EXCEPT ![w].status = "loaded", ![w].caps = Effective(Proposes[w])]
  /\ UNCHANGED <<held, changes, inbox, receipts, evaluating, lock, cleanups, rebuilt,
                 disturbed, faults>>

DecideSaves(w) ==
  /\ Is(w, "loaded")
  /\ Saved(agent[w].decision, agent[w].caps)
  /\ Becomes(w, "decided")
  /\ UNCHANGED <<held, changes, inbox, receipts, handler, lock, cleanups, rebuilt,
                 disturbed, faults>>

\* POST /provisioning always halts for the consent, and the person's browser
\* is sent to it.
Provision(w) ==
  /\ Is(w, "decided") /\ agent[w].caps \subseteq held
  /\ agent' = [agent EXCEPT ![w].status = "waiting", ![w].url = TRUE]
  /\ UNCHANGED <<held, changes, inbox, receipts, evaluating, lock, cleanups, rebuilt,
                 disturbed, faults>>

\* Back from the consent page: the permissions are checked once more, and the
\* created_at is that of this call.
Resume(w) ==
  /\ Is(w, "waiting") /\ agent[w].url
  /\ agent' = [agent EXCEPT
       ![w].status = IF agent[w].caps \subseteq held THEN "starting" ELSE "gone",
       ![w].after = Len(decisions)]
  /\ UNCHANGED <<held, changes, inbox, receipts, evaluating, lock, cleanups, rebuilt,
                 disturbed, faults>>

\* A consent for a SaaS is wanted as well.
HaltAgain(w) ==
  /\ Is(w, "starting")
  /\ Becomes(w, "waiting")
  /\ UNCHANGED <<held, changes, inbox, receipts, evaluating, lock, cleanups, rebuilt,
                 disturbed, faults>>

Activate(w) ==
  /\ Is(w, "starting")
  /\ Becomes(w, "ACTIVE")
  /\ UNCHANGED <<held, changes, inbox, receipts, evaluating, lock, cleanups, rebuilt,
                 disturbed, faults>>

ProvisioningEnds(w) ==
  /\ agent[w].status \in {"waiting", "starting"}
  /\ Becomes(w, "gone")
  /\ UNCHANGED <<held, changes, inbox, receipts, evaluating, lock, cleanups, rebuilt,
                 disturbed, faults>>

-----------------------------------------------------------------------------
(* A change of permissions.                                                *)

Changed(cap, grant) ==
  /\ Len(changes) < MaxChanges
  /\ held' = IF grant THEN held \union {cap} ELSE held \ {cap}
  /\ changes' = Append(changes,
       [cap |-> cap,
        reach |-> IF grant THEN {} ELSE {w \in Running : cap \in agent[w].caps}])

Starts(h, c, pushed) ==
  /\ At(h, "idle")
  /\ handler' = [handler EXCEPT ![h] =
       [Idle EXCEPT !.pc = "claim", !.change = c, !.pushed = pushed]]

\* The console writes and re-evaluates in one request; a change that moves
\* nothing ends there.
HolderSet(h, cap, grant) ==
  /\ Changed(cap, grant) /\ held' # held
  /\ Starts(h, Len(changes) + 1, FALSE)
  /\ UNCHANGED <<inbox, receipts, decisions, agent, lock, cleanups, rebuilt, disturbed, faults>>

\* The command writes and publishes whatever was there.
PermSet(cap, grant) ==
  /\ Changed(cap, grant)
  /\ \/ inbox' = inbox \union {Len(changes) + 1} /\ UNCHANGED <<disturbed, faults>>
     \/ Fault /\ disturbed' = disturbed \union Running /\ UNCHANGED inbox
  /\ UNCHANGED <<receipts, evaluating, agent, lock, cleanups, rebuilt>>

\* Pub/Sub may deliver a message again as long as no delivery was answered.
Deliver(h, c) ==
  /\ c \in inbox
  /\ Starts(h, c, TRUE)
  /\ UNCHANGED <<held, changes, inbox, receipts, decisions, agent, lock, cleanups, rebuilt,
                 disturbed, faults>>

\* A 204, or a 500 that leaves the message where it is.
Answers(h, ok) ==
  /\ handler' = [handler EXCEPT ![h] = Idle]
  /\ inbox' = IF ok THEN inbox \ {handler[h].change} ELSE inbox

\* The claim is made by the write itself, before anything else is done.
Claim(h) ==
  /\ At(h, "claim")
  /\ IF handler[h].change \in receipts
     THEN Answers(h, TRUE) /\ UNCHANGED receipts
     ELSE /\ receipts' = receipts \union {handler[h].change}
          /\ Goto(h, "agents") /\ UNCHANGED inbox
  /\ UNCHANGED <<held, changes, decisions, agent, lock, cleanups, rebuilt, disturbed, faults>>

ListAgents(h) ==
  /\ At(h, "agents")
  /\ handler' = [handler EXCEPT ![h].todo = Running,
                                ![h].pc = IF Running = {} THEN "next" ELSE "decisions"]
  /\ UNCHANGED <<held, changes, inbox, receipts, decisions, agent, lock, cleanups, rebuilt,
                 disturbed, faults>>

ListDecisions(h) ==
  /\ At(h, "decisions")
  /\ handler' = [handler EXCEPT ![h].pc = "next",
       ![h].known = {i \in DOMAIN decisions : decisions[i].saved}]
  /\ UNCHANGED <<held, changes, inbox, receipts, decisions, agent, lock, cleanups, rebuilt,
                 disturbed, faults>>

\* A slip: the newest decision there is.
newestDecision(w, known) == IF known = {} THEN None ELSE Max(known)

\* The newest decision of the person that is not later than the agent.
decisionBehind(w, known) ==
  LET earlier == {i \in known : i <= agent[w].after}
  IN IF earlier = {} THEN None ELSE Max(earlier)

\* A re-evaluation saves no proposal: its decision cannot be re-evaluated.
proposalOf(i) == i # None /\ decisions[i].change = None

\* One agent after the other.  Without a decision or its proposal the agent is
\* left alone, with a line in the log.
Examine(h, w) ==
  /\ At(h, "next") /\ w \in handler[h].todo
  /\ LET previous == decisionBehind(w, handler[h].known)
         rest == handler[h].todo \ {w}
     IN IF proposalOf(previous)
        THEN /\ Stamp(w, handler[h].change)
             /\ handler' = [handler EXCEPT ![h].todo = rest, ![h].pc = "load", ![h].work = w,
                              ![h].previous = previous, ![h].mine = Len(decisions) + 1]
        ELSE /\ handler' = [handler EXCEPT ![h].todo = rest]
             /\ UNCHANGED <<decisions, agent>>
  /\ UNCHANGED <<held, changes, inbox, receipts, lock, cleanups, rebuilt, disturbed, faults>>

LoadPolicyInputs(h) ==
  /\ At(h, "load")
  /\ handler' = [handler EXCEPT ![h].pc = "save",
       ![h].caps = Effective(Proposes[decisions[handler[h].previous].work])]
  /\ UNCHANGED <<held, changes, inbox, receipts, decisions, agent, lock, cleanups, rebuilt,
                 disturbed, faults>>

classifyChange(old, new) ==
  CASE old = new -> "unchanged"
    [] old \subseteq new /\ old # new -> "expanded"
    [] new \subseteq old /\ old # new -> "shrunk"
    [] OTHER -> "mixed"

\* A slip: all that the new decision allows.
allCapabilities(old, new) == new

retainedCapabilities(old, new) == old \intersect new

SaveDecision(h) ==
  /\ At(h, "save")
  /\ LET old == decisions[handler[h].previous].caps
         new == handler[h].caps
         kind == classifyChange(old, new)
     IN /\ Saved(handler[h].mine, new)
        /\ handler' = [handler EXCEPT
             ![h].pc = IF kind \in {"shrunk", "mixed"} THEN "ask" ELSE "next",
             ![h].caps = IF kind = "mixed" THEN retainedCapabilities(old, new) ELSE new]
  /\ UNCHANGED <<held, changes, inbox, receipts, agent, lock, cleanups, rebuilt,
                 disturbed, faults>>

\* Failures of single agents are collected, and become a 500 at the end.
Finish(h) ==
  /\ At(h, "next") /\ handler[h].todo = {}
  /\ Answers(h, ~ handler[h].failed)
  /\ UNCHANGED <<held, changes, receipts, decisions, agent, lock, cleanups, rebuilt,
                 disturbed, faults>>

-----------------------------------------------------------------------------
(* POST /internal/agents/:agent_id/reprovision of the Lifecycle Manager.   *)

\* A slip: whoever has the lock.
LockAnyway(h) ==
  /\ At(h, "ask")
  /\ lock' = [lock EXCEPT ![handler[h].work] = h]
  /\ Goto(h, "revoke")
  /\ UNCHANGED <<held, changes, inbox, receipts, decisions, agent, cleanups, rebuilt,
                 disturbed, faults>>

\* Somebody else's cleanup is at work: "blocked", which is an answer like any
\* other.  The record may be missed before the lock is asked for, or by the
\* transaction that takes it; only the first is an error.
LockAgent(h) ==
  /\ At(h, "ask")
  /\ LET w == handler[h].work
     IN IF ~ Gone(w) /\ lock[w] = "free"
        THEN lock' = [lock EXCEPT ![w] = h] /\ Goto(h, "revoke")
        ELSE /\ \E failed \in IF Gone(w) THEN BOOLEAN ELSE {FALSE} :
                  handler' = [handler EXCEPT ![h].pc = "next", ![h].failed = @ \/ failed]
             /\ UNCHANGED lock
  /\ UNCHANGED <<held, changes, inbox, receipts, decisions, agent, cleanups, rebuilt,
                 disturbed, faults>>

\* There is no move from EXPIRING to REVOKED: the refusal is not an error, and
\* the cleanup goes on.  That the record is gone is one.
Revoke(h) ==
  /\ At(h, "revoke")
  /\ IF Gone(handler[h].work)
     THEN /\ handler' = [handler EXCEPT ![h].pc = "next", ![h].failed = TRUE]
          /\ UNCHANGED agent
     ELSE /\ Goto(h, "cleanup")
          /\ IF Is(handler[h].work, "ACTIVE") THEN Becomes(handler[h].work, "REVOKED")
             ELSE UNCHANGED agent
  /\ UNCHANGED <<held, changes, inbox, receipts, decisions, lock, cleanups, rebuilt,
                 disturbed, faults>>

\* Every step done, and the record and its lock are gone; or some step failed,
\* the lock is released, whoever has it by now, and the answer is "blocked".  A
\* cleanup goes by what it did itself: it is complete although another one has
\* deleted the record.
CleanupEnds(h, complete) ==
  /\ At(h, "cleanup")
  /\ LET w == handler[h].work
     IN /\ IF complete /\ ~ Gone(w) THEN Becomes(w, "gone") ELSE UNCHANGED agent
        /\ lock' = [lock EXCEPT ![w] = "free"]
  /\ Goto(h, IF complete THEN "rebuild" ELSE "next")
  /\ UNCHANGED <<held, changes, inbox, receipts, decisions, cleanups, rebuilt, disturbed, faults>>

\* The Provisioner checks what it is handed, and halts for the consent of the
\* new agent.
ReprovisionRoute(w, caps, decision) ==
  IF caps # {} /\ caps \subseteq held
  THEN /\ agent' = [agent EXCEPT ![w] =
            [NoAgent EXCEPT !.status = "waiting", !.caps = caps, !.decision = decision]]
       /\ rebuilt' = [rebuilt EXCEPT ![w] = @ + 1]
  ELSE UNCHANGED <<agent, rebuilt>>

\* Of the answer only agent_id is looked at, and the consent_url goes nowhere.
Rebuild(h) ==
  /\ At(h, "rebuild")
  /\ ReprovisionRoute(handler[h].work, handler[h].caps, handler[h].mine)
  /\ Goto(h, "next")
  /\ UNCHANGED <<held, changes, inbox, receipts, decisions, lock, cleanups, disturbed, faults>>

\* Its life is over, or the Provisioner refused for a reason of its own.
RebuildAborts(h) ==
  /\ At(h, "rebuild")
  /\ Goto(h, "next")
  /\ UNCHANGED <<held, changes, inbox, receipts, decisions, agent, lock, cleanups, rebuilt,
                 disturbed, faults>>

-----------------------------------------------------------------------------
(* What goes wrong.                                                        *)

\* A read or write fails for the agent at hand, the policy decisions after the
\* decision among them, or the request to the Lifecycle Manager does not arrive.
AgentFails(h) ==
  /\ handler[h].pc \in {"load", "save", "ask"}
  /\ \/ UNCHANGED decisions
     \/ At(h, "save") /\ Saved(handler[h].mine, handler[h].caps)
  /\ Fault
  /\ disturbed' = disturbed \union {handler[h].work}
  /\ handler' = [handler EXCEPT ![h].pc = "next", ![h].failed = TRUE]
  /\ UNCHANGED <<held, changes, inbox, receipts, agent, lock, cleanups, rebuilt>>

\* The Lifecycle Manager dies over it and leaves its lock.
LifecycleDies(h) ==
  /\ handler[h].pc \in {"revoke", "cleanup", "rebuild"}
  /\ Fault
  /\ disturbed' = disturbed \union {handler[h].work}
  /\ lock' = [lock EXCEPT ![handler[h].work] = IF @ = h THEN "stale" ELSE @]
  /\ handler' = [handler EXCEPT ![h].pc = "next", ![h].failed = TRUE]
  /\ UNCHANGED <<held, changes, inbox, receipts, decisions, agent, cleanups, rebuilt>>

\* The handling as a whole fails, or its process dies.  A message that was not
\* claimed loses nothing by it.
HandlerDies(h) ==
  /\ handler[h].pc \in {"claim", "agents", "decisions", "next"}
  /\ Fault
  /\ disturbed' = disturbed \union
       CASE At(h, "claim") /\ handler[h].pushed -> {}
         [] At(h, "next") -> handler[h].todo
         [] OTHER -> Works
  /\ Answers(h, FALSE)
  /\ UNCHANGED <<held, changes, receipts, decisions, agent, lock, cleanups, rebuilt>>

\* Five minutes.  The cleanup that took the lock may have died, or be at work.
LockExpires(w) ==
  /\ lock[w] # "free"
  /\ lock' = [lock EXCEPT ![w] = "free"]
  /\ outlasted' = IF lock[w] = "stale" THEN outlasted ELSE outlasted \union {w}
  /\ UNCHANGED <<held, changes, inbox, receipts, evaluating, agent, others, rebuilt, disturbed,
                 faults>>

-----------------------------------------------------------------------------
(* What else happens to an agent: its life ends, and it is cleaned up for   *)
(* another reason.                                                         *)

Expiring(w) ==
  /\ Is(w, "ACTIVE")
  /\ Becomes(w, "EXPIRING")
  /\ UNCHANGED <<held, changes, inbox, receipts, evaluating, lock, cleanups, rebuilt,
                 disturbed, faults>>

Expires(w) ==
  /\ Is(w, "EXPIRING")
  /\ Becomes(w, "REVOKED")
  /\ UNCHANGED <<held, changes, inbox, receipts, evaluating, lock, cleanups, rebuilt,
                 disturbed, faults>>

OtherLocks(w) ==
  /\ agent[w].status \in {"ACTIVE", "EXPIRING", "REVOKED"}
  /\ lock[w] = "free" /\ w \notin others
  /\ lock' = [lock EXCEPT ![w] = "other"]
  /\ others' = others \union {w}
  /\ UNCHANGED <<held, changes, inbox, receipts, evaluating, agent, outlasted, rebuilt, disturbed,
                 faults>>

OtherRevokes(w) ==
  /\ w \in others /\ Is(w, "ACTIVE")
  /\ Becomes(w, "REVOKED")
  /\ UNCHANGED <<held, changes, inbox, receipts, evaluating, lock, cleanups, rebuilt, disturbed,
                 faults>>

OtherEnds(w, complete) ==
  /\ w \in others /\ ~ Is(w, "ACTIVE")
  /\ IF complete /\ ~ Gone(w) THEN Becomes(w, "gone") ELSE UNCHANGED agent
  /\ lock' = [lock EXCEPT ![w] = "free"]
  /\ others' = others \ {w}
  /\ UNCHANGED <<held, changes, inbox, receipts, evaluating, outlasted, rebuilt, disturbed, faults>>

-----------------------------------------------------------------------------
WorkStep(w) ==
  \/ Decide(w) \/ DecideLoads(w) \/ DecideSaves(w)
  \/ Provision(w) \/ Resume(w) \/ HaltAgain(w) \/ Activate(w) \/ ProvisioningEnds(w)

Reevaluates(h) ==
  \/ Claim(h) \/ ListAgents(h) \/ ListDecisions(h)
  \/ \E w \in Works : Examine(h, w)
  \/ LoadPolicyInputs(h) \/ SaveDecision(h) \/ Finish(h)

Reprovisions(h) ==
  \/ LockAgent(h) \/ Revoke(h)
  \/ \E complete \in BOOLEAN : CleanupEnds(h, complete)
  \/ Rebuild(h) \/ RebuildAborts(h)

GoesWrong(h) == AgentFails(h) \/ LifecycleDies(h) \/ HandlerDies(h)

OtherCleanup(w) ==
  OtherRevokes(w) \/ \E complete \in BOOLEAN : OtherEnds(w, complete)

StopStep(w) == Expiring(w) \/ Expires(w) \/ OtherLocks(w) \/ OtherCleanup(w)

Next ==
  \/ \E w \in Works : WorkStep(w) \/ LockExpires(w) \/ StopStep(w)
  \/ \E cap \in Capabilities, grant \in BOOLEAN :
       PermSet(cap, grant) \/ \E h \in Handlers : HolderSet(h, cap, grant)
  \/ \E h \in Handlers, c \in inbox : Deliver(h, c)
  \/ \E h \in Handlers : Reevaluates(h) \/ Reprovisions(h) \/ GoesWrong(h)

Spec == Init /\ [][Next]_vars

-----------------------------------------------------------------------------
\* Nothing else of the person's was decided on between the decision for an
\* agent and the agent's creation, so that the decision behind it is its own;
\* another one may be taken for it, and the agent be left alone.
OwnDecisionBehind(w) ==
  \A i \in agent[w].decision .. agent[w].after :
     i \in DOMAIN decisions => decisions[i].work = w

\* Once no change is announced or being handled and no cleanup is under way.
AtRest ==
  /\ inbox = {}
  /\ \A h \in Handlers : At(h, "idle")
  /\ others = {}

\* A revocation that has been handled has stopped every agent that was running
\* with the capability when it was written, whatever other changes, cleanups
\* and re-evaluations there were, unless it was granted again or a failure got
\* in the way of that very agent (reevaluate.ts:43-55).
RevocationReaches ==
  AtRest =>
    \A c \in DOMAIN changes : \A w \in changes[c].reach \ disturbed :
       Is(w, "ACTIVE") /\ OwnDecisionBehind(w) => changes[c].cap \in held

\* A replacement is asked for with less than the agent has, never with
\* something else: what came in at the same time stays out, and an agent that
\* lost nothing is not destroyed (classify.ts:24-28, reevaluate.ts:164-169).
NarrowingNarrows ==
  \A h \in Handlers : At(h, "ask") =>
     LET w == handler[h].work
     IN ~ Gone(w) /\ OwnDecisionBehind(w) =>
          handler[h].caps \subseteq agent[w].caps /\ handler[h].caps # agent[w].caps

\* However many changes reach the same agent at once, whichever dies halfway,
\* a second replacement is not begun and none beside a living agent
\* (lifecycle-manager/src/reprovision.ts:53-57), unless a cleanup of that agent
\* outlasts the five minutes of its lock: then another one begins beside it, and
\* both end with a replacement, against cleanup/index.ts:105-108.
OneAgentAtATime ==
  [][\A w \in Works :
       rebuilt'[w] # rebuilt[w] /\ w \notin outlasted => Is(w, "gone") /\ rebuilt[w] = 0]_vars
=============================================================================
