------------------------- MODULE ReevaluationProofs -------------------------
(***************************************************************************)
(* For any number of requests, work definitions, changes and failures:     *)
(* that at most one replacement of an agent is begun, and none beside it;  *)
(* that an agent is replaced by less than it was; and that what is revoked *)
(* reaches the agents that had it.                                         *)
(*                                                                         *)
(* The lock alone does not say the first: it is deleted with the record,   *)
(* before the Provisioner is asked, and it is taken from a cleanup that    *)
(* outlasts it, which is the exception.  What does is that a request which *)
(* holds it finds the record of the agent, that the request which deletes  *)
(* the record is the only one that goes on to rebuild, and that an agent   *)
(* on somebody's list has run, so that no provisioning of it is left to    *)
(* fail.  The second is about decisions: those made on an agent while it   *)
(* runs are all later than it, so that the one behind it stays its own.    *)
(* The third is that a revocation is always somewhere on its way: in the   *)
(* topic, with a request that has not come to the agent, or with one that  *)
(* is at it; and whoever finds the agent locked finds somebody else        *)
(* stopping it.                                                            *)
(***************************************************************************)
EXTENDS Reevaluation, TLAPS

NotYet == {"none", "deciding", "loaded", "decided", "waiting", "starting"}
Alive == {"ACTIVE", "EXPIRING", "REVOKED"}
HasAgent == {"load", "save", "ask", "revoke", "cleanup", "rebuild"}

\* As much of the types as the argument needs.
ShapeOf(h) ==
  /\ DOMAIN handler[h] = DOMAIN Idle
  /\ handler[h].todo \subseteq Works
  /\ handler[h].pc \in HasAgent => handler[h].work \in Works
  /\ handler[h].pc # "idle" => handler[h].change # None
Shape ==
  /\ changes \in Seq([cap : Capabilities, reach : SUBSET Works])
  /\ inbox \subseteq Nat \ {None}
  /\ DOMAIN handler = Handlers /\ \A h \in Handlers : ShapeOf(h)
  /\ DOMAIN agent = Works /\ \A w \in Works : DOMAIN agent[w] = DOMAIN NoAgent
  /\ DOMAIN lock = Works /\ others \subseteq Works
  /\ rebuilt \in [Works -> Nat]

Ran(w) == rebuilt[w] > 0 \/ agent[w].status \in Alive \union {"gone"}

\* What is on a list, or being re-evaluated, has run.
WasRunningFor(h) ==
  \A w \in Works :
    w \in handler[h].todo \/ (handler[h].pc \in HasAgent /\ handler[h].work = w) => Ran(w)
WasRunning == \A h \in Handlers : WasRunningFor(h)

\* Between the lock and the deletion there is the record, as long as no cleanup
\* of the agent outlasts its lock.
LockIsHeldBy(h) ==
  handler[h].pc \in {"revoke", "cleanup"} /\ handler[h].work \notin outlasted =>
    lock[handler[h].work] = h /\ ~ Gone(handler[h].work)
LockIsHeld == \A h \in Handlers : LockIsHeldBy(h)
OthersHold ==
  \A w \in others : Ran(w) /\ (w \notin outlasted => lock[w] = "other" /\ agent[w].status \in Alive)

\* Between the deletion and the replacement there is nothing, and nobody else
\* is there.
EndedBy(h) ==
  At(h, "rebuild") /\ handler[h].work \notin outlasted =>
    Is(handler[h].work, "gone") /\ rebuilt[handler[h].work] = 0
EndedByIt ==
  /\ \A h \in Handlers : EndedBy(h)
  /\ \A h, k \in Handlers :
       /\ At(h, "rebuild") /\ At(k, "rebuild")
       /\ handler[h].work = handler[k].work /\ handler[h].work \notin outlasted
       => h = k

IInv == Shape /\ WasRunning /\ LockIsHeld /\ OthersHold /\ EndedByIt

-----------------------------------------------------------------------------
(* Most steps move agents forward and handlers to where they hold nothing. *)

AgentMoves(w) ==
  /\ DOMAIN agent'[w] = DOMAIN NoAgent
  /\ \/ agent'[w].status = agent[w].status
     \/ agent[w].status \in NotYet
     \/ agent[w].status \in Alive /\ agent'[w].status \in Alive
AgentsMove == DOMAIN agent' = Works /\ \A w \in Works : AgentMoves(w)

HandlerMoves(h) ==
  /\ ShapeOf(h)'
  /\ handler'[h].todo \subseteq handler[h].todo \union Running
  /\ handler'[h].pc \notin {"revoke", "cleanup", "rebuild"}
  /\ handler'[h].pc \in HasAgent =>
       \/ handler[h].pc \in HasAgent /\ handler'[h].work = handler[h].work
       \/ handler'[h].work \in handler[h].todo
HandlersMove ==
  /\ DOMAIN handler' = Handlers
  /\ \A h \in Handlers : handler'[h] = handler[h] \/ HandlerMoves(h)

MessagesMove ==
  /\ changes' \in Seq([cap : Capabilities, reach : SUBSET Works])
  /\ inbox' \subseteq Nat \ {None}

Quiet ==
  /\ AgentsMove /\ HandlersMove /\ MessagesMove
  /\ UNCHANGED <<lock, others, outlasted, rebuilt>>

\* No step of a person, a message or a provisioning undoes that an agent ran,
\* nor ends one whose lock a handler holds.
LEMMA QuietKeeps == IInv /\ Quiet => IInv'
<1> SUFFICES ASSUME IInv, Quiet PROVE IInv'
  OBVIOUS
<1> USE DEF IInv, Quiet, AgentsMove, HandlersMove
<1>1. Shape'
  BY DEF Shape, MessagesMove, AgentMoves, HandlerMoves, ShapeOf
<1>2. \A w \in Works : Ran(w) => Ran(w)'
  BY DEF Ran, AgentMoves, NotYet, Alive
<1>3. WasRunning'
  <2> SUFFICES ASSUME NEW h \in Handlers, NEW w \in Works,
                      w \in handler'[h].todo \/ (handler'[h].pc \in HasAgent /\ handler'[h].work = w)
               PROVE  Ran(w)'
    BY DEF WasRunning, WasRunningFor
  <2>1. CASE handler'[h] = handler[h]
    BY <1>2, <2>1 DEF WasRunning, WasRunningFor
  <2>2. CASE HandlerMoves(h)
    <3>1. Ran(w)
      BY <2>2 DEF WasRunning, WasRunningFor, HandlerMoves, Running, Ran, Alive
    <3> QED BY <1>2, <3>1
  <2> QED BY <2>1, <2>2
<1>4. ASSUME NEW h \in Handlers, handler[h].pc \in {"revoke", "cleanup", "rebuild"},
             handler[h].work \notin outlasted
      PROVE  /\ handler[h].work \in Works
             /\ agent[handler[h].work].status \in Alive \union {"gone"}
  BY <1>4 DEF Shape, ShapeOf, WasRunning, WasRunningFor, Ran, LockIsHeld, LockIsHeldBy,
     EndedByIt, EndedBy, Gone, Is, At, HasAgent
<1>5. LockIsHeld'
  BY <1>4 DEF LockIsHeld, LockIsHeldBy, HandlerMoves, AgentMoves, Gone, Is, NotYet, Alive
<1>6. EndedByIt'
  BY <1>4 DEF EndedByIt, EndedBy, HandlerMoves, AgentMoves, At, Is, NotYet, Alive
<1>7. OthersHold'
  <2>1. \A w \in others : w \in Works
    BY DEF Shape
  <2> QED BY <1>2, <2>1 DEF OthersHold, AgentMoves, NotYet, Alive
<1> QED BY <1>1, <1>3, <1>5, <1>6, <1>7

-----------------------------------------------------------------------------
(* Which steps those are.                                                  *)

\* A decision stamped for a re-evaluation leaves every status as it is, and
\* one for a request starts only what was not there.
LEMMA StampMoves ==
  ASSUME Shape, NEW w \in Works, NEW change, Stamp(w, change),
         change = None => Is(w, "none")
  PROVE  AgentsMove
<1>1. PICK same \in SUBSET {v \in Works : Is(v, "starting") /\ agent[v].after = Len(decisions)} :
        agent' = [v \in Works |->
          IF v \in same THEN [agent[v] EXCEPT !.after = @ + 1]
          ELSE IF v = w /\ change = None
          THEN [agent[v] EXCEPT !.status = "deciding", !.decision = Len(decisions) + 1]
          ELSE agent[v]]
  BY DEF Stamp
<1>2. ASSUME NEW v \in Works PROVE AgentMoves(v)
  <2>1. CASE v \in same
    BY <1>1, <2>1 DEF AgentMoves, Shape, NoAgent
  <2>2. CASE v \notin same /\ v = w /\ change = None
    BY <1>1, <2>2 DEF AgentMoves, Shape, NoAgent, Is, NotYet
  <2>3. CASE v \notin same /\ ~ (v = w /\ change = None)
    BY <1>1, <2>3 DEF AgentMoves, Shape
  <2> QED BY <2>1, <2>2, <2>3
<1> QED BY <1>1, <1>2 DEF AgentsMove

\* What is left alone has moved.
LEMMA AtRestMoves ==
  ASSUME Shape
  PROVE  /\ UNCHANGED agent => AgentsMove
         /\ UNCHANGED handler => HandlersMove
         /\ UNCHANGED <<changes, inbox>> => MessagesMove
BY DEF Shape, AgentsMove, AgentMoves, HandlersMove, MessagesMove

\* From the request to the active agent, its failure there, and its end.
LEMMA WorkStepIsQuiet ==
  ASSUME Shape, NEW w \in Works, WorkStep(w) \/ Expiring(w) \/ Expires(w) \/ OtherRevokes(w)
  PROVE  Quiet
<1>1. UNCHANGED <<handler, changes, inbox, lock, others, outlasted, rebuilt>>
  BY DEF WorkStep, Decide, DecideLoads, DecideSaves, Provision, Resume, HaltAgain, Activate,
     ProvisioningEnds, Expiring, Expires, OtherRevokes, evaluating, cleanups
<1>2. AgentsMove
  <2>1. CASE Decide(w)
    BY <2>1, StampMoves DEF Decide
  <2>2. CASE DecideLoads(w) \/ Provision(w) \/ Resume(w)
    BY <2>2 DEF DecideLoads, Provision, Resume, AgentsMove, AgentMoves, Shape, NoAgent, Is, NotYet
  <2>3. CASE DecideSaves(w) \/ HaltAgain(w) \/ Activate(w) \/ ProvisioningEnds(w)
    BY <2>3 DEF DecideSaves, HaltAgain, Activate, ProvisioningEnds, Becomes,
       AgentsMove, AgentMoves, Shape, NoAgent, Is, NotYet
  <2>4. CASE Expiring(w) \/ Expires(w) \/ OtherRevokes(w)
    BY <2>4 DEF Expiring, Expires, OtherRevokes, Becomes,
       AgentsMove, AgentMoves, Shape, NoAgent, Is, Alive
  <2> QED BY <2>1, <2>2, <2>3, <2>4 DEF WorkStep
<1> QED BY <1>1, <1>2, AtRestMoves DEF Quiet

\* A change is written and announced, and its handling begins.
LEMMA ChangeIsQuiet ==
  ASSUME Shape,
         \/ \E cap \in Capabilities, grant \in BOOLEAN :
              PermSet(cap, grant) \/ \E h \in Handlers : HolderSet(h, cap, grant)
         \/ \E h \in Handlers, c \in inbox : Deliver(h, c)
  PROVE  Quiet
<1>1. ASSUME NEW cap \in Capabilities, NEW grant \in BOOLEAN, Changed(cap, grant)
      PROVE  /\ changes' \in Seq([cap : Capabilities, reach : SUBSET Works])
             /\ Len(changes) + 1 \in Nat \ {None}
  <2> DEFINE reach == IF grant THEN {} ELSE {w \in Running : cap \in agent[w].caps}
  <2>1. [cap |-> cap, reach |-> reach] \in [cap : Capabilities, reach : SUBSET Works]
    BY DEF Running
  <2>2. changes' = Append(changes, [cap |-> cap, reach |-> reach])
    BY <1>1 DEF Changed
  <2> QED BY <2>1, <2>2 DEF Shape, None
<1>2. ASSUME NEW h \in Handlers, NEW c \in Nat \ {None}, NEW pushed, Starts(h, c, pushed)
      PROVE  HandlersMove
  <2> DEFINE new == [Idle EXCEPT !.pc = "claim", !.change = c, !.pushed = pushed]
  <2>1. /\ DOMAIN new = DOMAIN Idle /\ new.todo = {} /\ new.pc = "claim" /\ new.change = c
    BY DEF Idle
  <2>2. handler' = [handler EXCEPT ![h] = new]
    BY <1>2 DEF Starts
  <2> HIDE DEF new
  <2>3. HandlerMoves(h)
    BY <2>1, <2>2 DEF Shape, HandlerMoves, ShapeOf, HasAgent
  <2> QED BY <2>2, <2>3 DEF Shape, HandlersMove
<1>3. ASSUME NEW cap \in Capabilities, NEW grant \in BOOLEAN, PermSet(cap, grant) PROVE Quiet
  <2>1. UNCHANGED <<agent, handler, lock, others, outlasted, rebuilt>>
    BY <1>3 DEF PermSet, evaluating, cleanups
  <2>2. MessagesMove
    BY <1>1, <1>3 DEF PermSet, MessagesMove, Shape
  <2> QED BY <2>1, <2>2, AtRestMoves DEF Quiet
<1>4. ASSUME NEW cap \in Capabilities, NEW grant \in BOOLEAN, NEW h \in Handlers,
             HolderSet(h, cap, grant)
      PROVE  Quiet
  <2>1. UNCHANGED <<agent, inbox, lock, others, outlasted, rebuilt>>
    BY <1>4 DEF HolderSet, cleanups
  <2>2. MessagesMove
    BY <1>1, <1>4, <2>1 DEF HolderSet, MessagesMove, Shape
  <2>3. HandlersMove
    BY <1>1, <1>2, <1>4 DEF HolderSet
  <2> QED BY <2>1, <2>2, <2>3, AtRestMoves DEF Quiet
<1>5. ASSUME NEW h \in Handlers, NEW c \in inbox, Deliver(h, c) PROVE Quiet
  <2>1. UNCHANGED <<agent, changes, inbox, lock, others, outlasted, rebuilt>>
    BY <1>5 DEF Deliver, cleanups
  <2>2. HandlersMove
    BY <1>2, <1>5 DEF Deliver, Shape
  <2> QED BY <2>1, <2>2, AtRestMoves DEF Quiet
<1> QED BY <1>3, <1>4, <1>5

\* The Authorization Platform re-evaluates, or fails in it; the Lifecycle
\* Manager gives the rebuilding up.
LEMMA ReevaluationIsQuiet ==
  ASSUME Shape, NEW h \in Handlers,
         Reevaluates(h) \/ RebuildAborts(h) \/ AgentFails(h) \/ HandlerDies(h)
  PROVE  Quiet
<1>1. UNCHANGED <<changes, lock, others, outlasted, rebuilt>> /\ inbox' \subseteq inbox
  BY DEF Reevaluates, Claim, ListAgents, ListDecisions, Examine, LoadPolicyInputs,
     SaveDecision, Finish, Answers, RebuildAborts, AgentFails, HandlerDies, cleanups
<1>2. MessagesMove
  BY <1>1 DEF Shape, MessagesMove
<1>3. AgentsMove
  <2>1. CASE \E w \in Works : Examine(h, w)
    <3>1. PICK w \in Works : Examine(h, w)
      BY <2>1
    <3>2. UNCHANGED agent \/ Stamp(w, handler[h].change)
      BY <3>1 DEF Examine
    <3>3. handler[h].change # None
      BY <3>1 DEF Examine, At, Shape, ShapeOf
    <3> QED BY <3>2, <3>3, StampMoves, AtRestMoves
  <2>2. CASE ~ \E w \in Works : Examine(h, w)
    <3>1. UNCHANGED agent
      BY <2>2 DEF Reevaluates, Claim, ListAgents, ListDecisions, LoadPolicyInputs,
         SaveDecision, Finish, RebuildAborts, AgentFails, HandlerDies
    <3> QED BY <3>1, AtRestMoves
  <2> QED BY <2>1, <2>2
<1>4. HandlersMove
  <2>1. CASE Claim(h) \/ Finish(h) \/ HandlerDies(h)
    BY <2>1 DEF Claim, Finish, HandlerDies, Answers, Goto, At, Idle,
       HandlersMove, HandlerMoves, Shape, ShapeOf, HasAgent
  <2>2. CASE ListAgents(h) \/ ListDecisions(h)
    BY <2>2 DEF ListAgents, ListDecisions, Running, At, Idle,
       HandlersMove, HandlerMoves, Shape, ShapeOf, HasAgent
  <2>3. ASSUME NEW w \in Works, Examine(h, w) PROVE HandlersMove
    BY <2>3 DEF Examine, At, Idle, HandlersMove, HandlerMoves, Shape, ShapeOf, HasAgent
  <2>4. CASE LoadPolicyInputs(h) \/ SaveDecision(h)
    BY <2>4 DEF LoadPolicyInputs, SaveDecision, At, Idle,
       HandlersMove, HandlerMoves, Shape, ShapeOf, HasAgent
  <2>5. CASE RebuildAborts(h)
    BY <2>5 DEF RebuildAborts, Goto, At, Idle,
       HandlersMove, HandlerMoves, Shape, ShapeOf, HasAgent
  <2>6. CASE AgentFails(h)
    <3>1. handler' = [handler EXCEPT ![h].pc = "next", ![h].failed = TRUE]
      BY <2>6 DEF AgentFails
    <3>2. /\ handler'[h].todo = handler[h].todo /\ handler'[h].pc = "next"
          /\ handler'[h].change = handler[h].change /\ DOMAIN handler'[h] = DOMAIN Idle
          /\ handler[h].pc # "idle" /\ ShapeOf(h)
      BY <2>6, <3>1 DEF AgentFails, Idle, Shape, ShapeOf
    <3>3. HandlerMoves(h)
      BY <3>2 DEF HandlerMoves, ShapeOf, HasAgent
    <3> QED BY <3>1, <3>3 DEF HandlersMove, Shape
  <2> QED BY <2>1, <2>2, <2>3, <2>4, <2>5, <2>6 DEF Reevaluates
<1> QED BY <1>1, <1>2, <1>3, <1>4 DEF Quiet

-----------------------------------------------------------------------------
(* The steps that take the lock, hold it, give it up or come after it.     *)

\* The rest of a step of handler h at pc, on the lock and the agent of its
\* work, that leaves lists and messages alone.
GoesOn(h, pc) ==
  /\ UNCHANGED <<changes, inbox, others, outlasted>>
  /\ DOMAIN handler' = Handlers
  /\ \A k \in Handlers \ {h} : handler'[k] = handler[k]
  /\ DOMAIN handler'[h] = DOMAIN Idle
  /\ handler'[h].todo = handler[h].todo /\ handler'[h].work = handler[h].work
  /\ handler'[h].change = handler[h].change
  /\ handler'[h].pc = pc

LEMMA GotoGoesOn ==
  ASSUME Shape, NEW h \in Handlers, NEW pc, Goto(h, pc), UNCHANGED <<changes, inbox, cleanups>>
  PROVE  GoesOn(h, pc)
BY DEF Shape, ShapeOf, Goto, GoesOn, Idle, cleanups

\* So does failing over it.
LEMMA FailedGoesOn ==
  ASSUME Shape, NEW h \in Handlers, NEW failed, UNCHANGED <<changes, inbox, cleanups>>,
         handler' = [handler EXCEPT ![h].pc = "next", ![h].failed = failed]
  PROVE  GoesOn(h, "next")
BY DEF Shape, ShapeOf, GoesOn, Idle, cleanups

\* Going on keeps the shape and the lists, as long as what ran has run.
LEMMA GoesOnKeeps ==
  ASSUME IInv, NEW h \in Handlers, handler[h].pc \in HasAgent,
         NEW pc \in HasAgent \union {"next"}, GoesOn(h, pc),
         DOMAIN agent' = Works, \A w \in Works : DOMAIN agent'[w] = DOMAIN NoAgent,
         DOMAIN lock' = Works, rebuilt' \in [Works -> Nat],
         \A w \in Works : Ran(w) => Ran(w)'
  PROVE  Shape' /\ WasRunning'
<1>1. Shape'
  BY DEF IInv, Shape, ShapeOf, GoesOn, HasAgent
<1>2. WasRunning'
  BY DEF IInv, WasRunning, WasRunningFor, GoesOn, HasAgent
<1> QED BY <1>1, <1>2

\* Where a handler with the record in hand stands.
LEMMA AtWork ==
  ASSUME IInv, NEW h \in Handlers, handler[h].pc \in HasAgent
  PROVE  handler[h].work \in Works /\ Ran(handler[h].work)
BY DEF IInv, Shape, ShapeOf, WasRunning, WasRunningFor

\* A handler that leaves the agent to others leaves it as it is.
LEMMA LeavesKeeps ==
  ASSUME IInv, NEW h \in Handlers, handler[h].pc \in HasAgent, GoesOn(h, "next"),
         UNCHANGED <<agent, lock, rebuilt>>
  PROVE  IInv'
<1>1. Shape' /\ WasRunning'
  BY GoesOnKeeps DEF IInv, Shape, Ran
<1>2. LockIsHeld'
  BY DEF IInv, LockIsHeld, LockIsHeldBy, Gone, Is, GoesOn
<1>3. OthersHold'
  BY DEF IInv, OthersHold, Ran, GoesOn
<1>4. EndedByIt'
  BY DEF IInv, EndedByIt, EndedBy, At, Is, GoesOn
<1> QED BY <1>1, <1>2, <1>3, <1>4 DEF IInv

LEMMA LockAgentKeeps == ASSUME IInv, NEW h \in Handlers, LockAgent(h) PROVE IInv'
<1> DEFINE w == handler[h].work
<1>1. handler[h].pc = "ask" /\ w \in Works /\ UNCHANGED <<agent, rebuilt, changes, inbox, cleanups>>
  BY AtWork DEF LockAgent, At, HasAgent
<1>2. CASE ~ Gone(w) /\ lock[w] = "free"
  <2>1. lock' = [lock EXCEPT ![w] = h] /\ GoesOn(h, "revoke")
    BY <1>1, <1>2, GotoGoesOn DEF LockAgent, IInv
  <2>2. Shape' /\ WasRunning'
    BY <1>1, <2>1, GoesOnKeeps DEF HasAgent, IInv, Shape, Ran
  <2>3. LockIsHeld'
    BY <1>1, <1>2, <2>1, ConstantsAssumption
       DEF IInv, Shape, LockIsHeld, LockIsHeldBy, Gone, Is, GoesOn
  <2>4. OthersHold'
    BY <1>1, <1>2, <2>1 DEF IInv, Shape, OthersHold, Ran, GoesOn
  <2>5. EndedByIt'
    BY <1>1, <2>1 DEF IInv, EndedByIt, EndedBy, At, Is, GoesOn
  <2> QED BY <2>2, <2>3, <2>4, <2>5 DEF IInv
<1>3. CASE ~ (~ Gone(w) /\ lock[w] = "free")
  <2>1. PICK failed : UNCHANGED lock /\
          handler' = [handler EXCEPT ![h].pc = "next", ![h].failed = failed]
    BY <1>1, <1>3 DEF LockAgent
  <2>2. GoesOn(h, "next")
    BY <1>1, <2>1, FailedGoesOn DEF IInv
  <2> QED BY <1>1, <2>1, <2>2, LeavesKeeps DEF HasAgent
<1> QED BY <1>2, <1>3

LEMMA RevokeKeeps == ASSUME IInv, NEW h \in Handlers, Revoke(h) PROVE IInv'
<1> DEFINE w == handler[h].work
<1>1. /\ handler[h].pc = "revoke" /\ w \in Works
      /\ UNCHANGED <<lock, rebuilt, changes, inbox, cleanups>>
  BY AtWork DEF Revoke, At, HasAgent, IInv
<1>2. CASE Gone(w)
  <2>1. handler' = [handler EXCEPT ![h].pc = "next", ![h].failed = TRUE] /\ UNCHANGED agent
    BY <1>2 DEF Revoke
  <2>2. GoesOn(h, "next")
    BY <1>1, <2>1, FailedGoesOn DEF IInv
  <2> QED BY <1>1, <2>1, <2>2, LeavesKeeps DEF HasAgent
<1>3. CASE ~ Gone(w)
  <2>1. GoesOn(h, "cleanup")
    BY <1>1, <1>3, GotoGoesOn DEF Revoke, IInv
  <2>2. /\ DOMAIN agent' = Works
        /\ \A v \in Works :
             /\ DOMAIN agent'[v] = DOMAIN NoAgent
             /\ \/ agent'[v].status = agent[v].status
                \/ agent[v].status \in Alive /\ agent'[v].status \in Alive
    BY <1>3 DEF Revoke, Becomes, Is, Alive, IInv, Shape, NoAgent
  <2>3. Shape' /\ WasRunning'
    BY <1>1, <2>1, <2>2, GoesOnKeeps DEF HasAgent, IInv, Shape, Ran, Alive
  <2>4. LockIsHeld'
    BY <1>1, <2>1, <2>2, AtWork DEF IInv, LockIsHeld, LockIsHeldBy, Gone, Is, Alive, GoesOn, HasAgent
  <2>5. OthersHold'
    BY <1>1, <2>1, <2>2 DEF IInv, Shape, OthersHold, Ran, Alive, GoesOn
  <2>6. EndedByIt'
    BY <1>1, <2>1, <2>2, AtWork DEF IInv, EndedByIt, EndedBy, At, Is, Alive, GoesOn, HasAgent
  <2> QED BY <2>3, <2>4, <2>5, <2>6 DEF IInv
<1> QED BY <1>2, <1>3

\* Whoever deletes the record had it to itself, unless the lock was outlasted:
\* no other request is between the deletion and the replacement, and none holds
\* the lock.
LEMMA CleanupEndsKeeps ==
  ASSUME IInv, NEW h \in Handlers, NEW complete \in BOOLEAN, CleanupEnds(h, complete)
  PROVE  IInv'
<1> DEFINE w == handler[h].work
<1>1. /\ handler[h].pc = "cleanup" /\ w \in Works /\ Ran(w) /\ UNCHANGED rebuilt
      /\ lock' = [lock EXCEPT ![w] = "free"] /\ rebuilt[w] \in Nat
      /\ w \notin outlasted => lock[w] = h /\ ~ Gone(w) /\ w \notin others
  <2>1. handler[h].pc = "cleanup" /\ w \in Works /\ Ran(w)
    BY AtWork DEF CleanupEnds, At, HasAgent
  <2>2. w \notin outlasted => lock[w] = h /\ ~ Gone(w) /\ w \notin others
    BY <2>1, ConstantsAssumption DEF IInv, LockIsHeld, LockIsHeldBy, OthersHold
  <2> QED BY <2>1, <2>2 DEF CleanupEnds, IInv, Shape
<1>2. GoesOn(h, IF complete THEN "rebuild" ELSE "next")
  BY GotoGoesOn DEF CleanupEnds, IInv
<1>3. /\ DOMAIN agent' = Works /\ \A v \in Works : DOMAIN agent'[v] = DOMAIN NoAgent
      /\ \A v \in Works \ {w} : agent'[v] = agent[v]
      /\ IF complete /\ ~ Gone(w) THEN agent'[w].status = "gone" ELSE agent'[w] = agent[w]
  BY <1>1 DEF CleanupEnds, Becomes, IInv, Shape, NoAgent
<1>4. \A v \in Works : Ran(v) => Ran(v)'
  BY <1>1, <1>3 DEF Ran, Gone, Is
<1>5. Shape' /\ WasRunning'
  BY <1>1, <1>2, <1>3, <1>4, GoesOnKeeps DEF HasAgent, IInv, Shape
<1>6. \A k \in Handlers \ {h} :
        handler[k].work = w /\ w \notin outlasted
          => handler[k].pc \notin {"revoke", "cleanup", "rebuild"}
  BY <1>1 DEF IInv, LockIsHeld, LockIsHeldBy, EndedByIt, EndedBy, Gone, At
<1>7. LockIsHeld'
  BY <1>1, <1>2, <1>3, <1>6, AtWork
     DEF IInv, Shape, LockIsHeld, LockIsHeldBy, Gone, Is, GoesOn, HasAgent
<1>8. OthersHold'
  BY <1>1, <1>2, <1>3, <1>4 DEF IInv, Shape, OthersHold, GoesOn
<1>9. EndedByIt'
  BY <1>1, <1>2, <1>3, <1>6, AtWork DEF IInv, EndedByIt, EndedBy, Gone, At, Is, GoesOn, HasAgent
<1> QED BY <1>5, <1>7, <1>8, <1>9 DEF IInv

\* The replacement takes the place of an agent that is gone.
LEMMA RebuildKeeps == ASSUME IInv, NEW h \in Handlers, Rebuild(h) PROVE IInv'
<1> DEFINE w == handler[h].work
<1>1. /\ handler[h].pc = "rebuild" /\ w \in Works /\ Ran(w) /\ UNCHANGED lock
      /\ rebuilt \in [Works -> Nat]
      /\ w \notin outlasted => rebuilt[w] = 0 /\ Is(w, "gone") /\ w \notin others
  <2>1. handler[h].pc = "rebuild" /\ w \in Works /\ Ran(w)
    BY AtWork DEF Rebuild, At, HasAgent
  <2>2. w \notin outlasted => rebuilt[w] = 0 /\ Is(w, "gone") /\ w \notin others
    BY <2>1 DEF IInv, EndedByIt, EndedBy, OthersHold, At, Is, Alive
  <2> QED BY <2>1, <2>2 DEF Rebuild, IInv, Shape
<1>2. GoesOn(h, "next")
  BY GotoGoesOn DEF Rebuild, IInv
<1>3. /\ DOMAIN agent' = Works /\ \A v \in Works : DOMAIN agent'[v] = DOMAIN NoAgent
      /\ rebuilt' \in [Works -> Nat]
      /\ \A v \in Works \ {w} : agent'[v] = agent[v] /\ rebuilt'[v] = rebuilt[v]
      /\ \/ agent'[w] = agent[w] /\ rebuilt'[w] = rebuilt[w]
         \/ rebuilt'[w] > 0
  <2> DEFINE new == [NoAgent EXCEPT !.status = "waiting", !.caps = handler[h].caps,
                                    !.decision = handler[h].mine]
  <2>1. DOMAIN new = DOMAIN NoAgent
    BY DEF NoAgent
  <2>2. \/ UNCHANGED <<agent, rebuilt>>
        \/ agent' = [agent EXCEPT ![w] = new] /\ rebuilt' = [rebuilt EXCEPT ![w] = @ + 1]
    BY DEF Rebuild, ReprovisionRoute
  <2> HIDE DEF new, w
  <2>3. CASE UNCHANGED <<agent, rebuilt>>
    BY <1>1, <2>3 DEF IInv, Shape
  <2>4. CASE agent' = [agent EXCEPT ![w] = new] /\ rebuilt' = [rebuilt EXCEPT ![w] = @ + 1]
    BY <1>1, <2>1, <2>4 DEF IInv, Shape
  <2> QED BY <2>2, <2>3, <2>4
<1>4. \A v \in Works : Ran(v) => Ran(v)'
  BY <1>1, <1>3 DEF Ran
<1>5. Shape' /\ WasRunning'
  BY <1>1, <1>2, <1>3, <1>4, GoesOnKeeps DEF HasAgent, IInv, Shape
<1>6. \A k \in Handlers \ {h} :
        handler[k].work = w /\ w \notin outlasted
          => handler[k].pc \notin {"revoke", "cleanup", "rebuild"}
  BY <1>1 DEF IInv, LockIsHeld, LockIsHeldBy, EndedByIt, Gone, At
<1>7. LockIsHeld'
  BY <1>1, <1>2, <1>3, <1>6, AtWork DEF IInv, LockIsHeld, LockIsHeldBy, Gone, Is, GoesOn, HasAgent
<1>8. OthersHold'
  BY <1>1, <1>2, <1>3, <1>4 DEF IInv, Shape, OthersHold, GoesOn
<1>9. EndedByIt'
  BY <1>1, <1>2, <1>3, <1>6, AtWork DEF IInv, EndedByIt, EndedBy, At, Is, GoesOn, HasAgent
<1> QED BY <1>5, <1>7, <1>8, <1>9 DEF IInv

LEMMA LifecycleDiesKeeps == ASSUME IInv, NEW h \in Handlers, LifecycleDies(h) PROVE IInv'
<1> DEFINE w == handler[h].work
<1>1. /\ handler[h].pc \in {"revoke", "cleanup", "rebuild"} /\ w \in Works
      /\ UNCHANGED <<agent, rebuilt>> /\ GoesOn(h, "next")
      /\ lock' = [lock EXCEPT ![w] = IF @ = h THEN "stale" ELSE @]
  <2>1. /\ handler[h].pc \in {"revoke", "cleanup", "rebuild"}
        /\ UNCHANGED <<agent, rebuilt, changes, inbox, cleanups>>
        /\ lock' = [lock EXCEPT ![w] = IF @ = h THEN "stale" ELSE @]
        /\ handler' = [handler EXCEPT ![h].pc = "next", ![h].failed = TRUE]
    BY DEF LifecycleDies
  <2>2. GoesOn(h, "next")
    BY <2>1, FailedGoesOn DEF IInv
  <2> QED BY <2>1, <2>2, AtWork DEF HasAgent
<1>2. Shape' /\ WasRunning'
  BY <1>1, GoesOnKeeps DEF HasAgent, IInv, Shape, Ran
<1>3. LockIsHeld'
  BY <1>1, AtWork DEF IInv, Shape, LockIsHeld, LockIsHeldBy, Gone, Is, GoesOn, HasAgent
<1>4. OthersHold'
  BY <1>1, ConstantsAssumption DEF IInv, Shape, OthersHold, Ran, GoesOn
<1>5. EndedByIt'
  BY <1>1 DEF IInv, EndedByIt, EndedBy, At, Is, GoesOn
<1> QED BY <1>2, <1>3, <1>4, <1>5 DEF IInv

\* A lock that is five minutes old is taken from whoever has it, and from then
\* on nothing is said of that agent unless its holder is dead.
LEMMA LockExpiresKeeps == ASSUME IInv, NEW w \in Works, LockExpires(w) PROVE IInv'
<1>1. /\ UNCHANGED <<handler, agent, rebuilt, changes, inbox, others>>
      /\ lock' = [lock EXCEPT ![w] = "free"] /\ outlasted \subseteq outlasted'
      /\ lock[w] = "stale" \/ w \in outlasted'
  BY DEF LockExpires, evaluating
<1>2. Shape' /\ WasRunning'
  BY <1>1 DEF IInv, Shape, ShapeOf, WasRunning, WasRunningFor, Ran
<1>3. LockIsHeld'
  BY <1>1, AtWork, ConstantsAssumption
     DEF IInv, Shape, LockIsHeld, LockIsHeldBy, Gone, Is, HasAgent
<1>4. OthersHold'
  BY <1>1 DEF IInv, Shape, OthersHold, Ran
<1>5. EndedByIt'
  BY <1>1 DEF IInv, EndedByIt, EndedBy, At, Is
<1> QED BY <1>2, <1>3, <1>4, <1>5 DEF IInv

LEMMA OtherLocksKeeps == ASSUME IInv, NEW w \in Works, OtherLocks(w) PROVE IInv'
<1>1. /\ UNCHANGED <<handler, agent, rebuilt, changes, inbox, outlasted>>
      /\ lock[w] = "free" /\ lock' = [lock EXCEPT ![w] = "other"]
      /\ others' = others \union {w} /\ agent[w].status \in Alive
  BY DEF OtherLocks, evaluating, Alive
<1>2. Shape' /\ WasRunning'
  BY <1>1 DEF IInv, Shape, ShapeOf, WasRunning, WasRunningFor, Ran
<1>3. LockIsHeld'
  BY <1>1, AtWork, ConstantsAssumption
     DEF IInv, Shape, LockIsHeld, LockIsHeldBy, Gone, Is, HasAgent
<1>4. OthersHold'
  <2>1. Ran(w)
    BY <1>1 DEF Ran
  <2> QED BY <1>1, <2>1 DEF IInv, Shape, OthersHold, Ran
<1>5. EndedByIt'
  BY <1>1 DEF IInv, EndedByIt, EndedBy, At, Is
<1> QED BY <1>2, <1>3, <1>4, <1>5 DEF IInv

\* Another cleanup ends what ran, and gives up its lock or whose it is by then.
LEMMA OtherEndsKeeps ==
  ASSUME IInv, NEW w \in Works, NEW complete \in BOOLEAN, OtherEnds(w, complete) PROVE IInv'
<1>1. /\ UNCHANGED <<handler, rebuilt, changes, inbox, outlasted>>
      /\ w \in others /\ others' = others \ {w} /\ lock' = [lock EXCEPT ![w] = "free"]
      /\ Ran(w) /\ (w \notin outlasted => lock[w] = "other" /\ agent[w].status \in Alive)
  BY DEF OtherEnds, evaluating, IInv, OthersHold
<1>2. /\ DOMAIN agent' = Works
      /\ \A v \in Works : DOMAIN agent'[v] = DOMAIN NoAgent
      /\ \A v \in Works \ {w} : agent'[v] = agent[v]
      /\ \/ agent'[w] = agent[w]
         \/ agent'[w].status = "gone"
  BY DEF OtherEnds, Becomes, IInv, Shape, NoAgent
<1>3. Shape'
  BY <1>1, <1>2 DEF IInv, Shape, ShapeOf
<1>4. \A v \in Works : Ran(v) => Ran(v)'
  BY <1>1, <1>2 DEF Ran
<1>5. WasRunning'
  BY <1>1, <1>4 DEF IInv, WasRunning, WasRunningFor
<1>6. LockIsHeld'
  <2>1. ASSUME NEW h \in Handlers, handler[h].pc \in {"revoke", "cleanup"},
               handler[h].work \notin outlasted
        PROVE  /\ handler[h].work \in Works \ {w} /\ lock[handler[h].work] = h
               /\ ~ Gone(handler[h].work)
    BY <1>1, <2>1, AtWork, ConstantsAssumption DEF IInv, LockIsHeld, LockIsHeldBy, HasAgent
  <2> QED BY <1>1, <1>2, <2>1 DEF IInv, Shape, LockIsHeld, LockIsHeldBy, Gone, Is
<1>7. OthersHold'
  BY <1>1, <1>2, <1>4 DEF IInv, Shape, OthersHold
<1>8. EndedByIt'
  BY <1>1, <1>2, AtWork DEF IInv, EndedByIt, EndedBy, At, Is, HasAgent, Alive
<1> QED BY <1>3, <1>5, <1>6, <1>7, <1>8 DEF IInv

-----------------------------------------------------------------------------
LEMMA InitHasIt == Init => IInv
<1> SUFFICES ASSUME Init PROVE IInv
  OBVIOUS
<1> USE DEF Init
<1>1. Shape
  BY DEF Shape, ShapeOf, Idle, HasAgent, NoAgent
<1>2. WasRunning /\ LockIsHeld /\ OthersHold /\ EndedByIt
  BY DEF WasRunning, WasRunningFor, LockIsHeld, LockIsHeldBy, OthersHold, EndedByIt, EndedBy,
     At, Idle, HasAgent
<1> QED BY <1>1, <1>2 DEF IInv

LEMMA NextKeepsIt == IInv /\ [Next]_vars => IInv'
<1> SUFFICES ASSUME IInv, [Next]_vars PROVE IInv'
  OBVIOUS
<1>1. ASSUME NEW w \in Works, WorkStep(w) \/ LockExpires(w) \/ StopStep(w) PROVE IInv'
  BY <1>1, WorkStepIsQuiet, QuietKeeps, LockExpiresKeeps, OtherLocksKeeps, OtherEndsKeeps
     DEF StopStep, OtherCleanup, IInv
<1>2. CASE \/ \E cap \in Capabilities, grant \in BOOLEAN :
                PermSet(cap, grant) \/ \E h \in Handlers : HolderSet(h, cap, grant)
           \/ \E h \in Handlers, c \in inbox : Deliver(h, c)
  BY <1>2, ChangeIsQuiet, QuietKeeps DEF IInv
<1>3. ASSUME NEW h \in Handlers, Reevaluates(h) \/ Reprovisions(h) \/ GoesWrong(h) PROVE IInv'
  BY <1>3, ReevaluationIsQuiet, QuietKeeps, LockAgentKeeps, RevokeKeeps, CleanupEndsKeeps,
     RebuildKeeps, LifecycleDiesKeeps DEF Reprovisions, GoesWrong, IInv
<1>4. CASE UNCHANGED vars
  <2>1. Quiet
    BY <1>4, AtRestMoves DEF vars, evaluating, cleanups, Quiet, IInv
  <2> QED BY <2>1, QuietKeeps
<1> QED BY <1>1, <1>2, <1>3, <1>4 DEF Next

\* Only Rebuild begins a replacement.
LEMMA OnlyRebuildRebuilds ==
  ASSUME IInv, [Next]_vars, NEW w \in Works, rebuilt'[w] # rebuilt[w], w \notin outlasted
  PROVE  Is(w, "gone") /\ rebuilt[w] = 0
<1>1. PICK h \in Handlers : Rebuild(h)
  <2>1. ASSUME NEW v \in Works, WorkStep(v) \/ LockExpires(v) \/ StopStep(v)
        PROVE  UNCHANGED rebuilt
    BY <2>1, WorkStepIsQuiet DEF StopStep, OtherCleanup, LockExpires, OtherLocks, OtherEnds,
       Quiet, IInv
  <2>2. CASE \/ \E cap \in Capabilities, grant \in BOOLEAN :
                  PermSet(cap, grant) \/ \E h \in Handlers : HolderSet(h, cap, grant)
             \/ \E h \in Handlers, c \in inbox : Deliver(h, c)
    BY <2>2, ChangeIsQuiet DEF Quiet, IInv
  <2>3. ASSUME NEW h \in Handlers, Reevaluates(h) \/ Reprovisions(h) \/ GoesWrong(h)
        PROVE  UNCHANGED rebuilt \/ Rebuild(h)
    BY <2>3, ReevaluationIsQuiet DEF Reprovisions, GoesWrong, LockAgent, Revoke, CleanupEnds,
       LifecycleDies, Quiet, IInv
  <2> QED BY <2>1, <2>2, <2>3 DEF Next, vars
<1>2. w = handler[h].work
  BY <1>1 DEF Rebuild, ReprovisionRoute, IInv, Shape
<1> QED BY <1>1, <1>2 DEF Rebuild, At, IInv, EndedByIt, EndedBy

\* However many changes reach an agent at once, whichever request or process
\* dies halfway, a second replacement is not begun, nor one beside the agent
\* it replaces (lifecycle-manager/src/reprovision.ts:53-57), as long as no
\* cleanup of the agent outlasts the five minutes of its lock
\* (lifecycle-manager/src/cleanup/index.ts:122).
THEOREM OneReplacement == Spec => OneAgentAtATime
<1>1. IInv /\ [Next]_vars =>
        [\A w \in Works :
           rebuilt'[w] # rebuilt[w] /\ w \notin outlasted => Is(w, "gone") /\ rebuilt[w] = 0]_vars
  BY OnlyRebuildRebuilds
<1> QED BY <1>1, InitHasIt, NextKeepsIt, PTL DEF Spec, OneAgentAtATime

-----------------------------------------------------------------------------
(* What a handler re-evaluates is the agent's own decision.                *)

Decision == [work : Works, change : Nat, caps : SUBSET Capabilities, saved : BOOLEAN]
Evaluating == {"load", "save", "ask"}

\* The decision of an agent that was not replaced: the first for its work, and
\* the only one until it runs; what is decided on it then is later than it.
OwnDecision(w) ==
  LET d == agent[w].decision IN
  ~ Gone(w) =>
    /\ Is(w, "none") => \A i \in DOMAIN decisions : decisions[i].work # w
    /\ ~ Is(w, "none") =>
         /\ d \in DOMAIN decisions /\ decisions[d].work = w /\ decisions[d].change = None
         /\ agent[w].status \in NotYet =>
              \A i \in DOMAIN decisions : decisions[i].work = w => i = d
    /\ agent[w].status \notin {"none", "deciding", "loaded"} =>
         decisions[d].saved /\ decisions[d].caps = agent[w].caps
    /\ agent[w].status \in {"starting"} \union Alive =>
         /\ agent[w].after \in d .. Len(decisions)
         /\ \A i \in DOMAIN decisions : decisions[i].work = w => i = d \/ i > agent[w].after

\* What a handler has listed, and what it has taken from it.
Listed(h) ==
  /\ handler[h].pc \in {"idle", "claim", "agents"} => handler[h].todo = {}
  /\ handler[h].pc # "decisions" =>
       \A w \in handler[h].todo : ~ Gone(w) => agent[w].decision \in handler[h].known
  /\ handler[h].known \subseteq DOMAIN decisions
  /\ handler[h].caps \subseteq Capabilities
Judged(h) ==
  handler[h].pc \in Evaluating =>
    /\ handler[h].mine \in DOMAIN decisions /\ decisions[handler[h].mine].change # None
    /\ LET w == handler[h].work IN
       ~ Gone(w) /\ OwnDecisionBehind(w) =>
         /\ handler[h].previous = agent[w].decision
         /\ At(h, "ask") => handler[h].caps \subseteq agent[w].caps /\ handler[h].caps # agent[w].caps

\* A replacement waits for a consent it does not ask for.
NeverResumed(w) == rebuilt[w] > 0 => agent[w].status \in {"waiting", "gone"} /\ ~ agent[w].url

AgentsJudged ==
  /\ held \subseteq Capabilities
  /\ decisions \in Seq(Decision)
  /\ \A w \in Works : agent[w].caps \subseteq Capabilities
  /\ \A w \in Works : OwnDecision(w) /\ NeverResumed(w)
HandlerJudged(h) == handler[h].change \in Nat /\ Listed(h) /\ Judged(h)
Judging == AgentsJudged /\ \A h \in Handlers : HandlerJudged(h)

\* A decision keeps its work and its kind, and an agent that ran its decision,
\* until it is gone; no agent runs a second time.
Forward ==
  /\ DOMAIN decisions \subseteq DOMAIN decisions'
  /\ \A i \in DOMAIN decisions :
       decisions'[i].work = decisions[i].work /\ decisions'[i].change = decisions[i].change
  /\ \A w \in Works : Ran(w) /\ ~ Gone(w)' =>
       /\ ~ Gone(w)
       /\ agent'[w].decision = agent[w].decision /\ agent'[w].caps = agent[w].caps
       /\ agent'[w].after = agent[w].after
  /\ \A w \in Works : Ran(w) => Ran(w)' /\ (Is(w, "ACTIVE")' => Is(w, "ACTIVE"))

LEMMA OwnDecisionStaysBehind ==
  ASSUME Forward, NEW w \in Works, Ran(w), ~ Gone(w)', OwnDecisionBehind(w)'
  PROVE  OwnDecisionBehind(w)
BY DEF Forward, OwnDecisionBehind

\* A handler at rest judges as before.
LEMMA HandlerStays ==
  ASSUME IInv, Forward, NEW h \in Handlers, HandlerJudged(h), handler'[h] = handler[h]
  PROVE  HandlerJudged(h)'
<1>1. \A w \in Works :
        w \in handler[h].todo \/ (handler[h].pc \in HasAgent /\ handler[h].work = w) => Ran(w)
  BY DEF IInv, WasRunning, WasRunningFor
<1>2. handler[h].todo \subseteq Works /\ (handler[h].pc \in HasAgent => handler[h].work \in Works)
  BY DEF IInv, Shape, ShapeOf
<1>3. Listed(h)'
  BY <1>1, <1>2 DEF HandlerJudged, Listed, Forward
<1>4. Judged(h)'
  <2> SUFFICES ASSUME handler[h].pc \in Evaluating
               PROVE  Judged(h)'
    BY DEF Judged
  <2>1. handler[h].work \in Works /\ Ran(handler[h].work)
    BY <1>1, <1>2 DEF Evaluating, HasAgent
  <2>2. ~ Gone(handler[h].work)' /\ OwnDecisionBehind(handler[h].work)'
          => ~ Gone(handler[h].work) /\ OwnDecisionBehind(handler[h].work)
    BY <2>1, OwnDecisionStaysBehind DEF Forward
  <2>3. handler'[h].mine \in DOMAIN decisions' /\ decisions'[handler'[h].mine].change # None
    BY DEF HandlerJudged, Judged, Forward
  <2>4. ASSUME ~ Gone(handler[h].work)', OwnDecisionBehind(handler[h].work)'
        PROVE  /\ handler'[h].previous = agent'[handler[h].work].decision
               /\ handler[h].pc = "ask" =>
                    /\ handler'[h].caps \subseteq agent'[handler[h].work].caps
                    /\ handler'[h].caps # agent'[handler[h].work].caps
    BY <2>1, <2>2, <2>4 DEF HandlerJudged, Judged, Forward, At
  <2> QED
    BY <2>3, <2>4 DEF Judged, At, Gone, Is, OwnDecisionBehind
<1> QED
  BY <1>3, <1>4 DEF HandlerJudged

-----------------------------------------------------------------------------
(* What happens to agents and decisions.                                   *)

\* An agent changes in its status alone.
LEMMA BecomesView ==
  ASSUME Shape, NEW w \in Works, NEW s, Becomes(w, s)
  PROVE  /\ \A v \in Works \ {w} : agent'[v] = agent[v]
         /\ agent'[w].status = s
         /\ agent'[w].decision = agent[w].decision /\ agent'[w].caps = agent[w].caps
         /\ agent'[w].after = agent[w].after /\ agent'[w].url = agent[w].url
BY DEF Shape, Becomes, NoAgent

LEMMA SavedView ==
  ASSUME decisions \in Seq(Decision), NEW i \in DOMAIN decisions,
         NEW caps \in SUBSET Capabilities, Saved(i, caps)
  PROVE  /\ decisions' \in Seq(Decision) /\ DOMAIN decisions' = DOMAIN decisions
         /\ Len(decisions') = Len(decisions)
         /\ \A j \in DOMAIN decisions :
              /\ decisions'[j].work = decisions[j].work
              /\ decisions'[j].change = decisions[j].change
              /\ j # i => decisions'[j] = decisions[j]
         /\ decisions'[i].saved /\ decisions'[i].caps = caps
<1> DEFINE new == [decisions[i] EXCEPT !.caps = caps, !.saved = TRUE]
<1>1. decisions[i] \in Decision
  OBVIOUS
<1>2. /\ new \in Decision /\ new.work = decisions[i].work /\ new.change = decisions[i].change
      /\ new.saved /\ new.caps = caps
  BY <1>1 DEF Decision
<1>3. decisions' = [decisions EXCEPT ![i] = new]
  BY <1>1 DEF Saved, Decision
<1> HIDE DEF new
<1> QED
  BY <1>2, <1>3

\* A decision is stamped, and perhaps an agent of that second behind it.
Stamped(w, change) ==
  /\ decisions' \in Seq(Decision) /\ DOMAIN decisions' = 1 .. Len(decisions) + 1
  /\ Len(decisions') = Len(decisions) + 1
  /\ \A i \in DOMAIN decisions : decisions'[i] = decisions[i]
  /\ decisions'[Len(decisions) + 1].work = w
  /\ decisions'[Len(decisions) + 1].change = change
  /\ \A v \in Works :
       /\ agent'[v].caps = agent[v].caps /\ agent'[v].url = agent[v].url
       /\ IF v = w /\ change = None
          THEN agent'[v].status = "deciding" /\ agent'[v].decision = Len(decisions) + 1
          ELSE agent'[v].status = agent[v].status /\ agent'[v].decision = agent[v].decision
       /\ \/ agent'[v].after = agent[v].after
          \/ /\ Is(v, "starting") /\ agent[v].after = Len(decisions)
             /\ agent'[v].after = Len(decisions) + 1

LEMMA StampView ==
  ASSUME Shape, decisions \in Seq(Decision), NEW w \in Works, NEW change \in Nat,
         Stamp(w, change), change = None => Is(w, "none")
  PROVE  Stamped(w, change)
<1> DEFINE new == [work |-> w, change |-> change, caps |-> {}, saved |-> FALSE]
<1>1. new \in Decision /\ new.work = w /\ new.change = change
  BY DEF Decision
<1>2. decisions' = Append(decisions, new)
  BY DEF Stamp
<1> HIDE DEF new
<1>3. /\ decisions' \in Seq(Decision) /\ DOMAIN decisions' = 1 .. Len(decisions) + 1
      /\ Len(decisions') = Len(decisions) + 1
      /\ \A i \in DOMAIN decisions : decisions'[i] = decisions[i]
      /\ decisions'[Len(decisions) + 1] = new
  BY <1>1, <1>2
<1>4. PICK same \in SUBSET {v \in Works : Is(v, "starting") /\ agent[v].after = Len(decisions)} :
        agent' = [v \in Works |->
          IF v \in same THEN [agent[v] EXCEPT !.after = @ + 1]
          ELSE IF v = w /\ change = None
          THEN [agent[v] EXCEPT !.status = "deciding", !.decision = Len(decisions) + 1]
          ELSE agent[v]]
  BY DEF Stamp
<1>5. ASSUME NEW v \in Works
      PROVE  /\ agent'[v].caps = agent[v].caps /\ agent'[v].url = agent[v].url
             /\ IF v = w /\ change = None
                THEN agent'[v].status = "deciding" /\ agent'[v].decision = Len(decisions) + 1
                ELSE agent'[v].status = agent[v].status /\ agent'[v].decision = agent[v].decision
             /\ \/ agent'[v].after = agent[v].after
                \/ /\ Is(v, "starting") /\ agent[v].after = Len(decisions)
                   /\ agent'[v].after = Len(decisions) + 1
  <2>1. DOMAIN agent[v] = DOMAIN NoAgent
    BY DEF Shape
  <2>2. CASE v \in same
    BY <1>4, <2>1, <2>2 DEF Is, NoAgent
  <2>3. CASE v \notin same /\ v = w /\ change = None
    BY <1>4, <2>1, <2>3 DEF NoAgent
  <2>4. CASE v \notin same /\ ~ (v = w /\ change = None)
    BY <1>4, <2>4
  <2> QED
    BY <2>2, <2>3, <2>4
<1> QED
  BY <1>1, <1>3, <1>5 DEF Stamped

\* A stamp for a request is the first of its work; one for a re-evaluation is
\* later than the agent it is about.
LEMMA StampJudged ==
  ASSUME IInv, AgentsJudged, NEW w \in Works, NEW change \in Nat, Stamp(w, change),
         UNCHANGED <<held, rebuilt>>,
         IF change = None THEN Is(w, "none") ELSE Ran(w)
  PROVE  AgentsJudged' /\ Forward
<1>1. Stamped(w, change)
  BY StampView DEF IInv, AgentsJudged
<1>2. Len(decisions) \in Nat /\ DOMAIN decisions = 1 .. Len(decisions)
  BY DEF AgentsJudged
<1>3. ASSUME NEW v \in Works
      PROVE  OwnDecision(v)'
  <2>0. OwnDecision(v)
    BY DEF AgentsJudged
  <2>1. CASE v = w /\ change = None
    BY <1>1, <1>2, <2>0, <2>1 DEF Stamped, OwnDecision, Gone, Is, Alive, NotYet, None
  <2>2. CASE v = w /\ change # None
    BY <1>1, <1>2, <2>0, <2>2 DEF Stamped, OwnDecision, Gone, Is, Ran, Alive, NotYet, None
  <2>3. CASE v # w
    BY <1>1, <1>2, <2>0, <2>3 DEF Stamped, OwnDecision, Gone, Is, Alive, NotYet, None
  <2> QED
    BY <2>1, <2>2, <2>3
<1>4. Forward
  BY <1>1, <1>2 DEF Stamped, Forward, Ran, Gone, Is, Alive
<1>5. ASSUME NEW v \in Works
      PROVE  NeverResumed(v)' /\ agent'[v].caps \subseteq Capabilities
  BY <1>1 DEF AgentsJudged, Stamped, NeverResumed, Is, IInv, Shape, Gone, Ran, Alive
<1> QED
  BY <1>1, <1>3, <1>4, <1>5 DEF AgentsJudged, Stamped

\* A decision that is made is written: an agent's own, or one about it.
LEMMA SavedJudged ==
  ASSUME IInv, AgentsJudged, NEW i \in DOMAIN decisions, decisions[i].change # None,
         NEW caps \in SUBSET Capabilities, Saved(i, caps), UNCHANGED <<held, agent, rebuilt>>
  PROVE  AgentsJudged' /\ Forward
<1>1. /\ decisions' \in Seq(Decision) /\ DOMAIN decisions' = DOMAIN decisions
      /\ Len(decisions') = Len(decisions)
      /\ \A j \in DOMAIN decisions :
           /\ decisions'[j].work = decisions[j].work
           /\ decisions'[j].change = decisions[j].change
           /\ j # i => decisions'[j] = decisions[j]
  BY SavedView DEF AgentsJudged
<1>2. \A w \in Works : OwnDecision(w)'
  BY <1>1 DEF AgentsJudged, OwnDecision, Gone, Is
<1>3. Forward
  BY <1>1 DEF Forward, Gone, Is, Ran
<1> QED
  BY <1>1, <1>2, <1>3 DEF AgentsJudged, NeverResumed

\* The record of an agent changes, and no decision.
LEMMA AgentJudged ==
  ASSUME IInv, AgentsJudged, NEW w \in Works, UNCHANGED <<held, decisions, rebuilt>>,
         \A v \in Works \ {w} : agent'[v] = agent[v],
         agent'[w].decision = agent[w].decision,
         agent'[w].caps \subseteq Capabilities,
         Ran(w) => /\ agent'[w].caps = agent[w].caps /\ agent'[w].after = agent[w].after
                   /\ Ran(w)' /\ (Is(w, "ACTIVE")' => Is(w, "ACTIVE")),
         Is(w, "gone") => Is(w, "gone")',
         OwnDecision(w)', NeverResumed(w)'
  PROVE  AgentsJudged' /\ Forward
<1>1. \A v \in Works : OwnDecision(v)' /\ NeverResumed(v)'
  BY DEF AgentsJudged, OwnDecision, NeverResumed, Gone, Is
<1>2. Forward
  BY DEF Forward, Gone, Is, Ran
<1> QED
  BY <1>1, <1>2 DEF AgentsJudged

LEMMA WorkStepJudged ==
  ASSUME IInv, AgentsJudged, NEW w \in Works,
         WorkStep(w) \/ Expiring(w) \/ Expires(w) \/ OtherRevokes(w)
  PROVE  AgentsJudged' /\ Forward
<1>1. Shape /\ UNCHANGED <<held, rebuilt, handler>>
  BY DEF IInv, WorkStep, Decide, DecideLoads, DecideSaves, Provision, Resume, HaltAgain,
     Activate, ProvisioningEnds, Expiring, Expires, OtherRevokes, evaluating
<1>2. /\ OwnDecision(w) /\ NeverResumed(w) /\ agent[w].caps \subseteq Capabilities
      /\ Len(decisions) \in Nat /\ DOMAIN decisions = 1 .. Len(decisions)
      /\ rebuilt[w] \in Nat
  BY <1>1 DEF AgentsJudged, Shape
<1>3. CASE Decide(w)
  BY <1>1, <1>3, StampJudged DEF Decide, None
<1>4. CASE DecideLoads(w)
  <2>1. /\ agent[w].status = "deciding" /\ agent'[w].status = "loaded"
        /\ agent'[w].decision = agent[w].decision /\ agent'[w].after = agent[w].after
        /\ agent'[w].caps \subseteq Capabilities /\ agent'[w].url = agent[w].url
        /\ \A v \in Works \ {w} : agent'[v] = agent[v]
        /\ UNCHANGED decisions
    BY <1>1, <1>4 DEF DecideLoads, Shape, NoAgent, Is, Effective, evaluating, AgentsJudged
  <2> QED
    <3>1. OwnDecision(w)' /\ NeverResumed(w)'
      BY <1>1, <1>2, <2>1 DEF OwnDecision, NeverResumed, Gone, Is, Alive, NotYet
    <3>2. ~ Is(w, "gone") /\ ~ Ran(w)
      BY <1>1, <1>2, <2>1 DEF NeverResumed, Is, Ran, Alive
    <3> QED
      BY <1>1, <1>2, <2>1, <3>1, <3>2, AgentJudged
<1>5. CASE DecideSaves(w)
  <2>1. /\ agent[w].status = "loaded" /\ agent'[w].status = "decided"
        /\ agent'[w].decision = agent[w].decision /\ agent'[w].after = agent[w].after
        /\ agent'[w].caps = agent[w].caps
        /\ \A v \in Works \ {w} : agent'[v] = agent[v]
    BY <1>1, <1>5, BecomesView DEF DecideSaves, Is
  <2>2. rebuilt[w] = 0 /\ ~ Gone(w) /\ ~ Gone(w)'
    BY <1>1, <1>2, <2>1 DEF NeverResumed, Gone, Is
  <2>3. agent[w].decision \in DOMAIN decisions /\ decisions[agent[w].decision].work = w
    BY <1>2, <2>1, <2>2 DEF OwnDecision, Is
  <2>4. /\ decisions' \in Seq(Decision) /\ DOMAIN decisions' = DOMAIN decisions
        /\ Len(decisions') = Len(decisions)
        /\ \A j \in DOMAIN decisions :
             /\ decisions'[j].work = decisions[j].work
             /\ decisions'[j].change = decisions[j].change
             /\ j # agent[w].decision => decisions'[j] = decisions[j]
        /\ decisions'[agent[w].decision].saved
        /\ decisions'[agent[w].decision].caps = agent[w].caps
    BY <1>2, <1>5, <2>3, SavedView DEF DecideSaves, AgentsJudged
  <2>5. OwnDecision(w)'
    BY <1>2, <2>1, <2>2, <2>3, <2>4 DEF OwnDecision, Is, NotYet, Alive
  <2>6. ASSUME NEW v \in Works \ {w} PROVE OwnDecision(v)' /\ NeverResumed(v)'
    BY <1>1, <2>1, <2>3, <2>4, <2>6 DEF AgentsJudged, OwnDecision, NeverResumed, Gone, Is
  <2>7. Forward
    BY <1>1, <2>1, <2>2, <2>4 DEF Forward, Gone, Is, Ran, Alive
  <2> QED
    BY <1>1, <1>2, <2>1, <2>2, <2>4, <2>5, <2>6, <2>7 DEF AgentsJudged, NeverResumed
<1>6. CASE Provision(w)
  <2>1. /\ agent[w].status = "decided" /\ agent'[w].status = "waiting"
        /\ agent'[w].decision = agent[w].decision /\ agent'[w].after = agent[w].after
        /\ agent'[w].caps = agent[w].caps
        /\ \A v \in Works \ {w} : agent'[v] = agent[v]
        /\ UNCHANGED decisions
    BY <1>1, <1>6 DEF Provision, Shape, NoAgent, Is, evaluating
  <2> QED
    <3>1. OwnDecision(w)' /\ NeverResumed(w)'
      BY <1>1, <1>2, <2>1 DEF OwnDecision, NeverResumed, Gone, Is, Alive, NotYet
    <3>2. ~ Is(w, "gone") /\ ~ Ran(w)
      BY <1>1, <1>2, <2>1 DEF NeverResumed, Is, Ran, Alive
    <3> QED
      BY <1>1, <1>2, <2>1, <3>1, <3>2, AgentJudged
<1>7. CASE Resume(w)
  <2>1. /\ agent[w].status = "waiting" /\ agent[w].url
        /\ agent'[w].status \in {"starting", "gone"}
        /\ agent'[w].decision = agent[w].decision /\ agent'[w].after = Len(decisions)
        /\ agent'[w].caps = agent[w].caps
        /\ \A v \in Works \ {w} : agent'[v] = agent[v]
        /\ UNCHANGED decisions
    BY <1>1, <1>7 DEF Resume, Shape, NoAgent, Is, evaluating
  <2> QED
    <3>1. OwnDecision(w)' /\ NeverResumed(w)'
      BY <1>1, <1>2, <2>1 DEF OwnDecision, NeverResumed, Gone, Is, Alive, NotYet
    <3>2. ~ Is(w, "gone") /\ ~ Ran(w)
      BY <1>1, <1>2, <2>1 DEF NeverResumed, Is, Ran, Alive
    <3> QED
      BY <1>1, <1>2, <2>1, <3>1, <3>2, AgentJudged
<1>8. CASE HaltAgain(w) \/ Activate(w) \/ ProvisioningEnds(w)
           \/ Expiring(w) \/ Expires(w) \/ OtherRevokes(w)
  <2>1. PICK s : Becomes(w, s)
    BY <1>8 DEF HaltAgain, Activate, ProvisioningEnds, Expiring, Expires, OtherRevokes
  <2>2. /\ agent'[w].decision = agent[w].decision /\ agent'[w].after = agent[w].after
        /\ agent'[w].caps = agent[w].caps /\ agent'[w].url = agent[w].url
        /\ agent'[w].status = s
        /\ \A v \in Works \ {w} : agent'[v] = agent[v]
        /\ UNCHANGED decisions
    BY <1>1, <1>8, <2>1, BecomesView
    DEF HaltAgain, Activate, ProvisioningEnds, Expiring, Expires, OtherRevokes, evaluating
  <2>3. \/ agent[w].status = "starting" /\ agent'[w].status \in {"waiting", "ACTIVE", "gone"}
        \/ agent[w].status = "waiting" /\ agent'[w].status = "gone"
        \/ agent[w].status \in Alive /\ agent'[w].status \in {"EXPIRING", "REVOKED"}
    BY <1>1, <1>8, BecomesView DEF HaltAgain, Activate, ProvisioningEnds, Expiring, Expires,
       OtherRevokes, Is, Alive
  <2> QED
    <3>1. OwnDecision(w)' /\ NeverResumed(w)'
      BY <1>1, <1>2, <2>2, <2>3 DEF OwnDecision, NeverResumed, Gone, Is, Alive, NotYet
    <3> QED
      <4>1. Ran(w) => Ran(w)' /\ (Is(w, "ACTIVE")' => Is(w, "ACTIVE"))
        BY <1>1, <1>2, <2>3, <3>1 DEF NeverResumed, Ran, Is, Alive
      <4> QED
        BY <1>1, <1>2, <2>2, <2>3, <3>1, <4>1, AgentJudged DEF Is, Alive
<1> QED
  BY <1>3, <1>4, <1>5, <1>6, <1>7, <1>8 DEF WorkStep

\* Whoever cleans up only ends what ran, and what is rebuilt was gone.
LEMMA StopJudged ==
  ASSUME IInv, AgentsJudged, NEW w \in Works, UNCHANGED <<held, decisions, rebuilt>>,
         \/ UNCHANGED agent
         \/ agent[w].status \in Alive /\ \E s \in {"REVOKED", "gone"} : Becomes(w, s)
  PROVE  AgentsJudged' /\ Forward
<1>1. CASE UNCHANGED agent
  BY <1>1 DEF AgentsJudged, Forward, OwnDecision, NeverResumed, Gone, Is, Ran
<1>2. CASE agent[w].status \in Alive /\ \E s \in {"REVOKED", "gone"} : Becomes(w, s)
  <2>1. /\ agent'[w].decision = agent[w].decision /\ agent'[w].after = agent[w].after
        /\ agent'[w].caps = agent[w].caps /\ agent'[w].url = agent[w].url
        /\ agent'[w].status \in {"REVOKED", "gone"}
        /\ \A v \in Works \ {w} : agent'[v] = agent[v]
    BY <1>2, BecomesView DEF IInv
  <2>2. /\ OwnDecision(w) /\ NeverResumed(w) /\ agent[w].caps \subseteq Capabilities
        /\ rebuilt[w] \in Nat
    BY DEF AgentsJudged, IInv, Shape
  <2>3. OwnDecision(w)' /\ NeverResumed(w)'
    BY <1>2, <2>1, <2>2 DEF OwnDecision, NeverResumed, Gone, Is, Alive, NotYet
  <2> QED
    BY <1>2, <2>1, <2>2, <2>3, AgentJudged DEF Is, Ran, Alive
<1> QED
  BY <1>1, <1>2

LEMMA RebuildJudged ==
  ASSUME IInv, AgentsJudged, NEW h \in Handlers, Rebuild(h)
  PROVE  AgentsJudged' /\ Forward
<1> DEFINE w == handler[h].work
           new == [NoAgent EXCEPT !.status = "waiting", !.caps = handler[h].caps,
                                  !.decision = handler[h].mine]
<1>1. w \in Works /\ UNCHANGED <<held, decisions>> /\ rebuilt \in [Works -> Nat]
  BY AtWork DEF Rebuild, At, HasAgent, IInv, Shape
<1>2. CASE UNCHANGED <<agent, rebuilt>>
  BY <1>1, <1>2, StopJudged
<1>3. CASE ~ UNCHANGED <<agent, rebuilt>>
  <2>1. /\ handler[h].caps \subseteq held
        /\ agent' = [agent EXCEPT ![w] = new] /\ rebuilt' = [rebuilt EXCEPT ![w] = @ + 1]
    BY <1>3 DEF Rebuild, ReprovisionRoute
  <2>2. new.status = "waiting" /\ new.url = FALSE /\ new.caps = handler[h].caps
    BY DEF NoAgent
  <2> HIDE DEF new, w
  <2>3. /\ agent'[w] = new /\ rebuilt'[w] > 0
        /\ \A v \in Works \ {w} : agent'[v] = agent[v] /\ rebuilt'[v] = rebuilt[v]
    BY <1>1, <2>1 DEF IInv, Shape
  <2>4. \A v \in Works : OwnDecision(v)' /\ NeverResumed(v)'
    BY <1>1, <2>2, <2>3 DEF AgentsJudged, OwnDecision, NeverResumed, Gone, Is
  <2>5. Forward
    BY <1>1, <2>2, <2>3 DEF Forward, Gone, Is, Ran, IInv, Shape
  <2>6. \A v \in Works : agent'[v].caps \subseteq Capabilities
    BY <1>1, <2>1, <2>2, <2>3 DEF AgentsJudged, w
  <2> QED
    BY <1>1, <2>4, <2>5, <2>6 DEF AgentsJudged
<1> QED
  BY <1>2, <1>3

\* What a re-evaluation decides, it decides later.
LEMMA ExamineJudged ==
  ASSUME IInv, AgentsJudged, NEW h \in Handlers, handler[h].change \in Nat,
         NEW w \in Works, Examine(h, w)
  PROVE  AgentsJudged' /\ Forward
<1>1. UNCHANGED <<held, rebuilt>> /\ Ran(w) /\ handler[h].change # None
  BY DEF Examine, At, IInv, Shape, ShapeOf, WasRunning, WasRunningFor
<1>2. (UNCHANGED <<decisions, agent>>) \/ Stamp(w, handler[h].change)
  BY DEF Examine
<1>3. CASE UNCHANGED <<decisions, agent>>
  BY <1>1, <1>3, StopJudged
<1>4. CASE Stamp(w, handler[h].change)
  BY <1>1, <1>4, StampJudged
<1> QED
  BY <1>2, <1>3, <1>4

\* Every step.
LEMMA AgentsStayJudged ==
  ASSUME IInv, Judging, [Next]_vars
  PROVE  AgentsJudged' /\ Forward
<1> USE DEF Judging
<1>1. ASSUME NEW w \in Works, WorkStep(w) \/ LockExpires(w) \/ StopStep(w)
      PROVE  AgentsJudged' /\ Forward
  <2>1. CASE WorkStep(w) \/ Expiring(w) \/ Expires(w) \/ OtherRevokes(w)
    BY <2>1, WorkStepJudged
  <2>2. CASE LockExpires(w) \/ OtherLocks(w)
    BY <2>2, StopJudged DEF LockExpires, OtherLocks, evaluating
  <2>3. ASSUME NEW complete \in BOOLEAN, OtherEnds(w, complete) PROVE AgentsJudged' /\ Forward
    <3>1. Ran(w) /\ UNCHANGED <<held, decisions, rebuilt>>
      BY <2>3 DEF OtherEnds, evaluating, IInv, OthersHold
    <3>2. UNCHANGED agent \/ (~ Gone(w) /\ Becomes(w, "gone"))
      BY <2>3 DEF OtherEnds
    <3>3. ~ Gone(w) => agent[w].status \in Alive
      BY <3>1 DEF Ran, Gone, Is
    <3> QED
      BY <3>1, <3>2, <3>3, StopJudged
  <2> QED
    BY <1>1, <2>1, <2>2, <2>3 DEF StopStep, OtherCleanup
<1>2. CASE \/ \E cap \in Capabilities, grant \in BOOLEAN :
                PermSet(cap, grant) \/ \E h \in Handlers : HolderSet(h, cap, grant)
           \/ \E h \in Handlers, c \in inbox : Deliver(h, c)
  <2>1. UNCHANGED <<decisions, agent, rebuilt>>
    BY <1>2 DEF PermSet, HolderSet, Deliver, evaluating
  <2>2. held' \subseteq Capabilities
    BY <1>2 DEF PermSet, HolderSet, Deliver, Changed, AgentsJudged
  <2> QED
    BY <2>1, <2>2 DEF AgentsJudged, Forward, OwnDecision, NeverResumed, Gone, Is, Ran
<1>3. ASSUME NEW h \in Handlers, Reevaluates(h) \/ Reprovisions(h) \/ GoesWrong(h)
      PROVE  AgentsJudged' /\ Forward
  <2>1. ASSUME NEW w \in Works, Examine(h, w) PROVE AgentsJudged' /\ Forward
    BY <2>1, ExamineJudged DEF HandlerJudged
  <2>2. CASE Claim(h) \/ ListAgents(h) \/ ListDecisions(h) \/ LoadPolicyInputs(h) \/ Finish(h)
    <3>1. UNCHANGED <<held, decisions, agent, rebuilt>>
      BY <2>2 DEF Claim, ListAgents, ListDecisions, LoadPolicyInputs, Finish
    <3> QED
      BY <3>1 DEF AgentsJudged, Forward, OwnDecision, NeverResumed, Gone, Is, Ran
  <2>3. CASE RebuildAborts(h) \/ LifecycleDies(h) \/ HandlerDies(h) \/ LockAgent(h)
    <3>1. UNCHANGED <<held, decisions, agent, rebuilt>>
      BY <2>3 DEF RebuildAborts, LifecycleDies, HandlerDies, LockAgent
    <3> QED
      BY <3>1 DEF AgentsJudged, Forward, OwnDecision, NeverResumed, Gone, Is, Ran
  <2>4. CASE SaveDecision(h) \/ AgentFails(h)
    <3>1. UNCHANGED <<held, agent, rebuilt>>
      BY <2>4 DEF SaveDecision, AgentFails
    <3>2. CASE UNCHANGED decisions
      BY <3>1, <3>2 DEF AgentsJudged, Forward, OwnDecision, NeverResumed, Gone, Is, Ran
    <3>3. CASE At(h, "save") /\ Saved(handler[h].mine, handler[h].caps)
      BY <3>1, <3>3, SavedJudged DEF HandlerJudged, Judged, Listed, Evaluating, At
    <3> QED
      BY <2>4, <3>2, <3>3 DEF SaveDecision, AgentFails
  <2>5. CASE Revoke(h) \/ \E complete \in BOOLEAN : CleanupEnds(h, complete)
    <3>1. /\ handler[h].work \in Works /\ Ran(handler[h].work)
          /\ UNCHANGED <<held, decisions, rebuilt>>
      BY <2>5, AtWork DEF Revoke, CleanupEnds, At, HasAgent
    <3>2. ~ Gone(handler[h].work) => agent[handler[h].work].status \in Alive
      BY <3>1 DEF Ran, Gone, Is
    <3>3. \/ UNCHANGED agent
          \/ ~ Gone(handler[h].work) /\ \E s \in {"REVOKED", "gone"} : Becomes(handler[h].work, s)
      BY <2>5 DEF Revoke, CleanupEnds
    <3> QED
      BY <3>1, <3>2, <3>3, StopJudged
  <2>6. CASE Rebuild(h)
    BY <2>6, RebuildJudged
  <2> QED
    BY <1>3, <2>1, <2>2, <2>3, <2>4, <2>5, <2>6 DEF Reevaluates, Reprovisions, GoesWrong
<1>4. CASE UNCHANGED vars
  BY <1>4 DEF vars, evaluating, AgentsJudged, Forward, OwnDecision, NeverResumed, Gone, Is, Ran
<1> QED
  BY <1>1, <1>2, <1>3, <1>4 DEF Next

-----------------------------------------------------------------------------
(* What handlers judge.                                                    *)

\* A handler that is at no agent judges nothing, and its list is no longer.
LEMMA RestsJudged ==
  ASSUME IInv, Forward, NEW h \in Handlers, HandlerJudged(h),
         handler'[h].change \in Nat, handler'[h].caps \subseteq Capabilities,
         handler'[h].pc \notin Evaluating \union {"decisions"},
         \/ handler'[h].todo = {} /\ handler'[h].known = {}
         \/ /\ handler[h].pc # "decisions" /\ handler'[h].pc \notin {"idle", "claim", "agents"}
            /\ handler'[h].todo \subseteq handler[h].todo
            /\ handler'[h].known = handler[h].known
  PROVE  HandlerJudged(h)'
<1>1. \A w \in handler[h].todo : w \in Works /\ Ran(w)
  BY DEF IInv, Shape, ShapeOf, WasRunning, WasRunningFor
<1>2. Listed(h)'
  BY <1>1 DEF HandlerJudged, Listed, Forward, Evaluating
<1> QED
  BY <1>2 DEF HandlerJudged, Judged

\* The newest of the decisions that are not later than the agent is its own.
LEMMA DecisionBehindIsOwn ==
  ASSUME AgentsJudged, NEW w \in Works, Ran(w), ~ Gone(w), OwnDecisionBehind(w),
         NEW known \in SUBSET DOMAIN decisions, agent[w].decision \in known
  PROVE  /\ decisionBehind(w, known) = agent[w].decision
         /\ proposalOf(agent[w].decision)
<1> DEFINE d == agent[w].decision
           earlier == {i \in known : i <= agent[w].after}
<1>1. /\ OwnDecision(w) /\ agent[w].status \in Alive
      /\ DOMAIN decisions = 1 .. Len(decisions) /\ Len(decisions) \in Nat
  BY DEF AgentsJudged, Ran, Gone, Is
<1>2. /\ d \in DOMAIN decisions /\ decisions[d].work = w /\ decisions[d].change = None
      /\ agent[w].after \in d .. Len(decisions)
      /\ \A i \in DOMAIN decisions : decisions[i].work = w => i = d \/ i > agent[w].after
  BY <1>1 DEF OwnDecision, Is, Alive
<1>3. d \in earlier /\ \A i \in earlier : i \in Nat /\ d >= i
  <2>1. ASSUME NEW i \in earlier, ~ (d >= i) PROVE FALSE
    <3>1. i \in DOMAIN decisions /\ i \in d .. agent[w].after
      BY <1>1, <1>2, <2>1
    <3> QED
      BY <1>1, <1>2, <2>1, <3>1 DEF OwnDecisionBehind
  <2> QED
    BY <1>1, <1>2, <2>1
<1>4. Max(earlier) = d
  <2> HIDE DEF earlier
  <2>1. /\ Max(earlier) \in earlier /\ \A i \in earlier : Max(earlier) >= i
    BY <1>3 DEF Max
  <2> QED
    BY <1>1, <1>2, <1>3, <2>1
<1> QED
  BY <1>1, <1>2, <1>3, <1>4 DEF decisionBehind, proposalOf, None

\* An agent on the list had its decision written.
LEMMA ListDecisionsJudged ==
  ASSUME IInv, Judging, Forward, NEW h \in Handlers, ListDecisions(h)
  PROVE  HandlerJudged(h)'
<1>1. /\ handler'[h].pc = "next" /\ handler'[h].todo = handler[h].todo
      /\ handler'[h].known = {i \in DOMAIN decisions : decisions[i].saved}
      /\ handler'[h].caps = handler[h].caps /\ handler'[h].change = handler[h].change
      /\ UNCHANGED <<agent, decisions, rebuilt>>
  BY DEF ListDecisions, IInv, Shape, ShapeOf, Idle
<1>2. \A w \in handler[h].todo : w \in Works /\ Ran(w)
  BY DEF IInv, Shape, ShapeOf, WasRunning, WasRunningFor
<1>3. ASSUME NEW w \in handler[h].todo, ~ Gone(w)
      PROVE  agent[w].decision \in DOMAIN decisions /\ decisions[agent[w].decision].saved
  BY <1>2, <1>3 DEF Judging, AgentsJudged, OwnDecision, Ran, Gone, Is, Alive
<1>4. Listed(h)'
  BY <1>1, <1>2, <1>3 DEF Judging, HandlerJudged, Listed, Gone, Is
<1> QED
  BY <1>1, <1>4 DEF Judging, HandlerJudged, Judged, Evaluating

LEMMA ExamineJudges ==
  ASSUME IInv, Judging, AgentsJudged', Forward, NEW h \in Handlers, NEW w \in Works, Examine(h, w)
  PROVE  HandlerJudged(h)'
<1> DEFINE previous == decisionBehind(w, handler[h].known)
<1>1. /\ HandlerJudged(h) /\ handler[h].pc = "next" /\ w \in handler[h].todo /\ Ran(w)
      /\ handler[h].change # None /\ DOMAIN handler[h] = DOMAIN Idle
      /\ UNCHANGED rebuilt
  BY DEF Judging, Examine, At, IInv, Shape, ShapeOf, WasRunning, WasRunningFor
<1>2. CASE ~ proposalOf(previous)
  <2>1. handler' = [handler EXCEPT ![h].todo = handler[h].todo \ {w}]
    BY <1>2 DEF Examine
  <2>2. /\ handler'[h].todo \subseteq handler[h].todo /\ handler'[h].pc = "next"
        /\ handler'[h].known = handler[h].known /\ handler'[h].change = handler[h].change
        /\ handler'[h].caps = handler[h].caps
    BY <1>1, <2>1 DEF IInv, Shape, Idle
  <2> QED
    BY <1>1, <2>2, RestsJudged DEF HandlerJudged, Listed, Evaluating
<1>3. CASE proposalOf(previous)
  <2>1. /\ Stamp(w, handler[h].change)
        /\ handler' = [handler EXCEPT ![h].todo = handler[h].todo \ {w}, ![h].pc = "load",
             ![h].work = w, ![h].previous = previous, ![h].mine = Len(decisions) + 1]
    BY <1>3 DEF Examine
  <2>2. /\ handler'[h].todo = handler[h].todo \ {w} /\ handler'[h].pc = "load"
        /\ handler'[h].known = handler[h].known /\ handler'[h].change = handler[h].change
        /\ handler'[h].caps = handler[h].caps /\ handler'[h].work = w
        /\ handler'[h].previous = previous /\ handler'[h].mine = Len(decisions) + 1
    <3> HIDE DEF previous
    <3> QED
      BY <1>1, <2>1 DEF IInv, Shape, Idle
  <2>3. Stamped(w, handler[h].change)
    BY <1>1, <2>1, StampView DEF Judging, AgentsJudged, HandlerJudged, IInv
  <2>4. \A v \in handler[h].todo : v \in Works /\ Ran(v)
    BY DEF IInv, Shape, ShapeOf, WasRunning, WasRunningFor
  <2>5. Listed(h)'
    BY <1>1, <2>2, <2>4 DEF HandlerJudged, Listed, Forward
  <2>6. ASSUME ~ Gone(w)', OwnDecisionBehind(w)' PROVE previous = agent'[w].decision
    <3>1. ~ Gone(w) /\ OwnDecisionBehind(w) /\ agent'[w].decision = agent[w].decision
      BY <1>1, <2>6, OwnDecisionStaysBehind DEF Forward
    <3> QED
      BY <1>1, <3>1, DecisionBehindIsOwn DEF Judging, HandlerJudged, Listed
  <2>7. Judged(h)'
    <3>1. Len(decisions) + 1 \in DOMAIN decisions' /\ decisions'[Len(decisions) + 1].change # None
      BY <1>1, <2>3 DEF Stamped, Judging, AgentsJudged
    <3> QED
      BY <2>2, <2>6, <3>1 DEF Judged, At, Gone, Is, OwnDecisionBehind
  <2> QED
    BY <1>1, <2>2, <2>5, <2>7 DEF HandlerJudged
<1> QED
  BY <1>2, <1>3

LEMMA LoadPolicyInputsJudges ==
  ASSUME IInv, Judging, Forward, NEW h \in Handlers, LoadPolicyInputs(h)
  PROVE  HandlerJudged(h)'
<1>1. /\ handler[h].pc = "load" /\ handler'[h].pc = "save" /\ handler'[h].todo = handler[h].todo
      /\ handler'[h].known = handler[h].known /\ handler'[h].change = handler[h].change
      /\ handler'[h].work = handler[h].work /\ handler'[h].mine = handler[h].mine
      /\ handler'[h].previous = handler[h].previous
      /\ handler'[h].caps \subseteq held
      /\ UNCHANGED <<held, agent, decisions, rebuilt>>
  BY DEF LoadPolicyInputs, At, IInv, Shape, ShapeOf, Idle, Effective
<1> QED
  BY <1>1 DEF Judging, AgentsJudged, HandlerJudged, Listed, Judged, Evaluating, At, Gone, Is,
     OwnDecisionBehind

LEMMA SaveDecisionJudges ==
  ASSUME IInv, Judging, AgentsJudged', Forward, NEW h \in Handlers, SaveDecision(h)
  PROVE  HandlerJudged(h)'
<1>0. PICK w \in Works : w = handler[h].work /\ Ran(w)
  BY AtWork DEF SaveDecision, At, HasAgent
<1> DEFINE old == decisions[handler[h].previous].caps
           new == handler[h].caps
           kind == classifyChange(old, new)
<1>1. /\ HandlerJudged(h) /\ handler[h].pc = "save"
      /\ DOMAIN handler[h] = DOMAIN Idle /\ new \subseteq Capabilities
      /\ UNCHANGED <<held, agent, rebuilt>>
  BY DEF Judging, HandlerJudged, Listed, SaveDecision, At, IInv, Shape, ShapeOf
<1>2. handler' = [handler EXCEPT
             ![h].pc = IF kind \in {"shrunk", "mixed"} THEN "ask" ELSE "next",
             ![h].caps = IF kind = "mixed" THEN retainedCapabilities(old, new) ELSE new]
  BY DEF SaveDecision
<1>3. /\ handler'[h].todo = handler[h].todo /\ handler'[h].known = handler[h].known
      /\ handler'[h].change = handler[h].change /\ handler'[h].work = w
      /\ handler'[h].previous = handler[h].previous /\ handler'[h].mine = handler[h].mine
      /\ handler'[h].pc = IF kind \in {"shrunk", "mixed"} THEN "ask" ELSE "next"
      /\ handler'[h].caps = IF kind = "mixed" THEN retainedCapabilities(old, new) ELSE new
  <2> HIDE DEF kind, old, new
  <2> QED
    BY <1>0, <1>1, <1>2 DEF IInv, Shape, Idle
<1>4. /\ handler'[h].pc \in {"ask", "next"} /\ handler'[h].caps \subseteq Capabilities
      /\ handler'[h].pc = "ask" => handler'[h].caps \subseteq old /\ handler'[h].caps # old
  <2>1. kind = "shrunk" => new \subseteq old /\ new # old
    BY DEF classifyChange
  <2>2. kind = "mixed" => ~ (old \subseteq new)
    BY DEF classifyChange
  <2> QED
    BY <1>1, <1>3, <2>1, <2>2 DEF retainedCapabilities
<1>5. Listed(h)'
  <2>1. \A v \in handler[h].todo : v \in Works /\ Ran(v)
    BY DEF IInv, Shape, ShapeOf, WasRunning, WasRunningFor
  <2> QED
    BY <1>1, <1>3, <1>4, <2>1 DEF HandlerJudged, Listed, Forward
<1>6. Judged(h)'
  <2>1. handler[h].mine \in DOMAIN decisions' /\ decisions'[handler[h].mine].change # None
    BY <1>1 DEF HandlerJudged, Judged, Evaluating, Forward
  <2>2. ASSUME ~ Gone(w)', OwnDecisionBehind(w)'
        PROVE  handler[h].previous = agent'[w].decision /\ old = agent'[w].caps
    <3>1. ~ Gone(w) /\ OwnDecisionBehind(w)
      BY <1>0, <2>2, OwnDecisionStaysBehind DEF Forward
    <3>2. handler[h].previous = agent[w].decision
      BY <1>0, <1>1, <3>1 DEF HandlerJudged, Judged, Evaluating
    <3>3. OwnDecision(w) /\ agent[w].status \in Alive
      BY <1>0, <3>1 DEF Judging, AgentsJudged, Ran, Gone, Is
    <3> QED
      BY <1>1, <3>1, <3>2, <3>3 DEF OwnDecision, Alive, Is
  <2> QED
    BY <1>0, <1>3, <1>4, <2>1, <2>2 DEF Judged, At, Gone, Is, OwnDecisionBehind
<1> QED
  BY <1>1, <1>3, <1>5, <1>6 DEF HandlerJudged

\* At the Lifecycle Manager, and failing over an agent, a handler only goes on.
LEMMA HandlerGoesOn ==
  ASSUME NEW h \in Handlers, Reprovisions(h) \/ AgentFails(h) \/ LifecycleDies(h)
  PROVE  \/ \E pc \in {"next", "revoke", "cleanup", "rebuild"} : Goto(h, pc)
         \/ \E failed : handler' = [handler EXCEPT ![h].pc = "next", ![h].failed = failed]
<1>1. CASE LockAgent(h)
  BY <1>1 DEF LockAgent
<1>2. CASE Revoke(h) \/ \E complete \in BOOLEAN : CleanupEnds(h, complete)
  BY <1>2 DEF Revoke, CleanupEnds
<1>3. CASE Rebuild(h) \/ RebuildAborts(h)
  BY <1>3 DEF Rebuild, RebuildAborts
<1>4. CASE AgentFails(h) \/ LifecycleDies(h)
  BY <1>4 DEF AgentFails, LifecycleDies
<1> QED
  BY <1>1, <1>2, <1>3, <1>4 DEF Reprovisions

\* Whatever a handler does, it judges the agents' own decisions.
LEMMA HandlerStepJudged ==
  ASSUME IInv, Judging, AgentsJudged', Forward, NEW h \in Handlers,
         Reevaluates(h) \/ Reprovisions(h) \/ GoesWrong(h)
  PROVE  HandlerJudged(h)' /\ \A k \in Handlers \ {h} : handler'[k] = handler[k]
<1>1. /\ HandlerJudged(h) /\ DOMAIN handler[h] = DOMAIN Idle /\ DOMAIN handler = Handlers
      /\ handler[h].change \in Nat /\ handler[h].caps \subseteq Capabilities
  BY DEF Judging, HandlerJudged, Listed, IInv, Shape, ShapeOf
<1>2. \A k \in Handlers \ {h} : handler'[k] = handler[k]
  BY <1>1 DEF Reevaluates, Claim, ListAgents, ListDecisions, Examine, LoadPolicyInputs,
     SaveDecision, Finish, Answers, Goto, Reprovisions, LockAgent, Revoke, CleanupEnds, Rebuild,
     RebuildAborts, GoesWrong, AgentFails, LifecycleDies, HandlerDies
<1> SUFFICES HandlerJudged(h)'
  BY <1>2
<1>3. CASE Claim(h) \/ Finish(h) \/ HandlerDies(h)
  <2>1. CASE handler' = [handler EXCEPT ![h] = Idle]
    <3>1. handler'[h] = Idle
      BY <1>1, <2>1
    <3>2. /\ handler'[h].todo = {} /\ handler'[h].known = {} /\ handler'[h].caps = {}
          /\ handler'[h].pc = "idle" /\ handler'[h].change = 0
      BY <3>1 DEF Idle, None
    <3> QED
      BY <1>1, <3>2, RestsJudged DEF Evaluating
  <2>2. CASE At(h, "claim") /\ Goto(h, "agents")
    <3>1. /\ handler[h].pc = "claim" /\ handler'[h].pc = "agents"
          /\ handler'[h].todo = handler[h].todo /\ handler'[h].known = handler[h].known
          /\ handler'[h].caps = handler[h].caps /\ handler'[h].change = handler[h].change
      BY <1>1, <2>2 DEF Goto, At, Idle
    <3> QED
      BY <1>1, <3>1 DEF HandlerJudged, Listed, Judged, Evaluating, Forward
  <2> QED
    BY <1>3, <2>1, <2>2 DEF Claim, Finish, HandlerDies, Answers
<1>4. CASE ListAgents(h)
  <2>1. /\ handler[h].pc = "agents" /\ handler'[h].todo = Running
        /\ handler'[h].pc = (IF Running = {} THEN "next" ELSE "decisions")
        /\ handler'[h].known = handler[h].known
        /\ handler'[h].caps = handler[h].caps /\ handler'[h].change = handler[h].change
    BY <1>1, <1>4 DEF ListAgents, At, Idle
  <2> QED
    BY <1>1, <2>1 DEF HandlerJudged, Listed, Judged, Evaluating, Forward
<1>5. CASE Reprovisions(h) \/ AgentFails(h) \/ LifecycleDies(h)
  <2>1. /\ handler[h].pc \in HasAgent
        /\ handler'[h].pc \in {"next", "revoke", "cleanup", "rebuild"}
        /\ handler'[h].todo = handler[h].todo /\ handler'[h].known = handler[h].known
        /\ handler'[h].caps = handler[h].caps /\ handler'[h].change = handler[h].change
    <3>1. handler[h].pc \in HasAgent
      BY <1>5 DEF Reprovisions, LockAgent, Revoke, CleanupEnds, Rebuild, RebuildAborts,
         AgentFails, LifecycleDies, At, HasAgent
    <3>2. \/ \E pc \in {"next", "revoke", "cleanup", "rebuild"} : Goto(h, pc)
          \/ \E failed : handler' = [handler EXCEPT ![h].pc = "next", ![h].failed = failed]
      BY <1>5, HandlerGoesOn
    <3> QED
      BY <1>1, <3>1, <3>2 DEF Goto, Idle
  <2> QED
    BY <1>1, <2>1, RestsJudged DEF Evaluating, HasAgent
<1> QED
  BY <1>2, <1>3, <1>4, <1>5, ListDecisionsJudged, ExamineJudges, LoadPolicyInputsJudges,
     SaveDecisionJudges DEF Reevaluates, GoesWrong

LEMMA NextKeepsJudging ==
  ASSUME IInv, Judging, [Next]_vars
  PROVE  Judging' /\ Forward
<1>1. AgentsJudged' /\ Forward
  BY AgentsStayJudged
<1>2. ASSUME NEW h \in Handlers, handler'[h] = handler[h]
      PROVE  HandlerJudged(h)'
  BY <1>1, <1>2, HandlerStays DEF Judging
<1>3. ASSUME NEW h \in Handlers, NEW c \in Nat, NEW pushed, Starts(h, c, pushed)
      PROVE  \A k \in Handlers : HandlerJudged(k)'
  <2> DEFINE new == [Idle EXCEPT !.pc = "claim", !.change = c, !.pushed = pushed]
  <2>1. /\ new.todo = {} /\ new.pc = "claim" /\ new.change = c /\ new.known = {} /\ new.caps = {}
    BY DEF Idle
  <2>2. handler' = [handler EXCEPT ![h] = new]
    BY <1>3 DEF Starts
  <2> HIDE DEF new
  <2>3. handler'[h] = new /\ \A k \in Handlers \ {h} : handler'[k] = handler[k]
    BY <2>2 DEF IInv, Shape
  <2>4. HandlerJudged(h)'
    BY <1>1, <2>1, <2>3, RestsJudged DEF Judging, Evaluating
  <2> QED
    BY <1>2, <2>3, <2>4
<1>4. \A h \in Handlers : HandlerJudged(h)'
  <2>1. ASSUME NEW w \in Works, WorkStep(w) \/ LockExpires(w) \/ StopStep(w)
        PROVE  UNCHANGED handler
    BY <2>1, WorkStepIsQuiet DEF WorkStep, Decide, DecideLoads, DecideSaves, Provision, Resume,
       HaltAgain, Activate, ProvisioningEnds, LockExpires, StopStep, Expiring, Expires, OtherLocks,
       OtherCleanup, OtherRevokes, OtherEnds, evaluating
  <2>2. ASSUME NEW cap \in Capabilities, NEW grant \in BOOLEAN,
               PermSet(cap, grant) \/ \E h \in Handlers : HolderSet(h, cap, grant)
        PROVE  UNCHANGED handler \/ \E h \in Handlers, c \in Nat : Starts(h, c, FALSE)
    <3>1. Len(changes) + 1 \in Nat
      BY DEF IInv, Shape
    <3> QED
      BY <2>2, <3>1 DEF PermSet, HolderSet, evaluating
  <2>3. ASSUME NEW h \in Handlers, NEW c \in inbox, Deliver(h, c)
        PROVE  c \in Nat /\ Starts(h, c, TRUE)
    BY <2>3 DEF Deliver, IInv, Shape
  <2>4. ASSUME NEW h \in Handlers, Reevaluates(h) \/ Reprovisions(h) \/ GoesWrong(h)
        PROVE  \A k \in Handlers : HandlerJudged(k)'
    BY <1>1, <1>2, <2>4, HandlerStepJudged
  <2>5. CASE UNCHANGED vars
    BY <1>2, <2>5 DEF vars, evaluating
  <2> QED
    BY <1>2, <1>3, <2>1, <2>2, <2>3, <2>4, <2>5 DEF Next
<1> QED
  BY <1>1, <1>4 DEF Judging

LEMMA InitJudges == Init => Judging
<1> SUFFICES ASSUME Init PROVE Judging
  OBVIOUS
<1>1. AgentsJudged
  <2>1. held \subseteq Capabilities /\ decisions = <<>> /\ decisions \in Seq(Decision)
    BY ConstantsAssumption DEF Init, ConstantsAssumption
  <2>2. ASSUME NEW w \in Works
        PROVE  /\ agent[w].status = "none" /\ agent[w].caps = {} /\ rebuilt[w] = 0
    BY DEF Init, NoAgent
  <2>3. DOMAIN decisions = {}
    BY <2>1
  <2> QED
    <3>1. \A w \in Works : OwnDecision(w)
      BY <2>2, <2>3 DEF OwnDecision, Is, NotYet, Alive
    <3>2. \A w \in Works : NeverResumed(w) /\ agent[w].caps \subseteq Capabilities
      BY <2>2 DEF NeverResumed
    <3> QED
      BY <2>1, <3>1, <3>2 DEF AgentsJudged
<1>2. \A h \in Handlers : HandlerJudged(h)
  BY DEF Init, HandlerJudged, Listed, Judged, Idle, Evaluating, None
<1> QED
  BY <1>1, <1>2 DEF Judging

\* A replacement is asked for with less than the agent has, never with what
\* came in at the same time, and never of an agent that lost nothing, however
\* many requests re-evaluate and whatever else is decided and provisioned
\* meanwhile (classify.ts:24-28, reevaluate.ts:164-169).
THEOREM NarrowingHolds == Spec => []NarrowingNarrows
<1>1. IInv /\ Judging /\ [Next]_vars => Judging'
  BY NextKeepsJudging
<1>2. Judging => NarrowingNarrows
  BY DEF Judging, HandlerJudged, Judged, Evaluating, NarrowingNarrows, At
<1> QED
  BY <1>1, <1>2, InitHasIt, NextKeepsIt, InitJudges, PTL DEF Spec

-----------------------------------------------------------------------------
(* A change that is announced is handled, and what is handled is under way *)
(* to each agent until it is stopped, or disturbed.                        *)

\* A message goes when its change was claimed, and the claim stays.
Claimed(h) ==
  /\ handler[h].change <= Len(changes)
  /\ handler[h].pc \notin {"idle", "claim"} => handler[h].change \in receipts
  /\ At(h, "claim") /\ handler[h].pushed /\ handler[h].change \notin receipts =>
       handler[h].change \in inbox
Announced ==
  /\ inbox \union receipts \subseteq 1 .. Len(changes)
  /\ \A h \in Handlers : Claimed(h)

\* Whose a lock is, as long as there is a record to lock, and what it is over.
Locked(w) ==
  /\ lock[w] \in {"free", "stale", "other"} \union Handlers
  /\ lock[w] \in Handlers /\ ~ Gone(w) =>
       handler[lock[w]].pc \in {"revoke", "cleanup"} /\ handler[lock[w]].work = w
  /\ lock[w] = "stale" => w \in disturbed
  /\ lock[w] = "other" => w \in others
Stopped(h) == At(h, "cleanup") => ~ Is(handler[h].work, "ACTIVE")

\* Whom a change reached has run, with the capability.
Reached(c) ==
  \A w \in changes[c].reach : Ran(w) /\ (~ Gone(w) => changes[c].cap \in agent[w].caps)

UnderwayAt(h, w, cap) ==
  \/ At(h, "claim") /\ handler[h].change \notin receipts
  \/ At(h, "agents")
  \/ w \in handler[h].todo
  \/ /\ handler[h].work = w
     /\ \/ handler[h].pc \in {"load", "ask", "revoke"}
        \/ At(h, "save") /\ cap \notin handler[h].caps
Underway(w, cap) ==
  \/ inbox \ receipts # {}
  \/ \E h \in Handlers : UnderwayAt(h, w, cap)
  \/ w \in others

\* What an agent lost, and what is to come of it.
IsReached(c, w) ==
  /\ w \in changes[c].reach \ disturbed
  /\ Is(w, "ACTIVE") /\ OwnDecisionBehind(w)
  /\ changes[c].cap \notin held
Reaching == \A c \in DOMAIN changes : \A w \in Works : IsReached(c, w) => Underway(w, changes[c].cap)

Handling ==
  /\ Announced
  /\ \A w \in Works : Locked(w)
  /\ \A h \in Handlers : Stopped(h)
  /\ \A c \in DOMAIN changes : Reached(c)
  /\ Reaching

\* An agent that ran with the capability, and is to lose it.
Loses(w, cap) == Is(w, "ACTIVE") /\ OwnDecisionBehind(w) /\ cap \in agent[w].caps \ held

LEMMA ReachedLoses ==
  ASSUME Judging, Handling, NEW c \in DOMAIN changes, NEW w \in Works, IsReached(c, w)
  PROVE  ~ Gone(w) /\ Loses(w, changes[c].cap) /\ Ran(w)
BY DEF Judging, AgentsJudged, NeverResumed, Handling, Reached, IsReached, Loses, Gone, Is, Ran, Alive

\* What was reached before a step, if it is reached after it.
LEMMA WasReached ==
  ASSUME Judging, Handling, Forward, NEW c \in DOMAIN changes, NEW w \in Works,
         changes'[c] = changes[c], changes[c].cap \notin held, disturbed \subseteq disturbed',
         AgentsJudged', IsReached(c, w)'
  PROVE  IsReached(c, w)
<1>1. w \in changes[c].reach \ disturbed /\ Is(w, "ACTIVE")' /\ OwnDecisionBehind(w)'
  BY DEF IsReached
<1>2. Ran(w) /\ ~ Gone(w)'
  BY <1>1 DEF Handling, Reached, AgentsJudged, NeverResumed, Gone, Is
<1> QED
  BY <1>1, <1>2, OwnDecisionStaysBehind DEF Forward, IsReached

\* A new change is under way to every agent that runs.
LEMMA ChangeGoesOut ==
  ASSUME IInv, Judging, Handling, NEW cap \in Capabilities, NEW grant \in BOOLEAN,
         PermSet(cap, grant) \/ \E h \in Handlers : HolderSet(h, cap, grant),
         NEW w \in Works, Is(w, "ACTIVE"), w \notin disturbed', NEW lost
  PROVE  Underway(w, lost)'
<1>1. Len(changes) + 1 \notin inbox \union receipts
  BY DEF Handling, Announced, IInv, Shape
<1>2. CASE PermSet(cap, grant)
  BY <1>1, <1>2 DEF PermSet, Running, Is, Underway
<1>3. ASSUME NEW h \in Handlers, HolderSet(h, cap, grant) PROVE Underway(w, lost)'
  <2> DEFINE new == [Idle EXCEPT !.pc = "claim", !.change = Len(changes) + 1, !.pushed = FALSE]
  <2>1. new.pc = "claim" /\ new.change = Len(changes) + 1
    BY DEF Idle
  <2>2. handler' = [handler EXCEPT ![h] = new] /\ receipts' = receipts
    BY <1>3 DEF HolderSet, Starts
  <2> HIDE DEF new
  <2>3. UnderwayAt(h, w, lost)'
    BY <1>1, <2>1, <2>2 DEF IInv, Shape, UnderwayAt, At
  <2> QED
    BY <2>3 DEF Underway
<1> QED
  BY <1>2, <1>3

\* A handler takes what is under way to an agent on, until the agent is stopped.
LEMMA HandlerPursues ==
  ASSUME IInv, Judging, Handling, NEW h \in Handlers,
         Reevaluates(h) \/ Reprovisions(h) \/ GoesWrong(h),
         NEW w \in Works, Is(w, "ACTIVE"), Is(w, "ACTIVE")', ~ Gone(w), Ran(w), w \notin disturbed',
         NEW cap, Loses(w, cap), UnderwayAt(h, w, cap)
  PROVE  Underway(w, cap)'
<1>1. /\ HandlerJudged(h) /\ DOMAIN handler[h] = DOMAIN Idle /\ DOMAIN handler = Handlers
      /\ ShapeOf(h) /\ Claimed(h) /\ Stopped(h) /\ DOMAIN agent[w] = DOMAIN NoAgent
  <2>1. HandlerJudged(h) /\ Claimed(h) /\ Stopped(h)
    BY DEF Judging, Handling, Announced
  <2> QED
    BY <2>1 DEF IInv, Shape, ShapeOf
<1>2. ~ (Is(w, "gone") \/ Is(w, "REVOKED") \/ Is(w, "EXPIRING"))
  BY DEF Is
<1>3. CASE Claim(h)
  <2>1. CASE handler[h].change \in receipts
    BY <1>1, <1>3, <2>1 DEF Claim, UnderwayAt, At, HandlerJudged, Listed
  <2>2. CASE handler[h].change \notin receipts
    <3>1. handler'[h].pc = "agents"
      BY <1>1, <1>3, <2>2 DEF Claim, Goto, Idle
    <3> QED
      BY <3>1 DEF Underway, UnderwayAt, At
  <2> QED
    BY <2>1, <2>2
<1>4. CASE ListAgents(h)
  <2>1. w \in handler'[h].todo
    BY <1>1, <1>4 DEF ListAgents, Running, Is, Idle
  <2> QED
    BY <2>1 DEF Underway, UnderwayAt
<1>5. CASE ListDecisions(h)
  <2>1. w \in handler'[h].todo
    BY <1>1, <1>5 DEF ListDecisions, UnderwayAt, At, Idle
  <2> QED
    BY <2>1 DEF Underway, UnderwayAt
<1>6. ASSUME NEW v \in Works, Examine(h, v) PROVE Underway(w, cap)'
  <2>1. w \in handler[h].todo /\ handler[h].pc = "next"
    BY <1>1, <1>6 DEF Examine, UnderwayAt, At
  <2>2. CASE v # w
    <3>1. w \in handler'[h].todo
      BY <1>1, <1>6, <2>1, <2>2 DEF Examine, Idle
    <3> QED
      BY <3>1 DEF Underway, UnderwayAt
  <2>3. CASE v = w
    <3> DEFINE previous == decisionBehind(w, handler[h].known)
    <3>1. proposalOf(previous)
      BY <1>1, <2>1, DecisionBehindIsOwn DEF Judging, HandlerJudged, Listed, Loses
    <3>2. handler' = [handler EXCEPT ![h].todo = handler[h].todo \ {w}, ![h].pc = "load",
             ![h].work = w, ![h].previous = previous, ![h].mine = Len(decisions) + 1]
      BY <1>6, <2>3, <3>1 DEF Examine
    <3> HIDE DEF previous
    <3>3. handler'[h].pc = "load" /\ handler'[h].work = w
      BY <1>1, <3>2 DEF Idle
    <3> QED
      BY <3>3 DEF Underway, UnderwayAt, At
  <2> QED
    BY <2>2, <2>3
<1>7. CASE LoadPolicyInputs(h)
  <2>1. /\ handler[h].pc = "load" /\ handler'[h].pc = "save" /\ handler'[h].work = handler[h].work
        /\ handler'[h].todo = handler[h].todo /\ handler'[h].caps \subseteq held
    BY <1>1, <1>7 DEF LoadPolicyInputs, At, Effective, Idle
  <2>2. UnderwayAt(h, w, cap)'
    BY <2>1 DEF UnderwayAt, At, Loses
  <2> QED
    BY <2>2 DEF Underway
<1>8. CASE SaveDecision(h)
  <2> DEFINE old == decisions[handler[h].previous].caps
             new == handler[h].caps
             kind == classifyChange(old, new)
  <2>1. /\ handler[h].pc = "save"
        /\ handler' = [handler EXCEPT
             ![h].pc = IF kind \in {"shrunk", "mixed"} THEN "ask" ELSE "next",
             ![h].caps = IF kind = "mixed" THEN retainedCapabilities(old, new) ELSE new]
    BY <1>8 DEF SaveDecision, At
  <2>2. /\ handler'[h].todo = handler[h].todo /\ handler'[h].work = handler[h].work
        /\ handler'[h].pc = IF kind \in {"shrunk", "mixed"} THEN "ask" ELSE "next"
    <3> HIDE DEF old, new, kind
    <3> QED
      BY <1>1, <2>1 DEF Idle
  <2>3. CASE w \in handler[h].todo
    BY <2>2, <2>3 DEF Underway, UnderwayAt
  <2>4. CASE w \notin handler[h].todo
    <3>1. handler[h].work = w /\ cap \notin new
      BY <2>1, <2>4 DEF UnderwayAt, At
    <3>2. old = agent[w].caps
      BY <1>1, <2>1, <3>1
         DEF HandlerJudged, Judged, Evaluating, Loses, Judging, AgentsJudged, OwnDecision, Is, Alive
    <3>3. cap \in old
      BY <3>2 DEF Loses
    <3>4. kind \in {"shrunk", "mixed"}
      <4> HIDE DEF old, new
      <4> QED
        BY <3>1, <3>3 DEF classifyChange
    <3>5. UnderwayAt(h, w, cap)'
      BY <2>2, <3>1, <3>4 DEF UnderwayAt, At
    <3> QED
      BY <3>5 DEF Underway
  <2> QED
    BY <2>3, <2>4
<1>9. CASE Finish(h)
  BY <1>1, <1>9 DEF Finish, UnderwayAt, At
<1>10. CASE LockAgent(h)
  <2>1. handler[h].pc = "ask" /\ UNCHANGED <<inbox, receipts, agent, disturbed, others>>
    BY <1>10 DEF LockAgent, At, cleanups
  <2>2. CASE w \in handler[h].todo
    <3>1. handler'[h].todo = handler[h].todo
      BY <1>1, <1>10 DEF LockAgent, Goto, Idle
    <3> QED
      BY <2>2, <3>1 DEF Underway, UnderwayAt
  <2>3. CASE w \notin handler[h].todo
    <3>1. handler[h].work = w
      BY <2>1, <2>3 DEF UnderwayAt, At
    <3>2. CASE lock[w] = "free"
      <4>1. handler'[h].pc = "revoke" /\ handler'[h].work = w
        BY <1>1, <1>10, <3>1, <3>2 DEF LockAgent, Goto, Idle
      <4> QED
        BY <4>1 DEF Underway, UnderwayAt, At
    <3>3. CASE lock[w] # "free"
      <4>2. CASE lock[w] = "other"
        BY <2>1, <4>2 DEF Handling, Locked, Underway
      <4>3. CASE lock[w] = "stale"
        BY <2>1, <4>3 DEF Handling, Locked
      <4>4. CASE lock[w] \in Handlers
        <5>1. PICK k \in Handlers : k = lock[w]
          BY <4>4
        <5>2. handler[k].pc = "revoke" /\ handler[k].work = w
          BY <5>1 DEF Handling, Locked, Stopped, At
        <5>3. handler'[k] = handler[k]
          BY <1>1, <1>10, <2>1, <5>2 DEF LockAgent, Goto
        <5>4. UnderwayAt(k, w, cap)'
          BY <5>2, <5>3 DEF UnderwayAt, At
        <5> QED
          BY <5>4 DEF Underway
      <4> QED
        BY <3>3, <4>2, <4>3, <4>4 DEF Handling, Locked
    <3> QED
      BY <3>2, <3>3
  <2> QED
    BY <2>2, <2>3
<1>11. CASE Revoke(h)
  <2>1. handler[h].pc = "revoke" /\ handler'[h].todo = handler[h].todo
    BY <1>1, <1>11 DEF Revoke, Goto, At, Idle
  <2>2. handler[h].work # w
    BY <1>1, <1>11 DEF Revoke, Becomes, Is, IInv, Shape, NoAgent
  <2>3. w \in handler'[h].todo
    BY <2>1, <2>2 DEF UnderwayAt, At
  <2> QED
    BY <2>3 DEF Underway, UnderwayAt
<1>12. CASE (\E complete \in BOOLEAN : CleanupEnds(h, complete)) \/ Rebuild(h) \/ RebuildAborts(h)
  <2>1. handler[h].pc \in {"cleanup", "rebuild"} /\ handler'[h].todo = handler[h].todo
    BY <1>1, <1>12 DEF CleanupEnds, Rebuild, RebuildAborts, Goto, At, Idle
  <2>2. w \in handler'[h].todo
    BY <2>1 DEF UnderwayAt, At
  <2> QED
    BY <2>2 DEF Underway, UnderwayAt
<1>13. CASE AgentFails(h) \/ LifecycleDies(h)
  <2>1. handler[h].pc \in HasAgent /\ handler'[h].todo = handler[h].todo
        /\ handler[h].work \in disturbed'
    BY <1>1, <1>13, AtWork DEF AgentFails, LifecycleDies, HasAgent, Idle
  <2>2. w \in handler'[h].todo
    BY <2>1 DEF UnderwayAt, At, HasAgent
  <2> QED
    BY <2>2 DEF Underway, UnderwayAt
<1>14. CASE HandlerDies(h)
  <2>1. /\ handler[h].pc = "claim" /\ handler[h].pushed /\ handler[h].change \notin receipts
        /\ UNCHANGED <<inbox, receipts>>
    BY <1>1, <1>14 DEF HandlerDies, Answers, UnderwayAt, At, HandlerJudged, Listed
  <2> QED
    BY <1>1, <2>1 DEF Claimed, At, Underway
<1> QED
  BY <1>3, <1>4, <1>5, <1>6, <1>7, <1>8, <1>9, <1>10, <1>11, <1>12, <1>13, <1>14
     DEF Reevaluates, Reprovisions, GoesWrong

\* What a change is, and what is known of it, stays.
LEMMA ChangesStay ==
  ASSUME IInv, Judging, Handling, [Next]_vars
  PROVE  /\ disturbed \subseteq disturbed' /\ Len(changes) \in Nat
         /\ \/ UNCHANGED <<changes, held>>
            \/ /\ \E cap \in Capabilities, grant \in BOOLEAN :
                    /\ PermSet(cap, grant) \/ \E h \in Handlers : HolderSet(h, cap, grant)
                    /\ changes' = Append(changes,
                         [cap |-> cap,
                          reach |-> IF grant THEN {} ELSE {w \in Running : cap \in agent[w].caps}])
               /\ UNCHANGED agent
<1>1. ASSUME NEW w \in Works, WorkStep(w) \/ LockExpires(w) \/ StopStep(w)
      PROVE  UNCHANGED <<changes, held, disturbed>>
  BY <1>1 DEF WorkStep, Decide, DecideLoads, DecideSaves, Provision, Resume,
       HaltAgain, Activate, ProvisioningEnds, LockExpires, StopStep, Expiring, Expires, OtherLocks,
       OtherCleanup, OtherRevokes, OtherEnds
<1>2. ASSUME NEW h \in Handlers, Reevaluates(h) \/ Reprovisions(h) \/ GoesWrong(h)
      PROVE  UNCHANGED <<changes, held>> /\ disturbed \subseteq disturbed'
  BY <1>2 DEF Reevaluates, Claim, ListAgents, ListDecisions, Examine, LoadPolicyInputs,
     SaveDecision, Finish, Reprovisions, LockAgent, Revoke, CleanupEnds, Rebuild,
     RebuildAborts, GoesWrong, AgentFails, LifecycleDies, HandlerDies
<1>3. ASSUME NEW h \in Handlers, NEW c \in inbox, Deliver(h, c)
      PROVE  UNCHANGED <<changes, held, disturbed>>
  BY <1>3 DEF Deliver
<1>4. ASSUME NEW cap \in Capabilities, NEW grant \in BOOLEAN,
             PermSet(cap, grant) \/ \E h \in Handlers : HolderSet(h, cap, grant)
      PROVE  /\ disturbed \subseteq disturbed' /\ UNCHANGED agent
             /\ changes' = Append(changes,
                  [cap |-> cap,
                   reach |-> IF grant THEN {} ELSE {w \in Running : cap \in agent[w].caps}])
  BY <1>4 DEF PermSet, HolderSet, Changed
<1>5. Len(changes) \in Nat
  BY DEF IInv, Shape
<1>6. CASE UNCHANGED vars
  BY <1>5, <1>6 DEF vars
<1>7. CASE Next
  BY <1>1, <1>2, <1>3, <1>4, <1>5, <1>7 DEF Next
<1> QED
  BY <1>6, <1>7

LEMMA ReachedStays ==
  ASSUME IInv, Judging, Handling, [Next]_vars, Forward, NEW c \in DOMAIN changes'
  PROVE  Reached(c)'
<1> DEFINE reach(cap, grant) == IF grant THEN {} ELSE {w \in Running : cap \in agent[w].caps}
<1>1. CASE c \in DOMAIN changes /\ changes'[c] = changes[c]
  <2> DEFINE Change == [cap : Capabilities, reach : SUBSET Works]
  <2>1. changes \in Seq(Change)
    BY DEF IInv, Shape
  <2>2. changes[c] \in Change
    <3> HIDE DEF Change
    <3> QED
      BY <1>1, <2>1
  <2> QED
    BY <1>1, <2>2 DEF Handling, Reached, Forward
<1>2. ASSUME NEW cap \in Capabilities, NEW grant \in BOOLEAN, c = Len(changes) + 1,
             changes'[c] = [cap |-> cap, reach |-> reach(cap, grant)], UNCHANGED agent,
             PermSet(cap, grant) \/ \E h \in Handlers : HolderSet(h, cap, grant)
      PROVE  Reached(c)'
  <2>1. changes'[c].cap = cap /\ changes'[c].reach = reach(cap, grant)
    <3> HIDE DEF reach
    <3> QED
      BY <1>2
  <2>2. \A w \in reach(cap, grant) : w \in Works /\ Ran(w) /\ cap \in agent[w].caps
    BY DEF Running, Ran, Alive
  <2> HIDE DEF reach
  <2> QED
    BY <1>2, <2>1, <2>2 DEF Reached, Forward
<1>3. CASE UNCHANGED <<changes, held>>
  BY <1>1, <1>3
<1>4. ASSUME NEW cap \in Capabilities, NEW grant \in BOOLEAN, UNCHANGED agent,
             PermSet(cap, grant) \/ \E h \in Handlers : HolderSet(h, cap, grant),
             changes' = Append(changes, [cap |-> cap, reach |-> reach(cap, grant)])
      PROVE  Reached(c)'
  <2> DEFINE new == [cap |-> cap, reach |-> reach(cap, grant)]
             Change == [cap : Capabilities, reach : SUBSET Works]
  <2>1. changes \in Seq(Change) /\ new \in Change
    BY DEF IInv, Shape, Running
  <2>2. changes' = Append(changes, new)
    BY <1>4
  <2>3. \/ c \in DOMAIN changes /\ changes'[c] = changes[c]
        \/ c = Len(changes) + 1 /\ changes'[c] = new
    <3> HIDE DEF new, Change
    <3> QED
      BY <2>1, <2>2
  <2> QED
    BY <1>1, <1>2, <1>4, <2>3
<1> QED
  BY <1>3, <1>4, ChangesStay

LEMMA HandlerStepAnnounces ==
  ASSUME IInv, Judging, Handling, NEW h \in Handlers,
         Reevaluates(h) \/ Reprovisions(h) \/ GoesWrong(h)
  PROVE  /\ Announced'
         /\ inbox \ receipts \subseteq inbox' /\ receipts \subseteq receipts'
         /\ receipts' \subseteq receipts \union {handler[h].change}
         /\ receipts' # receipts => At(h, "agents")'
<1>1. /\ HandlerJudged(h) /\ ShapeOf(h) /\ Claimed(h) /\ DOMAIN handler = Handlers
      /\ Len(changes) \in Nat /\ inbox \union receipts \subseteq 1 .. Len(changes)
      /\ UNCHANGED changes
  <2>1. UNCHANGED changes
    BY DEF Reevaluates, Claim, ListAgents, ListDecisions, Examine, LoadPolicyInputs,
       SaveDecision, Finish, Reprovisions, LockAgent, Revoke, CleanupEnds, Rebuild,
       RebuildAborts, GoesWrong, AgentFails, LifecycleDies, HandlerDies
  <2> QED
    BY <2>1 DEF Judging, Handling, Announced, IInv, Shape
<1>2. /\ DOMAIN handler[h] = DOMAIN Idle /\ handler[h].change \in Nat
      /\ handler[h].pc # "idle" => handler[h].change \in 1 .. Len(changes)
  BY <1>1 DEF ShapeOf, HandlerJudged, Claimed, None
<1>3. \A k \in Handlers \ {h} : handler'[k] = handler[k]
  BY <1>1 DEF Reevaluates, Claim, ListAgents, ListDecisions, Examine, LoadPolicyInputs,
     SaveDecision, Finish, Answers, Goto, Reprovisions, LockAgent, Revoke, CleanupEnds, Rebuild,
     RebuildAborts, GoesWrong, AgentFails, LifecycleDies, HandlerDies
<1>4. /\ handler'[h].change \in {None, handler[h].change}
      /\ handler'[h].pc # "claim"
      /\ handler'[h].pc # "idle" => handler'[h].change = handler[h].change
      /\ inbox' \subseteq inbox
      /\ inbox \ receipts \subseteq inbox' /\ receipts \subseteq receipts'
      /\ receipts' \subseteq receipts \union {handler[h].change}
      /\ receipts' # receipts => handler'[h].pc = "agents" /\ handler[h].pc = "claim"
      /\ handler'[h].pc # "idle" => handler[h].change \in receipts'
  <2>1. CASE Claim(h)
    BY <1>1, <1>2, <2>1 DEF Claim, Answers, Goto, At, Idle, None
  <2>2. CASE Finish(h) \/ HandlerDies(h)
    BY <1>1, <1>2, <2>2 DEF Finish, HandlerDies, Answers, At, Idle, None, Claimed
  <2>3. CASE ~ (Claim(h) \/ Finish(h) \/ HandlerDies(h))
    <3>1. UNCHANGED <<inbox, receipts>> /\ handler[h].pc \notin {"idle", "claim"}
      BY <2>3 DEF Reevaluates, ListAgents, ListDecisions, Examine, LoadPolicyInputs,
         SaveDecision, Reprovisions, LockAgent, Revoke, CleanupEnds, Rebuild,
         RebuildAborts, GoesWrong, AgentFails, LifecycleDies, At
    <3>2. /\ handler'[h].change = handler[h].change
          /\ handler'[h].pc \notin {"idle", "claim"}
      <4>1. CASE ListAgents(h) \/ ListDecisions(h) \/ LoadPolicyInputs(h) \/ SaveDecision(h)
        BY <1>1, <1>2, <4>1 DEF ListAgents, ListDecisions, LoadPolicyInputs, SaveDecision, Idle
      <4>2. ASSUME NEW v \in Works, Examine(h, v)
            PROVE  handler'[h].change = handler[h].change /\ handler'[h].pc \in {"next", "load"}
        BY <1>1, <1>2, <4>2 DEF Examine, At, Idle
      <4>3. CASE Reprovisions(h) \/ AgentFails(h) \/ LifecycleDies(h)
        <5>1. \/ \E pc \in {"next", "revoke", "cleanup", "rebuild"} : Goto(h, pc)
              \/ \E failed : handler' = [handler EXCEPT ![h].pc = "next", ![h].failed = failed]
          BY <4>3, HandlerGoesOn
        <5> QED
          BY <1>1, <1>2, <5>1 DEF Goto, Idle
      <4> QED
        BY <2>3, <4>1, <4>2, <4>3 DEF Reevaluates, GoesWrong
    <3> QED
      BY <1>1, <3>1, <3>2 DEF Claimed
  <2> QED
    BY <2>1, <2>2, <2>3
<1>5. Claimed(h)'
  BY <1>1, <1>2, <1>4 DEF Claimed, At, None
<1>6. ASSUME NEW k \in Handlers \ {h} PROVE Claimed(k)'
  <2>1. Claimed(k)
    BY DEF Handling, Announced
  <2> QED
    BY <1>1, <1>3, <1>4, <2>1 DEF Claimed, At
<1> QED
  BY <1>1, <1>2, <1>4, <1>5, <1>6 DEF Announced, At

\* Who has a lock is at work on the agent, and has stopped it when it cleans up.
LEMMA HandlerStepLocks ==
  ASSUME IInv, Judging, Handling, Forward, NEW h \in Handlers,
         Reevaluates(h) \/ Reprovisions(h) \/ GoesWrong(h)
  PROVE  /\ \A w \in Works : Locked(w)'
         /\ others' = others
         /\ \A k \in Handlers : Stopped(k)'
         /\ \A k \in Handlers \ {h} : handler'[k] = handler[k]
<1>1. /\ ShapeOf(h) /\ DOMAIN handler = Handlers /\ DOMAIN lock = Works /\ DOMAIN agent = Works
      /\ disturbed \subseteq disturbed' /\ others' = others
      /\ \A w \in Works : /\ Locked(w) /\ DOMAIN agent[w] = DOMAIN NoAgent
                          /\ ~ Gone(w)' => ~ Gone(w)
  <2>1. disturbed \subseteq disturbed' /\ others' = others
    BY DEF Reevaluates, Claim, ListAgents, ListDecisions, Examine, LoadPolicyInputs,
       SaveDecision, Finish, Reprovisions, LockAgent, Revoke, CleanupEnds, Rebuild,
       RebuildAborts, GoesWrong, AgentFails, LifecycleDies, HandlerDies, cleanups
  <2>2. \A w \in Works : ~ Gone(w)' => ~ Gone(w)
    BY DEF Forward, Gone, Is, Ran
  <2> QED
    BY <2>1, <2>2 DEF Handling, IInv, Shape
<1>2. \A k \in Handlers \ {h} : handler'[k] = handler[k]
  BY <1>1 DEF Reevaluates, Claim, ListAgents, ListDecisions, Examine, LoadPolicyInputs,
     SaveDecision, Finish, Answers, Goto, Reprovisions, LockAgent, Revoke, CleanupEnds, Rebuild,
     RebuildAborts, GoesWrong, AgentFails, LifecycleDies, HandlerDies
<1>3. ASSUME NEW k \in Handlers \ {h} PROVE Stopped(k)'
  <2>1. handler[k].pc = "cleanup" =>
          handler[k].work \in Works /\ Ran(handler[k].work) /\ ~ Is(handler[k].work, "ACTIVE")
    BY AtWork DEF Handling, Stopped, At, HasAgent
  <2> QED
    BY <1>2, <2>1 DEF Stopped, At, Is, Forward
<1>4. CASE \/ Claim(h) \/ ListAgents(h) \/ ListDecisions(h) \/ LoadPolicyInputs(h)
           \/ SaveDecision(h) \/ Finish(h) \/ AgentFails(h) \/ HandlerDies(h)
           \/ Rebuild(h) \/ RebuildAborts(h) \/ \E w \in Works : Examine(h, w)
  <2>1. lock' = lock /\ handler[h].pc \notin {"revoke", "cleanup"}
    BY <1>4 DEF Claim, ListAgents, ListDecisions, Examine, LoadPolicyInputs,
       SaveDecision, Finish, AgentFails, HandlerDies, Rebuild, RebuildAborts, At
  <2>2. handler'[h].pc # "cleanup"
    <3>1. CASE Claim(h) \/ Finish(h) \/ HandlerDies(h)
      BY <1>1, <3>1 DEF Claim, Finish, HandlerDies, Answers, Goto, Idle, ShapeOf
    <3>2. CASE ListAgents(h) \/ ListDecisions(h) \/ LoadPolicyInputs(h)
      BY <1>1, <3>2 DEF ListAgents, ListDecisions, LoadPolicyInputs, Idle, ShapeOf
    <3>3. CASE SaveDecision(h) \/ AgentFails(h) \/ Rebuild(h) \/ RebuildAborts(h)
      BY <1>1, <3>3 DEF SaveDecision, AgentFails, Rebuild, RebuildAborts, Goto, Idle, ShapeOf
    <3>4. ASSUME NEW w \in Works, Examine(h, w) PROVE handler'[h].pc \in {"next", "load"}
      BY <1>1, <3>4 DEF Examine, At, Idle, ShapeOf
    <3> QED
      BY <1>4, <3>1, <3>2, <3>3, <3>4
  <2>3. \A w \in Works : Locked(w)'
    BY <1>1, <1>2, <2>1 DEF Locked
  <2>4. Stopped(h)'
    BY <2>2 DEF Stopped, At
  <2> QED
    BY <1>1, <1>2, <1>3, <2>3, <2>4
<1>5. CASE LockAgent(h)
  <2>1. handler[h].pc = "ask" /\ UNCHANGED agent /\ handler[h].work \in Works
    BY <1>5, AtWork DEF LockAgent, At, HasAgent
  <2>2. \/ /\ lock[handler[h].work] = "free" /\ lock' = [lock EXCEPT ![handler[h].work] = h]
           /\ handler'[h].pc = "revoke" /\ handler'[h].work = handler[h].work
        \/ lock' = lock /\ handler'[h].pc = "next"
    <3>1. CASE ~ Gone(handler[h].work) /\ lock[handler[h].work] = "free"
      BY <1>1, <1>5, <3>1 DEF LockAgent, Goto, Idle, ShapeOf
    <3>2. CASE ~ (~ Gone(handler[h].work) /\ lock[handler[h].work] = "free")
      <4>1. /\ lock' = lock
            /\ \E failed : handler' = [handler EXCEPT ![h].pc = "next", ![h].failed = failed]
        BY <1>5, <3>2 DEF LockAgent
      <4> QED
        BY <1>1, <4>1 DEF Idle, ShapeOf
    <3> QED
      BY <3>1, <3>2
  <2>3. \A w \in Works : Locked(w)'
    BY <1>1, <1>2, <2>1, <2>2, ConstantsAssumption DEF Locked, ConstantsAssumption
  <2>4. Stopped(h)'
    BY <2>2 DEF Stopped, At
  <2> QED
    BY <1>1, <1>2, <1>3, <2>3, <2>4
<1>6. CASE Revoke(h)
  <2>1. handler[h].pc = "revoke" /\ handler[h].work \in Works /\ lock' = lock
    BY <1>6, AtWork DEF Revoke, At, HasAgent
  <2>2. /\ handler'[h].work = handler[h].work
        /\ IF Gone(handler[h].work) THEN handler'[h].pc = "next" ELSE handler'[h].pc = "cleanup"
    BY <1>1, <1>6 DEF Revoke, Goto, Idle, ShapeOf
  <2>3. ~ Gone(handler[h].work) => agent'[handler[h].work].status # "ACTIVE"
    BY <1>1, <1>6, <2>1 DEF Revoke, Becomes, Is, NoAgent
  <2>4. \A w \in Works : Locked(w)'
    BY <1>1, <1>2, <2>1, <2>2 DEF Locked
  <2>5. Stopped(h)'
    BY <2>2, <2>3 DEF Stopped, At, Is
  <2> QED
    BY <1>1, <1>2, <1>3, <2>4, <2>5
<1>7. CASE (\E complete \in BOOLEAN : CleanupEnds(h, complete)) \/ LifecycleDies(h)
  <2>1. /\ handler[h].pc \in HasAgent /\ handler[h].work \in Works
        /\ handler'[h].pc \in {"next", "rebuild"}
    BY <1>1, <1>7, AtWork DEF CleanupEnds, LifecycleDies, At, HasAgent, Goto, Idle, ShapeOf
  <2>2. \/ lock' = [lock EXCEPT ![handler[h].work] = "free"]
        \/ /\ lock' = [lock EXCEPT ![handler[h].work] = IF @ = h THEN "stale" ELSE @]
           /\ handler[h].work \in disturbed'
    BY <1>7 DEF CleanupEnds, LifecycleDies
  <2>3. \A w \in Works : Locked(w)'
    BY <1>1, <1>2, <2>1, <2>2, ConstantsAssumption DEF Locked, ConstantsAssumption
  <2>4. Stopped(h)'
    BY <2>1 DEF Stopped, At
  <2> QED
    BY <1>1, <1>2, <1>3, <2>3, <2>4
<1> QED
  BY <1>4, <1>5, <1>6, <1>7 DEF Reevaluates, Reprovisions, GoesWrong

\* What is announced, and what is under way, is not lost.
LEMMA HandlerStepHandles ==
  ASSUME IInv, Judging, Handling, [Next]_vars, AgentsJudged', Forward, NEW h \in Handlers,
         Reevaluates(h) \/ Reprovisions(h) \/ GoesWrong(h)
  PROVE  Handling'
<1>1. /\ Announced' /\ inbox \ receipts \subseteq inbox' /\ receipts \subseteq receipts'
      /\ receipts' \subseteq receipts \union {handler[h].change}
      /\ receipts' # receipts => At(h, "agents")'
  BY HandlerStepAnnounces
<1>2. /\ \A w \in Works : Locked(w)'
      /\ others' = others
      /\ \A k \in Handlers : Stopped(k)'
      /\ \A k \in Handlers \ {h} : handler'[k] = handler[k]
  BY HandlerStepLocks
<1>3. UNCHANGED <<changes, held>> /\ disturbed \subseteq disturbed'
  BY ChangesStay DEF Reevaluates, Claim, ListAgents, ListDecisions, Examine, LoadPolicyInputs,
     SaveDecision, Finish, Reprovisions, LockAgent, Revoke, CleanupEnds, Rebuild,
     RebuildAborts, GoesWrong, AgentFails, LifecycleDies, HandlerDies
<1>4. ASSUME NEW c \in DOMAIN changes, NEW w \in Works, IsReached(c, w)'
      PROVE  Underway(w, changes[c].cap)'
  <2>0. PICK cap : cap = changes[c].cap
    OBVIOUS
  <2> SUFFICES Underway(w, cap)'
    BY <1>3, <2>0
  <2>1. IsReached(c, w)
    BY <1>3, <1>4, WasReached DEF IsReached
  <2>2. /\ ~ Gone(w) /\ Loses(w, cap) /\ Ran(w) /\ Is(w, "ACTIVE") /\ Is(w, "ACTIVE")'
        /\ w \notin disturbed'
    BY <1>4, <2>0, <2>1, ReachedLoses DEF IsReached
  <2>3. Underway(w, cap)
    BY <2>0, <2>1 DEF Handling, Reaching
  <2>4. CASE inbox \ receipts # {}
    BY <1>1, <2>4 DEF Underway, UnderwayAt
  <2>5. ASSUME NEW k \in Handlers \ {h}, UnderwayAt(k, w, cap) PROVE Underway(w, cap)'
    BY <1>1, <1>2, <1>3, <2>5 DEF Underway, UnderwayAt, At
  <2>6. CASE UnderwayAt(h, w, cap)
    BY <2>2, <2>6, HandlerPursues
  <2>7. CASE w \in others
    BY <1>2, <2>7 DEF Underway
  <2> QED
    BY <2>3, <2>4, <2>5, <2>6, <2>7 DEF Underway
<1>5. Reaching'
  BY <1>3, <1>4 DEF Reaching
<1> QED
  BY <1>1, <1>2, <1>5, ReachedStays DEF Handling

\* Nor by what happens to agents otherwise.
LEMMA WorkStepHandles ==
  ASSUME IInv, Judging, Handling, [Next]_vars, AgentsJudged', Forward,
         \/ UNCHANGED vars
         \/ \E w \in Works : WorkStep(w) \/ LockExpires(w) \/ StopStep(w)
  PROVE  Handling'
<1>1. UNCHANGED <<held, changes, inbox, receipts, handler, disturbed>>
  BY DEF WorkStep, Decide, DecideLoads, DecideSaves, Provision, Resume,
       HaltAgain, Activate, ProvisioningEnds, LockExpires, StopStep, Expiring, Expires, OtherLocks,
       OtherCleanup, OtherRevokes, OtherEnds, evaluating, vars
<1>2. ASSUME NEW v \in Works
      PROVE  Locked(v)' /\ (v \in others /\ Is(v, "ACTIVE")' => v \in others')
  <2>1. /\ Locked(v) /\ DOMAIN lock = Works /\ DOMAIN agent = Works
        /\ DOMAIN agent[v] = DOMAIN NoAgent /\ (~ Gone(v)' => ~ Gone(v))
    BY DEF Handling, IInv, Shape, Forward, Gone, Is, Ran
  <2>2. CASE lock' = lock /\ others' = others
    BY <1>1, <2>1, <2>2 DEF Locked
  <2>3. ASSUME NEW w \in Works, LockExpires(w)
        PROVE  Locked(v)' /\ others' = others
    BY <1>1, <2>1, <2>3, ConstantsAssumption DEF Locked, LockExpires, ConstantsAssumption
  <2>4. ASSUME NEW w \in Works, OtherLocks(w)
        PROVE  Locked(v)' /\ others \subseteq others'
    BY <1>1, <2>1, <2>4, ConstantsAssumption DEF Locked, OtherLocks, ConstantsAssumption
  <2>5. ASSUME NEW w \in Works, NEW complete \in BOOLEAN, OtherEnds(w, complete)
        PROVE  Locked(v)' /\ (v \in others /\ Is(v, "ACTIVE")' => v \in others')
    <3>1. /\ lock' = [lock EXCEPT ![w] = "free"] /\ others' = others \ {w}
          /\ v = w => ~ Is(v, "ACTIVE")'
      BY <2>1, <2>5 DEF OtherEnds, Becomes, Is, NoAgent
    <3> QED
      BY <1>1, <2>1, <3>1, ConstantsAssumption DEF Locked, ConstantsAssumption
  <2>6. ASSUME NEW w \in Works,
               UNCHANGED vars \/ WorkStep(w) \/ Expiring(w) \/ Expires(w) \/ OtherRevokes(w)
        PROVE  lock' = lock /\ others' = others
    BY <2>6 DEF WorkStep, Decide, DecideLoads, DecideSaves, Provision, Resume,
       HaltAgain, Activate, ProvisioningEnds, Expiring, Expires, OtherRevokes, vars, cleanups
  <2> QED
    BY <2>2, <2>3, <2>4, <2>5, <2>6 DEF StopStep, OtherCleanup, vars, cleanups
<1>3. ASSUME NEW k \in Handlers PROVE Stopped(k)'
  <2>1. handler[k].pc = "cleanup" =>
          handler[k].work \in Works /\ Ran(handler[k].work) /\ ~ Is(handler[k].work, "ACTIVE")
    BY AtWork DEF Handling, Stopped, At, HasAgent
  <2> QED
    BY <1>1, <2>1 DEF Stopped, At, Is, Forward
<1>4. ASSUME NEW c \in DOMAIN changes, NEW w \in Works, IsReached(c, w)'
      PROVE  Underway(w, changes[c].cap)'
  <2>1. IsReached(c, w) /\ Is(w, "ACTIVE")'
    BY <1>1, <1>4, WasReached DEF IsReached
  <2>2. Underway(w, changes[c].cap)
    BY <2>1 DEF Handling, Reaching
  <2> QED
    BY <1>1, <1>2, <2>1, <2>2 DEF Underway, UnderwayAt, At
<1>5. Reaching'
  BY <1>1, <1>4 DEF Reaching
<1>6. Announced'
  BY <1>1 DEF Handling, Announced, Claimed, At
<1> QED
  BY <1>2, <1>3, <1>5, <1>6, ReachedStays DEF Handling

\* A message that is delivered is under way twice.
LEMMA DeliverHandles ==
  ASSUME IInv, Judging, Handling, [Next]_vars, AgentsJudged', Forward,
         NEW h \in Handlers, NEW m \in inbox, Deliver(h, m)
  PROVE  Handling'
<1> DEFINE new == [Idle EXCEPT !.pc = "claim", !.change = m, !.pushed = TRUE]
<1>1. /\ UNCHANGED <<held, changes, inbox, receipts, agent, decisions, lock, others, rebuilt,
                       disturbed>>
      /\ handler' = [handler EXCEPT ![h] = new] /\ handler[h].pc = "idle"
  BY DEF Deliver, Starts, At, cleanups
<1>2. new.pc = "claim" /\ new.change = m /\ m \in 1 .. Len(changes)
  BY DEF Idle, Handling, Announced
<1>3. DOMAIN handler = Handlers /\ Len(changes) \in Nat
  BY DEF IInv, Shape
<1> HIDE DEF new
<1>4. handler'[h] = new /\ \A k \in Handlers \ {h} : handler'[k] = handler[k]
  BY <1>1, <1>3
<1>5. Announced'
  BY <1>1, <1>2, <1>3, <1>4 DEF Handling, Announced, Claimed, At
<1>6. ASSUME NEW w \in Works PROVE Locked(w)'
  BY <1>1, <1>4 DEF Handling, Locked, Gone, Is
<1>7. ASSUME NEW k \in Handlers PROVE Stopped(k)'
  BY <1>1, <1>2, <1>4 DEF Handling, Stopped, At, Is
<1>8. ASSUME NEW c \in DOMAIN changes, NEW w \in Works, IsReached(c, w)'
      PROVE  Underway(w, changes[c].cap)'
  <2>1. Underway(w, changes[c].cap)
    BY <1>1, <1>8, WasReached DEF Handling, Reaching, IsReached
  <2>2. ~ UnderwayAt(h, w, changes[c].cap)
    BY <1>1 DEF Judging, HandlerJudged, Listed, UnderwayAt, At
  <2> QED
    BY <1>1, <1>4, <2>1, <2>2 DEF Underway, UnderwayAt, At
<1> QED
  BY <1>1, <1>5, <1>6, <1>7, <1>8, ReachedStays DEF Handling, Reaching

LEMMA ChangeHandles ==
  ASSUME IInv, Judging, Handling, [Next]_vars, AgentsJudged', Forward,
         NEW cap \in Capabilities, NEW grant \in BOOLEAN,
         PermSet(cap, grant) \/ \E h \in Handlers : HolderSet(h, cap, grant)
  PROVE  Handling'
<1>1. /\ UNCHANGED <<receipts, agent, decisions, lock, others, rebuilt>>
      /\ disturbed \subseteq disturbed'
      /\ Len(changes') = Len(changes) + 1 /\ DOMAIN changes' = 1 .. Len(changes')
      /\ Len(changes) \in Nat /\ DOMAIN handler = Handlers
      /\ inbox \subseteq inbox' /\ inbox' \subseteq inbox \union {Len(changes) + 1}
  <2> DEFINE reach == IF grant THEN {} ELSE {w \in Running : cap \in agent[w].caps}
             Change == [cap : Capabilities, reach : SUBSET Works]
             new == [cap |-> cap, reach |-> reach]
  <2>1. changes \in Seq(Change) /\ new \in Change
    BY DEF IInv, Shape, Running
  <2>2. changes' = Append(changes, new)
    BY DEF PermSet, HolderSet, Changed
  <2>3. /\ Len(changes') = Len(changes) + 1 /\ DOMAIN changes' = 1 .. Len(changes')
        /\ Len(changes) \in Nat
    <3> HIDE DEF Change, new
    <3> QED
      BY <2>1, <2>2
  <2> QED
    BY <2>3 DEF PermSet, HolderSet, evaluating, cleanups, IInv, Shape
<1>2. \/ UNCHANGED handler
      \/ \E h \in Handlers :
           /\ handler[h].pc = "idle"
           /\ handler' = [handler EXCEPT ![h] =
                [Idle EXCEPT !.pc = "claim", !.change = Len(changes) + 1, !.pushed = FALSE]]
  BY DEF PermSet, HolderSet, Starts, At, evaluating
<1>3. \A k \in Handlers :
        \/ handler'[k] = handler[k]
        \/ handler'[k].pc = "claim" /\ handler'[k].change = Len(changes) + 1 /\ ~ handler'[k].pushed
           /\ handler[k].pc = "idle"
  BY <1>1, <1>2 DEF Idle
<1>4. Announced'
  <2>1. inbox' \union receipts' \subseteq 1 .. Len(changes')
    BY <1>1 DEF Handling, Announced
  <2>2. ASSUME NEW k \in Handlers PROVE Claimed(k)'
    <3>1. Claimed(k) /\ handler[k].change \in Nat
      BY DEF Handling, Announced, Judging, HandlerJudged
    <3> QED
      BY <1>1, <1>3, <3>1 DEF Claimed, At
  <2> QED
    BY <2>1, <2>2 DEF Announced
<1>5. \A w \in Works : Locked(w)'
  <2>1. ASSUME NEW w \in Works, lock[w] \in Handlers, ~ Gone(w)
        PROVE  handler'[lock[w]] = handler[lock[w]]
    BY <1>3, <2>1 DEF Handling, Locked
  <2> QED
    BY <1>1, <2>1 DEF Handling, Locked, Gone, Is
<1>6. \A k \in Handlers : Stopped(k)'
  BY <1>1, <1>3 DEF Handling, Stopped, At, Is
<1>7. ASSUME NEW c \in DOMAIN changes', NEW w \in Works, IsReached(c, w)'
      PROVE  Underway(w, changes[c].cap)'
  <2>1. Is(w, "ACTIVE") /\ w \notin disturbed'
    BY <1>1, <1>7 DEF IsReached, Is
  <2>2. PICK lost : lost = changes'[c].cap
    OBVIOUS
  <2>3. Underway(w, lost)'
    BY <2>1, ChangeGoesOut
  <2> QED
    BY <2>2, <2>3
<1>8. Reaching'
  BY <1>7 DEF Reaching
<1> QED
  BY <1>4, <1>5, <1>6, <1>8, ReachedStays DEF Handling

LEMMA NextKeepsHandling ==
  ASSUME IInv, Judging, Handling, [Next]_vars
  PROVE  Handling'
<1>1. AgentsJudged' /\ Forward
  BY NextKeepsJudging DEF Judging
<1> QED
  BY <1>1, HandlerStepHandles, WorkStepHandles, DeliverHandles, ChangeHandles DEF Next

LEMMA InitHandles == Init => Handling
<1> SUFFICES ASSUME Init PROVE Handling
  OBVIOUS
<1>1. changes = <<>> /\ inbox = {} /\ receipts = {} /\ DOMAIN changes = {} /\ Len(changes) = 0
  BY DEF Init
<1>2. \A h \in Handlers : handler[h].pc = "idle" /\ handler[h].change = 0
  BY DEF Init, Idle, None
<1>3. Announced /\ \A h \in Handlers : Stopped(h)
  BY <1>1, <1>2 DEF Announced, Claimed, Stopped, At
<1>4. \A w \in Works : Locked(w)
  BY ConstantsAssumption DEF Init, Locked, ConstantsAssumption
<1> QED
  BY <1>1, <1>3, <1>4 DEF Handling, Reaching

\* A revocation that has been handled has stopped every agent that was running
\* with the capability, whatever other changes, deliveries, re-evaluations,
\* cleanups and decisions came between, unless it was granted again or a
\* failure got in the way of that agent (reevaluate.ts:43-55).
THEOREM RevocationHolds == Spec => []RevocationReaches
<1>1. IInv /\ Judging /\ Handling /\ [Next]_vars => Judging' /\ Handling'
  BY NextKeepsJudging, NextKeepsHandling
<1>2. IInv /\ Judging /\ Handling => RevocationReaches
  <2> SUFFICES ASSUME IInv, Judging, Handling, AtRest, NEW c \in DOMAIN changes,
                      NEW w \in changes[c].reach \ disturbed,
                      Is(w, "ACTIVE"), OwnDecisionBehind(w), changes[c].cap \notin held
               PROVE  FALSE
    BY DEF RevocationReaches
  <2>1. w \in Works
    <3> DEFINE Change == [cap : Capabilities, reach : SUBSET Works]
    <3>1. changes \in Seq(Change)
      BY DEF IInv, Shape
    <3>2. changes[c] \in Change
      <4> HIDE DEF Change
      <4> QED
        BY <3>1
    <3> QED
      BY <3>2
  <2>2. Underway(w, changes[c].cap)
    BY <2>1 DEF Handling, Reaching, IsReached
  <2>3. ASSUME NEW h \in Handlers PROVE ~ UnderwayAt(h, w, changes[c].cap)
    BY DEF AtRest, Judging, HandlerJudged, Listed, UnderwayAt, At
  <2> QED
    BY <2>1, <2>2, <2>3 DEF AtRest, Underway
<1> QED
  BY <1>1, <1>2, InitHasIt, NextKeepsIt, InitJudges, InitHandles, PTL DEF Spec
=============================================================================
