---------------------------- MODULE AgentAccess ----------------------------
(***************************************************************************)
(* How long an agent can still act.  A tool call of the Agent Runtime      *)
(* obtains an ID-JAG from the Agent OP, redeems it at a Resource           *)
(* Authorization Server and presents the access token to a Resource API.   *)
(* The Agent OP looks at the agent's registration, the other two at the    *)
(* ledger of revoked actors, through a cache each process has of its own;  *)
(* every one of them lets some time pass between looking and answering.    *)
(*                                                                         *)
(* Time is counted in seconds on one clock.  What a request does at a      *)
(* service is one step per await that matters; the transit of a request is *)
(* part of the time the service takes.                                     *)
(***************************************************************************)
EXTENDS Integers

CONSTANTS
  Agents,
  Servers,      \* processes of the Resource Authorization Servers
  Apis,         \* processes of the Resource APIs
  Requests,     \* tool calls at a time, those whose handlers run on included
  RevokeCalls,  \* calls of POST /internal/revoke-by-actor
  ExpiresAt,    \* expires_at of each agent
  Handle,       \* the longest a service takes over a request
  Cache,        \* CACHE_TTL_MS
  Grant,        \* ID_JAG_LIFETIME_SECONDS
  GrantLeeway,  \* what the library grants an ID-JAG past its exp
  Token,        \* ACCESS_TOKEN_EXPIRES_IN
  Leeway,       \* the sixty seconds of protect.ts
  Skew,         \* TOKEN_SKEW_MS
  MaxTime       \* bound on the clock

Processes == Servers \union Apis
Never == 0
Time == 0 .. MaxTime

ASSUME ConstantsAssumption ==
  /\ Servers \intersect Apis = {}
  /\ ExpiresAt \in [Agents -> Nat]
  /\ Cache \in Nat \ {0} /\ Grant \in Nat \ {0}
  /\ Handle \in Nat /\ GrantLeeway \in Nat
  /\ Token \in Nat /\ Leeway \in Nat /\ Skew \in Nat
  /\ MaxTime \in Nat

VARIABLES
  now,
  status,    \* the registration as the Agent OP finds it
  stopped,   \* when it stopped being issuable, or Never
  running,   \* agents whose execution goes on
  held,      \* the access token in the token store of each execution
  ledger,    \* revoked_at in revoked_actors, or Never
  cut,       \* when the actor was first entered there, or Never
  cache,     \* the ledger's cache in each process
  req,       \* how far each tool call is
  revoking,  \* how far each revocation is
  cleanup    \* how far the cleanup of each agent is, of the steps told here

vars == <<now, status, stopped, running, held, ledger, cut, cache, req, revoking, cleanup>>

-----------------------------------------------------------------------------
Statuses == {"issuable", "stopped", "gone"}
NoToken == [exp |-> 0, until |-> 0]
NoEntry == [revoked |-> FALSE, readAt |-> Never]

\* In the Runtime: exchange, granted, minted (the answer is on its way), send.
\* At a service: issue, ledger, fill, mint, serving.
RuntimePcs == {"exchange", "granted", "minted", "send"}
ServicePcs == {"issue", "ledger", "fill", "mint", "serving"}

\* proc is the process the request is at, seen what its read answered, exp
\* that of the credential in it, since when it was sent.
Request == [pc : {"idle"} \union RuntimePcs \union ServicePcs,
            agent : Agents \union {"nobody"}, proc : Processes \union {"none"},
            seen : BOOLEAN, exp : Nat, since : Nat]
NoRequest == [pc |-> "idle", agent |-> "nobody", proc |-> "none",
              seen |-> FALSE, exp |-> 0, since |-> 0]

NoRevocation == [pc |-> "idle", agent |-> "nobody", proc |-> "none"]

Init ==
  /\ now = 1
  /\ status = [a \in Agents |-> "issuable"]
  /\ stopped = [a \in Agents |-> Never]
  /\ running = Agents
  /\ held = [a \in Agents |-> NoToken]
  /\ ledger = [a \in Agents |-> Never]
  /\ cut = [a \in Agents |-> Never]
  /\ cache = [p \in Processes |-> [a \in Agents |-> NoEntry]]
  /\ req = [r \in Requests |-> NoRequest]
  /\ revoking = [c \in RevokeCalls |-> NoRevocation]
  /\ cleanup = [a \in Agents |-> "none"]

TypeOK ==
  /\ now \in Nat
  /\ status \in [Agents -> Statuses]
  /\ stopped \in [Agents -> Nat]
  /\ running \subseteq Agents
  /\ held \in [Agents -> [exp : Nat, until : Nat]]
  /\ ledger \in [Agents -> Nat]
  /\ cut \in [Agents -> Nat]
  /\ cache \in [Processes -> [Agents -> [revoked : BOOLEAN, readAt : Nat]]]
  /\ req \in [Requests -> Request]
  /\ revoking \in [RevokeCalls ->
       {NoRevocation} \union [pc : {"write"}, agent : Agents, proc : Apis]]
  /\ cleanup \in [Agents -> {"none", "cancel", "credentials", "over"}]

At(r, pc) == req[r].pc = pc
Goto(r, pc) == req' = [req EXCEPT ![r].pc = pc]
Ends(r) == req' = [req EXCEPT ![r] = NoRequest]

\* No service takes longer than Handle over a request.
Tick ==
  /\ now < MaxTime
  /\ \A r \in Requests : req[r].pc \in ServicePcs => now < req[r].since + Handle
  /\ now' = now + 1
  /\ UNCHANGED <<status, stopped, running, held, ledger, cut, cache, req, revoking, cleanup>>

-----------------------------------------------------------------------------
(* A tool call.                                                            *)

\* assertNotExpired: the lifetime is looked at once, when the call begins.
\* A token held for long enough yet spares the exchange and the redemption.
Call(r, a) ==
  /\ At(r, "idle") /\ a \in running
  /\ now < ExpiresAt[a]
  /\ req' = [req EXCEPT ![r] =
       IF held[a].until > now + Skew
       THEN [NoRequest EXCEPT !.pc = "send", !.agent = a, !.exp = held[a].exp]
       ELSE [NoRequest EXCEPT !.pc = "exchange", !.agent = a]]
  /\ UNCHANGED <<now, status, stopped, running, held, ledger, cut, cache, revoking, cleanup>>

\* The client assertion is verified with the registration as it is read then;
\* one that is gone authenticates nobody.
Exchange(r) ==
  /\ At(r, "exchange") /\ req[r].agent \in running
  /\ IF status[req[r].agent] = "gone" THEN Ends(r)
     ELSE req' = [req EXCEPT ![r].pc = "issue", ![r].since = now,
                             ![r].seen = (status[req[r].agent] = "issuable")]
  /\ UNCHANGED <<now, status, stopped, running, held, ledger, cut, cache, revoking, cleanup>>

\* A slip: only the lifetime is looked at.
verifyLifetime(seen, a) == now < ExpiresAt[a]

verifyAgentState(seen, a) == seen /\ now < ExpiresAt[a]

\* A slip: the grant has its lifetime whatever is left of the agent's.
capNothing(a) == now + Grant

capExp(a) == IF now + Grant < ExpiresAt[a] THEN now + Grant ELSE ExpiresAt[a]

Issue(r) ==
  /\ At(r, "issue")
  /\ LET a == req[r].agent
     IN IF verifyAgentState(req[r].seen, a) /\ capExp(a) > now
        THEN req' = [req EXCEPT ![r].pc = "granted", ![r].exp = capExp(a)]
        ELSE Ends(r)
  /\ UNCHANGED <<now, status, stopped, running, held, ledger, cut, cache, revoking, cleanup>>

\* The ID-JAG reaches a process of the Authorization Server, which verifies it
\* before it asks the ledger.
Redeem(r, p) ==
  /\ At(r, "granted") /\ req[r].agent \in running
  /\ IF now < req[r].exp + GrantLeeway
     THEN req' = [req EXCEPT ![r].pc = "ledger", ![r].proc = p, ![r].since = now]
     ELSE Ends(r)
  /\ UNCHANGED <<now, status, stopped, running, held, ledger, cut, cache, revoking, cleanup>>

\* exp is counted from the moment of issue and not capped by the agent's.
Mint(r) ==
  /\ At(r, "mint")
  /\ req' = [req EXCEPT ![r].pc = "minted", ![r].exp = now + Token]
  /\ UNCHANGED <<now, status, stopped, running, held, ledger, cut, cache, revoking, cleanup>>

\* The Runtime counts expires_in from before it asked.
Receive(r) ==
  /\ At(r, "minted") /\ req[r].agent \in running
  /\ held' = [held EXCEPT ![req[r].agent] =
                [exp |-> req[r].exp, until |-> req[r].since + Token]]
  /\ Goto(r, "send")
  /\ UNCHANGED <<now, status, stopped, running, ledger, cut, cache, revoking, cleanup>>

\* The token reaches a process of the Resource API.
Send(r, p) ==
  /\ At(r, "send") /\ req[r].agent \in running
  /\ IF req[r].exp < now - Leeway THEN Ends(r)
     ELSE req' = [req EXCEPT ![r].pc = "ledger", ![r].proc = p, ![r].since = now]
  /\ UNCHANGED <<now, status, stopped, running, held, ledger, cut, cache, revoking, cleanup>>

\* The handler behind the guard has done its work.
Serve(r) ==
  /\ At(r, "serving")
  /\ Ends(r)
  /\ UNCHANGED <<now, status, stopped, running, held, ledger, cut, cache, revoking, cleanup>>

\* A call that failed, an answer that was lost, an execution that was killed.
GiveUp(r) ==
  /\ req[r].pc \in RuntimePcs
  /\ Ends(r)
  /\ UNCHANGED <<now, status, stopped, running, held, ledger, cut, cache, revoking, cleanup>>

-----------------------------------------------------------------------------
(* isActorRevoked, in the process a request is at.                         *)

\* A slip: one second more.
FreshYet(entry) == entry.readAt # Never /\ now - entry.readAt <= Cache

Fresh(entry) == entry.readAt # Never /\ now - entry.readAt < Cache

\* What the guard does with the answer.
Judged(r, revoked) ==
  IF revoked THEN NoRequest
  ELSE [req[r] EXCEPT !.pc = IF req[r].proc \in Servers THEN "mint" ELSE "serving",
                      !.seen = FALSE]

CacheAnswers(r) ==
  /\ At(r, "ledger")
  /\ LET entry == cache[req[r].proc][req[r].agent]
     IN Fresh(entry) /\ req' = [req EXCEPT ![r] = Judged(r, entry.revoked)]
  /\ UNCHANGED <<now, status, stopped, running, held, ledger, cut, cache, revoking, cleanup>>

LedgerRead(r) ==
  /\ At(r, "ledger")
  /\ ~ Fresh(cache[req[r].proc][req[r].agent])
  /\ req' = [req EXCEPT ![r].pc = "fill", ![r].seen = (ledger[req[r].agent] # Never)]
  /\ UNCHANGED <<now, status, stopped, running, held, ledger, cut, cache, revoking, cleanup>>

\* readAt is the time at which the answer came.
CacheFill(r) ==
  /\ At(r, "fill")
  /\ cache' = [cache EXCEPT ![req[r].proc][req[r].agent] =
                 [revoked |-> req[r].seen, readAt |-> now]]
  /\ req' = [req EXCEPT ![r] = Judged(r, req[r].seen)]
  /\ UNCHANGED <<now, status, stopped, running, held, ledger, cut, revoking, cleanup>>

\* A process is replaced: its cache is gone, and what it was working on.
Restart(p) ==
  /\ cache' = [cache EXCEPT ![p] = [a \in Agents |-> NoEntry]]
  /\ req' = [r \in Requests |->
       IF req[r].proc = p /\ req[r].pc \in ServicePcs THEN NoRequest ELSE req[r]]
  /\ UNCHANGED <<now, status, stopped, running, held, ledger, cut, revoking, cleanup>>

-----------------------------------------------------------------------------
(* POST /internal/revoke-by-actor of a Resource API.                       *)

RevokeFinds(c, a, p) ==
  /\ revoking[c].pc = "idle"
  /\ ledger[a] = Never
  /\ revoking' = [revoking EXCEPT ![c] = [pc |-> "write", agent |-> a, proc |-> p]]
  /\ UNCHANGED <<now, status, stopped, running, held, ledger, cut, cache, req, cleanup>>

\* Two calls may both have found nothing.  Only this process forgets.
RevokeWrites(c) ==
  /\ revoking[c].pc = "write"
  /\ LET a == revoking[c].agent
     IN /\ ledger' = [ledger EXCEPT ![a] = now]
        /\ cut' = [cut EXCEPT ![a] = IF @ = Never THEN now ELSE @]
        /\ cache' = [cache EXCEPT ![revoking[c].proc][a] = NoEntry]
  /\ revoking' = [revoking EXCEPT ![c] = NoRevocation]
  /\ UNCHANGED <<now, status, stopped, running, held, req, cleanup>>

-----------------------------------------------------------------------------
(* What the Lifecycle Manager does about an agent.                         *)

StopIssuing(a, to) ==
  /\ status' = [status EXCEPT ![a] = to]
  /\ stopped' = [stopped EXCEPT ![a] = IF @ = Never THEN now ELSE @]

\* The status is what stops the issuing: the route quarantine.ts calls for it
\* is served by nobody.  The execution goes on.
Quarantine(a) ==
  /\ status[a] = "issuable"
  /\ StopIssuing(a, "stopped")
  /\ UNCHANGED <<now, running, held, ledger, cut, cache, req, revoking, cleanup>>

CleanupStarts(a) ==
  /\ cleanup[a] = "none"
  /\ StopIssuing(a, "stopped")
  /\ cleanup' = [cleanup EXCEPT ![a] = "cancel"]
  /\ UNCHANGED <<now, running, held, ledger, cut, cache, req, revoking>>

\* A step that fails is recorded, and the next one is run all the same.  The
\* token store dies with the process.
RuntimeCancel(a, succeeds) ==
  /\ cleanup[a] = "cancel"
  /\ IF succeeds
     THEN running' = running \ {a} /\ held' = [held EXCEPT ![a] = NoToken]
     ELSE UNCHANGED <<running, held>>
  /\ cleanup' = [cleanup EXCEPT ![a] = "credentials"]
  /\ UNCHANGED <<now, status, stopped, ledger, cut, cache, req, revoking>>

\* Both Authorization Servers are asked to revoke by actor.  The route is one
\* of the Resource APIs and takes act_sub, not actor_sub: the 404 counts as
\* done, and nothing is entered in the ledger.
CredentialRevoke(a) ==
  /\ cleanup[a] = "credentials"
  /\ cleanup' = [cleanup EXCEPT ![a] = "over"]
  /\ UNCHANGED <<now, status, stopped, running, held, ledger, cut, cache, req, revoking>>

\* The record goes with the last step, once none has failed.
AuditPersist(a) ==
  /\ cleanup[a] = "over" /\ a \notin running /\ status[a] # "gone"
  /\ StopIssuing(a, "gone")
  /\ UNCHANGED <<now, running, held, ledger, cut, cache, req, revoking, cleanup>>

-----------------------------------------------------------------------------
CallStep(r) ==
  \/ \E a \in Agents : Call(r, a)
  \/ Exchange(r) \/ Issue(r)
  \/ \E p \in Servers : Redeem(r, p)
  \/ Mint(r) \/ Receive(r)
  \/ \E p \in Apis : Send(r, p)
  \/ Serve(r) \/ GiveUp(r)
  \/ CacheAnswers(r) \/ LedgerRead(r) \/ CacheFill(r)

StopStep(a) ==
  \/ Quarantine(a) \/ CleanupStarts(a)
  \/ \E succeeds \in BOOLEAN : RuntimeCancel(a, succeeds)
  \/ CredentialRevoke(a) \/ AuditPersist(a)

Next ==
  \/ Tick
  \/ \E r \in Requests : CallStep(r)
  \/ \E p \in Processes : Restart(p)
  \/ \E c \in RevokeCalls : RevokeWrites(c) \/ \E a \in Agents, p \in Apis : RevokeFinds(c, a, p)
  \/ \E a \in Agents : StopStep(a)

Spec == Init /\ [][Next]_vars

-----------------------------------------------------------------------------
\* A revoked actor is let through, by either guard, only with a request sent
\* before every cached or unfinished read from before the revocation is out
\* of date (revocation.ts:34-41).
RevokedIsRefused ==
  \A r \in Requests :
     /\ req[r].pc \in {"mint", "serving"}
     /\ cut[req[r].agent] # Never
     => req[r].since < cut[req[r].agent] + Handle + Cache

\* Without any revocation, an agent whose registration no longer lets it be
\* issued anything is out of access tokens after a time that is fixed in
\* advance, whatever it held or had under way (verify-agent-state.ts:18-25).
StoppedRunsOut ==
  \A r \in Requests :
     /\ At(r, "serving")
     /\ stopped[req[r].agent] # Never
     => req[r].since <
          stopped[req[r].agent] + Handle + Grant + GrantLeeway + Handle + Token + Leeway

\* An agent's lifetime ends the use of its credentials, though access tokens
\* do not carry it: the ID-JAG does (cap-exp.ts:3-10).
ExpiredRunsOut ==
  \A r \in Requests :
     At(r, "serving") =>
       req[r].since < ExpiresAt[req[r].agent] + GrantLeeway + Handle + Token + Leeway
=============================================================================
