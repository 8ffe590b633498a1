----------------------------- MODULE BridgeTokens -----------------------------
(***************************************************************************)
(* The Google Bridge: one person's connection to a SaaS, the bindings of   *)
(* her agents to it, the consents that make it, the token requests that    *)
(* spend its refresh token, and the three routes for the Lifecycle         *)
(* Manager, which disable bindings, delete them and give a connection up.  *)
(* The routes are served whoever is called for and whenever: no caller is  *)
(* modelled, and today's cleanups name no binding and no connection here.  *)
(*                                                                         *)
(* The connection is one document that all of these read and write, with   *)
(* an outbound call to the SaaS in between and no transaction around it.   *)
(* Each agent goes through one provisioning and needs some scopes.  A      *)
(* refresh token is named for what issued it: a consent or a request.      *)
(***************************************************************************)
EXTENDS Integers, FiniteSets

CONSTANTS
  Agents,
  Scopes,
  Needs,      \* the scopes an agent is provisioned with
  Requests,   \* requests for a SaaS token
  Calls,      \* calls of the Lifecycle Manager's three routes
  Rotations,  \* whether a refresh may, or must, rotate the token
  MaxFaults   \* bound on lost responses and failed calls

ASSUME ConstantsAssumption ==
  /\ Needs \in [Agents -> SUBSET Scopes]
  /\ Rotations \subseteq BOOLEAN
  /\ MaxFaults \in Nat

VARIABLES
  conn,       \* the document in bridge_connections
  binding,    \* the documents in agent_bindings, one per agent
  ended,      \* agents whose binding is past its expiry
  valid,      \* refresh tokens the SaaS accepts
  withdrawn,  \* refresh tokens the person has withdrawn at the SaaS
  flow,       \* how far the provisioning of each agent is
  req,        \* how far each token request is
  call,       \* how far each call is
  overlapped, \* two users of the connection have run beside each other
  faults

vars == <<conn, binding, ended, valid, withdrawn, flow, req, call, overlapped, faults>>

-----------------------------------------------------------------------------
Tokens  == ({"consent"} \X Agents) \union ({"request"} \X Requests)
NoToken == <<"none">>
NoConn  == [status |-> "absent", token |-> NoToken, scopes |-> {}, expired |-> FALSE]
Connection == [status : {"absent", "ACTIVE", "REVOKED"},
               token : Tokens \union {NoToken},
               scopes : SUBSET Scopes,
               expired : BOOLEAN]
BindingStatus == {"none", "ACTIVE", "DISABLED"}

\* read is what upsert has found, granted what the SaaS says was granted.
FlowPcs == {"check", "start", "callback", "upsert", "write", "verify", "bind",
            "create", "bound", "failed"}
Flow == [pc : FlowPcs, read : SUBSET Scopes, granted : SUBSET Scopes]
NoFlow == [pc |-> "check", read |-> {}, granted |-> {}]

\* past: the connection was past its expiry on arrival, which is when the
\* handler has looked at its clock.
NoAgent == "no agent"
Request == [pc : {"idle", "connection", "refresh", "save", "mark", "over"},
            agent : Agents \union {NoAgent},
            token : Tokens \union {NoToken},
            past : BOOLEAN,
            reply : {"none", "token", "refused"}]
NoRequest == [pc |-> "idle", agent |-> NoAgent, token |-> NoToken,
              past |-> FALSE, reply |-> "none"]

Call == [pc : {"idle", "disable", "at_saas", "mark", "over"},
         agent : Agents \union {NoAgent},
         token : Tokens \union {NoToken}]
NoCall == [pc |-> "idle", agent |-> NoAgent, token |-> NoToken]

\* Who is between reading the connection and having written what follows.
Busy ==
  \/ \E r \in Requests : req[r].pc \notin {"idle", "over"}
  \/ \E a \in Agents : flow[a].pc \in {"upsert", "write"}
  \/ \E c \in Calls : call[c].pc \in {"at_saas", "mark"}
Enters == overlapped' = (overlapped \/ Busy)

FlowGoto(a, pc) == flow' = [flow EXCEPT ![a].pc = pc]
Goto(r, pc)     == req' = [req EXCEPT ![r].pc = pc]
Ends(r, reply)  == req' = [req EXCEPT ![r] = [NoRequest EXCEPT !.pc = "over",
                                                !.token = req[r].token, !.reply = reply]]
CallGoto(c, pc) == call' = [call EXCEPT ![c].pc = pc]
CallEnds(c)     == call' = [call EXCEPT ![c] = [NoCall EXCEPT !.pc = "over"]]

-----------------------------------------------------------------------------
(* The consent, and the binding.                                           *)

\* An expired connection is not usable, and does not say so in its status.
Covers(a) == conn.status = "ACTIVE" /\ Needs[a] \subseteq conn.scopes
CheckConnection(a) ==
  /\ flow[a].pc = "check"
  /\ FlowGoto(a, IF Covers(a) /\ ~conn.expired THEN "bind" ELSE "start")
  /\ UNCHANGED <<conn, binding, ended, valid, withdrawn, req, call, overlapped, faults>>

OauthStart(a) ==
  /\ flow[a].pc = "start"
  /\ FlowGoto(a, "callback")
  /\ UNCHANGED <<conn, binding, ended, valid, withdrawn, req, call, overlapped, faults>>

\* The state is spent, and the code is exchanged for a refresh token.  The SaaS
\* may grant less than was asked for.
OauthCallback(a) ==
  /\ flow[a].pc = "callback"
  /\ Enters
  /\ \E granted \in {{}, Needs[a]} :
       flow' = [flow EXCEPT ![a].pc = "upsert", ![a].granted = granted]
  /\ valid' = valid \union {<<"consent", a>>}
  /\ UNCHANGED <<conn, binding, ended, withdrawn, req, call, faults>>

CallbackFails(a) ==
  /\ flow[a].pc = "callback"
  /\ FlowGoto(a, "failed")
  /\ UNCHANGED <<conn, binding, ended, valid, withdrawn, req, call, overlapped, faults>>

UpsertReads(a) ==
  /\ flow[a].pc = "upsert"
  /\ flow' = [flow EXCEPT ![a].pc = "write", ![a].read = conn.scopes]
  /\ UNCHANGED <<conn, binding, ended, valid, withdrawn, req, call, overlapped, faults>>

\* A slip: the scopes of this consent only.
UpsertReplaces(a) ==
  /\ flow[a].pc = "write"
  /\ conn' = [status |-> "ACTIVE", token |-> <<"consent", a>>,
              scopes |-> flow[a].granted, expired |-> FALSE]
  /\ flow' = [flow EXCEPT ![a] = [NoFlow EXCEPT !.pc = "verify"]]
  /\ UNCHANGED <<binding, ended, valid, withdrawn, req, call, overlapped, faults>>

\* The whole document is written, with the scopes that were read.
UpsertWrites(a) ==
  /\ flow[a].pc = "write"
  /\ conn' = [status |-> "ACTIVE", token |-> <<"consent", a>>,
              scopes |-> flow[a].read \union flow[a].granted, expired |-> FALSE]
  /\ flow' = [flow EXCEPT ![a] = [NoFlow EXCEPT !.pc = "verify"]]
  /\ UNCHANGED <<binding, ended, valid, withdrawn, req, call, overlapped, faults>>

\* The Provisioner hands the one-time code back.
VerifyConnection(a) ==
  /\ flow[a].pc = "verify"
  /\ FlowGoto(a, IF Covers(a) THEN "bind" ELSE "failed")
  /\ UNCHANGED <<conn, binding, ended, valid, withdrawn, req, call, overlapped, faults>>

\* POST /bindings looks at the connection's scopes, not at its status.
BindReads(a) ==
  /\ flow[a].pc = "bind"
  /\ FlowGoto(a, IF conn # NoConn /\ Needs[a] \subseteq conn.scopes THEN "create" ELSE "failed")
  /\ UNCHANGED <<conn, binding, ended, valid, withdrawn, req, call, overlapped, faults>>

BindCreates(a) ==
  /\ flow[a].pc = "create"
  /\ binding[a] = "none"
  /\ binding' = [binding EXCEPT ![a] = "ACTIVE"]
  /\ FlowGoto(a, "bound")
  /\ UNCHANGED <<conn, ended, valid, withdrawn, req, call, overlapped, faults>>

-----------------------------------------------------------------------------
(* POST /token.                                                            *)

BindingIsUsable(a) == binding[a] = "ACTIVE" /\ a \notin ended

\* The ID-JAG and its proof are verified, and the binding is read.
Arrives(r, a) ==
  /\ req[r].pc = "idle"
  /\ flow[a].pc = "bound"
  /\ Enters
  /\ IF BindingIsUsable(a)
     THEN req' = [req EXCEPT ![r].pc = "connection", ![r].agent = a, ![r].past = conn.expired]
     ELSE Ends(r, "refused")
  /\ UNCHANGED <<conn, binding, ended, valid, withdrawn, flow, call, faults>>

FindConnection(r) ==
  /\ req[r].pc = "connection"
  /\ IF Covers(req[r].agent) /\ ~(conn.expired /\ req[r].past)
     THEN req' = [req EXCEPT ![r] = [NoRequest EXCEPT !.pc = "refresh", !.token = conn.token]]
     ELSE Ends(r, "refused")
  /\ UNCHANGED <<conn, binding, ended, valid, withdrawn, flow, call, overlapped, faults>>

\* The SaaS takes the token.  Where it rotates, the old one is spent.
Refresh(r) ==
  /\ req[r].pc = "refresh"
  /\ req[r].token \in valid
  /\ \E rotates \in Rotations :
       IF rotates
       THEN /\ valid' = (valid \ {req[r].token}) \union {<<"request", r>>}
            /\ Goto(r, "save")
       ELSE /\ Ends(r, "token")
            /\ UNCHANGED valid
  /\ UNCHANGED <<conn, binding, ended, withdrawn, flow, call, overlapped, faults>>

\* invalid_grant.
RefreshRefused(r) ==
  /\ req[r].pc = "refresh"
  /\ req[r].token \notin valid
  /\ Goto(r, "mark")
  /\ UNCHANGED <<conn, binding, ended, valid, withdrawn, flow, call, overlapped, faults>>

\* No response in ten seconds, or one of another kind: the status is left alone.
RefreshLost(r) ==
  /\ req[r].pc = "refresh"
  /\ faults < MaxFaults
  /\ faults' = faults + 1
  /\ \/ UNCHANGED valid
     \/ /\ req[r].token \in valid
        /\ TRUE \in Rotations
        /\ valid' = (valid \ {req[r].token}) \union {<<"request", r>>}
  /\ Ends(r, "refused")
  /\ UNCHANGED <<conn, binding, ended, withdrawn, flow, call, overlapped>>

MarkRevoked(r) ==
  /\ req[r].pc = "mark"
  /\ conn' = [conn EXCEPT !.status = "REVOKED"]
  /\ Ends(r, "refused")
  /\ UNCHANGED <<binding, ended, valid, withdrawn, flow, call, overlapped, faults>>

\* A slip: the document is written as it was read, but for the token.
SaveTokenWhole(r) ==
  /\ req[r].pc = "save"
  /\ conn' = [conn EXCEPT !.token = <<"request", r>>, !.status = "ACTIVE"]
  /\ Ends(r, "token")
  /\ UNCHANGED <<binding, ended, valid, withdrawn, flow, call, overlapped, faults>>

\* saveEncryptedRefreshToken, one field.
SaveToken(r) ==
  /\ req[r].pc = "save"
  /\ conn' = [conn EXCEPT !.token = <<"request", r>>]
  /\ Ends(r, "token")
  /\ UNCHANGED <<binding, ended, valid, withdrawn, flow, call, overlapped, faults>>

-----------------------------------------------------------------------------
(* The routes for the Lifecycle Manager.  A call that finds nothing to     *)
(* disable, delete or revoke answers 204 as well, and is left out.         *)

\* POST /bindings/:agent_id/disable
DisableFinds(c, a) ==
  /\ call[c].pc = "idle"
  /\ binding[a] # "none"
  /\ call' = [call EXCEPT ![c].pc = "disable", ![c].agent = a]
  /\ UNCHANGED <<conn, binding, ended, valid, withdrawn, flow, req, overlapped, faults>>

\* update fails on a document that has been deleted meanwhile.
DisableUpdates(c) ==
  /\ call[c].pc = "disable"
  /\ binding' = [a \in Agents |-> IF a = call[c].agent /\ binding[a] # "none"
                                  THEN "DISABLED" ELSE binding[a]]
  /\ CallEnds(c)
  /\ UNCHANGED <<conn, ended, valid, withdrawn, flow, req, overlapped, faults>>

\* DELETE /bindings/:agent_id
DeleteBindings(c, a) ==
  /\ call[c].pc = "idle"
  /\ binding[a] # "none"
  /\ binding' = [binding EXCEPT ![a] = "none"]
  /\ CallEnds(c)
  /\ UNCHANGED <<conn, ended, valid, withdrawn, flow, req, overlapped, faults>>

\* POST /connections/:connection_id/revoke-upstream
RevokeFinds(c) ==
  /\ call[c].pc = "idle"
  /\ conn # NoConn
  /\ Enters
  /\ call' = [call EXCEPT ![c].pc = "at_saas", ![c].token = conn.token]
  /\ UNCHANGED <<conn, binding, ended, valid, withdrawn, flow, req, faults>>

\* A slip: the SaaS is not told.
RevokeLocally(c) ==
  /\ call[c].pc = "at_saas"
  /\ CallGoto(c, "mark")
  /\ UNCHANGED <<conn, binding, ended, valid, withdrawn, flow, req, overlapped, faults>>

RevokeAtSaas(c) ==
  /\ call[c].pc = "at_saas"
  /\ valid' = valid \ {call[c].token}
  /\ CallGoto(c, "mark")
  /\ UNCHANGED <<conn, binding, ended, withdrawn, flow, req, overlapped, faults>>

\* Whatever the far side answers.
RevokeUnheard(c) ==
  /\ call[c].pc = "at_saas"
  /\ faults < MaxFaults
  /\ faults' = faults + 1
  /\ CallGoto(c, "mark")
  /\ UNCHANGED <<conn, binding, ended, valid, withdrawn, flow, req, overlapped>>

RevokeMarks(c) ==
  /\ call[c].pc = "mark"
  /\ conn' = [conn EXCEPT !.status = "REVOKED"]
  /\ CallEnds(c)
  /\ UNCHANGED <<binding, ended, valid, withdrawn, flow, req, overlapped, faults>>

-----------------------------------------------------------------------------
(* Time, and the person at the SaaS.                                       *)

ConnectionExpires ==
  /\ conn # NoConn
  /\ ~conn.expired
  /\ conn' = [conn EXCEPT !.expired = TRUE]
  /\ UNCHANGED <<binding, ended, valid, withdrawn, flow, req, call, overlapped, faults>>

BindingEnds(a) ==
  /\ binding[a] # "none"
  /\ a \notin ended
  /\ ended' = ended \union {a}
  /\ UNCHANGED <<conn, binding, valid, withdrawn, flow, req, call, overlapped, faults>>

PersonWithdraws ==
  /\ valid # {}
  /\ withdrawn' = withdrawn \union valid
  /\ valid' = {}
  /\ UNCHANGED <<conn, binding, ended, flow, req, call, overlapped, faults>>

Init ==
  /\ conn = NoConn
  /\ binding = [a \in Agents |-> "none"]
  /\ ended = {}
  /\ valid = {}
  /\ withdrawn = {}
  /\ flow = [a \in Agents |-> NoFlow]
  /\ req = [r \in Requests |-> NoRequest]
  /\ call = [c \in Calls |-> NoCall]
  /\ overlapped = FALSE
  /\ faults = 0

FlowStep(a) ==
  \/ CheckConnection(a) \/ OauthStart(a) \/ OauthCallback(a) \/ CallbackFails(a)
  \/ UpsertReads(a) \/ UpsertWrites(a) \/ VerifyConnection(a)
  \/ BindReads(a) \/ BindCreates(a) \/ BindingEnds(a)

TokenStep(r) ==
  \/ \E a \in Agents : Arrives(r, a)
  \/ FindConnection(r) \/ Refresh(r) \/ RefreshRefused(r) \/ RefreshLost(r)
  \/ MarkRevoked(r) \/ SaveToken(r)

CallStep(c) ==
  \/ \E a \in Agents : DisableFinds(c, a) \/ DeleteBindings(c, a)
  \/ DisableUpdates(c) \/ RevokeFinds(c) \/ RevokeAtSaas(c)
  \/ RevokeUnheard(c) \/ RevokeMarks(c)

Next ==
  \/ \E a \in Agents : FlowStep(a)
  \/ \E r \in Requests : TokenStep(r)
  \/ \E c \in Calls : CallStep(c)
  \/ ConnectionExpires \/ PersonWithdraws

Spec == Init /\ [][Next]_vars

-----------------------------------------------------------------------------
(* Properties.                                                             *)

\* Type correctness.
TypeOK ==
  /\ conn \in Connection
  /\ binding \in [Agents -> BindingStatus]
  /\ ended \subseteq Agents
  /\ valid \subseteq Tokens
  /\ withdrawn \subseteq Tokens
  /\ flow \in [Agents -> Flow]
  /\ req \in [Requests -> Request]
  /\ call \in [Calls -> Call]
  /\ overlapped \in BOOLEAN
  /\ faults \in 0 .. MaxFaults

\* As long as no two users of the connection have run beside each other and no
\* response was lost, a connection that is ACTIVE holds a refresh token the SaaS
\* takes, unless the person has withdrawn it, whatever rotations and consents
\* there were; and it covers the scopes of every agent bound to it.
ActiveConnectionWorks ==
  ~overlapped /\ faults = 0 /\ ~Busy /\ conn.status = "ACTIVE" =>
    /\ conn.token \in valid \union withdrawn
    /\ \A a \in Agents : binding[a] # "none" => Needs[a] \subseteq conn.scopes

\* Under the same conditions a connection that is marked REVOKED is dead at the
\* SaaS too, and one whose token was refused is marked.
RevokedConnectionIsDead ==
  ~overlapped /\ faults = 0 /\ ~Busy =>
    /\ conn.status = "REVOKED" => conn.token \notin valid
    /\ \A r \in Requests :
         req[r].reply = "refused" /\ req[r].token # NoToken /\ req[r].token = conn.token =>
           conn.status = "REVOKED"

\* Only a consent makes a revoked connection usable again; the rotated token of
\* a request that was under way does not.
RevivedByConsentOnly ==
  [][conn.status = "REVOKED" /\ conn'.status = "ACTIVE" =>
       \E a \in Agents : conn'.token = <<"consent", a>> /\ flow'[a].pc # flow[a].pc]_vars
=============================================================================
