------------------------- MODULE BridgeTokensProofs -------------------------
(***************************************************************************)
(* What the Google Bridge promises, for any number of agents, scopes,      *)
(* token requests and calls.                                               *)
(*                                                                         *)
(* A refresh token is used by nobody before it is in the connection: this  *)
(* freshness holds always.  As long as the users of the connection come    *)
(* one by one, each of them knows what the connection holds; which is why  *)
(* the connection then works, or is marked and dead at the SaaS too.       *)
(***************************************************************************)
EXTENDS BridgeTokens, TLAPS

-----------------------------------------------------------------------------
(* Who uses the connection.                                                *)

BusyRequest(r)  == req[r].pc \notin {"idle", "over"}
BusyFlow(a)     == flow[a].pc \in {"upsert", "write"}
BusyCall(c) == call[c].pc \in {"at_saas", "mark"}

Alone ==
  /\ \A r, s \in Requests : BusyRequest(r) /\ BusyRequest(s) => r = s
  /\ \A a, b \in Agents : BusyFlow(a) /\ BusyFlow(b) => a = b
  /\ \A c, d \in Calls : BusyCall(c) /\ BusyCall(d) => c = d
  /\ \A r \in Requests, a \in Agents : ~(BusyRequest(r) /\ BusyFlow(a))
  /\ \A r \in Requests, c \in Calls : ~(BusyRequest(r) /\ BusyCall(c))
  /\ \A a \in Agents, c \in Calls : ~(BusyFlow(a) /\ BusyCall(c))

-----------------------------------------------------------------------------
(* The refresh tokens.                                                     *)

Consented(a) == <<"consent", a>>
Rotated(r)   == <<"request", r>>

\* Nobody holds a token that is not in the connection yet.
Unused(t) ==
  /\ conn.token # t
  /\ \A r \in Requests : req[r].token # t
  /\ \A c \in Calls : call[c].token # t

Fresh ==
  /\ \A a \in Agents :
       /\ flow[a].pc \in {"check", "start", "callback", "upsert", "write"} => Unused(Consented(a))
       /\ flow[a].pc \in {"check", "start", "callback"} => Consented(a) \notin valid
  /\ \A r \in Requests :
       /\ req[r].pc # "over" => Unused(Rotated(r))
       /\ req[r].pc \notin {"save", "over"} => Rotated(r) \notin valid

\* How far a request is shows in what it has.
Shaped(r) ==
  /\ req[r].pc # "over" => req[r].reply = "none"
  /\ req[r].pc \in {"idle", "connection"} => req[r].token = NoToken

Known(t) == t \in valid \union withdrawn

\* What each user knows, as long as they come one by one and are heard.
RequestKnows(r) ==
  /\ req[r].pc \in {"refresh", "mark", "save"} =>
       req[r].token = conn.token /\ conn.status = "ACTIVE"
  /\ req[r].pc \in {"mark", "save"} => conn.token \notin valid
  /\ req[r].pc = "save" => Known(Rotated(r))
  /\ req[r].reply = "refused" /\ req[r].token # NoToken /\ req[r].token = conn.token =>
       conn.status = "REVOKED"

CallKnows(c) ==
  /\ BusyCall(c) => call[c].token = conn.token
  /\ call[c].pc = "mark" => conn.token \notin valid

ConnectionKnown ==
  /\ conn.status = "ACTIVE" =>
       \/ Known(conn.token)
       \/ \E r \in Requests : req[r].pc \in {"mark", "save"}
       \/ \E c \in Calls : call[c].pc = "mark"
  /\ conn.status = "REVOKED" => conn.token \notin valid

InTurn ==
  /\ \A r \in Requests : RequestKnows(r)
  /\ \A a \in Agents : BusyFlow(a) => Known(Consented(a))
  /\ \A c \in Calls : CallKnows(c)
  /\ ConnectionKnown

-----------------------------------------------------------------------------
(* The scopes and the bindings.                                            *)

Covered ==
  \A a \in Agents :
    /\ flow[a].pc \in {"create", "bound"} => Needs[a] \subseteq conn.scopes
    /\ flow[a].pc = "write" => conn.scopes \subseteq flow[a].read

Bound == \A a \in Agents : binding[a] # "none" => flow[a].pc = "bound"

TokensInv == TypeOK /\ Fresh /\ \A r \in Requests : Shaped(r)

TurnsInv ==
  /\ ~overlapped => Alone
  /\ ~overlapped /\ faults = 0 => InTurn
  /\ ~overlapped => Covered

IInv == TokensInv /\ TurnsInv /\ Bound

-----------------------------------------------------------------------------
LEMMA TokenFacts ==
  /\ NoToken \notin Tokens
  /\ \A a \in Agents : Consented(a) \in Tokens /\ Consented(a) # NoToken
  /\ \A r \in Requests : Rotated(r) \in Tokens /\ Rotated(r) # NoToken
  /\ \A a, b : Consented(a) = Consented(b) => a = b
  /\ \A r, s : Rotated(r) = Rotated(s) => r = s
  /\ \A a, r : Consented(a) # Rotated(r)
BY DEF Tokens, NoToken, Consented, Rotated

LEMMA FaultType ==
  ASSUME TypeOK, faults < MaxFaults, faults' = faults + 1
  PROVE  faults' \in 0..MaxFaults /\ faults' # 0
<1>1. faults \in Nat /\ MaxFaults \in Nat
  BY ConstantsAssumption DEF TypeOK
<1> QED
  BY <1>1

LEMMA InitIInv == Init => IInv
<1> SUFFICES ASSUME Init PROVE IInv
  OBVIOUS
<1>1. TypeOK
  <2>1. NoConn \in Connection /\ NoFlow \in Flow /\ NoRequest \in Request /\ NoCall \in Call
    BY DEF NoConn, Connection, NoFlow, Flow, FlowPcs, NoRequest, Request, NoCall, Call
  <2>2. 0 \in 0..MaxFaults
    BY ConstantsAssumption
  <2> QED
    BY <2>1, <2>2 DEF Init, TypeOK, BindingStatus
<1>2. Fresh /\ \A r \in Requests : Shaped(r)
  BY TokenFacts DEF Init, Fresh, Unused, Shaped, NoConn, NoRequest, NoCall
<1>3. Alone
  BY DEF Init, Alone, BusyRequest, BusyFlow, BusyCall, NoRequest, NoFlow, NoCall
<1>4. InTurn
  BY DEF Init, InTurn, RequestKnows, BusyFlow, CallKnows, BusyCall, ConnectionKnown,
     NoConn, NoRequest, NoFlow, NoCall
<1>5. Covered /\ Bound
  BY DEF Init, NoFlow, Covered, Bound
<1> QED
  BY <1>1, <1>2, <1>3, <1>4, <1>5 DEF IInv, TokensInv, TurnsInv

-----------------------------------------------------------------------------
(* Types.                                                                  *)

LEMMA FlowType ==
  ASSUME TypeOK, NEW a \in Agents, FlowStep(a)
  PROVE  TypeOK'
<1> USE DEF TypeOK
<1>0. flow[a] \in Flow /\ Needs[a] \in SUBSET Scopes
  BY ConstantsAssumption
<1>8. ASSUME NEW pc \in FlowPcs, FlowGoto(a, pc) PROVE flow' \in [Agents -> Flow]
  BY <1>0, <1>8 DEF FlowGoto, Flow
<1>1. CASE CheckConnection(a) \/ OauthStart(a) \/ CallbackFails(a)
  <2>1. \E pc \in FlowPcs : FlowGoto(a, pc)
    BY <1>1 DEF CheckConnection, OauthStart, CallbackFails, FlowPcs
  <2>2. flow' \in [Agents -> Flow]
    BY <1>8, <2>1
  <2> QED
    BY <1>1, <2>2 DEF CheckConnection, OauthStart, CallbackFails
<1>2. CASE OauthCallback(a)
  <2>1. PICK granted \in {{}, Needs[a]} :
          flow' = [flow EXCEPT ![a].pc = "upsert", ![a].granted = granted]
    BY <1>2 DEF OauthCallback
  <2>2. flow' \in [Agents -> Flow]
    BY <1>0, <2>1 DEF Flow, FlowPcs
  <2>3. valid' \subseteq Tokens
    BY <1>2, TokenFacts DEF OauthCallback, Consented
  <2>4. overlapped' \in BOOLEAN
    BY <1>2 DEF OauthCallback, Enters
  <2> QED
    BY <1>2, <2>2, <2>3, <2>4 DEF OauthCallback
<1>3. CASE UpsertReads(a)
  <2>1. conn.scopes \in SUBSET Scopes
    BY DEF Connection
  <2>2. flow' \in [Agents -> Flow]
    BY <1>0, <1>3, <2>1 DEF UpsertReads, Flow, FlowPcs
  <2> QED
    BY <1>3, <2>2 DEF UpsertReads
<1>4. CASE UpsertWrites(a)
  <2>1. conn' \in Connection
    BY <1>0, <1>4, TokenFacts DEF UpsertWrites, Connection, Flow, Consented
  <2>2. flow' \in [Agents -> Flow]
    BY <1>0, <1>4 DEF UpsertWrites, NoFlow, Flow, FlowPcs
  <2> QED
    BY <1>4, <2>1, <2>2 DEF UpsertWrites
<1>5. CASE VerifyConnection(a) \/ BindReads(a)
  <2>1. \E pc \in FlowPcs : FlowGoto(a, pc)
    BY <1>5 DEF VerifyConnection, BindReads, FlowPcs
  <2>2. flow' \in [Agents -> Flow]
    BY <1>8, <2>1
  <2> QED
    BY <1>5, <2>2 DEF VerifyConnection, BindReads
<1>6. CASE BindCreates(a)
  <2>1. flow' \in [Agents -> Flow]
    BY <1>0, <1>6 DEF BindCreates, FlowGoto, Flow, FlowPcs
  <2> QED
    BY <1>6, <2>1 DEF BindCreates, BindingStatus
<1>7. CASE BindingEnds(a)
  BY <1>7 DEF BindingEnds
<1> QED
  BY <1>1, <1>2, <1>3, <1>4, <1>5, <1>6, <1>7 DEF FlowStep

\* A request that arrives goes on to the connection, or is refused.
LEMMA ArrivesEither ==
  ASSUME TypeOK, NEW r \in Requests, NEW a \in Agents, Arrives(r, a)
  PROVE  /\ \A s \in Requests \ {r} : req'[s] = req[s]
         /\ req'[r].token = req[r].token
         /\ \/ req'[r].pc = "connection" /\ req'[r].reply = req[r].reply
            \/ req'[r].pc = "over"
<1>0. req \in [Requests -> Request] /\ req[r] \in Request
  BY DEF TypeOK
<1>1. CASE Ends(r, "refused")
  BY <1>0, <1>1 DEF Ends, NoRequest, Request
<1>2. CASE req' = [req EXCEPT ![r].pc = "connection", ![r].agent = a, ![r].past = conn.expired]
  BY <1>0, <1>2 DEF Request
<1> QED
  BY <1>1, <1>2 DEF Arrives

LEMMA TokenType ==
  ASSUME TypeOK, NEW r \in Requests, TokenStep(r)
  PROVE  TypeOK'
<1> USE DEF TypeOK
<1>0. /\ req[r] \in Request /\ conn.token \in Tokens \union {NoToken}
      /\ conn.expired \in BOOLEAN /\ Rotated(r) \in Tokens
  BY TokenFacts DEF Connection
<1>1. ASSUME NEW a \in Agents, Arrives(r, a) PROVE TypeOK'
  <2>1. CASE Ends(r, "refused")
    BY <1>0, <1>1, <2>1 DEF Arrives, Enters, Ends, NoRequest, Request
  <2>2. CASE req' = [req EXCEPT ![r].pc = "connection", ![r].agent = a, ![r].past = conn.expired]
    BY <1>0, <1>1, <2>2 DEF Arrives, Enters, Request
  <2>3. req' \in [Requests -> Request]
    BY <1>1, <2>1, <2>2 DEF Arrives
  <2>4. overlapped' \in BOOLEAN
    BY <1>1 DEF Arrives, Enters
  <2> QED
    BY <1>1, <2>3, <2>4 DEF Arrives
<1>2. CASE FindConnection(r)
  <2>1. req' \in [Requests -> Request]
    <3>1. CASE Ends(r, "refused")
      BY <1>0, <3>1 DEF Ends, NoRequest, Request
    <3>2. CASE req' = [req EXCEPT ![r] = [NoRequest EXCEPT !.pc = "refresh", !.token = conn.token]]
      BY <1>0, <3>2 DEF NoRequest, Request
    <3> QED
      BY <1>2, <3>1, <3>2 DEF FindConnection
  <2> QED
    BY <1>2, <2>1 DEF FindConnection
<1>3. CASE Refresh(r)
  <2>1. req' \in [Requests -> Request]
    <3>1. CASE Goto(r, "save")
      BY <1>0, <3>1 DEF Goto, Request
    <3>2. CASE Ends(r, "token")
      BY <1>0, <3>2 DEF Ends, NoRequest, Request
    <3> QED
      BY <1>3, <3>1, <3>2 DEF Refresh
  <2>2. valid' \subseteq Tokens
    BY <1>0, <1>3 DEF Refresh, Rotated
  <2> QED
    BY <1>3, <2>1, <2>2 DEF Refresh
<1>4. CASE RefreshRefused(r)
  BY <1>0, <1>4 DEF RefreshRefused, Goto, Request
<1>5. CASE RefreshLost(r)
  <2>1. req' \in [Requests -> Request]
    BY <1>0, <1>5 DEF RefreshLost, Ends, NoRequest, Request
  <2>2. valid' \subseteq Tokens
    BY <1>0, <1>5 DEF RefreshLost, Rotated
  <2> QED
    BY <1>5, <2>1, <2>2, FaultType DEF RefreshLost
<1>6. CASE MarkRevoked(r)
  <2>1. req' \in [Requests -> Request]
    BY <1>0, <1>6 DEF MarkRevoked, Ends, NoRequest, Request
  <2>2. conn' \in Connection
    BY <1>6 DEF MarkRevoked, Connection
  <2> QED
    BY <1>6, <2>1, <2>2 DEF MarkRevoked
<1>7. CASE SaveToken(r)
  <2>1. req' \in [Requests -> Request]
    BY <1>0, <1>7 DEF SaveToken, Ends, NoRequest, Request
  <2>2. conn' \in Connection
    BY <1>0, <1>7 DEF SaveToken, Connection, Rotated
  <2> QED
    BY <1>7, <2>1, <2>2 DEF SaveToken
<1> QED
  BY <1>1, <1>2, <1>3, <1>4, <1>5, <1>6, <1>7 DEF TokenStep

LEMMA CallType ==
  ASSUME TypeOK, NEW c \in Calls, CallStep(c)
  PROVE  TypeOK'
<1> USE DEF TypeOK
<1>0. call[c] \in Call /\ NoCall \in Call
  BY DEF NoCall, Call
<1>1. ASSUME CallGoto(c, "mark") PROVE call' \in [Calls -> Call]
  BY <1>0, <1>1 DEF CallGoto, Call
<1>2. ASSUME CallEnds(c) PROVE call' \in [Calls -> Call]
  BY <1>0, <1>2 DEF CallEnds, NoCall, Call
<1>3. ASSUME NEW a \in Agents, DisableFinds(c, a) \/ DeleteBindings(c, a) PROVE TypeOK'
  <2>1. CASE DisableFinds(c, a)
    <3>1. call' \in [Calls -> Call]
      BY <1>0, <2>1 DEF DisableFinds, Call
    <3> QED
      BY <2>1, <3>1 DEF DisableFinds
  <2>2. CASE DeleteBindings(c, a)
    BY <1>2, <2>2 DEF DeleteBindings, BindingStatus
  <2> QED
    BY <1>3, <2>1, <2>2
<1>4. CASE DisableUpdates(c)
  BY <1>2, <1>4 DEF DisableUpdates, BindingStatus
<1>5. CASE RevokeFinds(c)
  <2>1. call' \in [Calls -> Call]
    BY <1>0, <1>5 DEF RevokeFinds, Call, Connection
  <2>2. overlapped' \in BOOLEAN
    BY <1>5 DEF RevokeFinds, Enters
  <2> QED
    BY <1>5, <2>1, <2>2 DEF RevokeFinds
<1>6. CASE RevokeAtSaas(c)
  BY <1>1, <1>6 DEF RevokeAtSaas
<1>7. CASE RevokeUnheard(c)
  BY <1>1, <1>7, FaultType DEF RevokeUnheard
<1>8. CASE RevokeMarks(c)
  <2>1. conn' \in Connection
    BY <1>8 DEF RevokeMarks, Connection
  <2> QED
    BY <1>2, <1>8, <2>1 DEF RevokeMarks
<1> QED
  BY <1>3, <1>4, <1>5, <1>6, <1>7, <1>8 DEF CallStep

LEMMA TypeStep == TypeOK /\ [Next]_vars => TypeOK'
<1> SUFFICES ASSUME TypeOK, [Next]_vars PROVE TypeOK'
  OBVIOUS
<1>1. CASE ConnectionExpires
  BY <1>1 DEF ConnectionExpires, TypeOK, Connection
<1>2. CASE PersonWithdraws
  BY <1>2 DEF PersonWithdraws, TypeOK
<1>3. CASE UNCHANGED vars
  BY <1>3 DEF vars, TypeOK
<1> QED
  BY <1>1, <1>2, <1>3, FlowType, TokenType, CallType DEF Next

-----------------------------------------------------------------------------
(* A token is in nobody's hands before it is in the connection.            *)

LEMMA FreshFlow ==
  ASSUME TokensInv, NEW a \in Agents, FlowStep(a)
  PROVE  Fresh' /\ \A r \in Requests : Shaped(r)'
<1>0. /\ TypeOK /\ Fresh /\ flow \in [Agents -> Flow] /\ flow[a] \in Flow /\ req' = req /\ call' = call
      /\ \A r \in Requests : Shaped(r)
  BY DEF TokensInv, TypeOK, FlowStep, CheckConnection, OauthStart, OauthCallback, CallbackFails,
     UpsertReads, UpsertWrites, VerifyConnection, BindReads, BindCreates, BindingEnds
<1>1. \A r \in Requests : Shaped(r)'
  BY <1>0 DEF Shaped
<1>2. CASE OauthCallback(a)
  <2>1. /\ flow[a].pc = "callback" /\ flow'[a].pc = "upsert" /\ conn' = conn
        /\ valid' = valid \union {Consented(a)}
        /\ \A b \in Agents \ {a} : flow'[b] = flow[b]
    BY <1>0, <1>2 DEF OauthCallback, Flow, Consented
  <2> QED
    BY <1>0, <1>1, <2>1, TokenFacts DEF Fresh, Unused
<1>3. CASE UpsertWrites(a)
  <2>1. /\ flow[a].pc = "write" /\ flow'[a].pc = "verify" /\ conn'.token = Consented(a)
        /\ valid' = valid
        /\ \A b \in Agents \ {a} : flow'[b] = flow[b]
    BY <1>0, <1>3 DEF UpsertWrites, FlowGoto, Flow, Consented
  <2> QED
    BY <1>0, <1>1, <2>1, TokenFacts DEF Fresh, Unused
<1>4. CASE ~OauthCallback(a) /\ ~UpsertWrites(a)
  <2>1. /\ conn' = conn /\ valid' = valid
    BY <1>4 DEF FlowStep, CheckConnection, OauthStart, CallbackFails, UpsertReads,
       VerifyConnection, BindReads, BindCreates, BindingEnds
  <2>2. CASE CheckConnection(a) \/ OauthStart(a) \/ CallbackFails(a)
    BY <1>0, <1>1, <2>1, <2>2 DEF CheckConnection, OauthStart, CallbackFails, FlowGoto, Flow,
       Fresh, Unused
  <2>3. CASE UpsertReads(a)
    <3>1. /\ flow[a].pc = "upsert" /\ flow'[a].pc = "write"
          /\ \A b \in Agents \ {a} : flow'[b] = flow[b]
      BY <1>0, <2>3 DEF UpsertReads, Flow
    <3> QED
      BY <1>0, <1>1, <2>1, <3>1 DEF Fresh, Unused
  <2>4. CASE VerifyConnection(a) \/ BindReads(a) \/ BindCreates(a) \/ BindingEnds(a)
    BY <1>0, <1>1, <2>1, <2>4 DEF VerifyConnection, BindReads, BindCreates, BindingEnds,
       FlowGoto, Flow, Fresh, Unused
  <2> QED
    BY <1>4, <2>2, <2>3, <2>4 DEF FlowStep
<1> QED
  BY <1>2, <1>3, <1>4

LEMMA FreshToken ==
  ASSUME TokensInv, NEW r \in Requests, TokenStep(r)
  PROVE  Fresh' /\ \A s \in Requests : Shaped(s)'
<1>0. /\ TypeOK /\ Fresh /\ req \in [Requests -> Request] /\ req[r] \in Request
      /\ flow' = flow /\ call' = call /\ conn \in Connection
      /\ \A s \in Requests : Shaped(s)
  BY DEF TokensInv, TypeOK, TokenStep, Arrives, FindConnection, Refresh, RefreshRefused,
     RefreshLost, MarkRevoked, SaveToken
<1>1. ASSUME NEW a \in Agents, Arrives(r, a) PROVE Fresh' /\ \A s \in Requests : Shaped(s)'
  <2>1. /\ conn' = conn /\ valid' = valid
        /\ \A s \in Requests \ {r} : req'[s] = req[s]
        /\ req[r].pc = "idle" /\ req'[r].token = req[r].token
        /\ \/ req'[r].pc = "connection" /\ req'[r].reply = "none"
           \/ req'[r].pc = "over"
    BY <1>0, <1>1, ArrivesEither DEF Arrives, Shaped
  <2> QED
    BY <1>0, <2>1 DEF Fresh, Unused, Shaped
<1>2. CASE FindConnection(r)
  <2>1. /\ conn' = conn /\ valid' = valid
        /\ \A s \in Requests \ {r} : req'[s] = req[s]
        /\ req[r].pc = "connection"
        /\ \/ req'[r].pc = "refresh" /\ req'[r].token = conn.token /\ req'[r].reply = req[r].reply
           \/ req'[r].pc = "over" /\ req'[r].token = req[r].token
    <3>1. CASE Ends(r, "refused")
      BY <1>0, <1>2, <3>1 DEF FindConnection, Ends, NoRequest, Request
    <3>2. CASE req' = [req EXCEPT ![r] = [NoRequest EXCEPT !.pc = "refresh", !.token = conn.token]]
      BY <1>0, <1>2, <3>2 DEF FindConnection, NoRequest, Request, Shaped
    <3> QED
      BY <1>2, <3>1, <3>2 DEF FindConnection
  <2> QED
    BY <1>0, <2>1 DEF Fresh, Unused, Shaped
<1>3. CASE Refresh(r) \/ RefreshLost(r)
  <2>1. /\ conn' = conn /\ req[r].pc = "refresh"
    BY <1>3 DEF Refresh, RefreshLost
  <2>2. /\ \A s \in Requests \ {r} : req'[s] = req[s]
        /\ req'[r].token = req[r].token
        /\ \/ req'[r].pc = "save" /\ req'[r].reply = req[r].reply
           \/ req'[r].pc = "over"
    <3>1. CASE Goto(r, "save")
      BY <1>0, <3>1 DEF Goto, Request
    <3>2. ASSUME NEW reply, Ends(r, reply)
          PROVE  /\ \A s \in Requests \ {r} : req'[s] = req[s]
                 /\ req'[r].token = req[r].token /\ req'[r].pc = "over"
      BY <1>0, <3>2 DEF Ends, NoRequest, Request
    <3> QED
      BY <1>3, <3>1, <3>2 DEF Refresh, RefreshLost
  <2>3. valid' \subseteq valid \union {Rotated(r)}
    BY <1>3 DEF Refresh, RefreshLost, Rotated
  <2> QED
    BY <1>0, <2>1, <2>2, <2>3, TokenFacts DEF Fresh, Unused, Shaped
<1>4. CASE RefreshRefused(r)
  <2>1. /\ conn' = conn /\ valid' = valid /\ req[r].pc = "refresh"
        /\ \A s \in Requests \ {r} : req'[s] = req[s]
        /\ req'[r].token = req[r].token /\ req'[r].reply = req[r].reply /\ req'[r].pc = "mark"
    BY <1>0, <1>4 DEF RefreshRefused, Goto, Request
  <2> QED
    BY <1>0, <2>1 DEF Fresh, Unused, Shaped
<1>5. CASE MarkRevoked(r)
  <2>1. /\ conn'.token = conn.token /\ valid' = valid
        /\ \A s \in Requests \ {r} : req'[s] = req[s]
        /\ req'[r].token = req[r].token /\ req'[r].pc = "over"
    BY <1>0, <1>5 DEF MarkRevoked, Ends, NoRequest, Request, Connection
  <2> QED
    BY <1>0, <2>1 DEF Fresh, Unused, Shaped
<1>6. CASE SaveToken(r)
  <2>1. /\ conn'.token = Rotated(r) /\ valid' = valid
        /\ \A s \in Requests \ {r} : req'[s] = req[s]
        /\ req'[r].token = req[r].token /\ req'[r].pc = "over"
    BY <1>0, <1>6 DEF SaveToken, Ends, NoRequest, Request, Connection, Rotated
  <2> QED
    BY <1>0, <2>1, TokenFacts DEF Fresh, Unused, Shaped
<1> QED
  BY <1>1, <1>2, <1>3, <1>4, <1>5, <1>6 DEF TokenStep

LEMMA FreshCall ==
  ASSUME TokensInv, NEW c \in Calls, CallStep(c)
  PROVE  Fresh' /\ \A s \in Requests : Shaped(s)'
<1>0. /\ TypeOK /\ Fresh /\ flow' = flow /\ req' = req /\ conn \in Connection
      /\ \A s \in Requests : Shaped(s)
      /\ call \in [Calls -> Call]
  BY DEF TokensInv, TypeOK, CallStep, DisableFinds, DisableUpdates, DeleteBindings,
     RevokeFinds, RevokeAtSaas, RevokeUnheard, RevokeMarks
<1>1. conn'.token = conn.token /\ valid' \subseteq valid
  BY <1>0 DEF Connection, CallStep, DisableFinds, DisableUpdates, DeleteBindings,
     RevokeFinds, RevokeAtSaas, RevokeUnheard, RevokeMarks
<1>2. \A d \in Calls : call'[d].token \in {call[d].token, conn.token, NoToken}
  <2>1. CASE RevokeFinds(c)
    BY <1>0, <2>1 DEF RevokeFinds, Call
  <2>2. ASSUME NEW pc, CallGoto(c, pc)
        PROVE  \A d \in Calls : call'[d].token = call[d].token
    BY <1>0, <2>2 DEF CallGoto, Call
  <2>3. ASSUME CallEnds(c)
        PROVE  \A d \in Calls : call'[d].token \in {call[d].token, NoToken}
    BY <1>0, <2>3 DEF CallEnds, NoCall, Call
  <2>4. ASSUME NEW a \in Agents, DisableFinds(c, a)
        PROVE  \A d \in Calls : call'[d].token = call[d].token
    BY <1>0, <2>4 DEF DisableFinds, Call
  <2> QED
    BY <2>1, <2>2, <2>3, <2>4 DEF CallStep, DisableUpdates, DeleteBindings,
       RevokeAtSaas, RevokeUnheard, RevokeMarks
<1> QED
  BY <1>0, <1>1, <1>2, TokenFacts DEF Fresh, Unused, Shaped

LEMMA TokensStep == TokensInv /\ [Next]_vars => TokensInv'
<1> SUFFICES ASSUME TokensInv, [Next]_vars
             PROVE  Fresh' /\ \A r \in Requests : Shaped(r)'
  BY TypeStep DEF TokensInv
<1>1. CASE ConnectionExpires \/ PersonWithdraws \/ UNCHANGED vars
  <2>1. /\ conn'.token = conn.token /\ valid' \subseteq valid
        /\ req' = req /\ flow' = flow /\ call' = call
    BY <1>1 DEF ConnectionExpires, PersonWithdraws, vars, TokensInv, TypeOK, Connection
  <2> QED
    BY <2>1 DEF TokensInv, Fresh, Unused, Shaped
<1> QED
  BY <1>1, FreshFlow, FreshToken, FreshCall DEF Next

-----------------------------------------------------------------------------
(* As long as nobody came beside another, nobody is beside another.        *)

\* Those who are busy after the step were busy before it.
LEMMA NobodyEnters ==
  ASSUME Alone,
         \A r \in Requests : BusyRequest(r)' => BusyRequest(r),
         \A a \in Agents : BusyFlow(a)' => BusyFlow(a),
         \A c \in Calls : BusyCall(c)' => BusyCall(c)
  PROVE  Alone'
BY DEF Alone

LEMMA NobodyBusy ==
  ASSUME ~Busy
  PROVE  /\ \A r \in Requests : ~BusyRequest(r)
         /\ \A a \in Agents : ~BusyFlow(a)
         /\ \A c \in Calls : ~BusyCall(c)
BY DEF Busy, BusyRequest, BusyFlow, BusyCall

LEMMA AloneFlow ==
  ASSUME TypeOK, ~overlapped => Alone, NEW a \in Agents, FlowStep(a), ~overlapped'
  PROVE  ~overlapped /\ Alone'
<1>0. /\ flow \in [Agents -> Flow] /\ flow[a] \in Flow /\ req' = req /\ call' = call
  BY DEF TypeOK, FlowStep, CheckConnection, OauthStart, OauthCallback, CallbackFails,
     UpsertReads, UpsertWrites, VerifyConnection, BindReads, BindCreates, BindingEnds
<1>1. CASE OauthCallback(a)
  <2>1. ~overlapped /\ ~Busy
    BY <1>1 DEF OauthCallback, Enters
  <2>2. \A b \in Agents \ {a} : flow'[b] = flow[b]
    BY <1>0, <1>1 DEF OauthCallback
  <2>3. /\ \A r \in Requests : ~BusyRequest(r)'
        /\ \A b \in Agents : BusyFlow(b)' => b = a
        /\ \A c \in Calls : ~BusyCall(c)'
    BY <1>0, <2>1, <2>2, NobodyBusy DEF BusyRequest, BusyFlow, BusyCall
  <2> QED
    BY <2>1, <2>3 DEF Alone
<1>2. CASE ~OauthCallback(a)
  <2>1. overlapped' = overlapped
    BY <1>2 DEF FlowStep, CheckConnection, OauthStart, CallbackFails, UpsertReads, UpsertWrites,
       VerifyConnection, BindReads, BindCreates, BindingEnds
  <2>2. \A b \in Agents : BusyFlow(b)' => BusyFlow(b)
    <3>1. CASE UpsertReads(a)
      BY <1>0, <3>1 DEF UpsertReads, BusyFlow
    <3>2. ASSUME NEW pc, pc \notin {"upsert", "write"}, FlowGoto(a, pc)
          PROVE  \A b \in Agents : BusyFlow(b)' => BusyFlow(b)
      BY <1>0, <3>2 DEF FlowGoto, BusyFlow, Flow
    <3>3. CASE BindingEnds(a)
      BY <3>3 DEF BindingEnds, BusyFlow
    <3>4. CASE UpsertWrites(a)
      BY <1>0, <3>4 DEF UpsertWrites, NoFlow, BusyFlow
    <3> QED
      BY <1>2, <3>1, <3>2, <3>3, <3>4 DEF FlowStep, CheckConnection, OauthStart, CallbackFails,
         VerifyConnection, BindReads, BindCreates
  <2>3. /\ \A r \in Requests : BusyRequest(r)' => BusyRequest(r)
        /\ \A c \in Calls : BusyCall(c)' => BusyCall(c)
    BY <1>0 DEF BusyRequest, BusyCall
  <2> QED
    BY <2>1, <2>2, <2>3, NobodyEnters
<1> QED
  BY <1>1, <1>2

LEMMA AloneToken ==
  ASSUME TypeOK, ~overlapped => Alone, NEW r \in Requests, TokenStep(r), ~overlapped'
  PROVE  ~overlapped /\ Alone'
<1>0. /\ req \in [Requests -> Request] /\ req[r] \in Request /\ flow' = flow /\ call' = call
  BY DEF TypeOK, TokenStep, Arrives, FindConnection, Refresh, RefreshRefused,
     RefreshLost, MarkRevoked, SaveToken
<1>1. ASSUME NEW a \in Agents, Arrives(r, a) PROVE ~overlapped /\ Alone'
  <2>1. ~overlapped /\ ~Busy
    BY <1>1 DEF Arrives, Enters
  <2>2. \A s \in Requests \ {r} : req'[s] = req[s]
    BY <1>1, ArrivesEither
  <2>3. /\ \A s \in Requests : BusyRequest(s)' => s = r
        /\ \A b \in Agents : ~BusyFlow(b)'
        /\ \A c \in Calls : ~BusyCall(c)'
    BY <1>0, <2>1, <2>2, NobodyBusy DEF BusyRequest, BusyFlow, BusyCall
  <2> QED
    BY <2>1, <2>3 DEF Alone
<1>2. ASSUME ~\E a \in Agents : Arrives(r, a) PROVE ~overlapped /\ Alone'
  <2>1. overlapped' = overlapped /\ req[r].pc \notin {"idle", "over"}
    BY <1>2 DEF TokenStep, FindConnection, Refresh, RefreshRefused, RefreshLost, MarkRevoked,
       SaveToken
  <2>2. \A s \in Requests \ {r} : req'[s] = req[s]
    BY <1>0, <1>2 DEF TokenStep, FindConnection, Refresh, RefreshRefused, RefreshLost,
       MarkRevoked, SaveToken, Goto, Ends
  <2>3. /\ \A s \in Requests : BusyRequest(s)' => BusyRequest(s)
        /\ \A b \in Agents : BusyFlow(b)' => BusyFlow(b)
        /\ \A c \in Calls : BusyCall(c)' => BusyCall(c)
    BY <1>0, <2>1, <2>2 DEF BusyRequest, BusyFlow, BusyCall
  <2> QED
    BY <2>1, <2>3, NobodyEnters
<1> QED
  BY <1>1, <1>2

LEMMA AloneCall ==
  ASSUME TypeOK, ~overlapped => Alone, NEW c \in Calls,
         CallStep(c), ~overlapped'
  PROVE  ~overlapped /\ Alone'
<1>0. /\ flow' = flow /\ req' = req
      /\ call \in [Calls -> Call]
  BY DEF TypeOK, CallStep, DisableFinds, DisableUpdates, DeleteBindings,
     RevokeFinds, RevokeAtSaas, RevokeUnheard, RevokeMarks
<1>1. CASE RevokeFinds(c)
  <2>1. ~overlapped /\ ~Busy
    BY <1>1 DEF RevokeFinds, Enters
  <2>2. \A d \in Calls : d = c \/ call'[d] = call[d]
    BY <1>0, <1>1 DEF RevokeFinds
  <2>3. /\ \A s \in Requests : ~BusyRequest(s)'
        /\ \A b \in Agents : ~BusyFlow(b)'
        /\ \A d \in Calls : BusyCall(d)' => d = c
    BY <1>0, <2>1, <2>2, NobodyBusy DEF BusyRequest, BusyFlow, BusyCall
  <2> QED
    BY <2>1, <2>3 DEF Alone
<1>2. CASE ~RevokeFinds(c)
  <2>1. overlapped' = overlapped
    BY <1>2 DEF CallStep, DisableFinds, DisableUpdates, DeleteBindings,
       RevokeAtSaas, RevokeUnheard, RevokeMarks
  <2>2. \A d \in Calls : BusyCall(d)' => BusyCall(d)
    <3>1. ASSUME NEW pc, CallGoto(c, pc), BusyCall(c)
          PROVE  \A d \in Calls : BusyCall(d)' => BusyCall(d)
      BY <1>0, <3>1 DEF CallGoto, BusyCall, Call
    <3>2. ASSUME CallEnds(c)
          PROVE  \A d \in Calls : BusyCall(d)' => BusyCall(d)
      BY <1>0, <3>2 DEF CallEnds, BusyCall, NoCall, Call
    <3>3. ASSUME NEW a \in Agents, DisableFinds(c, a)
          PROVE  \A d \in Calls : BusyCall(d)' => BusyCall(d)
      BY <1>0, <3>3 DEF DisableFinds, BusyCall, Call
    <3> QED
      BY <1>2, <3>1, <3>2, <3>3 DEF CallStep, DisableUpdates, DeleteBindings,
         RevokeAtSaas, RevokeUnheard, RevokeMarks, BusyCall
  <2>3. /\ \A s \in Requests : BusyRequest(s)' => BusyRequest(s)
        /\ \A b \in Agents : BusyFlow(b)' => BusyFlow(b)
    BY <1>0 DEF BusyRequest, BusyFlow
  <2> QED
    BY <2>1, <2>2, <2>3, NobodyEnters
<1> QED
  BY <1>1, <1>2

-----------------------------------------------------------------------------
(* What the one user of the connection knows.                              *)

Before == ~overlapped /\ faults = 0 /\ Alone /\ InTurn

LEMMA TurnFlow ==
  ASSUME TokensInv, Before, NEW a \in Agents, FlowStep(a), ~overlapped'
  PROVE  InTurn'
<1>0. /\ TypeOK /\ Fresh /\ flow \in [Agents -> Flow] /\ flow[a] \in Flow
      /\ req' = req /\ call' = call /\ withdrawn' = withdrawn
  BY DEF TokensInv, TypeOK, FlowStep, CheckConnection, OauthStart, OauthCallback, CallbackFails,
     UpsertReads, UpsertWrites, VerifyConnection, BindReads, BindCreates, BindingEnds
<1>1. CASE OauthCallback(a)
  <2>1. ~Busy /\ conn' = conn /\ valid' = valid \union {Consented(a)}
        /\ flow[a].pc = "callback" /\ \A b \in Agents \ {a} : flow'[b] = flow[b]
    BY <1>0, <1>1 DEF OauthCallback, Enters, Consented
  <2>2. conn.token # Consented(a)
    BY <1>0, <2>1 DEF Fresh, Unused
  <2>3. /\ \A r \in Requests : req[r].pc \in {"idle", "over"}
        /\ \A b \in Agents : ~BusyFlow(b)
        /\ \A c \in Calls : ~BusyCall(c)
    BY <2>1, NobodyBusy DEF BusyRequest
  <2>4. \A r \in Requests : RequestKnows(r)'
    BY <1>0, <2>1, <2>3 DEF Before, InTurn, RequestKnows
  <2>5. \A b \in Agents : BusyFlow(b)' => Known(Consented(b))'
    BY <2>1, <2>3 DEF BusyFlow, Known
  <2>6. \A c \in Calls : CallKnows(c)'
    BY <1>0, <2>3 DEF CallKnows, BusyCall
  <2>7. ConnectionKnown'
    BY <1>0, <2>1, <2>2, <2>3 DEF Before, InTurn, ConnectionKnown, Known, BusyCall
  <2> QED
    BY <2>4, <2>5, <2>6, <2>7 DEF InTurn
<1>2. CASE UpsertWrites(a)
  <2>1. /\ flow[a].pc = "write" /\ flow'[a].pc = "verify" /\ valid' = valid
        /\ conn'.token = Consented(a) /\ conn'.status = "ACTIVE"
        /\ \A b \in Agents \ {a} : flow'[b] = flow[b]
    BY <1>0, <1>2 DEF UpsertWrites, FlowGoto, Flow, Consented
  <2>2. /\ \A r \in Requests : req[r].pc \in {"idle", "over"} /\ req[r].token # Consented(a)
        /\ \A b \in Agents : BusyFlow(b) => b = a
        /\ \A c \in Calls : ~BusyCall(c)
        /\ Known(Consented(a))
    BY <1>0, <2>1 DEF Before, Alone, InTurn, Fresh, Unused, BusyRequest, BusyFlow
  <2>3. \A r \in Requests : RequestKnows(r)'
    BY <1>0, <2>1, <2>2 DEF RequestKnows
  <2>4. \A b \in Agents : BusyFlow(b)' => Known(Consented(b))'
    BY <2>1, <2>2 DEF BusyFlow
  <2>5. \A c \in Calls : CallKnows(c)'
    BY <1>0, <2>2 DEF CallKnows, BusyCall
  <2>6. ConnectionKnown'
    BY <1>0, <2>1, <2>2 DEF ConnectionKnown, Known
  <2> QED
    BY <2>3, <2>4, <2>5, <2>6 DEF InTurn
<1>3. CASE ~OauthCallback(a) /\ ~UpsertWrites(a)
  <2>1. conn' = conn /\ valid' = valid
    BY <1>3 DEF FlowStep, CheckConnection, OauthStart, CallbackFails, UpsertReads,
       VerifyConnection, BindReads, BindCreates, BindingEnds
  <2>2. \A b \in Agents : BusyFlow(b)' => BusyFlow(b)
    <3>1. CASE UpsertReads(a)
      BY <1>0, <3>1 DEF UpsertReads, BusyFlow
    <3>2. ASSUME NEW pc, pc \notin {"upsert", "write"}, FlowGoto(a, pc)
          PROVE  \A b \in Agents : BusyFlow(b)' => BusyFlow(b)
      BY <1>0, <3>2 DEF FlowGoto, BusyFlow, Flow
    <3>3. CASE BindingEnds(a)
      BY <3>3 DEF BindingEnds, BusyFlow
    <3> QED
      BY <1>3, <3>1, <3>2, <3>3 DEF FlowStep, CheckConnection, OauthStart, CallbackFails,
         VerifyConnection, BindReads, BindCreates
  <2> QED
    BY <1>0, <2>1, <2>2 DEF Before, InTurn, RequestKnows, CallKnows, BusyCall,
       ConnectionKnown, Known
<1> QED
  BY <1>1, <1>2, <1>3

LEMMA TurnToken ==
  ASSUME TokensInv, Before, NEW r \in Requests, TokenStep(r), ~overlapped', faults' = 0
  PROVE  InTurn'
<1>0. /\ TypeOK /\ Fresh /\ req \in [Requests -> Request] /\ req[r] \in Request
      /\ flow' = flow /\ call' = call /\ conn \in Connection /\ withdrawn' = withdrawn
      /\ Shaped(r) /\ RequestKnows(r) /\ ConnectionKnown
  BY DEF Before, InTurn, TokensInv, TypeOK, TokenStep, Arrives, FindConnection, Refresh,
     RefreshRefused, RefreshLost, MarkRevoked, SaveToken
\* The others of the connection, and what is left to show of the step.
<1>1. ASSUME \A s \in Requests \ {r} : ~BusyRequest(s) /\ req'[s] = req[s],
             \A b \in Agents : ~BusyFlow(b),
             \A c \in Calls : ~BusyCall(c),
             conn'.status = "REVOKED" \/ conn'.status = conn.status,
             \A s \in Requests \ {r} : conn'.token = conn.token \/ conn'.token # req[s].token,
             RequestKnows(r)', ConnectionKnown'
      PROVE  InTurn'
  <2>1. ASSUME NEW s \in Requests \ {r} PROVE RequestKnows(s)'
    BY <1>1 DEF Before, InTurn, RequestKnows, BusyRequest
  <2>2. /\ \A b \in Agents : ~BusyFlow(b)'
        /\ \A c \in Calls : CallKnows(c)'
    BY <1>0, <1>1 DEF BusyFlow, BusyCall, CallKnows
  <2> QED
    BY <1>1, <2>1, <2>2 DEF InTurn
<1>2. ASSUME req[r].pc \notin {"idle", "over"}
      PROVE  /\ \A s \in Requests \ {r} : ~BusyRequest(s)
             /\ \A b \in Agents : ~BusyFlow(b)
             /\ \A c \in Calls : ~BusyCall(c)
  BY <1>2 DEF Before, Alone, BusyRequest
<1>3. ASSUME NEW a \in Agents, Arrives(r, a) PROVE InTurn'
  <2>1. /\ ~Busy /\ req[r].pc = "idle" /\ req'[r].pc \in {"connection", "over"}
        /\ req'[r].token = req[r].token /\ conn' = conn /\ valid' = valid
        /\ \A s \in Requests \ {r} : req'[s] = req[s]
    BY <1>0, <1>3, ArrivesEither DEF Arrives, Enters
  <2>2. RequestKnows(r)'
    BY <1>0, <2>1 DEF RequestKnows, Shaped
  <2>3. ConnectionKnown'
    BY <1>0, <2>1, NobodyBusy DEF ConnectionKnown, BusyRequest, BusyCall, Known
  <2> QED
    BY <1>1, <2>1, <2>2, <2>3, NobodyBusy
<1>4. CASE FindConnection(r)
  <2>1. /\ req[r].pc = "connection" /\ conn' = conn /\ valid' = valid
        /\ \A s \in Requests \ {r} : req'[s] = req[s]
        /\ \/ /\ req'[r].pc = "refresh" /\ req'[r].token = conn.token
              /\ req'[r].reply = "none" /\ conn.status = "ACTIVE"
           \/ req'[r].pc = "over" /\ req'[r].token = NoToken
    <3>1. CASE Ends(r, "refused")
      BY <1>0, <1>4, <3>1 DEF FindConnection, Ends, NoRequest, Request, Shaped
    <3>2. CASE req' = [req EXCEPT ![r] = [NoRequest EXCEPT !.pc = "refresh", !.token = conn.token]]
               /\ conn.status = "ACTIVE"
      BY <1>0, <1>4, <3>2 DEF FindConnection, NoRequest, Request, Shaped
    <3> QED
      BY <1>4, <3>1, <3>2 DEF FindConnection, Covers
  <2>2. RequestKnows(r)'
    BY <2>1 DEF RequestKnows
  <2>3. ConnectionKnown'
    BY <1>0, <1>2, <2>1 DEF ConnectionKnown, BusyRequest, BusyCall, Known
  <2> QED
    BY <1>1, <1>2, <2>1, <2>2, <2>3
<1>5. CASE Refresh(r)
  <2>1. /\ req[r].pc = "refresh" /\ conn' = conn /\ req[r].token = conn.token
        /\ conn.token \in valid /\ conn.status = "ACTIVE" /\ conn.token # Rotated(r)
    BY <1>0, <1>5 DEF Refresh, RequestKnows, Fresh, Unused
  <2>2. \/ /\ valid' = (valid \ {conn.token}) \union {Rotated(r)}
           /\ Goto(r, "save")
        \/ valid' = valid /\ Ends(r, "token")
    BY <1>5, <2>1 DEF Refresh, Rotated
  <2>3. /\ \A s \in Requests \ {r} : req'[s] = req[s]
        /\ req'[r].token = conn.token
        /\ \/ /\ valid' = (valid \ {conn.token}) \union {Rotated(r)}
              /\ req'[r].pc = "save" /\ req'[r].reply = "none"
           \/ valid' = valid /\ req'[r].pc = "over" /\ req'[r].reply = "token"
    <3>1. CASE valid' = (valid \ {conn.token}) \union {Rotated(r)} /\ Goto(r, "save")
      BY <1>0, <2>1, <3>1 DEF Goto, Request, Shaped
    <3>2. CASE valid' = valid /\ Ends(r, "token")
      BY <1>0, <2>1, <3>2 DEF Ends, NoRequest, Request
    <3> QED
      BY <2>2, <3>1, <3>2
  <2>4. RequestKnows(r)'
    BY <2>1, <2>3 DEF RequestKnows, Known
  <2>5. ConnectionKnown'
    BY <2>1, <2>3 DEF ConnectionKnown, Known
  <2> QED
    BY <1>1, <1>2, <2>1, <2>3, <2>4, <2>5
<1>6. CASE RefreshRefused(r)
  <2>1. /\ req[r].pc = "refresh" /\ conn' = conn /\ valid' = valid
        /\ req[r].token \notin valid
        /\ \A s \in Requests \ {r} : req'[s] = req[s]
        /\ req'[r].pc = "mark" /\ req'[r].token = req[r].token /\ req'[r].reply = "none"
    BY <1>0, <1>6 DEF RefreshRefused, Goto, Request, Shaped
  <2>2. RequestKnows(r)'
    BY <1>0, <2>1 DEF RequestKnows
  <2>3. ConnectionKnown'
    BY <1>0, <2>1 DEF ConnectionKnown, RequestKnows
  <2> QED
    BY <1>1, <1>2, <2>1, <2>2, <2>3
<1>7. ~RefreshLost(r)
  BY <1>0, FaultType DEF RefreshLost
<1>8. CASE MarkRevoked(r)
  <2>1. /\ req[r].pc = "mark" /\ valid' = valid
        /\ conn'.status = "REVOKED" /\ conn'.token = conn.token
        /\ \A s \in Requests \ {r} : req'[s] = req[s]
        /\ req'[r].pc = "over"
    BY <1>0, <1>8 DEF MarkRevoked, Ends, NoRequest, Request, Connection
  <2>2. RequestKnows(r)' /\ ConnectionKnown'
    BY <1>0, <2>1 DEF RequestKnows, ConnectionKnown
  <2> QED
    BY <1>1, <1>2, <2>1, <2>2
<1>9. CASE SaveToken(r)
  <2>1. /\ req[r].pc = "save" /\ valid' = valid
        /\ conn'.status = conn.status /\ conn'.token = Rotated(r)
        /\ \A s \in Requests \ {r} : req'[s] = req[s]
        /\ req'[r].pc = "over" /\ req'[r].reply = "token"
    BY <1>0, <1>9 DEF SaveToken, Ends, NoRequest, Request, Connection, Rotated
  <2>2. /\ \A s \in Requests : req[s].token # Rotated(r)
        /\ conn.status = "ACTIVE" /\ Known(Rotated(r))
    BY <1>0, <2>1 DEF Fresh, Unused, RequestKnows
  <2>3. RequestKnows(r)' /\ ConnectionKnown'
    BY <1>0, <2>1, <2>2 DEF RequestKnows, ConnectionKnown, Known
  <2> QED
    BY <1>1, <1>2, <2>1, <2>2, <2>3
<1> QED
  BY <1>3, <1>4, <1>5, <1>6, <1>7, <1>8, <1>9 DEF TokenStep

LEMMA TurnCall ==
  ASSUME TokensInv, Before, NEW c \in Calls, CallStep(c),
         ~overlapped', faults' = 0
  PROVE  InTurn'
<1>0. /\ TypeOK /\ flow' = flow /\ req' = req /\ conn \in Connection /\ withdrawn' = withdrawn
      /\ call \in [Calls -> Call]
      /\ CallKnows(c) /\ ConnectionKnown /\ \A r \in Requests : RequestKnows(r)
  BY DEF Before, InTurn, TokensInv, TypeOK, CallStep, DisableFinds, DisableUpdates,
     DeleteBindings, RevokeFinds, RevokeAtSaas, RevokeUnheard, RevokeMarks
\* The step of the one user: the others know nothing they could be wrong about.
<1>1. ASSUME \A r \in Requests : ~BusyRequest(r),
             \A b \in Agents : ~BusyFlow(b),
             \A d \in Calls : d = c \/ ~BusyCall(d)',
             conn'.token = conn.token,
             conn'.status = "REVOKED" \/ conn'.status = conn.status,
             CallKnows(c)', ConnectionKnown'
      PROVE  InTurn'
  <2>1. \A r \in Requests : RequestKnows(r)'
    BY <1>0, <1>1 DEF RequestKnows, BusyRequest
  <2>2. /\ \A b \in Agents : ~BusyFlow(b)'
        /\ \A d \in Calls : CallKnows(d)'
    BY <1>0, <1>1 DEF BusyFlow, BusyCall, CallKnows
  <2> QED
    BY <1>1, <2>1, <2>2 DEF InTurn
<1>2. ASSUME BusyCall(c)
      PROVE  /\ \A r \in Requests : ~BusyRequest(r)
             /\ \A b \in Agents : ~BusyFlow(b)
             /\ \A d \in Calls : d = c \/ ~BusyCall(d)
  BY <1>2 DEF Before, Alone
<1>3. /\ CallGoto(c, "mark") =>
           /\ call'[c].pc = "mark" /\ call'[c].token = call[c].token
           /\ \A d \in Calls : d = c \/ call'[d] = call[d]
      /\ CallEnds(c) => call'[c].pc = "over" /\ \A d \in Calls : d = c \/ call'[d] = call[d]
  BY <1>0 DEF CallGoto, CallEnds, NoCall, Call
<1>4. CASE RevokeFinds(c)
  <2>1. /\ ~Busy /\ conn' = conn /\ valid' = valid
        /\ call'[c].pc = "at_saas" /\ call'[c].token = conn.token
        /\ \A d \in Calls : d = c \/ call'[d] = call[d]
    BY <1>0, <1>4 DEF RevokeFinds, Enters, Call
  <2>2. CallKnows(c)'
    BY <2>1 DEF CallKnows
  <2>3. ConnectionKnown'
    BY <1>0, <2>1, NobodyBusy DEF ConnectionKnown, BusyRequest, BusyCall, Known
  <2>4. \A d \in Calls : d = c \/ ~BusyCall(d)'
    BY <2>1, NobodyBusy DEF BusyCall
  <2> QED
    BY <1>1, <2>1, <2>2, <2>3, <2>4, NobodyBusy
<1>5. CASE RevokeAtSaas(c)
  <2>1. /\ call[c].pc = "at_saas" /\ call[c].token = conn.token /\ BusyCall(c)
        /\ conn' = conn /\ valid' = valid \ {conn.token}
    BY <1>0, <1>5 DEF RevokeAtSaas, CallKnows, BusyCall
  <2>2. /\ call'[c].pc = "mark" /\ call'[c].token = conn.token
        /\ \A d \in Calls : d = c \/ call'[d] = call[d]
    BY <1>3, <1>5, <2>1 DEF RevokeAtSaas
  <2>3. CallKnows(c)' /\ ConnectionKnown'
    BY <2>1, <2>2 DEF CallKnows, ConnectionKnown
  <2>4. \A d \in Calls : d = c \/ ~BusyCall(d)'
    BY <1>2, <2>1, <2>2 DEF BusyCall
  <2> QED
    BY <1>1, <1>2, <2>1, <2>3, <2>4
<1>6. ~RevokeUnheard(c)
  BY <1>0, FaultType DEF RevokeUnheard
<1>7. CASE RevokeMarks(c)
  <2>1. /\ call[c].pc = "mark" /\ BusyCall(c) /\ conn.token \notin valid
        /\ conn'.token = conn.token /\ conn'.status = "REVOKED" /\ valid' = valid
    BY <1>0, <1>7 DEF RevokeMarks, CallKnows, BusyCall, Connection
  <2>2. /\ call'[c].pc = "over"
        /\ \A d \in Calls : d = c \/ call'[d] = call[d]
    BY <1>3, <1>7 DEF RevokeMarks
  <2>3. CallKnows(c)' /\ ConnectionKnown'
    BY <2>1, <2>2 DEF CallKnows, BusyCall, ConnectionKnown
  <2>4. \A d \in Calls : d = c \/ ~BusyCall(d)'
    BY <1>2, <2>1, <2>2 DEF BusyCall
  <2> QED
    BY <1>1, <1>2, <2>1, <2>3, <2>4
<1>8. CASE (\E a \in Agents : DisableFinds(c, a) \/ DeleteBindings(c, a)) \/ DisableUpdates(c)
  <2>1. conn' = conn /\ valid' = valid /\ call[c].pc # "mark"
    BY <1>8 DEF DisableFinds, DisableUpdates, DeleteBindings
  <2>2. /\ call'[c].pc \notin {"at_saas", "mark"}
        /\ \A d \in Calls : d = c \/ call'[d] = call[d]
    <3>1. ASSUME NEW a \in Agents, DisableFinds(c, a)
          PROVE  /\ call'[c].pc \notin {"at_saas", "mark"}
                 /\ \A d \in Calls : d = c \/ call'[d] = call[d]
      BY <1>0, <3>1 DEF DisableFinds, Call
    <3> QED
      BY <1>3, <1>8, <3>1 DEF DisableUpdates, DeleteBindings
  <2>3. \A d \in Calls : CallKnows(d)'
    BY <2>1, <2>2 DEF Before, InTurn, CallKnows, BusyCall
  <2>4. ConnectionKnown'
    BY <1>0, <2>1, <2>2 DEF ConnectionKnown, Known
  <2> QED
    BY <1>0, <2>1, <2>3, <2>4 DEF Before, InTurn, RequestKnows, BusyFlow, Known
<1> QED
  BY <1>4, <1>5, <1>6, <1>7, <1>8 DEF CallStep

LEMMA TurnElsewhere ==
  ASSUME TokensInv, Before, ConnectionExpires \/ PersonWithdraws \/ UNCHANGED vars
  PROVE  Alone' /\ InTurn'
<1>1. /\ conn'.token = conn.token /\ conn'.status = conn.status
      /\ valid' \subseteq valid
      /\ \A t : Known(t) => Known(t)'
      /\ req' = req /\ flow' = flow /\ call' = call
  BY DEF ConnectionExpires, PersonWithdraws, vars, TokensInv, TypeOK, Connection, Known
<1>2. Alone'
  BY <1>1 DEF Before, Alone, BusyRequest, BusyFlow, BusyCall
<1>3. \A t : Known(t) => t \in valid' \union withdrawn'
  BY <1>1 DEF Known
<1>4. InTurn'
  BY <1>1, <1>3 DEF Before, InTurn, RequestKnows, BusyFlow, CallKnows, BusyCall,
     ConnectionKnown, Known
<1> QED
  BY <1>2, <1>4

-----------------------------------------------------------------------------
(* Scopes are not lost.                                                    *)

LEMMA CoveredFlow ==
  ASSUME TypeOK, Alone, Covered, NEW a \in Agents, FlowStep(a)
  PROVE  Covered'
<1>0. flow \in [Agents -> Flow] /\ flow[a] \in Flow /\ conn \in Connection
  BY DEF TypeOK
<1>1. CASE UpsertWrites(a)
  <2>1. /\ flow[a].pc = "write" /\ flow'[a].pc = "verify"
        /\ conn'.scopes = flow[a].read \union flow[a].granted
        /\ \A b \in Agents \ {a} : flow'[b] = flow[b]
    BY <1>0, <1>1 DEF UpsertWrites, FlowGoto, Flow
  <2>2. \A b \in Agents \ {a} : flow[b].pc # "write"
    BY <2>1 DEF Alone, BusyFlow
  <2> QED
    BY <2>1, <2>2 DEF Covered
<1>2. CASE UpsertReads(a)
  <2>1. /\ conn' = conn /\ flow'[a].pc = "write" /\ flow'[a].read = conn.scopes
        /\ \A b \in Agents \ {a} : flow'[b] = flow[b]
    BY <1>0, <1>2 DEF UpsertReads, Flow
  <2> QED
    BY <2>1 DEF Covered
<1>3. CASE BindReads(a)
  <2>1. /\ conn' = conn /\ \A b \in Agents \ {a} : flow'[b] = flow[b]
        /\ \/ flow'[a].pc = "create" /\ Needs[a] \subseteq conn.scopes
           \/ flow'[a].pc = "failed"
    BY <1>0, <1>3 DEF BindReads, FlowGoto, Flow
  <2> QED
    BY <2>1 DEF Covered
<1>4. CASE BindCreates(a)
  <2>1. /\ conn' = conn /\ \A b \in Agents \ {a} : flow'[b] = flow[b]
        /\ flow[a].pc = "create" /\ flow'[a].pc = "bound"
    BY <1>0, <1>4 DEF BindCreates, FlowGoto, Flow
  <2> QED
    BY <2>1 DEF Covered
<1>5. CASE BindingEnds(a)
  BY <1>5 DEF BindingEnds, Covered
<1>6. CASE CheckConnection(a) \/ OauthStart(a) \/ CallbackFails(a) \/ VerifyConnection(a)
  <2>1. PICK pc \in {"bind", "start", "callback", "failed"} : FlowGoto(a, pc) /\ conn' = conn
    BY <1>6 DEF CheckConnection, OauthStart, CallbackFails, VerifyConnection
  <2>2. flow'[a].pc \in {"bind", "start", "callback", "failed"}
        /\ \A b \in Agents \ {a} : flow'[b] = flow[b]
    BY <1>0, <2>1 DEF FlowGoto, Flow
  <2> QED
    BY <2>1, <2>2 DEF Covered
<1>7. CASE OauthCallback(a)
  <2>1. flow'[a].pc = "upsert" /\ conn' = conn /\ \A b \in Agents \ {a} : flow'[b] = flow[b]
    BY <1>0, <1>7 DEF OauthCallback, Flow
  <2> QED
    BY <2>1 DEF Covered
<1> QED
  BY <1>1, <1>2, <1>3, <1>4, <1>5, <1>6, <1>7 DEF FlowStep

LEMMA CoveredElsewhere ==
  ASSUME TypeOK, Covered, flow' = flow, conn'.scopes = conn.scopes
  PROVE  Covered'
BY DEF Covered

LEMMA ScopesElsewhere ==
  ASSUME TypeOK, [Next]_vars, ~\E a \in Agents : FlowStep(a)
  PROVE  flow' = flow /\ conn'.scopes = conn.scopes
<1>0. conn \in Connection
  BY DEF TypeOK
<1>1. ASSUME NEW r \in Requests, TokenStep(r) PROVE flow' = flow /\ conn'.scopes = conn.scopes
  BY <1>0, <1>1 DEF TokenStep, Arrives, FindConnection, Refresh, RefreshRefused, RefreshLost,
     MarkRevoked, SaveToken, Connection
<1>2. ASSUME NEW c \in Calls, CallStep(c)
      PROVE  flow' = flow /\ conn'.scopes = conn.scopes
  BY <1>0, <1>2 DEF CallStep, DisableFinds, DisableUpdates, DeleteBindings, RevokeFinds,
     RevokeAtSaas, RevokeUnheard, RevokeMarks, Connection
<1>3. CASE ConnectionExpires \/ PersonWithdraws \/ UNCHANGED vars
  BY <1>0, <1>3 DEF ConnectionExpires, PersonWithdraws, vars, Connection
<1> QED
  BY <1>1, <1>2, <1>3 DEF Next

LEMMA TurnsStep == TokensInv /\ TurnsInv /\ [Next]_vars => TurnsInv'
<1> SUFFICES ASSUME TokensInv, TurnsInv, [Next]_vars, ~overlapped'
             PROVE  Alone' /\ (faults' = 0 => InTurn') /\ Covered'
  BY DEF TurnsInv
<1>0. TypeOK /\ faults \in Nat /\ overlapped \in BOOLEAN
  BY ConstantsAssumption DEF TokensInv, TypeOK
<1>1. faults' = faults \/ faults' = faults + 1
  BY DEF Next, FlowStep, CheckConnection, OauthStart, OauthCallback, CallbackFails, UpsertReads,
     UpsertWrites, VerifyConnection, BindReads, BindCreates, BindingEnds, TokenStep, Arrives,
     FindConnection, Refresh, RefreshRefused, RefreshLost, MarkRevoked, SaveToken, CallStep,
     DisableFinds, DisableUpdates, DeleteBindings, RevokeFinds, RevokeAtSaas, RevokeUnheard,
     RevokeMarks, ConnectionExpires, PersonWithdraws, vars
<1>2. faults' = 0 => faults = 0
  BY <1>0, <1>1
<1>3. ~overlapped /\ Alone'
  <2>1. CASE ConnectionExpires \/ PersonWithdraws \/ UNCHANGED vars
    <3>1. overlapped' = overlapped /\ req' = req /\ flow' = flow /\ call' = call
      BY <2>1 DEF ConnectionExpires, PersonWithdraws, vars
    <3> QED
      BY <3>1 DEF TurnsInv, Alone, BusyRequest, BusyFlow, BusyCall
  <2> QED
    BY <1>0, <2>1, AloneFlow, AloneToken, AloneCall DEF Next, TurnsInv
<1>4. faults' = 0 => Before
  BY <1>2, <1>3 DEF TurnsInv, Before
<1>5. faults' = 0 => InTurn'
  BY <1>4, TurnFlow, TurnToken, TurnCall, TurnElsewhere DEF Next
<1>6. Covered'
  BY <1>0, <1>3, CoveredFlow, CoveredElsewhere, ScopesElsewhere DEF TurnsInv
<1> QED
  BY <1>3, <1>5, <1>6

-----------------------------------------------------------------------------
(* The binding.                                                            *)

LEMMA BoundStep == TypeOK /\ Bound /\ [Next]_vars => Bound'
<1> SUFFICES ASSUME TypeOK, Bound, [Next]_vars PROVE Bound'
  OBVIOUS
<1>0. /\ flow \in [Agents -> Flow] /\ binding \in [Agents -> BindingStatus]
  BY DEF TypeOK
<1>1. ASSUME NEW a \in Agents, FlowStep(a) PROVE Bound'
  <2>1. CASE BindCreates(a)
    <3>1. /\ flow'[a].pc = "bound"
          /\ \A b \in Agents \ {a} : flow'[b] = flow[b] /\ binding'[b] = binding[b]
      BY <1>0, <2>1 DEF BindCreates, FlowGoto, Flow
    <3> QED
      BY <3>1 DEF Bound
  <2>2. CASE ~BindCreates(a)
    <3>1. binding' = binding /\ (flow' = flow \/ flow[a].pc # "bound")
      BY <1>1, <2>2 DEF FlowStep, CheckConnection, OauthStart, OauthCallback, CallbackFails,
         UpsertReads, UpsertWrites, VerifyConnection, BindReads, BindingEnds
    <3>2. \A b \in Agents \ {a} : flow'[b] = flow[b]
      BY <1>0, <1>1, <2>2 DEF FlowStep, CheckConnection, OauthStart, OauthCallback, FlowGoto,
         CallbackFails, UpsertReads, UpsertWrites, VerifyConnection, BindReads, BindingEnds
    <3> QED
      BY <3>1, <3>2 DEF Bound
  <2> QED
    BY <2>1, <2>2
<1>2. ASSUME NEW c \in Calls, CallStep(c) PROVE Bound'
  <2>1. flow' = flow
    BY <1>2 DEF CallStep, DisableFinds, DisableUpdates, DeleteBindings, RevokeFinds,
       RevokeAtSaas, RevokeUnheard, RevokeMarks
  <2>2. \A b \in Agents : binding'[b] # "none" => binding[b] # "none"
    BY <1>0, <1>2 DEF CallStep, DisableFinds, DisableUpdates, DeleteBindings, RevokeFinds,
       RevokeAtSaas, RevokeUnheard, RevokeMarks
  <2> QED
    BY <2>1, <2>2 DEF Bound
<1>3. CASE UNCHANGED <<flow, binding>>
  BY <1>3 DEF Bound
<1>4. ASSUME NEW r \in Requests, TokenStep(r) PROVE UNCHANGED <<flow, binding>>
  BY <1>4 DEF TokenStep, Arrives, FindConnection, Refresh, RefreshRefused, RefreshLost,
     MarkRevoked, SaveToken
<1> QED
  BY <1>1, <1>2, <1>3, <1>4 DEF Next, ConnectionExpires, PersonWithdraws, vars

-----------------------------------------------------------------------------
(* The theorems.                                                           *)

LEMMA Inductive == Spec => []IInv
<1>1. IInv /\ [Next]_vars => IInv'
  BY TokensStep, TurnsStep, BoundStep DEF IInv, TokensInv
<1> QED
  BY InitIInv, <1>1, PTL DEF Spec

\* However consents, requests and calls follow each other, a connection that
\* is ACTIVE works, and covers the scopes of the agents bound to it.
THEOREM ActiveWorks == Spec => []ActiveConnectionWorks
<1>1. IInv => ActiveConnectionWorks
  <2> SUFFICES ASSUME IInv, ~overlapped, faults = 0, ~Busy, conn.status = "ACTIVE"
               PROVE  /\ conn.token \in valid \union withdrawn
                      /\ \A a \in Agents : binding[a] # "none" => Needs[a] \subseteq conn.scopes
    BY DEF ActiveConnectionWorks
  <2>1. ConnectionKnown /\ Covered /\ Bound
    BY DEF IInv, TurnsInv, InTurn
  <2>2. conn.token \in valid \union withdrawn
    BY <2>1, NobodyBusy DEF ConnectionKnown, Known, BusyRequest, BusyCall
  <2> QED
    BY <2>1, <2>2 DEF Covered, Bound
<1> QED
  BY Inductive, <1>1, PTL

\* Under the same conditions what is marked REVOKED is dead at the SaaS, and
\* what was refused there is marked.
THEOREM RevokedIsDead == Spec => []RevokedConnectionIsDead
<1>1. IInv => RevokedConnectionIsDead
  BY DEF IInv, TurnsInv, InTurn, ConnectionKnown, RequestKnows, RevokedConnectionIsDead
<1> QED
  BY Inductive, <1>1, PTL

\* Of all the writers of the connection only a consent makes a revoked one
\* ACTIVE again; a rotated token that is stored late does not.
THEOREM ConsentRevives == Spec => RevivedByConsentOnly
<1> DEFINE Revives ==
      conn.status = "REVOKED" /\ conn'.status = "ACTIVE" =>
        \E a \in Agents : conn'.token = <<"consent", a>> /\ flow'[a].pc # flow[a].pc
<1>1. ASSUME IInv, [Next]_vars PROVE Revives
  <2>0. conn \in Connection /\ flow \in [Agents -> Flow]
    BY <1>1 DEF IInv, TokensInv, TypeOK
  <2>1. ASSUME NEW a \in Agents, UpsertWrites(a) PROVE Revives
    BY <2>0, <2>1 DEF UpsertWrites, FlowGoto, Flow
  <2>2. ASSUME ~\E a \in Agents : UpsertWrites(a) PROVE conn'.status \in {conn.status, "REVOKED"}
    BY <1>1, <2>0, <2>2 DEF Connection, Next, FlowStep, CheckConnection, OauthStart, OauthCallback,
       CallbackFails, UpsertReads, VerifyConnection, BindReads, BindCreates, BindingEnds,
       TokenStep, Arrives, FindConnection, Refresh, RefreshRefused, RefreshLost, MarkRevoked,
       SaveToken, CallStep, DisableFinds, DisableUpdates, DeleteBindings, RevokeFinds,
       RevokeAtSaas, RevokeUnheard, RevokeMarks, ConnectionExpires,
       PersonWithdraws, vars
  <2> QED
    BY <2>1, <2>2
<1>2. IInv /\ [Next]_vars => [Revives]_vars
  BY <1>1
<1> QED
  BY Inductive, <1>2, PTL DEF Spec, RevivedByConsentOnly
=============================================================================
