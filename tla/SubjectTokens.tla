---------------------------- MODULE SubjectTokens ----------------------------
(***************************************************************************)
(* The Agent OP's connection to the Human IdP, composed with the token     *)
(* endpoint and the revocation endpoint of IdpTokens.  An agent's refresh  *)
(* token comes from the consent callback, is spent and replaced at each    *)
(* request for a subject token, and is handed back by a cleanup or when    *)
(* the Agent OP takes a refusal for a reuse.                               *)
(*                                                                         *)
(* One grant is one agent's connection.  Only the Agent OP presents its    *)
(* credentials: a behaviour contains no stolen token.  Calls are requests  *)
(* to the Agent OP: the browser may come back twice from one consent, the  *)
(* Agent Runtime may send a second request while the first still runs, and *)
(* the Lifecycle Manager repeats a cleanup.                                *)
(***************************************************************************)
EXTENDS IdpTokens

CONSTANTS
  Consents,   \* returns of the browser from the consent, per agent
  Subjects,   \* requests for a subject token, per agent
  Cleanups    \* requests to revoke the connection, per agent

Calls == Consents \union Subjects \union Cleanups

ASSUME CallsAreDistinct ==
  /\ Subjects \cap Cleanups = {}
  /\ Consents \cap (Subjects \union Cleanups) = {}

VARIABLES
  used,       \* agents whose consent state is marked used
  conn,       \* the document in idp_connections
  rotations,  \* the collection idp_connection_rotations
  stopped,    \* agents that the Lifecycle Manager has stopped
  call,       \* how far each call is
  reported    \* agents for which refresh_token_reuse has been published

idp   == <<doc, session, auth, req, lapsed, faults>>
agent == <<used, conn, rotations, stopped, reported>>
svars == <<idp, agent, call>>

-----------------------------------------------------------------------------
NoToken == <<"none", "none">>
NoConn  == [status |-> "absent", token |-> NoToken]
Connection == [status : {"absent", "ACTIVE", "REVOKED"},
               token : RefreshTokens \union {NoToken}]

\* What the caller gets: revoked and failed are those of a cleanup.
Results == {"none", "ok", "refused", "revoked", "failed"}
NoHttp  == "no request"
Call == [pc : {"idle", "use", "exchange", "connection", "spend", "wait", "remember", "save", "history",
               "mark", "hand_back", "handing", "forget", "keep", "over"},
         token : RefreshTokens \union {NoToken},
         http : Requests \union {NoHttp},
         result : Results]
Waiting == [pc |-> "idle", token |-> NoToken, http |-> NoHttp,
            result |-> "none"]

CallAt(a, p, pc) == call[a][p].pc = pc
CallGoto(a, p, pc) == call' = [call EXCEPT ![a][p].pc = pc]
Returns(a, p, result) ==
  call' = [call EXCEPT ![a][p].pc = "over", ![a][p].result = result]
Active(a, p) == call[a][p].pc \notin {"idle", "over"}

Opens(a, p, pc, token) ==
  call' = [call EXCEPT ![a][p] = [Waiting EXCEPT !.pc = pc, !.token = token]]

\* The call sends an HTTPS request to the Human IdP.
Sends(a, p, r, pc) == call' = [call EXCEPT ![a][p].pc = pc, ![a][p].http = r]
Reply(a, p) ==
  IF At(call[a][p].http, "over") THEN req[call[a][p].http].reply ELSE "none"
NewToken(a, p) == <<"refresh", call[a][p].http>>

-----------------------------------------------------------------------------
(* The consent callback.                                                   *)

\* The browser comes back.  Whether the consent state is used is read in one
\* call, and that it is now is written by another.
ReadState(a, p) ==
  /\ p \in Consents
  /\ CallAt(a, p, "idle")
  /\ IF a \in used THEN Returns(a, p, "refused") ELSE CallGoto(a, p, "use")
  /\ UNCHANGED <<idp, agent>>

MarkUsed(a, p) ==
  /\ CallAt(a, p, "use")
  /\ used' = used \union {a}
  /\ CallGoto(a, p, "exchange")
  /\ UNCHANGED <<idp, conn, rotations, stopped, reported>>

ExchangeCode(a, p, r) ==
  /\ CallAt(a, p, "exchange")
  /\ PresentCode(r, <<"code", a>>)
  /\ Sends(a, p, r, "wait")
  /\ UNCHANGED agent

\* The whole document is written, whatever it has become.
CreateConnection(a, p) ==
  /\ p \in Consents
  /\ CallAt(a, p, "wait")
  /\ Reply(a, p) = "tokens"
  /\ conn' = [conn EXCEPT ![a] = [status |-> "ACTIVE", token |-> NewToken(a, p)]]
  /\ Returns(a, p, "ok")
  /\ UNCHANGED <<idp, used, rotations, stopped, reported>>

\* The browser brings an error or comes too late; or there are no tokens.
ConsentFails(a, p) ==
  /\ p \in Consents
  /\ \/ CallAt(a, p, "exchange")
     \/ CallAt(a, p, "wait") /\ Reply(a, p) \in {"refused", "reuse", "lost", "error"}
  /\ Returns(a, p, "refused")
  /\ UNCHANGED <<idp, agent>>

-----------------------------------------------------------------------------
(* A request for a subject token.                                          *)

\* The registration is read and its state checked.  It is there once the
\* provisioning has found the connection ready.
Registered(a) == conn[a] # NoConn
Authenticate(a, p) ==
  /\ p \in Subjects
  /\ CallAt(a, p, "idle")
  /\ Registered(a)
  /\ a \notin stopped
  /\ Opens(a, p, "connection", NoToken)
  /\ UNCHANGED <<idp, agent>>

ReadConnection(a, p) ==
  /\ CallAt(a, p, "connection")
  /\ IF conn[a].status = "ACTIVE"
     THEN call' = [call EXCEPT ![a][p].pc = "spend", ![a][p].token = conn[a].token]
     ELSE Returns(a, p, "refused")
  /\ UNCHANGED <<idp, agent>>

Spend(a, p, r) ==
  /\ CallAt(a, p, "spend")
  /\ PresentRefreshToken(r, call[a][p].token)
  /\ Sends(a, p, r, "wait")
  /\ UNCHANGED agent

\* The response carries tokens; or it says no, with 400 or 500; or there is
\* none, and the exception ends the call.
GetsTokens(a, p) ==
  /\ p \in Subjects
  /\ CallAt(a, p, "wait")
  /\ Reply(a, p) = "tokens"
  /\ CallGoto(a, p, "remember")
  /\ UNCHANGED <<idp, agent>>

GetsRefusal(a, p) ==
  /\ p \in Subjects
  /\ CallAt(a, p, "wait")
  /\ Reply(a, p) \in {"refused", "reuse", "error"}
  /\ CallGoto(a, p, "history")
  /\ UNCHANGED <<idp, agent>>

GetsNoResponse(a, p) ==
  /\ p \in Subjects
  /\ CallAt(a, p, "wait")
  /\ Reply(a, p) \in {"lost", "error"}
  /\ Returns(a, p, "refused")
  /\ UNCHANGED <<idp, agent>>

Remember(a, p) ==
  /\ CallAt(a, p, "remember")
  /\ rotations' = rotations \union {call[a][p].token}
  /\ CallGoto(a, p, "save")
  /\ UNCHANGED <<idp, used, conn, stopped, reported>>

\* A slip: the document is written as it was read, with the new token.
SaveTokenWhole(a, p) ==
  /\ CallAt(a, p, "save")
  /\ conn' = [conn EXCEPT ![a] = [status |-> "ACTIVE", token |-> NewToken(a, p)]]
  /\ Returns(a, p, "ok")
  /\ UNCHANGED <<idp, used, rotations, stopped, reported>>

\* A slip: the token that was presented is kept.
SaveTokenOld(a, p) ==
  /\ CallAt(a, p, "save")
  /\ Returns(a, p, "ok")
  /\ UNCHANGED <<idp, agent>>

\* update merges: the status stays what it has become.
SaveToken(a, p) ==
  /\ CallAt(a, p, "save")
  /\ conn' = [conn EXCEPT ![a].token = NewToken(a, p)]
  /\ Returns(a, p, "ok")
  /\ UNCHANGED <<idp, used, rotations, stopped, reported>>

\* A refused token that was rotated away counts as reuse, and is reported.
WasRotated(a, p) ==
  /\ CallAt(a, p, "history")
  /\ IF call[a][p].token \in rotations
     THEN /\ reported' = reported \union {a}
          /\ CallGoto(a, p, "mark")
     ELSE /\ Returns(a, p, "refused")
          /\ UNCHANGED reported
  /\ UNCHANGED <<idp, used, conn, rotations, stopped>>

MarkRevoked(a, p) ==
  /\ CallAt(a, p, "mark")
  /\ conn' = [conn EXCEPT ![a].status = "REVOKED"]
  /\ CallGoto(a, p, "hand_back")
  /\ UNCHANGED <<idp, used, rotations, stopped, reported>>

-----------------------------------------------------------------------------
(* Handing the token back, for either kind of call.                        *)

StopAgent(a) ==
  /\ Registered(a)
  /\ a \notin stopped
  /\ stopped' = stopped \union {a}
  /\ UNCHANGED <<idp, used, conn, rotations, call, reported>>

\* The cleanup's request looks the connection up by its agent and decrypts the
\* token; what is no longer there cannot be decrypted.
CleanupReads(a, p) ==
  /\ p \in Cleanups
  /\ CallAt(a, p, "idle")
  /\ a \in stopped
  /\ Opens(a, p, IF conn[a].token = NoToken THEN "keep" ELSE "hand_back", conn[a].token)
  /\ UNCHANGED <<idp, agent>>

HandBack(a, p, r) ==
  /\ CallAt(a, p, "hand_back")
  /\ PresentRevocation(r, call[a][p].token)
  /\ Sends(a, p, r, "handing")
  /\ UNCHANGED agent

HandedBack(a, p) ==
  /\ CallAt(a, p, "handing")
  /\ Reply(a, p) # "none"
  /\ IF Reply(a, p) = "revoked" THEN CallGoto(a, p, "forget")
     ELSE IF p \in Cleanups THEN CallGoto(a, p, "keep")
     ELSE Returns(a, p, "refused")
  /\ UNCHANGED <<idp, agent>>

\* revokeAndForgetToken: the document is rewritten without its token.
ForgetToken(a, p) ==
  /\ CallAt(a, p, "forget")
  /\ conn' = [conn EXCEPT ![a] = [status |-> "REVOKED", token |-> NoToken]]
  /\ Returns(a, p, IF p \in Cleanups THEN "revoked" ELSE "refused")
  /\ UNCHANGED <<idp, used, rotations, stopped, reported>>

KeepForRetry(a, p) ==
  /\ CallAt(a, p, "keep")
  /\ conn' = [conn EXCEPT ![a].status = "REVOKED"]
  /\ Returns(a, p, "failed")
  /\ UNCHANGED <<idp, used, rotations, stopped, reported>>

-----------------------------------------------------------------------------
\* A storage or key management call of the Agent OP fails, or it dies.
CallFails(a, p) ==
  /\ Active(a, p)
  /\ faults < MaxFaults
  /\ faults' = faults + 1
  /\ Returns(a, p, IF p \in Cleanups THEN "failed" ELSE "refused")
  /\ UNCHANGED <<doc, session, auth, req, lapsed, agent>>

SInit ==
  /\ Init
  /\ used = {}
  /\ conn = [a \in Grants |-> NoConn]
  /\ rotations = {}
  /\ stopped = {}
  /\ call = [a \in Grants |-> [p \in Calls |-> Waiting]]
  /\ reported = {}

\* The Human IdP goes on by itself.
IdpStep(r) ==
  /\ TokenStep(r) \/ RevocationStep(r) \/ Fails(r)
  /\ UNCHANGED <<agent, call>>
\* Grants are offline here, so that a later login is of no consequence.
Authorizes(a) ==
  /\ FindSession(a) \/ IssueCode(a)
  /\ UNCHANGED <<agent, call>>

SubjectStep(a, p) ==
  \/ Authenticate(a, p) \/ ReadConnection(a, p)
  \/ \E r \in Requests : Spend(a, p, r)
  \/ GetsTokens(a, p) \/ GetsRefusal(a, p) \/ GetsNoResponse(a, p)
  \/ Remember(a, p) \/ SaveToken(a, p) \/ WasRotated(a, p) \/ MarkRevoked(a, p)

HandingStep(a, p) ==
  \/ CleanupReads(a, p)
  \/ \E r \in Requests : HandBack(a, p, r)
  \/ HandedBack(a, p) \/ ForgetToken(a, p) \/ KeepForRetry(a, p)

ConsentStep(a, p) ==
  \/ ReadState(a, p) \/ MarkUsed(a, p)
  \/ \E r \in Requests : ExchangeCode(a, p, r)
  \/ CreateConnection(a, p) \/ ConsentFails(a, p)

SNext ==
  \/ \E r \in Requests : IdpStep(r)
  \/ \E a \in Grants :
       \/ Authorizes(a) \/ StopAgent(a)
       \/ \E p \in Calls :
            ConsentStep(a, p) \/ SubjectStep(a, p) \/ HandingStep(a, p) \/ CallFails(a, p)

SSpec == SInit /\ [][SNext]_svars

-----------------------------------------------------------------------------
(* Properties.                                                             *)

\* Type correctness of the connection and of the calls; that of the Human IdP's
\* part is TypeOK.
STypeOK ==
  /\ TypeOK
  /\ used \subseteq Grants
  /\ conn \in [Grants -> Connection]
  /\ rotations \subseteq RefreshTokens
  /\ stopped \subseteq Grants
  /\ call \in [Grants -> [Calls -> Call]]
  /\ reported \subseteq Grants

\* A connection that has been marked REVOKED, by a cleanup or for a reuse, is
\* not made usable again by a rotation, a revocation or a cleanup that was under
\* way.  Only the consent callback does that, with the second of two returns of
\* the browser: both had read the consent state before either marked it used, and
\* both exchanged the one code while the other's request was there as well.
RevokedStaysRevoked ==
  [][\A a \in Grants :
       conn[a].status = "REVOKED" /\ conn'[a].status # "REVOKED" =>
         \E p, q \in Consents :
           /\ p # q
           /\ call[a][q].result = "ok"
           /\ CallAt(a, p, "wait") /\ call'[a][p].result = "ok"
           /\ ~req[call[a][p].http].alone]_svars

\* With no failure and no token presented twice, the connection always ends up
\* with the newest refresh token, and that one is usable.
TwiceSpent(a) ==
  \E r, q \in Presented(a) : r # q /\ req[r].cred = req[q].cred
SerialRotationKeepsWorking ==
  \A a \in Grants :
    /\ faults = 0
    /\ ~TwiceSpent(a)
    /\ conn[a].status = "ACTIVE"
    /\ \A p \in Calls : ~Active(a, p)
    => conn[a].token # NoToken /\ Usable(conn[a].token)

\* A cleanup that reports the connection revoked, where no two requests for the
\* grant ran beside each other at the Human IdP and it has not failed halfway
\* through one, leaves nothing of the grant live: whatever other calls of the
\* Agent OP run beside it, and whichever of them died between a rotation and its
\* record of it.
QuietCleanupEndsGrant ==
  \A a \in Grants : \A p \in Cleanups :
    /\ call[a][p].result = "revoked"
    /\ \A r \in Presented(a) : req[r].alone /\ req[r].reply # "error"
    => \A d \in Docs : Exists(d) /\ doc[d].grant = a => ~Live(d)
=============================================================================
