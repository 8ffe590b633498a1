------------------------------ MODULE IdpTokens ------------------------------
(***************************************************************************)
(* The Human IdP's codes and tokens: the token endpoint's two grants, the  *)
(* rotation of refresh tokens, what the detection of a reuse does, the     *)
(* revocation endpoint, and the login session that an online refresh token *)
(* is bound to.                                                            *)
(*                                                                         *)
(* Codes, access tokens and refresh tokens are documents of one Firestore  *)
(* collection.  No transaction is used: each read and each write of a      *)
(* handler is a step of its own, a write replaces the whole document and   *)
(* clears its revoked mark, and the revocation of a grant is a query       *)
(* followed by a batch of updates that fails as a whole.                   *)
(*                                                                         *)
(* A request issues at most one access token and one refresh token, so     *)
(* these carry the request's name.  One grant has one code.                *)
(***************************************************************************)
EXTENDS Integers, FiniteSets

CONSTANTS
  Grants,
  Offline,    \* grants with the scope offline_access
  DpopBound,  \* grants of a client whose access tokens are bound to a key
  Requests,   \* requests to the token and revocation endpoints
  MaxFaults   \* bound on failed storage calls and crashes

ASSUME ConstantsAssumption ==
  /\ Offline \subseteq Grants
  /\ DpopBound \subseteq Grants
  /\ MaxFaults \in Nat

VARIABLES
  doc,      \* the collection idp_tokens
  session,  \* grants whose browser session lives
  auth,     \* how far the authorization request behind a grant is
  req,      \* how far each request is
  lapsed,   \* code exchanges whose refreshTokenAbsoluteLifetime is over
  faults

vars == <<doc, session, auth, req, lapsed, faults>>

-----------------------------------------------------------------------------
(* Documents.                                                              *)

Codes         == {"code"} \X Grants
AccessTokens  == {"access"} \X Requests
RefreshTokens == {"refresh"} \X Requests
Docs          == Codes \union AccessTokens \union RefreshTokens
Credentials   == Codes \union RefreshTokens

NoOrigin == "no origin"
\* origin stands for originalIssuedAt: the code exchange it goes back to.
Document == [grant : Grants, used : BOOLEAN, revoked : BOOLEAN,
             bound : BOOLEAN, origin : Requests \union {NoOrigin}]
NoDoc == [grant |-> "none"]
Exists(d) == doc[d] # NoDoc

NewDoc(g, bound, origin) ==
  [grant |-> g, used |-> FALSE, revoked |-> FALSE, bound |-> bound, origin |-> origin]

\* What get finds: a document that is neither revoked nor past its time.
Live(d) == Exists(d) /\ ~doc[d].revoked /\ doc[d].origin \notin lapsed
Usable(d) == Live(d) /\ ~doc[d].used

\* A slip: the documents of refresh tokens are not found.
FamilyOfAccess(g) == {d \in Docs \ RefreshTokens : Exists(d) /\ doc[d].grant = g}

Family(g) == {d \in Docs : Exists(d) /\ doc[d].grant = g}

-----------------------------------------------------------------------------
(* Requests.  pc is what the handler does next, cred what was presented    *)
(* and entry its document as last read; round and found belong to the      *)
(* revocation of a family.  after, root and late record what was over when *)
(* the credential was presented, and alone that no other request for the   *)
(* grant has run beside this one.                                          *)

\* Read checks and issues, in the order of the token endpoint.
Issuing == {"session", "code_get", "code_put", "code_again", "set_access",
            "get_access", "put_access", "set_refresh", "old_get", "old_put",
            "answer"}
Revoking == {"delete", "query", "update"}
Replies  == {"none", "tokens", "refused", "reuse", "revoked", "lost", "error"}

NoCred == <<"none", "none">>
Request == [pc : Issuing \union Revoking \union {"idle", "over"},
            cred : Credentials \union {NoCred},
            grant : Grants \union {NoCred},
            entry : Document \union {NoDoc},
            round : {1, 2},
            found : SUBSET Docs,
            reply : Replies,
            after : SUBSET Requests,
            root : Requests \union {NoOrigin},
            late : BOOLEAN,
            alone : BOOLEAN]
Idle == [pc |-> "idle", cred |-> NoCred, grant |-> NoCred,
         entry |-> NoDoc, round |-> 1, found |-> {}, reply |-> "none",
         after |-> {}, root |-> NoOrigin, late |-> FALSE, alone |-> TRUE]

At(r, pc)   == req[r].pc = pc
Goto(r, pc) == req' = [req EXCEPT ![r].pc = pc]
Ends(r, reply) ==
  req' = [req EXCEPT ![r].pc = "over", ![r].reply = reply,
                     ![r].found = {}, ![r].entry = NoDoc]
Underway(r) == req[r].pc \notin {"idle", "over"}
IsCode(r)   == req[r].cred \in Codes
Online(g)   == g \notin Offline

\* The code goes out with the redirect, a refresh token with its response.
Known(d) ==
  \/ d \in Codes /\ Exists(d)
  \/ d \in RefreshTokens /\ req[d[2]].reply = "tokens"
GrantOf(d) == IF d \in Codes THEN d[2] ELSE req[d[2]].grant

\* The history a request carries from the moment it reads its credential.
RootOf(r, d) == IF d \in Codes THEN r ELSE req[d[2]].root
EndedFor(d) ==
  /\ d \in RefreshTokens
  /\ \/ req[d[2]].root \in lapsed
     \/ Online(req[d[2]].grant) /\ req[d[2]].grant \notin session

\* Request r presents d and continues at pc, or ends with a reply.
Begins(r, d, pc, reply) ==
  LET g     == GrantOf(d)
      other == {q \in Requests : Underway(q) /\ req[q].grant = g}
  IN  req' = [q \in Requests |->
        IF q = r
        THEN [Idle EXCEPT !.pc = pc, !.cred = d, !.grant = g, !.reply = reply,
                          !.entry = IF pc = "over" THEN NoDoc ELSE doc[d],
                          !.after = {p \in Requests : At(p, "over")},
                          !.root = RootOf(r, d), !.late = EndedFor(d),
                          !.alone = other = {}]
        ELSE IF q \in other THEN [req[q] EXCEPT !.alone = FALSE] ELSE req[q]]

-----------------------------------------------------------------------------
(* The authorization endpoint and the consent page.                        *)

\* An SSO request, or a login handed to the consent page, has its session.
FindSession(g) ==
  /\ auth[g] = "none"
  /\ g \in session
  /\ auth' = [auth EXCEPT ![g] = "session"]
  /\ UNCHANGED <<doc, session, req, lapsed, faults>>

\* The code is made for that session, which may have ended meanwhile.
IssueCode(g) ==
  /\ auth[g] = "session"
  /\ auth' = [auth EXCEPT ![g] = "done"]
  /\ doc' = [doc EXCEPT ![<<"code", g>>] = NewDoc(g, TRUE, NoOrigin)]
  /\ UNCHANGED <<session, req, lapsed, faults>>

\* prompt=login: the existing browser session is deleted.
LoginAgain(g) ==
  /\ g \in session
  /\ session' = session \ {g}
  /\ UNCHANGED <<doc, auth, req, lapsed, faults>>

-----------------------------------------------------------------------------
(* The token endpoint.                                                     *)

\* The credential is looked up and checked: not found is refused, used
\* revokes the family.
PresentCode(r, d) ==
  /\ At(r, "idle")
  /\ d \in Codes
  /\ Known(d)
  /\ IF ~Live(d) THEN Begins(r, d, "over", "refused")
     ELSE IF doc[d].used THEN Begins(r, d, "query", "reuse")
     ELSE Begins(r, d, "code_get", "none")
  /\ UNCHANGED <<doc, session, auth, lapsed, faults>>

PresentRefreshToken(r, d) ==
  /\ At(r, "idle")
  /\ d \in RefreshTokens
  /\ Known(d)
  /\ IF ~Live(d) THEN Begins(r, d, "over", "refused")
     ELSE IF doc[d].used THEN Begins(r, d, "query", "reuse")
     ELSE Begins(r, d, IF doc[d].bound THEN "session" ELSE "set_access", "none")
  /\ UNCHANGED <<doc, session, auth, lapsed, faults>>

\* An online refresh token needs its session.
ValidateSession(r) ==
  /\ At(r, "session")
  /\ IF req[r].grant \in session THEN Goto(r, "set_access") ELSE Ends(r, "refused")
  /\ UNCHANGED <<doc, session, auth, lapsed, faults>>

\* consume: the document is read, then written back as used.
ConsumeGet(r, from, to, absent) ==
  /\ At(r, from)
  /\ IF Live(req[r].cred)
     THEN req' = [req EXCEPT ![r].pc = to, ![r].entry = doc[req[r].cred]]
     ELSE Goto(r, absent)
  /\ UNCHANGED <<doc, session, auth, lapsed, faults>>

\* A slip: the document is written back as it was.
ConsumePutUnused(r, from, to) ==
  /\ At(r, from)
  /\ doc' = [doc EXCEPT ![req[r].cred] = req[r].entry]
  /\ Goto(r, to)
  /\ UNCHANGED <<session, auth, lapsed, faults>>

ConsumePut(r, from, to) ==
  /\ At(r, from)
  /\ doc' = [doc EXCEPT ![req[r].cred] =
               [req[r].entry EXCEPT !.used = TRUE, !.revoked = FALSE]]
  /\ Goto(r, to)
  /\ UNCHANGED <<session, auth, lapsed, faults>>

ConsumeCodeGet(r) == ConsumeGet(r, "code_get", "code_put", "code_again")
ConsumeCodePut(r) == ConsumePut(r, "code_put", "code_again")

\* The subject is taken from a second read of the code.
ReadCodeAgain(r) ==
  /\ At(r, "code_again")
  /\ IF Live(req[r].cred) THEN Goto(r, "set_access") ELSE Ends(r, "refused")
  /\ UNCHANGED <<doc, session, auth, lapsed, faults>>

\* A slip: the presented token is marked as used before there is a new one.
SetAccessTokenSpending(r) ==
  /\ At(r, "set_access")
  /\ doc' = [doc EXCEPT ![<<"access", r>>] = NewDoc(req[r].grant, FALSE, NoOrigin),
                         ![req[r].cred].used = TRUE]
  /\ Goto(r, "set_refresh")
  /\ UNCHANGED <<session, auth, lapsed, faults>>

SetAccessToken(r) ==
  /\ At(r, "set_access")
  /\ doc' = [doc EXCEPT ![<<"access", r>>] = NewDoc(req[r].grant, FALSE, NoOrigin)]
  /\ Goto(r, IF req[r].grant \in DpopBound THEN "get_access" ELSE "set_refresh")
  /\ UNCHANGED <<session, auth, lapsed, faults>>

\* The key confirmation is added by reading the document and writing it back.
GetAccessToken(r) ==
  /\ At(r, "get_access")
  /\ Goto(r, IF Live(<<"access", r>>) THEN "put_access" ELSE "set_refresh")
  /\ UNCHANGED <<doc, session, auth, lapsed, faults>>

PutAccessToken(r) ==
  /\ At(r, "put_access")
  /\ doc' = [doc EXCEPT ![<<"access", r>>] = NewDoc(req[r].grant, FALSE, NoOrigin)]
  /\ Goto(r, "set_refresh")
  /\ UNCHANGED <<session, auth, lapsed, faults>>

\* A slip: the lifetime is counted from this rotation.
SetRefreshTokenAnew(r) ==
  /\ At(r, "set_refresh")
  /\ doc' = [doc EXCEPT ![<<"refresh", r>>] =
               NewDoc(req[r].grant, Online(req[r].grant) /\ req[r].entry.bound, r)]
  /\ Goto(r, IF IsCode(r) THEN "answer" ELSE "old_get")
  /\ UNCHANGED <<session, auth, lapsed, faults>>

\* The new refresh token takes over the session, unless the grant is offline,
\* and the original time of issue, unless this is it.
SetRefreshToken(r) ==
  /\ At(r, "set_refresh")
  /\ doc' = [doc EXCEPT ![<<"refresh", r>>] =
               NewDoc(req[r].grant,
                      Online(req[r].grant) /\ req[r].entry.bound,
                      IF IsCode(r) THEN r ELSE req[r].entry.origin)]
  /\ Goto(r, IF IsCode(r) THEN "answer" ELSE "old_get")
  /\ UNCHANGED <<session, auth, lapsed, faults>>

\* Only then is the presented one marked as used.
ConsumeRefreshTokenGet(r) == ConsumeGet(r, "old_get", "old_put", "answer")
ConsumeRefreshTokenPut(r) == ConsumePut(r, "old_put", "answer")

Answer(r) ==
  /\ At(r, "answer")
  /\ Ends(r, "tokens")
  /\ UNCHANGED <<doc, session, auth, lapsed, faults>>

-----------------------------------------------------------------------------
(* The revocation of a grant's documents, behind a reuse and behind the    *)
(* revocation endpoint.                                                    *)

\* The revocation endpoint looks the refresh token up; an unknown one is a
\* success.
PresentRevocation(r, d) ==
  /\ At(r, "idle")
  /\ d \in RefreshTokens
  /\ Known(d)
  /\ IF Live(d) THEN Begins(r, d, "delete", "none") ELSE Begins(r, d, "over", "revoked")
  /\ UNCHANGED <<doc, session, auth, lapsed, faults>>

\* A slip: only the presented token is revoked.
DeleteRefreshTokenAlone(r) ==
  /\ At(r, "delete")
  /\ doc' = [doc EXCEPT ![req[r].cred] = NoDoc]
  /\ Ends(r, "revoked")
  /\ UNCHANGED <<session, auth, lapsed, faults>>

DeleteRefreshToken(r) ==
  /\ At(r, "delete")
  /\ doc' = [doc EXCEPT ![req[r].cred] = NoDoc]
  /\ req' = [req EXCEPT ![r].pc = "query", ![r].reply = "revoked", ![r].round = 2]
  /\ UNCHANGED <<session, auth, lapsed, faults>>

QueryGrant(r) ==
  /\ At(r, "query")
  /\ req' = [req EXCEPT ![r].pc = "update", ![r].found = Family(req[r].grant)]
  /\ UNCHANGED <<doc, session, auth, lapsed, faults>>

\* The batch fails when one of its documents has been deleted.  A reuse does
\* this once for the access tokens and once for the refresh tokens; the backend
\* does not tell them apart.
UpdateGrant(r) ==
  /\ At(r, "update")
  /\ IF \A d \in req[r].found : Exists(d)
     THEN /\ doc' = [d \in Docs |->
               IF d \in req[r].found THEN [doc[d] EXCEPT !.revoked = TRUE] ELSE doc[d]]
          /\ IF req[r].round = 1
             THEN req' = [req EXCEPT ![r].pc = "query", ![r].round = 2, ![r].found = {}]
             ELSE Ends(r, req[r].reply)
     ELSE /\ Ends(r, "error")
          /\ UNCHANGED doc
  /\ UNCHANGED <<session, auth, lapsed, faults>>

-----------------------------------------------------------------------------
(* What happens to a request, and time.                                    *)

\* A storage call fails or the instance dies; behind the last write only the
\* response is lost.
Fails(r) ==
  /\ Underway(r)
  /\ faults < MaxFaults
  /\ faults' = faults + 1
  /\ Ends(r, IF At(r, "answer") THEN "lost" ELSE "error")
  /\ UNCHANGED <<doc, session, auth, lapsed>>

Lapse(r) ==
  /\ At(r, "over")
  /\ IsCode(r)
  /\ r \notin lapsed
  /\ lapsed' = lapsed \union {r}
  /\ UNCHANGED <<doc, session, auth, req, faults>>

-----------------------------------------------------------------------------
Init ==
  /\ doc = [d \in Docs |-> NoDoc]
  /\ session = Grants
  /\ auth = [g \in Grants |-> "none"]
  /\ req = [r \in Requests |-> Idle]
  /\ lapsed = {}
  /\ faults = 0

Authorization(g) == FindSession(g) \/ IssueCode(g) \/ LoginAgain(g)

Present(r) ==
  \/ \E d \in Codes : PresentCode(r, d)
  \/ \E d \in RefreshTokens : PresentRefreshToken(r, d) \/ PresentRevocation(r, d)

TokenStep(r) ==
  \/ ValidateSession(r) \/ ConsumeCodeGet(r) \/ ConsumeCodePut(r) \/ ReadCodeAgain(r)
  \/ SetAccessToken(r) \/ GetAccessToken(r) \/ PutAccessToken(r) \/ SetRefreshToken(r)
  \/ ConsumeRefreshTokenGet(r) \/ ConsumeRefreshTokenPut(r) \/ Answer(r)

RevocationStep(r) == DeleteRefreshToken(r) \/ QueryGrant(r) \/ UpdateGrant(r)

Next ==
  \/ \E g \in Grants : Authorization(g)
  \/ \E r \in Requests :
       Present(r) \/ TokenStep(r) \/ RevocationStep(r) \/ Fails(r) \/ Lapse(r)

Spec == Init /\ [][Next]_vars

-----------------------------------------------------------------------------
(* Properties.                                                             *)

\* Type correctness of the collection, the sessions and the requests.
TypeOK ==
  /\ doc \in [Docs -> Document \union {NoDoc}]
  /\ session \subseteq Grants
  /\ auth \in [Grants -> {"none", "session", "done"}]
  /\ req \in [Requests -> Request]
  /\ lapsed \subseteq Requests
  /\ faults \in 0 .. MaxFaults

Begun(r)     == req[r].pc # "idle"
Presented(g) == {r \in Requests : Begun(r) /\ req[r].grant = g}
HasTokens(r) == Exists(<<"access", r>>) \/ Exists(<<"refresh", r>>)
Done(r)      == req[r].reply \in {"tokens", "lost"}

\* A code or refresh token yields tokens to one request only, unless two had
\* read it before either was done with it: no request whose read came after
\* another one's success obtains anything for it, whatever was written in
\* between.
SpentOnce ==
  \A r \in Requests : \A q \in req[r].after :
    req[q].cred = req[r].cred /\ Done(q) => ~HasTokens(r)

\* A detected reuse, or a revocation by the client, that had the grant to
\* itself leaves no live document of the grant, then or later.
QuietRevocationIsFinal ==
  \A r \in Requests :
    /\ At(r, "over")
    /\ req[r].reply = "reuse" \/ (req[r].reply = "revoked" /\ req[r].round = 2)
    /\ req[r].alone
    => \A d \in Docs : Exists(d) /\ doc[d].grant = req[r].grant => ~Live(d)

\* Rotation, however often, takes a grant past neither its login session, when
\* it is online, nor the lifetime counted from its code exchange: a refresh
\* token presented after that yields nothing.
NothingBehindTheEnd ==
  \A r \in Requests : req[r].late => ~HasTokens(r)

\* The new refresh token is stored before the old one is spent, so a failure in
\* between leaves the client with one it can use, and so does presenting one
\* token twice that is not taken for a reuse: it is stranded only by what ended
\* the grant, by a refusal, or by a response lost behind the last write.
Undisturbed(g) ==
  /\ Online(g) => g \in session
  /\ \A r \in Presented(g) :
       /\ ~Underway(r)
       /\ r \notin lapsed
       /\ req[r].reply \in {"tokens", "error"}
       /\ req[r].reply = "error" => req[r].round = 1 /\ req[r].cred \in RefreshTokens
NeverStranded ==
  \A g \in Grants :
    Undisturbed(g) /\ Presented(g) # {} =>
      \E d \in RefreshTokens : Known(d) /\ Usable(d) /\ doc[d].grant = g
=============================================================================
