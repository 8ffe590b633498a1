------------------------- MODULE SubjectTokensProofs -------------------------
(***************************************************************************)
(* Proofs about IdpTokens and SubjectTokens, for any number of grants,     *)
(* requests, calls and faults.                                             *)
(*                                                                         *)
(* The first half is about the Human IdP alone.  IdpInv says of every      *)
(* request, whatever it is doing, what it has read, stored and spent, and  *)
(* what of that the documents still show; Moves and Writes are what a step *)
(* of one request may do to the others, so that each action is looked at   *)
(* once, for the request that takes it.                                    *)
(*                                                                         *)
(* The second half adds the Agent OP.  A step of its own leaves the Human  *)
(* IdP alone (AgentStep), a step of the Human IdP leaves the calls alone   *)
(* (IdpOnly), and only the presentation of a token is a step of both       *)
(* (Presents).  SInv says what a connection and a call know of the Human   *)
(* IdP.                                                                    *)
(***************************************************************************)
EXTENDS SubjectTokens, FiniteSetTheorems, TLAPS

-----------------------------------------------------------------------------
(* The Human IdP: what its documents and its requests have to do with each *)
(* other.                                                                  *)

Code(g)    == <<"code", g>>
Access(r)  == <<"access", r>>
Refresh(r) == <<"refresh", r>>

\* A document is of the grant and of the code exchange that its owner is of.
CodeTrue(g) ==
  Exists(Code(g)) =>
    /\ doc[Code(g)].grant = g
    /\ auth[g] = "done"
    /\ doc[Code(g)].bound
    /\ doc[Code(g)].origin = NoOrigin

TokensTrue(r) ==
  /\ Exists(Access(r)) => doc[Access(r)].grant = req[r].grant
  /\ Exists(Refresh(r)) =>
       /\ doc[Refresh(r)].grant = req[r].grant
       /\ doc[Refresh(r)].origin = req[r].root
       /\ Online(req[r].grant) => doc[Refresh(r)].bound

\* What a request has stored shows in how far it is, and so does its reply.
Unstored == {"idle", "session", "code_get", "code_put", "code_again", "set_access"} \union Revoking
StoredTrue(r) ==
  /\ req[r].pc \in Unstored => ~HasTokens(r)
  /\ req[r].pc \in {"get_access", "put_access", "set_refresh"} => ~Exists(Refresh(r))

ReplyTrue(r) ==
  /\ req[r].pc = "idle" => req[r] = Idle
  /\ req[r].pc \in Issuing \union {"delete"} => req[r].reply = "none" /\ req[r].round = 1
  /\ req[r].pc \in {"query", "update"} =>
       req[r].reply = "reuse" \/ (req[r].reply = "revoked" /\ req[r].round = 2)
  /\ req[r].reply \in {"tokens", "lost"} => req[r].pc = "over" /\ req[r].round = 1
  /\ req[r].round = 2 =>
       /\ req[r].pc \in {"query", "update", "over"}
       /\ req[r].reply \in {"reuse", "revoked", "error"}

\* Its credential was given out, by a request that is over, and goes back to a
\* code exchange.
CredTrue(r) ==
  Begun(r) =>
    /\ req[r].cred \in Credentials
    /\ req[r].grant \in Grants
    /\ req[r].grant = GrantOf(req[r].cred)
    /\ auth[req[r].grant] = "done"
    /\ req[r].cred \in RefreshTokens => req[req[r].cred[2]].reply = "tokens"
    /\ req[r].root = RootOf(r, req[r].cred)

RootTrue(r) ==
  Begun(r) =>
    /\ req[r].root \in Requests
    /\ Begun(req[r].root)
    /\ IsCode(req[r].root)
    /\ req[req[r].root].grant = req[r].grant
    /\ req[r].cred \in RefreshTokens => req[req[r].root].reply = "tokens"

EntryTrue(r) ==
  /\ req[r].pc \in Issuing =>
       /\ req[r].entry \in Document
       /\ req[r].entry.grant = req[r].grant
       /\ IsCode(r) \/ Online(req[r].grant) => req[r].entry.bound
       /\ req[r].entry.origin = IF IsCode(r) THEN NoOrigin ELSE req[r].root
  /\ req[r].pc \in {"code_get", "code_put", "code_again"} => IsCode(r)
  /\ req[r].pc \in {"session", "old_get", "old_put"} => ~IsCode(r)

\* A request that is done with its credential leaves it spent, for good.
Consumed(r) ==
  \/ req[r].reply \in {"tokens", "lost"}
  \/ At(r, "answer")
  \/ IsCode(r) /\ req[r].pc \in {"code_again", "set_access", "get_access", "put_access", "set_refresh"}
SpentTrue(r) == Consumed(r) => ~Usable(req[r].cred)

\* A request that came behind another one's success, or behind the end, gets
\* nowhere.
Barred(r) ==
  /\ req[r].pc \in Revoking \union {"over"}
  /\ ~HasTokens(r)
  /\ req[r].reply # "tokens"
Behind(r) == \E q \in req[r].after : req[q].cred = req[r].cred /\ Done(q)
BarredTrue(r) ==
  /\ \A q \in req[r].after : At(q, "over")
  /\ Behind(r) => Barred(r)
  /\ req[r].late =>
       \/ Barred(r)
       \/ At(r, "session") /\ Online(req[r].grant) /\ req[r].grant \notin session

\* Where a revocation has its grant to itself, it finds all of it.
Owner(d) == IF d \in Codes THEN d[2] ELSE req[d[2]].grant
FoundTrue(r) ==
  /\ \A d \in req[r].found : Owner(d) = req[r].grant /\ (d \notin Codes => Begun(d[2]))
  /\ req[r].alone /\ At(r, "update") => req[r].found = Family(req[r].grant)

Final(r) ==
  /\ At(r, "over")
  /\ req[r].reply = "reuse" \/ (req[r].reply = "revoked" /\ req[r].round = 2)
Closed(g) ==
  /\ \A q \in Presented(g) : ~Underway(q)
  /\ \A d \in Docs : Exists(d) /\ doc[d].grant = g => ~Live(d)
QuietTrue(r) ==
  /\ req[r].alone /\ Underway(r) => \A q \in Presented(req[r].grant) \ {r} : ~Underway(q)
  /\ req[r].alone /\ Final(r) => Closed(req[r].grant)

\* As long as no revocation has got to a write, refresh tokens that were given
\* out are there, and only a request that got as far as its answer has spent one.
Untouched(g) == \A q \in Presented(g) : req[q].round = 1
Answered(q)  == At(q, "answer") \/ req[q].reply \in {"tokens", "lost"}
IntactTrue(r) ==
  Untouched(req[r].grant) /\ (req[r].pc \in {"old_get", "old_put", "answer"} \/ req[r].reply = "tokens") =>
    /\ Exists(Refresh(r))
    /\ ~doc[Refresh(r)].revoked
    /\ doc[Refresh(r)].used => \E q \in Requests : req[q].cred = Refresh(r) /\ Answered(q)

CodeIntact(g) ==
  Untouched(g) /\ auth[g] = "done" =>
    /\ Exists(Code(g))
    /\ ~doc[Code(g)].revoked
    /\ doc[Code(g)].used => \E q \in Requests : req[q].cred = Code(g) /\ Begun(q)

\* A revocation that found nothing live came behind another one, or behind the
\* end of the lifetime.
RevokedTrue(r) ==
  At(r, "over") /\ req[r].reply = "revoked" /\ req[r].round = 1 =>
    \/ req[r].root \in lapsed
    \/ \E q \in Presented(req[r].grant) : req[q].round = 2 /\ (req[r].alone => At(q, "over"))

RequestTrue(r) ==
  /\ TokensTrue(r) /\ StoredTrue(r) /\ ReplyTrue(r) /\ CredTrue(r) /\ RootTrue(r)
  /\ EntryTrue(r) /\ SpentTrue(r) /\ BarredTrue(r) /\ FoundTrue(r) /\ QuietTrue(r)
  /\ IntactTrue(r) /\ RevokedTrue(r)

FiniteInv == IsFiniteSet({r \in Requests : Begun(r)})

IdpInv ==
  /\ TypeOK
  /\ FiniteInv
  /\ \A g \in Grants : CodeTrue(g) /\ CodeIntact(g)
  /\ \A r \in Requests : RequestTrue(r)

-----------------------------------------------------------------------------
(* Documents and requests.                                                 *)

LEMMA DocFacts ==
  /\ \A g \in Grants : Code(g) \in Codes /\ Code(g) \in Docs /\ Code(g) \in Credentials /\ Code(g)[2] = g
  /\ \A r \in Requests :
       /\ Access(r) \in Docs /\ Refresh(r) \in Docs
       /\ Refresh(r) \in RefreshTokens /\ Refresh(r) \in Credentials /\ Refresh(r) \notin Codes
       /\ Access(r) \notin Credentials /\ Access(r) \notin Codes
       /\ Access(r)[2] = r /\ Refresh(r)[2] = r
  /\ \A r, q \in Requests : Access(r) # Refresh(q)
  /\ \A r, q \in Requests : Access(r) = Access(q) => r = q
  /\ \A r, q \in Requests : Refresh(r) = Refresh(q) => r = q
  /\ \A r \in Requests, g \in Grants : Code(g) # Access(r) /\ Code(g) # Refresh(r)
  /\ \A g, h \in Grants : Code(g) = Code(h) => g = h
BY DEF Code, Access, Refresh, Codes, AccessTokens, RefreshTokens, Docs, Credentials

LEMMA DocKinds ==
  /\ \A d \in Codes : d[2] \in Grants /\ d = Code(d[2])
  /\ \A d \in RefreshTokens : d[2] \in Requests /\ d = Refresh(d[2])
  /\ \A d \in Docs : \/ d \in Codes
                     \/ d \notin Codes /\ d[2] \in Requests /\ (d = Access(d[2]) \/ d = Refresh(d[2]))
  /\ Codes \subseteq Docs /\ RefreshTokens \subseteq Docs /\ Credentials \subseteq Docs
  /\ \A d \in Credentials : d \in Codes \/ d \in RefreshTokens
  /\ \A d \in Codes : d \notin RefreshTokens
  /\ NoCred \notin Credentials
<1>1. \A d \in Codes : d[2] \in Grants /\ d = Code(d[2])
  BY DEF Code, Codes
<1>2. \A d \in RefreshTokens : d[2] \in Requests /\ d = Refresh(d[2])
  BY DEF Refresh, RefreshTokens
<1>3. \A d \in AccessTokens : d[2] \in Requests /\ d = Access(d[2]) /\ d \notin Codes
  BY DEF Access, AccessTokens, Codes
<1>4. \A d \in Codes : d \notin RefreshTokens
  BY DEF Codes, RefreshTokens
<1>5. NoCred \notin Credentials
  BY DEF NoCred, Credentials, Codes, RefreshTokens
<1> QED
  BY <1>1, <1>2, <1>3, <1>4, <1>5 DEF Docs, Credentials

LEMMA NoDocument == NoDoc \notin Document
<1> SUFFICES ASSUME NoDoc \in Document PROVE FALSE
  OBVIOUS
<1>1. "used" \in DOMAIN NoDoc
  BY DEF Document
<1>2. DOMAIN NoDoc = {"grant"}
  BY DEF NoDoc
<1> QED
  BY <1>1, <1>2

LEMMA NewDocType ==
  ASSUME NEW g \in Grants, NEW bound \in BOOLEAN, NEW origin \in Requests \union {NoOrigin}
  PROVE  /\ NewDoc(g, bound, origin) \in Document
         /\ NewDoc(g, bound, origin).grant = g
         /\ NewDoc(g, bound, origin).bound = bound
         /\ NewDoc(g, bound, origin).origin = origin
         /\ ~NewDoc(g, bound, origin).used /\ ~NewDoc(g, bound, origin).revoked
BY DEF NewDoc, Document

LEMMA IdleFacts ==
  /\ Idle \in Request
  /\ Idle.pc = "idle" /\ Idle.reply = "none" /\ Idle.round = 1 /\ Idle.after = {}
  /\ Idle.late = FALSE /\ Idle.found = {} /\ Idle.cred = NoCred /\ Idle.entry = NoDoc
BY DEF Idle, Request, Replies, Issuing, Revoking

\* What has been read of the collection is a document, or none.
LEMMA DocType ==
  ASSUME TypeOK, NEW d \in Docs
  PROVE  /\ doc[d] \in Document \union {NoDoc}
         /\ Exists(d) => doc[d] \in Document
BY DEF TypeOK, Exists

-----------------------------------------------------------------------------
(* A step of request r that has begun: what it may do to the requests and  *)
(* to the collection.                                                      *)

Moves(r) ==
  /\ Underway(r)
  /\ req' \in [Requests -> Request]
  /\ \A q \in Requests \ {r} : req'[q] = req[q]
  /\ req'[r].cred = req[r].cred
  /\ req'[r].grant = req[r].grant
  /\ req'[r].root = req[r].root
  /\ req'[r].after = req[r].after
  /\ req'[r].late = req[r].late
  /\ req'[r].alone = req[r].alone
  /\ req'[r].pc # "idle"
  /\ req[r].round = 2 => req'[r].round = 2
  /\ At(r, "answer") => Answered(r)'
  /\ req[r].pc \in Revoking => req'[r].pc \in Revoking \union {"over"} /\ req'[r].reply # "tokens"
  /\ At(r, "session") /\ Online(req[r].grant) /\ req[r].grant \notin session =>
       req'[r].pc = "over" /\ req'[r].reply # "tokens"
  /\ ~(req'[r].pc = "over" /\ req'[r].reply = "revoked" /\ req'[r].round = 1)
  /\ faults' \in 0 .. MaxFaults
  /\ UNCHANGED <<auth, session, lapsed>>

\* A document that is written is one of the grant, and says so.
Writes(r) ==
  /\ doc' \in [Docs -> Document \union {NoDoc}]
  /\ \A d \in Docs : doc'[d] # doc[d] =>
       /\ Owner(d) = req[r].grant
       /\ d \notin Codes => Begun(d[2])
       /\ doc'[d] # NoDoc =>
            /\ doc'[d].grant = req[r].grant
            /\ d \in Codes => doc'[d].bound /\ doc'[d].origin = NoOrigin
            /\ d \in RefreshTokens =>
                 /\ doc'[d].origin = req[d[2]].root
                 /\ Online(req[r].grant) => doc'[d].bound
            /\ doc[d] # NoDoc \/ d \in {req[r].cred, Access(r), Refresh(r)}
            /\ req[r].pc \in Revoking \union {"session"} => doc[d] # NoDoc
       /\ d \in Credentials /\ d # Refresh(r) =>
            /\ ~Usable(d)'
            /\ req'[r].round = 1 =>
                 /\ doc'[d] # NoDoc
                 /\ ~doc'[d].revoked
                 /\ d = req[r].cred
                 /\ d \in RefreshTokens => Answered(r)'

LEMMA NothingWritten ==
  ASSUME TypeOK, NEW r \in Requests, doc' = doc
  PROVE  Writes(r)
BY DEF TypeOK, Writes

LEMMA OwnersTrue ==
  ASSUME IdpInv, NEW d \in Docs, Exists(d)
  PROVE  /\ doc[d] \in Document
         /\ doc[d].grant = Owner(d)
         /\ d \notin Codes => Begun(d[2])
<1>1. doc[d] \in Document
  BY DocType DEF IdpInv
<1>2. CASE d \in Codes
  BY <1>1, <1>2, DocKinds DEF IdpInv, CodeTrue, Owner
<1>3. CASE d \notin Codes
  <2>1. d[2] \in Requests /\ (d = Access(d[2]) \/ d = Refresh(d[2]))
    BY <1>3, DocKinds
  <2>2. TokensTrue(d[2]) /\ StoredTrue(d[2])
    BY <2>1 DEF IdpInv, RequestTrue
  <2>3. Begun(d[2])
    BY <2>1, <2>2 DEF StoredTrue, HasTokens, Access, Refresh, Begun, Unstored
  <2> QED
    BY <1>1, <1>3, <2>1, <2>2, <2>3 DEF TokensTrue, Owner
<1> QED
  BY <1>2, <1>3

LEMMA MovesKeep ==
  ASSUME IdpInv, NEW r \in Requests, Moves(r)
  PROVE  /\ \A q \in Requests :
              /\ req'[q].cred = req[q].cred
              /\ req'[q].grant = req[q].grant
              /\ req'[q].root = req[q].root
              /\ req'[q].after = req[q].after
              /\ req'[q].late = req[q].late
              /\ req'[q].alone = req[q].alone
              /\ Begun(q)' <=> Begun(q)
              /\ Underway(q)' => Underway(q)
              /\ At(q, "over") => q # r /\ At(q, "over")'
              /\ req[q].reply \in {"tokens", "lost"} => q # r /\ At(q, "over") /\ req'[q].reply = req[q].reply
              /\ req[q].round = 2 => req'[q].round = 2
              /\ Answered(q) => Answered(q)'
         /\ \A d \in Docs : Owner(d)' = Owner(d)
         /\ \A g : Presented(g)' = Presented(g)
         /\ \A g : Untouched(g)' => Untouched(g)
<1>1. \A q \in Requests : ReplyTrue(q) /\ req[q] \in Request /\ req'[q] \in Request
  BY DEF IdpInv, RequestTrue, TypeOK, Moves
<1>2. ASSUME NEW q \in Requests
      PROVE  /\ req'[q].cred = req[q].cred
             /\ req'[q].grant = req[q].grant
             /\ req'[q].root = req[q].root
             /\ req'[q].after = req[q].after
             /\ req'[q].late = req[q].late
             /\ req'[q].alone = req[q].alone
             /\ Begun(q)' <=> Begun(q)
             /\ Underway(q)' => Underway(q)
             /\ At(q, "over") => q # r /\ At(q, "over")'
             /\ req[q].reply \in {"tokens", "lost"} => q # r /\ At(q, "over") /\ req'[q].reply = req[q].reply
             /\ req[q].round = 2 => req'[q].round = 2
             /\ Answered(q) => Answered(q)'
  <2>1. CASE q # r
    BY <1>1, <2>1 DEF Moves, Begun, Underway, At, Answered, ReplyTrue
  <2>2. CASE q = r
    BY <1>1, <2>2 DEF Moves, Begun, Underway, At, Answered, ReplyTrue
  <2> QED
    BY <2>1, <2>2
<1>3. \A d \in Docs : Owner(d)' = Owner(d)
  BY <1>2, DocKinds DEF Owner
<1>4. \A g : Presented(g)' = Presented(g)
  BY <1>2 DEF Presented
<1>5. \A g : \A q \in Presented(g) : req[q].round \in {1, 2} /\ q \in Requests
  BY <1>1 DEF Presented, Request
<1>6. \A g : Untouched(g)' => Untouched(g)
  BY <1>2, <1>4, <1>5 DEF Untouched
<1> QED
  BY <1>2, <1>3, <1>4, <1>6

\* What a step of r leaves as it was for the others, and for itself.
LEMMA MovesTokens ==
  ASSUME IdpInv, NEW r \in Requests, Moves(r), Writes(r)
  PROVE  /\ \A g \in Grants : CodeTrue(g)'
         /\ \A q \in Requests : TokensTrue(q)'
<1>1. \A q \in Requests : req'[q].grant = req[q].grant /\ req'[q].root = req[q].root
  BY MovesKeep
<1>2. ASSUME NEW g \in Grants PROVE CodeTrue(g)'
  <2>1. CodeTrue(g) /\ Code(g) \in Docs /\ Code(g) \in Codes /\ Owner(Code(g)) = g
    BY DocFacts DEF IdpInv, Owner
  <2>2. CASE doc'[Code(g)] = doc[Code(g)]
    BY <2>1, <2>2 DEF CodeTrue, Exists, Moves
  <2>3. CASE doc'[Code(g)] # doc[Code(g)]
    <3>1. auth[req[r].grant] = "done"
      BY DEF IdpInv, RequestTrue, CredTrue, Begun, Moves, Underway
    <3> QED
      BY <2>1, <2>3, <3>1 DEF CodeTrue, Exists, Writes, Moves
  <2> QED
    BY <2>2, <2>3
<1>3. ASSUME NEW q \in Requests PROVE TokensTrue(q)'
  <2>1. /\ Access(q) \in Docs /\ Access(q) \notin Codes /\ Access(q)[2] = q
        /\ Refresh(q) \in Docs /\ Refresh(q) \notin Codes /\ Refresh(q)[2] = q
        /\ Refresh(q) \in RefreshTokens
    BY DocFacts
  <2>2. TokensTrue(q) /\ Owner(Access(q)) = req[q].grant /\ Owner(Refresh(q)) = req[q].grant
    BY <2>1 DEF IdpInv, RequestTrue, Owner
  <2>3. Exists(Access(q))' => doc'[Access(q)].grant = req'[q].grant
    BY <1>1, <2>1, <2>2 DEF TokensTrue, Exists, Writes
  <2>4. Exists(Refresh(q))' =>
          /\ doc'[Refresh(q)].grant = req'[q].grant
          /\ doc'[Refresh(q)].origin = req'[q].root
          /\ Online(req'[q].grant) => doc'[Refresh(q)].bound
    BY <1>1, <2>1, <2>2 DEF TokensTrue, Exists, Writes
  <2> QED
    BY <2>3, <2>4 DEF TokensTrue
<1> QED
  BY <1>2, <1>3

LEMMA MovesStored ==
  ASSUME IdpInv, NEW r \in Requests, Moves(r), Writes(r), NEW q \in Requests, q # r
  PROVE  /\ StoredTrue(q)'
         /\ HasTokens(q)' /\ ~HasTokens(q) => req[q].reply = "tokens"
<1>1. /\ Access(q) \in Docs /\ Access(q) # Access(r) /\ Access(q) # Refresh(r) /\ Access(q) \notin Credentials
      /\ Refresh(q) \in Docs /\ Refresh(q) # Access(r) /\ Refresh(q) # Refresh(r)
      /\ Refresh(q) \in RefreshTokens /\ Refresh(q)[2] = q
  BY DocFacts
<1>2. CredTrue(r) /\ Begun(r) /\ StoredTrue(q) /\ ReplyTrue(q)
  BY DEF IdpInv, RequestTrue, Moves, Underway, Begun
<1>3. req[r].cred \in Credentials
  BY <1>2 DEF CredTrue
<1>4. Exists(Access(q))' => Exists(Access(q))
  BY <1>1, <1>3 DEF Writes, Exists
<1>5. Exists(Refresh(q))' => Exists(Refresh(q)) \/ req[q].reply = "tokens"
  BY <1>1, <1>2 DEF Writes, Exists, CredTrue
<1>6. req'[q] = req[q]
  BY DEF Moves
<1>7. req[q].reply = "tokens" => req[q].pc = "over"
  BY <1>2 DEF ReplyTrue
<1>8. "over" \notin Unstored
  BY DEF Unstored, Revoking
<1>9. HasTokens(q)' /\ ~HasTokens(q) => req[q].reply = "tokens"
  BY <1>4, <1>5 DEF HasTokens, Access, Refresh
<1> QED
  BY <1>2, <1>5, <1>6, <1>7, <1>8, <1>9 DEF StoredTrue, Unstored, Revoking, Refresh

LEMMA MovesCredentials ==
  ASSUME IdpInv, NEW r \in Requests, Moves(r), NEW q \in Requests
  PROVE  CredTrue(q)' /\ RootTrue(q)'
<1>1. CredTrue(q) /\ RootTrue(q)
  BY DEF IdpInv, RequestTrue
<1>2. SUFFICES ASSUME Begun(q)' PROVE CredTrue(q)' /\ RootTrue(q)'
  BY DEF CredTrue, RootTrue
<1>3. Begun(q)
  BY <1>2, MovesKeep
<1>4. /\ req'[q].cred = req[q].cred /\ req'[q].grant = req[q].grant /\ req'[q].root = req[q].root
      /\ auth' = auth
  BY MovesKeep DEF Moves
<1>5. CASE req[q].cred \in Codes
  <2>1. CredTrue(q)'
    BY <1>1, <1>3, <1>4, <1>5, DocKinds DEF CredTrue, GrantOf, RootOf
  <2>2. req[q].root = q
    BY <1>1, <1>3, <1>5 DEF CredTrue, RootOf
  <2>3. RootTrue(q)'
    BY <1>1, <1>2, <1>4, <1>5, <2>2, DocKinds DEF RootTrue, IsCode
  <2> QED
    BY <2>1, <2>3
<1>6. CASE req[q].cred \notin Codes
  <2> DEFINE p == req[q].cred[2]
  <2>1. req[q].cred \in RefreshTokens /\ p \in Requests
    BY <1>1, <1>3, <1>6, DocKinds DEF CredTrue
  <2>2. req[p].reply = "tokens" /\ req'[p].reply = "tokens"
    BY <1>1, <1>3, <2>1, MovesKeep DEF CredTrue
  <2>3. req'[p].grant = req[p].grant /\ req'[p].root = req[p].root
    BY <2>1, MovesKeep
  <2>4. CredTrue(q)'
    BY <1>1, <1>3, <1>4, <1>6, <2>1, <2>2, <2>3 DEF CredTrue, GrantOf, RootOf
  <2> DEFINE o == req[q].root
  <2>5. o \in Requests /\ Begun(o) /\ IsCode(o) /\ req[o].grant = req[q].grant /\ req[o].reply = "tokens"
    BY <1>1, <1>3, <2>1 DEF RootTrue
  <2>6. Begun(o)' /\ req'[o].cred = req[o].cred /\ req'[o].grant = req[o].grant /\ req'[o].reply = "tokens"
    BY <2>5, MovesKeep
  <2>7. RootTrue(q)'
    BY <1>4, <2>5, <2>6 DEF RootTrue, IsCode
  <2> QED
    BY <2>4, <2>7
<1> QED
  BY <1>5, <1>6

LEMMA MovesBarred ==
  ASSUME IdpInv, NEW r \in Requests, Moves(r), Writes(r), NEW q \in Requests
  PROVE  BarredTrue(q)'
<1>1. BarredTrue(q) /\ req[q].after \subseteq Requests
  BY DEF IdpInv, RequestTrue, TypeOK, Request
<1>2. /\ req'[q].after = req[q].after /\ req'[q].late = req[q].late /\ req'[q].cred = req[q].cred
      /\ req'[q].grant = req[q].grant /\ session' = session
  BY MovesKeep DEF Moves
<1>3. \A p \in req[q].after : At(p, "over") /\ At(p, "over")' /\ req'[p] = req[p]
  BY <1>1, MovesKeep DEF BarredTrue, Moves
<1>4. Behind(q)' => Behind(q)
  BY <1>2, <1>3 DEF Behind, Done
<1>5. Barred(q) => Barred(q)'
  <2> SUFFICES ASSUME Barred(q) PROVE Barred(q)'
    OBVIOUS
  <2>1. CASE q # r
    BY <2>1, MovesStored DEF Barred, Moves
  <2>2. CASE q = r
    <3>1. req[r].pc \in Revoking /\ req'[r].pc \in Revoking \union {"over"} /\ req'[r].reply # "tokens"
      BY <2>2 DEF Barred, Moves, Underway
    <3>2. HasTokens(r)' => HasTokens(r)
      BY <3>1, DocFacts DEF HasTokens, Exists, Writes, Access, Refresh
    <3> QED
      BY <2>2, <3>1, <3>2 DEF Barred
  <2> QED
    BY <2>1, <2>2
<1>6. At(q, "session") /\ Online(req[q].grant) /\ req[q].grant \notin session =>
        Barred(q)' \/ (At(q, "session")' /\ req'[q].grant = req[q].grant)
  <2>1. CASE q # r
    BY <2>1 DEF Moves, At
  <2>2. CASE q = r /\ At(r, "session") /\ Online(req[r].grant) /\ req[r].grant \notin session
    <3>1. req'[r].pc = "over" /\ req'[r].reply # "tokens"
      BY <2>2 DEF Moves
    <3>2. ~HasTokens(r)
      BY <2>2 DEF IdpInv, RequestTrue, StoredTrue, Unstored, At
    <3>3. HasTokens(r)' => HasTokens(r)
      BY <2>2, DocFacts DEF HasTokens, Exists, Writes, Access, Refresh, At
    <3> QED
      BY <2>2, <3>1, <3>2, <3>3 DEF Barred
  <2> QED
    BY <2>1, <2>2
<1> QED
  BY <1>1, <1>2, <1>3, <1>4, <1>5, <1>6 DEF BarredTrue, Online

LEMMA MovesRevoked ==
  ASSUME IdpInv, NEW r \in Requests, Moves(r), NEW q \in Requests
  PROVE  RevokedTrue(q)'
<1>1. RevokedTrue(q)
  BY DEF IdpInv, RequestTrue
<1>2. SUFFICES ASSUME At(q, "over")', req'[q].reply = "revoked", req'[q].round = 1
               PROVE  RevokedTrue(q)'
  BY DEF RevokedTrue
<1>3. req'[q] = req[q] /\ lapsed' = lapsed
  BY <1>2 DEF Moves, At
<1>4. \A p \in Presented(req[q].grant) : req[p].round = 2 => p \in Requests /\ req'[p].round = 2
  BY MovesKeep DEF Presented
<1>5. \A p \in Requests : At(p, "over") => At(p, "over")'
  BY MovesKeep
<1>6. Presented(req[q].grant)' = Presented(req[q].grant)
  BY <1>3, MovesKeep DEF Presented
<1>7. \/ req[q].root \in lapsed
      \/ \E p \in Presented(req[q].grant) : req[p].round = 2 /\ (req[q].alone => At(p, "over"))
  BY <1>1, <1>2, <1>3 DEF RevokedTrue, At
<1> QED
  BY <1>3, <1>4, <1>5, <1>6, <1>7 DEF RevokedTrue

\* What is not of the grant of r is not written.
LEMMA MovesElsewhere ==
  ASSUME IdpInv, NEW r \in Requests, Moves(r), Writes(r), NEW g, g # req[r].grant
  PROVE  /\ Family(g)' = Family(g)
         /\ \A d \in Docs : Owner(d) = g => doc'[d] = doc[d]
         /\ \A d \in Docs : Exists(d)' /\ doc'[d].grant = g => doc'[d] = doc[d]
<1>1. \A d \in Docs : Owner(d) = g => doc'[d] = doc[d]
  BY DEF Writes
<1>2. \A d \in Docs : Exists(d)' /\ doc'[d].grant = g => doc'[d] = doc[d]
  BY DEF Writes, Exists
<1>3. \A d \in Docs : Exists(d) /\ doc[d].grant = g => doc'[d] = doc[d]
  BY <1>1, OwnersTrue
<1> QED
  BY <1>1, <1>2, <1>3 DEF Family, Exists

LEMMA MovesOthers ==
  ASSUME IdpInv, NEW r \in Requests, Moves(r), Writes(r), NEW q \in Requests, q # r
  PROVE  ReplyTrue(q)' /\ EntryTrue(q)' /\ SpentTrue(q)' /\ FoundTrue(q)' /\ QuietTrue(q)'
<1>1. /\ ReplyTrue(q) /\ EntryTrue(q) /\ SpentTrue(q) /\ FoundTrue(q) /\ QuietTrue(q) /\ CredTrue(q)
      /\ req'[q] = req[q]
  BY DEF IdpInv, RequestTrue, Moves
<1>2. ReplyTrue(q)' /\ EntryTrue(q)'
  BY <1>1 DEF ReplyTrue, EntryTrue, IsCode
<1>3. SpentTrue(q)'
  <2> SUFFICES ASSUME Consumed(q)' PROVE ~Usable(req[q].cred)'
    BY DEF SpentTrue
  <2>1. Consumed(q) /\ ~Usable(req[q].cred)
    BY <1>1 DEF Consumed, SpentTrue, At, IsCode
  <2>2. Begun(q)
    BY <1>1, <2>1 DEF Consumed, At, Begun, ReplyTrue
  <2>3. req[q].cred \in Credentials /\ req[q].cred \in Docs
    BY <1>1, <2>2, DocKinds DEF CredTrue
  <2>4. req[q].cred # Refresh(r)
    <3> SUFFICES ASSUME req[q].cred = Refresh(r) PROVE FALSE
      OBVIOUS
    <3>1. req[r].reply = "tokens"
      BY <1>1, <2>2, DocFacts DEF CredTrue
    <3> QED
      BY <3>1, MovesKeep
  <2>5. CASE doc'[req[q].cred] = doc[req[q].cred]
    BY <1>1, <2>1, <2>5 DEF Usable, Live, Exists, Moves
  <2>6. CASE doc'[req[q].cred] # doc[req[q].cred]
    BY <1>1, <2>3, <2>4, <2>6 DEF Writes
  <2> QED
    BY <2>5, <2>6
<1>4. req[q].alone /\ Underway(q) => req[q].grant # req[r].grant
  BY <1>1 DEF QuietTrue, Moves, Presented, Begun, Underway
<1>5. FoundTrue(q)'
  <2>1. req[q].found \subseteq Docs
    BY DEF IdpInv, TypeOK, Request
  <2>2. \A d \in req[q].found : Owner(d)' = req'[q].grant /\ (d \notin Codes => Begun(d[2])')
    BY <1>1, <2>1, MovesKeep, DocKinds DEF FoundTrue
  <2>3. req'[q].alone /\ At(q, "update")' => req'[q].found = Family(req[q].grant)'
    BY <1>1, <1>4, MovesElsewhere DEF FoundTrue, At, Underway
  <2> QED
    BY <1>1, <2>2, <2>3 DEF FoundTrue
<1>6. QuietTrue(q)'
  <2>1. Presented(req[q].grant)' = Presented(req[q].grant) /\ Presented(req[q].grant) \subseteq Requests
    BY <1>1, MovesKeep DEF Presented
  <2>2. req'[q].alone /\ Underway(q)' => \A p \in Presented(req[q].grant)' \ {q} : ~Underway(p)'
    BY <1>1, <2>1, MovesKeep DEF QuietTrue, Presented
  <2>3. ASSUME req'[q].alone, Final(q)' PROVE Closed(req[q].grant)'
    <3>1. Closed(req[q].grant)
      BY <1>1, <2>3 DEF QuietTrue, Final, At
    <3>2. req[q].grant # req[r].grant
      BY <3>1 DEF Closed, Presented, Moves, Underway, Begun
    <3>3. \A p \in Presented(req[q].grant) : ~Underway(p)'
      BY <2>1, <3>1, MovesKeep DEF Closed
    <3>4. \A d \in Docs : Exists(d)' /\ doc'[d].grant = req[q].grant => ~Live(d)'
      BY <3>1, <3>2, MovesElsewhere DEF Closed, Live, Exists, Moves
    <3> QED
      BY <1>1, <2>1, <3>3, <3>4 DEF Closed
  <2> QED
    BY <2>2, <2>3 DEF QuietTrue
<1> QED
  BY <1>2, <1>3, <1>5, <1>6

LEMMA MovesIntact ==
  ASSUME IdpInv, NEW r \in Requests, Moves(r), Writes(r)
  PROVE  /\ \A g \in Grants : CodeIntact(g)'
         /\ \A q \in Requests \ {r} : IntactTrue(q)'
<1>1. ASSUME NEW g, Untouched(g)', NEW d \in Credentials, d # Refresh(r), Exists(d), ~doc[d].revoked, Owner(d) = g
      PROVE  /\ Exists(d)' /\ ~doc'[d].revoked
             /\ doc'[d].used => doc[d].used \/ (req[r].cred = d /\ (d \in RefreshTokens => Answered(r)'))
  <2>1. CASE doc'[d] = doc[d]
    BY <1>1, <2>1 DEF Exists
  <2>2. CASE doc'[d] # doc[d]
    <3>1. d \in Docs
      BY DocKinds
    <3>2. req[r].grant = g
      BY <1>1, <2>2, <3>1 DEF Writes
    <3>3. Begun(r)' /\ req'[r].grant = req[r].grant
      BY DEF Moves, Begun
    <3>4. r \in Presented(g)'
      BY <3>2, <3>3 DEF Presented
    <3>5. req'[r].round = 1
      BY <1>1, <3>4 DEF Untouched
    <3> QED
      BY <1>1, <2>2, <3>1, <3>5 DEF Writes, Exists
  <2> QED
    BY <2>1, <2>2
<1>2. ASSUME NEW g \in Grants PROVE CodeIntact(g)'
  <2> SUFFICES ASSUME Untouched(g)', auth'[g] = "done" PROVE CodeIntact(g)'
    BY DEF CodeIntact
  <2>1. Untouched(g) /\ auth[g] = "done" /\ CodeIntact(g)
    BY MovesKeep DEF Moves, IdpInv
  <2>2. Code(g) \in Credentials /\ Code(g) # Refresh(r) /\ Owner(Code(g)) = g /\ Code(g) \notin RefreshTokens
    BY DocFacts, DocKinds DEF Owner
  <2>3. /\ Exists(Code(g))' /\ ~doc'[Code(g)].revoked
        /\ doc'[Code(g)].used => doc[Code(g)].used \/ req[r].cred = Code(g)
    BY <1>1, <2>1, <2>2 DEF CodeIntact
  <2>4. ASSUME doc'[Code(g)].used PROVE \E q \in Requests : req'[q].cred = Code(g) /\ Begun(q)'
    <3>1. Begun(r)
      BY DEF Moves, Begun, Underway
    <3>2. \E q \in Requests : req[q].cred = Code(g) /\ Begun(q)
      BY <2>1, <2>3, <2>4, <3>1 DEF CodeIntact
    <3> QED
      BY <3>2, MovesKeep
  <2> QED
    BY <2>3, <2>4 DEF CodeIntact
<1>3. ASSUME NEW q \in Requests \ {r} PROVE IntactTrue(q)'
  <2>1. req'[q] = req[q] /\ IntactTrue(q)
    BY DEF Moves, IdpInv, RequestTrue
  <2> SUFFICES ASSUME Untouched(req[q].grant)', req[q].pc \in {"old_get", "old_put", "answer"} \/ req[q].reply = "tokens"
               PROVE  /\ Exists(Refresh(q))' /\ ~doc'[Refresh(q)].revoked
                      /\ doc'[Refresh(q)].used => \E p \in Requests : req'[p].cred = Refresh(q) /\ Answered(p)'
    BY <2>1 DEF IntactTrue, Untouched, Presented
  <2>2. Refresh(q) \in Credentials /\ Refresh(q) # Refresh(r) /\ Owner(Refresh(q)) = req[q].grant /\ Refresh(q) \in RefreshTokens
    BY DocFacts DEF Owner
  <2>3. /\ Exists(Refresh(q)) /\ ~doc[Refresh(q)].revoked
        /\ doc[Refresh(q)].used => \E p \in Requests : req[p].cred = Refresh(q) /\ Answered(p)
    BY <2>1, MovesKeep DEF IntactTrue
  <2>4. /\ Exists(Refresh(q))' /\ ~doc'[Refresh(q)].revoked
        /\ doc'[Refresh(q)].used => doc[Refresh(q)].used \/ (req[r].cred = Refresh(q) /\ Answered(r)')
    BY <1>1, <2>1, <2>2, <2>3
  <2> QED
    BY <2>3, <2>4, MovesKeep
<1> QED
  BY <1>2, <1>3

\* It remains, for each action, what the request has to be itself afterwards.
SelfTrue(r) ==
  /\ StoredTrue(r) /\ ReplyTrue(r) /\ EntryTrue(r) /\ SpentTrue(r) /\ FoundTrue(r) /\ IntactTrue(r)
  /\ req[r].alone /\ Final(r) => Closed(req[r].grant)

LEMMA MovesInv ==
  ASSUME IdpInv, NEW r \in Requests, Moves(r), Writes(r), SelfTrue(r)'
  PROVE  IdpInv' /\ Moves(r)
<1>1. TypeOK'
  BY DEF Moves, Writes, TypeOK, IdpInv
<1>2. FiniteInv'
  <2>1. {q \in Requests : Begun(q)'} = {q \in Requests : Begun(q)}
    BY MovesKeep
  <2> QED
    BY <2>1 DEF FiniteInv, IdpInv
<1>3. QuietTrue(r)'
  <2>1. QuietTrue(r) /\ req'[r].grant = req[r].grant
    BY DEF IdpInv, RequestTrue, Moves
  <2>2. req'[r].alone /\ Underway(r)' => \A p \in Presented(req[r].grant)' \ {r} : ~Underway(p)'
    BY <2>1, MovesKeep DEF QuietTrue, Presented
  <2> QED
    BY <2>2 DEF QuietTrue, SelfTrue
<1>4. ASSUME NEW q \in Requests PROVE RequestTrue(q)'
  <2>1. TokensTrue(q)' /\ CredTrue(q)' /\ RootTrue(q)' /\ BarredTrue(q)' /\ RevokedTrue(q)'
    BY MovesTokens, MovesCredentials, MovesBarred, MovesRevoked
  <2>2. CASE q # r
    BY <2>1, <2>2, MovesStored, MovesOthers, MovesIntact DEF RequestTrue
  <2>3. CASE q = r
    BY <1>3, <2>1, <2>3 DEF RequestTrue, SelfTrue
  <2> QED
    BY <2>2, <2>3
<1> QED
  BY <1>1, <1>2, <1>4, MovesTokens, MovesIntact DEF IdpInv

-----------------------------------------------------------------------------
(* The actions of a request that has begun.                                *)

\* What the inductive invariant says of one request.
LEMMA RequestFacts ==
  ASSUME IdpInv, NEW r \in Requests
  PROVE  /\ RequestTrue(r) /\ req[r] \in Request /\ TypeOK
         /\ Begun(r) => req[r].cred \in Credentials /\ req[r].grant \in Grants /\ req[r].cred \in Docs
                        /\ Owner(req[r].cred) = req[r].grant
                        /\ (req[r].cred \notin Codes => Begun(req[r].cred[2]) /\ req[r].cred \in RefreshTokens)
                        /\ (Underway(r) => req[r].cred # Refresh(r)) /\ req[r].cred # Access(r)
<1>1. RequestTrue(r) /\ req[r] \in Request /\ TypeOK
  BY DEF IdpInv, TypeOK
<1>2. ASSUME Begun(r)
      PROVE  /\ req[r].cred \in Credentials /\ req[r].grant \in Grants /\ req[r].cred \in Docs
             /\ Owner(req[r].cred) = req[r].grant
             /\ (req[r].cred \notin Codes => Begun(req[r].cred[2]) /\ req[r].cred \in RefreshTokens)
             /\ (Underway(r) => req[r].cred # Refresh(r)) /\ req[r].cred # Access(r)
  <2>1. /\ req[r].cred \in Credentials /\ req[r].grant \in Grants /\ req[r].cred \in Docs
        /\ Owner(req[r].cred) = req[r].grant
    BY <1>1, <1>2, DocKinds DEF RequestTrue, CredTrue, Owner, GrantOf
  <2>2. ASSUME req[r].cred \notin Codes
        PROVE  /\ req[r].cred \in RefreshTokens /\ req[r].cred[2] \in Requests
               /\ req[req[r].cred[2]].reply = "tokens"
    BY <1>1, <1>2, <2>1, <2>2, DocKinds DEF RequestTrue, CredTrue
  <2>3. ASSUME req[r].cred \notin Codes
        PROVE  Begun(req[r].cred[2])
    <3>1. ReplyTrue(req[r].cred[2])
      BY <2>2, <2>3 DEF IdpInv, RequestTrue
    <3> QED
      BY <2>2, <2>3, <3>1 DEF ReplyTrue, Begun
  <2>4. req[r].cred # Access(r)
    BY <2>1, DocFacts
  <2>5. ASSUME Underway(r), req[r].cred = Refresh(r) PROVE FALSE
    BY <1>1, <1>2, <2>1, <2>5, DocFacts DEF RequestTrue, CredTrue, ReplyTrue, Underway
  <2> QED
    BY <2>1, <2>2, <2>3, <2>4, <2>5
<1> QED
  BY <1>1, <1>2

\* The token endpoint goes on at pc with the entry e, or the request ends.
Proceeds(r, pc, e) ==
  /\ req' \in [Requests -> Request]
  /\ \A q \in Requests \ {r} : req'[q] = req[q]
  /\ req'[r].pc = pc /\ req'[r].entry = e
  /\ req'[r].cred = req[r].cred /\ req'[r].grant = req[r].grant /\ req'[r].root = req[r].root
  /\ req'[r].after = req[r].after /\ req'[r].late = req[r].late /\ req'[r].alone = req[r].alone
  /\ req'[r].round = req[r].round /\ req'[r].reply = req[r].reply /\ req'[r].found = req[r].found

Closes(r, reply) ==
  /\ req' \in [Requests -> Request]
  /\ \A q \in Requests \ {r} : req'[q] = req[q]
  /\ req'[r].pc = "over" /\ req'[r].reply = reply /\ req'[r].found = {}
  /\ req'[r].cred = req[r].cred /\ req'[r].grant = req[r].grant /\ req'[r].root = req[r].root
  /\ req'[r].after = req[r].after /\ req'[r].late = req[r].late /\ req'[r].alone = req[r].alone
  /\ req'[r].round = req[r].round

LEMMA GotoProceeds ==
  ASSUME TypeOK, NEW r \in Requests, NEW pc \in Issuing, Goto(r, pc)
  PROVE  Proceeds(r, pc, req[r].entry)
BY DEF TypeOK, Goto, Proceeds, Request

LEMMA GetProceeds ==
  ASSUME TypeOK, NEW r \in Requests, NEW pc \in Issuing, NEW e \in Document,
         req' = [req EXCEPT ![r].pc = pc, ![r].entry = e]
  PROVE  Proceeds(r, pc, e)
<1> DEFINE n == [req[r] EXCEPT !.pc = pc, !.entry = e]
<1>1. req[r] \in Request /\ req \in [Requests -> Request]
  BY DEF TypeOK
<1>2. req' = [req EXCEPT ![r] = n]
  BY <1>1
<1>3. n \in Request
  BY <1>1 DEF Request
<1>4. /\ n.pc = pc /\ n.entry = e /\ n.reply = req[r].reply /\ n.found = req[r].found
      /\ n.cred = req[r].cred /\ n.grant = req[r].grant /\ n.root = req[r].root
      /\ n.after = req[r].after /\ n.late = req[r].late /\ n.alone = req[r].alone
      /\ n.round = req[r].round
  BY <1>1 DEF Request
<1> HIDE DEF n
<1>5. req'[r] = n /\ req' \in [Requests -> Request] /\ \A q \in Requests \ {r} : req'[q] = req[q]
  BY <1>1, <1>2, <1>3
<1> QED
  BY <1>4, <1>5 DEF Proceeds

LEMMA EndsCloses ==
  ASSUME TypeOK, NEW r \in Requests, NEW reply \in Replies, Ends(r, reply)
  PROVE  Closes(r, reply)
<1> DEFINE over == [req[r] EXCEPT !.pc = "over", !.reply = reply, !.found = {}, !.entry = NoDoc]
<1>1. req[r] \in Request /\ req \in [Requests -> Request]
  BY DEF TypeOK
<1>2. req' = [req EXCEPT ![r] = over]
  BY <1>1 DEF Ends
<1>3. over \in Request
  BY <1>1 DEF Request
<1>4. /\ over.pc = "over" /\ over.reply = reply /\ over.found = {}
      /\ over.cred = req[r].cred /\ over.grant = req[r].grant /\ over.root = req[r].root
      /\ over.after = req[r].after /\ over.late = req[r].late /\ over.alone = req[r].alone
      /\ over.round = req[r].round
  BY <1>1 DEF Request
<1> HIDE DEF over
<1>5. req'[r] = over /\ req' \in [Requests -> Request] /\ \A q \in Requests \ {r} : req'[q] = req[q]
  BY <1>1, <1>2, <1>3
<1> QED
  BY <1>4, <1>5 DEF Closes

LEMMA ProceedsInv ==
  ASSUME IdpInv, NEW r \in Requests, NEW pc \in Issuing, NEW e, Proceeds(r, pc, e), Writes(r),
         req[r].pc \in Issuing \ {"answer"},
         At(r, "session") => req[r].grant \in session \/ ~Online(req[r].grant),
         StoredTrue(r)', EntryTrue(r)', SpentTrue(r)', IntactTrue(r)',
         UNCHANGED <<session, auth, lapsed, faults>>
  PROVE  IdpInv' /\ Moves(r)
<1>1. RequestTrue(r) /\ req[r] \in Request /\ TypeOK
  BY RequestFacts
<1>2. req[r].reply = "none" /\ req[r].round = 1
  BY <1>1 DEF RequestTrue, ReplyTrue
<1>3. Moves(r)
  BY <1>1, <1>2 DEF Moves, Proceeds, Underway, At, TypeOK, Issuing, Revoking
<1>4. ReplyTrue(r)'
  BY <1>2 DEF Proceeds, ReplyTrue, Issuing
<1>5. FoundTrue(r)'
  <2>1. FoundTrue(r) /\ req[r].found \subseteq Docs
    BY <1>1 DEF RequestTrue, Request
  <2>2. \A d \in req[r].found : Owner(d)' = req'[r].grant /\ (d \notin Codes => Begun(d[2])')
    BY <1>3, <2>1, MovesKeep, DocKinds DEF FoundTrue, Proceeds
  <2> QED
    BY <2>2 DEF FoundTrue, Proceeds, At, Issuing
<1>6. ~Final(r)'
  BY DEF Final, At, Proceeds, Issuing
<1> QED
  BY <1>3, <1>4, <1>5, <1>6, MovesInv DEF SelfTrue

\* A request that ends without an answer.
LEMMA ClosesInv ==
  ASSUME IdpInv, NEW r \in Requests, Underway(r), ~At(r, "answer"),
         NEW reply \in {"refused", "error"}, Closes(r, reply), doc' = doc,
         reply = "refused" => req[r].pc \in Issuing,
         faults' \in 0 .. MaxFaults, UNCHANGED <<session, auth, lapsed>>
  PROVE  IdpInv' /\ Moves(r)
<1>1. RequestTrue(r) /\ req[r] \in Request /\ TypeOK
  BY RequestFacts
<1>2. req[r].reply \notin {"tokens", "lost"}
  BY <1>1 DEF RequestTrue, ReplyTrue, Underway
<1>3. Moves(r)
  BY <1>1, <1>2 DEF Moves, Closes, At
<1>4. Writes(r)
  BY <1>1, NothingWritten
<1>5. ReplyTrue(r)'
  <2>1. req[r].round = 2 => req[r].pc \notin Issuing
    BY <1>1 DEF RequestTrue, ReplyTrue
  <2> QED
    BY <2>1 DEF Closes, ReplyTrue, Issuing, Revoking
<1>6. StoredTrue(r)' /\ EntryTrue(r)' /\ SpentTrue(r)' /\ FoundTrue(r)' /\ IntactTrue(r)' /\ ~Final(r)'
  BY DEF Closes, StoredTrue, EntryTrue, SpentTrue, FoundTrue, IntactTrue, Final,
         Unstored, Issuing, Revoking, Consumed, At
<1> QED
  BY <1>3, <1>4, <1>5, <1>6, MovesInv DEF SelfTrue

\* The answer, which may be lost.
LEMMA AnswersInv ==
  ASSUME IdpInv, NEW r \in Requests, At(r, "answer"),
         NEW reply \in {"tokens", "lost"}, Closes(r, reply), doc' = doc,
         faults' \in 0 .. MaxFaults, UNCHANGED <<session, auth, lapsed>>
  PROVE  IdpInv' /\ Moves(r)
<1>1. RequestTrue(r) /\ req[r] \in Request /\ TypeOK
  BY RequestFacts
<1>2. req[r].reply = "none" /\ req[r].round = 1
  BY <1>1 DEF RequestTrue, ReplyTrue, At, Issuing
<1>3. Moves(r)
  BY <1>1, <1>2 DEF Moves, Closes, At, Underway, Answered, Revoking
<1>4. Writes(r)
  BY <1>1, NothingWritten
<1>5. ReplyTrue(r)'
  BY <1>2 DEF Closes, ReplyTrue, Issuing, Revoking
<1>6. StoredTrue(r)' /\ EntryTrue(r)' /\ FoundTrue(r)' /\ ~Final(r)'
  BY DEF Closes, StoredTrue, EntryTrue, FoundTrue, Final, Unstored, Issuing, Revoking, At
<1>7. SpentTrue(r)'
  BY <1>1 DEF RequestTrue, SpentTrue, Consumed, At, Closes, Usable, Live, Exists
<1>8. IntactTrue(r)'
  <2> SUFFICES ASSUME Untouched(req[r].grant)'
               PROVE  /\ Exists(Refresh(r)) /\ ~doc[Refresh(r)].revoked
                      /\ doc[Refresh(r)].used => \E p \in Requests : req'[p].cred = Refresh(r) /\ Answered(p)'
    BY DEF IntactTrue, Exists
  <2>1. req'[r].grant = req[r].grant
    BY DEF Closes
  <2>2. Untouched(req[r].grant)
    BY <1>3, <2>1, MovesKeep
  <2>3. /\ Exists(Refresh(r)) /\ ~doc[Refresh(r)].revoked
        /\ doc[Refresh(r)].used => \E p \in Requests : req[p].cred = Refresh(r) /\ Answered(p)
    BY <1>1, <2>2 DEF RequestTrue, IntactTrue, At
  <2> QED
    BY <1>3, <2>3, MovesKeep
<1> QED
  BY <1>3, <1>4, <1>5, <1>6, <1>7, <1>8, MovesInv DEF SelfTrue

LEMMA ValidatesSession ==
  ASSUME IdpInv, NEW r \in Requests, ValidateSession(r)
  PROVE  IdpInv' /\ Moves(r)
<1>1. RequestTrue(r) /\ TypeOK /\ At(r, "session") /\ doc' = doc /\ UNCHANGED <<session, auth, lapsed, faults>>
  BY RequestFacts DEF ValidateSession
<1>2. CASE req[r].grant \in session
  <2>1. Proceeds(r, "set_access", req[r].entry)
    BY <1>1, <1>2, GotoProceeds DEF ValidateSession, Issuing
  <2>2. Writes(r)
    BY <1>1, NothingWritten
  <2>3. StoredTrue(r)'
    BY <1>1, <2>1 DEF RequestTrue, StoredTrue, Proceeds, HasTokens, Exists, At, Unstored
  <2>4. EntryTrue(r)'
    BY <1>1, <2>1 DEF RequestTrue, EntryTrue, Proceeds, At, Issuing, IsCode
  <2>5. SpentTrue(r)'
    BY <1>1, <2>1 DEF RequestTrue, EntryTrue, ReplyTrue, SpentTrue, Consumed, Proceeds, At, Issuing, IsCode
  <2>6. IntactTrue(r)'
    BY <1>1, <2>1 DEF RequestTrue, ReplyTrue, IntactTrue, Proceeds, At, Issuing
  <2> QED
    BY <1>1, <1>2, <2>1, <2>2, <2>3, <2>4, <2>5, <2>6, ProceedsInv DEF At, Issuing
<1>3. CASE req[r].grant \notin session
  <2>1. Closes(r, "refused")
    BY <1>1, <1>3, EndsCloses DEF ValidateSession, Replies
  <2> QED
    BY <1>1, <2>1, ClosesInv DEF At, Underway, Issuing, TypeOK
<1> QED
  BY <1>2, <1>3

\* Where nothing is written, the request goes on with what it has read.
LEMMA ConsumesCodeGet ==
  ASSUME IdpInv, NEW r \in Requests, ConsumeCodeGet(r)
  PROVE  IdpInv' /\ Moves(r)
<1>1. /\ RequestTrue(r) /\ TypeOK /\ At(r, "code_get") /\ doc' = doc /\ IsCode(r)
      /\ UNCHANGED <<session, auth, lapsed, faults>>
      /\ req[r].reply = "none"
  BY RequestFacts DEF ConsumeCodeGet, ConsumeGet, RequestTrue, EntryTrue, ReplyTrue, At, Issuing
<1>2. Writes(r)
  BY <1>1, NothingWritten
<1>3. ~HasTokens(r)
  BY <1>1 DEF RequestTrue, StoredTrue, At, Unstored
<1>4. CASE Live(req[r].cred)
  <2>1. Begun(r) /\ req[r].cred \in Docs /\ Owner(req[r].cred) = req[r].grant
    BY <1>1, RequestFacts DEF Begun, At
  <2>2. doc[req[r].cred] \in Document /\ doc[req[r].cred].grant = req[r].grant
    BY <1>4, <2>1, OwnersTrue DEF Live
  <2>3. Proceeds(r, "code_put", doc[req[r].cred])
    <3>1. req' = [req EXCEPT ![r].pc = "code_put", ![r].entry = doc[req[r].cred]]
      BY <1>4 DEF ConsumeCodeGet, ConsumeGet
    <3> QED
      BY <1>1, <2>2, <3>1, GetProceeds DEF Issuing
  <2>4. doc[req[r].cred].bound /\ doc[req[r].cred].origin = NoOrigin
    <3>1. req[r].cred[2] \in Grants /\ req[r].cred = Code(req[r].cred[2])
      BY <1>1, DocKinds DEF IsCode
    <3>2. CodeTrue(req[r].cred[2])
      BY <3>1 DEF IdpInv
    <3> QED
      BY <1>4, <3>1, <3>2 DEF CodeTrue, Live
  <2>5. EntryTrue(r)'
    BY <1>1, <2>2, <2>3, <2>4 DEF EntryTrue, Proceeds, IsCode
  <2>6. StoredTrue(r)' /\ SpentTrue(r)' /\ IntactTrue(r)'
    BY <1>1, <1>3, <2>3 DEF StoredTrue, Proceeds, HasTokens, Exists, SpentTrue, Consumed, At, IntactTrue
  <2> QED
    BY <1>1, <1>2, <2>3, <2>5, <2>6, ProceedsInv DEF At, Issuing
<1>5. CASE ~Live(req[r].cred)
  <2>1. Proceeds(r, "code_again", req[r].entry)
    BY <1>1, <1>5, GotoProceeds DEF ConsumeCodeGet, ConsumeGet, Issuing
  <2>2. EntryTrue(r)'
    BY <1>1, <2>1 DEF RequestTrue, EntryTrue, Proceeds, At, Issuing, IsCode
  <2>3. StoredTrue(r)' /\ IntactTrue(r)'
    BY <1>1, <1>3, <2>1 DEF StoredTrue, Proceeds, HasTokens, Exists, IntactTrue
  <2>4. SpentTrue(r)'
    BY <1>1, <1>5, <2>1 DEF SpentTrue, Proceeds, Usable, Live, Exists
  <2> QED
    BY <1>1, <1>2, <2>1, <2>2, <2>3, <2>4, ProceedsInv DEF At, Issuing
<1> QED
  BY <1>4, <1>5

\* A consumption that writes: of the code, or of the refresh token, behind which
\* comes the answer.
LEMMA PutWrites ==
  ASSUME IdpInv, NEW r \in Requests, req[r].pc \in Issuing \ {"session"},
         doc' = [doc EXCEPT ![req[r].cred] = [req[r].entry EXCEPT !.used = TRUE, !.revoked = FALSE]],
         ~IsCode(r) => Answered(r)'
  PROVE  /\ Writes(r)
         /\ doc'[req[r].cred] # NoDoc /\ doc'[req[r].cred].used
         /\ \A d \in Docs : d # req[r].cred => doc'[d] = doc[d]
<1> DEFINE n == [req[r].entry EXCEPT !.used = TRUE, !.revoked = FALSE]
<1>1. RequestTrue(r) /\ TypeOK /\ Begun(r) /\ Underway(r)
  BY RequestFacts DEF Begun, Underway, Issuing
<1>2. /\ req[r].cred \in Docs /\ req[r].cred \in Credentials /\ Owner(req[r].cred) = req[r].grant
      /\ req[r].cred # Refresh(r) /\ req[r].cred # Access(r)
      /\ (req[r].cred \notin Codes => Begun(req[r].cred[2]) /\ req[r].cred \in RefreshTokens)
  BY <1>1, RequestFacts
<1>3. /\ req[r].entry \in Document /\ req[r].entry.grant = req[r].grant
      /\ IsCode(r) \/ Online(req[r].grant) => req[r].entry.bound
      /\ req[r].entry.origin = IF IsCode(r) THEN NoOrigin ELSE req[r].root
  BY <1>1 DEF RequestTrue, EntryTrue
<1>4. /\ n \in Document /\ n.used /\ ~n.revoked /\ n.grant = req[r].grant
      /\ IsCode(r) \/ Online(req[r].grant) => n.bound
      /\ n.origin = IF IsCode(r) THEN NoOrigin ELSE req[r].root
  BY <1>3 DEF Document
<1>5. doc' = [doc EXCEPT ![req[r].cred] = n]
  OBVIOUS
<1>6. n # NoDoc
  BY <1>4, NoDocument
<1> HIDE DEF n
<1>7. \A d \in Docs : doc'[d] = IF d = req[r].cred THEN n ELSE doc[d]
  BY <1>1, <1>5 DEF TypeOK
<1>8. doc' \in [Docs -> Document \union {NoDoc}]
  BY <1>1, <1>2, <1>4, <1>5 DEF TypeOK
<1>9. req[r].cred \in RefreshTokens => req[r].root = req[req[r].cred[2]].root /\ ~IsCode(r)
  BY <1>1, DocKinds DEF RequestTrue, CredTrue, RootOf, IsCode
<1>10. ASSUME NEW d \in Docs, doc'[d] # doc[d]
       PROVE  /\ Owner(d) = req[r].grant
              /\ d \notin Codes => Begun(d[2])
              /\ doc'[d].grant = req[r].grant
              /\ d \in Codes => doc'[d].bound /\ doc'[d].origin = NoOrigin
              /\ d \in RefreshTokens =>
                   /\ doc'[d].origin = req[d[2]].root
                   /\ Online(req[r].grant) => doc'[d].bound
              /\ d = req[r].cred
              /\ ~Usable(d)'
              /\ doc'[d] # NoDoc
              /\ ~doc'[d].revoked
              /\ d \in RefreshTokens => Answered(r)'
  <2>1. d = req[r].cred /\ doc'[d] = n
    BY <1>7, <1>10
  <2>2. ~Usable(d)'
    BY <1>4, <2>1 DEF Usable
  <2> QED
    BY <1>2, <1>4, <1>6, <1>9, <2>1, <2>2 DEF IsCode
<1>11. req[r].pc \notin Revoking \union {"session"}
  BY DEF Issuing, Revoking
<1>12. Writes(r)
  BY <1>8, <1>10, <1>11 DEF Writes
<1> QED
  BY <1>2, <1>4, <1>6, <1>7, <1>12

LEMMA ConsumesCodePut ==
  ASSUME IdpInv, NEW r \in Requests, ConsumeCodePut(r)
  PROVE  IdpInv' /\ Moves(r)
<1>1. /\ RequestTrue(r) /\ TypeOK /\ At(r, "code_put") /\ IsCode(r) /\ Begun(r)
      /\ UNCHANGED <<session, auth, lapsed, faults>>
      /\ req[r].reply = "none" /\ req[r].round = 1
      /\ Proceeds(r, "code_again", req[r].entry)
  BY RequestFacts, GotoProceeds
     DEF ConsumeCodePut, ConsumePut, RequestTrue, EntryTrue, ReplyTrue, At, Issuing, Begun
<1>2. /\ Writes(r)
      /\ doc'[req[r].cred].used
      /\ \A d \in Docs : d # req[r].cred => doc'[d] = doc[d]
  BY <1>1, PutWrites DEF ConsumeCodePut, ConsumePut, At, Issuing
<1>3. EntryTrue(r)'
  BY <1>1 DEF RequestTrue, EntryTrue, Proceeds, At, Issuing, IsCode
<1>4. StoredTrue(r)'
  <2>1. ~HasTokens(r)
    BY <1>1 DEF RequestTrue, StoredTrue, At, Unstored
  <2>2. req[r].cred # Refresh(r) /\ req[r].cred # Access(r)
    BY <1>1, RequestFacts DEF Underway, At
  <2>3. doc'[Access(r)] = doc[Access(r)] /\ doc'[Refresh(r)] = doc[Refresh(r)]
    BY <1>2, <2>2, DocFacts
  <2> QED
    BY <1>1, <2>1, <2>3 DEF StoredTrue, HasTokens, Exists, Proceeds, Access, Refresh
<1>5. SpentTrue(r)' /\ IntactTrue(r)'
  BY <1>1, <1>2 DEF SpentTrue, Proceeds, Usable, IntactTrue
<1> QED
  BY <1>1, <1>2, <1>3, <1>4, <1>5, ProceedsInv DEF At, Issuing

LEMMA ReadsCodeAgain ==
  ASSUME IdpInv, NEW r \in Requests, ReadCodeAgain(r)
  PROVE  IdpInv' /\ Moves(r)
<1>1. /\ RequestTrue(r) /\ TypeOK /\ At(r, "code_again") /\ doc' = doc /\ IsCode(r)
      /\ UNCHANGED <<session, auth, lapsed, faults>> /\ req[r].reply = "none"
  BY RequestFacts DEF ReadCodeAgain, RequestTrue, EntryTrue, ReplyTrue, At, Issuing
<1>2. CASE Live(req[r].cred)
  <2>1. Proceeds(r, "set_access", req[r].entry)
    BY <1>1, <1>2, GotoProceeds DEF ReadCodeAgain, Issuing
  <2>2. Writes(r)
    BY <1>1, NothingWritten
  <2>3. StoredTrue(r)'
    BY <1>1, <2>1 DEF RequestTrue, StoredTrue, Proceeds, HasTokens, Exists, At, Unstored
  <2>4. EntryTrue(r)'
    BY <1>1, <2>1 DEF RequestTrue, EntryTrue, Proceeds, At, Issuing, IsCode
  <2>5. SpentTrue(r)'
    BY <1>1, <2>1 DEF RequestTrue, SpentTrue, Consumed, Proceeds, At, Usable, Live, Exists
  <2>6. IntactTrue(r)'
    BY <1>1, <2>1 DEF IntactTrue, Proceeds
  <2> QED
    BY <1>1, <2>1, <2>2, <2>3, <2>4, <2>5, <2>6, ProceedsInv DEF At, Issuing
<1>3. CASE ~Live(req[r].cred)
  <2>1. Closes(r, "refused")
    BY <1>1, <1>3, EndsCloses DEF ReadCodeAgain, Replies
  <2> QED
    BY <1>1, <2>1, ClosesInv DEF At, Underway, Issuing, TypeOK
<1> QED
  BY <1>2, <1>3

LEMMA AccessWrites ==
  ASSUME IdpInv, NEW r \in Requests, req[r].pc \in {"set_access", "put_access"},
         doc' = [doc EXCEPT ![<<"access", r>>] = NewDoc(req[r].grant, FALSE, NoOrigin)]
  PROVE  /\ Writes(r)
         /\ \A d \in Docs : d # Access(r) => doc'[d] = doc[d]
<1> DEFINE n == NewDoc(req[r].grant, FALSE, NoOrigin)
<1>1. TypeOK /\ Begun(r) /\ req[r].grant \in Grants
  BY RequestFacts DEF Begun
<1>2. n \in Document /\ n.grant = req[r].grant
  BY <1>1, NewDocType
<1> HIDE DEF n
<1>3. Access(r) \in Docs /\ Access(r) \notin Credentials /\ Access(r) \notin Codes /\ Access(r)[2] = r /\ Access(r) \notin RefreshTokens
  BY DocFacts DEF Credentials
<1>4. \A d \in Docs : doc'[d] = IF d = Access(r) THEN n ELSE doc[d]
  BY <1>1 DEF TypeOK, Access, n
<1>5. doc' \in [Docs -> Document \union {NoDoc}]
  BY <1>1, <1>2, <1>3 DEF TypeOK, Access, n
<1>6. Owner(Access(r)) = req[r].grant
  BY <1>3 DEF Owner
<1>7. req[r].pc \notin Revoking \union {"session"}
  BY DEF Revoking
<1> QED
  BY <1>1, <1>2, <1>3, <1>4, <1>5, <1>6, <1>7 DEF Writes

\* The steps behind the access token, which leave the credential alone.
LEMMA AccessInv ==
  ASSUME IdpInv, NEW r \in Requests, req[r].pc \in {"set_access", "get_access", "put_access"},
         NEW pc \in {"get_access", "put_access", "set_refresh"},
         Proceeds(r, pc, req[r].entry), Writes(r),
         \A d \in Docs : d # Access(r) => doc'[d] = doc[d],
         UNCHANGED <<session, auth, lapsed, faults>>
  PROVE  IdpInv' /\ Moves(r)
<1>1. RequestTrue(r) /\ Begun(r) /\ req[r].cred \in Docs /\ req[r].cred # Access(r)
  BY RequestFacts DEF Begun
<1>2. req[r].reply = "none"
  BY <1>1 DEF RequestTrue, ReplyTrue, Issuing
<1>3. doc'[req[r].cred] = doc[req[r].cred] /\ doc'[Refresh(r)] = doc[Refresh(r)]
  BY <1>1, DocFacts
<1>4. StoredTrue(r)'
  <2>1. ~Exists(Refresh(r))
    BY <1>1 DEF RequestTrue, StoredTrue, HasTokens, Unstored, Refresh
  <2> QED
    BY <1>3, <2>1 DEF StoredTrue, Proceeds, Unstored, Revoking, Exists
<1>5. EntryTrue(r)'
  BY <1>1 DEF RequestTrue, EntryTrue, Proceeds, Issuing, IsCode
<1>6. SpentTrue(r)'
  BY <1>1, <1>2, <1>3 DEF RequestTrue, SpentTrue, Consumed, Proceeds, At, IsCode, Usable, Live, Exists
<1>7. IntactTrue(r)'
  BY <1>2 DEF IntactTrue, Proceeds
<1> QED
  BY <1>4, <1>5, <1>6, <1>7, ProceedsInv DEF At, Issuing

LEMMA SetsAccessToken ==
  ASSUME IdpInv, NEW r \in Requests, SetAccessToken(r)
  PROVE  IdpInv' /\ Moves(r)
<1>1. TypeOK /\ req[r].pc = "set_access" /\ UNCHANGED <<session, auth, lapsed, faults>>
  BY RequestFacts DEF SetAccessToken, At
<1>2. Writes(r) /\ \A d \in Docs : d # Access(r) => doc'[d] = doc[d]
  BY <1>1, AccessWrites DEF SetAccessToken
<1>3. CASE req[r].grant \in DpopBound
  BY <1>1, <1>2, <1>3, GotoProceeds, AccessInv DEF SetAccessToken, Issuing
<1>4. CASE req[r].grant \notin DpopBound
  BY <1>1, <1>2, <1>4, GotoProceeds, AccessInv DEF SetAccessToken, Issuing
<1> QED
  BY <1>3, <1>4

LEMMA GetsAccessToken ==
  ASSUME IdpInv, NEW r \in Requests, GetAccessToken(r)
  PROVE  IdpInv' /\ Moves(r)
<1>1. TypeOK /\ req[r].pc = "get_access" /\ doc' = doc /\ UNCHANGED <<session, auth, lapsed, faults>>
  BY RequestFacts DEF GetAccessToken, At
<1>2. Writes(r)
  BY <1>1, NothingWritten
<1>3. CASE Live(<<"access", r>>)
  BY <1>1, <1>2, <1>3, GotoProceeds, AccessInv DEF GetAccessToken, Issuing
<1>4. CASE ~Live(<<"access", r>>)
  BY <1>1, <1>2, <1>4, GotoProceeds, AccessInv DEF GetAccessToken, Issuing
<1> QED
  BY <1>3, <1>4

LEMMA PutsAccessToken ==
  ASSUME IdpInv, NEW r \in Requests, PutAccessToken(r)
  PROVE  IdpInv' /\ Moves(r)
<1>1. TypeOK /\ req[r].pc = "put_access" /\ UNCHANGED <<session, auth, lapsed, faults>>
  BY RequestFacts DEF PutAccessToken, At
<1>2. Writes(r) /\ \A d \in Docs : d # Access(r) => doc'[d] = doc[d]
  BY <1>1, AccessWrites DEF PutAccessToken
<1>3. Proceeds(r, "set_refresh", req[r].entry)
  BY <1>1, GotoProceeds DEF PutAccessToken, Issuing
<1> QED
  BY <1>1, <1>2, <1>3, AccessInv

LEMMA SetsRefreshToken ==
  ASSUME IdpInv, NEW r \in Requests, SetRefreshToken(r)
  PROVE  IdpInv' /\ Moves(r)
<1> DEFINE pc == IF IsCode(r) THEN "answer" ELSE "old_get"
           origin == IF IsCode(r) THEN r ELSE req[r].entry.origin
           bound == Online(req[r].grant) /\ req[r].entry.bound
           n == NewDoc(req[r].grant, bound, origin)
<1>1. /\ RequestTrue(r) /\ TypeOK /\ req[r].pc = "set_refresh" /\ Begun(r)
      /\ UNCHANGED <<session, auth, lapsed, faults>>
      /\ req[r].cred \in Docs /\ req[r].cred # Refresh(r) /\ req[r].grant \in Grants
  BY RequestFacts DEF SetRefreshToken, At, Begun, Underway
<1>2. req[r].reply = "none"
  BY <1>1 DEF RequestTrue, ReplyTrue, Issuing
<1>3. Proceeds(r, pc, req[r].entry)
  <2>1. Goto(r, pc) /\ pc \in Issuing
    BY DEF SetRefreshToken, Issuing
  <2> QED
    BY <1>1, <2>1, GotoProceeds
<1>4. origin = req[r].root /\ req[r].root \in Requests /\ bound \in BOOLEAN
      /\ (Online(req[r].grant) => bound)
  <2>1. req[r].root \in Requests
    BY <1>1 DEF RequestTrue, RootTrue
  <2>2. IsCode(r) => req[r].root = r
    BY <1>1 DEF RequestTrue, CredTrue, RootOf, IsCode
  <2>3. /\ req[r].entry \in Document
        /\ Online(req[r].grant) => req[r].entry.bound
        /\ ~IsCode(r) => req[r].entry.origin = req[r].root
    BY <1>1 DEF RequestTrue, EntryTrue, Issuing
  <2> QED
    BY <2>1, <2>2, <2>3 DEF Document
<1>5. /\ n \in Document /\ n.grant = req[r].grant /\ n.bound = bound /\ n.origin = req[r].root
      /\ ~n.used /\ ~n.revoked
  <2> HIDE DEF origin, bound
  <2> QED
    BY <1>1, <1>4, NewDocType
<1>6. n # NoDoc
  BY <1>5, NoDocument
<1>7. doc' = [doc EXCEPT ![Refresh(r)] = n]
  BY DEF SetRefreshToken, Refresh
<1> HIDE DEF n, origin, bound
<1>8. Refresh(r) \in Docs /\ Refresh(r) \notin Codes /\ Refresh(r)[2] = r /\ Refresh(r) \in RefreshTokens /\ Owner(Refresh(r)) = req[r].grant
  BY DocFacts DEF Owner
<1>9. \A d \in Docs : doc'[d] = IF d = Refresh(r) THEN n ELSE doc[d]
  BY <1>1, <1>7 DEF TypeOK
<1>10. doc' \in [Docs -> Document \union {NoDoc}]
  BY <1>1, <1>5, <1>7, <1>8 DEF TypeOK
<1>11. Writes(r)
  <2>1. req[r].pc \notin Revoking \union {"session"}
    BY <1>1 DEF Revoking
  <2> QED
    BY <1>1, <1>4, <1>5, <1>8, <1>9, <1>10, <2>1 DEF Writes
<1>12. StoredTrue(r)' /\ EntryTrue(r)'
  BY <1>1, <1>3 DEF RequestTrue, StoredTrue, EntryTrue, Proceeds, Unstored, Revoking, Issuing, IsCode
<1>13. SpentTrue(r)'
  <2>1. doc'[req[r].cred] = doc[req[r].cred]
    BY <1>1, <1>9
  <2> QED
    BY <1>1, <1>2, <1>3, <2>1 DEF RequestTrue, SpentTrue, Consumed, Proceeds, At, IsCode, Usable, Live, Exists
<1>14. IntactTrue(r)'
  BY <1>5, <1>6, <1>8, <1>9 DEF IntactTrue, Exists
<1>15. pc \in Issuing /\ req[r].pc \in Issuing \ {"answer"} /\ ~At(r, "session")
  BY <1>1 DEF Issuing, At
<1> QED
  BY <1>1, <1>3, <1>11, <1>12, <1>13, <1>14, <1>15, ProceedsInv

LEMMA ConsumesRefreshTokenGet ==
  ASSUME IdpInv, NEW r \in Requests, ConsumeRefreshTokenGet(r)
  PROVE  IdpInv' /\ Moves(r)
<1>1. /\ RequestTrue(r) /\ TypeOK /\ req[r].pc = "old_get" /\ doc' = doc /\ ~IsCode(r) /\ Begun(r)
      /\ UNCHANGED <<session, auth, lapsed, faults>>
      /\ req[r].reply = "none"
  BY RequestFacts DEF ConsumeRefreshTokenGet, ConsumeGet, RequestTrue, EntryTrue, ReplyTrue, At, Issuing, Begun
<1>2. Writes(r)
  BY <1>1, NothingWritten
<1>3. /\ req[r].cred \in Docs /\ Owner(req[r].cred) = req[r].grant
      /\ req[r].cred \in RefreshTokens /\ req[r].cred[2] \in Requests
      /\ req[r].cred = Refresh(req[r].cred[2])
      /\ req[r].root = req[req[r].cred[2]].root
  BY <1>1, RequestFacts, DocKinds DEF IsCode, RequestTrue, CredTrue, RootOf
<1>4. ASSUME NEW pc \in {"old_put", "answer"}, NEW e, Proceeds(r, pc, e)
      PROVE  StoredTrue(r)' /\ IntactTrue(r)'
  <2>1. StoredTrue(r)'
    BY <1>4 DEF StoredTrue, Proceeds, Unstored, Revoking
  <2>2. \A q \in Requests : Answered(q) => Answered(q)' /\ req'[q].cred = req[q].cred
    BY <1>1, <1>4 DEF Answered, Proceeds, At
  <2>3. Untouched(req[r].grant)' => Untouched(req[r].grant)
    <3>1. \A q \in Requests : (Begun(q)' <=> Begun(q)) /\ req'[q].grant = req[q].grant /\ req'[q].round = req[q].round
      BY <1>1, <1>4 DEF Begun, Proceeds
    <3> QED
      BY <3>1 DEF Untouched, Presented
  <2>4. IntactTrue(r)'
    BY <1>1, <1>4, <2>2, <2>3 DEF RequestTrue, IntactTrue, Exists, Proceeds, Refresh
  <2> QED
    BY <2>1, <2>4
<1>5. CASE Live(req[r].cred)
  <2>1. doc[req[r].cred] \in Document /\ doc[req[r].cred].grant = req[r].grant
    BY <1>3, <1>5, OwnersTrue DEF Live
  <2>2. Proceeds(r, "old_put", doc[req[r].cred])
    BY <1>1, <1>5, <2>1, GetProceeds DEF ConsumeRefreshTokenGet, ConsumeGet, Issuing
  <2>3. /\ Online(req[r].grant) => doc[req[r].cred].bound
        /\ doc[req[r].cred].origin = req[r].root
    <3> DEFINE p == req[r].cred[2]
    <3>1. TokensTrue(p)
      BY <1>3 DEF IdpInv, RequestTrue
    <3>2. doc[Refresh(p)].grant = req[p].grant
      BY <1>3, <1>5, <3>1 DEF TokensTrue, Live
    <3> QED
      BY <1>3, <1>5, <2>1, <3>1, <3>2 DEF TokensTrue, Live
  <2>4. EntryTrue(r)'
    BY <1>1, <2>1, <2>2, <2>3 DEF EntryTrue, Proceeds, IsCode
  <2>5. SpentTrue(r)'
    BY <1>1, <2>2 DEF SpentTrue, Consumed, Proceeds, At
  <2> QED
    BY <1>1, <1>2, <1>4, <2>2, <2>4, <2>5, ProceedsInv DEF At, Issuing
<1>6. CASE ~Live(req[r].cred)
  <2>1. Proceeds(r, "answer", req[r].entry)
    BY <1>1, <1>6, GotoProceeds DEF ConsumeRefreshTokenGet, ConsumeGet, Issuing
  <2>2. EntryTrue(r)'
    BY <1>1, <2>1 DEF RequestTrue, EntryTrue, Proceeds, Issuing, IsCode
  <2>3. SpentTrue(r)'
    BY <1>1, <1>6, <2>1 DEF SpentTrue, Proceeds, Usable, Live, Exists
  <2> QED
    BY <1>1, <1>2, <1>4, <2>1, <2>2, <2>3, ProceedsInv DEF At, Issuing
<1> QED
  BY <1>5, <1>6

LEMMA ConsumesRefreshTokenPut ==
  ASSUME IdpInv, NEW r \in Requests, ConsumeRefreshTokenPut(r)
  PROVE  IdpInv' /\ Moves(r)
<1>1. /\ RequestTrue(r) /\ TypeOK /\ req[r].pc = "old_put" /\ ~IsCode(r) /\ Begun(r)
      /\ UNCHANGED <<session, auth, lapsed, faults>>
      /\ Proceeds(r, "answer", req[r].entry)
      /\ req[r].reply = "none"
  BY RequestFacts, GotoProceeds
     DEF ConsumeRefreshTokenPut, ConsumePut, RequestTrue, EntryTrue, ReplyTrue, At, Issuing, Begun
<1>2. Answered(r)'
  BY <1>1 DEF Answered, At, Proceeds
<1>3. /\ Writes(r)
      /\ doc'[req[r].cred].used
      /\ \A d \in Docs : d # req[r].cred => doc'[d] = doc[d]
  BY <1>1, <1>2, PutWrites DEF ConsumeRefreshTokenPut, ConsumePut, Issuing
<1>4. EntryTrue(r)'
  BY <1>1 DEF RequestTrue, EntryTrue, Proceeds, Issuing, IsCode
<1>5. StoredTrue(r)'
  BY <1>1 DEF StoredTrue, Proceeds, Unstored, Revoking
<1>6. SpentTrue(r)'
  BY <1>1, <1>3 DEF SpentTrue, Proceeds, Usable
<1>7. IntactTrue(r)'
  <2>1. Refresh(r) \in Docs /\ doc'[Refresh(r)] = doc[Refresh(r)]
    BY <1>1, <1>3, RequestFacts, DocFacts DEF Underway
  <2>2. \A q \in Requests : (Answered(q) => Answered(q)') /\ req'[q].cred = req[q].cred
    BY <1>1 DEF Answered, Proceeds, At
  <2>3. Untouched(req[r].grant)' => Untouched(req[r].grant)
    <3>1. \A q \in Requests : (Begun(q)' <=> Begun(q)) /\ req'[q].grant = req[q].grant /\ req'[q].round = req[q].round
      BY <1>1 DEF Begun, Proceeds
    <3> QED
      BY <3>1 DEF Untouched, Presented
  <2> QED
    BY <1>1, <2>1, <2>2, <2>3 DEF RequestTrue, IntactTrue, Exists, Proceeds, Refresh
<1> QED
  BY <1>1, <1>3, <1>4, <1>5, <1>6, <1>7, ProceedsInv DEF At, Issuing

LEMMA TokenSteps ==
  ASSUME IdpInv, NEW r \in Requests, TokenStep(r)
  PROVE  IdpInv' /\ Moves(r)
<1>1. CASE Answer(r)
  BY <1>1, RequestFacts, EndsCloses, AnswersInv DEF Answer, Replies, TypeOK
<1> QED
  BY <1>1, ValidatesSession, ConsumesCodeGet, ConsumesCodePut, ReadsCodeAgain, SetsAccessToken,
     GetsAccessToken, PutsAccessToken, SetsRefreshToken, ConsumesRefreshTokenGet, ConsumesRefreshTokenPut
     DEF TokenStep

LEMMA FailsInv ==
  ASSUME IdpInv, NEW r \in Requests, Fails(r)
  PROVE  IdpInv' /\ Moves(r)
<1>1. TypeOK /\ MaxFaults \in Nat /\ faults' \in 0 .. MaxFaults
  BY RequestFacts, ConstantsAssumption DEF Fails, TypeOK
<1>2. CASE At(r, "answer")
  BY <1>1, <1>2, EndsCloses, AnswersInv DEF Fails, Replies
<1>3. CASE ~At(r, "answer")
  BY <1>1, <1>3, EndsCloses, ClosesInv DEF Fails, Replies
<1> QED
  BY <1>2, <1>3

-----------------------------------------------------------------------------
(* The revocation.                                                         *)

LEMMA DeletesRefreshToken ==
  ASSUME IdpInv, NEW r \in Requests, DeleteRefreshToken(r)
  PROVE  IdpInv' /\ Moves(r)
<1>1. /\ RequestTrue(r) /\ TypeOK /\ req[r] \in Request /\ req[r].pc = "delete" /\ Begun(r)
      /\ UNCHANGED <<session, auth, lapsed, faults>>
      /\ doc' = [doc EXCEPT ![req[r].cred] = NoDoc]
  BY RequestFacts DEF DeleteRefreshToken, At, Begun
<1>2. /\ req[r].cred \in Docs /\ Owner(req[r].cred) = req[r].grant
      /\ req[r].cred # Refresh(r) /\ req[r].cred # Access(r)
      /\ (req[r].cred \notin Codes => Begun(req[r].cred[2]))
  BY <1>1, RequestFacts DEF Underway
<1> DEFINE n == [req[r] EXCEPT !.pc = "query", !.reply = "revoked", !.round = 2]
<1>3. /\ n \in Request /\ n.pc = "query" /\ n.reply = "revoked" /\ n.round = 2
      /\ n.cred = req[r].cred /\ n.grant = req[r].grant /\ n.root = req[r].root
      /\ n.after = req[r].after /\ n.late = req[r].late /\ n.alone = req[r].alone
      /\ n.found = req[r].found
  BY <1>1 DEF Request, Revoking, Replies
<1>4. req' = [req EXCEPT ![r] = n]
  BY <1>1 DEF DeleteRefreshToken, TypeOK
<1> HIDE DEF n
<1>5. req' \in [Requests -> Request] /\ req'[r] = n /\ \A q \in Requests \ {r} : req'[q] = req[q]
  BY <1>1, <1>3, <1>4 DEF TypeOK
<1>6. \A d \in Docs : doc'[d] = IF d = req[r].cred THEN NoDoc ELSE doc[d]
  BY <1>1 DEF TypeOK
<1>7. Moves(r)
  BY <1>1, <1>3, <1>5 DEF Moves, Underway, At, Revoking, TypeOK
<1>8. Writes(r)
  <2>1. doc' \in [Docs -> Document \union {NoDoc}]
    BY <1>1 DEF TypeOK
  <2>2. \A d \in Docs : doc'[d] # doc[d] => d = req[r].cred /\ doc'[d] = NoDoc /\ ~Usable(d)'
    BY <1>6 DEF Usable, Live, Exists
  <2> QED
    BY <1>2, <1>3, <1>5, <2>1, <2>2 DEF Writes
<1>9. StoredTrue(r)'
  <2>1. ~HasTokens(r)
    BY <1>1 DEF RequestTrue, StoredTrue, Unstored, Revoking
  <2>2. doc'[Access(r)] = doc[Access(r)] /\ doc'[Refresh(r)] = doc[Refresh(r)]
    BY <1>2, <1>6, DocFacts
  <2> QED
    BY <1>3, <1>5, <2>1, <2>2 DEF StoredTrue, HasTokens, Exists, Access, Refresh
<1>10. FoundTrue(r)'
  <2>1. FoundTrue(r) /\ req[r].found \subseteq Docs
    BY <1>1 DEF RequestTrue, Request
  <2>2. \A d \in req[r].found : Owner(d)' = req'[r].grant /\ (d \notin Codes => Begun(d[2])')
    BY <1>3, <1>5, <1>7, <2>1, MovesKeep, DocKinds DEF FoundTrue
  <2> QED
    BY <1>3, <1>5, <2>2 DEF FoundTrue, At
<1>11. ReplyTrue(r)' /\ EntryTrue(r)' /\ SpentTrue(r)' /\ IntactTrue(r)' /\ ~Final(r)'
  BY <1>3, <1>5 DEF ReplyTrue, EntryTrue, SpentTrue, IntactTrue, Final, Consumed, At, Issuing
<1> QED
  BY <1>7, <1>8, <1>9, <1>10, <1>11, MovesInv DEF SelfTrue

LEMMA QueriesGrant ==
  ASSUME IdpInv, NEW r \in Requests, QueryGrant(r)
  PROVE  IdpInv' /\ Moves(r)
<1>1. /\ RequestTrue(r) /\ TypeOK /\ req[r] \in Request /\ req[r].pc = "query"
      /\ UNCHANGED <<session, auth, lapsed, faults>> /\ doc' = doc
  BY RequestFacts DEF QueryGrant, At
<1> DEFINE n == [req[r] EXCEPT !.pc = "update", !.found = Family(req[r].grant)]
<1>2. Family(req[r].grant) \subseteq Docs
  BY DEF Family
<1>3. /\ n \in Request /\ n.pc = "update" /\ n.reply = req[r].reply /\ n.round = req[r].round
      /\ n.cred = req[r].cred /\ n.grant = req[r].grant /\ n.root = req[r].root
      /\ n.after = req[r].after /\ n.late = req[r].late /\ n.alone = req[r].alone
      /\ n.found = Family(req[r].grant)
  BY <1>1, <1>2 DEF Request, Revoking
<1>4. req' = [req EXCEPT ![r] = n]
  BY <1>1 DEF QueryGrant, TypeOK
<1> HIDE DEF n
<1>5. req' \in [Requests -> Request] /\ req'[r] = n /\ \A q \in Requests \ {r} : req'[q] = req[q]
  BY <1>1, <1>3, <1>4 DEF TypeOK
<1>6. Moves(r)
  BY <1>1, <1>3, <1>5 DEF Moves, Underway, At, Revoking, TypeOK, RequestTrue, ReplyTrue
<1>7. Writes(r)
  BY <1>1, NothingWritten
<1>8. StoredTrue(r)'
  BY <1>1, <1>3, <1>5 DEF RequestTrue, StoredTrue, HasTokens, Exists, Unstored, Revoking
<1>9. FoundTrue(r)'
  <2>1. \A d \in Family(req[r].grant) : d \in Docs /\ Owner(d) = req[r].grant /\ (d \notin Codes => Begun(d[2]))
    BY OwnersTrue DEF Family
  <2>2. \A d \in Family(req[r].grant) : Owner(d)' = req[r].grant /\ (d \notin Codes => Begun(d[2])')
    BY <1>6, <2>1, MovesKeep, DocKinds
  <2>3. Family(req[r].grant)' = Family(req[r].grant)
    BY <1>1, <1>3, <1>5 DEF Family, Exists
  <2> QED
    BY <1>3, <1>5, <2>2, <2>3 DEF FoundTrue
<1>10. ReplyTrue(r)' /\ EntryTrue(r)' /\ SpentTrue(r)' /\ IntactTrue(r)' /\ ~Final(r)'
  BY <1>1, <1>3, <1>5
     DEF RequestTrue, ReplyTrue, EntryTrue, SpentTrue, IntactTrue, Final, Consumed, At, Issuing
<1> QED
  BY <1>6, <1>7, <1>8, <1>9, <1>10, MovesInv DEF SelfTrue

\* The batch that does not fail.
Revokes(r) ==
  /\ \A d \in req[r].found : Exists(d)
  /\ doc' = [d \in Docs |->
       IF d \in req[r].found THEN [doc[d] EXCEPT !.revoked = TRUE] ELSE doc[d]]

LEMMA RevokesWrites ==
  ASSUME IdpInv, NEW r \in Requests, req[r].pc = "update", Revokes(r), req'[r].round = 2
  PROVE  /\ Writes(r)
         /\ \A d \in Docs : Exists(d)' => Exists(d) /\ doc'[d].grant = doc[d].grant
         /\ \A d \in req[r].found : doc'[d].revoked
<1>1. RequestTrue(r) /\ TypeOK /\ req[r].found \subseteq Docs
  BY RequestFacts DEF Request
<1>2. \A d \in Docs \ req[r].found : doc'[d] = doc[d]
  BY DEF Revokes
<1>3. ASSUME NEW d \in req[r].found
      PROVE  /\ d \in Docs /\ Exists(d) /\ doc[d] \in Document /\ doc'[d] \in Document
             /\ Owner(d) = req[r].grant /\ (d \notin Codes => Begun(d[2]))
             /\ doc[d].grant = req[r].grant
             /\ doc'[d].grant = doc[d].grant /\ doc'[d].bound = doc[d].bound
             /\ doc'[d].origin = doc[d].origin /\ doc'[d].revoked
  <2>1. d \in Docs /\ Exists(d) /\ doc'[d] = [doc[d] EXCEPT !.revoked = TRUE]
    BY <1>1, <1>3 DEF Revokes
  <2>2. doc[d] \in Document /\ doc[d].grant = Owner(d)
    BY <2>1, OwnersTrue
  <2>3. Owner(d) = req[r].grant /\ (d \notin Codes => Begun(d[2]))
    BY <1>1, <1>3 DEF RequestTrue, FoundTrue
  <2> QED
    BY <2>1, <2>2, <2>3 DEF Document
<1>4. doc' \in [Docs -> Document \union {NoDoc}]
  <2>1. doc' = [d \in Docs |-> doc'[d]]
    BY DEF Revokes
  <2>2. \A d \in Docs : doc'[d] \in Document \union {NoDoc}
    BY <1>1, <1>2, <1>3 DEF TypeOK
  <2> QED
    BY <2>1, <2>2
<1>5. ASSUME NEW d \in req[r].found
      PROVE  /\ d \in Codes => doc'[d].bound /\ doc'[d].origin = NoOrigin
             /\ d \in RefreshTokens =>
                  /\ doc'[d].origin = req[d[2]].root
                  /\ Online(req[r].grant) => doc'[d].bound
             /\ ~Usable(d)'
  <2>1. ASSUME d \in Codes PROVE doc'[d].bound /\ doc'[d].origin = NoOrigin
    <3>1. d[2] \in Grants /\ d = Code(d[2]) /\ CodeTrue(d[2])
      BY <2>1, DocKinds DEF IdpInv
    <3> QED
      BY <1>3, <3>1 DEF CodeTrue
  <2>2. ASSUME d \in RefreshTokens
        PROVE  doc'[d].origin = req[d[2]].root /\ (Online(req[r].grant) => doc'[d].bound)
    <3>1. d[2] \in Requests /\ d = Refresh(d[2]) /\ TokensTrue(d[2])
      BY <2>2, DocKinds DEF IdpInv, RequestTrue
    <3>2. req[d[2]].grant = req[r].grant
      BY <1>3, <3>1 DEF TokensTrue
    <3> QED
      BY <1>3, <3>1, <3>2 DEF TokensTrue
  <2>3. ~Usable(d)'
    BY <1>3 DEF Usable, Live
  <2> QED
    BY <2>1, <2>2, <2>3
<1>6. Writes(r)
  <2>1. \A d \in Docs : doc'[d] # doc[d] => d \in req[r].found
    BY <1>2
  <2>2. \A d \in req[r].found : doc[d] # NoDoc
    BY <1>3 DEF Exists
  <2> QED
    BY <1>3, <1>4, <1>5, <2>1, <2>2 DEF Writes
<1> QED
  BY <1>2, <1>3, <1>6 DEF Exists

LEMMA UpdatesGrant ==
  ASSUME IdpInv, NEW r \in Requests, UpdateGrant(r)
  PROVE  IdpInv' /\ Moves(r)
<1>1. /\ RequestTrue(r) /\ TypeOK /\ req[r] \in Request /\ req[r].pc = "update"
      /\ UNCHANGED <<session, auth, lapsed, faults>>
  BY RequestFacts DEF UpdateGrant, At
<1>2. CASE ~ \A d \in req[r].found : Exists(d)
  <2>1. Ends(r, "error") /\ doc' = doc
    BY <1>2 DEF UpdateGrant
  <2> QED
    BY <1>1, <2>1, EndsCloses, ClosesInv DEF Replies, Underway, At, TypeOK
<1>3. CASE (\A d \in req[r].found : Exists(d)) /\ req[r].round = 1
  <2> DEFINE n == [req[r] EXCEPT !.pc = "query", !.round = 2, !.found = {}]
  <2>1. /\ n \in Request /\ n.pc = "query" /\ n.reply = req[r].reply /\ n.round = 2
        /\ n.cred = req[r].cred /\ n.grant = req[r].grant /\ n.root = req[r].root
        /\ n.after = req[r].after /\ n.late = req[r].late /\ n.alone = req[r].alone
        /\ n.found = {}
    BY <1>1 DEF Request, Revoking
  <2>2. req' = [req EXCEPT ![r] = n]
    BY <1>1, <1>3 DEF UpdateGrant, TypeOK
  <2> HIDE DEF n
  <2>3. req' \in [Requests -> Request] /\ req'[r] = n /\ \A q \in Requests \ {r} : req'[q] = req[q]
    BY <1>1, <2>1, <2>2 DEF TypeOK
  <2>4. Moves(r)
    BY <1>1, <2>1, <2>3 DEF Moves, Underway, At, Revoking, TypeOK, RequestTrue, ReplyTrue
  <2>5. Revokes(r)
    BY <1>3 DEF UpdateGrant, Revokes
  <2>6. Writes(r) /\ \A d \in Docs : Exists(d)' => Exists(d)
    BY <1>1, <2>1, <2>3, <2>5, RevokesWrites
  <2>7. StoredTrue(r)'
    BY <1>1, <2>1, <2>3, <2>6, DocFacts
       DEF RequestTrue, StoredTrue, HasTokens, Unstored, Revoking, Access, Refresh
  <2>8. ReplyTrue(r)' /\ EntryTrue(r)' /\ SpentTrue(r)' /\ IntactTrue(r)' /\ FoundTrue(r)' /\ ~Final(r)'
    BY <1>1, <2>1, <2>3
       DEF RequestTrue, ReplyTrue, EntryTrue, SpentTrue, IntactTrue, FoundTrue, Final, Consumed, At, Issuing
  <2> QED
    BY <2>4, <2>6, <2>7, <2>8, MovesInv DEF SelfTrue
<1>4. CASE (\A d \in req[r].found : Exists(d)) /\ req[r].round # 1
  <2>1. req[r].round = 2 /\ req[r].reply \in {"reuse", "revoked"} /\ req[r].reply \in Replies
    BY <1>1, <1>4 DEF RequestTrue, ReplyTrue, Request
  <2>2. Closes(r, req[r].reply)
    BY <1>1, <1>4, <2>1, EndsCloses DEF UpdateGrant
  <2>3. Moves(r)
    BY <1>1, <2>1, <2>2 DEF Moves, Closes, Underway, At, Revoking, TypeOK
  <2>4. Revokes(r)
    BY <1>4 DEF UpdateGrant, Revokes
  <2>5. /\ Writes(r)
        /\ \A d \in Docs : Exists(d)' => Exists(d) /\ doc'[d].grant = doc[d].grant
        /\ \A d \in req[r].found : doc'[d].revoked
    BY <1>1, <2>1, <2>2, <2>4, RevokesWrites DEF Closes
  <2>6. StoredTrue(r)' /\ ReplyTrue(r)' /\ EntryTrue(r)' /\ SpentTrue(r)' /\ IntactTrue(r)' /\ FoundTrue(r)'
    BY <2>1, <2>2
       DEF Closes, StoredTrue, ReplyTrue, EntryTrue, SpentTrue, IntactTrue, FoundTrue, Consumed, At,
           Unstored, Issuing, Revoking
  <2>7. ASSUME req'[r].alone PROVE Closed(req[r].grant)'
    <3>1. req[r].alone /\ req'[r].grant = req[r].grant
      BY <2>2, <2>7 DEF Closes
    <3>2. \A q \in Presented(req[r].grant) \ {r} : ~Underway(q)
      BY <1>1, <3>1 DEF RequestTrue, QuietTrue, Underway
    <3>3. \A q \in Presented(req[r].grant) : ~Underway(q)'
      BY <2>2, <2>3, <3>2, MovesKeep DEF Presented, Underway, Closes
    <3>4. req[r].found = Family(req[r].grant)
      BY <1>1, <3>1 DEF RequestTrue, FoundTrue, At
    <3>5. \A d \in Docs : Exists(d)' /\ doc'[d].grant = req[r].grant => ~Live(d)'
      BY <2>5, <3>4 DEF Family, Live
    <3>6. Presented(req[r].grant)' = Presented(req[r].grant)
      BY <2>3, <3>1, MovesKeep
    <3> QED
      BY <3>1, <3>3, <3>5, <3>6 DEF Closed
  <2> QED
    BY <2>3, <2>5, <2>6, <2>7, MovesInv DEF SelfTrue
<1> QED
  BY <1>2, <1>3, <1>4

-----------------------------------------------------------------------------
(* Presenting a credential.                                                *)

LEMMA KnownFacts ==
  ASSUME IdpInv, NEW d \in Credentials, Known(d)
  PROVE  /\ d \in Docs /\ GrantOf(d) \in Grants /\ auth[GrantOf(d)] = "done"
         /\ Owner(d) = GrantOf(d)
         /\ d \in RefreshTokens =>
              /\ d[2] \in Requests /\ d = Refresh(d[2]) /\ d \notin Codes
              /\ req[d[2]].reply = "tokens" /\ At(d[2], "over") /\ Begun(d[2])
              /\ req[d[2]].root \in Requests
              /\ Begun(req[d[2]].root) /\ IsCode(req[d[2]].root)
              /\ req[req[d[2]].root].grant = GrantOf(d)
              /\ req[req[d[2]].root].reply = "tokens"
              /\ req[d[2]].grant = GrantOf(d)
         /\ Exists(d) =>
              /\ doc[d] \in Document
              /\ doc[d].grant = GrantOf(d)
              /\ d \in Codes \/ Online(GrantOf(d)) => doc[d].bound
              /\ doc[d].origin = IF d \in Codes THEN NoOrigin ELSE req[d[2]].root
<1>1. d \in Docs
  BY DocKinds
<1>2. Exists(d) => doc[d] \in Document
  BY <1>1, DocType DEF IdpInv
<1>3. CASE d \in Codes
  <2>1. d[2] \in Grants /\ d = Code(d[2]) /\ d \notin RefreshTokens /\ GrantOf(d) = d[2] /\ Owner(d) = d[2]
    BY <1>3, DocKinds DEF GrantOf, Owner
  <2>2. CodeTrue(d[2]) /\ Exists(d)
    BY <2>1 DEF IdpInv, Known
  <2> QED
    BY <1>1, <1>2, <1>3, <2>1, <2>2 DEF CodeTrue
<1>4. CASE d \notin Codes
  <2> DEFINE p == d[2]
  <2>1. /\ d \in RefreshTokens /\ p \in Requests /\ d = Refresh(p) /\ GrantOf(d) = req[p].grant
        /\ Owner(d) = req[p].grant /\ req[p].reply = "tokens"
    BY <1>4, DocKinds DEF GrantOf, Owner, Known
  <2>2. RequestTrue(p)
    BY <2>1 DEF IdpInv
  <2>3. At(p, "over") /\ Begun(p)
    BY <2>1, <2>2 DEF RequestTrue, ReplyTrue, Begun, At
  <2>4. req[p].grant \in Grants /\ auth[req[p].grant] = "done"
    BY <2>2, <2>3 DEF RequestTrue, CredTrue
  <2> DEFINE o == req[p].root
  <2>5. o \in Requests /\ Begun(o) /\ IsCode(o) /\ req[o].grant = req[p].grant
    BY <2>2, <2>3 DEF RequestTrue, RootTrue
  <2>6. req[o].reply = "tokens"
    <3>1. CASE req[p].cred \in Codes
      <4>1. o = p
        BY <2>2, <2>3, <3>1 DEF RequestTrue, CredTrue, RootOf
      <4> QED
        BY <2>1, <4>1
    <3>2. CASE req[p].cred \notin Codes
      BY <2>2, <2>3, <3>2, DocKinds DEF RequestTrue, CredTrue, RootTrue
    <3> QED
      BY <3>1, <3>2
  <2>7. TokensTrue(p)
    BY <2>2 DEF RequestTrue
  <2> HIDE DEF o
  <2>8. Exists(d) => /\ doc[d].grant = req[p].grant
                     /\ doc[d].origin = o
                     /\ Online(req[p].grant) => doc[d].bound
    BY <2>1, <2>7 DEF TokensTrue, o
  <2> QED
    BY <1>1, <1>2, <1>4, <2>1, <2>3, <2>4, <2>5, <2>6, <2>8 DEF o
<1> QED
  BY <1>3, <1>4

\* What Begins makes of the request, and of the others.
BeginsAs(r, d, pc, reply) ==
  /\ req' \in [Requests -> Request]
  /\ req'[r].pc = pc /\ req'[r].cred = d /\ req'[r].grant = GrantOf(d) /\ req'[r].reply = reply
  /\ req'[r].entry = (IF pc = "over" THEN NoDoc ELSE doc[d])
  /\ req'[r].round = 1 /\ req'[r].found = {}
  /\ req'[r].after = {p \in Requests : At(p, "over")}
  /\ req'[r].root = RootOf(r, d)
  /\ req'[r].late = EndedFor(d)
  /\ req'[r].alone => \A q \in Requests : Underway(q) => req[q].grant # GrantOf(d)
  /\ \A q \in Requests \ {r} :
       /\ req'[q].pc = req[q].pc /\ req'[q].cred = req[q].cred /\ req'[q].grant = req[q].grant
       /\ req'[q].entry = req[q].entry /\ req'[q].round = req[q].round /\ req'[q].found = req[q].found
       /\ req'[q].reply = req[q].reply /\ req'[q].after = req[q].after /\ req'[q].root = req[q].root
       /\ req'[q].late = req[q].late
       /\ req'[q].alone => req[q].alone
       /\ req'[q].alone /\ Underway(q) => req[q].grant # GrantOf(d)
       /\ ~Underway(q) => req'[q] = req[q]

LEMMA BeginsView ==
  ASSUME IdpInv, NEW r \in Requests, NEW d \in Credentials, Known(d),
         NEW pc \in Issuing \union Revoking \union {"over"}, NEW reply \in Replies,
         Begins(r, d, pc, reply), pc # "over" => Exists(d)
  PROVE  BeginsAs(r, d, pc, reply)
<1> DEFINE g == GrantOf(d)
           other == {q \in Requests : Underway(q) /\ req[q].grant = g}
           e == IF pc = "over" THEN NoDoc ELSE doc[d]
           after == {p \in Requests : At(p, "over")}
           n == [Idle EXCEPT !.pc = pc, !.cred = d, !.grant = g, !.reply = reply,
                             !.entry = e, !.after = after,
                             !.root = RootOf(r, d), !.late = EndedFor(d),
                             !.alone = other = {}]
           new == [q \in Requests |-> IF q = r THEN n
                     ELSE IF q \in other THEN [req[q] EXCEPT !.alone = FALSE] ELSE req[q]]
<1>1. req' = new
  BY DEF Begins
<1>2. g \in Grants /\ e \in Document \union {NoDoc} /\ RootOf(r, d) \in Requests /\ EndedFor(d) \in BOOLEAN
  BY KnownFacts, DocKinds DEF RootOf, EndedFor
<1>3. (other = {}) \in BOOLEAN /\ after \subseteq Requests
  OBVIOUS
<1>4. /\ n \in Request /\ n.pc = pc /\ n.cred = d /\ n.grant = g /\ n.reply = reply /\ n.entry = e
      /\ n.round = 1 /\ n.found = {} /\ n.after = after /\ n.root = RootOf(r, d)
      /\ n.late = EndedFor(d) /\ n.alone = (other = {})
  <2> HIDE DEF g, e, after, other
  <2> QED
    BY <1>2, <1>3 DEF Idle, Request
<1> HIDE DEF n
<1>5. \A q \in Requests : req[q] \in Request
  BY DEF IdpInv, TypeOK
<1>6. \A q \in Requests \ {r} :
       /\ new[q] \in Request
       /\ new[q].pc = req[q].pc /\ new[q].cred = req[q].cred /\ new[q].grant = req[q].grant
       /\ new[q].entry = req[q].entry /\ new[q].round = req[q].round /\ new[q].found = req[q].found
       /\ new[q].reply = req[q].reply /\ new[q].after = req[q].after /\ new[q].root = req[q].root
       /\ new[q].late = req[q].late
       /\ new[q].alone => req[q].alone
       /\ new[q].alone /\ Underway(q) => req[q].grant # g
       /\ ~Underway(q) => new[q] = req[q]
  <2> SUFFICES ASSUME NEW q \in Requests \ {r}
      PROVE  /\ new[q] \in Request
             /\ new[q].pc = req[q].pc /\ new[q].cred = req[q].cred /\ new[q].grant = req[q].grant
             /\ new[q].entry = req[q].entry /\ new[q].round = req[q].round /\ new[q].found = req[q].found
             /\ new[q].reply = req[q].reply /\ new[q].after = req[q].after /\ new[q].root = req[q].root
             /\ new[q].late = req[q].late
             /\ new[q].alone => req[q].alone
             /\ new[q].alone /\ Underway(q) => req[q].grant # g
             /\ ~Underway(q) => new[q] = req[q]
    OBVIOUS
  <2>1. CASE q \in other
    <3>1. new[q] = [req[q] EXCEPT !.alone = FALSE] /\ Underway(q)
      BY <2>1
    <3> HIDE DEF new, other
    <3> QED
      BY <1>5, <3>1 DEF Request
  <2>2. CASE q \notin other
    <3>1. new[q] = req[q] /\ (Underway(q) => req[q].grant # g)
      BY <2>2
    <3> HIDE DEF new, other
    <3> QED
      BY <1>5, <3>1
  <2> QED
    BY <2>1, <2>2
<1>7. new[r] = n /\ new = [q \in Requests |-> new[q]]
  OBVIOUS
<1>8. n.alone => \A q \in Requests : Underway(q) => req[q].grant # g
  BY <1>4
<1> HIDE DEF new
<1>9. new \in [Requests -> Request]
  BY <1>4, <1>6, <1>7
<1> QED
  BY <1>1, <1>4, <1>6, <1>7, <1>8, <1>9 DEF BeginsAs

LEMMA BeginsKeep ==
  ASSUME IdpInv, NEW r \in Requests, At(r, "idle"), NEW d \in Credentials, Known(d),
         NEW pc \in Issuing \union Revoking \union {"over"}, NEW reply, BeginsAs(r, d, pc, reply)
  PROVE  /\ ~Begun(r) /\ req[r].round = 1 /\ req[r].reply = "none" /\ Begun(r)' /\ ~Answered(r)
         /\ \A q \in Requests \ {r} :
              /\ Begun(q)' <=> Begun(q)
              /\ Underway(q)' <=> Underway(q)
              /\ Answered(q)' <=> Answered(q)
         /\ \A h : Presented(h)' = Presented(h) \union (IF h = GrantOf(d) THEN {r} ELSE {})
         /\ \A h : Untouched(h)' => Untouched(h)
         /\ \A h : r \notin Presented(h)
<1>1. req[r] = Idle /\ ReplyTrue(r)
  BY DEF IdpInv, RequestTrue, ReplyTrue, At
<1>2. ~Begun(r) /\ req[r].round = 1 /\ req[r].reply = "none" /\ ~Answered(r)
  BY <1>1, IdleFacts DEF Begun, Answered, At
<1>3. Begun(r)' /\ req'[r].grant = GrantOf(d)
  BY DEF Begun, BeginsAs, Issuing, Revoking
<1>4. \A q \in Requests \ {r} :
        /\ Begun(q)' <=> Begun(q)
        /\ Underway(q)' <=> Underway(q)
        /\ Answered(q)' <=> Answered(q)
        /\ req'[q].grant = req[q].grant /\ req'[q].round = req[q].round
  BY DEF BeginsAs, Begun, Underway, Answered, At
<1>5. \A h : Presented(h)' = Presented(h) \union (IF h = GrantOf(d) THEN {r} ELSE {})
  BY <1>2, <1>3, <1>4 DEF Presented
<1>6. \A h : Presented(h) \subseteq Requests \ {r}
  BY <1>2 DEF Presented
<1>7. \A h : Untouched(h)' => Untouched(h)
  BY <1>4, <1>5, <1>6 DEF Untouched
<1> QED
  BY <1>2, <1>3, <1>4, <1>5, <1>6, <1>7

\* The other requests and the documents.
LEMMA BeginsOthers ==
  ASSUME IdpInv, NEW r \in Requests, At(r, "idle"), NEW d \in Credentials, Known(d),
         NEW pc \in Issuing \union Revoking \union {"over"}, NEW reply, BeginsAs(r, d, pc, reply),
         ~Live(d) => pc = "over",
         UNCHANGED <<doc, session, auth, lapsed>>
  PROVE  \A q \in Requests \ {r} : RequestTrue(q)'
<1> SUFFICES ASSUME NEW q \in Requests \ {r} PROVE RequestTrue(q)'
  OBVIOUS
<1>1. /\ TokensTrue(q) /\ StoredTrue(q) /\ ReplyTrue(q) /\ CredTrue(q) /\ RootTrue(q)
      /\ EntryTrue(q) /\ SpentTrue(q) /\ BarredTrue(q) /\ FoundTrue(q) /\ QuietTrue(q)
      /\ IntactTrue(q) /\ RevokedTrue(q) /\ req[q] \in Request /\ req'[q] \in Request
  BY DEF IdpInv, RequestTrue, TypeOK, BeginsAs
<1>2. /\ req'[q].pc = req[q].pc /\ req'[q].cred = req[q].cred /\ req'[q].grant = req[q].grant
      /\ req'[q].entry = req[q].entry /\ req'[q].round = req[q].round /\ req'[q].found = req[q].found
      /\ req'[q].reply = req[q].reply /\ req'[q].after = req[q].after /\ req'[q].root = req[q].root
      /\ req'[q].late = req[q].late
      /\ req'[q].alone => req[q].alone
      /\ req'[q].alone /\ Underway(q) => req[q].grant # GrantOf(d)
      /\ doc' = doc /\ auth' = auth /\ lapsed' = lapsed /\ session' = session
  BY DEF BeginsAs
<1>3. (Begun(q)' <=> Begun(q)) /\ (Underway(q)' <=> Underway(q))
  BY BeginsKeep
<1>4. TokensTrue(q)' /\ StoredTrue(q)' /\ EntryTrue(q)'
  BY <1>1, <1>2 DEF TokensTrue, StoredTrue, EntryTrue, HasTokens, Exists, Access, Refresh, IsCode
<1>5. ReplyTrue(q)'
  <2>1. req[q].pc = "idle" => req'[q] = Idle
    BY <1>1 DEF ReplyTrue, BeginsAs, Underway
  <2> QED
    BY <1>1, <1>2, <2>1 DEF ReplyTrue
<1>6. CredTrue(q)'
  <2> SUFFICES ASSUME Begun(q) PROVE CredTrue(q)'
    BY <1>3 DEF CredTrue
  <2>1. CASE req[q].cred \in Codes
    BY <1>1, <1>2, <2>1, DocKinds DEF CredTrue, GrantOf, RootOf
  <2>2. CASE req[q].cred \notin Codes
    <3> DEFINE p == req[q].cred[2]
    <3>1. req[q].cred \in RefreshTokens /\ p \in Requests /\ req[p].reply = "tokens"
      BY <1>1, <2>2, DocKinds DEF CredTrue
    <3>2. p # r
      BY <3>1, BeginsKeep
    <3>3. req'[p].reply = "tokens" /\ req'[p].grant = req[p].grant /\ req'[p].root = req[p].root
      BY <3>1, <3>2 DEF BeginsAs
    <3> QED
      BY <1>1, <1>2, <2>2, <3>1, <3>3 DEF CredTrue, GrantOf, RootOf
  <2> QED
    BY <2>1, <2>2
<1>7. RootTrue(q)'
  <2> SUFFICES ASSUME Begun(q) PROVE RootTrue(q)'
    BY <1>3 DEF RootTrue
  <2> DEFINE o == req[q].root
  <2>1. o \in Requests /\ Begun(o) /\ IsCode(o) /\ req[o].grant = req[q].grant
    BY <1>1 DEF RootTrue
  <2>2. o # r
    BY <2>1, BeginsKeep
  <2>3. Begun(o)' /\ req'[o].cred = req[o].cred /\ req'[o].grant = req[o].grant /\ req'[o].reply = req[o].reply
    BY <2>1, <2>2, BeginsKeep DEF BeginsAs
  <2> QED
    BY <1>1, <1>2, <2>1, <2>3 DEF RootTrue, IsCode
<1>8. SpentTrue(q)'
  BY <1>1, <1>2 DEF SpentTrue, Consumed, At, IsCode, Usable, Live, Exists
<1>9. BarredTrue(q)'
  <2>1. req[q].after \subseteq Requests \ {r}
    <3>1. req[q].after \subseteq Requests
      BY <1>1 DEF Request
    <3> QED
      BY <1>1, <3>1 DEF BarredTrue, At
  <2>2. \A p \in req[q].after : req'[p].pc = req[p].pc /\ req'[p].cred = req[p].cred /\ req'[p].reply = req[p].reply
    BY <2>1 DEF BeginsAs
  <2>3. Behind(q)' => Behind(q)
    BY <1>2, <2>2 DEF Behind, Done
  <2>4. Barred(q) => Barred(q)'
    BY <1>2 DEF Barred, HasTokens, Exists
  <2> QED
    BY <1>1, <1>2, <2>2, <2>3, <2>4 DEF BarredTrue, At, Online
<1>10. FoundTrue(q)'
  <2>1. ASSUME NEW e \in req[q].found PROVE Owner(e)' = req[q].grant /\ (e \notin Codes => Begun(e[2])')
    <3>1. e \in Docs /\ Owner(e) = req[q].grant /\ (e \notin Codes => Begun(e[2]))
      BY <1>1, <2>1 DEF FoundTrue, Request
    <3>2. e \notin Codes => e[2] \in Requests \ {r}
      BY <3>1, DocKinds, BeginsKeep
    <3>3. e \notin Codes => Begun(e[2])' /\ req'[e[2]].grant = req[e[2]].grant
      BY <3>1, <3>2, BeginsKeep DEF BeginsAs
    <3> QED
      BY <3>1, <3>3 DEF Owner
  <2> QED
    BY <1>1, <1>2, <2>1 DEF FoundTrue, At, Family, Exists
<1>11. QuietTrue(q)'
  <2>1. Presented(req[q].grant)' = Presented(req[q].grant) \union (IF req[q].grant = GrantOf(d) THEN {r} ELSE {})
    BY <1>2, BeginsKeep
  <2>2. Presented(req[q].grant) \subseteq Requests \ {r}
    BY BeginsKeep DEF Presented
  <2>3. \A p \in Presented(req[q].grant) : Underway(p)' <=> Underway(p)
    BY <2>2, BeginsKeep
  <2>4. req'[q].alone /\ Underway(q)' => \A p \in Presented(req[q].grant)' \ {q} : ~Underway(p)'
    BY <1>1, <1>2, <1>3, <2>1, <2>3 DEF QuietTrue
  <2>5. ASSUME req'[q].alone, Final(q)' PROVE Closed(req[q].grant)'
    <3>1. Closed(req[q].grant)
      BY <1>1, <1>2, <2>5 DEF QuietTrue, Final, At
    <3>2. \A e \in Docs : Exists(e)' /\ doc'[e].grant = req'[q].grant => ~Live(e)'
      BY <1>2, <3>1 DEF Closed, Exists, Live
    <3>3. req[q].grant = GrantOf(d) => ~Underway(r)'
      <4> SUFFICES ASSUME req[q].grant = GrantOf(d) PROVE ~Underway(r)'
        OBVIOUS
      <4>1. ~Live(d)
        BY <3>1, KnownFacts DEF Closed, Live
      <4> QED
        BY <4>1 DEF BeginsAs, Underway
    <3>4. \A p \in Presented(req[q].grant) : ~Underway(p)'
      BY <2>3, <3>1 DEF Closed
    <3> QED
      BY <1>2, <2>1, <3>2, <3>3, <3>4 DEF Closed
  <2> QED
    BY <2>4, <2>5 DEF QuietTrue
<1>12. IntactTrue(q)'
  <2> SUFFICES ASSUME Untouched(req[q].grant)', req[q].pc \in {"old_get", "old_put", "answer"} \/ req[q].reply = "tokens"
               PROVE  /\ Exists(Refresh(q)) /\ ~doc[Refresh(q)].revoked
                      /\ doc[Refresh(q)].used => \E p \in Requests : req'[p].cred = Refresh(q) /\ Answered(p)'
    BY <1>2 DEF IntactTrue, Exists
  <2>1. Untouched(req[q].grant)
    BY <1>2, BeginsKeep
  <2>2. /\ Exists(Refresh(q)) /\ ~doc[Refresh(q)].revoked
        /\ doc[Refresh(q)].used => \E p \in Requests : req[p].cred = Refresh(q) /\ Answered(p)
    BY <1>1, <2>1 DEF IntactTrue
  <2>3. \A p \in Requests : Answered(p) => Answered(p)' /\ req'[p].cred = req[p].cred
    BY BeginsKeep DEF BeginsAs
  <2> QED
    BY <2>2, <2>3
<1>13. RevokedTrue(q)'
  <2> SUFFICES ASSUME At(q, "over"), req[q].reply = "revoked", req[q].round = 1 PROVE RevokedTrue(q)'
    BY <1>2 DEF RevokedTrue, At
  <2>1. \/ req[q].root \in lapsed
        \/ \E p \in Presented(req[q].grant) : req[p].round = 2 /\ (req[q].alone => At(p, "over"))
    BY <1>1 DEF RevokedTrue
  <2>2. Presented(req[q].grant) \subseteq Presented(req[q].grant)'
    <3>1. \A h : Presented(h) \subseteq Presented(h)'
      BY BeginsKeep
    <3>2. PICK h : h = req[q].grant
      OBVIOUS
    <3>3. req'[q].grant = h
      BY <1>2, <3>2
    <3>4. Presented(h) \subseteq Presented(h)'
      BY <3>1
    <3> QED
      BY <3>2, <3>3, <3>4 DEF Presented
  <2>3. \A p \in Presented(req[q].grant) : req'[p].round = req[p].round /\ req'[p].pc = req[p].pc
    BY BeginsKeep DEF BeginsAs, Presented
  <2> QED
    BY <1>2, <2>1, <2>2, <2>3 DEF RevokedTrue, At
<1> QED
  BY <1>4, <1>5, <1>6, <1>7, <1>8, <1>9, <1>10, <1>11, <1>12, <1>13 DEF RequestTrue

\* Which way a presentation goes.
Way(d, pc, reply) ==
  /\ pc = "over" <=> ~Live(d)
  /\ \/ pc = "over" /\ reply = "refused"
     \/ pc = "over" /\ reply = "revoked" /\ d \in RefreshTokens
     \/ pc = "query" /\ reply = "reuse"
     \/ pc = "delete" /\ reply = "none" /\ d \in RefreshTokens
     \/ pc = "code_get" /\ reply = "none" /\ d \in Codes /\ ~doc[d].used
     \/ pc = "session" /\ reply = "none" /\ d \in RefreshTokens /\ ~doc[d].used
     \/ pc = "set_access" /\ reply = "none" /\ d \in RefreshTokens /\ ~doc[d].used /\ ~doc[d].bound

LEMMA BeginsSelf ==
  ASSUME IdpInv, NEW r \in Requests, At(r, "idle"), NEW d \in Credentials, Known(d),
         NEW pc \in Issuing \union Revoking \union {"over"}, NEW reply \in Replies,
         BeginsAs(r, d, pc, reply), Way(d, pc, reply),
         UNCHANGED <<doc, session, auth, lapsed>>
  PROVE  RequestTrue(r)'
<1>0. PICK g : g = GrantOf(d)
  OBVIOUS
<1>1. /\ req'[r].pc = pc /\ req'[r].cred = d /\ req'[r].grant = g /\ req'[r].reply = reply
      /\ req'[r].entry = (IF pc = "over" THEN NoDoc ELSE doc[d])
      /\ req'[r].round = 1 /\ req'[r].found = {}
      /\ req'[r].after = {p \in Requests : At(p, "over")}
      /\ req'[r].root = RootOf(r, d)
      /\ req'[r].late = EndedFor(d)
      /\ req'[r].alone => \A q \in Requests : Underway(q) => req[q].grant # g
      /\ doc' = doc /\ auth' = auth /\ lapsed' = lapsed /\ session' = session
  BY <1>0 DEF BeginsAs
<1>2. /\ d \in Docs /\ g \in Grants /\ auth[g] = "done"
      /\ d \in RefreshTokens =>
           /\ d[2] \in Requests /\ d = Refresh(d[2]) /\ d \notin Codes
           /\ req[d[2]].reply = "tokens" /\ At(d[2], "over") /\ Begun(d[2])
           /\ req[d[2]].root \in Requests
           /\ Begun(req[d[2]].root) /\ IsCode(req[d[2]].root)
           /\ req[req[d[2]].root].grant = g
           /\ req[req[d[2]].root].reply = "tokens"
           /\ req[d[2]].grant = g
      /\ Exists(d) =>
           /\ doc[d] \in Document
           /\ doc[d].grant = g
           /\ d \in Codes \/ Online(g) => doc[d].bound
           /\ doc[d].origin = IF d \in Codes THEN NoOrigin ELSE req[d[2]].root
  BY <1>0, KnownFacts
<1>3. ~Begun(r) /\ StoredTrue(r) /\ Begun(r)'
  BY BeginsKeep DEF IdpInv, RequestTrue
<1>4. ~HasTokens(r) /\ ~HasTokens(r)'
  BY <1>1, <1>3 DEF StoredTrue, Unstored, Begun, HasTokens, Exists
<1>5. TokensTrue(r)' /\ StoredTrue(r)'
  BY <1>4 DEF TokensTrue, StoredTrue, HasTokens, Access, Refresh
<1>6. ReplyTrue(r)'
  BY <1>1 DEF ReplyTrue, Way, Issuing
<1>7. d \in Codes \/ d \in RefreshTokens
  BY DocKinds
<1>8. d \in RefreshTokens => d[2] # r /\ req[d[2]].root # r
  BY <1>2, <1>3
<1>9. CredTrue(r)'
  <2>1. CASE d \in Codes
    BY <1>0, <1>1, <1>2, <2>1, DocKinds DEF CredTrue, RootOf, GrantOf
  <2>2. CASE d \notin Codes
    <3>1. req'[d[2]].reply = "tokens" /\ req'[d[2]].grant = g /\ req'[d[2]].root = req[d[2]].root
      BY <1>2, <1>7, <1>8, <2>2 DEF BeginsAs
    <3> QED
      BY <1>1, <1>2, <2>2, <3>1 DEF CredTrue, RootOf, GrantOf
  <2> QED
    BY <2>1, <2>2
<1>10. RootTrue(r)'
  <2>1. CASE d \in Codes
    BY <1>1, <1>3, <2>1, DocKinds DEF RootTrue, RootOf, IsCode
  <2>2. CASE d \in RefreshTokens
    <3>0. PICK o : o = req[d[2]].root
      OBVIOUS
    <3>1. o \in Requests \ {r} /\ Begun(o) /\ IsCode(o) /\ req[o].grant = g /\ req[o].reply = "tokens"
      BY <1>2, <1>8, <2>2, <3>0
    <3>2. Begun(o)' /\ req'[o].cred = req[o].cred /\ req'[o].grant = g /\ req'[o].reply = "tokens"
      BY <3>1, BeginsKeep DEF BeginsAs
    <3>3. req'[r].root = o
      BY <1>1, <1>2, <2>2, <3>0 DEF RootOf
    <3> QED
      BY <1>1, <3>1, <3>2, <3>3 DEF RootTrue, IsCode
  <2> QED
    BY <1>7, <2>1, <2>2
<1>11. EntryTrue(r)'
  <2>1. pc \in Issuing => Exists(d)
    BY DEF Way, Issuing, Live
  <2>2. pc # "over" => req'[r].entry = doc[d]
    BY <1>1
  <2>3. pc \in Issuing => pc # "over"
    BY DEF Issuing
  <2>4. d \in RefreshTokens => req'[r].root = req[d[2]].root /\ d \notin Codes
    BY <1>1, <1>2 DEF RootOf
  <2>5. req'[r].pc \in Issuing =>
          /\ req'[r].entry \in Document
          /\ req'[r].entry.grant = req'[r].grant
          /\ IsCode(r)' \/ Online(req'[r].grant) => req'[r].entry.bound
          /\ req'[r].entry.origin = IF IsCode(r)' THEN NoOrigin ELSE req'[r].root
    BY <1>1, <1>2, <1>7, <2>1, <2>2, <2>3, <2>4 DEF IsCode
  <2>6. /\ pc \in {"code_get", "code_put", "code_again"} => d \in Codes
        /\ pc \in {"session", "old_get", "old_put"} => d \notin Codes
    BY <1>2 DEF Way
  <2> QED
    BY <1>1, <2>5, <2>6 DEF EntryTrue, IsCode
<1>12. SpentTrue(r)' /\ FoundTrue(r)' /\ IntactTrue(r)'
  BY <1>1, <1>2 DEF SpentTrue, Consumed, Way, FoundTrue, IntactTrue, At, IsCode
<1>13. pc = "query" \/ pc = "delete" \/ pc = "over" => Barred(r)'
  BY <1>1, <1>4 DEF Barred, Revoking, Way
<1>14. BarredTrue(r)'
  <2>1. \A q \in req'[r].after : q \in Requests \ {r} /\ At(q, "over")
    BY <1>1 DEF At
  <2>2. \A q \in req'[r].after : At(q, "over")' /\ req'[q].cred = req[q].cred /\ req'[q].reply = req[q].reply
    BY <2>1 DEF BeginsAs, At
  <2>3. Behind(r)' => Barred(r)'
    <3> SUFFICES ASSUME Behind(r)' PROVE pc = "query" \/ pc = "delete" \/ pc = "over"
      BY <1>13
    <3>1. PICK q \in req'[r].after : req'[q].cred = d /\ Done(q)'
      BY <1>1 DEF Behind
    <3>2. q \in Requests /\ req[q].cred = d /\ Consumed(q)
      BY <2>1, <2>2, <3>1 DEF Done, Consumed
    <3>3. ~Usable(d)
      BY <3>2 DEF IdpInv, RequestTrue, SpentTrue
    <3> QED
      BY <3>3 DEF Usable, Way
  <2>4. req'[r].late => \/ Barred(r)'
                        \/ At(r, "session")' /\ Online(g) /\ g \notin session
    <3> SUFFICES ASSUME EndedFor(d), Live(d)
                 PROVE  \/ pc = "query" \/ pc = "delete" \/ pc = "over"
                        \/ pc = "session" /\ Online(g) /\ g \notin session
      BY <1>1, <1>13 DEF Way, At
    <3>1. d \in RefreshTokens /\ Exists(d) /\ doc[d].origin \notin lapsed
      BY DEF EndedFor, Live
    <3>2. doc[d].origin = req[d[2]].root /\ req[d[2]].grant = g /\ (Online(g) => doc[d].bound)
      BY <1>2, <3>1
    <3>3. Online(g) /\ g \notin session
      BY <3>1, <3>2 DEF EndedFor
    <3> QED
      BY <1>2, <3>1, <3>2, <3>3 DEF Way
  <2> QED
    BY <1>1, <2>2, <2>3, <2>4 DEF BarredTrue
<1>15. QuietTrue(r)'
  <2>1. Presented(g)' = Presented(g) \union {r} /\ Presented(g) \subseteq Requests \ {r}
    BY <1>0, BeginsKeep DEF Presented
  <2>2. req'[r].alone => \A q \in Presented(g) : ~Underway(q)'
    BY <1>1, <2>1, BeginsKeep DEF Presented
  <2>3. ~Final(r)'
    BY <1>1 DEF Final, Way, At
  <2> QED
    BY <1>1, <2>1, <2>2, <2>3 DEF QuietTrue
<1>16. RevokedTrue(r)'
  <2> SUFFICES ASSUME pc = "over", reply = "revoked" PROVE RevokedTrue(r)'
    BY <1>1 DEF RevokedTrue, At
  <2>1. d \in RefreshTokens /\ ~Live(d)
    BY DEF Way
  <2>2. req'[r].root = req[d[2]].root
    BY <1>1, <1>2, <2>1 DEF RootOf
  <2>3. CASE Untouched(g)
    <3>1. IntactTrue(d[2])
      BY <1>2, <2>1 DEF IdpInv, RequestTrue
    <3>2. Exists(d) /\ ~doc[d].revoked
      BY <1>2, <2>1, <2>3, <3>1 DEF IntactTrue
    <3>3. req'[r].root \in lapsed'
      BY <1>1, <1>2, <2>1, <2>2, <3>2 DEF Live
    <3> QED
      BY <3>3 DEF RevokedTrue
  <2>4. CASE ~Untouched(g)
    <3>1. PICK q \in Presented(g) : req[q].round # 1
      BY <2>4 DEF Untouched
    <3>2. q \in Requests \ {r} /\ Begun(q) /\ req[q].grant = g
      BY <3>1, BeginsKeep DEF Presented
    <3>3. req[q].round = 2
      BY <3>1, <3>2 DEF IdpInv, TypeOK, Request
    <3>4. q \in Presented(g)' /\ req'[q].round = 2 /\ req'[q].pc = req[q].pc
      BY <1>0, <3>1, <3>2, <3>3, BeginsKeep DEF BeginsAs
    <3>5. req'[r].alone => At(q, "over")'
      BY <1>1, <3>2, <3>4 DEF Underway, Begun, At
    <3> QED
      BY <1>1, <3>4, <3>5 DEF RevokedTrue
  <2> QED
    BY <2>3, <2>4
<1> QED
  BY <1>5, <1>6, <1>9, <1>10, <1>11, <1>12, <1>14, <1>15, <1>16 DEF RequestTrue

LEMMA BeginsInv ==
  ASSUME IdpInv, NEW r \in Requests, At(r, "idle"), NEW d \in Credentials, Known(d),
         NEW pc \in Issuing \union Revoking \union {"over"}, NEW reply \in Replies,
         Begins(r, d, pc, reply), Way(d, pc, reply),
         UNCHANGED <<doc, session, auth, lapsed, faults>>
  PROVE  IdpInv'
<1>1. BeginsAs(r, d, pc, reply)
  BY BeginsView DEF Way, Live
<1>2. TypeOK'
  BY <1>1 DEF IdpInv, TypeOK, BeginsAs
<1>3. FiniteInv'
  <2>1. {q \in Requests : Begun(q)'} = {q \in Requests : Begun(q)} \union {r}
    BY <1>1, BeginsKeep
  <2> QED
    BY <2>1, FS_AddElement DEF FiniteInv, IdpInv
<1>4. ASSUME NEW h \in Grants PROVE CodeTrue(h)' /\ CodeIntact(h)'
  <2>1. CodeTrue(h) /\ CodeIntact(h)
    BY DEF IdpInv
  <2>2. \A q \in Requests : Begun(q) => Begun(q)' /\ req'[q].cred = req[q].cred
    BY <1>1, BeginsKeep DEF BeginsAs
  <2> QED
    BY <1>1, <2>1, <2>2, BeginsKeep DEF CodeTrue, CodeIntact, Exists, Code
<1>5. \A q \in Requests : RequestTrue(q)'
  BY <1>1, BeginsOthers, BeginsSelf DEF Way
<1> QED
  BY <1>2, <1>3, <1>4, <1>5 DEF IdpInv

LEMMA PresentsCode ==
  ASSUME IdpInv, NEW r \in Requests, NEW d \in Codes, PresentCode(r, d)
  PROVE  IdpInv'
<1>1. At(r, "idle") /\ Known(d) /\ d \in Credentials /\ UNCHANGED <<doc, session, auth, lapsed, faults>>
  BY DEF PresentCode, Credentials
<1>2. CASE ~Live(d)
  BY <1>1, <1>2, BeginsInv DEF PresentCode, Way, Replies
<1>3. CASE Live(d) /\ doc[d].used
  BY <1>1, <1>3, BeginsInv DEF PresentCode, Way, Replies, Revoking
<1>4. CASE Live(d) /\ ~doc[d].used
  BY <1>1, <1>4, BeginsInv DEF PresentCode, Way, Replies, Issuing
<1> QED
  BY <1>2, <1>3, <1>4

LEMMA PresentsRefreshToken ==
  ASSUME IdpInv, NEW r \in Requests, NEW d \in RefreshTokens, PresentRefreshToken(r, d)
  PROVE  IdpInv'
<1>1. At(r, "idle") /\ Known(d) /\ d \in Credentials /\ UNCHANGED <<doc, session, auth, lapsed, faults>>
  BY DEF PresentRefreshToken, Credentials
<1>2. CASE ~Live(d)
  BY <1>1, <1>2, BeginsInv DEF PresentRefreshToken, Way, Replies
<1>3. CASE Live(d) /\ doc[d].used
  BY <1>1, <1>3, BeginsInv DEF PresentRefreshToken, Way, Replies, Revoking
<1>4. CASE Live(d) /\ ~doc[d].used /\ doc[d].bound
  BY <1>1, <1>4, BeginsInv DEF PresentRefreshToken, Way, Replies, Issuing
<1>5. CASE Live(d) /\ ~doc[d].used /\ ~doc[d].bound
  BY <1>1, <1>5, BeginsInv DEF PresentRefreshToken, Way, Replies, Issuing
<1> QED
  BY <1>2, <1>3, <1>4, <1>5

LEMMA PresentsRevocation ==
  ASSUME IdpInv, NEW r \in Requests, NEW d \in RefreshTokens, PresentRevocation(r, d)
  PROVE  IdpInv'
<1>1. At(r, "idle") /\ Known(d) /\ d \in Credentials /\ UNCHANGED <<doc, session, auth, lapsed, faults>>
  BY DEF PresentRevocation, Credentials
<1>2. CASE ~Live(d)
  BY <1>1, <1>2, BeginsInv DEF PresentRevocation, Way, Replies
<1>3. CASE Live(d)
  BY <1>1, <1>3, BeginsInv DEF PresentRevocation, Way, Replies, Revoking
<1> QED
  BY <1>2, <1>3

-----------------------------------------------------------------------------
(* The authorization endpoint, and time.                                   *)

\* Where no document and no request changes, a session may end and a lifetime.
LEMMA WorldInv ==
  ASSUME IdpInv, TypeOK', UNCHANGED <<doc, req>>,
         session' \subseteq session, lapsed \subseteq lapsed',
         \A g \in Grants : auth'[g] = "done" <=> auth[g] = "done"
  PROVE  IdpInv'
<1>1. \A d : Live(d)' => Live(d)
  BY DEF Live, Exists
<1>2. FiniteInv'
  BY DEF FiniteInv, Begun, IdpInv
<1>3. \A g \in Grants : CodeTrue(g)' /\ CodeIntact(g)'
  BY DEF IdpInv, CodeTrue, CodeIntact, Exists, Code, Untouched, Presented, Begun
<1>4. ASSUME NEW q \in Requests PROVE RequestTrue(q)'
  <2>1. RequestTrue(q)
    BY DEF IdpInv
  <2>2. TokensTrue(q)' /\ StoredTrue(q)' /\ ReplyTrue(q)' /\ CredTrue(q)' /\ RootTrue(q)' /\ EntryTrue(q)'
    BY <2>1 DEF RequestTrue, TokensTrue, StoredTrue, ReplyTrue, CredTrue, RootTrue, EntryTrue,
         Begun, Exists, HasTokens, Access, Refresh, IsCode, At, GrantOf, RootOf
  <2>3. SpentTrue(q)'
    BY <1>1, <2>1 DEF RequestTrue, SpentTrue, Consumed, At, IsCode, Usable
  <2>4. FoundTrue(q)'
    BY <2>1 DEF RequestTrue, FoundTrue, Exists, At, Owner, Begun, Family
  <2>5. QuietTrue(q)'
    BY <1>1, <2>1 DEF RequestTrue, QuietTrue, Exists, At, Begun, Presented, Underway, Final, Closed
  <2>6. BarredTrue(q)'
    BY <2>1 DEF RequestTrue, BarredTrue, Behind, Barred, Done, HasTokens, Exists, At
  <2>7. IntactTrue(q)' /\ RevokedTrue(q)'
    BY <2>1 DEF RequestTrue, IntactTrue, RevokedTrue, Untouched, Presented, Begun, At, Answered, Exists, Refresh
  <2> QED
    BY <2>2, <2>3, <2>4, <2>5, <2>6, <2>7 DEF RequestTrue
<1> QED
  BY <1>2, <1>3, <1>4 DEF IdpInv

LEMMA FindsSession ==
  ASSUME IdpInv, NEW g \in Grants, FindSession(g)
  PROVE  IdpInv'
BY WorldInv DEF FindSession, IdpInv, TypeOK

LEMMA LogsInAgain ==
  ASSUME IdpInv, NEW g \in Grants, LoginAgain(g)
  PROVE  IdpInv'
BY WorldInv DEF LoginAgain, IdpInv, TypeOK

LEMMA Lapses ==
  ASSUME IdpInv, NEW r \in Requests, Lapse(r)
  PROVE  IdpInv'
BY WorldInv DEF Lapse, IdpInv, TypeOK

\* A new code: no request and no document of the grant is there yet.
LEMMA IssuesCode ==
  ASSUME IdpInv, NEW g \in Grants, IssueCode(g)
  PROVE  IdpInv'
<1> DEFINE n == NewDoc(g, TRUE, NoOrigin)
<1>1. /\ auth[g] = "session" /\ auth' = [auth EXCEPT ![g] = "done"] /\ TypeOK
      /\ doc' = [doc EXCEPT ![Code(g)] = n]
      /\ UNCHANGED <<session, req, lapsed, faults>>
  BY DEF IssueCode, IdpInv, Code
<1>2. n \in Document /\ n.grant = g /\ n.bound = TRUE /\ n.origin = NoOrigin /\ ~n.used /\ ~n.revoked
  BY DEF NewDoc, Document
<1>3. n # NoDoc
  BY <1>2, NoDocument
<1> HIDE DEF n
<1>4. Code(g) \in Docs /\ Code(g) \in Codes /\ Code(g)[2] = g
  BY DocFacts
<1>5. \A d \in Docs : doc'[d] = IF d = Code(g) THEN n ELSE doc[d]
  BY <1>1 DEF TypeOK
<1>6. TypeOK'
  BY <1>1, <1>2, <1>4 DEF TypeOK
<1>7. \A h \in Grants : auth'[h] = IF h = g THEN "done" ELSE auth[h]
  BY <1>1 DEF TypeOK
<1>8. \A q \in Requests : Begun(q) => req[q].grant # g
  BY <1>1 DEF IdpInv, RequestTrue, CredTrue
<1>9. \A h : Presented(h)' = Presented(h)
  BY <1>1 DEF Presented, Begun
<1>10. FiniteInv'
  BY <1>1 DEF FiniteInv, Begun, IdpInv
<1>11. ASSUME NEW h \in Grants PROVE CodeTrue(h)' /\ CodeIntact(h)'
  <2>1. CodeTrue(h) /\ CodeIntact(h) /\ Code(h) \in Docs
    BY DocFacts DEF IdpInv
  <2>2. CASE h = g
    BY <1>2, <1>3, <1>4, <1>5, <1>7, <2>2 DEF CodeTrue, CodeIntact, Exists
  <2>3. CASE h # g
    <3>1. doc'[Code(h)] = doc[Code(h)] /\ auth'[h] = auth[h]
      BY <1>5, <1>7, <2>1, <2>3, DocFacts
    <3> QED
      BY <1>1, <2>1, <3>1 DEF CodeTrue, CodeIntact, Exists, Untouched, Presented, Begun
  <2> QED
    BY <2>2, <2>3
<1>12. ASSUME NEW q \in Requests PROVE RequestTrue(q)'
  <2>1. RequestTrue(q) /\ req[q] \in Request
    BY DEF IdpInv, TypeOK
  <2>2. /\ Access(q) \in Docs /\ Refresh(q) \in Docs
        /\ doc'[Access(q)] = doc[Access(q)] /\ doc'[Refresh(q)] = doc[Refresh(q)]
    BY <1>5, DocFacts
  <2>3. Begun(q) => req[q].cred \in Docs /\ doc'[req[q].cred] = doc[req[q].cred]
    <3>1. ASSUME Begun(q), req[q].cred = Code(g) PROVE FALSE
      BY <1>4, <1>8, <2>1, <3>1 DEF RequestTrue, CredTrue, GrantOf
    <3> QED
      BY <1>5, <2>1, <3>1, DocKinds DEF RequestTrue, CredTrue
  <2>4. TokensTrue(q)' /\ StoredTrue(q)' /\ ReplyTrue(q)' /\ RootTrue(q)' /\ EntryTrue(q)'
    BY <1>1, <2>1, <2>2 DEF RequestTrue, TokensTrue, StoredTrue, ReplyTrue, RootTrue, EntryTrue,
         Begun, Exists, HasTokens, Access, Refresh, IsCode, At
  <2>5. CredTrue(q)'
    BY <1>1, <1>7, <2>1 DEF RequestTrue, CredTrue, Begun, GrantOf, RootOf
  <2>6. SpentTrue(q)'
    <3>1. Consumed(q) => Begun(q)
      BY <2>1 DEF RequestTrue, ReplyTrue, Consumed, Begun, At
    <3> QED
      BY <1>1, <2>1, <2>3, <3>1 DEF RequestTrue, SpentTrue, Consumed, At, IsCode, Usable, Live, Exists
  <2>7. BarredTrue(q)'
    BY <1>1, <2>1, <2>2 DEF RequestTrue, BarredTrue, Behind, Barred, Done, HasTokens, Exists, At, Access, Refresh
  <2>8. Begun(q) => /\ req[q].grant # g /\ Family(req[q].grant)' = Family(req[q].grant)
                    /\ (Closed(req[q].grant) => Closed(req[q].grant)')
    <3> SUFFICES ASSUME Begun(q)
                 PROVE  /\ req[q].grant # g /\ Family(req[q].grant)' = Family(req[q].grant)
                        /\ (Closed(req[q].grant) => Closed(req[q].grant)')
      OBVIOUS
    <3>1. req[q].grant # g
      BY <1>8
    <3>2. ~Exists(Code(g))
      BY <1>1 DEF IdpInv, CodeTrue
    <3>3. \A d \in Docs : d # Code(g) => doc'[d] = doc[d]
      BY <1>5
    <3>4. doc'[Code(g)].grant = g
      BY <1>2, <1>4, <1>5
    <3>5. Family(req[q].grant)' = Family(req[q].grant)
      BY <1>1, <3>1, <3>2, <3>3, <3>4 DEF Family, Exists
    <3>6. Closed(req[q].grant) => Closed(req[q].grant)'
      BY <1>1, <1>9, <3>1, <3>3, <3>4 DEF Closed, Exists, Live, Underway
    <3> QED
      BY <3>1, <3>5, <3>6
  <2>9. FoundTrue(q)'
    BY <1>1, <2>1, <2>8 DEF RequestTrue, FoundTrue, At, Owner, Begun
  <2>10. QuietTrue(q)'
    BY <1>1, <1>9, <2>1, <2>8 DEF RequestTrue, QuietTrue, Underway, Final, At, Begun
  <2>11. IntactTrue(q)' /\ RevokedTrue(q)'
    BY <1>1, <2>1, <2>2 DEF RequestTrue, IntactTrue, RevokedTrue, Untouched, Presented, Begun, At, Answered, Exists, Refresh
  <2> QED
    BY <2>4, <2>5, <2>6, <2>7, <2>9, <2>10, <2>11 DEF RequestTrue
<1> QED
  BY <1>6, <1>10, <1>11, <1>12 DEF IdpInv

-----------------------------------------------------------------------------
(* The theorems about the Human IdP.                                       *)

LEMMA IdpInit == Init => IdpInv
<1> SUFFICES ASSUME Init PROVE IdpInv
  OBVIOUS
<1>1. \A r \in Requests : req[r] = Idle
  BY DEF Init
<1>2. \A d \in Docs : ~Exists(d)
  BY DEF Init, Exists
<1>3. TypeOK
  BY IdleFacts, ConstantsAssumption DEF Init, TypeOK
<1>4. \A r \in Requests : ~Begun(r)
  BY <1>1, IdleFacts DEF Begun
<1>5. FiniteInv
  <2>1. {r \in Requests : Begun(r)} = {}
    BY <1>4
  <2> QED
    BY <2>1, FS_EmptySet DEF FiniteInv
<1>6. \A g \in Grants : CodeTrue(g) /\ CodeIntact(g)
  BY <1>2, DocFacts DEF CodeTrue, CodeIntact, Init
<1>7. ASSUME NEW r \in Requests PROVE RequestTrue(r)
  <2>1. /\ req[r] = Idle /\ req[r].pc = "idle" /\ req[r].reply = "none" /\ req[r].round = 1
        /\ req[r].after = {} /\ req[r].late = FALSE /\ req[r].found = {}
    BY <1>1, IdleFacts
  <2>2. ~HasTokens(r) /\ ~Exists(Access(r)) /\ ~Exists(Refresh(r))
    BY <1>2, DocFacts DEF HasTokens, Access, Refresh
  <2>3. TokensTrue(r) /\ StoredTrue(r) /\ CredTrue(r) /\ RootTrue(r)
    BY <1>4, <2>2 DEF TokensTrue, StoredTrue, CredTrue, RootTrue
  <2>4. ReplyTrue(r) /\ EntryTrue(r) /\ SpentTrue(r)
    BY <2>1 DEF ReplyTrue, EntryTrue, SpentTrue, Issuing, Consumed, At
  <2>5. BarredTrue(r) /\ FoundTrue(r) /\ QuietTrue(r)
    BY <2>1 DEF BarredTrue, Behind, FoundTrue, QuietTrue, At, Underway, Final
  <2>6. IntactTrue(r) /\ RevokedTrue(r)
    BY <2>1 DEF IntactTrue, RevokedTrue, At
  <2> QED
    BY <2>3, <2>4, <2>5, <2>6 DEF RequestTrue
<1> QED
  BY <1>3, <1>5, <1>6, <1>7 DEF IdpInv

LEMMA IdpInductive ==
  ASSUME IdpInv, [Next]_vars
  PROVE  IdpInv'
<1>1. CASE UNCHANGED vars
  BY <1>1, WorldInv DEF vars, IdpInv, TypeOK
<1>2. ASSUME NEW g \in Grants, Authorization(g) PROVE IdpInv'
  BY <1>2, FindsSession, IssuesCode, LogsInAgain DEF Authorization
<1>3. ASSUME NEW r \in Requests, Present(r) PROVE IdpInv'
  BY <1>3, PresentsCode, PresentsRefreshToken, PresentsRevocation DEF Present
<1>4. ASSUME NEW r \in Requests, RevocationStep(r) PROVE IdpInv'
  BY <1>4, DeletesRefreshToken, QueriesGrant, UpdatesGrant DEF RevocationStep
<1> QED
  BY <1>1, <1>2, <1>3, <1>4, TokenSteps, FailsInv, Lapses DEF Next

LEMMA IdpInvariant == Spec => []IdpInv
<1>1. IdpInv /\ [Next]_vars => IdpInv'
  BY IdpInductive
<1> QED
  BY <1>1, IdpInit, PTL DEF Spec

\* Type correctness of the Human IdP: every document, session and request keeps
\* its values, whatever is presented, revoked or fails.
THEOREM TypeCorrect == Spec => []TypeOK
<1>1. IdpInv => TypeOK
  BY DEF IdpInv
<1> QED
  BY <1>1, IdpInvariant, PTL

\* A request that reads a code or a refresh token behind another one's success
\* stores no token, however the reads and writes of others fall in between.
THEOREM SpentOnceHolds == Spec => []SpentOnce
<1>1. IdpInv => SpentOnce
  BY DEF IdpInv, RequestTrue, BarredTrue, Behind, Barred, SpentOnce
<1> QED
  BY <1>1, IdpInvariant, PTL

\* What is presented behind the end of the session or of the lifetime of a grant
\* yields nothing, however often its token was rotated before.
THEOREM EndHolds == Spec => []NothingBehindTheEnd
<1>1. IdpInv => NothingBehindTheEnd
  BY DEF IdpInv, RequestTrue, BarredTrue, Barred, StoredTrue, Unstored, At, NothingBehindTheEnd
<1> QED
  BY <1>1, IdpInvariant, PTL

\* A revocation that had the grant to itself leaves nothing of it live, for good.
THEOREM RevocationHolds == Spec => []QuietRevocationIsFinal
<1>1. IdpInv => QuietRevocationIsFinal
  BY DEF IdpInv, RequestTrue, QuietTrue, Final, Closed, QuietRevocationIsFinal
<1> QED
  BY <1>1, IdpInvariant, PTL

\* Every refresh token of the grant that has been given out but is not usable
\* was spent by a request that has one itself: there are finitely many, and the
\* one from the code exchange spent none, so that one of them is usable.
LEMMA NeverStrandedInv == IdpInv => NeverStranded
<1> SUFFICES ASSUME IdpInv, NEW g \in Grants, Undisturbed(g), Presented(g) # {},
                    ~ \E d \in RefreshTokens : Known(d) /\ Usable(d) /\ doc[d].grant = g
             PROVE  FALSE
  BY DEF NeverStranded
<1> DEFINE T == {r \in Presented(g) : req[r].reply = "tokens"}
<1>1. \A r \in Presented(g) :
        /\ r \in Requests /\ req[r].grant = g
        /\ At(r, "over") /\ Begun(r) /\ r \notin lapsed /\ RequestTrue(r)
        /\ req[r].round = 1
        /\ req[r].reply \in {"tokens", "error"}
        /\ req[r].reply = "error" => req[r].cred \in RefreshTokens
  <2> SUFFICES ASSUME NEW r \in Presented(g)
      PROVE  /\ r \in Requests /\ req[r].grant = g
             /\ At(r, "over") /\ Begun(r) /\ r \notin lapsed /\ RequestTrue(r)
             /\ req[r].round = 1
             /\ req[r].reply \in {"tokens", "error"}
             /\ req[r].reply = "error" => req[r].cred \in RefreshTokens
    OBVIOUS
  <2>1. /\ ~Underway(r) /\ r \notin lapsed /\ req[r].reply \in {"tokens", "error"}
        /\ req[r].reply = "error" => req[r].round = 1 /\ req[r].cred \in RefreshTokens
    BY DEF Undisturbed
  <2>2. RequestTrue(r) /\ r \in Requests /\ req[r].grant = g
    BY DEF IdpInv, Presented
  <2>3. req[r].pc # "idle"
    BY DEF Presented, Begun
  <2>4. req[r].reply = "tokens" => req[r].round = 1
    BY <2>2 DEF RequestTrue, ReplyTrue
  <2> QED
    BY <2>1, <2>2, <2>3, <2>4 DEF Underway, At, Begun
<1>2. Untouched(g)
  BY <1>1 DEF Untouched
<1>3. PICK o \in T : IsCode(o)
  <2>1. PICK r \in Presented(g) : TRUE
    OBVIOUS
  <2> DEFINE o == req[r].root
  <2>2. o \in Requests /\ Begun(o) /\ IsCode(o) /\ req[o].grant = g
    BY <1>1, <2>1 DEF RequestTrue, RootTrue
  <2> HIDE DEF o
  <2>3. o \in Presented(g) /\ req[o].cred \notin RefreshTokens
    BY <2>2, DocKinds DEF IsCode, Presented
  <2>4. req[o].reply = "tokens"
    BY <1>1, <2>3
  <2> QED
    BY <2>2, <2>3, <2>4
<1>4. \A r \in T : \E q \in T : req[q].cred = Refresh(r)
  <2> SUFFICES ASSUME NEW r \in T PROVE \E q \in T : req[q].cred = Refresh(r)
    OBVIOUS
  <2>1. r \in Presented(g) /\ r \in Requests /\ req[r].grant = g /\ req[r].reply = "tokens" /\ RequestTrue(r)
    BY <1>1
  <2>2. RequestTrue(r) /\ Refresh(r) \in RefreshTokens /\ Refresh(r)[2] = r /\ Refresh(r) \notin Codes
    BY <2>1, DocFacts
  <2>3. /\ Exists(Refresh(r)) /\ ~doc[Refresh(r)].revoked
        /\ doc[Refresh(r)].used => \E q \in Requests : req[q].cred = Refresh(r) /\ Answered(q)
    BY <1>2, <2>1, <2>2 DEF RequestTrue, IntactTrue
  <2>4. doc[Refresh(r)].grant = g /\ doc[Refresh(r)].origin = req[r].root
    BY <2>1, <2>2, <2>3 DEF RequestTrue, TokensTrue
  <2>5. req[r].root \notin lapsed
    <3>1. req[r].root \in Presented(g)
      BY <1>1, <2>1 DEF RequestTrue, RootTrue, Presented
    <3> QED
      BY <1>1, <3>1
  <2>6. doc[Refresh(r)].used
    BY <2>1, <2>2, <2>3, <2>4, <2>5 DEF Known, Usable, Live
  <2>7. PICK q \in Requests : req[q].cred = Refresh(r) /\ Answered(q)
    BY <2>3, <2>6
  <2>8. RequestTrue(q)
    BY DEF IdpInv
  <2>9. Begun(q)
    BY <2>7, <2>8 DEF RequestTrue, ReplyTrue, Answered, At, Begun
  <2>10. req[q].grant = g
    BY <2>1, <2>2, <2>7, <2>8, <2>9 DEF RequestTrue, CredTrue, GrantOf
  <2>11. q \in Presented(g)
    BY <2>9, <2>10 DEF Presented
  <2>12. req[q].reply = "tokens"
    BY <1>1, <2>7, <2>11 DEF Answered, At
  <2> QED
    BY <2>7, <2>11, <2>12
<1> DEFINE f == [r \in T |-> CHOOSE q \in T : req[q].cred = Refresh(r)]
<1>5. \A r \in T : f[r] \in T /\ req[f[r]].cred = Refresh(r)
  BY <1>4
<1>6. f \in [T -> T \ {o}]
  <2>1. \A r \in T : f[r] # o
    <3> SUFFICES ASSUME NEW r \in T, f[r] = o PROVE FALSE
      OBVIOUS
    <3>1. req[o].cred = Refresh(r) /\ r \in Requests
      BY <1>1, <1>5
    <3> HIDE DEF f, T
    <3> QED
      BY <1>3, <3>1, DocFacts DEF IsCode
  <2>2. f = [r \in T |-> f[r]]
    OBVIOUS
  <2> HIDE DEF f
  <2> QED
    BY <1>5, <2>1, <2>2
<1>7. IsFiniteSet(T)
  <2>1. T \subseteq {r \in Requests : Begun(r)}
    BY DEF Presented
  <2> QED
    BY <2>1, FS_Subset DEF IdpInv, FiniteInv
<1> HIDE DEF T, f
<1>8. IsFiniteSet(T \ {o}) /\ Cardinality(T \ {o}) < Cardinality(T)
  <2>1. o \in T
    BY <1>3
  <2>2. IsFiniteSet(T \ {o}) /\ Cardinality(T \ {o}) = Cardinality(T) - 1
    BY <1>7, <2>1, FS_RemoveElement
  <2>3. Cardinality(T) \in Nat
    BY <1>7, FS_CardinalityType
  <2> QED
    BY <2>2, <2>3
<1>9. PICK x, y \in T : x # y /\ f[x] = f[y]
  BY <1>6, <1>7, <1>8, FS_PigeonHole
<1>10. x \in Requests /\ y \in Requests /\ Refresh(x) = Refresh(y)
  BY <1>1, <1>5, <1>9 DEF T
<1> QED
  BY <1>9, <1>10, DocFacts

\* A client that is not disturbed, by a refusal or by a response lost behind the
\* last write, keeps a refresh token it knows and can use.
THEOREM StrandedHolds == Spec => []NeverStranded
BY NeverStrandedInv, IdpInvariant, PTL

-----------------------------------------------------------------------------
(* The Agent OP: what a connection and a call know of the Human IdP.       *)

\* A refresh token that was given out for the connection of a.
Given(a, t) == \E r \in Requests : t = Refresh(r) /\ req[r].reply = "tokens" /\ req[r].grant = a

\* The request a call is waiting for, or has tokens from that it has not saved.
Holding(a, p) == call[a][p].pc \in {"wait", "remember", "save"}

ConnTrue(a) ==
  /\ conn[a].status = "absent" => conn[a] = NoConn
  /\ conn[a].token # NoToken => Given(a, conn[a].token)
  /\ conn[a].status = "ACTIVE" => conn[a].token # NoToken
  /\ conn[a] # NoConn => \E q \in Consents : call[a][q].pc = "over" /\ call[a][q].result = "ok"
  /\ a \in stopped => conn[a] # NoConn

\* The request with which a consent has got its tokens.
Exchanged(a, r) ==
  r \in Requests /\ Begun(r) /\ req[r].grant = a /\ req[r].cred = Code(a) /\ req[r].reply = "tokens"

CallTrue(a, p) ==
  /\ p \in Consents => call[a][p].pc \in {"idle", "use", "exchange", "wait", "over"}
  /\ call[a][p].pc \in {"use", "exchange"} => p \in Consents
  /\ p \in Consents /\ call[a][p].result = "ok" => call[a][p].pc = "over" /\ Exchanged(a, call[a][p].http)
  /\ p \in Cleanups => call[a][p].pc \in {"idle", "hand_back", "handing", "forget", "keep", "over"}
  /\ p \notin Consents /\ conn[a] = NoConn => call[a][p].pc = "idle"
  /\ p \notin Consents /\ call[a][p].pc \notin {"idle", "connection", "keep", "over"} => Given(a, call[a][p].token)
  /\ call[a][p].token # NoToken => Given(a, call[a][p].token)
  /\ Holding(a, p) \/ call[a][p].pc \in {"handing", "forget"} =>
       /\ call[a][p].http \in Requests
       /\ Begun(call[a][p].http)
       /\ req[call[a][p].http].grant = a
       /\ req[call[a][p].http].cred = IF p \in Consents THEN Code(a) ELSE call[a][p].token
  /\ call[a][p].pc \in {"remember", "save"} => req[call[a][p].http].reply = "tokens"
  /\ call[a][p].pc = "forget" => At(call[a][p].http, "over") /\ req[call[a][p].http].reply = "revoked"
  /\ call[a][p].result = "revoked" =>
       \E r \in Requests : At(r, "over") /\ req[r].grant = a /\ req[r].reply = "revoked"

\* Two returns from a consent send requests of their own.
Exchanging(a, p) == call[a][p].pc = "wait" \/ call[a][p].result = "ok"
ConsentTrue(a) ==
  \A p, q \in Consents :
    Exchanging(a, p) /\ Exchanging(a, q) /\ call[a][p].http = call[a][q].http => p = q

\* Of two requests for a grant, one came when the other was over, or neither was
\* alone.
MetTrue ==
  \A r, q \in Requests :
    r # q /\ Begun(r) /\ Begun(q) /\ req[r].grant = req[q].grant =>
      r \in req[q].after \/ q \in req[r].after \/ (~req[r].alone /\ ~req[q].alone)

\* A token that a call has not saved yet is held by nobody else.
Unheld(t) ==
  /\ \A b \in Grants : conn[b].token # t
  /\ \A b \in Grants, q \in Calls : call[b][q].token # t
  /\ \A q \in Requests : req[q].cred # t
HeldTrue ==
  /\ \A a \in Grants, p \in Calls : Holding(a, p) => Unheld(Refresh(call[a][p].http))
  /\ \A a, b \in Grants, p, q \in Calls :
       Holding(a, p) /\ Holding(b, q) /\ call[a][p].http = call[b][q].http => a = b /\ p = q

\* Without a failure, without a token presented twice and before a cleanup.
Smooth(a) ==
  /\ faults = 0
  /\ ~TwiceSpent(a)
  /\ \A p \in Cleanups : call[a][p].pc = "idle"
Sound(a) ==
  \A r \in Presented(a) :
    /\ req[r].round = 1
    /\ req[r].pc \in Issuing \union {"over"}
    /\ At(r, "over") => req[r].reply = "tokens"
SmoothTrue(a) ==
  Smooth(a) =>
    /\ Sound(a)
    /\ \A p \in Subjects :
         call[a][p].pc \in {"idle", "connection", "spend", "wait", "remember", "save", "over"}
    /\ conn[a].token # NoToken =>
         \A r \in Requests : req[r].cred = conn[a].token =>
           \E p \in Subjects : Holding(a, p) /\ call[a][p].http = r

CleanedTrue(a) ==
  faults = 0 /\ ~TwiceSpent(a) => \A p \in Cleanups : call[a][p].pc = "over" => conn[a].status = "REVOKED"

SInv ==
  /\ STypeOK /\ IdpInv
  /\ session = Grants /\ lapsed = {}
  /\ \A a \in Grants : ConnTrue(a) /\ SmoothTrue(a) /\ CleanedTrue(a) /\ ConsentTrue(a)
  /\ \A a \in Grants, p \in Calls : CallTrue(a, p)
  /\ HeldTrue /\ MetTrue

-----------------------------------------------------------------------------
(* The Agent OP.                                                           *)

\* One call continues, or opens, as c; nothing else changes.
Continues(a, p, c) ==
  /\ call' \in [Grants -> [Calls -> Call]]
  /\ call'[a][p] = c
  /\ \A b \in Grants, q \in Calls : b # a \/ q # p => call'[b][q] = call[b][q]

\* What each form of update makes of the call.
LEMMA ContinuesView ==
  ASSUME call \in [Grants -> [Calls -> Call]], NEW a \in Grants, NEW p \in Calls, NEW c \in Call,
         call' = [call EXCEPT ![a][p] = c]
  PROVE  Continues(a, p, c)
<1> DEFINE row == [call[a] EXCEPT ![p] = c]
<1>1. row \in [Calls -> Call] /\ row[p] = c /\ \A q \in Calls : q # p => row[q] = call[a][q]
  OBVIOUS
<1>2. call' = [call EXCEPT ![a] = row]
  OBVIOUS
<1> HIDE DEF row
<1>3. call' \in [Grants -> [Calls -> Call]] /\ call'[a] = row /\ \A b \in Grants : b # a => call'[b] = call[b]
  BY <1>1, <1>2
<1> QED
  BY <1>1, <1>3 DEF Continues

CallPcs == {"idle", "use", "exchange", "connection", "spend", "wait", "remember", "save", "history",
            "mark", "hand_back", "handing", "forget", "keep", "over"}

LEMMA CallGotoView ==
  ASSUME call \in [Grants -> [Calls -> Call]], NEW a \in Grants, NEW p \in Calls, NEW pc \in CallPcs,
         CallGoto(a, p, pc)
  PROVE  \E c \in Call :
           /\ Continues(a, p, c) /\ c.pc = pc /\ c.token = call[a][p].token
           /\ c.http = call[a][p].http /\ c.result = call[a][p].result
<1> DEFINE c == [call[a][p] EXCEPT !.pc = pc]
<1>1. /\ c \in Call /\ c.pc = pc /\ c.token = call[a][p].token
      /\ c.http = call[a][p].http /\ c.result = call[a][p].result
  <2>1. call[a][p] \in Call
    OBVIOUS
  <2> QED
    BY <2>1 DEF Call, CallPcs
<1>2. call' = [call EXCEPT ![a][p] = c]
  BY DEF CallGoto
<1> HIDE DEF c
<1> QED
  BY <1>1, <1>2, ContinuesView

LEMMA ReturnsView ==
  ASSUME call \in [Grants -> [Calls -> Call]], NEW a \in Grants, NEW p \in Calls, NEW result \in Results,
         Returns(a, p, result)
  PROVE  \E c \in Call :
           /\ Continues(a, p, c) /\ c.pc = "over" /\ c.token = call[a][p].token
           /\ c.http = call[a][p].http /\ c.result = result
<1> DEFINE c == [call[a][p] EXCEPT !.pc = "over", !.result = result]
<1>1. /\ c \in Call /\ c.pc = "over" /\ c.token = call[a][p].token
      /\ c.http = call[a][p].http /\ c.result = result
  <2>1. call[a][p] \in Call
    OBVIOUS
  <2> QED
    BY <2>1 DEF Call
<1>2. call' = [call EXCEPT ![a][p] = c]
  BY DEF Returns
<1> HIDE DEF c
<1> QED
  BY <1>1, <1>2, ContinuesView

LEMMA SendsView ==
  ASSUME call \in [Grants -> [Calls -> Call]], NEW a \in Grants, NEW p \in Calls,
         NEW r \in Requests, NEW pc \in CallPcs, Sends(a, p, r, pc)
  PROVE  \E c \in Call :
           /\ Continues(a, p, c) /\ c.pc = pc /\ c.token = call[a][p].token
           /\ c.http = r /\ c.result = call[a][p].result
<1> DEFINE c == [call[a][p] EXCEPT !.pc = pc, !.http = r]
<1>1. /\ c \in Call /\ c.pc = pc /\ c.token = call[a][p].token
      /\ c.http = r /\ c.result = call[a][p].result
  <2>1. call[a][p] \in Call
    OBVIOUS
  <2> QED
    BY <2>1 DEF Call, CallPcs
<1>2. call' = [call EXCEPT ![a][p] = c]
  BY DEF Sends
<1> HIDE DEF c
<1> QED
  BY <1>1, <1>2, ContinuesView

LEMMA OpensView ==
  ASSUME call \in [Grants -> [Calls -> Call]], NEW a \in Grants, NEW p \in Calls, NEW pc \in CallPcs,
         NEW token \in RefreshTokens \union {NoToken}, Opens(a, p, pc, token)
  PROVE  \E c \in Call :
           Continues(a, p, c) /\ c.pc = pc /\ c.token = token /\ c.result = "none"
<1> DEFINE c == [Waiting EXCEPT !.pc = pc, !.token = token]
<1>1. c \in Call /\ c.pc = pc /\ c.token = token /\ c.result = "none"
  BY DEF Waiting, Call, CallPcs, Results
<1>2. call' = [call EXCEPT ![a][p] = c]
  BY DEF Opens
<1> HIDE DEF c
<1> QED
  BY <1>1, <1>2, ContinuesView

LEMMA TokenFacts ==
  /\ NoToken \notin RefreshTokens
  /\ \A r \in Requests : Refresh(r) # NoToken /\ Refresh(r) \in RefreshTokens
  /\ \A a, t : Given(a, t) => t \in RefreshTokens
<1>1. NoToken \notin RefreshTokens
  BY DEF NoToken, RefreshTokens
<1>2. \A r \in Requests : Refresh(r) \in RefreshTokens
  BY DocFacts
<1> QED
  BY <1>1, <1>2 DEF Given

\* A step of the Agent OP alone: what call p may do for a.
Holds(c) == c.pc \in {"wait", "remember", "save"}
AgentStep(a, p, c) ==
  /\ UNCHANGED <<doc, session, auth, req, lapsed>>
  /\ faults' \in 0 .. MaxFaults /\ (faults' = 0 => faults = 0)
  /\ Continues(a, p, c)
  /\ c.pc # "idle"
  /\ conn' \in [Grants -> Connection]
  /\ \A b \in Grants \ {a} : conn'[b] = conn[b]
  /\ used' \subseteq Grants
  /\ rotations' \subseteq RefreshTokens /\ stopped' = stopped /\ reported' \subseteq Grants
  /\ conn'[a] = NoConn => conn[a] = NoConn
  /\ conn[a].status = "REVOKED" /\ ~TwiceSpent(a) => conn'[a].status = "REVOKED"
  /\ p \in Consents /\ (c.pc = "wait" \/ c.result = "ok") => Exchanging(a, p) /\ c.http = call[a][p].http
  /\ Holds(c) => Holding(a, p) /\ c.http = call[a][p].http
  /\ c.token \in {call[a][p].token, conn[a].token, NoToken}
  /\ \/ conn'[a].token \in {conn[a].token, NoToken}
     \/ Holding(a, p) /\ ~Holds(c) /\ conn'[a].token = NewToken(a, p)
  /\ p \in Cleanups /\ c.pc = "over" /\ faults' = 0 => conn'[a].status = "REVOKED"
  /\ p \in Subjects /\ Smooth(a) /\ faults' = 0 =>
       /\ c.pc \in {"connection", "spend", "wait", "remember", "save", "over"}
       /\ Holding(a, p) /\ ~Holds(c) => conn'[a].token = NewToken(a, p)

LEMMA AgentStepInv ==
  ASSUME SInv, NEW a \in Grants, NEW p \in Calls, NEW c \in Call, AgentStep(a, p, c),
         ConnTrue(a)', CallTrue(a, p)'
  PROVE  SInv'
<1>1. /\ STypeOK /\ IdpInv /\ session = Grants /\ lapsed = {}
      /\ \A b \in Grants : ConnTrue(b) /\ SmoothTrue(b) /\ CleanedTrue(b) /\ ConsentTrue(b)
      /\ \A b \in Grants, q \in Calls : CallTrue(b, q)
      /\ HeldTrue /\ MetTrue
  BY DEF SInv
<1>2. /\ UNCHANGED <<doc, session, auth, req, lapsed>> /\ call' \in [Grants -> [Calls -> Call]]
      /\ call'[a][p] = c
      /\ \A b \in Grants, q \in Calls : b # a \/ q # p => call'[b][q] = call[b][q]
      /\ \A b \in Grants \ {a} : conn'[b] = conn[b]
  BY DEF AgentStep, Continues
<1>3. IdpInv' /\ STypeOK'
  <2>1. TypeOK'
    BY <1>1 DEF AgentStep, STypeOK, TypeOK
  <2>2. IdpInv'
    BY <1>1, <1>2, <2>1, WorldInv
  <2> QED
    BY <1>1, <1>2, <2>1, <2>2 DEF AgentStep, STypeOK
<1>4. \A b \in Grants : ConnTrue(b)'
  <2> SUFFICES ASSUME NEW b \in Grants, b # a PROVE ConnTrue(b)'
    OBVIOUS
  <2>1. /\ \A q \in Consents : call'[b][q] = call[b][q]
        /\ conn'[b] = conn[b] /\ stopped' = stopped
    BY <1>2 DEF AgentStep, Calls
  <2>2. ConnTrue(b)
    BY <1>1
  <2> QED
    BY <1>2, <2>1, <2>2 DEF ConnTrue, Given, Refresh
<1>5. \A b \in Grants, q \in Calls : CallTrue(b, q)'
  <2> SUFFICES ASSUME NEW b \in Grants, NEW q \in Calls, b # a \/ q # p PROVE CallTrue(b, q)'
    OBVIOUS
  <2>1. call'[b][q] = call[b][q] /\ (conn'[b] = NoConn => conn[b] = NoConn)
    BY <1>2 DEF AgentStep
  <2>2. CallTrue(b, q)
    BY <1>1
  <2> QED
    BY <1>2, <2>1, <2>2 DEF CallTrue, Exchanged, Given, Refresh, Holding, Begun, At, Code
<1>6. \A b \in Grants : CleanedTrue(b)'
  <2> SUFFICES ASSUME NEW b \in Grants, faults' = 0, ~TwiceSpent(b)', NEW q \in Cleanups, call'[b][q].pc = "over"
               PROVE  conn'[b].status = "REVOKED"
    BY DEF CleanedTrue
  <2>1. q \in Calls /\ faults = 0 /\ ~TwiceSpent(b)
    BY <1>2 DEF Calls, AgentStep, TwiceSpent, Presented, Begun
  <2>2. CASE b = a /\ q = p
    BY <1>2, <2>2 DEF AgentStep
  <2>3. CASE b # a \/ q # p
    <3>1. conn[b].status = "REVOKED"
      BY <1>1, <1>2, <2>1, <2>3 DEF CleanedTrue
    <3> QED
      BY <1>2, <2>1, <3>1 DEF AgentStep
  <2> QED
    BY <2>2, <2>3
<1>7. \A b \in Grants, q \in Calls : Holding(b, q) => call[b][q].http \in Requests /\ Unheld(Refresh(call[b][q].http))
  BY <1>1 DEF CallTrue, HeldTrue
<1>8. \A b \in Grants : SmoothTrue(b)'
  <2> SUFFICES ASSUME NEW b \in Grants, Smooth(b)' PROVE SmoothTrue(b)'
    BY DEF SmoothTrue
  <2>1. TwiceSpent(b)' <=> TwiceSpent(b)
    BY <1>2 DEF TwiceSpent, Presented, Begun
  <2>2. CASE b # a
    <3>1. /\ \A q \in Calls : call'[b][q] = call[b][q]
          /\ conn'[b] = conn[b]
      BY <1>2, <2>2
    <3>2. Smooth(b)
      BY <2>1, <3>1 DEF Smooth, AgentStep, Calls
    <3>3. SmoothTrue(b)
      BY <1>1
    <3> QED
      BY <1>2, <3>1, <3>2, <3>3 DEF SmoothTrue, Sound, Presented, Begun, At, Holding, Calls
  <2>3. CASE b = a
    <3>1. p \notin Cleanups /\ Smooth(a) /\ faults' = 0
      BY <1>2, <2>1, <2>3 DEF Smooth, AgentStep, Calls
    <3>2. /\ Sound(a)
          /\ \A q \in Subjects :
               call[a][q].pc \in {"idle", "connection", "spend", "wait", "remember", "save", "over"}
          /\ conn[a].token # NoToken =>
               \A r \in Requests : req[r].cred = conn[a].token =>
                 \E q \in Subjects : Holding(a, q) /\ call[a][q].http = r
      BY <1>1, <3>1 DEF SmoothTrue
    <3>3. Sound(a)'
      BY <1>2, <3>2 DEF Sound, Presented, Begun, At
    <3>4. \A q \in Subjects :
               call'[a][q].pc \in {"idle", "connection", "spend", "wait", "remember", "save", "over"}
      BY <1>2, <3>1, <3>2 DEF AgentStep, Calls
    <3>5. ASSUME conn'[a].token # NoToken, NEW r \in Requests, req[r].cred = conn'[a].token
          PROVE  \E q \in Subjects : Holding(a, q)' /\ call'[a][q].http = r
      <4>1. conn'[a].token # NewToken(a, p) \/ ~Holding(a, p)
        BY <1>7, <3>5 DEF Unheld, NewToken, Refresh
      <4>2. conn'[a].token = conn[a].token
        BY <3>5, <4>1 DEF AgentStep
      <4>3. PICK q \in Subjects : Holding(a, q) /\ call[a][q].http = r
        BY <3>2, <3>5, <4>2
      <4>4. CASE q # p
        BY <1>2, <4>3, <4>4 DEF Holding, Calls
      <4>5. CASE q = p
        <5>1. Holds(c) /\ c.http = r
          BY <3>1, <4>1, <4>3, <4>5 DEF AgentStep
        <5> QED
          BY <1>2, <4>5, <5>1 DEF Holding, Holds
      <4> QED
        BY <4>4, <4>5
    <3> QED
      BY <1>2, <2>3, <3>3, <3>4, <3>5 DEF SmoothTrue
  <2> QED
    BY <2>2, <2>3
<1>9. HeldTrue'
  <2>1. \A b \in Grants, q \in Calls : Holding(b, q)' => Holding(b, q) /\ call'[b][q].http = call[b][q].http
    BY <1>2 DEF AgentStep, Holding, Holds
  <2>2. ASSUME NEW b \in Grants, NEW q \in Calls, Holding(b, q)' PROVE Unheld(Refresh(call[b][q].http))'
    <3>1. PICK t : t = Refresh(call[b][q].http)
      OBVIOUS
    <3>2. Refresh(call[b][q].http)' = t /\ Holding(b, q) /\ call[b][q].http \in Requests /\ Unheld(t)
      BY <1>7, <2>1, <2>2, <3>1 DEF Refresh
    <3>3. t # NoToken
      BY <3>1, <3>2, TokenFacts
    <3>4. Holding(a, p) /\ ~Holds(c) => NewToken(a, p) # t
      <4> SUFFICES ASSUME Holding(a, p), ~Holds(c), NewToken(a, p) = t PROVE FALSE
        OBVIOUS
      <4>1. call[a][p].http \in Requests
        BY <1>7
      <4>2. call[a][p].http = call[b][q].http
        BY <3>1, <3>2, <4>1, DocFacts DEF NewToken, Refresh
      <4>3. b = a /\ q = p
        BY <1>1, <3>2, <4>2 DEF HeldTrue
      <4> QED
        BY <1>2, <2>2, <4>3 DEF Holding, Holds
    <3>5. \A x \in Grants : conn'[x].token # t
      BY <1>2, <3>2, <3>3, <3>4 DEF Unheld, AgentStep
    <3>6. \A x \in Grants, y \in Calls : call'[x][y].token # t
      BY <1>2, <3>2, <3>3 DEF Unheld, AgentStep
    <3>7. \A x \in Requests : req'[x].cred # t
      BY <1>2, <3>2 DEF Unheld
    <3> QED
      BY <3>2, <3>5, <3>6, <3>7 DEF Unheld
  <2> QED
    BY <1>1, <2>1, <2>2 DEF HeldTrue
<1>10. MetTrue'
  BY <1>1, <1>2 DEF MetTrue, Begun
<1>11. ASSUME NEW b \in Grants PROVE ConsentTrue(b)'
  <2>1. \A q \in Consents : Exchanging(b, q)' => Exchanging(b, q) /\ call'[b][q].http = call[b][q].http
    <3> SUFFICES ASSUME NEW q \in Consents, Exchanging(b, q)'
                 PROVE  Exchanging(b, q) /\ call'[b][q].http = call[b][q].http
      OBVIOUS
    <3>1. CASE b = a /\ q = p
      BY <1>2, <3>1 DEF AgentStep, Exchanging
    <3>2. CASE b # a \/ q # p
      BY <1>2, <3>2 DEF Exchanging, Calls
    <3> QED
      BY <3>1, <3>2
  <2> QED
    BY <1>1, <2>1 DEF ConsentTrue
<1> QED
  BY <1>1, <1>2, <1>3, <1>4, <1>5, <1>6, <1>8, <1>9, <1>10, <1>11 DEF SInv

\* A step of the Human IdP alone, behind a request that was there before.
IdpOnly ==
  /\ UNCHANGED <<agent, call, session, lapsed>>
  /\ faults' = 0 => faults = 0
  /\ \A q \in Requests :
       /\ Begun(q)' <=> Begun(q)
       /\ req'[q].cred = req[q].cred /\ req'[q].grant = req[q].grant
       /\ req'[q].after = req[q].after /\ req'[q].alone = req[q].alone
       /\ At(q, "over") => req'[q] = req[q]
  /\ \A a \in Grants : faults' = 0 /\ Sound(a) => Sound(a)'

LEMMA GivenOver ==
  ASSUME IdpInv, NEW q \in Requests, req[q].reply = "tokens"
  PROVE  At(q, "over") /\ Begun(q)
BY DEF IdpInv, RequestTrue, ReplyTrue, At, Begun

LEMMA IdpOnlyInv ==
  ASSUME SInv, IdpInv', IdpOnly
  PROVE  SInv'
<1>1. /\ STypeOK /\ IdpInv /\ session = Grants /\ lapsed = {}
      /\ \A b \in Grants : ConnTrue(b) /\ SmoothTrue(b) /\ CleanedTrue(b) /\ ConsentTrue(b)
      /\ \A b \in Grants, q \in Calls : CallTrue(b, q)
      /\ HeldTrue /\ MetTrue
  BY DEF SInv
<1>2. /\ UNCHANGED <<used, conn, rotations, stopped, reported, call>>
      /\ session' = session /\ lapsed' = lapsed
  BY DEF IdpOnly, agent
<1>3. STypeOK' /\ session' = Grants /\ lapsed' = {}
  BY <1>1, <1>2 DEF STypeOK, IdpInv
<1>4. \A b, t : Given(b, t) => Given(b, t)'
  <2> SUFFICES ASSUME NEW b, NEW t, Given(b, t) PROVE Given(b, t)'
    OBVIOUS
  <2>1. PICK q \in Requests : t = Refresh(q) /\ req[q].reply = "tokens" /\ req[q].grant = b
    BY DEF Given
  <2>2. req'[q] = req[q]
    BY <1>1, <2>1, GivenOver DEF IdpOnly
  <2> QED
    BY <2>1, <2>2 DEF Given, Refresh
<1>5. \A b \in Grants : ConnTrue(b)' /\ CleanedTrue(b)' /\ ConsentTrue(b)'
  <2> SUFFICES ASSUME NEW b \in Grants PROVE ConnTrue(b)' /\ CleanedTrue(b)' /\ ConsentTrue(b)'
    OBVIOUS
  <2>1. ConnTrue(b) /\ CleanedTrue(b) /\ ConsentTrue(b)
    BY <1>1
  <2>2. TwiceSpent(b)' <=> TwiceSpent(b)
    BY DEF TwiceSpent, Presented, IdpOnly
  <2>3. ConnTrue(b)'
    BY <1>2, <1>4, <2>1 DEF ConnTrue
  <2>4. CleanedTrue(b)'
    BY <1>2, <2>1, <2>2 DEF CleanedTrue, IdpOnly
  <2>5. ConsentTrue(b)'
    BY <1>2, <2>1 DEF ConsentTrue, Exchanging
  <2> QED
    BY <2>3, <2>4, <2>5
<1>6. ASSUME NEW b \in Grants, NEW q \in Calls PROVE CallTrue(b, q)'
  <2>1. CallTrue(b, q)
    BY <1>1
  <2>2. call'[b][q] = call[b][q] /\ conn'[b] = conn[b]
    BY <1>2
  <2>3. PICK h : h = call[b][q].http
    OBVIOUS
  <2>4. ASSUME h \in Requests
        PROVE  /\ Begun(h)' <=> Begun(h)
               /\ req'[h].cred = req[h].cred /\ req'[h].grant = req[h].grant
               /\ At(h, "over") => req'[h] = req[h]
               /\ req[h].reply = "tokens" => req'[h] = req[h]
    BY <1>1, <2>4, GivenOver DEF IdpOnly
  <2>5. (Holding(b, q) \/ call[b][q].pc \in {"handing", "forget"} =>
       /\ call[b][q].http \in Requests
       /\ Begun(call[b][q].http)
       /\ req[call[b][q].http].grant = b
       /\ req[call[b][q].http].cred = IF q \in Consents THEN Code(b) ELSE call[b][q].token)'
    <3>1. Holding(b, q)' \/ call'[b][q].pc \in {"handing", "forget"} =>
            /\ h \in Requests /\ Begun(h)' /\ req'[h].grant = b
            /\ req'[h].cred = IF q \in Consents THEN Code(b) ELSE call[b][q].token
      BY <2>1, <2>2, <2>3, <2>4 DEF CallTrue, Holding
    <3> QED
      BY <2>2, <2>3, <3>1 DEF Begun, Code
  <2>6. (/\ call[b][q].pc \in {"remember", "save"} => req[call[b][q].http].reply = "tokens"
         /\ call[b][q].pc = "forget" => At(call[b][q].http, "over") /\ req[call[b][q].http].reply = "revoked")'
    <3>1. /\ call[b][q].pc \in {"remember", "save"} => req'[h].reply = "tokens"
          /\ call[b][q].pc = "forget" => req'[h].pc = "over" /\ req'[h].reply = "revoked"
      BY <2>1, <2>3, <2>4 DEF CallTrue, Holding, At
    <3> QED
      BY <2>2, <2>3, <3>1 DEF At
  <2>7. (call[b][q].result = "revoked" =>
          \E r \in Requests : At(r, "over") /\ req[r].grant = b /\ req[r].reply = "revoked")'
    BY <2>1, <2>2 DEF CallTrue, IdpOnly, At
  <2>8. (/\ q \in Consents => call[b][q].pc \in {"idle", "use", "exchange", "wait", "over"}
         /\ call[b][q].pc \in {"use", "exchange"} => q \in Consents
         /\ q \in Cleanups => call[b][q].pc \in {"idle", "hand_back", "handing", "forget", "keep", "over"}
         /\ q \notin Consents /\ conn[b] = NoConn => call[b][q].pc = "idle")'
    BY <2>1, <2>2 DEF CallTrue
  <2>9. (/\ q \notin Consents /\ call[b][q].pc \notin {"idle", "connection", "keep", "over"} => Given(b, call[b][q].token)
         /\ call[b][q].token # NoToken => Given(b, call[b][q].token))'
    <3>1. PICK t : t = call[b][q].token
      OBVIOUS
    <3>2. call'[b][q].token = t /\ (Given(b, t) => Given(b, t)')
      BY <1>4, <2>2, <3>1
    <3> QED
      BY <2>1, <2>2, <3>1, <3>2 DEF CallTrue, Given, Refresh
  <2>10. (q \in Consents /\ call[b][q].result = "ok" =>
            call[b][q].pc = "over" /\ Exchanged(b, call[b][q].http))'
    <3>1. q \in Consents /\ call'[b][q].result = "ok" =>
            /\ call'[b][q].pc = "over" /\ h \in Requests /\ Begun(h)' /\ req'[h].grant = b
            /\ req'[h].cred = Code(b) /\ req'[h].reply = "tokens"
      BY <2>1, <2>2, <2>3, <2>4 DEF CallTrue, Exchanged
    <3> QED
      BY <2>2, <2>3, <3>1 DEF Exchanged, Begun, Code
  <2> QED
    BY <2>5, <2>6, <2>7, <2>8, <2>9, <2>10 DEF CallTrue
<1>7. \A b \in Grants : SmoothTrue(b)'
  <2> SUFFICES ASSUME NEW b \in Grants, Smooth(b)' PROVE SmoothTrue(b)'
    BY DEF SmoothTrue
  <2>1. Smooth(b)
    BY <1>2 DEF Smooth, TwiceSpent, Presented, IdpOnly
  <2>2. SmoothTrue(b) /\ faults' = 0
    BY <1>1 DEF Smooth
  <2> QED
    BY <1>2, <2>1, <2>2 DEF SmoothTrue, IdpOnly, Holding
<1>8. HeldTrue'
  <2>1. \A b \in Grants, q \in Calls : Holding(b, q)' <=> Holding(b, q)
    BY <1>2 DEF Holding
  <2>2. \A t : Unheld(t) => Unheld(t)'
    BY <1>2 DEF Unheld, IdpOnly
  <2> QED
    BY <1>1, <1>2, <2>1, <2>2 DEF HeldTrue, Refresh
<1>9. MetTrue'
  BY <1>1 DEF MetTrue, IdpOnly
<1> QED
  BY <1>3, <1>5, <1>6, <1>7, <1>8, <1>9 DEF SInv

LEMMA TokenStepView ==
  ASSUME IdpInv, NEW r \in Requests, TokenStep(r)
  PROVE  /\ UNCHANGED <<session, lapsed, faults>>
         /\ \/ \E pc \in Issuing : \E e : Proceeds(r, pc, e)
            \/ Closes(r, "tokens")
            \/ At(r, "session") /\ req[r].grant \notin session
            \/ At(r, "code_again") /\ ~Live(req[r].cred)
<1>1. TypeOK /\ RequestTrue(r)
  BY RequestFacts
<1>2. CASE ValidateSession(r)
  BY <1>1, <1>2, GotoProceeds DEF ValidateSession, Issuing
<1>3. CASE ReadCodeAgain(r)
  BY <1>1, <1>3, GotoProceeds DEF ReadCodeAgain, Issuing
<1>4. ASSUME ConsumeCodeGet(r) \/ ConsumeRefreshTokenGet(r)
      PROVE  /\ UNCHANGED <<session, lapsed, faults>>
             /\ \E pc \in Issuing : \E e : Proceeds(r, pc, e)
  <2>1. Begun(r) /\ req[r].cred \in Docs
    BY <1>4, RequestFacts DEF ConsumeCodeGet, ConsumeRefreshTokenGet, ConsumeGet, At, Begun
  <2>2. Live(req[r].cred) => doc[req[r].cred] \in Document
    BY <1>1, <2>1, DocType DEF Live
  <2>3. PICK to \in {"code_put", "old_put"}, absent \in {"code_again", "answer"} :
          /\ IF Live(req[r].cred)
             THEN req' = [req EXCEPT ![r].pc = to, ![r].entry = doc[req[r].cred]]
             ELSE Goto(r, absent)
          /\ UNCHANGED <<session, lapsed, faults>>
    BY <1>4 DEF ConsumeCodeGet, ConsumeRefreshTokenGet, ConsumeGet
  <2>4. to \in Issuing /\ absent \in Issuing
    BY DEF Issuing
  <2> QED
    BY <1>1, <2>2, <2>3, <2>4, GetProceeds, GotoProceeds
<1>5. CASE ConsumeCodePut(r) \/ ConsumeRefreshTokenPut(r)
  BY <1>1, <1>5, GotoProceeds DEF ConsumeCodePut, ConsumeRefreshTokenPut, ConsumePut, Issuing
<1>6. CASE SetAccessToken(r) \/ GetAccessToken(r) \/ PutAccessToken(r)
  BY <1>1, <1>6, GotoProceeds DEF SetAccessToken, GetAccessToken, PutAccessToken, Issuing
<1>7. CASE SetRefreshToken(r)
  BY <1>1, <1>7, GotoProceeds DEF SetRefreshToken, Issuing
<1>8. CASE Answer(r)
  BY <1>1, <1>8, EndsCloses DEF Answer, Replies
<1> QED
  BY <1>2, <1>3, <1>4, <1>5, <1>6, <1>7, <1>8 DEF TokenStep

LEMMA IdpSteps ==
  ASSUME SInv, NEW r \in Requests, IdpStep(r)
  PROVE  SInv'
<1>1. /\ IdpInv /\ session = Grants /\ lapsed = {} /\ faults \in Nat /\ UNCHANGED <<agent, call>>
  BY ConstantsAssumption DEF SInv, IdpInv, TypeOK, IdpStep
<1>2. IdpInv' /\ Moves(r)
  BY <1>1, TokenSteps, DeletesRefreshToken, QueriesGrant, UpdatesGrant, FailsInv
     DEF IdpStep, RevocationStep
<1>3. faults' = faults \/ (faults' = faults + 1 /\ Fails(r))
  BY <1>1, TokenStepView
     DEF IdpStep, RevocationStep, DeleteRefreshToken, QueryGrant, UpdateGrant, Fails
<1>4. ASSUME NEW a \in Grants, faults' = 0, Sound(a) PROVE Sound(a)'
  <2>1. Presented(a)' = Presented(a)
    BY <1>1, <1>2, MovesKeep
  <2>2. CASE req[r].grant # a
    <3>1. r \notin Presented(a)
      BY <2>2 DEF Presented
    <3>2. \A q \in Presented(a) : req'[q] = req[q]
      BY <1>2, <3>1 DEF Moves, Presented
    <3> QED
      BY <1>4, <2>1, <3>2 DEF Sound, At
  <2>3. CASE req[r].grant = a
    <3>1. r \in Presented(a)
      BY <1>2, <2>3 DEF Presented, Moves, Underway, Begun
    <3>2. req[r].pc \in Issuing /\ req[r].round = 1
      BY <1>2, <1>4, <3>1 DEF Sound, Moves, Underway
    <3>3. TokenStep(r)
      BY <1>1, <1>3, <1>4, <3>2
         DEF IdpStep, RevocationStep, DeleteRefreshToken, QueryGrant, UpdateGrant, Fails, At, Issuing
    <3>4. ~(At(r, "code_again") /\ ~Live(req[r].cred))
      <4> SUFFICES ASSUME At(r, "code_again") PROVE Live(req[r].cred)
        OBVIOUS
      <4>1. EntryTrue(r) /\ CredTrue(r) /\ Begun(r)
        BY <1>1, <3>1 DEF IdpInv, RequestTrue, Presented
      <4>2. req[r].cred = Code(a) /\ auth[a] = "done"
        BY <2>3, <4>1, DocKinds DEF EntryTrue, CredTrue, At, IsCode, GrantOf
      <4>3. Untouched(a)
        BY <1>4 DEF Sound, Untouched
      <4>4. CodeTrue(a) /\ CodeIntact(a)
        BY <1>1 DEF IdpInv
      <4> QED
        BY <1>1, <4>2, <4>3, <4>4 DEF CodeTrue, CodeIntact, Live
    <3>5. (\E pc \in Issuing : \E e : Proceeds(r, pc, e)) \/ Closes(r, "tokens")
      BY <1>1, <2>3, <3>3, <3>4, TokenStepView
    <3>6. /\ req'[r].round = 1
          /\ req'[r].pc \in Issuing \union {"over"}
          /\ At(r, "over")' => req'[r].reply = "tokens"
      BY <3>2, <3>5 DEF Proceeds, Closes, At, Issuing
    <3>7. \A q \in Presented(a) : q # r => req'[q] = req[q]
      BY <1>2 DEF Moves, Presented
    <3> QED
      BY <1>4, <2>1, <3>6, <3>7 DEF Sound, At
  <2> QED
    BY <2>2, <2>3
<1>5. \A q \in Requests :
        /\ Begun(q)' <=> Begun(q)
        /\ req'[q].cred = req[q].cred /\ req'[q].grant = req[q].grant
        /\ req'[q].after = req[q].after /\ req'[q].alone = req[q].alone
        /\ At(q, "over") => req'[q] = req[q]
  BY <1>1, <1>2, MovesKeep DEF Moves
<1>6. IdpOnly
  BY <1>1, <1>2, <1>3, <1>4, <1>5 DEF IdpOnly, Moves
<1> QED
  BY <1>2, <1>6, IdpOnlyInv

LEMMA AuthorizesInv ==
  ASSUME SInv, NEW a \in Grants, Authorizes(a)
  PROVE  SInv'
<1>1. IdpInv'
  BY FindsSession, IssuesCode DEF Authorizes, SInv
<1>2. UNCHANGED <<req, session, lapsed, faults, agent, call>>
  BY DEF Authorizes, FindSession, IssueCode
<1>3. IdpOnly
  BY <1>2 DEF IdpOnly, Begun, Sound, Presented, At
<1> QED
  BY <1>1, <1>3, IdpOnlyInv

-----------------------------------------------------------------------------
\* A call of the Agent OP presents what it holds, and waits.
Presents(a, p, c, r, d, pc, reply) ==
  /\ Known(d) /\ GrantOf(d) = a /\ At(r, "idle")
  /\ BeginsAs(r, d, pc, reply)
  /\ UNCHANGED <<doc, session, auth, lapsed, faults, agent>>
  /\ Continues(a, p, c)
  /\ c.http = r /\ c.token = call[a][p].token /\ c.result = call[a][p].result
  /\ d = IF p \in Consents THEN Code(a) ELSE c.token
  /\ \/ p \in Consents /\ call[a][p].pc = "exchange" /\ c.pc = "wait"
     \/ p \notin Consents /\ call[a][p].pc = "spend" /\ c.pc = "wait"
     \/ p \notin Consents /\ call[a][p].pc = "hand_back" /\ c.pc = "handing"
  /\ c.pc = "wait" /\ Usable(d) => pc \in Issuing

LEMMA PresentsInv ==
  ASSUME SInv, IdpInv', NEW a \in Grants, NEW p \in Calls, NEW c \in Call, NEW r \in Requests,
         NEW d \in Credentials, NEW pc \in Issuing \union Revoking \union {"over"}, NEW reply,
         Presents(a, p, c, r, d, pc, reply)
  PROVE  SInv'
<1>1. /\ STypeOK /\ IdpInv /\ session = Grants /\ lapsed = {}
      /\ \A b \in Grants : ConnTrue(b) /\ SmoothTrue(b) /\ CleanedTrue(b) /\ ConsentTrue(b)
      /\ \A b \in Grants, q \in Calls : CallTrue(b, q)
      /\ HeldTrue /\ MetTrue
  BY DEF SInv
<1>2. /\ UNCHANGED <<doc, session, auth, lapsed, faults, used, conn, rotations, stopped, reported>>
      /\ call' \in [Grants -> [Calls -> Call]]
      /\ call'[a][p] = c
      /\ \A b \in Grants, q \in Calls : b # a \/ q # p => call'[b][q] = call[b][q]
  BY DEF Presents, Continues, agent
<1>3. STypeOK' /\ session' = Grants /\ lapsed' = {}
  BY <1>1, <1>2 DEF STypeOK, IdpInv
<1>4. req[r] = Idle /\ ~Begun(r) /\ req[r].reply = "none" /\ req[r].cred = NoCred
  BY <1>1, IdleFacts DEF IdpInv, RequestTrue, ReplyTrue, Begun, At, Presents, Idle
<1>5. /\ req'[r].pc = pc /\ req'[r].cred = d /\ req'[r].grant = a /\ req'[r].round = 1
      /\ \A q \in Requests \ {r} :
           /\ req'[q].pc = req[q].pc /\ req'[q].cred = req[q].cred /\ req'[q].grant = req[q].grant
           /\ req'[q].round = req[q].round /\ req'[q].reply = req[q].reply
  BY DEF Presents, BeginsAs
<1>6. /\ Begun(r)'
      /\ \A q \in Requests \ {r} : (Begun(q)' <=> Begun(q)) /\ (At(q, "over")' <=> At(q, "over"))
  BY <1>5 DEF Begun, At, Issuing, Revoking
<1>7. \A b, t : Given(b, t) => Given(b, t)'
  <2> SUFFICES ASSUME NEW b, NEW t, Given(b, t) PROVE Given(b, t)'
    OBVIOUS
  <2>1. PICK q \in Requests : t = Refresh(q) /\ req[q].reply = "tokens" /\ req[q].grant = b
    BY DEF Given
  <2> QED
    BY <1>4, <1>5, <2>1 DEF Given, Refresh
<1>8. /\ c.http = r /\ c.token = call[a][p].token /\ c.result = call[a][p].result
      /\ d = IF p \in Consents THEN Code(a) ELSE c.token
      /\ \/ p \in Consents /\ call[a][p].pc = "exchange" /\ c.pc = "wait"
         \/ p \notin Consents /\ call[a][p].pc = "spend" /\ c.pc = "wait"
         \/ p \notin Consents /\ call[a][p].pc = "hand_back" /\ c.pc = "handing"
      /\ Known(d) /\ GrantOf(d) = a
  BY DEF Presents
<1>9. /\ p \in Consents => d \notin RefreshTokens
      /\ p \notin Consents => d \in RefreshTokens /\ Given(a, d) /\ d = call[a][p].token
  <2>1. p \in Consents => d \notin RefreshTokens
    BY <1>8, DocFacts, DocKinds
  <2>2. p \notin Consents => Given(a, call[a][p].token)
    BY <1>1, <1>8 DEF CallTrue
  <2> QED
    BY <1>8, <2>1, <2>2, TokenFacts
<1>10. \A b \in Grants : ConnTrue(b)' /\ CleanedTrue(b)'
  <2> SUFFICES ASSUME NEW b \in Grants PROVE ConnTrue(b)' /\ CleanedTrue(b)'
    OBVIOUS
  <2>1. ConnTrue(b) /\ CleanedTrue(b)
    BY <1>1
  <2>2. \A q \in Calls :
          (call'[b][q].pc = "over" <=> call[b][q].pc = "over") /\ call'[b][q].result = call[b][q].result
    BY <1>2, <1>8
  <2>3. ConnTrue(b)'
    BY <1>2, <1>7, <2>1, <2>2 DEF ConnTrue, Calls
  <2>4. TwiceSpent(b) => TwiceSpent(b)'
    BY <1>4, <1>5, <1>6 DEF TwiceSpent, Presented
  <2> QED
    BY <1>2, <2>1, <2>2, <2>3, <2>4 DEF CleanedTrue, Calls
<1>11. \A b \in Grants, q \in Calls : CallTrue(b, q)'
  <2> SUFFICES ASSUME NEW b \in Grants, NEW q \in Calls PROVE CallTrue(b, q)'
    OBVIOUS
  <2>1. CallTrue(b, q)
    BY <1>1
  <2>2. (call[b][q].result = "revoked" =>
          \E x \in Requests : At(x, "over") /\ req[x].grant = b /\ req[x].reply = "revoked")'
    <3>1. call'[b][q].result = call[b][q].result
      BY <1>2, <1>8
    <3> QED
      BY <1>4, <1>5, <1>6, <2>1, <3>1 DEF CallTrue
  <2>3. (call[b][q].token # NoToken => Given(b, call[b][q].token))'
    <3>1. PICK t : t = call[b][q].token
      OBVIOUS
    <3>2. call'[b][q].token = t
      BY <1>2, <1>8, <3>1
    <3>3. t # NoToken => Given(b, t)'
      BY <1>7, <2>1, <3>1 DEF CallTrue
    <3> QED
      BY <3>2, <3>3 DEF Given
  <2>4. CASE b = a /\ q = p
    <3>1. (Holding(a, p) \/ call[a][p].pc \in {"handing", "forget"} =>
             /\ call[a][p].http \in Requests
             /\ Begun(call[a][p].http)
             /\ req[call[a][p].http].grant = a
             /\ req[call[a][p].http].cred = IF p \in Consents THEN Code(a) ELSE call[a][p].token)'
      BY <1>2, <1>5, <1>6, <1>8 DEF Begun, Code
    <3>2. (p \notin Consents /\ call[a][p].pc \notin {"idle", "connection", "keep", "over"} =>
             Given(a, call[a][p].token))'
      <4>1. p \notin Consents => Given(a, d)'
        BY <1>7, <1>9
      <4> QED
        BY <1>2, <1>8, <4>1 DEF Given
    <3>3. (/\ p \in Consents => call[a][p].pc \in {"idle", "use", "exchange", "wait", "over"}
           /\ call[a][p].pc \in {"use", "exchange"} => p \in Consents
           /\ p \in Cleanups => call[a][p].pc \in {"idle", "hand_back", "handing", "forget", "keep", "over"}
           /\ p \notin Consents /\ conn[a] = NoConn => call[a][p].pc = "idle"
           /\ call[a][p].pc \in {"remember", "save"} => req[call[a][p].http].reply = "tokens"
           /\ call[a][p].pc = "forget" => At(call[a][p].http, "over") /\ req[call[a][p].http].reply = "revoked")'
      BY <1>2, <1>8, <2>1, <2>4, CallsAreDistinct DEF CallTrue
    <3>4. p \in Consents => call'[a][p].result # "ok"
      BY <1>2, <1>8, <2>1, <2>4 DEF CallTrue
    <3> QED
      BY <2>2, <2>3, <2>4, <3>1, <3>2, <3>3, <3>4 DEF CallTrue
  <2>5. CASE b # a \/ q # p
    <3>1. call'[b][q] = call[b][q] /\ conn'[b] = conn[b]
      BY <1>2, <2>5
    <3>2. PICK h : h = call[b][q].http
      OBVIOUS
    <3>3. (Holding(b, q) \/ call[b][q].pc \in {"handing", "forget"} =>
             /\ call[b][q].http \in Requests
             /\ Begun(call[b][q].http)
             /\ req[call[b][q].http].grant = b
             /\ req[call[b][q].http].cred = IF q \in Consents THEN Code(b) ELSE call[b][q].token)'
      <4>1. Holding(b, q)' \/ call'[b][q].pc \in {"handing", "forget"} =>
              /\ h \in Requests /\ Begun(h)' /\ req'[h].grant = b
              /\ req'[h].cred = IF q \in Consents THEN Code(b) ELSE call[b][q].token
        BY <1>4, <1>5, <1>6, <2>1, <3>1, <3>2 DEF CallTrue, Holding
      <4> QED
        BY <3>1, <3>2, <4>1 DEF Begun, Code
    <3>4. (/\ call[b][q].pc \in {"remember", "save"} => req[call[b][q].http].reply = "tokens"
           /\ call[b][q].pc = "forget" => At(call[b][q].http, "over") /\ req[call[b][q].http].reply = "revoked")'
      <4>1. /\ call[b][q].pc \in {"remember", "save"} => req'[h].reply = "tokens"
            /\ call[b][q].pc = "forget" => req'[h].pc = "over" /\ req'[h].reply = "revoked"
        BY <1>4, <1>5, <2>1, <3>2 DEF CallTrue, Holding, At
      <4> QED
        BY <3>1, <3>2, <4>1 DEF At
    <3>5. (/\ q \in Consents => call[b][q].pc \in {"idle", "use", "exchange", "wait", "over"}
           /\ call[b][q].pc \in {"use", "exchange"} => q \in Consents
           /\ q \in Cleanups => call[b][q].pc \in {"idle", "hand_back", "handing", "forget", "keep", "over"}
           /\ q \notin Consents /\ conn[b] = NoConn => call[b][q].pc = "idle")'
      BY <2>1, <3>1 DEF CallTrue
    <3>6. (q \notin Consents /\ call[b][q].pc \notin {"idle", "connection", "keep", "over"} =>
             Given(b, call[b][q].token))'
      <4>1. PICK t : t = call[b][q].token
        OBVIOUS
      <4>2. q \notin Consents /\ call[b][q].pc \notin {"idle", "connection", "keep", "over"} => Given(b, t)'
        BY <1>7, <2>1, <4>1 DEF CallTrue
      <4> QED
        BY <3>1, <4>1, <4>2 DEF Given
    <3>7. (q \in Consents /\ call[b][q].result = "ok" =>
             call[b][q].pc = "over" /\ Exchanged(b, call[b][q].http))'
      <4>1. q \in Consents /\ call'[b][q].result = "ok" =>
              /\ call'[b][q].pc = "over" /\ h \in Requests /\ Begun(h)' /\ req'[h].grant = b
              /\ req'[h].cred = Code(b) /\ req'[h].reply = "tokens"
        BY <1>4, <1>5, <1>6, <2>1, <3>1, <3>2 DEF CallTrue, Exchanged
      <4> QED
        BY <3>1, <3>2, <4>1 DEF Exchanged, Begun, Code
    <3> QED
      BY <2>2, <2>3, <3>3, <3>4, <3>5, <3>6, <3>7 DEF CallTrue
  <2> QED
    BY <2>4, <2>5
<1>12. HeldTrue'
  <2>1. \A b \in Grants, q \in Calls : b # a \/ q # p =>
          (Holding(b, q)' => Holding(b, q) /\ call'[b][q].http = call[b][q].http)
    BY <1>2 DEF Holding
  <2>2. Holding(a, p)' => call'[a][p].http = r
    BY <1>2, <1>8
  <2>3. \A b \in Grants, q \in Calls : Holding(b, q) =>
          call[b][q].http \in Requests /\ call[b][q].http # r /\ Unheld(Refresh(call[b][q].http))
    BY <1>1, <1>4 DEF CallTrue, HeldTrue
  <2>4. \A b \in Grants, q \in Calls : call'[b][q].token = call[b][q].token
    BY <1>2, <1>8
  <2>5. ASSUME NEW h \in Requests, Unheld(Refresh(h)) PROVE Unheld(Refresh(h))'
    <3>1. PICK t : t = Refresh(h)
      OBVIOUS
    <3>2. t \in RefreshTokens /\ Unheld(t)
      BY <2>5, <3>1, DocFacts
    <3>3. d # t
      BY <1>8, <1>9, <3>2 DEF Unheld
    <3>4. \A q \in Requests : req'[q].cred # t
      BY <1>5, <3>2, <3>3 DEF Unheld
    <3> QED
      BY <1>2, <2>4, <3>1, <3>2, <3>4 DEF Unheld, Refresh
  <2>6. Unheld(Refresh(r))'
    <3>1. PICK t : t = Refresh(r)
      OBVIOUS
    <3>2. t \in RefreshTokens /\ t # NoToken /\ t[2] = r /\ t # NoCred
      BY <3>1, DocFacts, TokenFacts DEF NoCred, NoToken
    <3>3. \A b : ~Given(b, t)
      BY <1>4, <3>1, DocFacts DEF Given
    <3>4. \A b \in Grants : conn[b].token # t
      BY <1>1, <3>2, <3>3 DEF ConnTrue
    <3>5. \A b \in Grants, q \in Calls : call[b][q].token # t
      BY <1>1, <3>2, <3>3 DEF CallTrue
    <3>6. \A q \in Requests \ {r} : req[q].cred # t
      <4> SUFFICES ASSUME NEW q \in Requests \ {r} PROVE req[q].cred # t
        OBVIOUS
      <4>1. Begun(q) \/ req[q] = Idle
        BY <1>1 DEF IdpInv, RequestTrue, ReplyTrue, Begun
      <4>2. Begun(q) => req[q].cred # t
        BY <1>1, <1>4, <3>2 DEF IdpInv, RequestTrue, CredTrue
      <4> QED
        BY <3>2, <4>1, <4>2, IdleFacts DEF Idle
    <3>7. d # t
      BY <1>4, <1>8, <3>2, DocKinds DEF Known
    <3>8. \A q \in Requests : req'[q].cred # t
      BY <1>5, <3>6, <3>7
    <3> QED
      BY <1>2, <2>4, <3>1, <3>4, <3>5, <3>8 DEF Unheld, Refresh
  <2>7. \A b \in Grants, q \in Calls : Holding(b, q)' => Unheld(Refresh(call[b][q].http))'
    <3> SUFFICES ASSUME NEW b \in Grants, NEW q \in Calls, Holding(b, q)'
                 PROVE  Unheld(Refresh(call[b][q].http))'
      OBVIOUS
    <3>1. PICK h \in Requests : call'[b][q].http = h /\ Unheld(Refresh(h))'
      BY <2>1, <2>2, <2>3, <2>5, <2>6
    <3> QED
      BY <3>1 DEF Unheld, Refresh
  <2>8. \A b, e \in Grants, q, s \in Calls :
          Holding(b, q)' /\ Holding(e, s)' /\ call'[b][q].http = call'[e][s].http => b = e /\ q = s
    BY <1>1, <2>1, <2>2, <2>3 DEF HeldTrue
  <2> QED
    BY <2>7, <2>8 DEF HeldTrue
<1>13. \A b \in Grants : TwiceSpent(b) => TwiceSpent(b)'
  BY <1>4, <1>5, <1>6 DEF TwiceSpent, Presented
<1>14. \A b \in Grants \ {a} : SmoothTrue(b)'
  <2> SUFFICES ASSUME NEW b \in Grants \ {a}, Smooth(b)' PROVE SmoothTrue(b)'
    BY DEF SmoothTrue
  <2>1. \A q \in Calls : call'[b][q] = call[b][q]
    BY <1>2
  <2>2. Smooth(b)
    BY <1>2, <1>13, <2>1 DEF Smooth, Calls
  <2>3. Presented(b)' = Presented(b) /\ r \notin Presented(b)
    BY <1>4, <1>5, <1>6 DEF Presented
  <2>4. Sound(b)'
    BY <1>1, <1>5, <2>2, <2>3 DEF SmoothTrue, Sound, Presented, At
  <2>5. conn[b].token # NoToken => d # conn[b].token
    <3>1. conn[b].token # NoToken => Given(b, conn[b].token)
      BY <1>1 DEF ConnTrue
    <3>2. Given(a, d) => ~Given(b, d)
      BY DocFacts DEF Given
    <3> QED
      BY <1>9, <3>1, <3>2, TokenFacts
  <2> QED
    BY <1>1, <1>2, <1>5, <2>1, <2>2, <2>4, <2>5 DEF SmoothTrue, Holding, Calls
<1>15. SmoothTrue(a)'
  <2> SUFFICES ASSUME Smooth(a)' PROVE SmoothTrue(a)'
    BY DEF SmoothTrue
  <2>1. Smooth(a) /\ p \notin Cleanups
    BY <1>2, <1>8, <1>13 DEF Smooth, Calls
  <2>2. /\ Sound(a)
        /\ \A q \in Subjects :
             call[a][q].pc \in {"idle", "connection", "spend", "wait", "remember", "save", "over"}
        /\ conn[a].token # NoToken =>
             \A x \in Requests : req[x].cred = conn[a].token =>
               \E q \in Subjects : Holding(a, q) /\ call[a][q].http = x
    BY <1>1, <2>1 DEF SmoothTrue
  <2>3. c.pc = "wait" /\ ~Holding(a, p)
    BY <1>8, <2>1, <2>2 DEF Calls, Holding
  <2>4. \A q \in Requests : Begun(q) /\ req[q].grant = a => req[q].cred # d
    BY <1>2, <1>4, <1>5, <1>6 DEF Smooth, TwiceSpent, Presented
  <2>5. \A q \in Requests : Begun(q) => req[q].cred # d
    <3> SUFFICES ASSUME NEW q \in Requests, Begun(q), req[q].cred = d PROVE FALSE
      OBVIOUS
    <3>1. req[q].grant = a
      BY <1>1, <1>8 DEF IdpInv, RequestTrue, CredTrue
    <3> QED
      BY <2>4, <3>1
  <2>6. Untouched(a)
    BY <2>2 DEF Sound, Untouched
  <2>7. Usable(d)
    <3>1. CASE p \in Consents
      <4>1. d = Code(a) /\ auth[a] = "done" /\ doc[d].origin = NoOrigin
        BY <1>1, <1>8, <3>1, KnownFacts, DocFacts DEF Known
      <4> QED
        BY <1>1, <2>5, <2>6, <4>1 DEF IdpInv, CodeIntact, Usable, Live
    <3>2. CASE p \notin Consents
      <4>1. PICK x \in Requests : d = Refresh(x) /\ req[x].reply = "tokens" /\ req[x].grant = a
        BY <1>9, <3>2 DEF Given
      <4>2. /\ Exists(d) /\ ~doc[d].revoked
            /\ doc[d].used => \E q \in Requests : req[q].cred = d /\ Answered(q)
        BY <1>1, <2>6, <4>1 DEF IdpInv, RequestTrue, IntactTrue
      <4>3. \A q \in Requests : Answered(q) => Begun(q)
        BY <1>1 DEF IdpInv, RequestTrue, ReplyTrue, Answered, Begun, At
      <4> QED
        BY <1>1, <2>5, <4>2, <4>3 DEF Usable, Live
    <3> QED
      BY <3>1, <3>2
  <2>8. pc \in Issuing
    BY <2>3, <2>7 DEF Presents
  <2>9. Sound(a)'
    <3>1. \A q \in Presented(a)' : q = r \/ q \in Presented(a)
      BY <1>5, <1>6 DEF Presented
    <3> QED
      BY <1>5, <2>2, <2>8, <3>1 DEF Sound, Presented, At, Issuing
  <2>10. \A q \in Subjects :
           call'[a][q].pc \in {"idle", "connection", "spend", "wait", "remember", "save", "over"}
    BY <1>2, <2>2, <2>3 DEF Calls
  <2>11. ASSUME conn[a].token # NoToken, NEW x \in Requests, req'[x].cred = conn[a].token
         PROVE  \E q \in Subjects : Holding(a, q)' /\ call'[a][q].http = x
    <3>1. CASE x = r
      <4>1. d \in RefreshTokens
        BY <1>1, <1>5, <2>11, <3>1, TokenFacts DEF ConnTrue
      <4>2. p \in Subjects
        BY <1>9, <2>1, <4>1 DEF Calls
      <4> QED
        BY <1>2, <1>8, <2>3, <3>1, <4>2 DEF Holding
    <3>2. CASE x # r
      <4>1. PICK q \in Subjects : Holding(a, q) /\ call[a][q].http = x
        BY <1>5, <2>2, <2>11, <3>2
      <4> QED
        BY <1>2, <2>3, <4>1 DEF Holding, Calls
    <3> QED
      BY <3>1, <3>2
  <2> QED
    BY <1>2, <2>9, <2>10, <2>11 DEF SmoothTrue
<1>16. MetTrue'
  <2>1. \A q \in Requests \ {r} : req'[q].after = req[q].after /\ (req'[q].alone => req[q].alone)
    BY DEF Presents, BeginsAs
  <2>2. ASSUME NEW q \in Requests \ {r}, Begun(q), req[q].grant = a
        PROVE  q \in req'[r].after \/ (~req'[r].alone /\ ~req'[q].alone)
    <3>1. GrantOf(d) = a /\ BeginsAs(r, d, pc, reply)
      BY DEF Presents
    <3>2. CASE At(q, "over")
      BY <3>1, <3>2 DEF BeginsAs
    <3>3. CASE ~At(q, "over")
      <4>1. Underway(q)
        BY <2>2, <3>3 DEF Underway, Begun, At
      <4> QED
        BY <2>2, <3>1, <4>1 DEF BeginsAs
    <3> QED
      BY <3>2, <3>3
  <2> SUFFICES ASSUME NEW x \in Requests, NEW y \in Requests, x # y, Begun(x)', Begun(y)',
                      req'[x].grant = req'[y].grant
               PROVE  x \in req'[y].after \/ y \in req'[x].after \/ (~req'[x].alone /\ ~req'[y].alone)
    BY DEF MetTrue
  <2>3. CASE x = r
    BY <1>5, <1>6, <2>2, <2>3
  <2>4. CASE y = r
    BY <1>5, <1>6, <2>2, <2>4
  <2>5. CASE x # r /\ y # r
    BY <1>1, <1>5, <1>6, <2>1, <2>5 DEF MetTrue
  <2> QED
    BY <2>3, <2>4, <2>5
<1>17. ASSUME NEW b \in Grants PROVE ConsentTrue(b)'
  <2>1. ASSUME NEW q \in Consents, Exchanging(b, q)'
        PROVE  \/ b = a /\ q = p /\ call'[b][q].http = r
               \/ /\ b # a \/ q # p
                  /\ Exchanging(b, q) /\ call'[b][q].http = call[b][q].http /\ call[b][q].http # r
    <3>1. CASE b = a /\ q = p
      BY <1>2, <1>8, <3>1
    <3>2. CASE b # a \/ q # p
      <4>1. call'[b][q] = call[b][q] /\ CallTrue(b, q)
        BY <1>1, <1>2, <3>2 DEF Calls
      <4>2. Exchanging(b, q)
        BY <2>1, <4>1 DEF Exchanging
      <4>3. Begun(call[b][q].http)
        BY <2>1, <4>1, <4>2 DEF CallTrue, Exchanging, Exchanged, Holding
      <4> QED
        BY <1>4, <3>2, <4>1, <4>2, <4>3
    <3> QED
      BY <3>1, <3>2
  <2>2. ConsentTrue(b)
    BY <1>1
  <2> QED
    BY <2>1, <2>2 DEF ConsentTrue
<1> QED
  BY <1>3, <1>10, <1>11, <1>12, <1>14, <1>15, <1>16, <1>17 DEF SInv

-----------------------------------------------------------------------------
(* The actions of the Agent OP, one by one.                                *)

LEMMA PresentView ==
  ASSUME IdpInv, NEW r \in Requests, NEW d \in Credentials,
         (d \in Codes /\ PresentCode(r, d)) \/ PresentRefreshToken(r, d)
  PROVE  /\ At(r, "idle") /\ Known(d) /\ IdpInv'
         /\ UNCHANGED <<doc, session, auth, lapsed, faults>>
         /\ \E pc \in Issuing \union Revoking \union {"over"} : \E reply \in Replies :
              /\ BeginsAs(r, d, pc, reply)
              /\ Usable(d) => pc \in Issuing
<1>1. /\ At(r, "idle") /\ Known(d) /\ UNCHANGED <<doc, session, auth, lapsed, faults>>
  BY DEF PresentCode, PresentRefreshToken
<1>2. IdpInv'
  BY PresentsCode, PresentsRefreshToken DEF PresentRefreshToken
<1>3. PICK pc \in Issuing \union Revoking \union {"over"}, reply \in Replies :
        /\ Begins(r, d, pc, reply)
        /\ pc # "over" => Live(d)
        /\ Usable(d) => pc \in Issuing
  <2>1. CASE ~Live(d)
    BY <2>1 DEF PresentCode, PresentRefreshToken, Usable, Replies
  <2>2. CASE Live(d) /\ doc[d].used
    BY <2>2 DEF PresentCode, PresentRefreshToken, Usable, Replies, Revoking
  <2>3. CASE Live(d) /\ ~doc[d].used /\ d \in Codes /\ PresentCode(r, d)
    BY <2>3 DEF PresentCode, Replies, Issuing
  <2>4. CASE Live(d) /\ ~doc[d].used /\ PresentRefreshToken(r, d)
    <3>1. CASE doc[d].bound
      BY <2>4, <3>1 DEF PresentRefreshToken, Replies, Issuing
    <3>2. CASE ~doc[d].bound
      BY <2>4, <3>2 DEF PresentRefreshToken, Replies, Issuing
    <3> QED
      BY <3>1, <3>2
  <2> QED
    BY <2>1, <2>2, <2>3, <2>4
<1>4. BeginsAs(r, d, pc, reply)
  BY <1>1, <1>3, BeginsView DEF Live
<1> QED
  BY <1>1, <1>2, <1>3, <1>4

LEMMA RevocationView ==
  ASSUME IdpInv, NEW r \in Requests, NEW d \in Credentials, PresentRevocation(r, d)
  PROVE  /\ At(r, "idle") /\ Known(d) /\ IdpInv'
         /\ UNCHANGED <<doc, session, auth, lapsed, faults>>
         /\ \E pc \in Issuing \union Revoking \union {"over"} : \E reply \in Replies :
              BeginsAs(r, d, pc, reply)
<1>1. /\ At(r, "idle") /\ Known(d) /\ UNCHANGED <<doc, session, auth, lapsed, faults>>
  BY DEF PresentRevocation
<1>2. IdpInv'
  BY PresentsRevocation DEF PresentRevocation
<1>3. PICK pc \in Issuing \union Revoking \union {"over"}, reply \in Replies :
        Begins(r, d, pc, reply) /\ (pc # "over" => Live(d))
  BY DEF PresentRevocation, Replies, Revoking
<1>4. BeginsAs(r, d, pc, reply)
  BY <1>1, <1>3, BeginsView DEF Live
<1> QED
  BY <1>1, <1>2, <1>4

LEMMA ExchangeCodeInv ==
  ASSUME SInv, NEW a \in Grants, NEW p \in Calls, NEW r \in Requests, ExchangeCode(a, p, r)
  PROVE  SInv'
<1>1. call \in [Grants -> [Calls -> Call]] /\ IdpInv /\ CallTrue(a, p)
  BY DEF SInv, STypeOK
<1>2. Code(a) \in Codes /\ Code(a) \in Credentials /\ GrantOf(Code(a)) = a
  BY DocFacts DEF GrantOf
<1>3. p \in Consents /\ CallAt(a, p, "exchange") /\ PresentCode(r, Code(a)) /\ Sends(a, p, r, "wait") /\ UNCHANGED agent
  BY <1>1 DEF ExchangeCode, CallAt, Code, Sends, CallTrue
<1>4. PICK c \in Call :
        /\ Continues(a, p, c) /\ c.pc = "wait" /\ c.token = call[a][p].token
        /\ c.http = r /\ c.result = call[a][p].result
  BY <1>1, <1>3, SendsView DEF CallPcs
<1>5. /\ At(r, "idle") /\ Known(Code(a)) /\ IdpInv' /\ UNCHANGED <<doc, session, auth, lapsed, faults>>
      /\ \E pc \in Issuing \union Revoking \union {"over"} : \E reply \in Replies :
           /\ BeginsAs(r, Code(a), pc, reply)
           /\ Usable(Code(a)) => pc \in Issuing
  BY <1>1, <1>2, <1>3, PresentView
<1>6. PICK pc \in Issuing \union Revoking \union {"over"}, reply \in Replies :
        BeginsAs(r, Code(a), pc, reply) /\ (Usable(Code(a)) => pc \in Issuing)
  BY <1>5
<1>7. Presents(a, p, c, r, Code(a), pc, reply)
  BY <1>2, <1>3, <1>4, <1>5, <1>6 DEF Presents, CallAt
<1> QED
  BY <1>1, <1>2, <1>5, <1>7, PresentsInv

LEMMA SpendInv ==
  ASSUME SInv, NEW a \in Grants, NEW p \in Calls, NEW r \in Requests, Spend(a, p, r)
  PROVE  SInv'
<1>1. call \in [Grants -> [Calls -> Call]] /\ IdpInv /\ CallTrue(a, p)
  BY DEF SInv, STypeOK
<1>2. PICK d : d = call[a][p].token
  OBVIOUS
<1>3. /\ call[a][p].pc = "spend" /\ Sends(a, p, r, "wait") /\ UNCHANGED agent
      /\ PresentRefreshToken(r, d)
  BY <1>2 DEF Spend, CallAt
<1>4. p \notin Consents /\ Given(a, d)
  BY <1>1, <1>2, <1>3 DEF CallTrue
<1>5. d \in RefreshTokens /\ d \in Credentials /\ GrantOf(d) = a
  BY <1>4, DocFacts DEF Given, GrantOf
<1>6. PICK c \in Call :
        /\ Continues(a, p, c) /\ c.pc = "wait" /\ c.token = d
        /\ c.http = r /\ c.result = call[a][p].result
  BY <1>1, <1>2, <1>3, SendsView DEF CallPcs
<1>7. /\ At(r, "idle") /\ Known(d) /\ IdpInv' /\ UNCHANGED <<doc, session, auth, lapsed, faults>>
      /\ \E pc \in Issuing \union Revoking \union {"over"} : \E reply \in Replies :
           BeginsAs(r, d, pc, reply) /\ (Usable(d) => pc \in Issuing)
  BY <1>1, <1>3, <1>5, PresentView
<1>8. PICK pc \in Issuing \union Revoking \union {"over"}, reply \in Replies :
        BeginsAs(r, d, pc, reply) /\ (Usable(d) => pc \in Issuing)
  BY <1>7
<1>9. Presents(a, p, c, r, d, pc, reply)
  BY <1>2, <1>3, <1>4, <1>5, <1>6, <1>7, <1>8 DEF Presents
<1> QED
  BY <1>5, <1>7, <1>9, PresentsInv

LEMMA HandBackInv ==
  ASSUME SInv, NEW a \in Grants, NEW p \in Calls, NEW r \in Requests, HandBack(a, p, r)
  PROVE  SInv'
<1>1. call \in [Grants -> [Calls -> Call]] /\ IdpInv /\ CallTrue(a, p)
  BY DEF SInv, STypeOK
<1>2. PICK d : d = call[a][p].token
  OBVIOUS
<1>3. /\ call[a][p].pc = "hand_back" /\ Sends(a, p, r, "handing") /\ UNCHANGED agent
      /\ PresentRevocation(r, d)
  BY <1>2 DEF HandBack, CallAt
<1>4. p \notin Consents /\ Given(a, d)
  BY <1>1, <1>2, <1>3 DEF CallTrue
<1>5. d \in RefreshTokens /\ d \in Credentials /\ GrantOf(d) = a
  BY <1>4, DocFacts DEF Given, GrantOf
<1>6. PICK c \in Call :
        /\ Continues(a, p, c) /\ c.pc = "handing" /\ c.token = d
        /\ c.http = r /\ c.result = call[a][p].result
  BY <1>1, <1>2, <1>3, SendsView DEF CallPcs
<1>7. /\ At(r, "idle") /\ Known(d) /\ IdpInv' /\ UNCHANGED <<doc, session, auth, lapsed, faults>>
      /\ \E pc \in Issuing \union Revoking \union {"over"} : \E reply \in Replies :
           BeginsAs(r, d, pc, reply)
  BY <1>1, <1>3, <1>5, RevocationView
<1>8. PICK pc \in Issuing \union Revoking \union {"over"}, reply \in Replies : BeginsAs(r, d, pc, reply)
  BY <1>7
<1>9. Presents(a, p, c, r, d, pc, reply)
  BY <1>2, <1>3, <1>4, <1>5, <1>6, <1>7, <1>8 DEF Presents
<1> QED
  BY <1>5, <1>7, <1>9, PresentsInv

\* What such a step has to keep of the connection and of the call.
Own(a, p, c) ==
  /\ conn'[a] # conn[a] =>
       /\ conn'[a].status # "absent"
       /\ conn'[a].token # NoToken => Given(a, conn'[a].token)
       /\ conn'[a].status = "ACTIVE" => conn'[a].token # NoToken
       /\ conn[a] = NoConn => p \in Consents /\ c.pc = "over" /\ c.result = "ok"
  /\ p \in Consents =>
       /\ c.pc \in {"use", "exchange", "over"}
       /\ call[a][p].pc # "over"
       /\ c.result = "ok" => c.pc = "over" /\ Exchanged(a, c.http)
  /\ p \notin Consents => conn[a] # NoConn /\ c.pc \notin {"use", "exchange"}
  /\ p \in Cleanups => c.pc \in {"hand_back", "handing", "forget", "keep", "over"}
  /\ p \notin Consents /\ c.pc \notin {"connection", "keep", "over"} => c.token # NoToken
  /\ c.token # NoToken => Given(a, c.token)
  /\ c.pc \in {"wait", "remember", "save", "handing", "forget"} =>
       /\ call[a][p].pc \in {"wait", "remember", "save", "handing", "forget"}
       /\ c.http = call[a][p].http /\ c.token = call[a][p].token
  /\ c.pc \in {"remember", "save"} => req[c.http].reply = "tokens"
  /\ c.pc = "forget" => At(c.http, "over") /\ req[c.http].reply = "revoked"
  /\ c.result = "revoked" =>
       \E r \in Requests : At(r, "over") /\ req[r].grant = a /\ req[r].reply = "revoked"

LEMMA OwnInv ==
  ASSUME SInv, NEW a \in Grants, NEW p \in Calls, NEW c \in Call, AgentStep(a, p, c), Own(a, p, c)
  PROVE  SInv'
<1>1. ConnTrue(a) /\ CallTrue(a, p)
  BY DEF SInv
<1>2. /\ UNCHANGED <<req, stopped>> /\ call'[a][p] = c
      /\ \A q \in Consents : q # p => call'[a][q] = call[a][q]
      /\ conn'[a] = NoConn => conn[a] = NoConn
      /\ c.pc # "idle"
  BY DEF AgentStep, Continues, Calls
<1>3. \A t : Given(a, t) => Given(a, t)'
  BY <1>2 DEF Given, Refresh
<1>4. ConnTrue(a)'
  <2>1. PICK t : t = conn'[a].token
    OBVIOUS
  <2>2. t # NoToken => Given(a, t)'
    BY <1>1, <1>3, <2>1 DEF ConnTrue, Own
  <2>3. (conn[a].token # NoToken => Given(a, conn[a].token))'
    BY <2>1, <2>2 DEF Given
  <2>4. (/\ conn[a].status = "absent" => conn[a] = NoConn
         /\ conn[a].status = "ACTIVE" => conn[a].token # NoToken
         /\ a \in stopped => conn[a] # NoConn)'
    BY <1>1, <1>2 DEF ConnTrue, Own
  <2>5. conn'[a] # NoConn => \E q \in Consents : call'[a][q].pc = "over" /\ call'[a][q].result = "ok"
    <3>1. CASE conn[a] = NoConn
      BY <1>2, <3>1 DEF Own
    <3>2. CASE conn[a] # NoConn
      <4>1. PICK q \in Consents : call[a][q].pc = "over" /\ call[a][q].result = "ok"
        BY <1>1, <3>2 DEF ConnTrue
      <4>2. q # p
        BY <4>1 DEF Own
      <4> QED
        BY <1>2, <4>1, <4>2
    <3> QED
      BY <3>1, <3>2
  <2> QED
    BY <2>3, <2>4, <2>5 DEF ConnTrue
<1>5. CallTrue(a, p)'
  <2>1. (/\ p \in Consents => call[a][p].pc \in {"idle", "use", "exchange", "wait", "over"}
         /\ call[a][p].pc \in {"use", "exchange"} => p \in Consents
         /\ p \in Cleanups => call[a][p].pc \in {"idle", "hand_back", "handing", "forget", "keep", "over"}
         /\ p \notin Consents /\ conn[a] = NoConn => call[a][p].pc = "idle")'
    BY <1>2 DEF Own
  <2>2. /\ p \notin Consents /\ c.pc \notin {"idle", "connection", "keep", "over"} => Given(a, c.token)'
        /\ c.token # NoToken => Given(a, c.token)'
    BY <1>3 DEF Own
  <2>3. (/\ p \notin Consents /\ call[a][p].pc \notin {"idle", "connection", "keep", "over"} => Given(a, call[a][p].token)
         /\ call[a][p].token # NoToken => Given(a, call[a][p].token))'
    BY <1>2, <2>2 DEF Given
  <2>4. (Holding(a, p) \/ call[a][p].pc \in {"handing", "forget"} =>
           /\ call[a][p].http \in Requests
           /\ Begun(call[a][p].http)
           /\ req[call[a][p].http].grant = a
           /\ req[call[a][p].http].cred = IF p \in Consents THEN Code(a) ELSE call[a][p].token)'
    BY <1>1, <1>2 DEF CallTrue, Own, Holding, Begun, Code
  <2>5. (/\ call[a][p].pc \in {"remember", "save"} => req[call[a][p].http].reply = "tokens"
         /\ call[a][p].pc = "forget" => At(call[a][p].http, "over") /\ req[call[a][p].http].reply = "revoked"
         /\ call[a][p].result = "revoked" =>
              \E r \in Requests : At(r, "over") /\ req[r].grant = a /\ req[r].reply = "revoked")'
    BY <1>2 DEF Own, At
  <2>6. (p \in Consents /\ call[a][p].result = "ok" =>
           call[a][p].pc = "over" /\ Exchanged(a, call[a][p].http))'
    BY <1>2 DEF Own, Exchanged, Begun, Code
  <2> QED
    BY <2>1, <2>3, <2>4, <2>5, <2>6 DEF CallTrue
<1> QED
  BY <1>4, <1>5, AgentStepInv

\* What every action of the Agent OP finds.
LEMMA AgentFacts ==
  ASSUME SInv, NEW a \in Grants, NEW p \in Calls
  PROVE  /\ call \in [Grants -> [Calls -> Call]] /\ conn \in [Grants -> Connection]
         /\ used \subseteq Grants /\ rotations \subseteq RefreshTokens /\ reported \subseteq Grants
         /\ faults \in 0 .. MaxFaults
         /\ ConnTrue(a) /\ CallTrue(a, p)
         /\ conn[a] # NoConn => conn[a].status # "absent"
         /\ call[a][p].result = "revoked" =>
              \E r \in Requests : At(r, "over") /\ req[r].grant = a /\ req[r].reply = "revoked"
         /\ p \in Subjects /\ Smooth(a) =>
              /\ call[a][p].pc \in {"idle", "connection", "spend", "wait", "remember", "save", "over"}
              /\ Holding(a, p) /\ At(call[a][p].http, "over") => req[call[a][p].http].reply = "tokens"
<1>1. ConnTrue(a) /\ CallTrue(a, p) /\ SmoothTrue(a)
  BY DEF SInv
<1>2. conn[a] # NoConn => conn[a].status # "absent"
  BY <1>1 DEF ConnTrue
<1>3. /\ call \in [Grants -> [Calls -> Call]] /\ conn \in [Grants -> Connection]
      /\ used \subseteq Grants /\ rotations \subseteq RefreshTokens /\ reported \subseteq Grants
      /\ faults \in 0 .. MaxFaults
  BY DEF SInv, STypeOK, TypeOK
<1>4. p \in Subjects /\ Smooth(a) /\ Holding(a, p) /\ At(call[a][p].http, "over") =>
        req[call[a][p].http].reply = "tokens"
  BY <1>1 DEF SmoothTrue, CallTrue, Sound, Presented
<1> QED
  BY <1>1, <1>2, <1>3, <1>4 DEF CallTrue, SmoothTrue

LEMMA AuthenticateInv ==
  ASSUME SInv, NEW a \in Grants, NEW p \in Calls, Authenticate(a, p)
  PROVE  SInv'
<1>1. PICK c \in Call : Continues(a, p, c) /\ c.pc = "connection" /\ c.token = NoToken /\ c.result = "none"
  BY AgentFacts, OpensView DEF Authenticate, CallPcs
<1>2. p \in Subjects /\ p \notin Consents /\ p \notin Cleanups
  BY CallsAreDistinct DEF Authenticate
<1>3. UNCHANGED <<idp, agent>> /\ conn[a] # NoConn /\ ~Holding(a, p)
  BY DEF Authenticate, Registered, Holding, CallAt
<1>4. AgentStep(a, p, c)
  BY <1>1, <1>2, <1>3, AgentFacts DEF AgentStep, idp, agent, Holds
<1>5. Own(a, p, c)
  BY <1>1, <1>2, <1>3, AgentFacts DEF Own, agent
<1> QED
  BY <1>4, <1>5, OwnInv

LEMMA ConnStatusView ==
  ASSUME conn \in [Grants -> Connection], NEW a \in Grants, conn' = [conn EXCEPT ![a].status = "REVOKED"]
  PROVE  /\ conn' \in [Grants -> Connection]
         /\ conn'[a].status = "REVOKED" /\ conn'[a].token = conn[a].token
         /\ \A b \in Grants \ {a} : conn'[b] = conn[b]
<1> DEFINE n == [conn[a] EXCEPT !.status = "REVOKED"]
<1>1. conn[a] \in Connection
  OBVIOUS
<1>2. n \in Connection /\ n.status = "REVOKED" /\ n.token = conn[a].token
  BY <1>1 DEF Connection
<1>3. conn' = [conn EXCEPT ![a] = n]
  OBVIOUS
<1> HIDE DEF n
<1> QED
  BY <1>2, <1>3

LEMMA ConnTokenView ==
  ASSUME conn \in [Grants -> Connection], NEW a \in Grants, NEW t \in RefreshTokens,
         conn' = [conn EXCEPT ![a].token = t]
  PROVE  /\ conn' \in [Grants -> Connection]
         /\ conn'[a].token = t /\ conn'[a].status = conn[a].status
         /\ \A b \in Grants \ {a} : conn'[b] = conn[b]
<1> DEFINE n == [conn[a] EXCEPT !.token = t]
<1>1. conn[a] \in Connection
  OBVIOUS
<1>2. n \in Connection /\ n.token = t /\ n.status = conn[a].status
  BY <1>1 DEF Connection
<1>3. conn' = [conn EXCEPT ![a] = n]
  OBVIOUS
<1> HIDE DEF n
<1> QED
  BY <1>2, <1>3

LEMMA ReadConnectionInv ==
  ASSUME SInv, NEW a \in Grants, NEW p \in Calls, ReadConnection(a, p)
  PROVE  SInv'
<1>1. call[a][p].pc = "connection" /\ UNCHANGED <<idp, agent>> /\ ~Holding(a, p)
  BY DEF ReadConnection, CallAt, Holding
<1>2. p \notin Consents /\ p \notin Cleanups /\ conn[a] # NoConn
  BY <1>1, AgentFacts DEF CallTrue
<1>3. CASE conn[a].status = "ACTIVE"
  <2> DEFINE c == [call[a][p] EXCEPT !.pc = "spend", !.token = conn[a].token]
  <2>1. conn[a].token # NoToken /\ Given(a, conn[a].token) /\ conn[a].token \in RefreshTokens
    BY <1>3, AgentFacts, TokenFacts DEF ConnTrue
  <2>2. c \in Call /\ c.pc = "spend" /\ c.token = conn[a].token /\ c.result = call[a][p].result
    <3>1. call[a][p] \in Call
      BY AgentFacts
    <3> QED
      BY <2>1, <3>1 DEF Call
  <2>3. call' = [call EXCEPT ![a][p] = c]
    BY <1>3 DEF ReadConnection
  <2> HIDE DEF c
  <2>4. Continues(a, p, c)
    BY <2>2, <2>3, AgentFacts, ContinuesView
  <2>5. AgentStep(a, p, c)
    BY <1>1, <1>2, <2>2, <2>4, AgentFacts DEF AgentStep, idp, agent, Holds
  <2>6. Own(a, p, c)
    BY <1>1, <1>2, <2>1, <2>2, AgentFacts DEF Own, agent
  <2> QED
    BY <2>2, <2>5, <2>6, OwnInv
<1>4. CASE conn[a].status # "ACTIVE"
  <2>1. Returns(a, p, "refused")
    BY <1>4 DEF ReadConnection
  <2>2. PICK c \in Call : /\ Continues(a, p, c) /\ c.pc = "over" /\ c.token = call[a][p].token
                          /\ c.http = call[a][p].http /\ c.result = "refused"
    BY <2>1, AgentFacts, ReturnsView DEF Results
  <2>3. AgentStep(a, p, c)
    BY <1>1, <1>2, <2>2, AgentFacts DEF AgentStep, idp, agent, Holds
  <2>4. Own(a, p, c)
    BY <1>1, <1>2, <2>2, AgentFacts DEF Own, agent, CallTrue
  <2> QED
    BY <2>3, <2>4, OwnInv
<1> QED
  BY <1>3, <1>4

LEMMA GetsInv ==
  ASSUME SInv, NEW a \in Grants, NEW p \in Calls, GetsTokens(a, p) \/ GetsRefusal(a, p) \/ GetsNoResponse(a, p)
  PROVE  SInv'
<1>1. /\ p \in Subjects /\ p \notin Consents /\ p \notin Cleanups
      /\ call[a][p].pc = "wait" /\ UNCHANGED <<idp, agent>> /\ Holding(a, p)
  BY CallsAreDistinct DEF GetsTokens, GetsRefusal, GetsNoResponse, CallAt, Holding
<1>2. conn[a] # NoConn /\ CallTrue(a, p)
  BY <1>1, AgentFacts DEF CallTrue
<1>3. Reply(a, p) # "none" => At(call[a][p].http, "over") /\ Reply(a, p) = req[call[a][p].http].reply
  BY DEF Reply
<1>4. CASE GetsTokens(a, p)
  <2>1. PICK c \in Call : /\ Continues(a, p, c) /\ c.pc = "remember" /\ c.token = call[a][p].token
                          /\ c.http = call[a][p].http /\ c.result = call[a][p].result
    BY <1>4, AgentFacts, CallGotoView DEF GetsTokens, CallPcs
  <2>2. req[call[a][p].http].reply = "tokens" /\ call[a][p].token # NoToken
    BY <1>1, <1>2, <1>3, <1>4, TokenFacts DEF GetsTokens, CallTrue
  <2>3. AgentStep(a, p, c)
    BY <1>1, <2>1, AgentFacts DEF AgentStep, idp, agent, Holds
  <2>4. Own(a, p, c)
    BY <1>1, <1>2, <2>1, <2>2, AgentFacts DEF Own, agent, CallTrue
  <2> QED
    BY <2>3, <2>4, OwnInv
<1>5. CASE GetsRefusal(a, p) \/ GetsNoResponse(a, p)
  <2>1. ~Smooth(a)
    BY <1>1, <1>3, <1>5, AgentFacts DEF GetsRefusal, GetsNoResponse
  <2>2. CallGoto(a, p, "history") \/ Returns(a, p, "refused")
    BY <1>5 DEF GetsRefusal, GetsNoResponse
  <2>3. PICK c \in Call : /\ Continues(a, p, c) /\ c.pc \in {"history", "over"} /\ c.token = call[a][p].token
                          /\ c.http = call[a][p].http /\ c.result \in {call[a][p].result, "refused"}
    <3>1. CASE CallGoto(a, p, "history")
      BY <3>1, AgentFacts, CallGotoView DEF CallPcs
    <3>2. CASE Returns(a, p, "refused")
      BY <3>2, AgentFacts, ReturnsView DEF Results
    <3> QED
      BY <2>2, <3>1, <3>2
  <2>4. AgentStep(a, p, c)
    BY <1>1, <2>1, <2>3, AgentFacts DEF AgentStep, idp, agent, Holds
  <2>5. Own(a, p, c)
    BY <1>1, <1>2, <2>3, AgentFacts, TokenFacts DEF Own, agent, CallTrue
  <2> QED
    BY <2>4, <2>5, OwnInv
<1> QED
  BY <1>4, <1>5

LEMMA RememberInv ==
  ASSUME SInv, NEW a \in Grants, NEW p \in Calls, Remember(a, p)
  PROVE  SInv'
<1>1. /\ call[a][p].pc = "remember" /\ UNCHANGED <<idp, used, conn, stopped, reported>> /\ Holding(a, p)
      /\ rotations' = rotations \union {call[a][p].token}
  BY DEF Remember, CallAt, Holding
<1>2. CallTrue(a, p) /\ p \notin Consents /\ p \notin Cleanups /\ conn[a] # NoConn
  BY <1>1, AgentFacts DEF CallTrue
<1>3. call[a][p].token \in RefreshTokens /\ call[a][p].token # NoToken /\ req[call[a][p].http].reply = "tokens"
  BY <1>1, <1>2, TokenFacts DEF CallTrue
<1>4. PICK c \in Call : /\ Continues(a, p, c) /\ c.pc = "save" /\ c.token = call[a][p].token
                        /\ c.http = call[a][p].http /\ c.result = call[a][p].result
  BY AgentFacts, CallGotoView DEF Remember, CallPcs
<1>5. AgentStep(a, p, c)
  BY <1>1, <1>2, <1>3, <1>4, AgentFacts DEF AgentStep, idp, Holds
<1>6. Own(a, p, c)
  BY <1>1, <1>2, <1>3, <1>4, AgentFacts DEF Own, CallTrue
<1> QED
  BY <1>5, <1>6, OwnInv

LEMMA SaveTokenInv ==
  ASSUME SInv, NEW a \in Grants, NEW p \in Calls, SaveToken(a, p)
  PROVE  SInv'
<1>1. /\ call[a][p].pc = "save" /\ UNCHANGED <<idp, used, rotations, stopped, reported>> /\ Holding(a, p)
      /\ conn' = [conn EXCEPT ![a].token = NewToken(a, p)]
  BY DEF SaveToken, CallAt, Holding
<1>2. CallTrue(a, p) /\ p \notin Consents /\ p \notin Cleanups /\ conn[a] # NoConn
  BY <1>1, AgentFacts DEF CallTrue
<1>3. NewToken(a, p) \in RefreshTokens /\ NewToken(a, p) # NoToken /\ Given(a, NewToken(a, p))
  <2>1. call[a][p].http \in Requests /\ req[call[a][p].http].reply = "tokens" /\ req[call[a][p].http].grant = a
    BY <1>1, <1>2 DEF CallTrue
  <2>2. NewToken(a, p) = Refresh(call[a][p].http)
    BY DEF NewToken, Refresh
  <2> QED
    BY <2>1, <2>2, TokenFacts DEF Given
<1>4. PICK c \in Call : /\ Continues(a, p, c) /\ c.pc = "over" /\ c.token = call[a][p].token
                        /\ c.http = call[a][p].http /\ c.result = "ok"
  BY AgentFacts, ReturnsView DEF SaveToken, Results
<1>5. /\ conn' \in [Grants -> Connection]
      /\ conn'[a].token = NewToken(a, p) /\ conn'[a].status = conn[a].status
      /\ \A b \in Grants \ {a} : conn'[b] = conn[b]
  BY <1>1, <1>3, AgentFacts, ConnTokenView
<1>6. AgentStep(a, p, c)
  BY <1>1, <1>2, <1>3, <1>4, <1>5, AgentFacts DEF AgentStep, idp, Holds, NoConn
<1>7. Own(a, p, c)
  BY <1>1, <1>2, <1>3, <1>4, <1>5, AgentFacts DEF Own, CallTrue
<1> QED
  BY <1>6, <1>7, OwnInv

LEMMA WasRotatedInv ==
  ASSUME SInv, NEW a \in Grants, NEW p \in Calls, WasRotated(a, p)
  PROVE  SInv'
<1>1. call[a][p].pc = "history" /\ UNCHANGED <<idp, used, conn, rotations, stopped>> /\ ~Holding(a, p)
  BY DEF WasRotated, CallAt, Holding
<1>2. CallTrue(a, p) /\ p \notin Consents /\ p \notin Cleanups /\ conn[a] # NoConn /\ call[a][p].token # NoToken
  BY <1>1, AgentFacts, TokenFacts DEF CallTrue
<1>3. p \in Subjects => ~Smooth(a)
  BY <1>1, AgentFacts
<1>4. /\ CallGoto(a, p, "mark") \/ Returns(a, p, "refused")
      /\ reported' \in {reported, reported \union {a}}
  BY DEF WasRotated
<1>5. PICK c \in Call : /\ Continues(a, p, c) /\ c.pc \in {"mark", "over"} /\ c.token = call[a][p].token
                        /\ c.http = call[a][p].http /\ c.result \in {call[a][p].result, "refused"}
  <2>1. CASE CallGoto(a, p, "mark")
    BY <2>1, AgentFacts, CallGotoView DEF CallPcs
  <2>2. CASE Returns(a, p, "refused")
    BY <2>2, AgentFacts, ReturnsView DEF Results
  <2> QED
    BY <1>4, <2>1, <2>2
<1>6. AgentStep(a, p, c)
  BY <1>1, <1>2, <1>3, <1>4, <1>5, AgentFacts DEF AgentStep, idp, Holds
<1>7. Own(a, p, c)
  BY <1>1, <1>2, <1>5, AgentFacts DEF Own, CallTrue
<1> QED
  BY <1>6, <1>7, OwnInv

LEMMA MarkRevokedInv ==
  ASSUME SInv, NEW a \in Grants, NEW p \in Calls, MarkRevoked(a, p)
  PROVE  SInv'
<1>1. /\ call[a][p].pc = "mark" /\ UNCHANGED <<idp, used, rotations, stopped, reported>> /\ ~Holding(a, p)
      /\ conn' = [conn EXCEPT ![a].status = "REVOKED"]
  BY DEF MarkRevoked, CallAt, Holding
<1>2. CallTrue(a, p) /\ p \notin Consents /\ p \notin Cleanups /\ conn[a] # NoConn /\ call[a][p].token # NoToken
  BY <1>1, AgentFacts, TokenFacts DEF CallTrue
<1>3. p \in Subjects => ~Smooth(a)
  BY <1>1, AgentFacts
<1>4. PICK c \in Call : /\ Continues(a, p, c) /\ c.pc = "hand_back" /\ c.token = call[a][p].token
                        /\ c.http = call[a][p].http /\ c.result = call[a][p].result
  BY AgentFacts, CallGotoView DEF MarkRevoked, CallPcs
<1>5. /\ conn' \in [Grants -> Connection]
      /\ conn'[a].status = "REVOKED" /\ conn'[a].token = conn[a].token
      /\ \A b \in Grants \ {a} : conn'[b] = conn[b]
  BY <1>1, AgentFacts, ConnStatusView
<1>6. AgentStep(a, p, c)
  BY <1>1, <1>2, <1>3, <1>4, <1>5, AgentFacts DEF AgentStep, idp, Holds, NoConn
<1>7. Own(a, p, c)
  BY <1>1, <1>2, <1>4, <1>5, AgentFacts DEF Own, CallTrue, ConnTrue
<1> QED
  BY <1>6, <1>7, OwnInv

LEMMA CleanupReadsInv ==
  ASSUME SInv, NEW a \in Grants, NEW p \in Calls, CleanupReads(a, p)
  PROVE  SInv'
<1>1. /\ p \in Cleanups /\ call[a][p].pc = "idle" /\ a \in stopped /\ UNCHANGED <<idp, agent>>
      /\ ~Holding(a, p) /\ p \notin Consents /\ p \notin Subjects
  BY CallsAreDistinct DEF CleanupReads, CallAt, Holding
<1>2. conn[a] # NoConn /\ conn[a].token \in RefreshTokens \union {NoToken}
      /\ (conn[a].token # NoToken => Given(a, conn[a].token))
  BY <1>1, AgentFacts, TokenFacts DEF ConnTrue
<1> DEFINE to == IF conn[a].token = NoToken THEN "keep" ELSE "hand_back"
<1>3. to \in CallPcs /\ Opens(a, p, to, conn[a].token)
  BY DEF CleanupReads, CallPcs
<1>4. PICK c \in Call : Continues(a, p, c) /\ c.pc = to /\ c.token = conn[a].token /\ c.result = "none"
  <2> HIDE DEF to
  <2> QED
    BY <1>2, <1>3, AgentFacts, OpensView
<1>5. AgentStep(a, p, c)
  BY <1>1, <1>2, <1>4, AgentFacts DEF AgentStep, idp, agent, Holds
<1>6. Own(a, p, c)
  BY <1>1, <1>2, <1>4, AgentFacts DEF Own, agent
<1> QED
  BY <1>5, <1>6, OwnInv

LEMMA HandedBackInv ==
  ASSUME SInv, NEW a \in Grants, NEW p \in Calls, HandedBack(a, p)
  PROVE  SInv'
<1>1. call[a][p].pc = "handing" /\ UNCHANGED <<idp, agent>> /\ ~Holding(a, p)
  BY DEF HandedBack, CallAt, Holding
<1>2. CallTrue(a, p) /\ p \notin Consents /\ conn[a] # NoConn /\ call[a][p].token # NoToken
  BY <1>1, AgentFacts, TokenFacts DEF CallTrue
<1>3. p \in Subjects => ~Smooth(a)
  BY <1>1, AgentFacts
<1>4. \/ CallGoto(a, p, "forget") /\ At(call[a][p].http, "over") /\ req[call[a][p].http].reply = "revoked"
      \/ p \in Cleanups /\ CallGoto(a, p, "keep")
      \/ p \notin Cleanups /\ Returns(a, p, "refused")
  BY DEF HandedBack, Reply
<1>5. PICK c \in Call :
        /\ Continues(a, p, c) /\ c.token = call[a][p].token
        /\ c.http = call[a][p].http /\ c.result \in {call[a][p].result, "refused"}
        /\ \/ c.pc = "forget" /\ At(call[a][p].http, "over") /\ req[call[a][p].http].reply = "revoked"
           \/ c.pc = "keep"
           \/ c.pc = "over" /\ p \notin Cleanups
  <2>1. CASE CallGoto(a, p, "forget") /\ At(call[a][p].http, "over") /\ req[call[a][p].http].reply = "revoked"
    BY <2>1, AgentFacts, CallGotoView DEF CallPcs
  <2>2. CASE CallGoto(a, p, "keep")
    BY <2>2, AgentFacts, CallGotoView DEF CallPcs
  <2>3. CASE p \notin Cleanups /\ Returns(a, p, "refused")
    BY <2>3, AgentFacts, ReturnsView DEF Results
  <2> QED
    BY <1>4, <2>1, <2>2, <2>3
<1>6. AgentStep(a, p, c)
  BY <1>1, <1>2, <1>3, <1>5, AgentFacts DEF AgentStep, idp, agent, Holds
<1>7. Own(a, p, c)
  BY <1>1, <1>2, <1>5, AgentFacts DEF Own, CallTrue, agent
<1> QED
  BY <1>6, <1>7, OwnInv

LEMMA ForgetTokenInv ==
  ASSUME SInv, NEW a \in Grants, NEW p \in Calls, ForgetToken(a, p)
  PROVE  SInv'
<1> DEFINE n == [status |-> "REVOKED", token |-> NoToken]
           result == IF p \in Cleanups THEN "revoked" ELSE "refused"
<1>1. /\ call[a][p].pc = "forget" /\ UNCHANGED <<idp, used, rotations, stopped, reported>> /\ ~Holding(a, p)
      /\ conn' = [conn EXCEPT ![a] = n] /\ Returns(a, p, result)
  BY DEF ForgetToken, CallAt, Holding
<1>2. CallTrue(a, p) /\ p \notin Consents /\ conn[a] # NoConn
  BY <1>1, AgentFacts DEF CallTrue
<1>3. p \in Subjects => ~Smooth(a)
  BY <1>1, AgentFacts
<1>4. \E r \in Requests : At(r, "over") /\ req[r].grant = a /\ req[r].reply = "revoked"
  BY <1>1, <1>2 DEF CallTrue
<1>5. PICK c \in Call : /\ Continues(a, p, c) /\ c.pc = "over" /\ c.token = call[a][p].token
                        /\ c.http = call[a][p].http /\ c.result = result
  BY <1>1, AgentFacts, ReturnsView DEF Results
<1>6. n \in Connection /\ n.status = "REVOKED" /\ n.token = NoToken
  BY DEF Connection
<1> HIDE DEF n
<1>7. conn' \in [Grants -> Connection] /\ conn'[a] = n /\ \A b \in Grants \ {a} : conn'[b] = conn[b]
  BY <1>1, <1>6, AgentFacts
<1>8. AgentStep(a, p, c)
  BY <1>1, <1>2, <1>3, <1>5, <1>6, <1>7, AgentFacts DEF AgentStep, idp, Holds, NoConn
<1>9. Own(a, p, c)
  BY <1>1, <1>2, <1>4, <1>5, <1>6, <1>7, AgentFacts DEF Own, CallTrue
<1> QED
  BY <1>8, <1>9, OwnInv

LEMMA KeepForRetryInv ==
  ASSUME SInv, NEW a \in Grants, NEW p \in Calls, KeepForRetry(a, p)
  PROVE  SInv'
<1>1. /\ call[a][p].pc = "keep" /\ UNCHANGED <<idp, used, rotations, stopped, reported>> /\ ~Holding(a, p)
      /\ conn' = [conn EXCEPT ![a].status = "REVOKED"]
  BY DEF KeepForRetry, CallAt, Holding
<1>2. CallTrue(a, p) /\ p \notin Consents /\ conn[a] # NoConn
  BY <1>1, AgentFacts DEF CallTrue
<1>3. p \in Subjects => ~Smooth(a)
  BY <1>1, AgentFacts
<1>4. PICK c \in Call : /\ Continues(a, p, c) /\ c.pc = "over" /\ c.token = call[a][p].token
                        /\ c.http = call[a][p].http /\ c.result = "failed"
  BY AgentFacts, ReturnsView DEF KeepForRetry, Results
<1>5. /\ conn' \in [Grants -> Connection]
      /\ conn'[a].status = "REVOKED" /\ conn'[a].token = conn[a].token
      /\ \A b \in Grants \ {a} : conn'[b] = conn[b]
  BY <1>1, AgentFacts, ConnStatusView
<1>6. AgentStep(a, p, c)
  BY <1>1, <1>2, <1>3, <1>4, <1>5, AgentFacts DEF AgentStep, idp, Holds, NoConn
<1>7. Own(a, p, c)
  BY <1>1, <1>2, <1>4, <1>5, AgentFacts DEF Own, CallTrue, ConnTrue
<1> QED
  BY <1>6, <1>7, OwnInv

\* A connection that is there was made by a return of the browser that had
\* exchanged the same code, beside this one.
LEMMA TwoReturns ==
  ASSUME SInv, NEW a \in Grants, NEW p \in Consents, call[a][p].pc = "wait", Reply(a, p) = "tokens",
         conn[a] # NoConn
  PROVE  /\ TwiceSpent(a)
         /\ ~req[call[a][p].http].alone
         /\ \E q \in Consents : q # p /\ call[a][q].result = "ok"
<1>1. /\ p \in Calls /\ CallTrue(a, p) /\ ConnTrue(a) /\ ConsentTrue(a) /\ MetTrue
      /\ \A q \in Consents : CallTrue(a, q)
  BY DEF SInv, Calls
<1>2. PICK q \in Consents : call[a][q].pc = "over" /\ call[a][q].result = "ok"
  BY <1>1 DEF ConnTrue
<1>3. PICK r, s : r = call[a][p].http /\ s = call[a][q].http
  OBVIOUS
<1>4. Exchanged(a, r) /\ Exchanged(a, s)
  BY <1>1, <1>2, <1>3 DEF CallTrue, Holding, Exchanged, Reply
<1>5. r # s /\ p # q
  BY <1>1, <1>2, <1>3 DEF ConsentTrue, Exchanging
<1>6. TwiceSpent(a)
  BY <1>4, <1>5 DEF TwiceSpent, Exchanged, Presented
<1>7. s \notin req[r].after /\ r \notin req[s].after
  <2>1. BarredTrue(r) /\ BarredTrue(s)
    BY <1>4 DEF SInv, IdpInv, RequestTrue, Exchanged
  <2> QED
    BY <1>4, <2>1 DEF Exchanged, BarredTrue, Barred, Behind, Done
<1>8. ~req[r].alone
  BY <1>1, <1>4, <1>5, <1>7 DEF MetTrue, Exchanged
<1> QED
  BY <1>2, <1>3, <1>5, <1>6, <1>8

LEMMA CreateConnectionInv ==
  ASSUME SInv, NEW a \in Grants, NEW p \in Calls, CreateConnection(a, p)
  PROVE  SInv'
<1> DEFINE n == [status |-> "ACTIVE", token |-> NewToken(a, p)]
<1>1. /\ p \in Consents /\ p \notin Subjects /\ p \notin Cleanups
      /\ call[a][p].pc = "wait" /\ UNCHANGED <<idp, used, rotations, stopped, reported>> /\ Holding(a, p)
      /\ conn' = [conn EXCEPT ![a] = n] /\ Returns(a, p, "ok") /\ Reply(a, p) = "tokens"
  BY CallsAreDistinct DEF CreateConnection, CallAt, Holding
<1>2. CallTrue(a, p) /\ (conn[a] # NoConn => TwiceSpent(a))
  BY <1>1, AgentFacts, TwoReturns
<1>3. /\ NewToken(a, p) \in RefreshTokens /\ NewToken(a, p) # NoToken /\ Given(a, NewToken(a, p))
      /\ Exchanged(a, call[a][p].http)
  <2>1. Exchanged(a, call[a][p].http)
    BY <1>1, <1>2 DEF CallTrue, Reply, Exchanged
  <2>2. NewToken(a, p) = Refresh(call[a][p].http)
    BY DEF NewToken, Refresh
  <2> QED
    BY <2>1, <2>2, TokenFacts DEF Given, Exchanged
<1>4. PICK c \in Call : /\ Continues(a, p, c) /\ c.pc = "over" /\ c.token = call[a][p].token
                        /\ c.http = call[a][p].http /\ c.result = "ok"
  BY <1>1, AgentFacts, ReturnsView DEF Results
<1>5. n \in Connection /\ n.status = "ACTIVE" /\ n.token = NewToken(a, p)
  BY <1>3 DEF Connection
<1> HIDE DEF n
<1>6. conn' \in [Grants -> Connection] /\ conn'[a] = n /\ \A b \in Grants \ {a} : conn'[b] = conn[b]
  BY <1>1, <1>5, AgentFacts
<1>7. AgentStep(a, p, c)
  BY <1>1, <1>2, <1>3, <1>4, <1>5, <1>6, AgentFacts DEF AgentStep, idp, Holds, NoConn, Exchanging
<1>8. Own(a, p, c)
  BY <1>1, <1>2, <1>3, <1>4, <1>5, <1>6, AgentFacts DEF Own, CallTrue
<1> QED
  BY <1>7, <1>8, OwnInv

\* The steps of a return of the browser that leave the connection alone.
LEMMA ConsentGoesOn ==
  ASSUME SInv, NEW a \in Grants, NEW p \in Calls, ReadState(a, p) \/ MarkUsed(a, p) \/ ConsentFails(a, p)
  PROVE  SInv'
<1>1. /\ UNCHANGED <<idp, conn, rotations, stopped, reported>> /\ used' \in {used, used \union {a}}
      /\ call[a][p].pc \in {"idle", "use", "exchange", "wait"}
      /\ CallGoto(a, p, "use") \/ CallGoto(a, p, "exchange") \/ Returns(a, p, "refused")
  BY DEF ReadState, MarkUsed, ConsentFails, CallAt, agent
<1>2. CallTrue(a, p) /\ p \in Consents /\ p \notin Subjects /\ p \notin Cleanups
  BY AgentFacts, CallsAreDistinct DEF ReadState, MarkUsed, ConsentFails, CallAt, CallTrue
<1>3. PICK c \in Call : /\ Continues(a, p, c) /\ c.pc \in {"use", "exchange", "over"}
                        /\ c.token = call[a][p].token /\ c.http = call[a][p].http
                        /\ c.result \in {call[a][p].result, "refused"}
  <2>1. CASE CallGoto(a, p, "use")
    BY <2>1, AgentFacts, CallGotoView DEF CallPcs
  <2>2. CASE CallGoto(a, p, "exchange")
    BY <2>2, AgentFacts, CallGotoView DEF CallPcs
  <2>3. CASE Returns(a, p, "refused")
    BY <2>3, AgentFacts, ReturnsView DEF Results
  <2> QED
    BY <1>1, <2>1, <2>2, <2>3
<1>4. (c.result \notin {"ok", "revoked"}) \/ (c.result = "revoked" /\ call[a][p].result = "revoked")
  BY <1>1, <1>2, <1>3 DEF CallTrue
<1>5. used' \subseteq Grants
  BY <1>1 DEF SInv, STypeOK
<1>6. AgentStep(a, p, c)
  BY <1>1, <1>2, <1>3, <1>4, <1>5, AgentFacts DEF AgentStep, idp, Holds
<1>7. Own(a, p, c)
  BY <1>1, <1>2, <1>3, <1>4, AgentFacts DEF Own, CallTrue
<1> QED
  BY <1>6, <1>7, OwnInv

LEMMA CallFailsInv ==
  ASSUME SInv, NEW a \in Grants, NEW p \in Calls, CallFails(a, p)
  PROVE  SInv'
<1> DEFINE result == IF p \in Cleanups THEN "failed" ELSE "refused"
<1>1. /\ UNCHANGED <<doc, session, auth, req, lapsed, used, conn, rotations, stopped, reported>>
      /\ faults < MaxFaults /\ faults' = faults + 1
      /\ call[a][p].pc \notin {"idle", "over"} /\ Returns(a, p, result)
  BY DEF CallFails, Active, agent
<1>2. faults' \in 0 .. MaxFaults /\ faults' # 0
  BY <1>1, AgentFacts, ConstantsAssumption
<1>3. CallTrue(a, p) /\ (p \notin Consents => conn[a] # NoConn) /\ (p \in Consents => call[a][p].pc \in {"use", "exchange", "wait"})
  BY <1>1, AgentFacts DEF CallTrue
<1>4. PICK c \in Call : /\ Continues(a, p, c) /\ c.pc = "over" /\ c.token = call[a][p].token
                        /\ c.http = call[a][p].http /\ c.result = result
  BY <1>1, AgentFacts, ReturnsView DEF Results
<1>5. AgentStep(a, p, c)
  BY <1>1, <1>2, <1>4, AgentFacts DEF AgentStep, Holds
<1>6. Own(a, p, c)
  BY <1>1, <1>3, <1>4, AgentFacts DEF Own, CallTrue
<1> QED
  BY <1>5, <1>6, OwnInv

\* Where neither the requests nor the calls nor the connections change.
LEMMA RestInv ==
  ASSUME SInv, UNCHANGED <<doc, session, auth, req, lapsed, faults, used, conn, rotations, call, reported>>,
         stopped' \subseteq Grants, \A a \in stopped' \ stopped : conn[a] # NoConn
  PROVE  SInv'
<1>1. TypeOK' /\ IdpInv'
  <2>1. TypeOK'
    BY DEF SInv, IdpInv, TypeOK
  <2> QED
    BY <2>1, WorldInv DEF SInv
<1>2. STypeOK'
  BY <1>1 DEF SInv, STypeOK
<1>3. \A a \in Grants : ConnTrue(a)' /\ CleanedTrue(a)' /\ ConsentTrue(a)'
  BY DEF SInv, ConnTrue, CleanedTrue, ConsentTrue, Exchanging, TwiceSpent, Presented, Begun, Given, Refresh
<1>4. \A a \in Grants : SmoothTrue(a)'
  BY DEF SInv, SmoothTrue, Smooth, Sound, TwiceSpent, Presented, Begun, At, Holding
<1>5. ASSUME NEW a \in Grants, NEW p \in Calls PROVE CallTrue(a, p)'
  <2>1. CallTrue(a, p)
    BY DEF SInv
  <2> QED
    BY <2>1 DEF CallTrue, Exchanged, Given, Refresh, Holding, Begun, At, Code
<1>6. HeldTrue' /\ MetTrue'
  BY DEF SInv, HeldTrue, Holding, Unheld, Refresh, MetTrue, Begun
<1> QED
  BY <1>1, <1>2, <1>3, <1>4, <1>5, <1>6 DEF SInv

LEMMA StopAgentInv ==
  ASSUME SInv, NEW a \in Grants, StopAgent(a)
  PROVE  SInv'
BY RestInv DEF StopAgent, Registered, idp, SInv, STypeOK

-----------------------------------------------------------------------------
(* The connection, over whole behaviours.                                  *)

LEMMA SubjectInit == SInit => SInv
<1> SUFFICES ASSUME SInit PROVE SInv
  OBVIOUS
<1>1. IdpInv /\ TypeOK
  BY IdpInit DEF SInit, IdpInv
<1>2. session = Grants /\ lapsed = {} /\ faults = 0 /\ \A r \in Requests : req[r] = Idle
  BY DEF SInit, Init
<1>3. /\ NoConn \in Connection /\ NoConn.status = "absent" /\ NoConn.token = NoToken
      /\ Waiting \in Call /\ Waiting.pc = "idle" /\ Waiting.token = NoToken /\ Waiting.result = "none"
  BY DEF NoConn, Connection, Waiting, Call, Results
<1>4. /\ \A a \in Grants : conn[a] = NoConn
      /\ \A a \in Grants, p \in Calls : call[a][p] = Waiting
      /\ used = {} /\ stopped = {} /\ rotations = {}
  BY DEF SInit
<1>5. STypeOK
  <2>1. conn \in [Grants -> Connection] /\ call \in [Grants -> [Calls -> Call]] /\ reported = {}
    BY <1>3 DEF SInit
  <2> QED
    BY <1>1, <1>4, <2>1 DEF STypeOK
<1>6. Consents \subseteq Calls /\ Subjects \subseteq Calls /\ Cleanups \subseteq Calls
  BY DEF Calls
<1>7. \A a \in Grants : ConnTrue(a) /\ CleanedTrue(a) /\ ConsentTrue(a)
  BY <1>3, <1>4, <1>6 DEF ConnTrue, CleanedTrue, ConsentTrue, Exchanging
<1>8. \A a \in Grants : Presented(a) = {}
  BY <1>2, IdleFacts DEF Presented, Begun, Idle
<1>9. \A a \in Grants : SmoothTrue(a)
  BY <1>3, <1>4, <1>6, <1>8 DEF SmoothTrue, Sound
<1>10. \A a \in Grants, p \in Calls : CallTrue(a, p)
  BY <1>3, <1>4 DEF CallTrue, Holding
<1>11. HeldTrue /\ MetTrue
  BY <1>2, <1>3, <1>4, IdleFacts DEF HeldTrue, Holding, MetTrue, Begun
<1> QED
  BY <1>1, <1>2, <1>5, <1>7, <1>9, <1>10, <1>11 DEF SInv

LEMMA SubjectInductive == SInv /\ [SNext]_svars => SInv'
<1> SUFFICES ASSUME SInv, [SNext]_svars PROVE SInv'
  OBVIOUS
<1>1. ASSUME NEW r \in Requests, IdpStep(r) PROVE SInv'
  BY <1>1, IdpSteps
<1>2. ASSUME NEW a \in Grants, Authorizes(a) \/ StopAgent(a) PROVE SInv'
  BY <1>2, AuthorizesInv, StopAgentInv
<1>3. ASSUME NEW a \in Grants, NEW p \in Calls, SubjectStep(a, p) PROVE SInv'
  BY <1>3, AuthenticateInv, ReadConnectionInv, SpendInv, GetsInv, RememberInv, SaveTokenInv,
     WasRotatedInv, MarkRevokedInv DEF SubjectStep
<1>4. ASSUME NEW a \in Grants, NEW p \in Calls, HandingStep(a, p) PROVE SInv'
  BY <1>4, CleanupReadsInv, HandBackInv, HandedBackInv, ForgetTokenInv, KeepForRetryInv DEF HandingStep
<1>5. ASSUME NEW a \in Grants, NEW p \in Calls, CallFails(a, p) PROVE SInv'
  BY <1>5, CallFailsInv
<1>6. CASE UNCHANGED svars
  BY <1>6, RestInv DEF svars, idp, agent, SInv, STypeOK
<1>7. ASSUME NEW a \in Grants, NEW p \in Calls, ConsentStep(a, p) PROVE SInv'
  BY <1>7, ExchangeCodeInv, CreateConnectionInv, ConsentGoesOn DEF ConsentStep
<1> QED
  BY <1>1, <1>2, <1>3, <1>4, <1>5, <1>6, <1>7 DEF SNext

LEMMA SubjectInvariant == SSpec => []SInv
BY SubjectInit, SubjectInductive, PTL DEF SSpec

LEMMA SerialRotation == SInv => SerialRotationKeepsWorking
<1> SUFFICES ASSUME SInv, NEW a \in Grants, faults = 0, ~TwiceSpent(a), conn[a].status = "ACTIVE",
                    \A p \in Calls : ~Active(a, p)
             PROVE  conn[a].token # NoToken /\ Usable(conn[a].token)
  BY DEF SerialRotationKeepsWorking
<1>1. /\ IdpInv /\ lapsed = {} /\ ConnTrue(a) /\ SmoothTrue(a) /\ CleanedTrue(a)
      /\ \A p \in Calls : CallTrue(a, p)
  BY DEF SInv
<1>2. Smooth(a)
  BY <1>1 DEF Smooth, CleanedTrue, Active, Calls
<1>3. PICK x \in Requests : conn[a].token = Refresh(x) /\ req[x].reply = "tokens" /\ req[x].grant = a
  BY <1>1 DEF ConnTrue, Given
<1>4. /\ conn[a].token # NoToken
      /\ \A r \in Requests : req[r].cred # conn[a].token
  BY <1>1, <1>2 DEF ConnTrue, SmoothTrue, Active, Holding, Calls
<1>5. Untouched(a)
  BY <1>1, <1>2 DEF SmoothTrue, Sound, Untouched
<1>6. /\ Exists(conn[a].token) /\ ~doc[conn[a].token].revoked /\ ~doc[conn[a].token].used
  BY <1>1, <1>3, <1>4, <1>5 DEF IdpInv, RequestTrue, IntactTrue
<1> QED
  BY <1>1, <1>4, <1>6 DEF Usable, Live

LEMMA QuietCleanup == SInv => QuietCleanupEndsGrant
<1> SUFFICES ASSUME SInv, NEW a \in Grants, NEW p \in Cleanups, call[a][p].result = "revoked",
                    \A r \in Presented(a) : req[r].alone /\ req[r].reply # "error"
             PROVE  \A d \in Docs : Exists(d) /\ doc[d].grant = a => ~Live(d)
  BY DEF QuietCleanupEndsGrant
<1>1. IdpInv /\ lapsed = {} /\ CallTrue(a, p)
  BY DEF SInv, Calls
<1>2. PICK r \in Requests : At(r, "over") /\ req[r].grant = a /\ req[r].reply = "revoked"
  BY <1>1 DEF CallTrue
<1>3. r \in Presented(a) /\ RequestTrue(r)
  BY <1>1, <1>2 DEF IdpInv, Presented, Begun, At
<1>4. PICK q \in Presented(a) : At(q, "over") /\ req[q].round = 2
  <2>1. CASE req[r].round = 2
    BY <1>2, <1>3, <2>1
  <2>2. CASE req[r].round # 2
    <3>1. req[r].round = 1
      BY <1>1, <2>2 DEF IdpInv, TypeOK, Request
    <3> QED
      BY <1>1, <1>2, <1>3, <3>1 DEF RequestTrue, RevokedTrue
  <2> QED
    BY <2>1, <2>2
<1>5. q \in Requests /\ req[q].grant = a /\ req[q].alone /\ req[q].reply # "error" /\ RequestTrue(q)
  BY <1>1, <1>4 DEF IdpInv, Presented
<1>6. Final(q)
  BY <1>4, <1>5 DEF RequestTrue, ReplyTrue, Final
<1> QED
  BY <1>5, <1>6 DEF RequestTrue, QuietTrue, Closed

\* Of the actions that write the connection, only the consent callback makes one
\* ACTIVE.
LEMMA RevokedStays ==
  SInv /\ [SNext]_svars =>
    \A a \in Grants :
       conn[a].status = "REVOKED" /\ conn'[a].status # "REVOKED" =>
         \E p, q \in Consents :
           /\ p # q
           /\ call[a][q].result = "ok"
           /\ CallAt(a, p, "wait") /\ call'[a][p].result = "ok"
           /\ ~req[call[a][p].http].alone
<1> SUFFICES ASSUME SInv, [SNext]_svars, NEW a \in Grants, conn[a].status = "REVOKED",
                    \A p \in Calls : ~CreateConnection(a, p)
             PROVE  conn'[a].status = "REVOKED"
  <2>1. ASSUME SInv, NEW a \in Grants, conn[a].status = "REVOKED", NEW p \in Calls, CreateConnection(a, p)
        PROVE  \E x, y \in Consents :
                 /\ x # y
                 /\ call[a][y].result = "ok"
                 /\ CallAt(a, x, "wait") /\ call'[a][x].result = "ok"
                 /\ ~req[call[a][x].http].alone
    <3>1. p \in Consents /\ call[a][p].pc = "wait" /\ Reply(a, p) = "tokens" /\ Returns(a, p, "ok")
      BY <2>1 DEF CreateConnection, CallAt
    <3>2. conn[a] # NoConn
      BY <2>1 DEF NoConn
    <3>3. call'[a][p].result = "ok"
      <4>1. PICK c \in Call : Continues(a, p, c) /\ c.result = "ok"
        BY <2>1, <3>1, AgentFacts, ReturnsView DEF Results
      <4> QED
        BY <4>1 DEF Continues
    <3>4. /\ ~req[call[a][p].http].alone
          /\ \E q \in Consents : q # p /\ call[a][q].result = "ok"
      BY <2>1, <3>1, <3>2, TwoReturns
    <3> QED
      BY <3>1, <3>3, <3>4 DEF CallAt
  <2> QED
    BY <2>1
<1>1. conn \in [Grants -> Connection] /\ conn[a] # NoConn
  BY DEF SInv, STypeOK, NoConn
<1>3. ASSUME NEW b \in Grants, NEW p \in Calls, CreateConnection(b, p) PROVE conn'[a].status = "REVOKED"
  <2>1. a # b
    BY <1>3
  <2> QED
    BY <1>1, <1>3, <2>1 DEF CreateConnection
<1>4. ASSUME NEW b \in Grants, NEW p \in Calls, SaveToken(b, p) PROVE conn'[a].status = "REVOKED"
  <2>1. conn'[a] = IF a = b THEN [conn[a] EXCEPT !.token = NewToken(b, p)] ELSE conn[a]
    BY <1>1, <1>4 DEF SaveToken
  <2>2. conn[a] \in Connection
    BY <1>1
  <2> QED
    BY <2>1, <2>2 DEF Connection
<1>5. ASSUME NEW b \in Grants, NEW p \in Calls, MarkRevoked(b, p) \/ KeepForRetry(b, p)
      PROVE  conn'[a].status = "REVOKED"
  <2>1. conn' = [conn EXCEPT ![b].status = "REVOKED"]
    BY <1>5 DEF MarkRevoked, KeepForRetry
  <2> QED
    BY <1>1, <2>1, ConnStatusView
<1>6. ASSUME NEW b \in Grants, NEW p \in Calls, ForgetToken(b, p) PROVE conn'[a].status = "REVOKED"
  BY <1>1, <1>6 DEF ForgetToken
<1>7. ASSUME conn' = conn PROVE conn'[a].status = "REVOKED"
  BY <1>7
<1>8. CASE UNCHANGED svars
  BY <1>7, <1>8 DEF svars, agent
<1>9. ASSUME NEW r \in Requests, IdpStep(r) PROVE conn'[a].status = "REVOKED"
  BY <1>7, <1>9 DEF IdpStep, agent
<1>10. ASSUME NEW b \in Grants, Authorizes(b) \/ StopAgent(b) PROVE conn'[a].status = "REVOKED"
  BY <1>7, <1>10 DEF Authorizes, StopAgent, agent
<1>13. ASSUME NEW b \in Grants, NEW p \in Calls, ConsentStep(b, p) PROVE conn'[a].status = "REVOKED"
  BY <1>3, <1>7, <1>13 DEF ConsentStep, ReadState, MarkUsed, ExchangeCode, ConsentFails, agent
<1>11. ASSUME NEW b \in Grants, NEW p \in Calls, SubjectStep(b, p) PROVE conn'[a].status = "REVOKED"
  BY <1>4, <1>5, <1>7, <1>11
     DEF SubjectStep, Authenticate, ReadConnection, Spend, GetsTokens, GetsRefusal, GetsNoResponse,
         Remember, WasRotated, agent
<1>12. ASSUME NEW b \in Grants, NEW p \in Calls, HandingStep(b, p) \/ CallFails(b, p)
       PROVE  conn'[a].status = "REVOKED"
  BY <1>5, <1>6, <1>7, <1>12 DEF HandingStep, CleanupReads, HandBack, HandedBack, CallFails, agent
<1> QED
  BY <1>8, <1>9, <1>10, <1>11, <1>12, <1>13 DEF SNext

\* Type correctness of the Agent OP's connection and its calls.
THEOREM SubjectTypeCorrect == SSpec => []STypeOK
<1>1. SInv => STypeOK
  BY DEF SInv
<1> QED
  BY <1>1, SubjectInvariant, PTL

\* Where nothing fails and no token is presented twice, an active connection
\* holds, between the calls, a refresh token that the Human IdP takes.
THEOREM SerialRotationHolds == SSpec => []SerialRotationKeepsWorking
BY SubjectInvariant, SerialRotation, PTL

\* A cleanup that reports the connection revoked leaves nothing of the grant
\* live, if its requests did not run beside each other at the Human IdP.
THEOREM QuietCleanupHolds == SSpec => []QuietCleanupEndsGrant
BY SubjectInvariant, QuietCleanup, PTL

\* No step, late as it may be, makes a connection marked REVOKED usable again but
\* the creation by the second of two returns that both exchanged the code.
THEOREM RevokedHolds == SSpec => RevokedStaysRevoked
BY SubjectInvariant, RevokedStays, PTL DEF SSpec, RevokedStaysRevoked
=============================================================================
