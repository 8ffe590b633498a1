----------------------- MODULE WorkDefinitionsProofs ------------------------
(***************************************************************************)
(* What holds of WorkDefinitions for any number of wordings, definitions,  *)
(* transactions and requests at once.  The inductive invariant says what   *)
(* the record a request carries still tells of the stored one: some of it  *)
(* however stale it is, because the facts it rests on are never undone,    *)
(* and the rest as long as no write undid another's.                       *)
(***************************************************************************)
EXTENDS WorkDefinitions, TLAPS

\* A ToDo that names an agent is past its confirmation.
Sound(t) == t.agent # None =>
  /\ t.status \notin {"DRAFT", "CONFIRMED"}
  /\ run[t.agent].status \in {"ACTIVE", "ending", "over"}

Presented(d) == definition[d].status # "none"
Begun(x)     == run[x].status \in {"ACTIVE", "ending", "over"}

ReadOK(q) ==
  /\ q.at \in Writes \union {"submit", "link", "tell"} => q.read \in ToDos /\ Sound(q.read)
  /\ q.at \in {"edit", "message", "confirm"} => q.read.status = "DRAFT"
  /\ q.at = "submit" => q.read.status = "CONFIRMED" /\ q.read.text \in confirmed
  /\ q.at \in {"complete", "cancel", "withdraw"} => isOpen(q.read)
  /\ q.at = "withdraw" /\ q.read.agent # None => run[q.read.agent].status \in {"ending", "over"}

DefinitionOK(q) ==
  /\ q.at = "approve" =>
       /\ q.id \in Definitions /\ Presented(q.id)
       /\ q.seen = [status |-> "presented", text |-> definition[q.id].text, tx |-> None]
  /\ q.at \in {"provision", "remember"} =>
       q.id \in Definitions /\ definition[q.id].status = "approved"

RunOK(q) ==
  /\ q.at = "idle" => q = Idle
  /\ q.at = "remember" =>
       q.tx \in Transactions /\ run[q.tx].of = q.id
  /\ q.at \in {"resumed", "link", "tell"} => q.tx \in Transactions /\ Begun(q.tx)

RequestOK(q) == ReadOK(q) /\ DefinitionOK(q) /\ RunOK(q)

RunsOK ==
  \A x \in Transactions :
    /\ run[x].status # "none" => run[x].of # None
    /\ run[x].status = "none" => run[x] = NoRun
    /\ run[x].of # None => definition[run[x].of].status = "approved"
    /\ run[x].status \in {"offered", "ACTIVE"} /\ x \notin unlinked =>
         definition[run[x].of].tx = x

ConfirmedOK ==
  /\ todo.status = "CONFIRMED" => todo.text \in confirmed
  /\ \A d \in Definitions : Presented(d) => definition[d].text \in confirmed
  /\ \A d \in Definitions : definition[d].status # "approved" => definition[d].tx = None

\* What only holds as long as no write undid another's.
WordingOK ==
  ~overtaken =>
    /\ \A d \in Definitions :
         Presented(d) => todo.status # "DRAFT" /\ definition[d].text = todo.text
    /\ \A r \in Requests :
         /\ At(r, "submit") => todo.status # "DRAFT" /\ req[r].read.text = todo.text
         /\ req[r].at \in {"link", "tell"} => req[r].read.text = todo.text

IInv ==
  /\ TypeOK
  /\ \A r \in Requests : RequestOK(req[r])
  /\ Sound(todo)
  /\ RunsOK
  /\ ConfirmedOK
  /\ WordingOK
  /\ ToldWhatWasDecided
  /\ WithdrawnIsEnding
  /\ EveryAgentIsTold

-----------------------------------------------------------------------------
(* Values of the right type.                                               *)

LEMMA IdleType == Idle \in Request
BY DEF Idle, Request, Steps

LEMMA TypeReads ==
  ASSUME TypeOK, NEW r \in Requests,
         \/ ReadEdit(r) \/ ReadMessage(r) \/ ReadConfirm(r) \/ ReadComplete(r)
         \/ ReadCancel(r) \/ ReadSubmit(r)
  PROVE  TypeOK'
<1>1. PICK step \in {"edit", "message", "confirm", "complete", "cancel", "submit"} : Reads(r, step)
  BY DEF ReadEdit, ReadMessage, ReadConfirm, ReadComplete, ReadCancel, ReadSubmit
<1>2. [req[r] EXCEPT !.at = step, !.read = todo] \in Request
  BY <1>1 DEF TypeOK, Request, Steps, Writes
<1> QED BY <1>1, <1>2 DEF TypeOK, Reads, records, history

LEMMA TypeAnswers ==
  ASSUME TypeOK, NEW r \in Requests,
         Cancel(r) \/ NoRevision(r) \/ Refused(r) \/ RequestDies(r)
  PROVE  TypeOK'
<1>1. PICK step \in Steps : Goto(r, step) \/ Ends(r)
  BY DEF Cancel, NoRevision, Refused, RequestDies, Steps, Writes
<1>2. [req[r] EXCEPT !.at = step] \in Request
  BY <1>1 DEF TypeOK, Request
<1>3. req' \in [Requests -> Request]
  BY <1>1, <1>2, IdleType DEF TypeOK, Goto, Ends
<1>4. req[r].tx \in Transactions \union {None}
  BY DEF TypeOK, Request
<1> QED BY <1>3, <1>4 DEF TypeOK, Cancel, NoRevision, Refused, RequestDies, records, history

LEMMA TypeSaves ==
  ASSUME TypeOK, NEW r \in Requests, RequestOK(req[r]),
         \/ SaveEdit(r) \/ SaveMessage(r) \/ SaveConfirm(r) \/ SaveComplete(r)
         \/ SaveCancel(r) \/ RememberAgent(r)
  PROVE  TypeOK'
<1>1. req[r].read \in ToDos
  BY DEF RequestOK, ReadOK, SaveEdit, SaveMessage, SaveConfirm, SaveComplete, SaveCancel,
    RememberAgent, At, Writes
<1>2. At(r, "link") => req[r].tx \in Transactions
  BY DEF RequestOK, RunOK, At
<1>3. PICK new \in ToDos : Save(r, new)
  <2>1. CASE SaveEdit(r) \/ SaveMessage(r)
    BY <1>1, <2>1 DEF SaveEdit, SaveMessage, Edited, Revised, ToDos
  <2>2. CASE SaveConfirm(r) \/ SaveComplete(r) \/ SaveCancel(r)
    BY <1>1, <2>2 DEF SaveConfirm, SaveComplete, SaveCancel, ToDos, Statuses
  <2>3. CASE RememberAgent(r)
    BY <1>1, <1>2, <2>3 DEF RememberAgent, startExecution, ToDos, Statuses
  <2> QED BY <2>1, <2>2, <2>3
<1>4. todo' \in ToDos /\ overtaken' \in BOOLEAN
  BY <1>3 DEF Save
<1>5. \A t \in ToDos : [req[r] EXCEPT !.at = "tell", !.read = t] \in Request
  BY DEF TypeOK, Request, Steps
<1>8. startExecution(req[r].read, req[r].tx) \in ToDos \/ ~RememberAgent(r)
  BY <1>1, <1>2 DEF RememberAgent, startExecution, ToDos, Statuses
<1>6. req' \in [Requests -> Request]
  BY <1>5, <1>8, IdleType DEF TypeOK, SaveEdit, SaveMessage, SaveConfirm, SaveComplete, SaveCancel,
    RememberAgent, Ends
<1>7. req[r].read.text \in Texts
  BY <1>1 DEF ToDos
<1> QED
  BY <1>4, <1>6, <1>7 DEF TypeOK, SaveEdit, SaveMessage, SaveConfirm, SaveComplete, SaveCancel,
    RememberAgent

LEMMA TypeFlow ==
  ASSUME TypeOK, NEW r \in Requests, RequestOK(req[r]),
         \/ Decided(r) \/ Approve(r) \/ Provision(r) \/ RememberTransaction(r)
         \/ \E d \in Definitions : ReadApprove(r, d) \/ ReadProvision(r, d)
         \/ \E x \in Transactions : Resume(r, x)
         \/ FindWork(r) \/ LeaveClosed(r) \/ Tell(r)
  PROVE  TypeOK'
<1> USE DEF TypeOK
<1>q. req[r] \in Request
  OBVIOUS
<1>1. CASE Decided(r)
  <2>1. PICK d \in Definitions :
          definition' = [definition EXCEPT ![d] =
            [@ EXCEPT !.status = "presented", !.text = req[r].read.text]]
    BY <1>1 DEF Decided
  <2>2. req[r].read \in ToDos
    BY <1>1 DEF Decided, RequestOK, ReadOK, At
  <2>3. [definition[d] EXCEPT !.status = "presented", !.text = req[r].read.text] \in DefinitionRecords
    BY <2>2 DEF DefinitionRecords, ToDos
  <2> QED BY <1>1, <2>1, <2>3, IdleType DEF Decided, Ends, history
<1>2. CASE Approve(r)
  <2>1. /\ req[r].id \in Definitions
        /\ req[r].seen = [status |-> "presented", text |-> definition[req[r].id].text, tx |-> None]
    BY <1>2 DEF Approve, RequestOK, DefinitionOK, At
  <2>2. [req[r].seen EXCEPT !.status = "approved"] \in DefinitionRecords
    BY <2>1 DEF DefinitionRecords
  <2>3. {definition[req[r].id].tx} \ {req[r].seen.tx} \subseteq Transactions
    BY <2>1 DEF DefinitionRecords
  <2> QED BY <1>2, <2>1, <2>2, <2>3, IdleType DEF Approve, Ends
<1>3. CASE Provision(r)
  <2>1. PICK x \in Transactions :
          /\ run' = [run EXCEPT ![x] = [@ EXCEPT !.status = "asked", !.of = req[r].id]]
          /\ req' = [req EXCEPT ![r] = [@ EXCEPT !.at = "remember", !.tx = x]]
    BY <1>3 DEF Provision
  <2>4. run[x] \in Runs /\ req[r].id \in Definitions \union {None}
    BY <1>q DEF Request
  <2>2. [run[x] EXCEPT !.status = "asked", !.of = req[r].id] \in Runs
    BY <2>4 DEF Runs
  <2>3. [req[r] EXCEPT !.at = "remember", !.tx = x] \in Request
    BY <1>q DEF Request, Steps
  <2> QED BY <1>3, <2>1, <2>2, <2>3 DEF Provision, history
<1>4. CASE RememberTransaction(r)
  <2>1. req[r].id \in Definitions /\ req[r].tx \in Transactions
    BY <1>4 DEF RememberTransaction, RequestOK, DefinitionOK, RunOK, At
  <2>2. \A d \in Definitions : [definition[d] EXCEPT !.tx = req[r].tx] \in DefinitionRecords
    BY <2>1 DEF DefinitionRecords
  <2>3. {definition[req[r].id].tx} \ {None} \subseteq Transactions
    BY <2>1 DEF DefinitionRecords
  <2>4. \A x \in Transactions : \A status \in {"offered", run[x].status} :
          [run[x] EXCEPT !.status = status] \in Runs
    BY DEF Runs
  <2>5. run' \in [Transactions -> Runs]
    BY <1>4, <2>1, <2>4 DEF RememberTransaction
  <2> QED BY <1>4, <2>1, <2>2, <2>3, <2>5, IdleType DEF RememberTransaction, Ends
<1>5. CASE \E d \in Definitions : ReadApprove(r, d) \/ ReadProvision(r, d)
  <2>1. PICK d \in Definitions : ReadApprove(r, d) \/ ReadProvision(r, d)
    BY <1>5
  <2>2. /\ [req[r] EXCEPT !.at = "approve", !.id = d, !.seen = definition[d]] \in Request
        /\ [req[r] EXCEPT !.at = "provision", !.id = d] \in Request
    BY <1>q DEF Request, Steps
  <2> QED BY <2>1, <2>2 DEF ReadApprove, ReadProvision, records, history
<1>6. CASE \E x \in Transactions : Resume(r, x)
  <2>1. PICK x \in Transactions : Resume(r, x)
    BY <1>6
  <2>2. [run[x] EXCEPT !.status = "ACTIVE"] \in Runs
    BY DEF Runs
  <2>3. [req[r] EXCEPT !.at = "resumed", !.tx = x] \in Request
    BY <1>q DEF Request, Steps
  <2> QED BY <2>1, <2>2, <2>3 DEF Resume, history
<1>7. CASE FindWork(r) \/ LeaveClosed(r)
  <2>1. /\ [req[r] EXCEPT !.at = "link", !.read = todo] \in Request
        /\ [req[r] EXCEPT !.at = "tell"] \in Request
    BY <1>q DEF Request, Steps
  <2> QED BY <1>7, <2>1, IdleType DEF FindWork, LeaveClosed, records, history, Ends, Goto
<1>8. CASE Tell(r)
  <2>1. req[r].tx \in Transactions /\ req[r].read.text \in Texts
    BY <1>8 DEF Tell, RequestOK, ReadOK, RunOK, ToDos, At
  <2>2. [run[req[r].tx] EXCEPT !.told = req[r].read.text] \in Runs
    BY <2>1 DEF Runs
  <2> QED BY <1>8, <2>1, <2>2, IdleType DEF Tell, history, Ends
<1> QED BY <1>1, <1>2, <1>3, <1>4, <1>5, <1>6, <1>7, <1>8

LEMMA TypeWorld ==
  ASSUME TypeOK, NEW x \in Transactions, ResumeFails(x) \/ AgentIsEnding(x) \/ AgentEnds(x)
  PROVE  TypeOK'
<1>1. /\ [run[x] EXCEPT !.status = "over"] \in Runs
      /\ [run[x] EXCEPT !.status = "ending"] \in Runs
  BY DEF TypeOK, Runs
<1> QED BY <1>1 DEF TypeOK, ResumeFails, AgentIsEnding, AgentEnds, history

-----------------------------------------------------------------------------
(* What a request carries stays as true as it was, while another request   *)
(* takes a step: what it rests on is never undone.                         *)

Monotone ==
  /\ TypeOK /\ TypeOK'
  /\ \A x \in Transactions : Begun(x) => Begun(x)'
  /\ \A x \in Transactions :
       run[x].status \in {"ending", "over"} => run'[x].status \in {"ending", "over"}
  /\ \A x \in Transactions : run[x].of # None => run'[x].of = run[x].of
  /\ confirmed \subseteq confirmed'
  /\ \A d \in Definitions : Presented(d) => Presented(d)' /\ definition'[d].text = definition[d].text
  /\ \A d \in Definitions : definition[d].status = "approved" => definition'[d].status = "approved"

LEMMA SoundKept ==
  ASSUME Monotone, NEW t \in ToDos, Sound(t)
  PROVE  Sound(t)'
BY DEF Monotone, Sound, ToDos, Begun

LEMMA RequestKept ==
  ASSUME Monotone, NEW q \in Request, RequestOK(q)
  PROVE  RequestOK(q)'
<1>1. ReadOK(q)'
  <2>1. q.at \in Writes \union {"submit", "link", "tell"} => q.read \in ToDos /\ Sound(q.read)'
    BY SoundKept DEF RequestOK, ReadOK
  <2>2. q.at = "withdraw" /\ q.read.agent # None => run'[q.read.agent].status \in {"ending", "over"}
    <3> SUFFICES ASSUME q.at = "withdraw", q.read.agent # None PROVE run'[q.read.agent].status \in {"ending", "over"}
      OBVIOUS
    <3>1. q.read.agent \in Transactions
      BY DEF RequestOK, ReadOK, Writes, ToDos
    <3> QED BY <3>1 DEF RequestOK, ReadOK, Monotone
  <2> QED BY <2>1, <2>2 DEF RequestOK, ReadOK, Monotone
<1>2. DefinitionOK(q)'
  BY DEF RequestOK, DefinitionOK, Monotone
<1>3. RunOK(q)'
  <2>1. q.at = "remember" => q.tx \in Transactions /\ run'[q.tx].of = q.id
    BY NoneAssumption DEF RequestOK, RunOK, DefinitionOK, Monotone
  <2> QED BY <2>1 DEF RequestOK, RunOK, Monotone
<1> QED BY <1>1, <1>2, <1>3 DEF RequestOK

LEMMA IdleOK == RequestOK(Idle)'
BY DEF Idle, RequestOK, ReadOK, DefinitionOK, RunOK, Writes

\* One request moves; the others carry what they carried.
LEMMA RequestsKept ==
  ASSUME Monotone, NEW r \in Requests, \A p \in Requests : RequestOK(req[p]),
         \A p \in Requests \ {r} : req'[p] = req[p],
         NEW new \in Request, req'[r] = new, RequestOK(new)'
  PROVE  \A p \in Requests : RequestOK(req[p])'
<1> SUFFICES ASSUME NEW p \in Requests PROVE RequestOK(req[p])'
  OBVIOUS
<1>1. CASE p = r
  BY <1>1 DEF RequestOK, ReadOK, DefinitionOK, RunOK
<1>2. CASE p # r
  <2>1. PICK q \in Request : q = req[p]
    BY DEF Monotone, TypeOK
  <2>2. RequestOK(q)
    BY <2>1
  <2>3. RequestOK(q)'
    BY <2>2, RequestKept
  <2>4. req'[p] = q
    BY <1>2, <2>1
  <2> QED BY <2>3, <2>4 DEF RequestOK, ReadOK, DefinitionOK, RunOK
<1> QED BY <1>1, <1>2

\* A request that ends carries nothing.
LEMMA RequestsEnd ==
  ASSUME Monotone, NEW r \in Requests, \A p \in Requests : RequestOK(req[p]), Ends(r)
  PROVE  \A p \in Requests : RequestOK(req[p])'
<1>1. /\ req'[r] = Idle
      /\ \A p \in Requests \ {r} : req'[p] = req[p]
  BY DEF Ends, Monotone, TypeOK
<1> QED BY <1>1, IdleOK, IdleType, RequestsKept

-----------------------------------------------------------------------------
(* Steps that write nothing but what the request carries.                  *)

Telling(q) == q.at \in {"resumed", "link", "tell"}

Faithful(q) ==
  ~overtaken =>
    /\ q.at = "submit" => todo.status # "DRAFT" /\ q.read.text = todo.text
    /\ q.at \in {"link", "tell"} => q.read.text = todo.text

Untold(x) == run[x].status = "ACTIVE" /\ run[x].told = None /\ x \notin unlinked

LEMMA QuietStep ==
  ASSUME IInv, TypeOK', UNCHANGED <<records, history>>, NEW r \in Requests,
         NEW new \in Request, req' = [req EXCEPT ![r] = new], RequestOK(new), Faithful(new),
         Telling(req[r]) =>
           (Telling(new) /\ new.tx = req[r].tx) \/ ~Untold(req[r].tx)
  PROVE  IInv'
<1>1. Monotone
  BY DEF IInv, Monotone, records, history, Begun, Presented
<1>2. req'[r] = new /\ \A p \in Requests \ {r} : req'[p] = req[p]
  BY DEF IInv, TypeOK
<1>3. \A p \in Requests : RequestOK(req[p])'
  <2>1. RequestOK(new)'
    BY <1>1, RequestKept
  <2> QED BY <1>1, <1>2, <2>1, RequestsKept DEF IInv
<1>4. Sound(todo)'
  BY DEF IInv, Sound, records
<1>5. RunsOK' /\ ConfirmedOK'
  BY DEF IInv, RunsOK, ConfirmedOK, records, history, Presented
<1>6. WordingOK'
  BY <1>2 DEF IInv, WordingOK, Faithful, records, history, Presented, At
<1>7. ToldWhatWasDecided' /\ WithdrawnIsEnding'
  BY DEF IInv, ToldWhatWasDecided, WithdrawnIsEnding, records, history
<1>8. EveryAgentIsTold'
  <2> SUFFICES ASSUME NEW x \in Transactions, Untold(x)
               PROVE  \E p \in Requests : req'[p].tx = x /\ Telling(req'[p])
    BY DEF EveryAgentIsTold, Untold, Telling, records, history
  <2>1. PICK p \in Requests : req[p].tx = x /\ Telling(req[p])
    BY DEF IInv, EveryAgentIsTold, Untold, Telling
  <2> QED BY <1>2, <2>1
<1> QED BY <1>3, <1>4, <1>5, <1>6, <1>7, <1>8 DEF IInv

LEMMA NothingCarried == RequestOK(Idle) /\ Faithful(Idle)
BY DEF Idle, RequestOK, ReadOK, DefinitionOK, RunOK, Writes, Faithful

LEMMA ReadsKeep ==
  ASSUME IInv, NEW r \in Requests,
         \/ ReadEdit(r) \/ ReadMessage(r) \/ ReadConfirm(r) \/ ReadComplete(r)
         \/ ReadCancel(r) \/ ReadSubmit(r)
  PROVE  IInv'
<1>1. PICK step \in {"edit", "message", "confirm", "complete", "cancel", "submit"} :
        /\ Reads(r, step)
        /\ step \in {"edit", "message", "confirm"} => todo.status = "DRAFT"
        /\ step \in {"complete", "cancel"} => isOpen(todo)
        /\ step = "submit" => todo.status = "CONFIRMED"
  BY DEF ReadEdit, ReadMessage, ReadConfirm, ReadComplete, ReadCancel, ReadSubmit
<1>2. PICK new : new = [req[r] EXCEPT !.at = step, !.read = todo]
  OBVIOUS
<1>3. req[r] \in Request /\ req[r].at = "idle"
  BY <1>1 DEF IInv, TypeOK, Reads, At
<1>4. new \in Request /\ new.at = step /\ new.read = todo
  BY <1>2, <1>3 DEF Request, Steps, Writes, IInv, TypeOK
<1>5. RequestOK(new)
  BY <1>1, <1>4 DEF IInv, TypeOK, RequestOK, ReadOK, DefinitionOK, RunOK, Writes, ConfirmedOK
<1>6. Faithful(new)
  BY <1>1, <1>4 DEF Faithful
<1>7. req' = [req EXCEPT ![r] = new] /\ UNCHANGED <<records, history>>
  BY <1>1, <1>2 DEF Reads
<1>8. TypeOK'
  BY TypeReads DEF IInv
<1> QED BY <1>3, <1>4, <1>5, <1>6, <1>7, <1>8, QuietStep DEF Telling

LEMMA AnswersKeep ==
  ASSUME IInv, NEW r \in Requests, Cancel(r) \/ NoRevision(r) \/ Refused(r)
  PROVE  IInv'
<1>1. TypeOK' /\ UNCHANGED <<records, history>>
  BY TypeAnswers DEF IInv, Cancel, NoRevision, Refused
<1>2. ~Telling(req[r])
  BY DEF Cancel, NoRevision, Refused, At, Telling
<1>3. CASE Ends(r)
  BY <1>1, <1>2, <1>3, NothingCarried, IdleType, QuietStep DEF Ends
<1>4. CASE ~Ends(r)
  <2>1. Cancel(r)
    BY <1>4 DEF NoRevision, Refused
  <2>2. /\ req[r].at = "cancel" /\ Goto(r, "withdraw")
        /\ ~(/\ req[r].read.agent # None /\ req[r].read.status = "IN_PROGRESS"
             /\ run[req[r].read.agent].status = "ACTIVE")
    BY <1>4, <2>1 DEF Cancel, At
  <2>3. PICK new : new = [req[r] EXCEPT !.at = "withdraw"]
    OBVIOUS
  <2>4. req[r] \in Request /\ RequestOK(req[r])
    BY DEF IInv, TypeOK
  <2>5. new \in Request /\ new.at = "withdraw" /\ new.read = req[r].read
    BY <2>3, <2>4 DEF Request, Steps, Writes
  <2>6. req[r].read \in ToDos /\ Sound(req[r].read) /\ isOpen(req[r].read)
    BY <2>2, <2>4 DEF RequestOK, ReadOK, Writes
  <2>7. new.read.agent # None => run[new.read.agent].status \in {"ending", "over"}
    BY <2>2, <2>5, <2>6 DEF Sound, isOpen, ToDos, Statuses
  <2>8. RequestOK(new) /\ Faithful(new)
    BY <2>2, <2>5, <2>6, <2>7 DEF RequestOK, ReadOK, DefinitionOK, RunOK, Writes, Faithful
  <2>9. req' = [req EXCEPT ![r] = new]
    BY <2>2, <2>3 DEF Goto
  <2> QED BY <1>1, <1>2, <2>5, <2>8, <2>9, QuietStep
<1> QED BY <1>3, <1>4

LEMMA PersonReadsKeep ==
  ASSUME IInv, NEW r \in Requests, NEW d \in Definitions, ReadApprove(r, d) \/ ReadProvision(r, d)
  PROVE  IInv'
<1>1. TypeOK' /\ UNCHANGED <<records, history>>
  BY TypeFlow DEF IInv, ReadApprove, ReadProvision
<1>2. req[r] \in Request /\ req[r].at = "idle"
  BY DEF IInv, TypeOK, ReadApprove, ReadProvision, At
<1>3. CASE ReadApprove(r, d)
  <2>1. PICK new : new = [req[r] EXCEPT !.at = "approve", !.id = d, !.seen = definition[d]]
    OBVIOUS
  <2>2. definition[d] \in DefinitionRecords /\ definition[d].status = "presented"
    BY <1>3 DEF ReadApprove, IInv, TypeOK
  <2>3. new \in Request /\ new.at = "approve" /\ new.id = d /\ new.seen = definition[d]
    BY <1>2, <2>1, <2>2 DEF Request, Steps
  <2>4. definition[d] = [status |-> "presented", text |-> definition[d].text, tx |-> None]
    BY <2>2 DEF IInv, ConfirmedOK, DefinitionRecords
  <2>5. RequestOK(new) /\ Faithful(new)
    BY <2>2, <2>3, <2>4 DEF RequestOK, ReadOK, DefinitionOK, RunOK, Writes, Faithful, Presented
  <2>6. req' = [req EXCEPT ![r] = new]
    BY <1>3, <2>1 DEF ReadApprove
  <2> QED BY <1>1, <1>2, <2>3, <2>5, <2>6, QuietStep DEF Telling
<1>4. CASE ReadProvision(r, d)
  <2>1. PICK new : new = [req[r] EXCEPT !.at = "provision", !.id = d]
    OBVIOUS
  <2>2. new \in Request /\ new.at = "provision" /\ new.id = d
    BY <1>2, <2>1 DEF Request, Steps
  <2>3. RequestOK(new) /\ Faithful(new)
    BY <1>4, <2>2 DEF ReadProvision, StillApproved, RequestOK, ReadOK, DefinitionOK, RunOK, Writes,
      Faithful
  <2>4. req' = [req EXCEPT ![r] = new]
    BY <1>4, <2>1 DEF ReadProvision
  <2> QED BY <1>1, <1>2, <2>2, <2>3, <2>4, QuietStep DEF Telling
<1> QED BY <1>3, <1>4

LEMMA TellingReadsKeep ==
  ASSUME IInv, NEW r \in Requests, FindWork(r) \/ LeaveClosed(r)
  PROVE  IInv'
<1>1. TypeOK' /\ UNCHANGED <<records, history>>
  BY TypeFlow DEF IInv, FindWork, LeaveClosed
<1>2. req[r] \in Request /\ RequestOK(req[r])
  BY DEF IInv, TypeOK
<1>3. req[r].tx \in Transactions /\ Begun(req[r].tx)
  BY <1>2 DEF RequestOK, RunOK, FindWork, LeaveClosed, At
<1>4. /\ run[req[r].tx].of \in Definitions
      /\ Presented(run[req[r].tx].of)
  BY <1>3 DEF IInv, RunsOK, Begun, Presented, TypeOK, Runs
<1>5. CASE FindWork(r)
  <2>1. CASE findByTransaction(req[r].tx) = {}
    <3>1. ~Untold(req[r].tx)
      BY <1>3, <1>4, <2>1 DEF Untold, findByTransaction, IInv, RunsOK
    <3> QED BY <1>1, <1>5, <2>1, <3>1, NothingCarried, IdleType, QuietStep DEF FindWork, Ends
  <2>2. CASE findByTransaction(req[r].tx) # {}
    <3>1. PICK new : new = [req[r] EXCEPT !.at = "link", !.read = todo]
      OBVIOUS
    <3>2. new \in Request /\ new.at = "link" /\ new.read = todo /\ new.tx = req[r].tx
      BY <1>2, <3>1 DEF Request, Steps, IInv, TypeOK
    <3>3. RequestOK(new) /\ Faithful(new)
      BY <1>3, <3>2 DEF RequestOK, ReadOK, DefinitionOK, RunOK, Writes, Faithful, IInv, TypeOK
    <3>4. req' = [req EXCEPT ![r] = new]
      BY <1>5, <2>2, <3>1 DEF FindWork
    <3> QED BY <1>1, <3>2, <3>3, <3>4, QuietStep DEF Telling
  <2> QED BY <2>1, <2>2
<1>6. CASE LeaveClosed(r)
  <2>1. PICK new : new = [req[r] EXCEPT !.at = "tell"]
    OBVIOUS
  <2>2. new \in Request /\ new.at = "tell" /\ new.read = req[r].read /\ new.tx = req[r].tx
    BY <1>2, <2>1 DEF Request, Steps
  <2>3. req[r].at = "link"
    BY <1>6 DEF LeaveClosed, At
  <2>4. RequestOK(new)
    BY <1>2, <1>3, <2>2, <2>3 DEF RequestOK, ReadOK, DefinitionOK, RunOK, Writes
  <2>5. Faithful(new)
    BY <2>2, <2>3 DEF Faithful, IInv, WordingOK
  <2>6. req' = [req EXCEPT ![r] = new]
    BY <1>6, <2>1 DEF LeaveClosed, Goto
  <2> QED BY <1>1, <2>2, <2>4, <2>5, <2>6, QuietStep DEF Telling
<1> QED BY <1>5, <1>6

-----------------------------------------------------------------------------
(* Steps that write the ToDo.                                              *)

LEMMA SaveStep ==
  ASSUME IInv, TypeOK', NEW r \in Requests, UNCHANGED <<definition, run, unlinked>>,
         NEW new \in ToDos, Save(r, new), Sound(new), isOpen(req[r].read),
         confirmed \subseteq confirmed', new.status = "CONFIRMED" => new.text \in confirmed',
         \/ req[r].read.status = "DRAFT"
         \/ new.text = req[r].read.text /\ new.status # "DRAFT",
         \/ withdrawn' = withdrawn
         \/ new.status = "CANCELLED" /\ (new.agent # None => run[new.agent].status \in {"ending", "over"}),
         NEW next \in Request, req' = [req EXCEPT ![r] = next], RequestOK(next),
         next.at # "submit", next.at \in {"link", "tell"} =>
           req[r].at = "link" /\ next.read.text = req[r].read.text,
         Telling(req[r]) => Telling(next) /\ next.tx = req[r].tx
  PROVE  IInv'
<1>1. Monotone
  BY DEF IInv, Monotone, Begun, Presented
<1>2. req'[r] = next /\ \A p \in Requests \ {r} : req'[p] = req[p]
  BY DEF IInv, TypeOK
<1>3. \A p \in Requests : RequestOK(req[p])'
  <2>1. RequestOK(next)'
    BY <1>1, RequestKept
  <2> QED BY <1>1, <1>2, <2>1, RequestsKept DEF IInv
<1>4. todo' = new /\ overtaken' = (overtaken \/ todo # req[r].read)
  BY DEF Save
<1>5. Sound(todo)'
  BY <1>1, <1>4, SoundKept DEF Sound
<1>6. RunsOK' /\ ConfirmedOK'
  BY <1>4 DEF IInv, RunsOK, ConfirmedOK, Presented
<1>7. WordingOK'
  <2> SUFFICES ASSUME ~overtaken'
               PROVE  /\ \A d \in Definitions :
                           Presented(d) => new.status # "DRAFT" /\ definition[d].text = new.text
                      /\ \A p \in Requests :
                           /\ req'[p].at = "submit" =>
                                new.status # "DRAFT" /\ req'[p].read.text = new.text
                           /\ req'[p].at \in {"link", "tell"} => req'[p].read.text = new.text
    BY <1>4 DEF WordingOK, Presented, At
  <2>1. ~overtaken /\ todo = req[r].read
    BY <1>4
  <2>2. todo.status # "DRAFT" => new.text = todo.text /\ new.status # "DRAFT"
    BY <2>1
  <2>3. ASSUME NEW p \in Requests, req[p].at \in {"link", "tell"} PROVE todo.status # "DRAFT"
    <3>1. req[p].tx \in Transactions /\ Begun(req[p].tx)
      BY <2>3 DEF IInv, RequestOK, RunOK
    <3>2. run[req[p].tx].of \in Definitions /\ Presented(run[req[p].tx].of)
      BY <3>1 DEF IInv, RunsOK, Begun, Presented, TypeOK, Runs
    <3> QED BY <2>1, <3>2 DEF IInv, WordingOK
  <2>4. \A d \in Definitions : Presented(d) => new.status # "DRAFT" /\ definition[d].text = new.text
    BY <2>1, <2>2 DEF IInv, WordingOK
  <2>5. ASSUME NEW p \in Requests, req'[p].at = "submit"
        PROVE  new.status # "DRAFT" /\ req'[p].read.text = new.text
    <3>1. p # r
      BY <1>2, <2>5
    <3> QED BY <1>2, <2>1, <2>2, <2>5, <3>1 DEF IInv, WordingOK, At
  <2>6. ASSUME NEW p \in Requests, req'[p].at \in {"link", "tell"}
        PROVE  req'[p].read.text = new.text
    <3>1. CASE p = r
      BY <1>2, <2>1, <2>2, <2>3, <2>6, <3>1 DEF IInv, WordingOK
    <3>2. CASE p # r
      BY <1>2, <2>1, <2>2, <2>3, <2>6, <3>2 DEF IInv, WordingOK
    <3> QED BY <3>1, <3>2
  <2> QED BY <2>4, <2>5, <2>6
<1>8. ToldWhatWasDecided'
  BY <1>4 DEF IInv, ToldWhatWasDecided
<1>9. WithdrawnIsEnding'
  BY <1>4 DEF IInv, WithdrawnIsEnding, isOpen
<1>10. EveryAgentIsTold'
  <2> SUFFICES ASSUME NEW x \in Transactions, Untold(x)
               PROVE  \E p \in Requests : req'[p].tx = x /\ Telling(req'[p])
    BY DEF EveryAgentIsTold, Untold, Telling
  <2>1. PICK p \in Requests : req[p].tx = x /\ Telling(req[p])
    BY DEF IInv, EveryAgentIsTold, Untold, Telling
  <2> QED BY <1>2, <2>1
<1> QED BY <1>3, <1>5, <1>6, <1>7, <1>8, <1>9, <1>10 DEF IInv

LEMMA SavesKeep ==
  ASSUME IInv, NEW r \in Requests,
         \/ SaveEdit(r) \/ SaveMessage(r) \/ SaveConfirm(r) \/ SaveComplete(r) \/ SaveCancel(r)
         \/ RememberAgent(r)
  PROVE  IInv'
<1>1. RequestOK(req[r]) /\ req[r] \in Request
  BY DEF IInv, TypeOK
<1>2. req[r].read \in ToDos /\ Sound(req[r].read)
  BY <1>1 DEF RequestOK, ReadOK, SaveEdit, SaveMessage, SaveConfirm, SaveComplete, SaveCancel,
    RememberAgent, At, Writes
<1>3. TypeOK'
  BY <1>1, TypeSaves DEF IInv
<1>4. CASE SaveEdit(r) \/ SaveMessage(r)
  <2>1. PICK text \in Texts : Save(r, [req[r].read EXCEPT !.text = text])
    BY <1>4 DEF SaveEdit, SaveMessage, Edited, Revised
  <2>2. PICK new : new = [req[r].read EXCEPT !.text = text]
    OBVIOUS
  <2>3. req[r].read.status = "DRAFT"
    BY <1>1, <1>4 DEF RequestOK, ReadOK, SaveEdit, SaveMessage, At
  <2>4. new \in ToDos /\ new.status = "DRAFT" /\ new.agent = None
    BY <1>2, <2>2, <2>3 DEF ToDos, Sound
  <2>5. Sound(new) /\ isOpen(req[r].read) /\ ~Telling(req[r])
    BY <1>4, <2>3, <2>4 DEF Sound, isOpen, Telling, SaveEdit, SaveMessage, At
  <2> QED
    BY <1>3, <1>4, <2>1, <2>2, <2>3, <2>4, <2>5, NothingCarried, IdleType, SaveStep
    DEF SaveEdit, SaveMessage, Ends, Idle
<1>5. CASE SaveConfirm(r)
  <2>1. PICK new : new = [req[r].read EXCEPT !.status = "CONFIRMED"]
    OBVIOUS
  <2>2. req[r].read.status = "DRAFT"
    BY <1>1, <1>5 DEF RequestOK, ReadOK, SaveConfirm, At
  <2>3. new \in ToDos /\ new.text = req[r].read.text /\ new.agent = None /\ new.status = "CONFIRMED"
    BY <1>2, <2>1, <2>2 DEF ToDos, Sound, Statuses
  <2>4. Sound(new) /\ isOpen(req[r].read) /\ ~Telling(req[r])
    BY <1>5, <2>2, <2>3 DEF Sound, isOpen, Telling, SaveConfirm, At
  <2>5. /\ Save(r, new) /\ req' = [req EXCEPT ![r] = Idle]
        /\ UNCHANGED <<definition, run, withdrawn, unlinked>>
        /\ confirmed \subseteq confirmed' /\ new.text \in confirmed'
    BY <1>5, <2>1, <2>3 DEF SaveConfirm, Ends
  <2>6. Idle.at = "idle"
    BY DEF Idle
  <2> QED
    BY <1>3, <2>2, <2>3, <2>4, <2>5, <2>6, NothingCarried, IdleType, SaveStep
<1>6. CASE SaveComplete(r)
  <2>1. PICK new : new = [req[r].read EXCEPT !.status = "DONE"]
    OBVIOUS
  <2>2. isOpen(req[r].read) /\ ~Telling(req[r])
    BY <1>1, <1>6 DEF RequestOK, ReadOK, SaveComplete, At, Telling
  <2>3. /\ new \in ToDos /\ new.text = req[r].read.text /\ new.agent = req[r].read.agent
        /\ new.status = "DONE"
    BY <1>2, <2>1 DEF ToDos, Statuses
  <2>4. Sound(new)
    BY <1>2, <2>3 DEF Sound
  <2> QED
    BY <1>3, <1>6, <2>1, <2>2, <2>3, <2>4, NothingCarried, IdleType, SaveStep
    DEF SaveComplete, Ends, Idle
<1>7. CASE SaveCancel(r)
  <2>1. PICK new : new = [req[r].read EXCEPT !.status = "CANCELLED"]
    OBVIOUS
  <2>2. /\ isOpen(req[r].read) /\ ~Telling(req[r])
        /\ req[r].read.agent # None => run[req[r].read.agent].status \in {"ending", "over"}
    BY <1>1, <1>7 DEF RequestOK, ReadOK, SaveCancel, At, Telling
  <2>3. /\ new \in ToDos /\ new.text = req[r].read.text /\ new.agent = req[r].read.agent
        /\ new.status = "CANCELLED"
    BY <1>2, <2>1 DEF ToDos, Statuses
  <2>4. Sound(new)
    BY <1>2, <2>3 DEF Sound
  <2> QED
    BY <1>3, <1>7, <2>1, <2>2, <2>3, <2>4, NothingCarried, IdleType, SaveStep
    DEF SaveCancel, Ends, Idle
<1>8. CASE RememberAgent(r)
  <2>1. PICK new : new = startExecution(req[r].read, req[r].tx)
    OBVIOUS
  <2>2. PICK next : next = [req[r] EXCEPT !.at = "tell", !.read = new]
    OBVIOUS
  <2>3. req[r].at = "link" /\ req[r].tx \in Transactions /\ Begun(req[r].tx)
    BY <1>1, <1>8 DEF RequestOK, RunOK, RememberAgent, At
  <2>4. /\ new \in ToDos /\ new.text = req[r].read.text /\ new.agent = req[r].tx
        /\ new.status = "IN_PROGRESS"
    BY <1>2, <2>1, <2>3 DEF startExecution, ToDos, Statuses
  <2>5. Sound(new)
    BY <2>3, <2>4 DEF Sound, Begun
  <2>6. next \in Request /\ next.at = "tell" /\ next.read = new /\ next.tx = req[r].tx
    BY <1>1, <2>2, <2>4 DEF Request, Steps
  <2>7. RequestOK(next)
    BY <2>3, <2>4, <2>5, <2>6 DEF RequestOK, ReadOK, DefinitionOK, RunOK, Writes
  <2>8. /\ Save(r, new) /\ req' = [req EXCEPT ![r] = next] /\ isOpen(req[r].read)
        /\ UNCHANGED <<definition, run, confirmed, withdrawn, unlinked>>
    BY <1>8, <2>1, <2>2 DEF RememberAgent
  <2> QED
    BY <1>3, <2>3, <2>4, <2>5, <2>6, <2>7, <2>8, SaveStep DEF Telling
<1> QED BY <1>4, <1>5, <1>6, <1>7, <1>8

-----------------------------------------------------------------------------
(* Steps that write a definition or a transaction.                         *)

LEMMA ToldKept ==
  ASSUME IInv, NEW r \in Requests, \A p \in Requests \ {r} : req'[p] = req[p],
         \A x \in Transactions : Untold(x)' =>
           \/ Untold(x) /\ ~(Telling(req[r]) /\ req[r].tx = x)
           \/ req'[r].at \in {"resumed", "link", "tell"} /\ req'[r].tx = x
  PROVE  EveryAgentIsTold'
<1> SUFFICES ASSUME NEW x \in Transactions, Untold(x)'
             PROVE  \E p \in Requests : req'[p].tx = x /\ req'[p].at \in {"resumed", "link", "tell"}
  BY DEF EveryAgentIsTold, Untold
<1>1. CASE req'[r].at \in {"resumed", "link", "tell"} /\ req'[r].tx = x
  BY <1>1
<1>2. CASE Untold(x) /\ ~(Telling(req[r]) /\ req[r].tx = x)
  <2>1. PICK p \in Requests : req[p].tx = x /\ Telling(req[p])
    BY <1>2 DEF IInv, EveryAgentIsTold, Untold, Telling
  <2> QED BY <1>2, <2>1 DEF Telling
<1> QED BY <1>1, <1>2

LEMMA DecidedKeeps == ASSUME IInv, NEW r \in Requests, Decided(r) PROVE IInv'
<1>1. PICK d \in Definitions :
        /\ definition[d].status = "none"
        /\ definition' = [definition EXCEPT ![d] =
             [@ EXCEPT !.status = "presented", !.text = req[r].read.text]]
  BY DEF Decided
<1>2. Ends(r) /\ UNCHANGED <<todo, run, history>> /\ TypeOK'
  BY TypeFlow DEF Decided, IInv
<1>3. req'[r] = Idle /\ \A p \in Requests \ {r} : req'[p] = req[p]
  BY <1>2 DEF Ends, IInv, TypeOK
<1>4. /\ req[r].at = "submit" /\ req[r].read.text \in confirmed
      /\ ~overtaken => todo.status # "DRAFT" /\ req[r].read.text = todo.text
  BY DEF Decided, At, IInv, RequestOK, ReadOK, WordingOK
<1>5. /\ definition'[d].status = "presented" /\ definition'[d].text = req[r].read.text
      /\ definition'[d].tx = definition[d].tx
      /\ \A e \in Definitions \ {d} : definition'[e] = definition[e]
  BY <1>1 DEF IInv, TypeOK, DefinitionRecords
<1>6. Monotone
  BY <1>1, <1>2, <1>5 DEF IInv, Monotone, Begun, Presented, history
<1>7. \A p \in Requests : RequestOK(req[p])'
  BY <1>2, <1>6, RequestsEnd DEF IInv
<1>8. Sound(todo)'
  BY <1>2 DEF IInv, Sound
<1>9. \A x \in Transactions : run[x].of # None => run[x].of \in Definitions \ {d}
  BY <1>1 DEF IInv, RunsOK, TypeOK, Runs
<1>10. RunsOK'
  BY <1>2, <1>5, <1>9 DEF IInv, RunsOK, history
<1>11. ConfirmedOK'
  BY <1>1, <1>2, <1>4, <1>5 DEF IInv, ConfirmedOK, history, Presented
<1>12. WordingOK'
  BY <1>2, <1>3, <1>4, <1>5 DEF IInv, WordingOK, history, Presented, At, Idle
<1>13. ToldWhatWasDecided'
  <2> SUFFICES ASSUME NEW x \in Transactions, ~overtaken, run[x].told # None
               PROVE  run[x].told = definition'[run[x].of].text
    BY <1>2 DEF ToldWhatWasDecided, history
  <2>1. run[x].of # None
    BY DEF IInv, RunsOK, NoRun
  <2> QED BY <1>5, <1>9, <2>1 DEF IInv, ToldWhatWasDecided
<1>14. WithdrawnIsEnding'
  BY <1>2 DEF IInv, WithdrawnIsEnding, history
<1>15. EveryAgentIsTold'
  BY <1>2, <1>3, <1>4, ToldKept DEF Untold, Telling, history
<1> QED BY <1>2, <1>7, <1>8, <1>10, <1>11, <1>12, <1>13, <1>14, <1>15 DEF IInv

LEMMA ApproveKeeps == ASSUME IInv, NEW r \in Requests, Approve(r) PROVE IInv'
<1>1. PICK d : d = req[r].id
  OBVIOUS
<1>2. /\ req[r].at = "approve" /\ d \in Definitions /\ Presented(d)
      /\ req[r].seen = [status |-> "presented", text |-> definition[d].text, tx |-> None]
  BY <1>1 DEF Approve, At, IInv, RequestOK, DefinitionOK
<1>3. /\ Ends(r) /\ UNCHANGED <<todo, run, confirmed, withdrawn, overtaken>> /\ TypeOK'
      /\ unlinked' = unlinked \union ({definition[d].tx} \ {None})
  <2>1. TypeOK'
    BY TypeFlow DEF IInv
  <2>2. req[r].seen.tx = None
    BY <1>2
  <2> QED BY <1>1, <2>1, <2>2 DEF Approve
<1>4. req'[r] = Idle /\ \A p \in Requests \ {r} : req'[p] = req[p]
  BY <1>3 DEF Ends, IInv, TypeOK
<1>5. /\ definition'[d] = [status |-> "approved", text |-> definition[d].text, tx |-> None]
      /\ \A e \in Definitions \ {d} : definition'[e] = definition[e]
  BY <1>1, <1>2 DEF Approve, IInv, TypeOK, DefinitionRecords
<1>6. Monotone
  BY <1>3, <1>5 DEF IInv, Monotone, Begun, Presented
<1>7. \A p \in Requests : RequestOK(req[p])'
  BY <1>3, <1>6, RequestsEnd DEF IInv
<1>8. Sound(todo)'
  BY <1>3 DEF IInv, Sound
<1>9. RunsOK'
  <2> SUFFICES ASSUME NEW x \in Transactions
               PROVE  /\ run[x].of # None => definition'[run[x].of].status = "approved"
                      /\ run[x].status \in {"offered", "ACTIVE"} /\ x \notin unlinked' =>
                           definition'[run[x].of].tx = x
    BY <1>3 DEF IInv, RunsOK
  <2>1. run[x].of # None => run[x].of \in Definitions
    BY DEF IInv, TypeOK, Runs
  <2>2. x # None
    BY NoneAssumption
  <2> QED BY <1>3, <1>5, <2>1, <2>2 DEF IInv, RunsOK
<1>10. ConfirmedOK'
  BY <1>2, <1>3, <1>5 DEF IInv, ConfirmedOK, Presented
<1>11. WordingOK'
  BY <1>2, <1>3, <1>4, <1>5 DEF IInv, WordingOK, Presented, At, Idle
<1>12. ToldWhatWasDecided'
  <2> SUFFICES ASSUME NEW x \in Transactions, ~overtaken, run[x].told # None
               PROVE  run[x].told = definition'[run[x].of].text
    BY <1>3 DEF ToldWhatWasDecided
  <2>1. run[x].of \in Definitions
    BY DEF IInv, RunsOK, NoRun, TypeOK, Runs
  <2> QED BY <1>5, <2>1 DEF IInv, ToldWhatWasDecided
<1>13. WithdrawnIsEnding'
  BY <1>3 DEF IInv, WithdrawnIsEnding
<1>14. EveryAgentIsTold'
  BY <1>2, <1>3, <1>4, ToldKept DEF Untold, Telling
<1> QED BY <1>3, <1>7, <1>8, <1>9, <1>10, <1>11, <1>12, <1>13, <1>14 DEF IInv

LEMMA RememberKeeps == ASSUME IInv, NEW r \in Requests, RememberTransaction(r) PROVE IInv'
<1>1. PICK d, y : d = req[r].id /\ y = req[r].tx
  OBVIOUS
<1>2. /\ req[r].at = "remember" /\ d \in Definitions /\ definition[d].status = "approved"
      /\ y \in Transactions /\ run[y].of = d
  BY <1>1 DEF RememberTransaction, At, IInv, RequestOK, DefinitionOK, RunOK
<1>3. /\ Ends(r) /\ UNCHANGED <<todo, confirmed, withdrawn, overtaken>> /\ TypeOK'
      /\ unlinked' = unlinked \union ({definition[d].tx} \ {None})
  BY <1>1, TypeFlow DEF RememberTransaction, IInv
<1>4. req'[r] = Idle /\ \A p \in Requests \ {r} : req'[p] = req[p]
  BY <1>3 DEF Ends, IInv, TypeOK
<1>5. /\ definition'[d].status = "approved" /\ definition'[d].text = definition[d].text
      /\ definition'[d].tx = y
      /\ \A e \in Definitions \ {d} : definition'[e] = definition[e]
  BY <1>1, <1>2 DEF RememberTransaction, IInv, TypeOK, DefinitionRecords
<1>6. /\ run'[y].of = d /\ run'[y].told = run[y].told
      /\ run'[y].status = IF run[y].status = "asked" THEN "offered" ELSE run[y].status
      /\ \A x \in Transactions \ {y} : run'[x] = run[x]
  BY <1>1, <1>2 DEF RememberTransaction, IInv, TypeOK, Runs
<1>7. Monotone
  BY <1>2, <1>3, <1>5, <1>6 DEF IInv, Monotone, Begun, Presented
<1>8. \A p \in Requests : RequestOK(req[p])'
  BY <1>3, <1>7, RequestsEnd DEF IInv
<1>9. Sound(todo)'
  BY <1>3, <1>7, SoundKept DEF IInv, TypeOK, Sound
<1>10. RunsOK'
  <2> SUFFICES ASSUME NEW x \in Transactions
               PROVE  /\ run'[x].status # "none" => run'[x].of # None
                      /\ run'[x].status = "none" => run'[x] = NoRun
                      /\ run'[x].of # None => definition'[run'[x].of].status = "approved"
                      /\ run'[x].status \in {"offered", "ACTIVE"} /\ x \notin unlinked' =>
                           definition'[run'[x].of].tx = x
    BY DEF RunsOK
  <2>1. d # None /\ x # None
    BY <1>2, NoneAssumption
  <2>2. run[x].of # None => run[x].of \in Definitions
    BY DEF IInv, TypeOK, Runs
  <2>3. run[y].status # "none"
    BY <1>2, <2>1 DEF IInv, RunsOK, NoRun
  <2>4. CASE x = y
    BY <1>2, <1>5, <1>6, <2>1, <2>3, <2>4
  <2>5. CASE x # y
    <3>1. run'[x] = run[x]
      BY <1>6, <2>5
    <3>2. run[x].of = d => definition[d].tx # x \/ x \in unlinked'
      BY <1>3, <2>1
    <3> QED BY <1>2, <1>3, <1>5, <2>2, <3>1, <3>2 DEF IInv, RunsOK
  <2> QED BY <2>4, <2>5
<1>11. ConfirmedOK'
  BY <1>2, <1>3, <1>5 DEF IInv, ConfirmedOK, Presented
<1>12. WordingOK'
  BY <1>2, <1>3, <1>4, <1>5 DEF IInv, WordingOK, Presented, At, Idle
<1>13. ToldWhatWasDecided'
  <2> SUFFICES ASSUME NEW x \in Transactions, ~overtaken, run'[x].told # None
               PROVE  run'[x].told = definition'[run'[x].of].text
    BY <1>3 DEF ToldWhatWasDecided
  <2>1. run'[x].told = run[x].told /\ run'[x].of = run[x].of
    BY <1>2, <1>6
  <2>2. run[x].of \in Definitions
    BY <2>1 DEF IInv, RunsOK, NoRun, TypeOK, Runs
  <2> QED BY <1>5, <2>1, <2>2 DEF IInv, ToldWhatWasDecided
<1>14. WithdrawnIsEnding'
  <2>1. todo.agent # None => todo.agent \in Transactions
    BY DEF IInv, TypeOK, ToDos
  <2> QED BY <1>3, <1>6, <2>1 DEF IInv, WithdrawnIsEnding
<1>15. EveryAgentIsTold'
  BY <1>2, <1>3, <1>4, <1>6, ToldKept DEF Untold, Telling
<1> QED BY <1>3, <1>8, <1>9, <1>10, <1>11, <1>12, <1>13, <1>14, <1>15 DEF IInv

LEMMA ProvisionKeeps == ASSUME IInv, NEW r \in Requests, Provision(r) PROVE IInv'
<1>1. PICK x \in Transactions :
        /\ run[x].status = "none"
        /\ run' = [run EXCEPT ![x] = [@ EXCEPT !.status = "asked", !.of = req[r].id]]
        /\ req' = [req EXCEPT ![r] = [@ EXCEPT !.at = "remember", !.tx = x]]
  BY DEF Provision
<1>2. PICK d : d = req[r].id
  OBVIOUS
<1>3. req[r].at = "provision" /\ d \in Definitions /\ definition[d].status = "approved"
  BY <1>2 DEF Provision, At, IInv, RequestOK, DefinitionOK
<1>4. TypeOK' /\ UNCHANGED <<todo, definition, confirmed, withdrawn, overtaken, unlinked>>
  BY TypeFlow DEF Provision, IInv, history
<1>5. run[x] = NoRun
  BY <1>1 DEF IInv, RunsOK
<1>6. /\ run'[x].status = "asked" /\ run'[x].of = d /\ run'[x].told = None
      /\ \A y \in Transactions \ {x} : run'[y] = run[y]
  BY <1>1, <1>2, <1>5 DEF IInv, TypeOK, NoRun
<1>7. PICK new : new = [req[r] EXCEPT !.at = "remember", !.tx = x]
  OBVIOUS
<1>8. req[r] \in Request
  BY DEF IInv, TypeOK
<1>9. new \in Request /\ new.at = "remember" /\ new.tx = x /\ new.id = d
  BY <1>2, <1>7, <1>8 DEF Request, Steps
<1>10. req'[r] = new /\ \A p \in Requests \ {r} : req'[p] = req[p]
  BY <1>1, <1>7 DEF IInv, TypeOK
<1>11. Monotone
  BY <1>1, <1>4, <1>5, <1>6 DEF IInv, Monotone, Begun, Presented, NoRun
<1>12. \A p \in Requests : RequestOK(req[p])'
  <2>1. RequestOK(new)'
    BY <1>3, <1>4, <1>6, <1>9 DEF RequestOK, ReadOK, DefinitionOK, RunOK, Writes
  <2> QED BY <1>9, <1>10, <1>11, <2>1, RequestsKept DEF IInv
<1>13. Sound(todo)'
  BY <1>4, <1>11, SoundKept DEF IInv, TypeOK, Sound
<1>14. RunsOK'
  <2>1. d # None
    BY <1>3, NoneAssumption
  <2> QED BY <1>3, <1>4, <1>6, <2>1 DEF IInv, RunsOK
<1>15. ConfirmedOK'
  BY <1>4 DEF IInv, ConfirmedOK, Presented
<1>16. WordingOK'
  BY <1>3, <1>4, <1>9, <1>10 DEF IInv, WordingOK, Presented, At
<1>17. ToldWhatWasDecided'
  BY <1>4, <1>6 DEF IInv, ToldWhatWasDecided
<1>18. WithdrawnIsEnding'
  <2>1. todo.agent # None => todo.agent \in Transactions /\ todo.agent # x
    BY <1>1 DEF IInv, TypeOK, ToDos, Sound
  <2> QED BY <1>4, <1>6, <2>1 DEF IInv, WithdrawnIsEnding
<1>19. EveryAgentIsTold'
  <2>1. ASSUME NEW y \in Transactions, Untold(y)'
        PROVE  Untold(y) /\ ~(Telling(req[r]) /\ req[r].tx = y)
    BY <1>3, <1>4, <1>6, <2>1 DEF Untold, Telling
  <2> QED BY <1>10, <2>1, ToldKept
<1> QED
  BY <1>4, <1>12, <1>13, <1>14, <1>15, <1>16, <1>17, <1>18, <1>19 DEF IInv

LEMMA ResumeKeeps ==
  ASSUME IInv, NEW r \in Requests, NEW x \in Transactions, Resume(r, x)
  PROVE  IInv'
<1>1. /\ req[r].at = "idle" /\ run[x].status = "offered"
      /\ UNCHANGED <<todo, definition, confirmed, withdrawn, overtaken, unlinked>>
  BY DEF Resume, At, history
<1>2. TypeOK'
  BY TypeFlow DEF IInv
<1>3. /\ run'[x].status = "ACTIVE" /\ run'[x].of = run[x].of /\ run'[x].told = run[x].told
      /\ \A y \in Transactions \ {x} : run'[y] = run[y]
  BY DEF Resume, IInv, TypeOK, Runs
<1>4. PICK new : new = [req[r] EXCEPT !.at = "resumed", !.tx = x]
  OBVIOUS
<1>5. req[r] \in Request
  BY DEF IInv, TypeOK
<1>6. new \in Request /\ new.at = "resumed" /\ new.tx = x
  BY <1>4, <1>5 DEF Request, Steps
<1>7. req'[r] = new /\ \A p \in Requests \ {r} : req'[p] = req[p]
  BY <1>4 DEF Resume, IInv, TypeOK
<1>8. Monotone
  BY <1>1, <1>2, <1>3 DEF IInv, Monotone, Begun, Presented
<1>9. \A p \in Requests : RequestOK(req[p])'
  <2>1. RequestOK(new)'
    BY <1>3, <1>6 DEF RequestOK, ReadOK, DefinitionOK, RunOK, Writes, Begun
  <2> QED BY <1>6, <1>7, <1>8, <2>1, RequestsKept DEF IInv
<1>10. Sound(todo)'
  BY <1>1, <1>8, SoundKept DEF IInv, TypeOK, Sound
<1>11. RunsOK'
  BY <1>1, <1>3 DEF IInv, RunsOK
<1>12. ConfirmedOK'
  BY <1>1 DEF IInv, ConfirmedOK, Presented
<1>13. WordingOK'
  BY <1>1, <1>6, <1>7 DEF IInv, WordingOK, Presented, At
<1>14. ToldWhatWasDecided'
  BY <1>1, <1>3 DEF IInv, ToldWhatWasDecided
<1>15. WithdrawnIsEnding'
  <2>1. todo.agent # None => todo.agent \in Transactions /\ todo.agent # x
    BY <1>1 DEF IInv, TypeOK, ToDos, Sound
  <2> QED BY <1>1, <1>3, <2>1 DEF IInv, WithdrawnIsEnding
<1>16. EveryAgentIsTold'
  <2>1. ASSUME NEW y \in Transactions, Untold(y)', y # x
        PROVE  Untold(y) /\ ~(Telling(req[r]) /\ req[r].tx = y)
    BY <1>1, <1>3, <2>1 DEF Untold, Telling
  <2>2. req'[r].at \in {"resumed", "link", "tell"} /\ req'[r].tx = x
    BY <1>6, <1>7
  <2> QED BY <1>7, <2>1, <2>2, ToldKept
<1> QED
  BY <1>2, <1>9, <1>10, <1>11, <1>12, <1>13, <1>14, <1>15, <1>16 DEF IInv

LEMMA TellKeeps == ASSUME IInv, NEW r \in Requests, Tell(r) PROVE IInv'
<1>1. PICK x, text : x = req[r].tx /\ text = req[r].read.text
  OBVIOUS
<1>2. /\ req[r].at = "tell" /\ x \in Transactions /\ Begun(x) /\ req[r].read \in ToDos
      /\ text \in Texts /\ text # None
  BY <1>1, NoneAssumption DEF Tell, At, IInv, RequestOK, ReadOK, RunOK, ToDos
<1>3. /\ Ends(r) /\ TypeOK'
      /\ UNCHANGED <<todo, definition, confirmed, withdrawn, overtaken, unlinked>>
  BY TypeFlow DEF Tell, IInv, history
<1>4. req'[r] = Idle /\ \A p \in Requests \ {r} : req'[p] = req[p]
  BY <1>3 DEF Ends, IInv, TypeOK
<1>5. /\ run'[x].status = run[x].status /\ run'[x].of = run[x].of
      /\ run'[x].told = IF run[x].status = "ACTIVE" THEN text ELSE run[x].told
      /\ \A y \in Transactions \ {x} : run'[y] = run[y]
  BY <1>1, <1>2 DEF Tell, IInv, TypeOK, Runs
<1>6. Monotone
  BY <1>2, <1>3, <1>5 DEF IInv, Monotone, Begun, Presented
<1>7. \A p \in Requests : RequestOK(req[p])'
  BY <1>3, <1>6, RequestsEnd DEF IInv
<1>8. Sound(todo)'
  BY <1>3, <1>6, SoundKept DEF IInv, TypeOK, Sound
<1>9. RunsOK'
  BY <1>2, <1>3, <1>5 DEF IInv, RunsOK, Begun
<1>10. ConfirmedOK'
  BY <1>3 DEF IInv, ConfirmedOK, Presented
<1>11. WordingOK'
  BY <1>3, <1>4 DEF IInv, WordingOK, Presented, At, Idle
<1>12. ToldWhatWasDecided'
  <2>1. ~overtaken => text = definition[run[x].of].text
    <3>1. run[x].of \in Definitions /\ Presented(run[x].of)
      BY <1>2 DEF IInv, RunsOK, Begun, Presented, TypeOK, Runs
    <3> QED BY <1>1, <1>2, <3>1 DEF IInv, WordingOK
  <2> QED BY <1>3, <1>5, <2>1 DEF IInv, ToldWhatWasDecided
<1>13. WithdrawnIsEnding'
  <2>1. todo.agent # None => todo.agent \in Transactions
    BY DEF IInv, TypeOK, ToDos
  <2> QED BY <1>3, <1>5, <2>1 DEF IInv, WithdrawnIsEnding
<1>14. EveryAgentIsTold'
  <2>1. ASSUME NEW y \in Transactions, Untold(y)' PROVE Untold(y) /\ y # x
    BY <1>2, <1>3, <1>5, <2>1 DEF Untold
  <2> QED BY <1>1, <1>4, <2>1, ToldKept
<1> QED BY <1>3, <1>7, <1>8, <1>9, <1>10, <1>11, <1>12, <1>13, <1>14 DEF IInv

LEMMA DiesKeeps == ASSUME IInv, NEW r \in Requests, RequestDies(r) PROVE IInv'
<1>1. /\ Ends(r) /\ UNCHANGED <<todo, definition, run, confirmed, withdrawn, overtaken>>
      /\ unlinked' = unlinked \union ({req[r].tx} \ {None}) /\ TypeOK'
  BY TypeAnswers DEF RequestDies, IInv, records
<1>2. req'[r] = Idle /\ \A p \in Requests \ {r} : req'[p] = req[p]
  BY <1>1 DEF Ends, IInv, TypeOK
<1>3. Monotone
  BY <1>1 DEF IInv, Monotone, Begun, Presented
<1>4. \A p \in Requests : RequestOK(req[p])'
  BY <1>1, <1>3, RequestsEnd DEF IInv
<1>5. Sound(todo)' /\ RunsOK' /\ ConfirmedOK'
  BY <1>1 DEF IInv, Sound, RunsOK, ConfirmedOK, Presented
<1>6. WordingOK'
  BY <1>1, <1>2 DEF IInv, WordingOK, Presented, At, Idle
<1>7. ToldWhatWasDecided' /\ WithdrawnIsEnding'
  BY <1>1 DEF IInv, ToldWhatWasDecided, WithdrawnIsEnding
<1>8. EveryAgentIsTold'
  <2>1. ASSUME NEW y \in Transactions, Untold(y)' PROVE Untold(y) /\ y # req[r].tx
    BY <1>1, <2>1, NoneAssumption DEF Untold
  <2> QED BY <1>2, <2>1, ToldKept
<1> QED BY <1>1, <1>4, <1>5, <1>6, <1>7, <1>8 DEF IInv

\* Nobody asks for it: a provisioning fails, an agent is ending or ends.
LEMMA WorldKeeps ==
  ASSUME IInv, NEW x \in Transactions, ResumeFails(x) \/ AgentIsEnding(x) \/ AgentEnds(x)
  PROVE  IInv'
<1>1. /\ run[x].status \in {"asked", "offered", "ACTIVE", "ending"} /\ TypeOK'
      /\ UNCHANGED <<todo, definition, req, confirmed, withdrawn, overtaken, unlinked>>
  BY TypeWorld DEF ResumeFails, AgentIsEnding, AgentEnds, IInv, history
<1>2. /\ run'[x].status \in {"ending", "over"} /\ run'[x].of = run[x].of /\ run'[x].told = run[x].told
      /\ \A y \in Transactions \ {x} : run'[y] = run[y]
  BY DEF ResumeFails, AgentIsEnding, AgentEnds, IInv, TypeOK, Runs
<1>3. Monotone
  BY <1>1, <1>2 DEF IInv, Monotone, Begun, Presented
<1>4. ASSUME NEW p \in Requests PROVE RequestOK(req[p])'
  <2>1. PICK q \in Request : q = req[p]
    BY DEF IInv, TypeOK
  <2>2. RequestOK(q)'
    BY <1>3, <2>1, RequestKept DEF IInv
  <2> QED BY <1>1, <2>1, <2>2 DEF RequestOK, ReadOK, DefinitionOK, RunOK
<1>5. Sound(todo)'
  BY <1>1, <1>3, SoundKept DEF IInv, TypeOK, Sound
<1>6. RunsOK' /\ ConfirmedOK'
  BY <1>1, <1>2 DEF IInv, RunsOK, ConfirmedOK, Presented
<1>7. WordingOK'
  BY <1>1 DEF IInv, WordingOK, Presented, At
<1>8. ToldWhatWasDecided'
  BY <1>1, <1>2 DEF IInv, ToldWhatWasDecided
<1>9. WithdrawnIsEnding'
  <2>1. todo.agent # None => todo.agent \in Transactions
    BY DEF IInv, TypeOK, ToDos
  <2> QED BY <1>1, <1>2, <2>1 DEF IInv, WithdrawnIsEnding
<1>10. EveryAgentIsTold'
  BY <1>1, <1>2 DEF IInv, EveryAgentIsTold
<1> QED BY <1>1, <1>4, <1>5, <1>6, <1>7, <1>8, <1>9, <1>10 DEF IInv

-----------------------------------------------------------------------------
(* The inductive invariant.                                                *)

LEMMA InitHolds == Init => IInv
<1> SUFFICES ASSUME Init PROVE IInv
  OBVIOUS
<1>1. /\ todo \in ToDos /\ todo.status = "DRAFT" /\ todo.agent = None
      /\ \A d \in Definitions : definition[d] = NoDefinition
      /\ \A x \in Transactions : run[x] = NoRun
      /\ \A r \in Requests : req[r] = Idle
      /\ confirmed = {} /\ withdrawn = FALSE /\ overtaken = FALSE /\ unlinked = {}
  BY DEF Init, ToDos, Statuses
<1>2. TypeOK
  <2>1. NoDefinition \in DefinitionRecords
    BY DEF NoDefinition, DefinitionRecords
  <2>2. NoRun \in Runs
    BY DEF NoRun, Runs
  <2>3. /\ definition \in [Definitions -> DefinitionRecords]
        /\ run \in [Transactions -> Runs]
        /\ req \in [Requests -> Request]
    BY <2>1, <2>2, IdleType DEF Init
  <2> QED BY <1>1, <2>3 DEF TypeOK
<1>3. \A r \in Requests : RequestOK(req[r])
  BY <1>1, NothingCarried DEF RequestOK, ReadOK, DefinitionOK, RunOK
<1>4. Sound(todo)
  BY <1>1 DEF Sound
<1>5. RunsOK
  BY <1>1 DEF RunsOK, NoRun
<1>6. ConfirmedOK
  BY <1>1 DEF ConfirmedOK, NoDefinition, Presented
<1>7. WordingOK
  BY <1>1 DEF WordingOK, NoDefinition, Presented, At, Idle
<1>8. ToldWhatWasDecided /\ WithdrawnIsEnding /\ EveryAgentIsTold
  BY <1>1 DEF ToldWhatWasDecided, WithdrawnIsEnding, EveryAgentIsTold, NoRun
<1> QED BY <1>2, <1>3, <1>4, <1>5, <1>6, <1>7, <1>8 DEF IInv

LEMMA StepKeeps == IInv /\ [Next]_vars => IInv'
<1> SUFFICES ASSUME IInv, [Next]_vars PROVE IInv'
  OBVIOUS
<1>1. CASE UNCHANGED vars
  BY <1>1 DEF IInv, TypeOK, RequestOK, ReadOK, DefinitionOK, RunOK, Sound, RunsOK, ConfirmedOK,
    WordingOK, ToldWhatWasDecided, WithdrawnIsEnding, EveryAgentIsTold, Presented, Begun, At,
    vars, records, history
<1>2. CASE \E r \in Requests : RequestStep(r)
  <2>1. PICK r \in Requests : RequestStep(r)
    BY <1>2
  <2>2. CASE \/ ReadEdit(r) \/ ReadMessage(r) \/ ReadConfirm(r) \/ ReadComplete(r)
             \/ ReadCancel(r) \/ ReadSubmit(r)
    BY <2>2, ReadsKeep
  <2>3. CASE Cancel(r) \/ NoRevision(r) \/ Refused(r)
    BY <2>3, AnswersKeep
  <2>4. CASE \E d \in Definitions : ReadApprove(r, d) \/ ReadProvision(r, d)
    BY <2>4, PersonReadsKeep
  <2>5. CASE FindWork(r) \/ LeaveClosed(r)
    BY <2>5, TellingReadsKeep
  <2>6. CASE \/ SaveEdit(r) \/ SaveMessage(r) \/ SaveConfirm(r) \/ SaveComplete(r)
             \/ SaveCancel(r) \/ RememberAgent(r)
    BY <2>6, SavesKeep
  <2>7. CASE Decided(r)
    BY <2>7, DecidedKeeps
  <2>8. CASE Approve(r) \/ Provision(r) \/ RememberTransaction(r)
    BY <2>8, ApproveKeeps, ProvisionKeeps, RememberKeeps
  <2>9. CASE \E x \in Transactions : Resume(r, x)
    BY <2>9, ResumeKeeps
  <2>10. CASE Tell(r) \/ RequestDies(r)
    BY <2>10, TellKeeps, DiesKeeps
  <2> QED
    BY <2>1, <2>2, <2>3, <2>4, <2>5, <2>6, <2>7, <2>8, <2>9, <2>10 DEF RequestStep, TellingStep
<1>3. CASE \E x \in Transactions : ResumeFails(x) \/ AgentIsEnding(x) \/ AgentEnds(x)
  BY <1>3, WorldKeeps
<1> QED BY <1>1, <1>2, <1>3 DEF Next

LEMMA InvariantHolds == Spec => []IInv
BY InitHolds, StepKeeps, PTL DEF Spec

-----------------------------------------------------------------------------
(* What the module promises.                                               *)

\* Every variable keeps its shape: no request goes on with a record, a
\* definition or a transaction it never read.
THEOREM TypeCorrect == Spec => []TypeOK
<1>1. IInv => TypeOK
  BY DEF IInv
<1> QED BY <1>1, InvariantHolds, PTL

\* Whatever requests cross each other, an agent is only created for a wording
\* the person confirmed and for a definition they approved after its decision.
THEOREM ApprovedWorkOnly == Spec => []OnlyApprovedWork
<1>1. IInv => OnlyApprovedWork
  <2> SUFFICES ASSUME IInv, NEW x \in Transactions, run[x].of # None
               PROVE  /\ definition[run[x].of].status = "approved"
                      /\ definition[run[x].of].text \in confirmed
    BY DEF OnlyApprovedWork
  <2>1. run[x].of \in Definitions
    BY DEF IInv, TypeOK, Runs
  <2> QED BY <2>1 DEF IInv, RunsOK, ConfirmedOK, Presented
<1> QED BY <1>1, InvariantHolds, PTL

\* An agent is told the wording its permissions were decided for, as long as no
\* write of the ToDo undid another's.
THEOREM ToldAsDecided == Spec => []ToldWhatWasDecided
<1>1. IInv => ToldWhatWasDecided
  BY DEF IInv
<1> QED BY <1>1, InvariantHolds, PTL

\* A withdrawn ToDo stays withdrawn and the agent it names is over, or EXPIRING
\* or SUSPICIOUS and never ACTIVE again, as long as no write of the ToDo undid
\* another's.
THEOREM WithdrawnHolds == Spec => []WithdrawnIsEnding
<1>1. IInv => WithdrawnIsEnding
  BY DEF IInv
<1> QED BY <1>1, InvariantHolds, PTL

\* An ACTIVE agent that was not told its work is about to be, unless the way
\* from its transaction to the work was lost.
THEOREM AgentsAreTold == Spec => []EveryAgentIsTold
<1>1. IInv => EveryAgentIsTold
  BY DEF IInv
<1> QED BY <1>1, InvariantHolds, PTL

=============================================================================
