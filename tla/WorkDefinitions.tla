-------------------------- MODULE WorkDefinitions ---------------------------
(***************************************************************************)
(* A ToDo in the Automation App: written, revised with the model,          *)
(* confirmed, decided on, approved, provisioned, told to the agent that    *)
(* carries it, and closed.  Every handler reads the whole record, checks   *)
(* what it read, and writes a whole record made from it; the collections   *)
(* have no transaction around the two.                                     *)
(*                                                                         *)
(* One person and one ToDo.  A wording stands for all the fields of the    *)
(* text.  The decision behind an agent definition never changes (its id is *)
(* new every time), so that what was presented is what is decided.  A      *)
(* provisioning is known by its transaction; the one agent it may come to  *)
(* is known by it too.                                                     *)
(***************************************************************************)
EXTENDS Naturals

CONSTANTS
  Texts,         \* wordings of the ToDo
  Definitions,   \* agent definitions that may be created
  Transactions,  \* provisioning transactions that may be started
  Requests,      \* requests the app handles at a time
  None

ASSUME NoneAssumption == None \notin Texts \union Definitions \union Transactions

VARIABLES
  todo,        \* the record in work_definitions
  definition,  \* agent_definitions
  run,         \* the Provisioner's transaction, then its agent
  req,         \* how far each request is, with what it has read
  confirmed,   \* wordings the person has confirmed
  withdrawn,   \* the person was told that the ToDo is withdrawn
  overtaken,   \* a write of the ToDo undid one made since its read
  unlinked     \* transactions whose way back to the work was lost

records == <<todo, definition, run>>
history == <<confirmed, withdrawn, overtaken, unlinked>>
vars == <<records, req, history>>

Statuses == {"DRAFT", "CONFIRMED", "IN_PROGRESS", "DONE", "CANCELLED"}
ToDos == [status : Statuses, text : Texts, agent : Transactions \union {None}]
DefinitionRecords == [status : {"none", "presented", "approved"},
                      text : Texts \union {None}, tx : Transactions \union {None}]

Runs == [status : {"none", "asked", "offered", "ACTIVE", "ending", "over"},
         of : Definitions \union {None}, told : Texts \union {None}]

\* text of a definition is the wording that was decided on.
NoDefinition == [status |-> "none", text |-> None, tx |-> None]

\* asked: the Provisioner waits for a consent; offered: the person has its URL;
\* ending: EXPIRING or SUSPICIOUS, out of which no way leads back to ACTIVE, and
\* in which the agent runs on.
NoRun == [status |-> "none", of |-> None, told |-> None]

Writes == {"edit", "message", "confirm", "complete", "cancel", "withdraw"}
Steps ==
  {"idle", "submit", "approve", "provision", "remember", "resumed", "link", "tell"} \union Writes
Idle == [at |-> "idle", read |-> None, id |-> None, seen |-> None, tx |-> None]

Request == [at : Steps, read : ToDos \union {None}, id : Definitions \union {None},
            seen : DefinitionRecords \union {None}, tx : Transactions \union {None}]

\* A ToDo is registered as a draft, from the screen or by a client.
Init ==
  /\ todo \in [status : {"DRAFT"}, text : Texts, agent : {None}]
  /\ definition = [d \in Definitions |-> NoDefinition]
  /\ run = [x \in Transactions |-> NoRun]
  /\ req = [r \in Requests |-> Idle]
  /\ confirmed = {} /\ withdrawn = FALSE /\ overtaken = FALSE /\ unlinked = {}

isOpen(t) == t.status \in {"DRAFT", "CONFIRMED", "IN_PROGRESS"}

At(r, step) == req[r].at = step
Goto(r, step) == req' = [req EXCEPT ![r].at = step]
Ends(r) == req' = [req EXCEPT ![r] = Idle]

\* find: what the request goes on with, however long that takes.
Reads(r, step) ==
  /\ At(r, "idle")
  /\ req' = [req EXCEPT ![r] = [@ EXCEPT !.at = step, !.read = todo]]
  /\ UNCHANGED <<records, history>>

\* save: the record whole, whatever is there by now.
Save(r, new) ==
  /\ todo' = new
  /\ overtaken' = (overtaken \/ todo # req[r].read)

-----------------------------------------------------------------------------
(* The person and the ToDo.                                                *)

\* A slip: what is not closed yet can be edited.
ReadEditOpen(r) == isOpen(todo) /\ Reads(r, "edit")

ReadEdit(r)     == todo.status = "DRAFT" /\ Reads(r, "edit")
ReadMessage(r)  == todo.status = "DRAFT" /\ Reads(r, "message")
ReadConfirm(r)  == todo.status = "DRAFT" /\ Reads(r, "confirm")
ReadComplete(r) == isOpen(todo) /\ Reads(r, "complete")
ReadCancel(r)   == isOpen(todo) /\ Reads(r, "cancel")

\* A slip: the agent is not looked at.
CancelOpen(r) ==
  /\ At(r, "cancel")
  /\ Goto(r, "withdraw")
  /\ UNCHANGED <<records, history>>

\* An ACTIVE agent's ToDo is not withdrawn: its status is read after the ToDo.
\* Any other status lets the withdrawal through, one that runs on as well.
Cancel(r) ==
  /\ At(r, "cancel")
  /\ LET read == req[r].read
         active == /\ read.agent # None /\ read.status = "IN_PROGRESS"
                   /\ run[read.agent].status = "ACTIVE"
     IN IF active THEN Ends(r) ELSE Goto(r, "withdraw")
  /\ UNCHANGED <<records, history>>

Edited(r, text) == [req[r].read EXCEPT !.text = text]

\* A slip: over the record as it is by now.
RevisedNow(r, text) == [todo EXCEPT !.text = text]

\* What the model made of the message, over the record as it was read.
Revised(r, text) == [req[r].read EXCEPT !.text = text]

SaveEdit(r) ==
  /\ At(r, "edit")
  /\ \E text \in Texts : Save(r, Edited(r, text))
  /\ Ends(r)
  /\ UNCHANGED <<definition, run, confirmed, withdrawn, unlinked>>

SaveMessage(r) ==
  /\ At(r, "message")
  /\ \E text \in Texts : Save(r, Revised(r, text))
  /\ Ends(r)
  /\ UNCHANGED <<definition, run, confirmed, withdrawn, unlinked>>

\* The input is refused, or the model fails or answers something unusable.
NoRevision(r) ==
  /\ At(r, "edit") \/ At(r, "message")
  /\ Ends(r)
  /\ UNCHANGED <<records, history>>

SaveConfirm(r) ==
  /\ At(r, "confirm")
  /\ Save(r, [req[r].read EXCEPT !.status = "CONFIRMED"])
  /\ confirmed' = confirmed \union {req[r].read.text}
  /\ Ends(r)
  /\ UNCHANGED <<definition, run, withdrawn, unlinked>>

SaveComplete(r) ==
  /\ At(r, "complete")
  /\ Save(r, [req[r].read EXCEPT !.status = "DONE"])
  /\ Ends(r)
  /\ UNCHANGED <<definition, run, confirmed, withdrawn, unlinked>>

SaveCancel(r) ==
  /\ At(r, "withdraw")
  /\ Save(r, [req[r].read EXCEPT !.status = "CANCELLED"])
  /\ withdrawn' = TRUE
  /\ Ends(r)
  /\ UNCHANGED <<definition, run, confirmed, unlinked>>

-----------------------------------------------------------------------------
(* From the confirmed ToDo to the consent page.                            *)

ReadSubmit(r) == todo.status = "CONFIRMED" /\ Reads(r, "submit")

\* The Authorization Platform decides on the wording that was read, or refuses.
Decided(r) ==
  /\ At(r, "submit")
  /\ \E d \in Definitions :
       /\ definition[d].status = "none"
       /\ definition' = [definition EXCEPT ![d] =
            [@ EXCEPT !.status = "presented", !.text = req[r].read.text]]
  /\ Ends(r)
  /\ UNCHANGED <<todo, run, history>>

Refused(r) ==
  /\ At(r, "submit") \/ At(r, "provision")
  /\ Ends(r)
  /\ UNCHANGED <<records, history>>

ReadApprove(r, d) ==
  /\ At(r, "idle") /\ definition[d].status = "presented"
  /\ req' = [req EXCEPT ![r] = [@ EXCEPT !.at = "approve", !.id = d, !.seen = definition[d]]]
  /\ UNCHANGED <<records, history>>

\* The definition is written whole as well: a transaction remembered since its
\* read is gone.
Approve(r) ==
  /\ At(r, "approve")
  /\ LET d == req[r].id IN
       /\ definition' = [definition EXCEPT ![d] = [req[r].seen EXCEPT !.status = "approved"]]
       /\ unlinked' = unlinked \union ({definition[d].tx} \ {req[r].seen.tx})
  /\ Ends(r)
  /\ UNCHANGED <<todo, run, confirmed, withdrawn, overtaken>>

StillApproved(d) == definition[d].status = "approved"

\* The work is looked up whatever its status is.
ReadProvision(r, d) ==
  /\ At(r, "idle") /\ StillApproved(d)
  /\ req' = [req EXCEPT ![r] = [@ EXCEPT !.at = "provision", !.id = d]]
  /\ UNCHANGED <<records, history>>

\* The Provisioner's first answer is the page of a consent, never an agent.
Provision(r) ==
  /\ At(r, "provision")
  /\ \E x \in Transactions :
       /\ run[x].status = "none"
       /\ run' = [run EXCEPT ![x] = [@ EXCEPT !.status = "asked", !.of = req[r].id]]
       /\ req' = [req EXCEPT ![r] = [@ EXCEPT !.at = "remember", !.tx = x]]
  /\ UNCHANGED <<todo, definition, history>>

\* One field is updated; it has room for one transaction.
RememberTransaction(r) ==
  /\ At(r, "remember")
  /\ LET d == req[r].id IN
       /\ definition' = [definition EXCEPT ![d].tx = req[r].tx]
       /\ unlinked' = unlinked \union ({definition[d].tx} \ {None})
  /\ run' = [run EXCEPT ![req[r].tx].status = IF @ = "asked" THEN "offered" ELSE @]
  /\ Ends(r)
  /\ UNCHANGED <<todo, confirmed, withdrawn, overtaken>>

-----------------------------------------------------------------------------
(* Back from the consent.                                                  *)

\* The Provisioner spends the one-time code and comes to an active agent.
Resume(r, x) ==
  /\ At(r, "idle") /\ run[x].status = "offered"
  /\ run' = [run EXCEPT ![x].status = "ACTIVE"]
  /\ req' = [req EXCEPT ![r] = [@ EXCEPT !.at = "resumed", !.tx = x]]
  /\ UNCHANGED <<todo, definition, history>>

\* ... or fails, and the transaction with it.  A second consent is another
\* page, from which the person comes back the same way.
ResumeFails(x) ==
  /\ run[x].status \in {"asked", "offered"}
  /\ run' = [run EXCEPT ![x].status = "over"]
  /\ UNCHANGED <<todo, definition, req, history>>

\* A slip: the task the Provisioner echoes is looked up instead.
findByEchoedTask(x) == {}

findByTransaction(x) == {d \in Definitions : definition[d].tx = x}

\* The task the Provisioner echoes is no ToDo's id: without a definition that
\* names the transaction there is no work to tell.
FindWork(r) ==
  /\ At(r, "resumed")
  /\ IF findByTransaction(req[r].tx) = {} THEN Ends(r)
     ELSE req' = [req EXCEPT ![r] = [@ EXCEPT !.at = "link", !.read = todo]]
  /\ UNCHANGED <<records, history>>

startExecution(t, x) == [t EXCEPT !.status = "IN_PROGRESS", !.agent = x]

RememberAgent(r) ==
  /\ At(r, "link") /\ isOpen(req[r].read)
  /\ LET started == startExecution(req[r].read, req[r].tx) IN
       /\ Save(r, started)
       /\ req' = [req EXCEPT ![r] = [@ EXCEPT !.at = "tell", !.read = started]]
  /\ UNCHANGED <<definition, run, confirmed, withdrawn, unlinked>>

\* Closed while the consent was open: left as it is.
LeaveClosed(r) ==
  /\ At(r, "link") /\ ~isOpen(req[r].read)
  /\ Goto(r, "tell")
  /\ UNCHANGED <<records, history>>

\* addInstruction: the agent's status and the instruction in one transaction.
Tell(r) ==
  /\ At(r, "tell")
  /\ LET x == req[r].tx IN
       run' = IF run[x].status = "ACTIVE"
              THEN [run EXCEPT ![x].told = req[r].read.text] ELSE run
  /\ Ends(r)
  /\ UNCHANGED <<todo, definition, history>>

-----------------------------------------------------------------------------
(* The rest of the platform.                                               *)

\* Near its expiry, or suspected: the status alone changes, nothing is stopped.
AgentIsEnding(x) ==
  /\ run[x].status = "ACTIVE"
  /\ run' = [run EXCEPT ![x].status = "ending"]
  /\ UNCHANGED <<todo, definition, req, history>>

\* Stopped from its own screen, expired, or ended for another reason.
AgentEnds(x) ==
  /\ run[x].status \in {"ACTIVE", "ending"}
  /\ run' = [run EXCEPT ![x].status = "over"]
  /\ UNCHANGED <<todo, definition, req, history>>

\* A write fails or the instance dies: what was being done is not gone on with.
RequestDies(r) ==
  /\ ~At(r, "idle")
  /\ unlinked' = unlinked \union ({req[r].tx} \ {None})
  /\ Ends(r)
  /\ UNCHANGED <<records, confirmed, withdrawn, overtaken>>

TellingStep(r) == FindWork(r) \/ RememberAgent(r) \/ LeaveClosed(r) \/ Tell(r)

RequestStep(r) ==
  \/ ReadEdit(r) \/ ReadMessage(r) \/ ReadConfirm(r) \/ ReadComplete(r) \/ ReadCancel(r)
  \/ SaveEdit(r) \/ SaveMessage(r) \/ NoRevision(r) \/ SaveConfirm(r)
  \/ SaveComplete(r) \/ Cancel(r) \/ SaveCancel(r)
  \/ ReadSubmit(r) \/ Decided(r) \/ Refused(r)
  \/ \E d \in Definitions : ReadApprove(r, d) \/ ReadProvision(r, d)
  \/ Approve(r) \/ Provision(r) \/ RememberTransaction(r)
  \/ \E x \in Transactions : Resume(r, x)
  \/ TellingStep(r)
  \/ RequestDies(r)

Next ==
  \/ \E r \in Requests : RequestStep(r)
  \/ \E x \in Transactions : ResumeFails(x) \/ AgentIsEnding(x) \/ AgentEnds(x)

Spec == Init /\ [][Next]_vars

-----------------------------------------------------------------------------
TypeOK ==
  /\ todo \in ToDos
  /\ definition \in [Definitions -> DefinitionRecords]
  /\ run \in [Transactions -> Runs]
  /\ req \in [Requests -> Request]
  /\ confirmed \subseteq Texts
  /\ withdrawn \in BOOLEAN /\ overtaken \in BOOLEAN
  /\ unlinked \subseteq Transactions

\* What an agent is created for was confirmed by the person in the wording that
\* was decided on, and approved by them after the decision: whatever requests
\* cross each other, no revision by the model and no edit slips in between.
OnlyApprovedWork ==
  \A x \in Transactions : run[x].of # None =>
    LET d == run[x].of IN
      definition[d].status = "approved" /\ definition[d].text \in confirmed

\* An agent is told the wording its permissions were decided for, or nothing --
\* as long as no write of the ToDo undid another's.
ToldWhatWasDecided ==
  \A x \in Transactions :
    ~overtaken /\ run[x].told # None => run[x].told = definition[run[x].of].text

\* A ToDo the person was told is withdrawn reads as withdrawn from then on,
\* whatever consent was open, and the agent it names is over or on the way out,
\* so that it takes no instruction any more -- as long as no write of the ToDo
\* undid another's.  The code wants more, an agent that does not work; one that
\* is EXPIRING or SUSPICIOUS works on for as long as that lasts.
WithdrawnIsEnding ==
  withdrawn /\ ~overtaken =>
    /\ todo.status = "CANCELLED"
    /\ todo.agent # None => run[todo.agent].status \in {"ending", "over"}

\* An ACTIVE agent was told its work or a request is about to tell it, unless
\* that request died or the way from the transaction to the work was
\* overwritten: by an approval that overlapped another, or by provisioning the
\* same definition again.
EveryAgentIsTold ==
  \A x \in Transactions :
    run[x].status = "ACTIVE" /\ run[x].told = None /\ x \notin unlinked =>
      \E r \in Requests : req[r].tx = x /\ req[r].at \in {"resumed", "link", "tell"}
=============================================================================
