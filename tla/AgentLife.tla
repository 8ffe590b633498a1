------------------------------ MODULE AgentLife ------------------------------
(***************************************************************************)
(* What the Lifecycle Manager promises of an agent, whoever stops it and   *)
(* however often: its life only goes forward, from running, perhaps by way *)
(* of contained, to stopped and gone; what is still to be ended for it     *)
(* only gets less; and it is gone only when nothing is.                    *)
(***************************************************************************)
CONSTANTS Agents, Things

VARIABLES life, alive

Init ==
  /\ life = [a \in Agents |-> "running"]
  /\ alive = [a \in Agents |-> Things]

Contain(a) ==
  /\ life[a] = "running"
  /\ life' = [life EXCEPT ![a] = "contained"]
  /\ UNCHANGED alive

Stop(a) ==
  /\ life[a] \in {"running", "contained"}
  /\ life' = [life EXCEPT ![a] = "stopped"]
  /\ UNCHANGED alive

LetGo(a, t) ==
  /\ t \in alive[a]
  /\ alive' = [alive EXCEPT ![a] = @ \ {t}]
  /\ UNCHANGED life

Vanish(a) ==
  /\ life[a] # "gone"
  /\ alive[a] = {}
  /\ life' = [life EXCEPT ![a] = "gone"]
  /\ UNCHANGED alive

\* One or the other: nothing is let go of by the step that changes the life.
Next ==
  \E a \in Agents :
    \/ life'[a] # life[a] /\ (Contain(a) \/ Stop(a) \/ Vanish(a))
    \/ alive'[a] # alive[a] /\ \E t \in Things : LetGo(a, t)

Spec == Init /\ [][Next]_<<life, alive>>
=============================================================================
