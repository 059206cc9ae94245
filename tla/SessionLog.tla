----------------------------- MODULE SessionLog -----------------------------
(***************************************************************************)
(* What a session promises, without versions, threads or documents: each   *)
(* conversation is one log to which turns add themselves one at a time.    *)
(* A turn adds at most once, either its question and answer together or    *)
(* its question alone, and only to the log it began from; a reset empties  *)
(* the log; a turn is acknowledged only after its answer was added.        *)
(***************************************************************************)
EXTENDS Naturals, Sequences

CONSTANTS Turns, Sessions

VARIABLES
  log,      \* per session, the messages since the last reset
  cleared,  \* per session, how often it was reset
  began,    \* per turn, its session and that session's cleared when it began
  added,    \* per turn: "nothing", "answer" or "question"
  acked     \* the turns acknowledged as complete

logVars == <<log, cleared, began, added, acked>>

Question(t) == [role |-> "user", turn |-> t]

Answer(t) == [role |-> "assistant", turn |-> t]

Begin(t, s) ==
  /\ added[t] = "nothing"
  /\ began' = [began EXCEPT ![t] = [session |-> s, cleared |-> cleared[s]]]
  /\ UNCHANGED <<log, cleared, added, acked>>

(* Only a turn that began from the log as it is since the last reset adds. *)
MayAdd(t) ==
  /\ added[t] = "nothing"
  /\ began[t].cleared = cleared[began[t].session]

AddAnswer(t) ==
  /\ MayAdd(t)
  /\ log' = [log EXCEPT ![began[t].session] = Append(Append(@, Question(t)), Answer(t))]
  /\ added' = [added EXCEPT ![t] = "answer"]
  /\ UNCHANGED <<cleared, began, acked>>

AddQuestion(t) ==
  /\ MayAdd(t)
  /\ log' = [log EXCEPT ![began[t].session] = Append(@, Question(t))]
  /\ added' = [added EXCEPT ![t] = "question"]
  /\ UNCHANGED <<cleared, began, acked>>

Acknowledge(t) ==
  /\ added[t] = "answer"
  /\ acked' = acked \cup {t}
  /\ UNCHANGED <<log, cleared, began, added>>

Clear(s) ==
  /\ log' = [log EXCEPT ![s] = << >>]
  /\ cleared' = [cleared EXCEPT ![s] = @ + 1]
  /\ UNCHANGED <<began, added, acked>>

Init ==
  /\ log = [s \in Sessions |-> << >>]
  /\ cleared \in [Sessions -> Nat]
  /\ began \in [Turns -> [session : Sessions, cleared : Nat]]
  /\ added = [t \in Turns |-> "nothing"]
  /\ acked = {}

Next ==
  \/ \E t \in Turns : \/ \E s \in Sessions : Begin(t, s)
                      \/ AddAnswer(t) \/ AddQuestion(t) \/ Acknowledge(t)
  \/ \E s \in Sessions : Clear(s)

Spec == Init /\ [][Next]_logVars
=============================================================================
