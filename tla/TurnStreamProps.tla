--------------------------- MODULE TurnStreamProps ---------------------------
(***************************************************************************)
(* What a streamed turn keeps, and what its documents say of it.           *)
(***************************************************************************)
EXTENDS TurnStream

(* A stream the client lost: its route waits for the cancelled task, or is *)
(* done without a closing event.                                           *)
Phase ==
  CASE ended # << >> /\ ended[1] = "completed" -> "answered"
    [] ended # << >> /\ ended[1] = "error" -> "refused"
    [] ended = << >> /\ route \in {"closing", "done"} -> "left"
    [] OTHER -> "open"

Contract ==
  INSTANCE StreamContract
    WITH Texts <- Delta, said <- gathered, shown <- shown,
         kept <- saved, answer <- answer, phase <- Phase

(* The nested generators together implement the abstract stream: one       *)
(* voice, shown in order, stored before it is called complete and stored   *)
(* as shown, silent after the closing event.  Fallback after a response    *)
(* began, a limit that strikes late and a cancellation that lands anywhere *)
(* could each break it (runtime.py stream_turn, service.py stream_chat,    *)
(* routes_chat.py stream_body).                                            *)
KeepsContract == Contract!Spec

TextWaits == outbox # << >> /\ outbox[1].type = "delta"

(* Texts are shown in order: what is gathered is what was shown and the    *)
(* one text that may wait, until the route stops reading.                  *)
ShownInOrder ==
  /\ Serving => gathered = IF TextWaits THEN Append(shown, outbox[1].delta) ELSE shown
  /\ Len(shown) <= Len(gathered)
  /\ \A i \in 1 .. Len(shown) : shown[i] = gathered[i]

(* Only the head of the outbox is ever a text, and only an announced turn  *)
(* has its completion there.                                               *)
OutboxFits ==
  /\ \A i \in 2 .. Len(outbox) : outbox[i].type # "delta"
  /\ \A i \in 1 .. Len(outbox) : outbox[i].type = "completed" => at = "announced"
  /\ at = "announced" => Len(outbox) = 1 /\ outbox[1].type = "completed"
  /\ outbox # << >> => at \in {"selecting", "asking", "confirming", "saving", "announced"}

(* The fallback answers only a turn in which nothing was said.             *)
OneVoice ==
  \/ /\ gathered = << >>
     /\ at = "degrading" => spoken = << >>
  \/ /\ at # "degrading"
     /\ spoken # << >>
     /\ \A i \in 1 .. Len(gathered) : gathered[i].voice = "primary"
  \/ /\ at \in {"saving", "announced", "cancelling", "over"}
     /\ spoken = << >>
     /\ \E d \in Delta : gathered = <<d>>

Unanswered == Points \ {"announced", "cancelling", "over"}

(* What is stored fits where the turn is.                                  *)
SavedFits ==
  /\ at \in Unanswered => saved = "nothing"
  /\ at = "announced" => saved = "answer"
  /\ saved = "answer" => answer = gathered
  /\ saved # "answer" => answer = << >>

(* The route closes the stream once.                                       *)
ClosedOnce ==
  /\ ended \in {<< >>, <<"error">>, <<"completed">>}
  /\ Serving => ended = << >> /\ at \notin {"cancelling", "over"}
  /\ route = "closing" =>
       /\ at # "over" => ended = << >>
       /\ \/ at \in {"recovering", "degrading", "failing", "cancelling", "over"}
          \/ at = "saving" /\ outbox # << >>
  /\ route = "done" => at \in {"cancelling", "over"}
  /\ ended = <<"completed">> => at = "over" /\ saved = "answer"

LastRecord == IF journal = << >> THEN "none" ELSE journal[Len(journal)]

(* A turn on its way to being stored has its completion in the trace.      *)
RecordFits ==
  /\ at \in {"confirming", "saving", "announced"} => LastRecord = "completed"
  /\ ended = <<"completed">> => LastRecord = "completed"

(* The invariant that makes the others inductive: a shown text was         *)
(* gathered first, the stored answer is the gathered one, one strategy     *)
(* speaks and one event closes the stream, wherever a cancellation, a      *)
(* limit or a conflict strikes (runtime.py:676, service.py:346,            *)
(* routes_chat.py:477).                                                    *)
StreamSound ==
  TypeOK /\ ShownInOrder /\ OutboxFits /\ OneVoice /\ SavedFits /\ ClosedOnce /\ RecordFits

(* A client that reads response.completed has its answer in the stored     *)
(* conversation, and the trace ends in orchestration.completed: the limit  *)
(* that can still strike after that record (runtime.py:670) turns the turn *)
(* into a failed one for everybody.                                        *)
CompletedIsRecorded ==
  ended = <<"completed">> => saved = "answer" /\ LastRecord = "completed"

(* Every stream ends, whoever fails, leaves or runs out of time at any     *)
(* point of it (routes_chat.py:477, service.py:387).                       *)
StreamsEnd == <>(at = "over")
=============================================================================
