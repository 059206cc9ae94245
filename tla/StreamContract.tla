--------------------------- MODULE StreamContract ---------------------------
(***************************************************************************)
(* What a streamed turn promises its client: one strategy speaks, the      *)
(* client is shown what is said in the order it is said, the turn is       *)
(* called completed only after the whole answer was shown and the same     *)
(* answer was stored, and nothing follows the closing event.  What is said *)
(* after the client left is never shown and may or may not be stored.      *)
(***************************************************************************)
EXTENDS Naturals, Sequences

CONSTANT Texts   \* the texts a strategy may stream, each with its speaker

VARIABLES
  said,      \* the texts the turn has produced
  shown,     \* those the client was shown
  kept,      \* what the conversation stores: nothing, question or answer
  answer,    \* the texts of the stored answer
  phase      \* open, answered, refused, left

vars == <<said, shown, kept, answer, phase>>

Init ==
  /\ said = << >>
  /\ shown = << >>
  /\ kept = "nothing"
  /\ answer = << >>
  /\ phase = "open"

(* One voice: a text joins only texts of its own speaker.                  *)
Say ==
  /\ phase \in {"open", "left"} /\ kept = "nothing"
  /\ \E t \in Texts :
       /\ \A i \in 1 .. Len(said) : said[i].voice = t.voice
       /\ said' = Append(said, t)
  /\ UNCHANGED <<shown, kept, answer, phase>>

Show ==
  /\ phase = "open" /\ Len(shown) < Len(said)
  /\ shown' = Append(shown, said[Len(shown) + 1])
  /\ UNCHANGED <<said, kept, answer, phase>>

(* The stored answer is what was said, and all of it was shown to a client *)
(* that is still there.                                                    *)
KeepAnswer ==
  /\ kept = "nothing"
  /\ phase \in {"open", "left"}
  /\ phase = "open" => shown = said
  /\ kept' = "answer" /\ answer' = said
  /\ UNCHANGED <<said, shown>>
  /\ phase' \in {phase, "left"}

Complete ==
  /\ phase = "open" /\ kept = "answer"
  /\ phase' = "answered"
  /\ UNCHANGED <<said, shown, kept, answer>>

KeepQuestion == kept = "nothing" /\ kept' = "question"

Leave ==
  /\ phase = "open" /\ phase' = "left"
  /\ KeepQuestion \/ UNCHANGED kept
  /\ UNCHANGED <<said, shown, answer>>

(* An error closes the stream; the question is stored then or later.       *)
Refuse ==
  /\ phase \in {"open", "left"} /\ phase' = "refused"
  /\ KeepQuestion \/ UNCHANGED kept
  /\ UNCHANGED <<said, shown, answer>>

CloseOff ==
  /\ phase \in {"left", "refused"}
  /\ KeepQuestion
  /\ UNCHANGED <<said, shown, answer, phase>>

Next == Say \/ Show \/ KeepAnswer \/ Complete \/ Leave \/ Refuse \/ CloseOff

Spec == Init /\ [][Next]_vars
=============================================================================
