--------------------------- MODULE LlmGatewayProps ---------------------------
(***************************************************************************)
(* What a call of the LLM gateway keeps, and what its document says of it. *)
(***************************************************************************)
EXTENDS LlmGateway

Unmade == at \in {"resolving", "authorizing", "starting"}

(* Attempts are made in the order of the plan, each profile's retries      *)
(* first, and each one given up was settled in the trace as what it led    *)
(* to, a retry or a fallback (gateway.py:108-158).                         *)
AttemptsInOrder ==
  /\ \A p \in Profiles : \A a \in 0 .. Retries[p] :
       /\ p < profile \/ (p = profile /\ a < attempt) =>
            record[<<p, a>>] = IF a < Retries[p] THEN "retry" ELSE "failed"
       /\ profile < p \/ (p = profile /\ attempt < a) =>
            record[<<p, a>>] = "none"
  /\ Unmade => record[Current] = "none"
  /\ at \in {"calling", "offering", "reporting"} => record[Current] = "started"
  /\ at = "excusing" => record[Current] = "failed"

(* No profile is called that the policy has not allowed for this call.     *)
PermittedOnly ==
  /\ \A p \in Profiles : \A a \in 0 .. Retries[p] :
       record[<<p, a>>] # "none" => p \in permitted
  /\ at = "starting" => profile \in permitted

(* Where the text a consumer has read can have come from.                  *)
SpeechFits ==
  /\ spoke \subseteq {Current}
  /\ Unmade => spoke = {}
  /\ at \in {"calling", "offering", "excusing", "reporting"} =>
       (sawDelta <=> Current \in spoke)
  /\ closing /\ at # "over" =>
       /\ spoke = {}
       /\ Unmade \/ (at = "calling" /\ feed = "unopened")
  /\ excused => Current \in spoke
  /\ at = "excusing" => excused
  /\ excused => at \in {"excusing", "over"}

(* Where the adapter can be, and the completion it has announced.          *)
FeedFits ==
  /\ op = "complete" => /\ feed = "unopened" /\ ~sawDelta /\ ~closing
                        /\ at \notin {"offering", "excusing"}
  /\ op = "stream" /\ at \in {"calling", "offering", "reporting"} =>
       (feed \in {"finished", "drained"} => Current \in completions)
  /\ at = "reporting" /\ op = "stream" => feed \in {"finished", "drained"}

(* A call that ends tells its caller what happened: an answer is recorded  *)
(* and, streamed, announced by the attempt that gave it; a provider's or   *)
(* the policy's refusal is raised only when the consumer has read no text, *)
(* and after a text the failure is an error event that nothing follows.  A *)
(* stream dropped at a yield, which its failure handler catches, or a      *)
(* record that fails could each break that (gateway.py:229, :244,          *)
(* :283-306).                                                              *)
OutcomeFits ==
  /\ outcome = "none" <=> at # "over"
  /\ outcome = "answered" =>
       /\ record[Current] = "completed"
       /\ op = "stream" => Current \in completions
       /\ ~excused
  /\ outcome \in {"failed", "denied"} => spoke = {}
  /\ outcome = "excused" => Current \in spoke /\ record[Current] = "failed"
  /\ closing /\ at = "over" => outcome = "closed"

(* Only attempts made are announced as complete, and none before its       *)
(* adapter says so; the policy is asked before a profile's first attempt.  *)
CompletionsFit ==
  /\ at \in {"resolving", "authorizing"} => attempt = 0
  /\ \A x \in completions : record[x] # "none"
  /\ at \in {"calling", "offering"} /\ feed \in {"unopened", "open"} =>
       Current \notin completions

(* The invariant that makes the others inductive.                          *)
CallSound ==
  TypeOK /\ AttemptsInOrder /\ PermittedOnly /\ SpeechFits /\ FeedFits /\ OutcomeFits

GatewaySound == CallSound /\ CompletionsFit

(* All text a consumer reads comes from one attempt with one provider: no  *)
(* retry and no fallback continues or repeats an answer that has begun     *)
(* (saw_delta, gateway.py:207, :286).                                      *)
OneAttemptSpeaks == \A x, y \in spoke : x = y

(* The attempts the trace knows of.                                        *)
Tried == {x \in Attempts : record[x] # "none"}

(* The call keeps what GatewayPromise says of it, retries, fallbacks,      *)
(* dropped streams, lost records and cancellations included                *)
(* (gateway.py:75-158, :194-336).                                          *)
Promise == INSTANCE GatewayPromise WITH
  streamed  <- op = "stream",
  allowed   <- permitted,
  tried     <- Tried,
  heard     <- spoke,
  announced <- completions,
  left      <- closing,
  ended     <- outcome

KeepsPromise == Promise!Spec

(* Every call ends, however often providers fail (gateway.py:194).         *)
CallsEnd == <>(at = "over")
=============================================================================
