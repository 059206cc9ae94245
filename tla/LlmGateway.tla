----------------------------- MODULE LlmGateway -----------------------------
(***************************************************************************)
(* One call of the LLM gateway (backend/app/llm/gateway.py), complete or   *)
(* stream: a profile is resolved and authorized, its provider is tried,    *)
(* tried again, and given up for the next fallback profile, each of which  *)
(* the policy has to allow in its turn.                                    *)
(*                                                                         *)
(* A stream is a generator.  While its consumer holds an event it is       *)
(* parked at its yield; a consumer that drops it there raises              *)
(* GeneratorExit in it, which the handler of provider failures catches,    *)
(* so the gateway goes on as if the provider had failed until its next     *)
(* yield is refused (closing).  A task cancelled at an await raises        *)
(* CancelledError there.  The adapter is the one of OpenAI-compatible      *)
(* providers (openai_compatible.py), which OpenAI's extends; those of      *)
(* Google and of custom providers only fail.                               *)
(* The trace store is required, as configured by default: a record that    *)
(* fails raises where it is made.                                          *)
(***************************************************************************)
EXTENDS Naturals

CONSTANTS
  LastProfile,   \* profile 0 is the resolved one, 1 .. LastProfile its fallbacks
  Retries        \* max_retries of each profile

Profiles == 0 .. LastProfile

ASSUME GatewayAssumption ==
  /\ LastProfile \in Nat
  /\ Retries \in [Profiles -> Nat]

VARIABLES
  op,          \* the method called
  at,          \* where the call is
  profile,     \* index in the execution plan
  attempt,     \* attempt_index with that profile
  feed,        \* the adapter's stream
  sawDelta,    \* saw_delta
  closing,     \* the consumer has dropped the generator
  permitted,   \* profiles the policy allowed
  record,      \* the last trace record of each attempt
  spoke,       \* history: attempts whose text the consumer got
  completions, \* history: attempts whose completed event it got
  excused,     \* history: it got an error event
  outcome      \* what the call ended with

place == <<profile, attempt>>
history == <<spoke, completions, excused>>
vars == <<op, at, place, feed, sawDelta, closing, permitted, record, history, outcome>>

Attempts == UNION {{p} \X (0 .. Retries[p]) : p \in Profiles}

Current == <<profile, attempt>>

Points == {"resolving", "authorizing", "starting", "calling", "offering",
           "excusing", "reporting", "over"}

Feeds == {"unopened", "open", "finished", "drained"}

Records == {"none", "started", "retry", "failed", "completed", "cancelled"}

Outcomes == {"none", "answered", "excused", "failed", "denied", "cancelled",
             "unrecorded", "closed"}

TypeOK ==
  /\ op \in {"complete", "stream"}
  /\ at \in Points
  /\ profile \in Profiles
  /\ attempt \in 0 .. Retries[profile]
  /\ feed \in Feeds
  /\ sawDelta \in BOOLEAN
  /\ closing \in BOOLEAN
  /\ permitted \in SUBSET Profiles
  /\ record \in [Attempts -> Records]
  /\ spoke \in SUBSET Attempts
  /\ completions \in SUBSET Attempts
  /\ excused \in BOOLEAN
  /\ outcome \in Outcomes

Init ==
  /\ op \in {"complete", "stream"}
  /\ at = "resolving"
  /\ profile = 0
  /\ attempt = 0
  /\ feed = "unopened"
  /\ sawDelta = FALSE
  /\ closing = FALSE
  /\ permitted = {}
  /\ record = [x \in Attempts |-> "none"]
  /\ spoke = {}
  /\ completions = {}
  /\ excused = FALSE
  /\ outcome = "none"

-----------------------------------------------------------------------------
(* Before the first call.                                                  *)

(* Whatever a dropped generator ends with, nobody is told.                 *)
EndAs(how) ==
  /\ at' = "over"
  /\ outcome' = IF closing' THEN "closed" ELSE how

Resolve ==
  /\ at = "resolving"
  /\ at' = "authorizing"
  /\ UNCHANGED <<op, place, feed, sawDelta, closing, permitted, record, history, outcome>>

(* No usable profile, or the request exceeds its token limits.             *)
ResolveFails ==
  /\ at = "resolving"
  /\ UNCHANGED closing
  /\ EndAs("failed")
  /\ UNCHANGED <<op, place, feed, sawDelta, permitted, record, history>>

Allow ==
  /\ at = "authorizing"
  /\ at' = "starting"
  /\ permitted' = permitted \cup {profile}
  /\ UNCHANGED <<op, place, feed, sawDelta, closing, record, history, outcome>>

(* A denied fallback ends the call: later fallbacks are not tried.         *)
Deny ==
  /\ at = "authorizing"
  /\ UNCHANGED closing
  /\ EndAs("denied")
  /\ UNCHANGED <<op, place, feed, sawDelta, permitted, record, history>>

(* Every fallback is resolved before the first call; one that cannot be    *)
(* fails the call although the first profile is allowed.                   *)
PlanFails ==
  /\ at = "authorizing" /\ profile = 0
  /\ permitted' = permitted \cup {profile}
  /\ UNCHANGED closing
  /\ EndAs("failed")
  /\ UNCHANGED <<op, place, feed, sawDelta, record, history>>

StartCall ==
  /\ at = "starting"
  /\ at' = "calling"
  /\ feed' = "unopened"
  /\ sawDelta' = FALSE
  /\ record' = [record EXCEPT ![Current] = "started"]
  /\ UNCHANGED <<op, place, closing, permitted, history, outcome>>

-----------------------------------------------------------------------------
(* The provider answers.                                                   *)

(* An event is yielded, unless the generator is being closed: then the     *)
(* close fails with RuntimeError and the generator is never run again.     *)
Yield(point) ==
  \/ closing' /\ EndAs("closed")
  \/ ~closing' /\ at' = point /\ UNCHANGED outcome

(* The adapter yields started before it opens the connection.              *)
StreamStarts ==
  /\ at = "calling" /\ op = "stream" /\ feed = "unopened"
  /\ feed' = "open"
  /\ UNCHANGED closing
  /\ Yield("offering")
  /\ UNCHANGED <<op, place, sawDelta, permitted, record, history>>

(* A stream is passed on as it comes, also after it was said to be complete. *)
TextArrives ==
  /\ at = "calling" /\ op = "stream" /\ feed \in {"open", "finished"}
  /\ sawDelta' = TRUE
  /\ spoke' = spoke \cup {Current}
  /\ at' = "offering"
  /\ UNCHANGED <<op, place, feed, closing, permitted, record, completions, excused, outcome>>

(* Each chunk with a finish reason yields completed, and the adapter reads *)
(* on until [DONE]; a stream that ends without one yields completed last.  *)
CompletionArrives ==
  /\ at = "calling" /\ op = "stream"
  /\ \/ feed = "open" /\ feed' \in {"finished", "drained"}
     \/ feed = "finished" /\ feed' = "finished"
  /\ completions' = completions \cup {Current}
  /\ at' = "offering"
  /\ UNCHANGED <<op, place, sawDelta, closing, permitted, record, spoke, excused, outcome>>

StreamDrains ==
  /\ at = "calling" /\ feed \in {"finished", "drained"}
  /\ at' = "reporting"
  /\ UNCHANGED <<op, place, feed, sawDelta, closing, permitted, record, history, outcome>>

Answered ==
  /\ at = "calling" /\ op = "complete"
  /\ at' = "reporting"
  /\ UNCHANGED <<op, place, feed, sawDelta, closing, permitted, record, history, outcome>>

(* The completion is in the trace and the caller has its answer.           *)
Reported ==
  /\ at = "reporting"
  /\ record' = [record EXCEPT ![Current] = "completed"]
  /\ UNCHANGED closing
  /\ EndAs("answered")
  /\ UNCHANGED <<op, place, feed, sawDelta, permitted, history>>

-----------------------------------------------------------------------------
(* The provider fails.  Only transient errors are retried, and only they   *)
(* make the call fall back: unavailability, timeouts, rate limits and      *)
(* stream errors of any other kind.                                        *)

Kinds == {"transient", "permanent"}

(* The consumer has text already: it gets an error event instead.          *)
Excuse ==
  /\ sawDelta
  /\ record' = [record EXCEPT ![Current] = "failed"]
  /\ Yield("excusing")
  /\ excused' = (excused \/ ~closing')
  /\ UNCHANGED place

CanRetry(kind) == kind = "transient" /\ attempt < Retries[profile]

(* Mutated Retry: what the consumer has read already does not matter.      *)
RetryAnyway(kind) ==
  /\ CanRetry(kind)
  /\ record' = [record EXCEPT ![Current] = "retry"]
  /\ attempt' = attempt + 1
  /\ at' = "starting"
  /\ UNCHANGED <<profile, excused, outcome>>

(* Mutated Retry: the attempts are not counted.                            *)
RetryUncounted(kind) ==
  /\ ~sawDelta /\ CanRetry(kind)
  /\ record' = [record EXCEPT ![Current] = "retry"]
  /\ at' = "starting"
  /\ UNCHANGED <<place, excused, outcome>>

Retry(kind) ==
  /\ ~sawDelta /\ CanRetry(kind)
  /\ record' = [record EXCEPT ![Current] = "retry"]
  /\ attempt' = attempt + 1
  /\ at' = "starting"
  /\ UNCHANGED <<profile, excused, outcome>>

(* Mutated FallBack: the policy is only asked about the first profile.     *)
FallBackUnchecked(kind) ==
  /\ ~sawDelta /\ kind = "transient" /\ ~CanRetry(kind) /\ profile < LastProfile
  /\ record' = [record EXCEPT ![Current] = "failed"]
  /\ profile' = profile + 1
  /\ attempt' = 0
  /\ at' = "starting"
  /\ UNCHANGED <<excused, outcome>>

FallBack(kind) ==
  /\ ~sawDelta /\ kind = "transient" /\ ~CanRetry(kind) /\ profile < LastProfile
  /\ record' = [record EXCEPT ![Current] = "failed"]
  /\ profile' = profile + 1
  /\ attempt' = 0
  /\ at' = "authorizing"
  /\ UNCHANGED <<excused, outcome>>

(* Mutated GiveUp: the error is raised over a text that was shown.         *)
GiveUpLoudly(kind) ==
  /\ ~CanRetry(kind)
  /\ kind = "transient" => profile = LastProfile
  /\ record' = [record EXCEPT ![Current] = "failed"]
  /\ EndAs("failed")
  /\ UNCHANGED <<place, excused>>

GiveUp(kind) ==
  /\ ~sawDelta /\ ~CanRetry(kind)
  /\ kind = "transient" => profile = LastProfile
  /\ record' = [record EXCEPT ![Current] = "failed"]
  /\ EndAs("failed")
  /\ UNCHANGED <<place, excused>>

Fail(kind) == Excuse \/ Retry(kind) \/ FallBack(kind) \/ GiveUp(kind)

(* The adapter is at work.  One that is not implemented fails before it    *)
(* starts; none fails after it has read the stream to its end.             *)
Listening == at = "calling" /\ feed # "drained"

ProviderFails ==
  /\ Listening
  /\ UNCHANGED closing
  /\ \E kind \in Kinds : Fail(kind)
  /\ UNCHANGED <<op, feed, sawDelta, permitted, spoke, completions>>

(* What the handlers take a failing record for.                            *)
RecordKind == IF op = "stream" THEN "transient" ELSE "permanent"

(* The trace store fails.  Outside the handlers its error is raised; that  *)
(* of a started or a finished attempt is taken for a failure of the        *)
(* provider, and that of a failure's own record is raised again.           *)
RecordFails ==
  \/ /\ at \in {"resolving", "authorizing", "starting", "reporting"} \/ Listening
     /\ UNCHANGED closing
     /\ EndAs("unrecorded")
     /\ UNCHANGED <<op, place, feed, sawDelta, permitted, record, history>>
  \/ /\ at = "reporting" \/ (at = "calling" /\ op = "stream" /\ feed = "unopened")
     /\ UNCHANGED closing
     /\ Fail(RecordKind)
     /\ UNCHANGED <<op, feed, sawDelta, permitted, spoke, completions>>

-----------------------------------------------------------------------------
(* The consumer of a stream.                                               *)

Resume ==
  \/ /\ at = "offering"
     /\ at' = "calling"
     /\ UNCHANGED outcome
     /\ UNCHANGED <<op, place, feed, sawDelta, closing, permitted, record, history>>
  \/ /\ at = "excusing"
     /\ UNCHANGED closing
     /\ EndAs("excused")
     /\ UNCHANGED <<op, place, feed, sawDelta, permitted, record, history>>

(* GeneratorExit at a yield is taken for a stream error.                   *)
Close ==
  /\ at = "offering"
  /\ closing' = TRUE
  /\ Fail("transient")
  /\ UNCHANGED <<op, feed, sawDelta, permitted, spoke, completions>>

(* At the yield of the error event nothing catches it, and the handler     *)
(* ends if its record fails.                                               *)
CloseUncaught ==
  /\ at \in {"offering", "excusing"}
  /\ closing' = TRUE
  /\ EndAs("closed")
  /\ UNCHANGED <<op, place, feed, sawDelta, permitted, record, history>>

-----------------------------------------------------------------------------
(* The task is cancelled at an await.                                      *)

(* Outside the handlers the cancellation passes as it is; a record being   *)
(* made by a worker thread may still be committed.                         *)
CancelOutside ==
  /\ at \in {"resolving", "authorizing", "starting"}
  /\ record' \in IF at = "starting"
                   THEN {record, [record EXCEPT ![Current] = "started"]}
                   ELSE {record}
  /\ UNCHANGED closing
  /\ EndAs("cancelled")
  /\ UNCHANGED <<op, place, feed, sawDelta, permitted, history>>

(* Within them it becomes LLMCancelledError.  A stream is recorded as      *)
(* cancelled, a completion as failed, even one that has its answer.        *)
CancelCall ==
  /\ at \in {"calling", "reporting"}
  /\ record' = [record EXCEPT ![Current] =
       IF op = "stream" THEN "cancelled" ELSE "failed"]
  /\ UNCHANGED closing
  /\ EndAs("cancelled")
  /\ UNCHANGED <<op, place, feed, sawDelta, permitted, history>>

(* The provider, or the record of its completion, has failed, and the      *)
(* record of that is interrupted.                                          *)
CancelHandler ==
  /\ Listening \/ at = "reporting"
  /\ \E kind \in IF at = "reporting" THEN {RecordKind} ELSE Kinds :
       record' \in {record, [record EXCEPT ![Current] =
                                IF ~sawDelta /\ CanRetry(kind) THEN "retry" ELSE "failed"]}
  /\ UNCHANGED closing
  /\ EndAs("cancelled")
  /\ UNCHANGED <<op, place, feed, sawDelta, permitted, history>>

Terminated == at = "over" /\ UNCHANGED vars

GatewayStep == Resolve \/ ResolveFails \/ Allow \/ Deny \/ PlanFails \/ StartCall \/ Reported

ProviderStep ==
  \/ StreamStarts \/ TextArrives \/ CompletionArrives \/ StreamDrains
  \/ Answered \/ ProviderFails

ConsumerStep == Resume \/ Close \/ CloseUncaught

Cancellation == CancelOutside \/ CancelCall \/ CancelHandler

Next ==
  \/ GatewayStep \/ ProviderStep \/ ConsumerStep
  \/ RecordFails \/ Cancellation
  \/ Terminated

Spec == Init /\ [][Next]_vars

(* The gateway's own steps and the provider's answers come, each within a  *)
(* timeout, a text and then the stream end (the provider limits its output *)
(* tokens), and a consumer takes the event it asked for or drops the       *)
(* stream.                                                                 *)
FairSpec ==
  /\ Spec
  /\ WF_vars(GatewayStep)
  /\ WF_vars(ProviderStep)
  /\ SF_vars(CompletionArrives) /\ SF_vars(StreamDrains)
  /\ WF_vars(ConsumerStep)
=============================================================================
