----------------------------- MODULE TurnStream -----------------------------
(***************************************************************************)
(* One streamed turn, from the orchestration runtime's generator           *)
(* (backend/app/orchestration/runtime.py, stream_turn) through the session *)
(* service's generator (backend/app/session/service.py, stream_chat) to    *)
(* the SSE route (backend/app/api/routes_chat.py, post_chat_stream).       *)
(*                                                                         *)
(* The generators are nested: the route asks for one session event at a    *)
(* time, and the generators below it run until one is ready (outbox).  A   *)
(* parked generator stands at its yield, a working one at an await.  The   *)
(* route polls for a client that has gone and then cancels the task that   *)
(* works for it, and the server cancels the response besides, again and    *)
(* again while it lasts; where a cancellation lands decides what becomes   *)
(* of the turn, because every layer translates the exceptions below it.    *)
(*                                                                         *)
(* The stream policy is taken to allow every event.  The trace store is a  *)
(* required one, the default: a record that fails raises where it is made. *)
(***************************************************************************)
EXTENDS Naturals, Sequences

CONSTANTS
  FallbackConfigured,   \* orchestration default or strategy fallback_strategy
  MaxDeltas,            \* bound: text deltas a strategy streams
  MaxArtifacts          \* bound: artifacts of a result

ASSUME StreamAssumption ==
  /\ FallbackConfigured \in BOOLEAN
  /\ MaxDeltas \in Nat
  /\ MaxArtifacts \in Nat

VARIABLES
  at,         \* where the nested generators are
  failure,    \* the kind of the exception being handled
  spoken,     \* runtime: answer_parts
  acted,      \* runtime: tool_calls is not empty
  result,     \* runtime: runtime_result is set
  overtime,   \* the stream's duration limit has passed
  journal,    \* trace events the runtime recorded, in order
  gathered,   \* accumulator: answer_parts
  outbox,     \* session events ready to be asked for
  saved,      \* what the session service stored for the turn
  answer,     \* the text of the stored answer
  event,      \* the session event that closes the stream
  shown,      \* the text deltas the route wrote to the response
  ended,      \* the closing events it wrote
  gone,       \* the client has disconnected
  route       \* where the route is; closing: it waits for a cancelled task

runtimeVars == <<failure, spoken, acted, result, overtime, journal>>
sessionVars == <<gathered, outbox, saved, answer, event>>
routeVars == <<shown, ended, gone, route>>
vars == <<at, runtimeVars, sessionVars, routeVars>>

Points == {"authorizing", "selecting", "asking", "finishing", "confirming",
           "recovering", "degrading", "saving", "announced",
           "failing", "cancelling", "over"}

FailureKinds == {"none", "degradable", "fatal", "denied", "cancelled", "sideEffect"}

TraceEvents == {"started", "selected", "completed", "failed", "cancelled", "fallback"}

Voices == {"primary", "fallback"}

Delta == [voice : Voices, n : 1 .. MaxDeltas + 1]

Text(d) == [type |-> "delta", delta |-> d]
Mark(type) == [type |-> type]

StreamEvents ==
  [type : {"delta"}, delta : Delta]
    \cup [type : {"started", "metadata", "artifact", "completed"}]

TypeOK ==
  /\ at \in Points
  /\ failure \in FailureKinds
  /\ spoken \in Seq(Delta)
  /\ acted \in BOOLEAN
  /\ result \in BOOLEAN
  /\ overtime \in BOOLEAN
  /\ journal \in Seq(TraceEvents)
  /\ gathered \in Seq(Delta)
  /\ outbox \in Seq(StreamEvents)
  /\ saved \in {"nothing", "question", "answer"}
  /\ answer \in Seq(Delta)
  /\ event \in {"none", "stream_failed", "stream_cancelled"}
  /\ shown \in Seq(Delta)
  /\ ended \in Seq({"completed", "error"})
  /\ gone \in BOOLEAN
  /\ route \in {"opening", "serving", "closing", "done"}

Init ==
  /\ at = "authorizing"
  /\ failure = "none"
  /\ spoken = << >>
  /\ acted = FALSE
  /\ result = FALSE
  /\ overtime = FALSE
  /\ journal = << >>
  /\ gathered = << >>
  /\ outbox = << >>
  /\ saved = "nothing"
  /\ answer = << >>
  /\ event = "none"
  /\ shown = << >>
  /\ ended = << >>
  /\ gone = FALSE
  /\ route = "opening"

-----------------------------------------------------------------------------
(* The runtime's generator.  It records and yields; before it yields, the  *)
(* limit tracker may raise a timeout.                                      *)

Working(point) == at = point /\ outbox = << >>

Raise(kind) == at' = "recovering" /\ failure' = kind

Record(names) == journal' = journal \o names

(* Access to the use case is refused, or no strategy resolves: there is no *)
(* route yet to fall back from.                                            *)
AuthorizeFails ==
  /\ Working("authorizing")
  /\ \E kind \in {"denied", "fatal"} : Raise(kind)
  /\ UNCHANGED <<spoken, acted, result, overtime, journal, sessionVars, routeVars>>

Authorize ==
  /\ Working("authorizing")
  /\ Record(<<"started">>)
  /\ \/ /\ overtime
        /\ Raise("degradable")
        /\ UNCHANGED outbox
     \/ /\ ~overtime
        /\ at' = "selecting"
        /\ outbox' = <<Mark("started")>>
        /\ UNCHANGED failure
  /\ UNCHANGED <<spoken, acted, result, overtime, gathered, saved, answer, event, routeVars>>

(* The strategy's policy denies it, or asking for it fails.                *)
SelectFails ==
  /\ Working("selecting")
  /\ \E kind \in {"denied", "degradable"} : Raise(kind)
  /\ UNCHANGED <<spoken, acted, result, overtime, journal, sessionVars, routeVars>>

(* The session service shows nothing for strategy.selected.                *)
Select ==
  /\ Working("selecting")
  /\ Record(<<"selected">>)
  /\ \/ overtime /\ Raise("degradable")
     \/ ~overtime /\ at' = "asking" /\ UNCHANGED failure
  /\ UNCHANGED <<spoken, acted, result, overtime, sessionVars, routeVars>>

(* The strategy streams a delta.  It counts as spoken before the limit is  *)
(* checked, so a delta nobody saw still rules out the fallback.            *)
StrategySpeaks ==
  /\ Working("asking") /\ Len(spoken) < MaxDeltas
  /\ LET d == [voice |-> "primary", n |-> Len(spoken) + 1] IN
       /\ spoken' = Append(spoken, d)
       /\ \/ /\ overtime
             /\ Raise("degradable")
             /\ UNCHANGED <<gathered, outbox>>
          \/ /\ ~overtime
             /\ gathered' = Append(gathered, d)
             /\ outbox' = <<Text(d)>>
             /\ UNCHANGED <<at, failure>>
  /\ UNCHANGED <<acted, result, overtime, journal, saved, answer, event, routeVars>>

StrategyActs ==
  /\ Working("asking") /\ ~acted
  /\ acted' = TRUE
  /\ UNCHANGED <<at, failure, spoken, result, overtime, journal, sessionVars, routeVars>>

(* An exception of the strategy, or of building its result.                *)
StrategyFails ==
  /\ Working("asking") \/ Working("finishing")
  /\ \E kind \in FailureKinds \ {"none", "cancelled"} : Raise(kind)
  /\ UNCHANGED <<spoken, acted, result, overtime, journal, sessionVars, routeVars>>

(* A strategy plugin reports its failure as an event: should_stop.         *)
StrategyReportsError ==
  /\ Working("asking")
  /\ \E end \in {"failed", "cancelled"} : Record(<<end>>)
  /\ \/ overtime /\ Raise("degradable")
     \/ ~overtime /\ at' = "failing" /\ UNCHANGED failure
  /\ UNCHANGED <<spoken, acted, result, overtime, sessionVars, routeVars>>

StrategyEnds ==
  /\ Working("asking")
  /\ at' = "finishing"
  /\ UNCHANGED <<runtimeVars, sessionVars, routeVars>>

(* orchestration.completed carries the result: the session service shows   *)
(* its metadata, then each artifact's start and completion.                *)
ResultEvents(artifacts) ==
  <<Mark("metadata")>> \o [i \in 1 .. 2 * artifacts |-> Mark("artifact")]

Finish ==
  /\ Working("finishing")
  /\ result' = TRUE
  /\ Record(<<"completed">>)
  /\ \/ /\ overtime
        /\ Raise("degradable")
        /\ UNCHANGED outbox
     \/ /\ ~overtime
        /\ at' = "confirming"
        /\ \E artifacts \in 0 .. MaxArtifacts : outbox' = ResultEvents(artifacts)
        /\ UNCHANGED failure
  /\ UNCHANGED <<spoken, acted, overtime, gathered, saved, answer, event, routeVars>>

(* Mutated Confirm: the limit is only recorded.                            *)
ConfirmAnyway ==
  /\ Working("confirming")
  /\ at' = "saving"
  /\ IF overtime THEN Record(<<"failed">>) ELSE UNCHANGED journal
  /\ UNCHANGED <<failure, spoken, acted, result, overtime, sessionVars, routeVars>>

(* The last event still passes the limit tracker.                          *)
Confirm ==
  /\ Working("confirming")
  /\ \/ overtime /\ Raise("degradable")
     \/ ~overtime /\ at' = "saving" /\ UNCHANGED failure
  /\ UNCHANGED <<spoken, acted, result, overtime, journal, sessionVars, routeVars>>

(* Mutated ResponseStarted: what was streamed does not count.              *)
ResponseStartedWhenFinished == acted \/ result

ResponseStarted == spoken # << >> \/ acted \/ result

(* decide_fallback: which failures may be answered by the other strategy.  *)
FallbackEligible ==
  /\ FallbackConfigured
  /\ failure = "degradable"
  /\ ~ResponseStarted

(* No fallback: the runtime records its end and yields an error event, at  *)
(* which the accumulator raises.                                           *)
Verdict == IF failure = "cancelled" THEN "cancelled" ELSE "failed"

GiveUp ==
  /\ Working("recovering")
  /\ Record(<<Verdict>>)
  /\ at' = "failing"
  /\ UNCHANGED <<failure, spoken, acted, result, overtime, sessionVars, routeVars>>

(* The policy allows the fallback strategy to run.                         *)
FallBack ==
  /\ Working("recovering")
  /\ FallbackEligible
  /\ Record(<<"selected">>)
  /\ at' = "degrading"
  /\ UNCHANGED <<failure, spoken, acted, result, overtime, sessionVars, routeVars>>

(* The policy service itself fails: nothing catches that exception here.   *)
FallbackPolicyFails ==
  /\ Working("recovering")
  /\ FallbackEligible
  /\ at' = "failing"
  /\ UNCHANGED <<runtimeVars, sessionVars, routeVars>>

DegradeFails ==
  /\ Working("degrading")
  /\ Record(<<Verdict>>)
  /\ at' = "failing"
  /\ UNCHANGED <<failure, spoken, acted, result, overtime, sessionVars, routeVars>>

(* The fallback's whole answer is one delta; no limit is checked.          *)
Degrade ==
  /\ Working("degrading")
  /\ Record(<<"fallback", "completed">>)
  /\ LET d == [voice |-> "fallback", n |-> 1] IN
       /\ gathered' = Append(gathered, d)
       /\ outbox' = <<Text(d), Mark("metadata")>>
  /\ at' = "saving"
  /\ UNCHANGED <<failure, spoken, acted, result, overtime, saved, answer, event, routeVars>>

(* A record fails.  The session service's own, before the runtime starts,  *)
(* and those of the runtime's exception handler end the stream; the others *)
(* are failures like a strategy's.                                         *)
RecordFails ==
  /\ \/ /\ Working("authorizing") \/ Working("recovering")
        /\ at' = "failing"
        /\ UNCHANGED <<failure, result, journal>>
     \/ /\ Working("degrading")
        /\ at' = "failing"
        /\ Record(<<"fallback">>) \/ UNCHANGED journal
        /\ UNCHANGED <<failure, result>>
     \/ /\ Working("authorizing") \/ Working("selecting")
        /\ Raise("degradable")
        /\ UNCHANGED <<result, journal>>
     \/ /\ Working("finishing")
        /\ Raise("degradable")
        /\ result' = TRUE
        /\ UNCHANGED journal
  /\ UNCHANGED <<spoken, acted, overtime, sessionVars, routeVars>>

-----------------------------------------------------------------------------
(* The session service's generator.                                        *)

(* Mutated SaveAnswer: the runtime's text is stored.                       *)
SaveAnswerAsSpoken ==
  /\ Working("saving")
  /\ saved' = "answer"
  /\ answer' = spoken
  /\ outbox' = <<Mark("completed")>>
  /\ at' = "announced"
  /\ UNCHANGED <<runtimeVars, gathered, event, routeVars>>

SaveAnswer ==
  /\ Working("saving")
  /\ saved' = "answer"
  /\ answer' = gathered
  /\ outbox' = <<Mark("completed")>>
  /\ at' = "announced"
  /\ UNCHANGED <<runtimeVars, gathered, event, routeVars>>

(* The generators end with an exception, which the route turns into an     *)
(* error event, even for a client it knows to be gone; an exception that   *)
(* meets another cancellation, or that nobody awaits any more, is lost.    *)
EndWithError ==
  /\ at' = "over"
  /\ \/ route # "done" /\ ended' = Append(ended, "error")
     \/ route \in {"closing", "done"} /\ UNCHANGED ended
  /\ route' = IF route = "closing" THEN route ELSE "done"
  /\ UNCHANGED <<shown, gone>>

(* A conflict or a store error: raised without a checkpoint or an event.   *)
SaveFails ==
  /\ Working("saving")
  /\ EndWithError
  /\ UNCHANGED <<runtimeVars, sessionVars>>

(* The closing checkpoint: the turn's own answer or another turn may have  *)
(* got there first, or the store fails.                                    *)
Checkpoint == saved = "nothing" /\ saved' = "question"

(* The event is recorded after the checkpoint, unless either fails.        *)
FailStream ==
  /\ Working("failing")
  /\ Checkpoint \/ UNCHANGED saved
  /\ \/ Checkpoint /\ event' = "stream_failed"
     \/ UNCHANGED event
  /\ EndWithError
  /\ UNCHANGED <<runtimeVars, gathered, outbox, answer>>

(* Mutated CancelStream: a checkpoint that conflicts is tried again.       *)
CancelStreamRetrying ==
  /\ at = "cancelling"
  /\ \/ /\ Checkpoint /\ event' = "stream_cancelled"
        /\ at' = "over"
        /\ UNCHANGED routeVars
     \/ saved # "nothing" /\ UNCHANGED <<at, saved, event, routeVars>>
  /\ UNCHANGED <<runtimeVars, gathered, outbox, answer>>

CancelStream ==
  /\ at = "cancelling"
  /\ \/ /\ Checkpoint /\ event' = "stream_cancelled"
        /\ at' = "over"
        /\ UNCHANGED routeVars
     \/ /\ Checkpoint \/ UNCHANGED saved
        /\ EndWithError
        /\ UNCHANGED event
  /\ UNCHANGED <<runtimeVars, gathered, outbox, answer>>

-----------------------------------------------------------------------------
(* The route.                                                              *)

Serving == route \in {"opening", "serving"}

(* An event is written; the route returns at response.completed and leaves *)
(* the generators, which have nothing more to do.                          *)
Deliver ==
  /\ Serving /\ outbox # << >>
  /\ outbox' = Tail(outbox)
  /\ shown' = IF Head(outbox).type = "delta" THEN Append(shown, Head(outbox).delta)
                                             ELSE shown
  /\ \/ /\ Head(outbox).type = "completed"
        /\ ended' = Append(ended, "completed")
        /\ at' = "over" /\ route' = "done"
     \/ /\ Head(outbox).type # "completed"
        /\ route' = "serving"
        /\ UNCHANGED <<at, ended>>
  /\ UNCHANGED <<runtimeVars, gathered, saved, answer, event, gone>>

(* A generator left at its yield is closed, with GeneratorExit, once the   *)
(* route is done.                                                          *)
CloseParked ==
  /\ outbox' = << >>
  /\ route' = "done"
  /\ at' = IF at = "announced" THEN "over" ELSE "cancelling"

(* The stream policy or the encoder raises.                                *)
DeliverFails ==
  /\ Serving /\ outbox # << >>
  /\ ended' = Append(ended, "error")
  /\ CloseParked
  /\ UNCHANGED <<runtimeVars, gathered, saved, answer, event, shown, gone>>

Disconnect ==
  /\ ~gone /\ at # "over"
  /\ gone' = TRUE
  /\ UNCHANGED <<at, runtimeVars, sessionVars, shown, ended, route>>

(* The client is found gone while an event waits.  A turn whose            *)
(* cancellation was swallowed is closed this way at its next yield.        *)
NoticeParked ==
  /\ route \in {"serving", "closing"} /\ gone /\ outbox # << >>
  /\ CloseParked
  /\ UNCHANGED <<runtimeVars, gathered, saved, answer, event, shown, ended, gone>>

Notice == route \in {"serving", "closing"} /\ gone /\ outbox = << >> /\ route' = "closing"

(* The task is cancelled in the runtime's, the policy's or the session     *)
(* service's own await: the exception passes the runtime's handlers.       *)
NoticeWorking ==
  /\ Notice
  /\ at \in {"selecting", "asking", "finishing", "confirming", "recovering", "degrading"}
  /\ at' = "cancelling"
  /\ UNCHANGED <<runtimeVars, sessionVars, shown, ended, gone>>

(* Cancelled while it awaits the save, whose thread may still commit.      *)
NoticeSaving ==
  /\ Notice /\ at = "saving"
  /\ at' = "cancelling"
  /\ \/ saved' = "answer" /\ answer' = gathered
     \/ UNCHANGED <<saved, answer>>
  /\ UNCHANGED <<runtimeVars, gathered, outbox, event, shown, ended, gone>>

(* Cancelled within an agent or a gateway.  An agent's own await becomes   *)
(* AgentCancelledError and then a cancelled event; the LLM gateway turns   *)
(* it into an error of its own, which looks like any other failure.        *)
NoticeAsking ==
  /\ Notice /\ at = "asking"
  /\ \E kind \in {"cancelled", "degradable"} : Raise(kind)
  /\ UNCHANGED <<spoken, acted, result, overtime, journal, sessionVars, shown, ended, gone>>

(* The fallback strategy takes the gateway's error for a failed call and   *)
(* answers with its static text: the cancellation is lost.                 *)
NoticeDegrading ==
  /\ Notice /\ at = "degrading"
  /\ UNCHANGED <<at, runtimeVars, sessionVars, shown, ended, gone>>

(* Cancelled during the closing checkpoint, whose thread may still commit: *)
(* no event is recorded.                                                   *)
NoticeClosing ==
  /\ Notice /\ at \in {"failing", "cancelling"}
  /\ at' = "over"
  /\ Checkpoint \/ UNCHANGED saved
  /\ UNCHANGED <<runtimeVars, gathered, outbox, answer, event, shown, ended, gone>>

TimePasses ==
  /\ ~overtime /\ at # "over"
  /\ overtime' = TRUE
  /\ UNCHANGED <<at, failure, spoken, acted, result, journal, sessionVars, routeVars>>

Terminated == at = "over" /\ UNCHANGED vars

RuntimeStep ==
  \/ AuthorizeFails \/ Authorize \/ SelectFails \/ Select
  \/ StrategySpeaks \/ StrategyActs \/ StrategyFails \/ StrategyReportsError
  \/ StrategyEnds \/ Finish \/ Confirm
  \/ GiveUp \/ FallBack \/ FallbackPolicyFails \/ DegradeFails \/ Degrade
  \/ RecordFails

SessionStep == SaveAnswer \/ SaveFails \/ FailStream \/ CancelStream

NoticeStep ==
  \/ NoticeParked \/ NoticeWorking \/ NoticeSaving \/ NoticeAsking
  \/ NoticeDegrading \/ NoticeClosing

RouteStep == Deliver \/ DeliverFails \/ NoticeStep

Next ==
  \/ RuntimeStep \/ SessionStep \/ RouteStep
  \/ Disconnect \/ TimePasses
  \/ Terminated

Spec == Init /\ [][Next]_vars

(* Awaits return (every gateway has its timeout), a strategy's stream ends *)
(* and an event that waits is read.  Nobody has to disconnect, and nobody  *)
(* has to notice.                                                          *)
FairSpec ==
  /\ Spec
  /\ WF_vars(RuntimeStep)
  /\ WF_vars(SessionStep)
  /\ WF_vars(Deliver \/ DeliverFails \/ NoticeParked)
=============================================================================
