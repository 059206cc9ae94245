-------------------------- MODULE TurnStreamProofs --------------------------
(***************************************************************************)
(* A streamed turn is sound at every step, its completion is recorded, and *)
(* it implements StreamContract, for every number of texts and artifacts   *)
(* and with or without a fallback strategy.                                *)
(***************************************************************************)
EXTENDS TurnStreamProps, SequenceTheorems, TLAPS

(* Texts and marks are stream events that carry their type. *)
LEMMA Events ==
  /\ \A d \in Delta : Text(d) \in StreamEvents /\ Text(d).type = "delta" /\ Text(d).delta = d
  /\ \A t \in {"started", "metadata", "artifact", "completed"} :
       Mark(t) \in StreamEvents /\ Mark(t).type = t
BY DEF Text, Mark, StreamEvents

(* A sequence with one element. *)
LEMMA One == \A x : Append(<< >>, x) = <<x>> /\ <<x>> # << >> /\ Len(<<x>>) = 1 /\ <<x>>[1] = x
OBVIOUS

(* A sequence with one stream event. *)
LEMMA OneEvent == \A e \in StreamEvents : <<e>> \in Seq(StreamEvents) /\ Len(<<e>>) = 1 /\ <<e>>[1] = e /\ <<e>> # << >>
OBVIOUS

(* The two ways to close a stream differ. *)
LEMMA Ends == <<"error">> # <<"completed">>
OBVIOUS

(* What orchestration.completed turns into holds no text and no completion
   (session/streaming.py, _consume_orchestration_event). *)
LEMMA ResultShape ==
  ASSUME NEW k \in Nat
  PROVE  /\ ResultEvents(k) \in Seq(StreamEvents)
         /\ ResultEvents(k) # << >>
         /\ \A i \in 1 .. Len(ResultEvents(k)) : ResultEvents(k)[i].type \in {"metadata", "artifact"}
<1> DEFINE m == <<Mark("metadata")>>
           a == [i \in 1 .. 2 * k |-> Mark("artifact")]
<1>0. Mark("metadata") \in StreamEvents /\ Mark("artifact") \in StreamEvents
  BY Events
<1>1. m \in Seq(StreamEvents) /\ Len(m) = 1 /\ m[1] = Mark("metadata")
  BY <1>0
<1>2. a \in Seq(StreamEvents) /\ Len(a) = 2 * k /\ \A i \in 1 .. 2 * k : a[i] = Mark("artifact")
  BY <1>0
<1> HIDE DEF m, a
<1>3. /\ m \o a \in Seq(StreamEvents)
      /\ Len(m \o a) = Len(m) + Len(a)
      /\ \A i \in 1 .. Len(m) + Len(a) : (m \o a)[i] = IF i <= Len(m) THEN m[i] ELSE a[i - Len(m)]
  BY <1>1, <1>2, ConcatProperties
<1>4. ResultEvents(k) = m \o a
  BY DEF ResultEvents, m, a
<1>5. \A i \in 1 .. Len(m \o a) : (m \o a)[i] \in {Mark("metadata"), Mark("artifact")}
  <2> TAKE i \in 1 .. Len(m \o a)
  <2>1. CASE i = 1 BY <2>1, <1>1, <1>2, <1>3
  <2>2. CASE i # 1
    <3>1. i - 1 \in 1 .. 2 * k BY <2>2, <1>1, <1>2, <1>3
    <3> QED BY <3>1, <2>2, <1>1, <1>2, <1>3
  <2> QED BY <2>1, <2>2
<1>6. (m \o a) # << >>
  BY <1>1, <1>2, <1>3
<1> QED BY <1>3, <1>4, <1>5, <1>6, Events

(* A stream that the route has not closed gets its only closing event. *)
LEMMA Ending ==
  ASSUME TypeOK, ClosedOnce, at # "over", route # "done"
  PROVE  /\ ended = << >>
         /\ Append(ended, "error") = <<"error">>
         /\ Append(ended, "completed") = <<"completed">>
<1>1. ended = << >>
  BY DEF TypeOK, ClosedOnce, Serving
<1> QED BY <1>1, One

(* What appending a text does to a sequence of texts. *)
LEMMA AppendDelta ==
  ASSUME NEW s \in Seq(Delta), NEW d \in Delta
  PROVE  /\ Append(s, d) \in Seq(Delta) /\ Append(s, d) # << >>
         /\ Len(Append(s, d)) = Len(s) + 1
         /\ \A i \in 1 .. Len(s) : Append(s, d)[i] = s[i]
         /\ Append(s, d)[Len(s) + 1] = d
BY AppendProperties

(* What is left of the events that wait. *)
LEMMA HeadTail ==
  ASSUME NEW s \in Seq(StreamEvents), s # << >>
  PROVE  /\ Head(s) = s[1] /\ s[1] \in StreamEvents
         /\ Tail(s) \in Seq(StreamEvents) /\ Len(Tail(s)) = Len(s) - 1
         /\ \A i \in 1 .. Len(Tail(s)) : Tail(s)[i] = s[i + 1] /\ i + 1 \in 2 .. Len(s)
OBVIOUS

(* The first event waits, or the limit strikes first (runtime.py:535). *)
LEMMA AuthorizeKeeps ==
  ASSUME StreamSound, Authorize
  PROVE  StreamSound'
<1> DEFINE o == <<Mark("started")>>
<1>1. o \in Seq(StreamEvents) /\ Len(o) = 1 /\ o # << >> /\ o[1].type = "started"
  BY Events, OneEvent
<1>2. at = "authorizing" /\ outbox = << >> /\ journal' = journal \o <<"started">>
  BY DEF Authorize, Working, Record
<1>3. UNCHANGED <<spoken, acted, result, overtime, gathered, saved, answer, event, shown, ended, gone, route>>
  BY DEF Authorize, routeVars
<1>4. \/ at' = "recovering" /\ failure' = "degradable" /\ UNCHANGED outbox
      \/ at' = "selecting" /\ outbox' = o /\ UNCHANGED failure
  BY DEF Authorize, Raise
<1>5. journal' \in Seq(TraceEvents)
  BY <1>2 DEF StreamSound, TypeOK, TraceEvents
<1> HIDE DEF o
<1>6. TypeOK'
  BY <1>1, <1>3, <1>4, <1>5 DEF StreamSound, TypeOK, Points, FailureKinds
<1>7. ShownInOrder' /\ OutboxFits'
  BY <1>1, <1>2, <1>3, <1>4 DEF StreamSound, ShownInOrder, OutboxFits, Serving, TextWaits
<1>8. OneVoice' /\ SavedFits' /\ ClosedOnce' /\ RecordFits'
  BY <1>2, <1>3, <1>4 DEF StreamSound, OneVoice, SavedFits, ClosedOnce, RecordFits, Serving, Unanswered, Points
<1> QED BY <1>6, <1>7, <1>8 DEF StreamSound

(* A text counts as spoken, then waits to be shown unless the limit strikes
   (runtime.py:600). *)
LEMMA SpeaksKeeps ==
  ASSUME StreamSound, StrategySpeaks
  PROVE  StreamSound'
<1> DEFINE d == [voice |-> "primary", n |-> Len(spoken) + 1]
           o == <<Text(d)>>
<1>1. spoken \in Seq(Delta) /\ gathered \in Seq(Delta) /\ shown \in Seq(Delta)
  BY DEF StreamSound, TypeOK
<1>2. d \in Delta /\ d.voice = "primary"
  BY <1>1, StreamAssumption DEF StrategySpeaks, Delta, Voices
<1>3. o \in Seq(StreamEvents) /\ Len(o) = 1 /\ o # << >> /\ o[1].type = "delta" /\ o[1].delta = d
  BY <1>2, Events, OneEvent
<1>4. /\ Append(spoken, d) \in Seq(Delta) /\ Append(spoken, d) # << >>
  BY <1>1, <1>2, AppendDelta
<1>5. /\ Append(gathered, d) \in Seq(Delta) /\ Append(gathered, d) # << >>
      /\ Len(Append(gathered, d)) = Len(gathered) + 1
      /\ \A i \in 1 .. Len(gathered) : Append(gathered, d)[i] = gathered[i]
      /\ Append(gathered, d)[Len(gathered) + 1] = d
  BY <1>1, <1>2, AppendDelta
<1>6. at = "asking" /\ outbox = << >> /\ spoken' = Append(spoken, d)
  BY DEF StrategySpeaks, Working
<1>7. UNCHANGED <<acted, result, overtime, journal, saved, answer, event, shown, ended, gone, route>>
  BY DEF StrategySpeaks, routeVars
<1>8. \/ at' = "recovering" /\ failure' = "degradable" /\ UNCHANGED <<gathered, outbox>>
      \/ gathered' = Append(gathered, d) /\ outbox' = o /\ UNCHANGED <<at, failure>>
  BY DEF StrategySpeaks, Raise
<1> HIDE DEF d, o
<1>9. TypeOK'
  <2>1. /\ spoken' \in Seq(Delta) /\ gathered' \in Seq(Delta) /\ outbox' \in Seq(StreamEvents)
    BY <1>1, <1>3, <1>4, <1>5, <1>6, <1>8 DEF StreamSound, TypeOK
  <2>2. at' \in Points /\ failure' \in FailureKinds
    BY <1>8 DEF StreamSound, TypeOK, Points, FailureKinds
  <2> QED BY <1>7, <2>1, <2>2 DEF StreamSound, TypeOK
<1>10. Serving => gathered = shown
  <2>1. ~TextWaits
    BY <1>6 DEF TextWaits
  <2> QED BY <2>1 DEF StreamSound, ShownInOrder
<1>11. ShownInOrder'
  <2>1. Len(shown) <= Len(gathered) /\ \A i \in 1 .. Len(shown) : shown[i] = gathered[i]
    BY DEF StreamSound, ShownInOrder
  <2>2. CASE UNCHANGED <<gathered, outbox>>
    BY <2>1, <2>2, <1>6, <1>7, <1>10 DEF ShownInOrder, Serving, TextWaits
  <2>3. CASE gathered' = Append(gathered, d) /\ outbox' = o
    <3>1. TextWaits' /\ outbox'[1].delta = d
      BY <2>3, <1>3 DEF TextWaits
    <3>2. Serving' => gathered' = Append(shown', d)
      BY <2>3, <1>7, <1>10 DEF Serving
    <3>3. Len(shown') <= Len(gathered')
      BY <2>1, <2>3, <1>1, <1>5, <1>7
    <3>4. \A i \in 1 .. Len(shown') : shown'[i] = gathered'[i]
      <4> TAKE i \in 1 .. Len(shown')
      <4>1. shown' = shown BY <1>7
      <4>2. i \in 1 .. Len(shown) /\ i \in 1 .. Len(gathered)
        BY <4>1, <2>1, <1>1
      <4> QED BY <4>1, <4>2, <2>1, <2>3, <1>5
    <3> QED BY <3>1, <3>2, <3>3, <3>4 DEF ShownInOrder
  <2> QED BY <1>8, <2>2, <2>3
<1>12. OutboxFits'
  BY <1>3, <1>6, <1>8 DEF StreamSound, OutboxFits
<1>13. \A i \in 1 .. Len(gathered) : gathered[i].voice = "primary"
  BY <1>1, <1>6 DEF StreamSound, OneVoice
<1>14. \A i \in 1 .. Len(gathered') : gathered'[i].voice = "primary"
  <2>1. CASE gathered' = gathered
    BY <2>1, <1>13
  <2>2. CASE gathered' = Append(gathered, d)
    <3> TAKE i \in 1 .. Len(gathered')
    <3>1. CASE i = Len(gathered) + 1
      BY <3>1, <2>2, <1>2, <1>5
    <3>2. CASE i # Len(gathered) + 1
      <4>1. i \in 1 .. Len(gathered)
        BY <3>2, <2>2, <1>1, <1>5
      <4> QED BY <4>1, <2>2, <1>5, <1>13
    <3> QED BY <3>1, <3>2
  <2> QED BY <1>8, <2>1, <2>2
<1>15. OneVoice'
  BY <1>4, <1>6, <1>8, <1>14 DEF OneVoice
<1>16. SavedFits' /\ ClosedOnce' /\ RecordFits'
  BY <1>6, <1>7, <1>8 DEF StreamSound, SavedFits, ClosedOnce, RecordFits, LastRecord, Serving, Unanswered, Points
<1> QED BY <1>9, <1>11, <1>12, <1>15, <1>16 DEF StreamSound

(* The result is recorded, then its events wait (runtime.py:641). *)
LEMMA FinishKeeps ==
  ASSUME StreamSound, Finish
  PROVE  StreamSound'
<1>1. at = "finishing" /\ outbox = << >> /\ journal' = journal \o <<"completed">> /\ result' = TRUE
  BY DEF Finish, Working, Record
<1>2. UNCHANGED <<spoken, acted, overtime, gathered, saved, answer, event, shown, ended, gone, route>>
  BY DEF Finish, routeVars
<1>3. \/ at' = "recovering" /\ failure' = "degradable" /\ outbox' = << >>
      \/ /\ at' = "confirming" /\ failure' = failure
         /\ \E k \in 0 .. MaxArtifacts : outbox' = ResultEvents(k)
  BY <1>1 DEF Finish, Raise
<1>4. /\ outbox' \in Seq(StreamEvents)
      /\ \A i \in 1 .. Len(outbox') : outbox'[i].type \in {"metadata", "artifact"}
      /\ outbox' # << >> => at' = "confirming"
  <2>1. CASE outbox' = << >>
    BY <2>1
  <2>2. CASE at' = "confirming" /\ \E k \in 0 .. MaxArtifacts : outbox' = ResultEvents(k)
    <3>1. PICK k \in 0 .. MaxArtifacts : outbox' = ResultEvents(k)
      BY <2>2
    <3>2. k \in Nat
      BY StreamAssumption
    <3> QED BY <2>2, <3>1, <3>2, ResultShape
  <2> QED BY <1>3, <2>1, <2>2
<1>5. journal' \in Seq(TraceEvents) /\ journal' # << >> /\ journal'[Len(journal')] = "completed"
  BY <1>1 DEF StreamSound, TypeOK, TraceEvents
<1>6. TypeOK'
  BY <1>1, <1>2, <1>3, <1>4, <1>5 DEF StreamSound, TypeOK, Points, FailureKinds
<1>7. ~TextWaits /\ ~TextWaits'
  <2>1. ~TextWaits
    BY <1>1 DEF TextWaits
  <2>2. outbox' # << >> => 1 \in 1 .. Len(outbox')
    BY <1>4
  <2>3. ~TextWaits'
    BY <1>4, <2>2 DEF TextWaits
  <2> QED BY <2>1, <2>3
<1>8. ShownInOrder'
  BY <1>2, <1>7 DEF StreamSound, ShownInOrder, Serving
<1>9. OutboxFits'
  <2>1. at' # "announced"
    BY <1>3
  <2>2. \A i \in 1 .. Len(outbox') : outbox'[i].type # "delta" /\ outbox'[i].type # "completed"
    BY <1>4
  <2>3. \A i \in 2 .. Len(outbox') : i \in 1 .. Len(outbox')
    BY <1>4
  <2> QED BY <1>4, <2>1, <2>2, <2>3 DEF OutboxFits
<1>10. OneVoice' /\ SavedFits' /\ ClosedOnce' /\ RecordFits'
  BY <1>1, <1>2, <1>3, <1>5 DEF StreamSound, OneVoice, SavedFits, ClosedOnce, RecordFits, LastRecord, Serving, Unanswered, Points
<1> QED BY <1>6, <1>8, <1>9, <1>10 DEF StreamSound

(* The route shows the event that waits (routes_chat.py:182). *)
LEMMA DeliverKeeps ==
  ASSUME StreamSound, Deliver
  PROVE  StreamSound'
<1>1. /\ Serving /\ outbox \in Seq(StreamEvents) /\ outbox # << >> /\ outbox' = Tail(outbox)
      /\ gathered \in Seq(Delta) /\ shown \in Seq(Delta)
  BY DEF Deliver, StreamSound, TypeOK
<1>2. /\ Head(outbox) = outbox[1] /\ outbox[1] \in StreamEvents
      /\ outbox' \in Seq(StreamEvents) /\ Len(outbox') = Len(outbox) - 1
      /\ \A i \in 1 .. Len(outbox') : outbox'[i] = outbox[i + 1] /\ i + 1 \in 2 .. Len(outbox)
  BY <1>1, HeadTail
<1>3. outbox[1].type = "delta" => outbox[1].delta \in Delta
  BY <1>2 DEF StreamEvents
<1>4. \A i \in 1 .. Len(outbox') : outbox'[i].type # "delta"
  BY <1>2 DEF StreamSound, OutboxFits
<1>5. ~TextWaits'
  <2>1. outbox' # << >> => 1 \in 1 .. Len(outbox')
    BY <1>2
  <2> QED BY <1>4, <2>1 DEF TextWaits
<1>6. shown' = IF TextWaits THEN Append(shown, outbox[1].delta) ELSE shown
  BY <1>1, <1>2 DEF Deliver, TextWaits
<1>7. gathered' = gathered /\ gathered = shown'
  BY <1>1, <1>6 DEF Deliver, StreamSound, ShownInOrder
<1>8. UNCHANGED <<failure, spoken, acted, result, overtime, journal, saved, answer, event, gone>>
  BY DEF Deliver, runtimeVars
<1>9. ended = << >> /\ at \notin {"cancelling", "over"}
  BY <1>1 DEF StreamSound, ClosedOnce
<1>10. \/ at = "announced" /\ at' = "over" /\ route' = "done" /\ ended' = <<"completed">> /\ Len(outbox') = 0
       \/ route' = "serving" /\ at' = at /\ ended' = << >> /\ at # "announced"
  <2>1. CASE outbox[1].type = "completed"
    <3>1. at = "announced"
      <4>1. 1 \in 1 .. Len(outbox)
        BY <1>1
      <4> QED BY <2>1, <4>1 DEF StreamSound, OutboxFits
    <3>2. Len(outbox') = 0
      BY <3>1, <1>2 DEF StreamSound, OutboxFits
    <3>3. at' = "over" /\ route' = "done" /\ ended' = Append(ended, "completed")
      BY <2>1, <1>2 DEF Deliver
    <3> QED BY <1>9, <3>1, <3>2, <3>3, One
  <2>2. CASE outbox[1].type # "completed"
    <3>1. at # "announced"
      BY <2>2 DEF StreamSound, OutboxFits
    <3> QED BY <2>2, <3>1, <1>2, <1>9 DEF Deliver
  <2> QED BY <2>1, <2>2
<1>11. ended' \in Seq({"completed", "error"})
  <2>1. << >> \in Seq({"completed", "error"}) /\ <<"completed">> \in Seq({"completed", "error"})
    OBVIOUS
  <2> QED BY <2>1, <1>10
<1>12. TypeOK'
  BY <1>1, <1>2, <1>7, <1>8, <1>11, <1>10 DEF StreamSound, TypeOK, Points
<1>13. ShownInOrder'
  BY <1>1, <1>5, <1>7 DEF ShownInOrder
<1>14. OutboxFits'
  <2>1. \A i \in 2 .. Len(outbox') : i \in 1 .. Len(outbox')
    BY <1>2
  <2>2. \A i \in 2 .. Len(outbox) : i \in 1 .. Len(outbox)
    BY <1>1
  <2>3. \A i \in 1 .. Len(outbox') : outbox'[i].type = "completed" => at' = "announced"
    BY <1>2, <1>10, <2>2 DEF StreamSound, OutboxFits
  <2>4. outbox' # << >> => at' = at /\ outbox # << >>
    <3>1. Len(outbox') = 0 => outbox' = << >>
      BY <1>2
    <3> QED BY <3>1, <1>1, <1>10
  <2> QED BY <1>4, <1>10, <2>1, <2>3, <2>4 DEF StreamSound, OutboxFits
<1>15. OneVoice'
  BY <1>7, <1>8, <1>10 DEF StreamSound, OneVoice
<1>16. SavedFits'
  BY <1>7, <1>8, <1>10 DEF StreamSound, SavedFits, Unanswered, Points
<1>17. ClosedOnce'
  BY <1>8, <1>9, <1>10 DEF StreamSound, SavedFits, ClosedOnce, Serving
<1>18. RecordFits'
  BY <1>8, <1>10 DEF StreamSound, RecordFits, LastRecord
<1> QED BY <1>12, <1>13, <1>14, <1>15, <1>16, <1>17, <1>18 DEF StreamSound

(* Every step of the runtime keeps the invariant (runtime.py, stream_turn). *)
LEMMA RuntimeKeeps ==
  ASSUME StreamSound, RuntimeStep
  PROVE  StreamSound'
<1> USE StreamAssumption, Events, One, Ends
        DEF StreamSound, TypeOK, ShownInOrder, OutboxFits, OneVoice, SavedFits,
            ClosedOnce, RecordFits, Points, FailureKinds, Unanswered, Working,
            Serving, TextWaits, LastRecord, runtimeVars, sessionVars, routeVars, Raise, Record, TraceEvents
<1>1. CASE AuthorizeFails
  BY <1>1 DEF AuthorizeFails
<1>2. CASE Authorize
  BY <1>2, AuthorizeKeeps
<1>3. CASE SelectFails
  BY <1>3 DEF SelectFails
<1>4. CASE Select
  BY <1>4 DEF Select
<1>5. CASE StrategySpeaks
  BY <1>5, SpeaksKeeps
<1>6. CASE StrategyActs
  BY <1>6 DEF StrategyActs
<1>7. CASE StrategyFails
  BY <1>7 DEF StrategyFails
<1>8. CASE StrategyReportsError
  BY <1>8 DEF StrategyReportsError
<1>9. CASE StrategyEnds
  BY <1>9 DEF StrategyEnds
<1>10. CASE Finish
  BY <1>10, FinishKeeps
<1>11. CASE Confirm
  BY <1>11 DEF Confirm
<1>12. CASE GiveUp
  BY <1>12 DEF GiveUp, Verdict
<1>13. CASE FallBack
  BY <1>13 DEF FallBack, FallbackEligible, ResponseStarted
<1>14. CASE FallbackPolicyFails
  BY <1>14 DEF FallbackPolicyFails, FallbackEligible, ResponseStarted
<1>15. CASE DegradeFails
  BY <1>15 DEF DegradeFails, Verdict
<1>16. CASE Degrade
  BY <1>16 DEF Degrade, Delta, Voices
<1>17. CASE RecordFails
  <2>1. /\ at \in {"authorizing", "selecting", "finishing", "recovering", "degrading"}
        /\ outbox = << >> /\ at' \in {"recovering", "failing"}
    BY <1>17 DEF RecordFails
  <2>2. UNCHANGED <<spoken, acted, overtime, gathered, outbox, saved, answer, event, shown, ended, gone, route>>
    BY <1>17 DEF RecordFails
  <2>3. journal' \in Seq(TraceEvents) /\ result' \in BOOLEAN /\ failure' \in FailureKinds
    <3>1. journal' = journal \o <<"fallback">> \/ journal' = journal
      BY <1>17 DEF RecordFails
    <3>2. journal \o <<"fallback">> \in Seq(TraceEvents)
      OBVIOUS
    <3>3. failure' \in {failure, "degradable"} /\ result' \in {result, TRUE}
      BY <1>17 DEF RecordFails
    <3> QED BY <3>1, <3>2, <3>3
  <2>4. TypeOK' /\ ShownInOrder' /\ OutboxFits'
    BY <2>1, <2>2, <2>3
  <2>5. OneVoice' /\ SavedFits' /\ RecordFits'
    BY <2>1, <2>2
  <2>6. ClosedOnce'
    BY <2>1, <2>2
  <2> QED BY <2>4, <2>5, <2>6
<1> QED
  BY <1>1, <1>2, <1>3, <1>4, <1>5, <1>6, <1>7, <1>8, <1>9, <1>10, <1>11,
     <1>12, <1>13, <1>14, <1>15, <1>16, <1>17 DEF RuntimeStep

(* Every step of the session service keeps it (service.py, stream_chat). *)
LEMMA SessionKeeps ==
  ASSUME StreamSound, SessionStep
  PROVE  StreamSound'
<1> USE StreamAssumption, Events, One, Ends
        DEF StreamSound, TypeOK, ShownInOrder, OutboxFits, OneVoice, SavedFits,
            ClosedOnce, RecordFits, Points, FailureKinds, Unanswered, Working,
            Serving, TextWaits, LastRecord, runtimeVars, sessionVars, routeVars, EndWithError, Checkpoint
<1>1. CASE SaveAnswer
  <2>1. <<Mark("completed")>> \in Seq(StreamEvents) /\ <<Mark("completed")>>[1].type = "completed" /\ Len(<<Mark("completed")>>) = 1 /\ <<Mark("completed")>> # << >>
    BY Events, OneEvent
  <2>2. TypeOK'
    BY <1>1, <2>1 DEF SaveAnswer
  <2>3. ShownInOrder'
    BY <1>1, <2>1 DEF SaveAnswer
  <2>4. OutboxFits'
    BY <1>1, <2>1 DEF SaveAnswer
  <2>5. OneVoice'
    BY <1>1, <2>1 DEF SaveAnswer
  <2>6. SavedFits'
    BY <1>1, <2>1 DEF SaveAnswer
  <2>7. ClosedOnce'
    BY <1>1, <2>1 DEF SaveAnswer
  <2>8. RecordFits'
    BY <1>1, <2>1 DEF SaveAnswer
  <2> QED BY <2>2, <2>3, <2>4, <2>5, <2>6, <2>7, <2>8
<1>2. CASE SaveFails
  <2>1. at = "saving" /\ outbox = << >> /\ at' = "over" /\ Serving
    BY <1>2 DEF SaveFails
  <2>2. ended = << >> /\ route \notin {"closing", "done"}
    BY <2>1
  <2>3. ended' = <<"error">> /\ route' = "done"
    BY <1>2, <2>2, One DEF SaveFails
  <2>4. UNCHANGED <<failure, spoken, acted, result, overtime, journal, gathered, outbox, saved, answer, event, shown, gone>>
    BY <1>2 DEF SaveFails
  <2>5. ended' \in Seq({"completed", "error"})
    BY <2>3
  <2> QED BY <2>1, <2>2, <2>3, <2>4, <2>5, Ends
<1>3. CASE FailStream
  <2>1. route # "done" => Append(ended, "error") = <<"error">>
    BY <1>3, Ending DEF FailStream
  <2>2. TypeOK'
    BY <1>3, <2>1 DEF FailStream
  <2>3. ShownInOrder'
    BY <1>3, <2>1 DEF FailStream
  <2>4. OutboxFits'
    BY <1>3, <2>1 DEF FailStream
  <2>5. OneVoice'
    BY <1>3, <2>1 DEF FailStream
  <2>6. SavedFits'
    BY <1>3, <2>1 DEF FailStream
  <2>7. ClosedOnce'
    <3>1. at = "failing" /\ outbox = << >> /\ at' = "over" /\ ended # <<"completed">>
      BY <1>3 DEF FailStream
    <3>2. \/ ended' = <<"error">> /\ route' \in {"closing", "done"}
          \/ ended' = ended /\ route' = route /\ route \in {"closing", "done"}
          \/ ended' = ended /\ route' = "done"
      BY <1>3, <2>1 DEF FailStream
    <3> QED BY <3>1, <3>2
  <2>8. RecordFits'
    BY <1>3, <2>1 DEF FailStream
  <2> QED BY <2>2, <2>3, <2>4, <2>5, <2>6, <2>7, <2>8
<1>4. CASE CancelStream
  <2>1. route # "done" => Append(ended, "error") = <<"error">>
    BY <1>4, Ending DEF CancelStream
  <2>2. TypeOK'
    BY <1>4, <2>1 DEF CancelStream
  <2>3. ShownInOrder'
    BY <1>4, <2>1 DEF CancelStream
  <2>4. OutboxFits'
    BY <1>4, <2>1 DEF CancelStream
  <2>5. OneVoice'
    BY <1>4, <2>1 DEF CancelStream
  <2>6. SavedFits'
    BY <1>4, <2>1 DEF CancelStream
  <2>7. ClosedOnce'
    <3>1. CASE UNCHANGED routeVars
      BY <1>4, <3>1 DEF CancelStream, EndWithError
    <3>2. CASE EndWithError
      <4>1. at = "cancelling" /\ at' = "over" /\ ended # <<"completed">> /\ outbox' = outbox
        BY <1>4, <3>2 DEF CancelStream
      <4>2. \/ ended' = <<"error">> /\ route' \in {"closing", "done"}
            \/ ended' = ended /\ route' = route /\ route \in {"closing", "done"}
        BY <2>1, <3>2 DEF EndWithError
      <4> QED BY <4>1, <4>2
    <3> QED BY <1>4, <3>1, <3>2 DEF CancelStream
  <2>8. RecordFits'
    BY <1>4, <2>1 DEF CancelStream
  <2> QED BY <2>2, <2>3, <2>4, <2>5, <2>6, <2>7, <2>8
<1> QED BY <1>1, <1>2, <1>3, <1>4 DEF SessionStep

(* Every step of the route keeps it, the cancellations included
   (routes_chat.py, post_chat_stream). *)
LEMMA RouteKeeps ==
  ASSUME StreamSound, RouteStep
  PROVE  StreamSound'
<1> USE StreamAssumption, Events, One, Ends
        DEF StreamSound, TypeOK, ShownInOrder, OutboxFits, OneVoice, SavedFits,
            ClosedOnce, RecordFits, Points, FailureKinds, Unanswered, Working,
            Serving, TextWaits, LastRecord, runtimeVars, sessionVars, routeVars, CloseParked, Notice, Raise
<1>1. CASE Deliver
  BY <1>1, DeliverKeeps
<1>2. CASE DeliverFails
  <2>1. Append(ended, "error") = <<"error">>
    BY <1>2, Ending DEF DeliverFails
  <2>2. TypeOK'
    BY <1>2, <2>1 DEF DeliverFails
  <2>3. ShownInOrder'
    BY <1>2, <2>1 DEF DeliverFails
  <2>4. OutboxFits'
    BY <1>2, <2>1 DEF DeliverFails
  <2>5. OneVoice'
    BY <1>2, <2>1 DEF DeliverFails
  <2>6. SavedFits'
    BY <1>2, <2>1 DEF DeliverFails
  <2>7. ClosedOnce'
    BY <1>2, <2>1 DEF DeliverFails
  <2>8. RecordFits'
    BY <1>2, <2>1 DEF DeliverFails
  <2> QED BY <2>2, <2>3, <2>4, <2>5, <2>6, <2>7, <2>8
<1>3. CASE NoticeParked
  <2>1. TypeOK'
    BY <1>3 DEF NoticeParked
  <2>2. ShownInOrder'
    BY <1>3 DEF NoticeParked
  <2>3. OutboxFits'
    BY <1>3 DEF NoticeParked
  <2>4. OneVoice'
    BY <1>3 DEF NoticeParked
  <2>5. SavedFits'
    BY <1>3 DEF NoticeParked
  <2>6. ClosedOnce'
    BY <1>3 DEF NoticeParked
  <2>7. RecordFits'
    BY <1>3 DEF NoticeParked
  <2> QED BY <2>1, <2>2, <2>3, <2>4, <2>5, <2>6, <2>7
<1>4. CASE NoticeWorking
  BY <1>4 DEF NoticeWorking
<1>5. CASE NoticeSaving
  BY <1>5 DEF NoticeSaving
<1>6. CASE NoticeAsking
  BY <1>6 DEF NoticeAsking
<1>7. CASE NoticeDegrading
  BY <1>7 DEF NoticeDegrading
<1>8. CASE NoticeClosing
  BY <1>8 DEF NoticeClosing, Checkpoint
<1> QED BY <1>1, <1>2, <1>3, <1>4, <1>5, <1>6, <1>7, <1>8 DEF RouteStep, NoticeStep

(* A disconnect and the passing of time keep it. *)
LEMMA WorldKeeps ==
  ASSUME StreamSound, Disconnect \/ TimePasses
  PROVE  StreamSound'
<1> USE StreamAssumption, Events, One, Ends
        DEF StreamSound, TypeOK, ShownInOrder, OutboxFits, OneVoice, SavedFits,
            ClosedOnce, RecordFits, Points, FailureKinds, Unanswered, Working,
            Serving, TextWaits, LastRecord, runtimeVars, sessionVars, routeVars, vars
<1>1. CASE Disconnect
  BY <1>1 DEF Disconnect
<1>2. CASE TimePasses
  BY <1>2 DEF TimePasses
<1> QED BY <1>1, <1>2 

-----------------------------------------------------------------------------

(* The stream opens with nothing said and nothing stored.                  *)
LEMMA InitSound ==
  ASSUME Init
  PROVE  StreamSound
<1>1. TypeOK
  <2>1. \A S : << >> \in Seq(S)
    OBVIOUS
  <2> QED BY <2>1 DEF Init, TypeOK, Points, FailureKinds
<1>2. ShownInOrder /\ OutboxFits /\ OneVoice
  BY DEF Init, ShownInOrder, OutboxFits, OneVoice, Serving, TextWaits
<1>3. SavedFits /\ RecordFits
  BY DEF Init, SavedFits, RecordFits, Unanswered, Points
<1>4. ClosedOnce
  BY One DEF Init, ClosedOnce, Serving
<1> QED BY <1>1, <1>2, <1>3, <1>4 DEF StreamSound

LEMMA StutterSound ==
  ASSUME StreamSound, UNCHANGED vars
  PROVE  StreamSound'
<1> USE DEF StreamSound, vars, runtimeVars, sessionVars, routeVars
<1>1. TypeOK'
  BY DEF TypeOK
<1>2. ShownInOrder' /\ OutboxFits' /\ OneVoice'
  BY DEF ShownInOrder, OutboxFits, OneVoice, Serving, TextWaits
<1>3. SavedFits' /\ ClosedOnce'
  BY DEF SavedFits, ClosedOnce, Serving
<1>4. RecordFits'
  BY DEF RecordFits, LastRecord
<1> QED BY <1>1, <1>2, <1>3, <1>4

(* No step of anybody breaks the invariant.                                *)
LEMMA NextSound ==
  ASSUME StreamSound, [Next]_vars
  PROVE  StreamSound'
BY RuntimeKeeps, SessionKeeps, RouteKeeps, WorldKeeps, StutterSound DEF Next, Terminated

(* The inductive invariant: in every reachable state texts are gathered    *)
(* before they are shown, one strategy has spoken, what is stored as the   *)
(* answer is what was gathered, and the route closed the stream at most    *)
(* once (stream_turn, stream_chat and stream_body together).               *)
THEOREM StreamsAreSound == Spec => []StreamSound
<1>1. Init => StreamSound
  BY InitSound
<1>2. StreamSound /\ [Next]_vars => StreamSound'
  BY NextSound
<1> QED BY <1>1, <1>2, PTL DEF Spec

(* A client that reads response.completed has its answer stored, and the   *)
(* runtime's last record is orchestration.completed (runtime.py:670).      *)
THEOREM CompletionsAreRecorded == Spec => []CompletedIsRecorded
<1>1. StreamSound => CompletedIsRecorded
  BY DEF StreamSound, ClosedOnce, RecordFits, CompletedIsRecorded
<1> QED BY <1>1, StreamsAreSound, PTL

-----------------------------------------------------------------------------
(* The refinement of StreamContract.                                       *)

LEMMA PhaseIs ==
  ASSUME StreamSound
  PROVE  /\ Phase \in {"open", "left", "refused", "answered"}
         /\ Serving => Phase = "open"
         /\ ended = << >> /\ ~Serving => Phase = "left"
         /\ ended = <<"error">> => Phase = "refused"
         /\ ended = <<"completed">> => Phase = "answered"
<1>1. ended \in {<< >>, <<"error">>, <<"completed">>} /\ (Serving => ended = << >>)
  BY DEF StreamSound, ClosedOnce
<1>2. ended = << >> => Phase = IF Serving THEN "open" ELSE "left"
  BY DEF StreamSound, TypeOK, Serving, Phase
<1>3. ended = <<"error">> => Phase = "refused"
  BY One, Ends DEF Phase
<1>4. ended = <<"completed">> => Phase = "answered"
  BY One, Ends DEF Phase
<1> QED BY <1>1, <1>2, <1>3, <1>4

LEMMA PhaseWillBe ==
  ASSUME StreamSound'
  PROVE  /\ Phase' \in {"open", "left", "refused", "answered"}
         /\ Serving' => Phase' = "open"
         /\ ended' = << >> /\ ~Serving' => Phase' = "left"
         /\ ended' = <<"error">> => Phase' = "refused"
         /\ ended' = <<"completed">> => Phase' = "answered"
<1>1. ended' \in {<< >>, <<"error">>, <<"completed">>} /\ (Serving' => ended' = << >>)
  BY DEF StreamSound, ClosedOnce
<1>2. ended' = << >> => Phase' = IF Serving' THEN "open" ELSE "left"
  BY DEF StreamSound, TypeOK, Serving, Phase
<1>3. ended' = <<"error">> => Phase' = "refused"
  BY One, Ends DEF Phase
<1>4. ended' = <<"completed">> => Phase' = "answered"
  BY One, Ends DEF Phase
<1> QED BY <1>1, <1>2, <1>3, <1>4

LEMMA InitKept ==
  ASSUME Init
  PROVE  Contract!Init
<1>1. Phase = "open"
  BY InitSound, PhaseIs DEF Init, Serving
<1> QED BY <1>1 DEF Init, Contract!Init

(* A step that shows, gathers, stores and closes nothing is a stutter.     *)
LEMMA QuietStep ==
  ASSUME UNCHANGED <<gathered, saved, answer, shown, ended, route>>
  PROVE  UNCHANGED Contract!vars
BY DEF Contract!vars, Phase

LEMMA RuntimeImplements ==
  ASSUME StreamSound, StreamSound', RuntimeStep
  PROVE  [Contract!Next]_Contract!vars
<1>1. CASE StrategySpeaks
  <2>1. CASE UNCHANGED gathered
    BY <1>1, <2>1, QuietStep DEF StrategySpeaks, routeVars
  <2>2. CASE ~UNCHANGED gathered
    <3> DEFINE d == [voice |-> "primary", n |-> Len(spoken) + 1]
    <3>1. /\ at = "asking" /\ gathered' = Append(gathered, d)
          /\ UNCHANGED <<saved, answer, shown, ended, route>>
      BY <1>1, <2>2 DEF StrategySpeaks, Working, routeVars
    <3>2. d \in Delta
      BY <1>1, StreamAssumption DEF StrategySpeaks, Delta, Voices, StreamSound, TypeOK
    <3>3. saved = "nothing" /\ \A i \in 1 .. Len(gathered) : gathered[i].voice = "primary"
      BY <3>1 DEF StreamSound, SavedFits, OneVoice, Unanswered, Points, TypeOK
    <3>4. ended = << >> /\ Phase \in {"open", "left"}
      BY <3>1, PhaseIs DEF StreamSound, ClosedOnce, TypeOK, Serving
    <3>5. Phase' = Phase
      BY <3>1 DEF Phase
    <3> QED BY <3>1, <3>2, <3>3, <3>4, <3>5 DEF Contract!Next, Contract!Say
  <2> QED BY <2>1, <2>2
<1>2. CASE Degrade
  <2> DEFINE d == [voice |-> "fallback", n |-> 1]
  <2>1. /\ at = "degrading" /\ gathered' = Append(gathered, d)
        /\ UNCHANGED <<saved, answer, shown, ended, route>>
    BY <1>2 DEF Degrade, Working, routeVars
  <2>2. d \in Delta
    BY StreamAssumption DEF Delta, Voices
  <2>3. saved = "nothing" /\ gathered = << >>
    BY <2>1 DEF StreamSound, SavedFits, OneVoice, Unanswered, Points
  <2>4. Phase \in {"open", "left"}
    BY <2>1, PhaseIs DEF StreamSound, ClosedOnce, TypeOK, Serving
  <2>5. Phase' = Phase
    BY <2>1 DEF Phase
  <2> QED BY <2>1, <2>2, <2>3, <2>4, <2>5 DEF Contract!Next, Contract!Say
<1>3. CASE RuntimeStep /\ ~StrategySpeaks /\ ~Degrade
  <2>1. UNCHANGED <<gathered, saved, answer, shown, ended, route>>
    BY <1>3 DEF RuntimeStep, AuthorizeFails, Authorize, SelectFails, Select, StrategyActs,
         StrategyFails, StrategyReportsError, StrategyEnds, Finish, Confirm, GiveUp, FallBack,
         FallbackPolicyFails, DegradeFails, RecordFails, sessionVars, routeVars
  <2> QED BY <2>1, QuietStep
<1> QED BY <1>1, <1>2, <1>3

LEMMA SessionImplements ==
  ASSUME StreamSound, StreamSound', SessionStep
  PROVE  [Contract!Next]_Contract!vars
<1>1. CASE SaveAnswer
  <2>1. at = "saving" /\ outbox = << >> /\ saved = "nothing"
    BY <1>1 DEF SaveAnswer, Working, StreamSound, SavedFits, Unanswered, Points
  <2>2. Serving /\ gathered = shown
    BY <2>1 DEF StreamSound, ClosedOnce, TypeOK, Serving, ShownInOrder, TextWaits
  <2>3. Phase = "open"
    BY <2>2, PhaseIs
  <2>4. /\ saved' = "answer" /\ answer' = gathered /\ Phase' = Phase
        /\ UNCHANGED <<gathered, shown>>
    BY <1>1 DEF SaveAnswer, routeVars, Phase
  <2> QED BY <2>1, <2>2, <2>3, <2>4 DEF Contract!Next, Contract!KeepAnswer
<1>2. CASE SaveFails
  <2>1. at = "saving" /\ outbox = << >> /\ at' = "over" /\ UNCHANGED <<gathered, saved, answer, shown>>
    BY <1>2 DEF SaveFails, Working, EndWithError, sessionVars
  <2>2. Serving /\ route # "done"
    BY <2>1 DEF StreamSound, ClosedOnce, TypeOK, Serving
  <2>3. Phase = "open"
    BY <2>2, PhaseIs
  <2>4. ended' = Append(ended, "error")
    BY <1>2, <2>2 DEF SaveFails, EndWithError, Serving
  <2>5. Phase' = "refused"
    BY <2>1, <2>2, <2>4, Ending, PhaseWillBe DEF StreamSound
  <2> QED BY <2>1, <2>3, <2>5 DEF Contract!Next, Contract!Refuse
<1>3. CASE at # "over" /\ (FailStream \/ CancelStream)
  <2>1. /\ UNCHANGED <<gathered, answer, shown>>
        /\ UNCHANGED saved \/ (saved = "nothing" /\ saved' = "question")
    BY <1>3 DEF FailStream, CancelStream, Checkpoint, EndWithError, routeVars
  <2>2. CASE UNCHANGED <<ended, route>>
    <3>1. Phase' = Phase
      BY <2>2 DEF Phase
    <3>2. saved # saved' => Phase \in {"left", "refused"}
      <4>1. ended # <<"completed">>
        BY <1>3 DEF StreamSound, ClosedOnce
      <4>2. ~Serving
        BY <1>3, <2>2 DEF FailStream, CancelStream, EndWithError, StreamSound, ClosedOnce, Serving, TypeOK
      <4> QED BY <4>1, <4>2, PhaseIs DEF StreamSound, ClosedOnce
    <3> QED BY <2>1, <3>1, <3>2 DEF Contract!Next, Contract!CloseOff, Contract!KeepQuestion, Contract!vars
  <2>3. CASE ~UNCHANGED <<ended, route>>
    <3>1. route # "done" /\ ended' = Append(ended, "error")
      BY <1>3, <2>3 DEF FailStream, CancelStream, EndWithError, routeVars, StreamSound, TypeOK
    <3>2. Phase \in {"open", "left"}
      BY <1>3, <3>1, Ending, PhaseIs DEF StreamSound
    <3>3. Phase' = "refused"
      BY <1>3, <3>1, Ending, PhaseWillBe DEF StreamSound
    <3> QED BY <2>1, <3>2, <3>3 DEF Contract!Next, Contract!Refuse, Contract!KeepQuestion
  <2> QED BY <2>2, <2>3
<1>4. FailStream \/ CancelStream => at # "over"
  BY DEF FailStream, CancelStream, Working
<1> QED BY <1>1, <1>2, <1>3, <1>4 DEF SessionStep

LEMMA DeliverImplements ==
  ASSUME StreamSound, StreamSound', Deliver
  PROVE  [Contract!Next]_Contract!vars
<1>1. /\ Serving /\ outbox \in Seq(StreamEvents) /\ outbox # << >>
      /\ gathered \in Seq(Delta) /\ shown \in Seq(Delta)
      /\ UNCHANGED <<gathered, saved, answer>>
  BY DEF Deliver, StreamSound, TypeOK
<1>2. Head(outbox) = outbox[1] /\ outbox[1] \in StreamEvents
  BY <1>1, HeadTail
<1>3. Phase = "open"
  BY <1>1, PhaseIs
<1>4. CASE outbox[1].type = "completed"
  <2>1. at = "announced" /\ saved = "answer" /\ shown' = shown
    BY <1>1, <1>2, <1>4 DEF Deliver, StreamSound, OutboxFits, SavedFits
  <2>2. ended' = <<"completed">>
    BY <1>1, <1>2, <1>4, <2>1, Ending DEF Deliver, StreamSound, Serving
  <2>3. Phase' = "answered"
    BY <2>2, PhaseWillBe
  <2> QED BY <1>1, <1>3, <2>1, <2>3 DEF Contract!Next, Contract!Complete
<1>5. CASE outbox[1].type # "completed"
  <2>1. route' = "serving"
    BY <1>2, <1>5 DEF Deliver
  <2>2. Phase' = "open"
    BY <2>1, PhaseWillBe DEF Serving
  <2>3. CASE outbox[1].type = "delta"
    <3> DEFINE d == outbox[1].delta
    <3>1. shown' = Append(shown, d) /\ d \in Delta
      BY <1>2, <2>3 DEF Deliver, StreamEvents
    <3>2. gathered = Append(shown, d)
      BY <1>1, <2>3 DEF StreamSound, ShownInOrder, TextWaits
    <3>3. Len(shown) < Len(gathered) /\ gathered[Len(shown) + 1] = d
      BY <1>1, <3>1, <3>2, AppendDelta
    <3> QED BY <1>1, <1>3, <2>2, <3>1, <3>3 DEF Contract!Next, Contract!Show
  <2>4. CASE outbox[1].type # "delta"
    <3>1. shown' = shown
      BY <1>2, <2>4 DEF Deliver
    <3> QED BY <1>1, <1>3, <2>2, <3>1 DEF Contract!vars
  <2> QED BY <2>3, <2>4
<1> QED BY <1>4, <1>5

LEMMA NoticeImplements ==
  ASSUME StreamSound, StreamSound', DeliverFails \/ NoticeStep
  PROVE  [Contract!Next]_Contract!vars
<1>1. CASE DeliverFails
  <2>1. Serving /\ at # "over" /\ route # "done" /\ UNCHANGED <<gathered, saved, answer, shown>>
    BY <1>1 DEF DeliverFails, StreamSound, ClosedOnce, Serving
  <2>2. ended' = <<"error">>
    BY <1>1, <2>1, Ending DEF DeliverFails, StreamSound
  <2>3. Phase = "open" /\ Phase' = "refused"
    BY <2>1, <2>2, PhaseIs, PhaseWillBe
  <2> QED BY <2>1, <2>3 DEF Contract!Next, Contract!Refuse
<1>2. CASE NoticeSaving
  <2>1. /\ at = "saving" /\ outbox = << >> /\ saved = "nothing"
        /\ UNCHANGED <<gathered, shown, ended>>
        /\ route' = "closing"
        /\ (saved' = "answer" /\ answer' = gathered) \/ UNCHANGED <<saved, answer>>
    BY <1>2 DEF NoticeSaving, Notice, StreamSound, SavedFits, Unanswered, Points
  <2>2. Serving /\ gathered = shown
    BY <2>1 DEF StreamSound, ClosedOnce, TypeOK, Serving, ShownInOrder, TextWaits
  <2>3. Phase = "open"
    BY <2>2, PhaseIs
  <2>4. Phase' = "left"
    BY <2>1, <2>2, PhaseWillBe DEF Serving, StreamSound, ClosedOnce
  <2> QED BY <2>1, <2>2, <2>3, <2>4 DEF Contract!Next, Contract!KeepAnswer, Contract!Leave
<1>3. CASE NoticeStep /\ ~NoticeSaving
  <2>1. /\ UNCHANGED <<gathered, answer, shown, ended>>
        /\ UNCHANGED saved \/ (saved = "nothing" /\ saved' = "question")
    BY <1>3 DEF NoticeStep, NoticeParked, NoticeWorking, NoticeAsking, NoticeDegrading,
         NoticeClosing, Checkpoint, sessionVars
  <2>2. route \in {"serving", "closing"} /\ route' \in {"closing", "done"}
    BY <1>3 DEF NoticeStep, NoticeParked, NoticeWorking, NoticeAsking, NoticeDegrading,
         NoticeClosing, Notice, CloseParked
  <2>3. at # "over"
    <3>1. outbox # << >> => at # "over"
      BY DEF StreamSound, OutboxFits
    <3> QED BY <1>3, <3>1 DEF NoticeStep, NoticeParked, NoticeWorking, NoticeAsking,
          NoticeDegrading, NoticeClosing
  <2>4. ended = << >>
    BY <2>2, <2>3 DEF StreamSound, ClosedOnce, Serving
  <2>5. Phase \in {"open", "left"} /\ Phase' = "left"
    BY <2>1, <2>2, <2>4, PhaseIs, PhaseWillBe DEF Serving
  <2> QED BY <2>1, <2>5
    DEF Contract!Next, Contract!Leave, Contract!CloseOff, Contract!KeepQuestion, Contract!vars
<1> QED BY <1>1, <1>2, <1>3

LEMMA StepImplements ==
  ASSUME StreamSound, StreamSound', [Next]_vars
  PROVE  [Contract!Next]_Contract!vars
<1>1. CASE Disconnect \/ TimePasses \/ Terminated \/ UNCHANGED vars
  <2>1. UNCHANGED <<gathered, saved, answer, shown, ended, route>>
    BY <1>1 DEF Disconnect, TimePasses, Terminated, vars, sessionVars, routeVars
  <2> QED BY <2>1, QuietStep
<1> QED BY <1>1, RuntimeImplements, SessionImplements, DeliverImplements, NoticeImplements
      DEF Next, RouteStep

(* The runtime, the session service and the route together implement the   *)
(* abstract stream: one voice, shown in order, stored before it is called  *)
(* complete and stored as shown, and silent after the closing event.       *)
THEOREM StreamsKeepContract == Spec => KeepsContract
<1>1. Init => Contract!Init
  BY InitKept
<1>2. StreamSound /\ StreamSound' /\ [Next]_vars => [Contract!Next]_Contract!vars
  BY StepImplements
<1> QED BY <1>1, <1>2, StreamsAreSound, PTL DEF Spec, KeepsContract, Contract!Spec
=============================================================================
