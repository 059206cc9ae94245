------------------------- MODULE SessionTurnsProofs -------------------------
(***************************************************************************)
(* Proofs about SessionTurns, for any number of turns, sessions, resets    *)
(* and crashes.  Type correctness, what versions identify, which saves     *)
(* lose messages, the audit and the events hold in every deployment; who   *)
(* overwrites an answer where rows stay; the rest in the Guarded one,      *)
(* which implements SessionLog.                                            *)
(***************************************************************************)
EXTENDS SessionTurnsProps, TLAPS

-----------------------------------------------------------------------------
(* Documents. *)

(* Drafting and closing a document gives a document.                       *)
LEMMA DocumentsClosed ==
  ASSUME NEW doc \in Document, NEW t \in Turns, NEW how \in {"cancelled", "failed"}
  PROVE  /\ PrepareForChat(doc, t) \in Document
         /\ Answered(PrepareForChat(doc, t), t) \in Document
         /\ Closed(PrepareForChat(doc, t), how) \in Document
<1>1. /\ UserMessage(t) \in Message
      /\ AssistantMessage(t) \in Message
  BY DEF UserMessage, AssistantMessage, Message
<1>2. PrepareForChat(doc, t) \in Document
  BY <1>1 DEF PrepareForChat, Document, Steps
<1>3. \A d \in Document : Answered(d, t) \in Document
  BY <1>1 DEF Answered, Document, Steps
<1>4. \A d \in Document : Closed(d, how) \in Document
  BY DEF Closed, Document, Steps
<1> QED
  BY <1>2, <1>3, <1>4

(* EmptyDocument is one, so every row ever written holds a document.       *)
LEMMA EmptyDocumentType == EmptyDocument \in Document
  BY DEF EmptyDocument, Document, Steps

(* An answered draft holds its own exchange.                               *)
LEMMA AnswerHolds ==
  ASSUME NEW doc \in Document, NEW t \in Turns
  PROVE  HoldsExchange(Answered(PrepareForChat(doc, t), t), t)
<1> DEFINE new == Answered(PrepareForChat(doc, t), t)
           n == Len(doc.messages)
<1>1. n \in Nat /\ doc.messages \in Seq(Message)
  BY DEF Document
<1>2. new.messages = Append(Append(doc.messages, UserMessage(t)), AssistantMessage(t))
  BY DEF Answered, PrepareForChat
<1>3. /\ Len(new.messages) = n + 2
      /\ new.messages[n + 1] = UserMessage(t)
      /\ new.messages[n + 2] = AssistantMessage(t)
  BY <1>1, <1>2
<1> HIDE DEF new
<1>4. Mentions(new, UserMessage(t))
  BY <1>1, <1>3 DEF Mentions
<1>5. Mentions(new, AssistantMessage(t))
  BY <1>1, <1>3 DEF Mentions
<1> QED
  BY <1>4, <1>5 DEF HoldsExchange, new

(* What a job writes is longer than what its turn loaded, repeats it, and  *)
(* adds messages of the turn only.                                         *)
LEMMA WritesExtend ==
  ASSUME NEW doc \in Document, NEW t \in Turns, NEW how,
         NEW new \in {Answered(PrepareForChat(doc, t), t), Closed(PrepareForChat(doc, t), how)}
  PROVE  /\ Len(new.messages) > Len(doc.messages)
         /\ \A i \in 1 .. Len(doc.messages) : new.messages[i] = doc.messages[i]
         /\ \A i \in Len(doc.messages) + 1 .. Len(new.messages) : new.messages[i].turn = t
<1>1. doc.messages \in Seq(Message)
  BY DEF Document
<1>2. CASE new = Answered(PrepareForChat(doc, t), t)
  <2>1. new.messages = Append(Append(doc.messages, UserMessage(t)), AssistantMessage(t))
    BY <1>2 DEF Answered, PrepareForChat
  <2> QED
    BY <1>1, <2>1 DEF UserMessage, AssistantMessage
<1>3. CASE new = Closed(PrepareForChat(doc, t), how)
  <2>1. new.messages = Append(doc.messages, UserMessage(t))
    BY <1>3 DEF Closed, PrepareForChat
  <2> QED
    BY <1>1, <2>1 DEF UserMessage
<1> QED
  BY <1>2, <1>3

(* So every exchange already in the document stays in it.                  *)
LEMMA WritesKeepExchanges ==
  ASSUME NEW doc \in Document, NEW t \in Turns, NEW how, NEW u \in Turns,
         NEW new \in {Answered(PrepareForChat(doc, t), t), Closed(PrepareForChat(doc, t), how)},
         HoldsExchange(doc, u)
  PROVE  HoldsExchange(new, u)
<1>1. /\ Len(new.messages) > Len(doc.messages)
      /\ \A i \in 1 .. Len(doc.messages) : new.messages[i] = doc.messages[i]
  BY WritesExtend
<1>2. Len(doc.messages) \in Nat /\ Len(new.messages) \in Nat
  <2>1. doc.messages \in Seq(Message)
    BY DEF Document
  <2>2. new.messages \in {Append(Append(doc.messages, UserMessage(t)), AssistantMessage(t)),
                          Append(doc.messages, UserMessage(t))}
    BY DEF Answered, Closed, PrepareForChat
  <2> QED
    BY <2>1, <2>2
<1>3. \A m : Mentions(doc, m) => Mentions(new, m)
  BY <1>1, <1>2 DEF Mentions
<1> QED
  BY <1>3 DEF HoldsExchange

-----------------------------------------------------------------------------
(* Type correctness.  First the transactions of the store. *)

(* Writing a document keeps the tables well typed.                         *)
LEMMA SaveTypes ==
  ASSUME StoreTypeOK, NEW s \in Sessions, NEW doc \in Document, CommitSave(s, doc)
  PROVE  StoreTypeOK'
<1>1. resetCount[s] \in Nat /\ current[s] \in Row /\ current[s].version + 1 \in Nat
  BY DEF StoreTypeOK, Row
<1>2. current' \in [Sessions -> Row]
  <2>1. [version |-> current[s].version + 1, doc |-> doc, generation |-> resetCount[s]] \in Row
    BY <1>1 DEF Row
  <2> QED
    BY <2>1 DEF StoreTypeOK, CommitSave, WriteRow
<1>3. epoch' \in [Sessions -> Nat]
  BY DEF StoreTypeOK, CommitSave, WriteRow
<1>4. registered' \in SUBSET Sessions
  BY DEF StoreTypeOK, CommitSave
<1>5. resetCount' = resetCount /\ resets' = resets
  BY DEF CommitSave
<1> QED
  BY <1>2, <1>3, <1>4, <1>5 DEF StoreTypeOK

(* So does a reset, in either mode.                                        *)
LEMMA ResetTypes ==
  ASSUME StoreTypeOK, NEW s \in Sessions, CommitReset(s)
  PROVE  StoreTypeOK'
<1> DEFINE entry == [generation |-> resetCount[s] + 1, cleared |-> current[s].version]
<1>1. /\ resetCount[s] \in Nat /\ resetCount[s] + 1 \in Nat
      /\ current[s] \in Row /\ current[s].version + 1 \in Nat
      /\ entry \in [generation : Nat, cleared : Nat]
  BY DEF StoreTypeOK, Row
<1>2. AbsentRow \in Row
  BY EmptyDocumentType DEF AbsentRow, Row, NoVersion
<1>3. [version |-> current[s].version + 1, doc |-> EmptyDocument,
       generation |-> resetCount[s] + 1] \in Row
  BY <1>1, EmptyDocumentType DEF Row
<1>4. current' \in [Sessions -> Row] /\ epoch' \in [Sessions -> Nat]
  <2>1. CASE ResetMode = "delete_state_row"
    BY <1>2, <2>1 DEF StoreTypeOK, CommitReset
  <2>2. CASE ResetMode # "delete_state_row"
    <3>1. WriteRow(s, EmptyDocument, resetCount[s] + 1)
      BY <2>2 DEF CommitReset
    <3>2. current' \in [Sessions -> Row]
      BY <1>3, <3>1 DEF StoreTypeOK, WriteRow
    <3>3. epoch' \in [Sessions -> Nat]
      BY <3>1 DEF StoreTypeOK, WriteRow
    <3> QED
      BY <3>2, <3>3
  <2> QED
    BY <2>1, <2>2
<1>5. resetCount' \in [Sessions -> Nat] /\ registered' \in SUBSET Sessions
  BY <1>1 DEF StoreTypeOK, CommitReset
<1>6. resets' \in [Sessions -> Seq([generation : Nat, cleared : Nat])]
  <2> HIDE DEF entry
  <2>1. Append(resets[s], entry) \in Seq([generation : Nat, cleared : Nat])
    BY <1>1 DEF StoreTypeOK
  <2>2. resets' = [resets EXCEPT ![s] = Append(resets[s], entry)]
    BY DEF CommitReset, entry
  <2> QED
    BY <2>1, <2>2 DEF StoreTypeOK
<1> QED
  BY <1>4, <1>5, <1>6 DEF StoreTypeOK

(* And a deletion.                                                         *)
LEMMA DeleteTypes ==
  ASSUME StoreTypeOK, NEW s \in Sessions, CommitDelete(s)
  PROVE  StoreTypeOK'
<1>1. AbsentRow \in Row
  BY EmptyDocumentType DEF AbsentRow, Row, NoVersion
<1>2. << >> \in Seq([generation : Nat, cleared : Nat])
  OBVIOUS
<1> QED
  BY <1>1, <1>2 DEF StoreTypeOK, CommitDelete

(* What a turn loads is a record of the right shape.                       *)
LEMMA LoadedType ==
  ASSUME StoreTypeOK, NEW s \in Sessions
  PROVE  Loaded(s) \in LoadedRecord
BY DEF StoreTypeOK, Loaded, LoadedRecord, Row

(* What a job writes is a document.                                        *)
LEMMA JobDocumentType ==
  ASSUME TypeOK, NEW t \in Turns, NEW j \in JobNames
  PROVE  JobDocument(t, j) \in Document
<1>1. base[t].doc \in Document /\ closingAs[t] \in {"cancelled", "failed"}
  BY DEF TypeOK, LoadedRecord
<1> QED
  BY <1>1, DocumentsClosed DEF JobDocument, Draft

(* A step that leaves the tables alone leaves them well typed.             *)
LEMMA StoreUntouched ==
  ASSUME StoreTypeOK, UNCHANGED storeVars
  PROVE  StoreTypeOK'
BY DEF StoreTypeOK, storeVars

(* The initial state is well typed.                                        *)
LEMMA InitTypes == Init => TypeOK
<1> SUFFICES ASSUME Init PROVE TypeOK
  OBVIOUS
<1> USE StoreAssumption
<1>1. EmptyDocument \in Document
  BY EmptyDocumentType
<1>2. current \in [Sessions -> Row]
  <2>1. AbsentRow \in Row
    BY <1>1 DEF AbsentRow, Row, NoVersion
  <2>2. [version |-> 1, doc |-> EmptyDocument, generation |-> 1] \in Row
    BY <1>1 DEF Row
  <2> QED
    BY <2>1, <2>2 DEF Init, StoreInit
<1>3. resets \in [Sessions -> Seq([generation : Nat, cleared : Nat])]
  <2>1. [generation |-> 1, cleared |-> NoVersion] \in [generation : Nat, cleared : Nat]
    BY DEF NoVersion
  <2>2. <<[generation |-> 1, cleared |-> NoVersion]>>
          \in Seq([generation : Nat, cleared : Nat])
    BY <2>1
  <2>3. << >> \in Seq([generation : Nat, cleared : Nat])
    OBVIOUS
  <2> HIDE DEF NoVersion
  <2> QED
    BY <2>2, <2>3 DEF Init, StoreInit
<1>4. /\ registered \in SUBSET Sessions
      /\ resetCount \in [Sessions -> Nat]
      /\ epoch \in [Sessions -> Nat]
  BY DEF Init, StoreInit
<1>5. StoreTypeOK
  BY <1>2, <1>3, <1>4 DEF StoreTypeOK
<1>6. base \in [Turns -> LoadedRecord]
  <2>1. NoRecord \in LoadedRecord
    BY <1>1 DEF NoRecord, LoadedRecord, NoVersion
  <2> QED
    BY <2>1 DEF Init
<1>7. saveJob \in [Turns -> [JobNames -> JobStatus]]
  BY DEF Init, JobStatus
<1>8. /\ pc \in [Turns -> Locations] /\ outcome \in [Turns -> Outcomes]
      /\ event \in [Turns -> Events] /\ closingAs \in [Turns -> {"cancelled", "failed"}]
      /\ call \in [Turns -> Calls] /\ interrupted \in SUBSET Turns
  BY DEF Init, Locations, Outcomes, Events
<1>9. /\ resetPc \in [ResetRequests -> ResetLocations]
      /\ resetOf \in [ResetRequests -> Sessions]
      /\ artifacts \in [Sessions -> SUBSET Turns] /\ deletes \in Nat /\ crashes \in Nat
  BY DEF Init, ResetLocations
<1> QED
  BY <1>5, <1>6, <1>7, <1>8, <1>9 DEF TypeOK

(* A stream's last record leaves it done, with a known reply and event.    *)
LEMMA EndRecordedTypes ==
  ASSUME TypeOK, NEW t \in Turns, NEW how \in Outcomes, EndRecorded(t, how)
  PROVE  /\ pc' \in [Turns -> Locations]
         /\ outcome' \in [Turns -> Outcomes]
         /\ event' \in [Turns -> Events]
<1>1. /\ LifecycleEvent(how) \in Events /\ "failed" \in Outcomes /\ "done" \in Locations
      /\ pc \in [Turns -> Locations] /\ outcome \in [Turns -> Outcomes]
      /\ event \in [Turns -> Events]
  BY DEF LifecycleEvent, Events, Outcomes, Locations, TypeOK
<1>2. /\ pc' = [pc EXCEPT ![t] = "done"]
      /\ \E reply \in Outcomes : outcome' = [outcome EXCEPT ![t] = reply]
      /\ event' = event \/ event' = [event EXCEPT ![t] = LifecycleEvent(how)]
  BY <1>1 DEF EndRecorded, Finish
<1> QED
  BY <1>1, <1>2

(* Closing a stream sets its location, step, reply and event to known ones. *)
LEMMA CloseStreamTypes ==
  ASSUME TypeOK, NEW t \in Turns, NEW how \in {"cancelled", "failed"}, CloseStream(t, how)
  PROVE  /\ pc' \in [Turns -> Locations]
         /\ closingAs' \in [Turns -> {"cancelled", "failed"}]
         /\ outcome' \in [Turns -> Outcomes]
         /\ event' \in [Turns -> Events]
<1>1. CASE how \in SavePolicy
  <2>1. /\ pc' = [pc EXCEPT ![t] = "closing"]
        /\ closingAs' = [closingAs EXCEPT ![t] = how]
        /\ UNCHANGED <<outcome, event>>
    BY <1>1 DEF CloseStream
  <2>2. "closing" \in Locations
    BY DEF Locations
  <2> QED
    BY <2>1, <2>2 DEF TypeOK
<1>2. CASE how \notin SavePolicy
  <2>1. how \in Outcomes
    BY DEF Outcomes
  <2>2. EndRecorded(t, how) /\ closingAs' = closingAs
    BY <1>2 DEF CloseStream
  <2> QED
    BY <2>1, <2>2, EndRecordedTypes DEF TypeOK
<1> QED
  BY <1>1, <1>2

(* Closing a stream leaves each of its jobs with a known status.           *)
LEMMA CloseJobsTypes ==
  ASSUME TypeOK, NEW t \in Turns, NEW how, CloseJobs(t, how)
  PROVE  saveJob' \in [Turns -> [JobNames -> JobStatus]]
<1> DEFINE row == [j \in JobNames |->
                     IF j = "final" THEN Abandoned(saveJob[t][j])
                     ELSE IF how \in SavePolicy THEN "queued" ELSE saveJob[t][j]]
<1>1. \A j \in JobNames : saveJob[t][j] \in JobStatus
  BY DEF TypeOK
<1>2. "queued" \in JobStatus /\ "dropped" \in JobStatus
  BY DEF JobStatus
<1>3. row \in [JobNames -> JobStatus]
  BY <1>1, <1>2 DEF Abandoned
<1>4. saveJob' = [saveJob EXCEPT ![t] = row]
  BY DEF CloseJobs
<1> QED
  BY <1>3, <1>4 DEF TypeOK

(* A turn's own steps keep every variable well typed.                      *)
LEMMA TurnStepTypes ==
  ASSUME TypeOK, NEW t \in Turns, TurnStep(t)
  PROVE  TypeOK'
<1>1. CASE Start(t)
  <2>1. StoreTypeOK'
    BY <1>1, StoreUntouched DEF Start, TypeOK
  <2> QED
    BY <1>1, <2>1 DEF TypeOK, Start, Goto, Locations, resetVars
<1>2. CASE LoadFails(t)
  <2>1. StoreTypeOK'
    BY <1>2, StoreUntouched DEF LoadFails, TypeOK
  <2> QED
    BY <1>2, <2>1 DEF TypeOK, LoadFails, Finish, Locations, Outcomes, resetVars
<1>3. CASE RuntimeReturns(t)
  <2>1. StoreTypeOK'
    BY <1>3, StoreUntouched DEF RuntimeReturns, TypeOK
  <2> QED
    BY <1>3, <2>1 DEF TypeOK, RuntimeReturns, Goto, Locations, JobStatus, JobNames, resetVars
<1>4. CASE SaveReturns(t)
  <2>1. StoreTypeOK'
    BY <1>4, StoreUntouched DEF SaveReturns, TypeOK
  <2>2. /\ \E to \in Locations : pc' = [pc EXCEPT ![t] = to]
        /\ \E how \in Outcomes : outcome' = [outcome EXCEPT ![t] = how]
    <3>1. outcome[t] \in Outcomes /\ "completing" \in Locations /\ "done" \in Locations
      BY DEF TypeOK, Outcomes, Locations
    <3>2. /\ "completed" \in Outcomes /\ "conflict" \in Outcomes
          /\ "unavailable" \in Outcomes
      BY DEF Outcomes
    <3>3. CASE saveJob[t]["final"] = "committed"
      BY <1>4, <3>1, <3>2, <3>3 DEF SaveReturns
    <3>4. CASE saveJob[t]["final"] # "committed"
      BY <1>4, <3>1, <3>2, <3>4 DEF SaveReturns, Finish
    <3> QED
      BY <3>3, <3>4
  <2>3. pc' \in [Turns -> Locations] /\ outcome' \in [Turns -> Outcomes]
    BY <2>2 DEF TypeOK
  <2> QED
    BY <1>4, <2>1, <2>3 DEF TypeOK, SaveReturns, resetVars
<1>5. CASE ClosingReturns(t)
  <2>1. StoreTypeOK'
    BY <1>5, StoreUntouched DEF ClosingReturns, TypeOK
  <2>2. CASE saveJob[t]["closing"] = "committed"
    <3>1. closingAs[t] \in Outcomes /\ EndRecorded(t, closingAs[t])
      BY <1>5, <2>2 DEF TypeOK, Outcomes, ClosingReturns
    <3> QED
      BY <1>5, <2>1, <3>1, EndRecordedTypes DEF TypeOK, ClosingReturns, resetVars
  <2>3. CASE saveJob[t]["closing"] # "committed"
    <3>1. /\ pc' = [pc EXCEPT ![t] = "done"]
          /\ \E how \in {"conflict", "unavailable"} : outcome' = [outcome EXCEPT ![t] = how]
          /\ event' = event
      BY <1>5, <2>3 DEF ClosingReturns, Finish
    <3>2. pc' \in [Turns -> Locations] /\ outcome' \in [Turns -> Outcomes]
      BY <3>1 DEF TypeOK, Locations, Outcomes
    <3> QED
      BY <1>5, <2>1, <3>1, <3>2 DEF TypeOK, ClosingReturns, resetVars
  <2> QED
    BY <2>2, <2>3
<1>6. CASE FinishChat(t)
  <2>1. StoreTypeOK'
    BY <1>6, StoreUntouched DEF FinishChat, TypeOK
  <2>2. event' \in [Turns -> Events]
    BY <1>6 DEF TypeOK, FinishChat, ChatEvent, Events
  <2>3. outcome' \in [Turns -> Outcomes]
    BY <1>6 DEF TypeOK, FinishChat, Finish, Outcomes
  <2>4. pc' \in [Turns -> Locations]
    BY <1>6 DEF TypeOK, FinishChat, Finish, Locations
  <2> QED
    BY <1>6, <2>1, <2>2, <2>3, <2>4 DEF TypeOK, FinishChat, resetVars
<1>7. CASE DrainStream(t)
  <2>1. StoreTypeOK'
    BY <1>7, StoreUntouched DEF DrainStream, TypeOK
  <2> QED
    BY <1>7, <2>1 DEF TypeOK, DrainStream, Goto, Locations, Events, resetVars
<1>8. CASE CloseCompletedStream(t)
  <2>1. StoreTypeOK'
    BY <1>8, StoreUntouched DEF CloseCompletedStream, TypeOK
  <2> QED
    BY <1>8, <2>1 DEF TypeOK, CloseCompletedStream, Goto, Locations, resetVars
<1>9. CASE LoadState(t)
  <2>1. StoreTypeOK'
    BY <1>9, StoreUntouched DEF LoadState, TypeOK
  <2>2. Loaded(SessionOf(t)) \in LoadedRecord
    BY LoadedType DEF TypeOK, SessionOf, Calls
  <2> QED
    BY <1>9, <2>1, <2>2 DEF TypeOK, LoadState, Goto, Locations, Events, resetVars
<1>10. CASE RuntimeFails(t)
  <2>1. StoreTypeOK'
    BY <1>10, StoreUntouched DEF RuntimeFails, TypeOK
  <2>2. saveJob' \in [Turns -> [JobNames -> JobStatus]]
    BY <1>10, CloseJobsTypes DEF TypeOK, RuntimeFails
  <2>3. CASE IsStream(t)
    BY <1>10, <2>1, <2>2, <2>3, CloseStreamTypes DEF TypeOK, RuntimeFails, resetVars
  <2>4. CASE ~IsStream(t)
    BY <1>10, <2>1, <2>2, <2>4 DEF TypeOK, RuntimeFails, Finish, Locations, Outcomes, resetVars
  <2> QED
    BY <2>3, <2>4
<1>11. CASE StartUnrecorded(t)
  <2>1. StoreTypeOK'
    BY <1>11, StoreUntouched DEF StartUnrecorded, TypeOK
  <2>2. CloseStream(t, "failed") /\ CloseJobs(t, "failed")
    BY <1>11 DEF StartUnrecorded
  <2>3. /\ saveJob' \in [Turns -> [JobNames -> JobStatus]]
        /\ pc' \in [Turns -> Locations]
        /\ closingAs' \in [Turns -> {"cancelled", "failed"}]
        /\ outcome' \in [Turns -> Outcomes]
        /\ event' \in [Turns -> Events]
    BY <2>2, CloseJobsTypes, CloseStreamTypes
  <2>4. base' \in [Turns -> LoadedRecord]
    <3>1. Loaded(SessionOf(t)) \in LoadedRecord
      BY LoadedType DEF TypeOK, SessionOf, Calls
    <3> QED
      BY <1>11, <3>1 DEF TypeOK, StartUnrecorded
  <2> QED
    BY <1>11, <2>1, <2>3, <2>4 DEF TypeOK, StartUnrecorded, resetVars
<1> QED
  BY <1>1, <1>2, <1>3, <1>4, <1>5, <1>6, <1>7, <1>8, <1>9, <1>10, <1>11 DEF TurnStep

(* So do cancellations of a turn.                                          *)
LEMMA CancellationTypes ==
  ASSUME TypeOK, NEW t \in Turns,
         InterruptStream(t) \/ InterruptLoading(t) \/ InterruptClosing(t) \/ CancelChat(t)
  PROVE  TypeOK'
<1>1. StoreTypeOK'
  BY StoreUntouched DEF TypeOK, InterruptStream, InterruptLoading, InterruptClosing, CancelChat
<1>2. CASE InterruptStream(t)
  <2>1. saveJob' \in [Turns -> [JobNames -> JobStatus]]
    BY <1>2, CloseJobsTypes DEF InterruptStream
  <2>2. CloseStream(t, "cancelled")
    BY <1>2 DEF InterruptStream
  <2> QED
    BY <1>1, <1>2, <2>1, <2>2, CloseStreamTypes DEF TypeOK, InterruptStream, resetVars
<1>3. CASE InterruptLoading(t)
  <2>1. "cancelled" \in Outcomes /\ EndRecorded(t, "cancelled")
    BY <1>3 DEF InterruptLoading, Outcomes
  <2> QED
    BY <1>1, <1>3, <2>1, EndRecordedTypes DEF TypeOK, InterruptLoading, resetVars
<1>4. CASE InterruptClosing(t)
  <2>1. saveJob' \in [Turns -> [JobNames -> JobStatus]]
    BY <1>4 DEF TypeOK, InterruptClosing, Abandoned, JobStatus, JobNames
  <2> QED
    BY <1>1, <1>4, <2>1 DEF TypeOK, InterruptClosing, Finish, Locations, Outcomes, resetVars
<1>5. CASE CancelChat(t)
  <2>1. saveJob' \in [Turns -> [JobNames -> JobStatus]]
    BY <1>5 DEF TypeOK, CancelChat, Abandoned, JobStatus, JobNames
  <2>2. event' \in [Turns -> Events]
    <3>1. event' \in {event, ChatEvent(t)}
      BY <1>5 DEF CancelChat
    <3> QED
      BY <3>1 DEF TypeOK, ChatEvent, Events
  <2> QED
    BY <1>1, <1>5, <2>1, <2>2 DEF TypeOK, CancelChat, Finish, Locations, Outcomes, resetVars
<1> QED
  BY <1>2, <1>3, <1>4, <1>5

(* And the worker threads.                                                 *)
LEMMA JobStepTypes ==
  ASSUME TypeOK, NEW t \in Turns, NEW j \in JobNames, JobStep(t, j)
  PROVE  TypeOK'
<1>1. saveJob' \in [Turns -> [JobNames -> JobStatus]]
  <2>1. \E status \in JobStatus : saveJob' = [saveJob EXCEPT ![t][j] = status]
    BY DEF JobStep, ThreadTakes, ThreadCommits, ThreadConflicts, ThreadFails, JobStatus
  <2> QED
    BY <2>1 DEF TypeOK
<1>2. CASE ThreadCommits(t, j)
  <2>1. JobDocument(t, j) \in Document /\ SessionOf(t) \in Sessions
    BY JobDocumentType DEF TypeOK, SessionOf, Calls
  <2>2. StoreTypeOK'
    BY <1>2, <2>1, SaveTypes DEF TypeOK, ThreadCommits
  <2> QED
    BY <1>1, <1>2, <2>2 DEF TypeOK, ThreadCommits, resetVars
<1>3. CASE ThreadTakes(t, j) \/ ThreadConflicts(t, j) \/ ThreadFails(t, j)
  <2>1. StoreTypeOK'
    BY <1>3, StoreUntouched DEF TypeOK, ThreadTakes, ThreadConflicts, ThreadFails
  <2> QED
    BY <1>1, <1>3, <2>1 DEF TypeOK, ThreadTakes, ThreadConflicts, ThreadFails, resetVars
<1> QED
  BY <1>2, <1>3 DEF JobStep

(* And the steps of a reset.                                               *)
LEMMA ResetStepTypes ==
  ASSUME TypeOK, NEW r \in ResetRequests, ResetStep(r) \/ CancelReset(r)
  PROVE  TypeOK'
<1>1. resetPc' \in [ResetRequests -> ResetLocations]
  <2>1. \E to \in ResetLocations : resetPc' = [resetPc EXCEPT ![r] = to]
    BY DEF ResetStep, StartReset, AllowReset, RefuseReset, ResetCommits, ResetFails,
           ClearArtifacts, ClearFails, CancelReset, GotoReset, ResetLocations
  <2> QED
    BY <2>1 DEF TypeOK
<1>2. CASE ResetCommits(r)
  <2>1. StoreTypeOK'
    BY <1>2, ResetTypes DEF TypeOK, ResetCommits
  <2> QED
    BY <1>1, <1>2, <2>1 DEF TypeOK, ResetCommits, turnVars
<1>3. CASE ClearArtifacts(r)
  <2>1. StoreTypeOK'
    BY <1>3, StoreUntouched DEF TypeOK, ClearArtifacts
  <2> QED
    BY <1>1, <1>3, <2>1 DEF TypeOK, ClearArtifacts, turnVars
<1>4. CASE \/ StartReset(r) \/ AllowReset(r) \/ RefuseReset(r) \/ ResetFails(r)
           \/ ClearFails(r) \/ CancelReset(r)
  <2>1. StoreTypeOK'
    BY <1>4, StoreUntouched DEF TypeOK, StartReset, AllowReset, RefuseReset, ResetFails,
                                ClearFails, CancelReset
  <2> QED
    BY <1>1, <1>4, <2>1 DEF TypeOK, StartReset, AllowReset, RefuseReset, ResetFails,
                            ClearFails, CancelReset, turnVars
<1> QED
  BY <1>2, <1>3, <1>4 DEF ResetStep

(* And what the environment does besides.                                  *)
LEMMA EnvironmentTypes ==
  ASSUME TypeOK, \/ Crash
                 \/ \E s \in Sessions : DeleteSession(s) \/ ExpireArtifacts(s)
                 \/ \E t \in Turns : SaveArtifact(t)
  PROVE  TypeOK'
<1>1. CASE Crash
  <2>1. StoreTypeOK'
    BY <1>1, StoreUntouched DEF TypeOK, Crash
  <2>2. pc' \in [Turns -> Locations] /\ resetPc' \in [ResetRequests -> ResetLocations]
    BY <1>1 DEF TypeOK, Crash, Locations, ResetLocations
  <2>3. saveJob' \in [Turns -> [JobNames -> JobStatus]]
    BY <1>1 DEF TypeOK, Crash, JobStatus
  <2>4. artifacts' \in [Sessions -> SUBSET Turns]
    BY <1>1 DEF TypeOK, Crash
  <2> QED
    BY <1>1, <2>1, <2>2, <2>3, <2>4 DEF TypeOK, Crash
<1>2. ASSUME NEW s \in Sessions, DeleteSession(s) PROVE TypeOK'
  <2>1. StoreTypeOK'
    BY <1>2, DeleteTypes DEF TypeOK, DeleteSession
  <2> QED
    BY <1>2, <2>1 DEF TypeOK, DeleteSession, turnVars, resetVars
<1>3. ASSUME NEW s \in Sessions, ExpireArtifacts(s) PROVE TypeOK'
  <2>1. StoreTypeOK'
    BY <1>3, StoreUntouched DEF TypeOK, ExpireArtifacts
  <2>2. artifacts' \in [Sessions -> SUBSET Turns]
    BY <1>3 DEF TypeOK, ExpireArtifacts
  <2> QED
    BY <1>3, <2>1, <2>2 DEF TypeOK, ExpireArtifacts, turnVars, resetVars
<1>4. ASSUME NEW t \in Turns, SaveArtifact(t) PROVE TypeOK'
  <2>1. StoreTypeOK'
    BY <1>4, StoreUntouched DEF TypeOK, SaveArtifact
  <2>2. artifacts' \in [Sessions -> SUBSET Turns]
    BY <1>4 DEF TypeOK, SaveArtifact
  <2> QED
    BY <1>4, <2>1, <2>2 DEF TypeOK, SaveArtifact, turnVars, resetVars
<1> QED
  BY <1>1, <1>2, <1>3, <1>4

(* Every step keeps every variable well typed.                             *)
LEMMA NextTypes == TypeOK /\ [Next]_vars => TypeOK'
<1> SUFFICES ASSUME TypeOK, [Next]_vars PROVE TypeOK'
  OBVIOUS
<1>1. CASE UNCHANGED vars
  <2>1. StoreTypeOK'
    BY <1>1, StoreUntouched DEF TypeOK, vars
  <2> QED
    BY <1>1, <2>1 DEF TypeOK, vars, turnVars, resetVars
<1>2. CASE Next
  BY <1>1, <1>2, TurnStepTypes, CancellationTypes, JobStepTypes, ResetStepTypes,
     EnvironmentTypes DEF Next, Environment, Cancellation, Terminated
<1> QED
  BY <1>1, <1>2

(* Type correctness, in every deployment: whatever interleaving of turns,  *)
(* worker threads, resets, deletions and crashes, each table and each      *)
(* coroutine keeps a state the code knows.                                 *)
THEOREM TypeCorrect == Spec => []TypeOK
<1>1. Init => TypeOK
  BY InitTypes
<1>2. TypeOK /\ [Next]_vars => TypeOK'
  BY NextTypes
<1> QED
  BY <1>1, <1>2, PTL DEF Spec

-----------------------------------------------------------------------------
(* The deployments that keep their rows.  Most steps are quiet: they touch *)
(* neither the tables nor what a turn loaded, and commit nothing.          *)

Quiet ==
  /\ UNCHANGED <<storeVars, call, base>>
  /\ \A t \in Turns, j \in JobNames : Committed(t, j)' <=> Committed(t, j)

StoreInvariants ==
  /\ RowsAreStamped
  /\ BasesAreBehind
  /\ SavedBasesArePassed
  /\ BasedTurnsSaveOnce
  /\ AnswersAreKept

TurnInvariants == WorkersAreBased /\ CompletionsAreSaved

(* A quiet step keeps what relates the tables to the turns.                *)
LEMMA QuietKeepsStore ==
  ASSUME StoreInvariants, Quiet
  PROVE  StoreInvariants'
<1>1. /\ current' = current /\ resetCount' = resetCount /\ call' = call /\ base' = base
      /\ \A t \in Turns : /\ Committed(t, "final")' <=> Committed(t, "final")
                          /\ Committed(t, "closing")' <=> Committed(t, "closing")
  BY DEF Quiet, storeVars, JobNames
<1>2. RowsAreStamped'
  BY <1>1 DEF StoreInvariants, RowsAreStamped, HasRow
<1>3. BasesAreBehind'
  BY <1>1 DEF StoreInvariants, BasesAreBehind, Based, NotCleared, SessionOf
<1>4. SavedBasesArePassed'
  BY <1>1 DEF StoreInvariants, SavedBasesArePassed, SessionOf, JobNames
<1>5. BasedTurnsSaveOnce'
  BY <1>1 DEF StoreInvariants, BasedTurnsSaveOnce, Based
<1>6. AnswersAreKept'
  BY <1>1 DEF StoreInvariants, AnswersAreKept, Overwrites, SavedBlindly, Missing, NotCleared,
              SessionOf, JobNames
<1> QED
  BY <1>2, <1>3, <1>4, <1>5, <1>6 DEF StoreInvariants

(* What WorkersAreBased and CompletionsAreSaved say of one turn.           *)
SoundTurn(t) ==
  /\ pc[t] \in {"idle", "loading", "running"} =>
       saveJob[t]["final"] = "none" /\ saveJob[t]["closing"] = "none"
  /\ pc[t] \in {"saving", "completing"} => saveJob[t]["closing"] = "none"
  /\ Guarded /\ pc[t] \in {"running", "saving", "closing", "completing"} => Based(t)
  /\ Guarded /\ (saveJob[t]["final"] # "none" \/ saveJob[t]["closing"] # "none") => Based(t)
  /\ pc[t] = "completing" \/ outcome[t] = "completed" =>
       Committed(t, "final") /\ saveJob[t]["closing"] = "none"
  /\ outcome[t] = "completed" =>
       \/ pc[t] \in {"done", "crashed"}
       \/ pc[t] = "completing" /\ IsStream(t)

OthersAlone(t) ==
  \A u \in Turns \ {t} :
    pc'[u] = pc[u] /\ saveJob'[u] = saveJob[u] /\ outcome'[u] = outcome[u]

(* The two invariants hold exactly when every turn is sound.               *)
LEMMA TurnsAreSound == TurnInvariants <=> \A t \in Turns : SoundTurn(t)
  BY DEF TurnInvariants, WorkersAreBased, CompletionsAreSaved, SoundTurn, JobNames

(* The same of the next state.                                             *)
LEMMA TurnsAreSoundNext == TurnInvariants' <=> \A t \in Turns : SoundTurn(t)'
  BY DEF TurnInvariants, WorkersAreBased, CompletionsAreSaved, SoundTurn, JobNames,
         Based, Committed

(* A quiet step of one turn that keeps it sound keeps every turn sound.    *)
LEMMA OneTurnMoves ==
  ASSUME TurnInvariants, NEW t \in Turns, OthersAlone(t), SoundTurn(t)',
         UNCHANGED <<storeVars, call, base>>,
         Committed(t, "final")' <=> Committed(t, "final"),
         Committed(t, "closing")' <=> Committed(t, "closing")
  PROVE  Quiet /\ TurnInvariants'
<1>1. \A u \in Turns \ {t} : SoundTurn(u)'
  BY TurnsAreSound DEF OthersAlone, SoundTurn, Based, Committed, IsStream
<1>2. TurnInvariants'
  BY <1>1, TurnsAreSoundNext
<1>3. Quiet
  BY DEF Quiet, OthersAlone, Committed, JobNames
<1> QED
  BY <1>2, <1>3

Loads(t) == LoadState(t) \/ StartUnrecorded(t)

(* A stream's last record tells its caller anything but a completion.      *)
LEMMA EndsIncomplete ==
  ASSUME NEW t \in Turns, NEW how \in {"cancelled", "failed"}, EndRecorded(t, how)
  PROVE  /\ pc' = [pc EXCEPT ![t] = "done"]
         /\ \E reply \in {"cancelled", "failed"} : outcome' = [outcome EXCEPT ![t] = reply]
  BY DEF EndRecorded, Finish

(* So does a closing stream, unless it first saves.                        *)
LEMMA ClosesIncomplete ==
  ASSUME NEW t \in Turns, NEW how \in {"cancelled", "failed"}, CloseStream(t, how)
  PROVE  /\ \E to \in {"done", "closing"} : pc' = [pc EXCEPT ![t] = to]
         /\ \/ outcome' = outcome
            \/ \E reply \in {"cancelled", "failed"} : outcome' = [outcome EXCEPT ![t] = reply]
  BY EndsIncomplete DEF CloseStream

(* Except for loading, a turn's own steps are quiet.                       *)
LEMMA TurnStepsAreQuiet ==
  ASSUME TypeOK, TurnInvariants, NEW t \in Turns, TurnStep(t), ~Loads(t)
  PROVE  Quiet /\ TurnInvariants'
<1>1. SoundTurn(t)
  BY TurnsAreSound
<1>2. /\ pc \in [Turns -> Locations]
      /\ outcome \in [Turns -> Outcomes]
      /\ saveJob \in [Turns -> [JobNames -> JobStatus]]
  BY DEF TypeOK
<1>3. CASE Start(t) \/ CloseCompletedStream(t) \/ DrainStream(t)
  <2>1. /\ UNCHANGED <<storeVars, call, base, saveJob, outcome>>
        /\ \/ pc[t] = "idle" /\ pc' = [pc EXCEPT ![t] = "loading"]
           \/ pc[t] = "completing" /\ pc' = [pc EXCEPT ![t] = "done"]
    BY <1>3 DEF Start, CloseCompletedStream, DrainStream, Goto
  <2>2. OthersAlone(t)
    BY <1>2, <2>1 DEF OthersAlone
  <2>3. SoundTurn(t)'
    BY <1>1, <1>2, <2>1 DEF SoundTurn, Based, Committed, IsStream
  <2> QED
    BY <2>1, <2>2, <2>3, OneTurnMoves DEF Committed
<1>4. CASE LoadFails(t) \/ FinishChat(t)
  <2>1. /\ UNCHANGED <<storeVars, call, base, saveJob>>
        /\ pc' = [pc EXCEPT ![t] = "done"]
        /\ \/ pc[t] = "loading" /\ outcome' = [outcome EXCEPT ![t] = "unavailable"]
           \/ /\ pc[t] = "completing"
              /\ \E how \in {"completed", "failed"} : outcome' = [outcome EXCEPT ![t] = how]
    BY <1>4 DEF LoadFails, FinishChat, Finish
  <2>2. OthersAlone(t)
    BY <1>2, <2>1 DEF OthersAlone
  <2>3. SoundTurn(t)'
    BY <1>1, <1>2, <2>1 DEF SoundTurn, Based, Committed, IsStream
  <2> QED
    BY <2>1, <2>2, <2>3, OneTurnMoves DEF Committed
<1>5. CASE RuntimeReturns(t)
  <2>1. /\ UNCHANGED <<storeVars, call, base, outcome>>
        /\ pc[t] = "running" /\ pc' = [pc EXCEPT ![t] = "saving"]
        /\ saveJob' = [saveJob EXCEPT ![t]["final"] = "queued"]
    BY <1>5 DEF RuntimeReturns, Goto
  <2>2. OthersAlone(t)
    BY <1>2, <2>1 DEF OthersAlone
  <2>3. SoundTurn(t)'
    BY <1>1, <1>2, <2>1 DEF SoundTurn, Based, Committed, IsStream
  <2>4. /\ Committed(t, "final")' <=> Committed(t, "final")
        /\ Committed(t, "closing")' <=> Committed(t, "closing")
    BY <1>1, <1>2, <2>1 DEF SoundTurn, Committed, JobNames
  <2> QED
    BY <2>1, <2>2, <2>3, <2>4, OneTurnMoves
<1>6. CASE RuntimeFails(t)
  <2>1. /\ UNCHANGED <<storeVars, call, base>>
        /\ pc[t] = "running"
        /\ \E to \in {"done", "closing"} : pc' = [pc EXCEPT ![t] = to]
        /\ \/ outcome' = outcome
           \/ \E reply \in {"cancelled", "failed"} : outcome' = [outcome EXCEPT ![t] = reply]
    <3>1. CASE IsStream(t)
      BY <1>6, <3>1, ClosesIncomplete DEF RuntimeFails
    <3>2. CASE ~IsStream(t)
      BY <1>6, <3>2 DEF RuntimeFails, Finish
    <3> QED
      BY <3>1, <3>2
  <2>2. saveJob' = saveJob \/ CloseJobs(t, "failed")
    BY <1>6 DEF RuntimeFails
  <2>3. OthersAlone(t)
    BY <1>2, <2>1, <2>2 DEF OthersAlone, CloseJobs
  <2>4. /\ saveJob'[t]["final"] = "none"
        /\ saveJob'[t]["closing"] \in {"none", "queued"}
    BY <1>1, <1>2, <2>1, <2>2 DEF SoundTurn, CloseJobs, Abandoned, JobNames
  <2>5. SoundTurn(t)'
    BY <1>1, <1>2, <2>1, <2>4 DEF SoundTurn, Based, Committed, IsStream
  <2>6. /\ Committed(t, "final")' <=> Committed(t, "final")
        /\ Committed(t, "closing")' <=> Committed(t, "closing")
    BY <1>1, <2>1, <2>4 DEF SoundTurn, Committed
  <2> QED
    BY <2>1, <2>3, <2>5, <2>6, OneTurnMoves
<1>7. CASE SaveReturns(t)
  <2>1. /\ UNCHANGED <<storeVars, call, base, saveJob>>
        /\ pc[t] = "saving"
        /\ \/ /\ saveJob[t]["final"] = "committed"
              /\ pc' = [pc EXCEPT ![t] = "completing"]
              /\ \/ IsStream(t) /\ outcome' = [outcome EXCEPT ![t] = "completed"]
                 \/ outcome' = [outcome EXCEPT ![t] = @]
           \/ /\ pc' = [pc EXCEPT ![t] = "done"]
              /\ \E how \in {"conflict", "unavailable"} : outcome' = [outcome EXCEPT ![t] = how]
    BY <1>7 DEF SaveReturns, Finish
  <2>2. OthersAlone(t)
    BY <1>2, <2>1 DEF OthersAlone
  <2>3. SoundTurn(t)'
    BY <1>1, <1>2, <2>1 DEF SoundTurn, Based, Committed, IsStream
  <2> QED
    BY <2>1, <2>2, <2>3, OneTurnMoves DEF Committed
<1>8. CASE ClosingReturns(t)
  <2>1. /\ UNCHANGED <<storeVars, call, base, saveJob>>
        /\ pc' = [pc EXCEPT ![t] = "done"]
        /\ \E how \in {"cancelled", "failed", "conflict", "unavailable"} :
             outcome' = [outcome EXCEPT ![t] = how]
    <3>1. CASE saveJob[t]["closing"] = "committed"
      <4>1. closingAs[t] \in {"cancelled", "failed"} /\ EndRecorded(t, closingAs[t])
        BY <1>8, <3>1 DEF ClosingReturns, TypeOK
      <4> QED
        BY <1>8, <4>1, EndsIncomplete DEF ClosingReturns
    <3>2. CASE saveJob[t]["closing"] # "committed"
      BY <1>8, <3>2 DEF ClosingReturns, Finish
    <3> QED
      BY <3>1, <3>2
  <2>2. OthersAlone(t)
    BY <1>2, <2>1 DEF OthersAlone
  <2>3. SoundTurn(t)'
    BY <1>1, <1>2, <2>1 DEF SoundTurn, Based, Committed, IsStream
  <2> QED
    BY <2>1, <2>2, <2>3, OneTurnMoves DEF Committed
<1> QED
  BY <1>3, <1>4, <1>5, <1>6, <1>7, <1>8 DEF TurnStep, Loads

(* Cancelling a turn is quiet, wherever it stands: a job that has not      *)
(* committed is dropped or left to its thread.                             *)
LEMMA CancellationsAreQuiet ==
  ASSUME TypeOK, TurnInvariants, NEW t \in Turns,
         InterruptStream(t) \/ InterruptLoading(t) \/ InterruptClosing(t) \/ CancelChat(t)
  PROVE  Quiet /\ TurnInvariants'
<1>1. SoundTurn(t)
  BY TurnsAreSound
<1>2. /\ pc \in [Turns -> Locations]
      /\ outcome \in [Turns -> Outcomes]
      /\ saveJob \in [Turns -> [JobNames -> JobStatus]]
  BY DEF TypeOK
<1>3. CASE InterruptStream(t)
  <2>1. /\ UNCHANGED <<storeVars, call, base>>
        /\ pc[t] \in {"running", "saving"}
        /\ \E to \in {"done", "closing"} : pc' = [pc EXCEPT ![t] = to]
        /\ \/ outcome' = outcome
           \/ \E reply \in {"cancelled", "failed"} : outcome' = [outcome EXCEPT ![t] = reply]
    BY <1>3, ClosesIncomplete DEF InterruptStream
  <2>2. CloseJobs(t, "cancelled")
    BY <1>3 DEF InterruptStream
  <2>3. OthersAlone(t)
    BY <1>2, <2>1, <2>2 DEF OthersAlone, CloseJobs
  <2>4. /\ saveJob'[t]["final"] = Abandoned(saveJob[t]["final"])
        /\ saveJob'[t]["closing"] \in {"none", "queued"}
        /\ saveJob[t]["closing"] = "none"
    BY <1>1, <1>2, <2>1, <2>2 DEF SoundTurn, CloseJobs, JobNames
  <2>5. SoundTurn(t)'
    BY <1>1, <1>2, <2>1, <2>4 DEF SoundTurn, Based, Committed, IsStream, Abandoned
  <2>6. /\ Committed(t, "final")' <=> Committed(t, "final")
        /\ Committed(t, "closing")' <=> Committed(t, "closing")
    BY <2>4 DEF Committed, Abandoned
  <2> QED
    BY <2>1, <2>3, <2>5, <2>6, OneTurnMoves
<1>4. CASE InterruptLoading(t)
  <2>1. /\ UNCHANGED <<storeVars, call, base, saveJob>>
        /\ pc' = [pc EXCEPT ![t] = "done"]
        /\ \E reply \in {"cancelled", "failed"} : outcome' = [outcome EXCEPT ![t] = reply]
    BY <1>4, EndsIncomplete DEF InterruptLoading
  <2>2. OthersAlone(t)
    BY <1>2, <2>1 DEF OthersAlone
  <2>3. SoundTurn(t)'
    BY <1>1, <1>2, <2>1 DEF SoundTurn, Based, Committed, IsStream
  <2> QED
    BY <2>1, <2>2, <2>3, OneTurnMoves DEF Committed
<1>5. ASSUME NEW j \in JobNames, saveJob' = [saveJob EXCEPT ![t][j] = Abandoned(@)],
             UNCHANGED <<storeVars, call, base>>,
             pc[t] # "idle", pc' = [pc EXCEPT ![t] = "done"],
             outcome' = [outcome EXCEPT ![t] = "cancelled"]
      PROVE  Quiet /\ TurnInvariants'
  <2>1. OthersAlone(t)
    BY <1>2, <1>5 DEF OthersAlone
  <2>2. /\ saveJob'[t]["final"] \in {saveJob[t]["final"], Abandoned(saveJob[t]["final"])}
        /\ saveJob'[t]["closing"] \in {saveJob[t]["closing"], Abandoned(saveJob[t]["closing"])}
    BY <1>2, <1>5 DEF JobNames
  <2>3. SoundTurn(t)'
    BY <1>1, <1>2, <1>5, <2>2 DEF SoundTurn, Based, Committed, IsStream, Abandoned
  <2>4. /\ Committed(t, "final")' <=> Committed(t, "final")
        /\ Committed(t, "closing")' <=> Committed(t, "closing")
    BY <2>2 DEF Committed, Abandoned
  <2> QED
    BY <1>5, <2>1, <2>3, <2>4, OneTurnMoves
<1>6. CASE InterruptClosing(t)
  BY <1>5, <1>6 DEF InterruptClosing, Finish, JobNames
<1>7. CASE CancelChat(t)
  BY <1>5, <1>7 DEF CancelChat, Finish, JobNames
<1> QED
  BY <1>3, <1>4, <1>6, <1>7

(* A thread that takes a job, or ends it without a commit, is quiet.       *)
LEMMA FruitlessJobsAreQuiet ==
  ASSUME TypeOK, TurnInvariants, NEW t \in Turns, NEW j \in JobNames,
         ThreadTakes(t, j) \/ ThreadConflicts(t, j) \/ ThreadFails(t, j)
  PROVE  Quiet /\ TurnInvariants'
<1>1. SoundTurn(t)
  BY TurnsAreSound
<1>2. saveJob \in [Turns -> [JobNames -> JobStatus]]
  BY DEF TypeOK
<1>3. /\ UNCHANGED <<storeVars, call, base, pc, outcome>>
      /\ saveJob[t][j] \in {"queued", "running"}
      /\ \E status \in {"running", "conflict", "error"} :
           saveJob' = [saveJob EXCEPT ![t][j] = status]
  BY DEF ThreadTakes, ThreadConflicts, ThreadFails
<1>4. OthersAlone(t)
  BY <1>2, <1>3 DEF OthersAlone
<1>5. /\ saveJob'[t]["final"] = saveJob[t]["final"] \/
           (saveJob[t]["final"] \in {"queued", "running"} /\
            saveJob'[t]["final"] \in {"running", "conflict", "error"})
      /\ saveJob'[t]["closing"] = saveJob[t]["closing"] \/
           (saveJob[t]["closing"] \in {"queued", "running"} /\
            saveJob'[t]["closing"] \in {"running", "conflict", "error"})
  BY <1>2, <1>3 DEF JobNames
<1>6. SoundTurn(t)'
  BY <1>1, <1>3, <1>5 DEF SoundTurn, Based, Committed, IsStream
<1>7. /\ Committed(t, "final")' <=> Committed(t, "final")
      /\ Committed(t, "closing")' <=> Committed(t, "closing")
  BY <1>5 DEF Committed
<1> QED
  BY <1>3, <1>4, <1>6, <1>7, OneTurnMoves

(* A crash is quiet: the tables stay, and no job it drops had committed.   *)
LEMMA CrashIsQuiet ==
  ASSUME TypeOK, TurnInvariants, Crash
  PROVE  Quiet /\ TurnInvariants'
<1>1. /\ UNCHANGED <<storeVars, call, base, outcome>>
      /\ \A t \in Turns : pc'[t] = pc[t] \/ (pc'[t] = "crashed" /\ InFlight(t))
      /\ \A t \in Turns : pc'[t] \notin {"loading", "running", "saving", "closing", "completing"}
      /\ \A t \in Turns, j \in JobNames :
           \/ saveJob'[t][j] = saveJob[t][j]
           \/ saveJob[t][j] \in {"queued", "running"} /\ saveJob'[t][j] = "dropped"
  BY DEF Crash, InFlight, TypeOK, Locations
<1>2. Quiet
  BY <1>1 DEF Quiet, Committed
<1>3. \A t \in Turns : SoundTurn(t)'
  <2> TAKE t \in Turns
  <2>1. SoundTurn(t)
    BY TurnsAreSound
  <2>2. "final" \in JobNames /\ "closing" \in JobNames
    BY DEF JobNames
  <2> QED
    BY <1>1, <2>1, <2>2 DEF SoundTurn, Based, Committed, IsStream, InFlight
<1> QED
  BY <1>2, <1>3, TurnsAreSoundNext

(* A step of another actor that moves no turn is quiet.                    *)
LEMMA BystandersAreQuiet ==
  ASSUME TurnInvariants, UNCHANGED <<storeVars, turnVars>>
  PROVE  Quiet /\ TurnInvariants'
<1>1. /\ UNCHANGED <<storeVars, pc, call, base, saveJob, outcome>>
  BY DEF turnVars
<1> QED
  BY <1>1, TurnsAreSound, TurnsAreSoundNext DEF Quiet, SoundTurn, Based, Committed, IsStream

(* A turn that loads has no jobs yet but the one it closes with, and has   *)
(* not completed.                                                          *)
LEMMA LoadingFacts ==
  ASSUME TypeOK, TurnInvariants, NEW t \in Turns, Loads(t)
  PROVE  /\ UNCHANGED <<storeVars, call>>
         /\ base' = [base EXCEPT ![t] = Loaded(SessionOf(t))]
         /\ saveJob[t]["final"] = "none" /\ saveJob[t]["closing"] = "none"
         /\ saveJob'[t]["final"] = "none" /\ saveJob'[t]["closing"] \in {"none", "queued"}
         /\ pc'[t] \in {"running", "closing", "done"}
         /\ pc'[t] = "running" => saveJob'[t]["closing"] = "none"
         /\ outcome[t] # "completed" /\ outcome'[t] # "completed"
         /\ OthersAlone(t)
<1>1. /\ pc \in [Turns -> Locations]
      /\ outcome \in [Turns -> Outcomes]
      /\ saveJob \in [Turns -> [JobNames -> JobStatus]]
  BY DEF TypeOK
<1>2. pc[t] = "loading"
  BY DEF Loads, LoadState, StartUnrecorded, Goto
<1>3. saveJob[t]["final"] = "none" /\ saveJob[t]["closing"] = "none" /\ outcome[t] # "completed"
  BY <1>2, TurnsAreSound DEF SoundTurn
<1>4. CASE LoadState(t)
  BY <1>1, <1>2, <1>3, <1>4 DEF LoadState, Goto, OthersAlone
<1>5. CASE StartUnrecorded(t)
  <2>1. CloseStream(t, "failed") /\ CloseJobs(t, "failed")
    BY <1>5 DEF StartUnrecorded
  <2>2. /\ \E to \in {"done", "closing"} : pc' = [pc EXCEPT ![t] = to]
        /\ \/ outcome' = outcome
           \/ \E reply \in {"cancelled", "failed"} : outcome' = [outcome EXCEPT ![t] = reply]
    BY <2>1, ClosesIncomplete
  <2>3. /\ saveJob'[t]["final"] = "none"
        /\ saveJob'[t]["closing"] \in {"none", "queued"}
    BY <1>1, <1>3, <2>1 DEF CloseJobs, Abandoned, JobNames
  <2>4. OthersAlone(t)
    BY <1>1, <2>1, <2>2 DEF OthersAlone, CloseJobs
  <2>5. pc'[t] \in {"done", "closing"} /\ outcome'[t] # "completed"
    BY <1>1, <1>3, <2>2
  <2>6. /\ UNCHANGED <<storeVars, call>>
        /\ base' = [base EXCEPT ![t] = Loaded(SessionOf(t))]
    BY <1>5 DEF StartUnrecorded
  <2> QED
    BY <1>3, <2>3, <2>4, <2>5, <2>6
<1> QED
  BY <1>4, <1>5 DEF Loads

(* Loading gives a turn the version, the document and the generation that  *)
(* are stored now.                                                         *)
LEMMA LoadingKeepsInvariants ==
  ASSUME TypeOK, StoreInvariants, TurnInvariants, NEW t \in Turns, Loads(t)
  PROVE  StoreInvariants' /\ TurnInvariants'
<1> DEFINE s == SessionOf(t)
<1>1. /\ UNCHANGED <<current, resetCount, call>>
      /\ base' = [base EXCEPT ![t] = Loaded(s)]
  BY LoadingFacts DEF storeVars
<1>2. s \in Sessions
  BY DEF TypeOK, SessionOf, Calls
<1>3. /\ base'[t].version = current[s].version
      /\ base'[t].doc = current[s].doc
      /\ base'[t].generation = resetCount[s]
      /\ Guarded => current[s].version # NoVersion
      /\ current[s].version \in Nat /\ resetCount[s] \in Nat
  <2>1. base'[t] = Loaded(s)
    BY <1>1 DEF TypeOK
  <2>2. /\ Guarded => HasRow(s)
        /\ HasRow(s) => current[s].generation = resetCount[s]
    BY <1>2 DEF StoreInvariants, RowsAreStamped
  <2>3. current[s] \in Row /\ resetCount[s] \in Nat
    BY <1>2 DEF TypeOK, StoreTypeOK
  <2> QED
    BY <2>1, <2>2, <2>3 DEF Loaded, HasRow, Row
<1>4. \A u \in Turns \ {t} : /\ base'[u] = base[u] /\ pc'[u] = pc[u]
                              /\ saveJob'[u] = saveJob[u] /\ outcome'[u] = outcome[u]
  BY <1>1, LoadingFacts DEF TypeOK, OthersAlone
<1>5. /\ saveJob'[t]["final"] = "none" /\ saveJob'[t]["closing"] \in {"none", "queued"}
      /\ pc'[t] \in {"running", "closing", "done"}
      /\ pc'[t] = "running" => saveJob'[t]["closing"] = "none"
      /\ outcome'[t] # "completed"
  BY LoadingFacts
<1>6. \A u \in Turns : SoundTurn(u)'
  <2>1. SoundTurn(t)'
    BY <1>3, <1>5 DEF SoundTurn, Based
  <2>2. \A u \in Turns \ {t} : SoundTurn(u)'
    BY <1>1, <1>4, TurnsAreSound DEF SoundTurn, Based, Committed, IsStream
  <2> QED
    BY <2>1, <2>2
<1>7. RowsAreStamped'
  BY <1>1 DEF StoreInvariants, RowsAreStamped, HasRow
<1>8. BasesAreBehind'
  <2> SUFFICES ASSUME NEW u \in Turns
               PROVE  /\ base'[u].generation <= resetCount[SessionOf(u)]
                      /\ base'[u].version # NoVersion =>
                           /\ base'[u].version <= current[SessionOf(u)].version
                           /\ base'[u].version = current[SessionOf(u)].version
                                => /\ base'[u].doc = current[SessionOf(u)].doc
                                   /\ base'[u].generation = resetCount[SessionOf(u)]
    BY <1>1 DEF BasesAreBehind, Based, NotCleared, SessionOf
  <2>1. CASE u = t
    BY <1>3, <2>1
  <2>2. CASE u # t
    BY <1>4, <2>2 DEF StoreInvariants, BasesAreBehind, Based, NotCleared
  <2> QED
    BY <2>1, <2>2
<1>9. SavedBasesArePassed' /\ BasedTurnsSaveOnce' /\ AnswersAreKept'
  <2>1. \A j \in JobNames : ~Committed(t, j)' /\ ~Committed(t, j)
    BY <1>5, LoadingFacts DEF Committed, JobNames
  <2>2. "final" \in JobNames /\ "closing" \in JobNames
    BY DEF JobNames
  <2>3. SavedBasesArePassed'
    BY <1>1, <1>4, <2>1 DEF StoreInvariants, SavedBasesArePassed, Committed, SessionOf
  <2>4. BasedTurnsSaveOnce'
    BY <1>4, <2>1, <2>2 DEF StoreInvariants, BasedTurnsSaveOnce, Committed, Based
  <2>5. AnswersAreKept'
    <3> SUFFICES ASSUME NEW u \in Turns, Committed(u, "final")', Missing(u)'
                 PROVE  \E v \in Turns : Overwrites(v, u)'
      BY DEF AnswersAreKept
    <3>1. u # t /\ base'[u] = base[u] /\ saveJob'[u] = saveJob[u]
      BY <1>4, <2>1, <2>2
    <3>2. Committed(u, "final") /\ Missing(u)
      BY <1>1, <3>1 DEF Committed, Missing, NotCleared, SessionOf
    <3>3. PICK v \in Turns : Overwrites(v, u)
      BY <3>2 DEF StoreInvariants, AnswersAreKept
    <3>4. v # t
      BY <2>1, <3>3 DEF Overwrites, SavedBlindly
    <3>5. base'[v] = base[v] /\ saveJob'[v] = saveJob[v]
      BY <1>4, <3>4
    <3> QED
      BY <1>1, <3>1, <3>3, <3>5 DEF Overwrites, SavedBlindly, Committed, SessionOf
  <2> QED
    BY <2>3, <2>4, <2>5
<1> QED
  BY <1>6, <1>7, <1>8, <1>9, TurnsAreSoundNext DEF StoreInvariants

(* Once committed, a save stays so, and its turn keeps what it loaded.     *)
LEMMA OverwritesLast ==
  ASSUME NEW u \in Turns, NEW t \in Turns, Overwrites(u, t), UNCHANGED <<call, base>>,
         \A v \in Turns : \A k \in JobNames : Committed(v, k) => Committed(v, k)'
  PROVE  Overwrites(u, t)'
BY DEF Overwrites, SavedBlindly, SessionOf, JobNames

(* A commit that expects a version is made over exactly the document its   *)
(* turn drafted from; only a turn that found no row writes blindly.        *)
LEMMA CommitsKeepInvariants ==
  ASSUME TypeOK, StoreInvariants, TurnInvariants,
         NEW t \in Turns, NEW j \in JobNames, ThreadCommits(t, j)
  PROVE  StoreInvariants' /\ TurnInvariants'
<1> DEFINE s   == SessionOf(t)
           new == JobDocument(t, j)
<1>1. /\ UNCHANGED <<resetCount, call, base, pc, outcome>>
      /\ saveJob[t][j] = "running"
      /\ saveJob' = [saveJob EXCEPT ![t][j] = "committed"]
  BY DEF ThreadCommits, CommitSave
<1>2. s \in Sessions /\ base[t].doc \in Document
      /\ saveJob \in [Turns -> [JobNames -> JobStatus]]
  BY DEF TypeOK, SessionOf, Calls, LoadedRecord
<1>3. Based(t) => base[t].version = current[s].version
  BY DEF ThreadCommits, SaveConflicts, Based
<1>4. Based(t) => base[t].doc = current[s].doc
  BY <1>3 DEF StoreInvariants, BasesAreBehind
<1>5. current \in [Sessions -> Row] /\ current[s] \in Row /\ current[s].version \in Nat
      /\ resetCount \in [Sessions -> Nat]
  BY <1>2 DEF TypeOK, StoreTypeOK, Row
<1>6. /\ current'[s].version = current[s].version + 1
      /\ current'[s].doc = new
      /\ current'[s].generation = resetCount[s]
      /\ \A x \in Sessions \ {s} : current'[x] = current[x]
  <2>1. current' = [current EXCEPT ![s] =
          [version |-> current[s].version + 1, doc |-> new, generation |-> resetCount[s]]]
    BY DEF ThreadCommits, CommitSave, WriteRow
  <2> HIDE DEF s, new
  <2> QED
    BY <1>2, <1>5, <2>1
<1>7. new \in {Answered(PrepareForChat(base[t].doc, t), t),
               Closed(PrepareForChat(base[t].doc, t), closingAs[t])}
  BY DEF JobDocument, Draft
<1>8. \A u \in Turns : \A k \in JobNames :
        Committed(u, k)' <=> Committed(u, k) \/ (u = t /\ k = j)
  BY <1>1, <1>2 DEF Committed
<1> HIDE DEF new
<1>9. Based(t) => \A k \in JobNames : ~Committed(t, k)
  BY <1>3 DEF StoreInvariants, SavedBasesArePassed, TypeOK, LoadedRecord
<1>10. RowsAreStamped'
  <2>1. \A x \in Sessions :
          /\ Guarded => current'[x].version # NoVersion
          /\ current'[x].version # NoVersion => current'[x].generation = resetCount[x]
    BY <1>5, <1>6 DEF StoreInvariants, RowsAreStamped, HasRow, NoVersion
  <2> QED
    BY <1>1, <2>1 DEF RowsAreStamped, HasRow
<1>11. BasesAreBehind'
  <2> SUFFICES ASSUME NEW u \in Turns
               PROVE  /\ base[u].generation <= resetCount[SessionOf(u)]
                      /\ Based(u) =>
                           /\ base[u].version <= current'[SessionOf(u)].version
                           /\ base[u].version = current'[SessionOf(u)].version
                                => /\ base[u].doc = current'[SessionOf(u)].doc
                                   /\ base[u].generation = resetCount[SessionOf(u)]
    BY <1>1 DEF BasesAreBehind, NotCleared, SessionOf, Based
  <2>1. /\ base[u].version \in Nat /\ SessionOf(u) \in Sessions
        /\ base[u].generation <= resetCount[SessionOf(u)]
        /\ Based(u) =>
             /\ base[u].version <= current[SessionOf(u)].version
             /\ base[u].version = current[SessionOf(u)].version
                  => /\ base[u].doc = current[SessionOf(u)].doc
                     /\ base[u].generation = resetCount[SessionOf(u)]
    BY DEF StoreInvariants, BasesAreBehind, NotCleared, TypeOK, LoadedRecord, SessionOf, Calls
  <2>2. CASE SessionOf(u) = s
    BY <1>5, <1>6, <2>1, <2>2
  <2>3. CASE SessionOf(u) # s
    BY <1>6, <2>1, <2>3
  <2> QED
    BY <2>2, <2>3
<1>12. SavedBasesArePassed'
  <2> SUFFICES ASSUME NEW u \in Turns, NEW k \in JobNames, Committed(u, k)'
               PROVE  base[u].version < current'[SessionOf(u)].version
    BY <1>1 DEF SavedBasesArePassed, SessionOf
  <2>1. base[u].version \in Nat /\ SessionOf(u) \in Sessions
    BY DEF TypeOK, LoadedRecord, SessionOf, Calls
  <2>2. CASE u = t
    BY <1>3, <1>5, <1>6, <2>1, <2>2 DEF Based, NoVersion
  <2>3. CASE u # t
    <3>1. base[u].version < current[SessionOf(u)].version
      BY <1>8, <2>3 DEF StoreInvariants, SavedBasesArePassed
    <3> QED
      BY <1>5, <1>6, <2>1, <3>1
  <2> QED
    BY <2>2, <2>3
<1>13. BasedTurnsSaveOnce'
  <2>1. \A u \in Turns : Based(u) => ~(Committed(u, "final")' /\ Committed(u, "closing")')
    BY <1>8, <1>9 DEF StoreInvariants, BasedTurnsSaveOnce, JobNames
  <2> QED
    BY <1>1, <2>1 DEF BasedTurnsSaveOnce, Based
<1>14. AnswersAreKept'
  <2> SUFFICES ASSUME NEW u \in Turns, Committed(u, "final")', Missing(u)'
               PROVE  \E v \in Turns : Overwrites(v, u)'
    BY DEF AnswersAreKept
  <2>1. /\ SessionOf(u) \in Sessions /\ SessionOf(u)' = SessionOf(u)
        /\ "final" \in JobNames /\ "closing" \in JobNames
        /\ NotCleared(u) /\ ~HoldsExchange(current'[SessionOf(u)].doc, u)
    BY <1>1 DEF TypeOK, SessionOf, Calls, JobNames, Missing, NotCleared
  <2>2. u # t \/ j = "closing"
    <3> SUFFICES ASSUME u = t, j = "final" PROVE FALSE
      BY DEF JobNames
    <3>1. new = Answered(PrepareForChat(base[t].doc, t), t)
      BY DEF new, JobDocument, Draft
    <3> QED
      BY <1>2, <1>6, <2>1, <3>1, AnswerHolds
  <2>3. Committed(u, "final")
    BY <1>8, <2>1, <2>2
  <2>4. CASE Missing(u)
    BY <1>1, <1>8, <2>3, <2>4, OverwritesLast DEF StoreInvariants, AnswersAreKept
  <2>5. CASE ~Missing(u)
    <3>1. HoldsExchange(current[SessionOf(u)].doc, u)
      BY <2>1, <2>5 DEF Missing
    <3>2. SessionOf(u) = s
      BY <1>6, <2>1, <3>1
    <3>3. ~Based(t)
      BY <1>2, <1>4, <1>6, <1>7, <2>1, <3>1, <3>2, WritesKeepExchanges
    <3>4. Committed(t, j)' /\ base'[t].version = NoVersion
      BY <1>1, <1>8, <3>3 DEF Based
    <3>5. Overwrites(t, u)'
      BY <1>1, <2>2, <3>2, <3>4 DEF Overwrites, SavedBlindly, SessionOf
    <3> QED
      BY <3>5
  <2> QED
    BY <2>4, <2>5
<1>15. \A u \in Turns : SoundTurn(u)'
  <2> TAKE u \in Turns
  <2>1. SoundTurn(u)
    BY TurnsAreSound
  <2>2. /\ pc'[u] = pc[u] /\ outcome'[u] = outcome[u] /\ base'[u] = base[u]
        /\ \A k \in JobNames : saveJob'[u][k] = saveJob[u][k] \/
             (u = t /\ saveJob[u][k] = "running" /\ saveJob'[u][k] = "committed")
    BY <1>1, <1>2
  <2> QED
    BY <1>1, <2>1, <2>2 DEF SoundTurn, Based, Committed, IsStream, JobNames
<1> QED
  BY <1>10, <1>11, <1>12, <1>13, <1>14, <1>15, TurnsAreSoundNext DEF StoreInvariants

(* A reset moves the session to a version and a generation nobody expects. *)
LEMMA ResetsKeepInvariants ==
  ASSUME RowsStay, TypeOK, StoreInvariants, TurnInvariants,
         NEW r \in ResetRequests, ResetCommits(r)
  PROVE  StoreInvariants' /\ TurnInvariants'
<1> DEFINE s == resetOf[r]
<1>1. /\ UNCHANGED <<call, base, pc, outcome, saveJob>>
      /\ resetCount' = [resetCount EXCEPT ![s] = resetCount[s] + 1]
      /\ WriteRow(s, EmptyDocument, resetCount[s] + 1)
  BY DEF ResetCommits, CommitReset, turnVars, RowsStay
<1>2. /\ s \in Sessions /\ current \in [Sessions -> Row] /\ current[s].version \in Nat
      /\ resetCount \in [Sessions -> Nat] /\ resetCount[s] \in Nat
  BY DEF TypeOK, StoreTypeOK, Row
<1>3. /\ current'[s].version = current[s].version + 1
      /\ current'[s].generation = resetCount[s] + 1
      /\ resetCount'[s] = resetCount[s] + 1
      /\ \A x \in Sessions \ {s} : current'[x] = current[x] /\ resetCount'[x] = resetCount[x]
  <2>1. current' = [current EXCEPT ![s] =
          [version |-> current[s].version + 1, doc |-> EmptyDocument,
           generation |-> resetCount[s] + 1]]
    BY <1>1 DEF WriteRow
  <2> HIDE DEF s
  <2> QED
    BY <1>1, <1>2, <2>1
<1>4. \A u \in Turns : /\ SessionOf(u) \in Sessions
                       /\ base[u].version \in Nat /\ base[u].generation \in Nat
  BY DEF TypeOK, LoadedRecord, SessionOf, Calls
<1>5. RowsAreStamped'
  <2>1. \A x \in Sessions :
          /\ Guarded => current'[x].version # NoVersion
          /\ current'[x].version # NoVersion => current'[x].generation = resetCount'[x]
    BY <1>2, <1>3 DEF StoreInvariants, RowsAreStamped, HasRow, NoVersion
  <2> QED
    BY <2>1 DEF RowsAreStamped, HasRow
<1>6. BasesAreBehind'
  <2> SUFFICES ASSUME NEW u \in Turns
               PROVE  /\ base[u].generation <= resetCount'[SessionOf(u)]
                      /\ Based(u) =>
                           /\ base[u].version <= current'[SessionOf(u)].version
                           /\ base[u].version = current'[SessionOf(u)].version
                                => /\ base[u].doc = current'[SessionOf(u)].doc
                                   /\ base[u].generation = resetCount'[SessionOf(u)]
    BY <1>1 DEF BasesAreBehind, NotCleared, SessionOf, Based
  <2>1. /\ base[u].generation <= resetCount[SessionOf(u)]
        /\ Based(u) =>
             /\ base[u].version <= current[SessionOf(u)].version
             /\ base[u].version = current[SessionOf(u)].version
                  => /\ base[u].doc = current[SessionOf(u)].doc
                     /\ base[u].generation = resetCount[SessionOf(u)]
    BY DEF StoreInvariants, BasesAreBehind, NotCleared
  <2>2. CASE SessionOf(u) = s
    BY <1>2, <1>3, <1>4, <2>1, <2>2
  <2>3. CASE SessionOf(u) # s
    BY <1>3, <1>4, <2>1, <2>3
  <2> QED
    BY <2>2, <2>3
<1>7. SavedBasesArePassed'
  <2> SUFFICES ASSUME NEW u \in Turns, NEW k \in JobNames, Committed(u, k)
               PROVE  base[u].version < current'[SessionOf(u)].version
    BY <1>1 DEF SavedBasesArePassed, SessionOf, Committed
  <2>1. base[u].version < current[SessionOf(u)].version
    BY DEF StoreInvariants, SavedBasesArePassed
  <2> QED
    BY <1>2, <1>3, <1>4, <2>1
<1>8. BasedTurnsSaveOnce'
  BY <1>1 DEF StoreInvariants, BasedTurnsSaveOnce, Committed, Based
<1>9. AnswersAreKept'
  <2> SUFFICES ASSUME NEW u \in Turns, Committed(u, "final")', Missing(u)'
               PROVE  \E v \in Turns : Overwrites(v, u)'
    BY DEF AnswersAreKept
  <2>1. /\ Committed(u, "final") /\ SessionOf(u)' = SessionOf(u)
        /\ base[u].generation = resetCount'[SessionOf(u)]
        /\ ~HoldsExchange(current'[SessionOf(u)].doc, u)
    BY <1>1 DEF Missing, NotCleared, Committed, SessionOf
  <2>2. base[u].generation <= resetCount[SessionOf(u)]
    BY DEF StoreInvariants, BasesAreBehind
  <2>3. SessionOf(u) # s
    BY <1>2, <1>3, <1>4, <2>1, <2>2
  <2>4. Missing(u)
    BY <1>3, <1>4, <2>1, <2>3 DEF Missing, NotCleared
  <2>5. \A v \in Turns : \A k \in JobNames : Committed(v, k) => Committed(v, k)'
    BY <1>1 DEF Committed
  <2> QED
    BY <1>1, <2>1, <2>4, <2>5, OverwritesLast DEF StoreInvariants, AnswersAreKept
<1>10. TurnInvariants'
  BY <1>1, TurnsAreSound, TurnsAreSoundNext DEF SoundTurn, Based, Committed, IsStream
<1> QED
  BY <1>5, <1>6, <1>7, <1>8, <1>9, <1>10 DEF StoreInvariants

(* At the start nobody has loaded or saved, and a row that is there is one *)
(* a reset left.                                                           *)
LEMMA InductiveInit == Init => Inductive
<1> SUFFICES ASSUME Init PROVE Inductive
  OBVIOUS
<1>1. TypeOK
  BY InitTypes
<1>2. \A s \in Sessions :
        IF s \in SeededSessions
          THEN current[s].version = 1 /\ current[s].generation = 1 /\ resetCount[s] = 1
          ELSE current[s].version = NoVersion /\ resetCount[s] = 0
  BY DEF Init, StoreInit, AbsentRow
<1>3. RowsAreStamped
  BY <1>2 DEF RowsAreStamped, HasRow, NoVersion, Guarded
<1>4. \A t \in Turns : /\ pc[t] = "idle" /\ outcome[t] = "none" /\ ~Based(t)
                       /\ base[t].generation = 0
                       /\ \A j \in JobNames : saveJob[t][j] = "none"
  BY DEF Init, NoRecord, Based
<1>5. \A t \in Turns : \A j \in JobNames : ~Committed(t, j)
  BY <1>4 DEF Committed
<1>6. "final" \in JobNames /\ "closing" \in JobNames
  BY DEF JobNames
<1>7. BasesAreBehind
  <2> SUFFICES ASSUME NEW t \in Turns
               PROVE  base[t].generation <= resetCount[SessionOf(t)] /\ ~Based(t)
    BY Zenon DEF BasesAreBehind
  <2>1. SessionOf(t) \in Sessions
    BY <1>1 DEF TypeOK, SessionOf, Calls
  <2>2. resetCount[SessionOf(t)] \in Nat
    BY <1>1, <2>1 DEF TypeOK, StoreTypeOK
  <2> QED
    BY <1>4, <2>2
<1>8. WorkersAreBased /\ CompletionsAreSaved
  BY <1>4, <1>6 DEF WorkersAreBased, CompletionsAreSaved
<1>9. SavedBasesArePassed /\ BasedTurnsSaveOnce /\ AnswersAreKept
  BY <1>5, <1>6 DEF SavedBasesArePassed, BasedTurnsSaveOnce, AnswersAreKept
<1> QED
  BY <1>1, <1>3, <1>7, <1>8, <1>9 DEF Inductive

(* Where rows stay, every step keeps the inductive invariant.              *)
LEMMA InductiveNext == RowsStay /\ Inductive /\ [Next]_vars => Inductive'
<1> SUFFICES ASSUME RowsStay, Inductive, [Next]_vars PROVE Inductive'
  OBVIOUS
<1>1. TypeOK /\ StoreInvariants /\ TurnInvariants
  BY DEF Inductive, StoreInvariants, TurnInvariants
<1>2. TypeOK'
  BY <1>1, NextTypes
<1>3. StoreInvariants' /\ TurnInvariants'
  <2>1. CASE \E t \in Turns : TurnStep(t)
    BY <1>1, <2>1, TurnStepsAreQuiet, LoadingKeepsInvariants, QuietKeepsStore
  <2>2. CASE \E t \in Turns, j \in JobNames : JobStep(t, j)
    BY <1>1, <2>2, CommitsKeepInvariants, FruitlessJobsAreQuiet, QuietKeepsStore DEF JobStep
  <2>3. ASSUME NEW r \in ResetRequests, ResetStep(r) \/ CancelReset(r)
        PROVE  StoreInvariants' /\ TurnInvariants'
    <3>1. CASE ResetCommits(r)
      BY <1>1, <3>1, ResetsKeepInvariants
    <3>2. CASE ~ResetCommits(r)
      <4>1. UNCHANGED <<storeVars, turnVars>>
        BY <2>3, <3>2 DEF ResetStep, StartReset, AllowReset, RefuseReset, ResetFails,
                          ClearArtifacts, ClearFails, CancelReset
      <4> QED
        BY <1>1, <4>1, BystandersAreQuiet, QuietKeepsStore
    <3> QED
      BY <3>1, <3>2
  <2>4. CASE \E t \in Turns : \/ InterruptStream(t) \/ InterruptLoading(t)
                             \/ InterruptClosing(t) \/ CancelChat(t)
    BY <1>1, <2>4, CancellationsAreQuiet, QuietKeepsStore
  <2>5. CASE Crash
    BY <1>1, <2>5, CrashIsQuiet, QuietKeepsStore
  <2>6. CASE \/ \E s \in Sessions : DeleteSession(s) \/ ExpireArtifacts(s)
             \/ \E t \in Turns : SaveArtifact(t)
             \/ UNCHANGED vars
    <3>1. UNCHANGED <<storeVars, turnVars>>
      BY <2>6 DEF DeleteSession, ExpireArtifacts, SaveArtifact, vars, RowsStay
    <3> QED
      BY <1>1, <3>1, BystandersAreQuiet, QuietKeepsStore
  <2> QED
    BY <2>1, <2>2, <2>3, <2>4, <2>5, <2>6 DEF Next, Environment, Cancellation, Terminated
<1> QED
  BY <1>2, <1>3 DEF Inductive, StoreInvariants, TurnInvariants

(* Where no row is removed, the inductive invariant holds for any number   *)
(* of turns, resets and crashes, whether sessions start with their row or  *)
(* not.                                                                    *)
THEOREM Protected == RowsStay => (Spec => []Inductive)
<1> SUFFICES ASSUME RowsStay PROVE Spec => []Inductive
  OBVIOUS
<1>1. Init => Inductive
  BY InductiveInit
<1>2. Inductive /\ [Next]_vars => Inductive'
  BY InductiveNext
<1> QED
  BY <1>1, <1>2, PTL DEF Spec

(* Where every row is there from the start nobody saves blindly: an answer *)
(* once stored stays, and a turn saves once.                               *)
LEMMA GuardedTurns ==
  ASSUME Guarded, Inductive, NEW t \in Turns
  PROVE  /\ HasRow(SessionOf(t)) /\ current[SessionOf(t)].generation = resetCount[SessionOf(t)]
         /\ \A j \in JobNames : saveJob[t][j] # "none" => Based(t)
         /\ ~(Committed(t, "final") /\ Committed(t, "closing"))
         /\ Committed(t, "final") /\ NotCleared(t)
              => HoldsExchange(current[SessionOf(t)].doc, t)
<1>1. SessionOf(t) \in Sessions /\ "final" \in JobNames /\ "closing" \in JobNames
  BY DEF Inductive, TypeOK, SessionOf, Calls, JobNames
<1>2. HasRow(SessionOf(t)) /\ current[SessionOf(t)].generation = resetCount[SessionOf(t)]
  BY <1>1 DEF Inductive, RowsAreStamped
<1>3. \A u \in Turns : \A j \in JobNames : saveJob[u][j] # "none" => Based(u)
  BY DEF Inductive, WorkersAreBased
<1>4. \A u \in Turns : ~SavedBlindly(u)
  BY <1>3 DEF SavedBlindly, Committed, Based
<1>5. ~(Committed(t, "final") /\ Committed(t, "closing"))
  BY <1>1, <1>3 DEF Inductive, BasedTurnsSaveOnce, Committed
<1>6. Committed(t, "final") => ~Missing(t)
  BY <1>4 DEF Inductive, AnswersAreKept, Overwrites
<1>7. Committed(t, "final") /\ NotCleared(t)
        => HoldsExchange(current[SessionOf(t)].doc, t)
  BY <1>6 DEF Missing
<1> QED
  BY <1>2, <1>3, <1>5, <1>7

(* The guarded deployment keeps its rows.                                  *)
LEMMA GuardedIsProtected == Guarded => (Spec => []Inductive)
BY Protected DEF Guarded

-----------------------------------------------------------------------------
(* What follows for the callers of the session service.                    *)

(* No completed turn is lost: while its session has not been reset since   *)
(* the turn loaded it, question and answer stay in the stored conversation,*)
(* however many other turns, cancellations and restarts there are.         *)
THEOREM CompletedTurnsStay == Guarded => (Spec => []CompletedTurnsAreKept)
<1> SUFFICES ASSUME Guarded PROVE Spec => []CompletedTurnsAreKept
  OBVIOUS
<1>1. Inductive => CompletedTurnsAreKept
  BY GuardedTurns DEF Inductive, CompletionsAreSaved, CompletedTurnsAreKept
<1> QED
  BY <1>1, GuardedIsProtected, PTL

(* A turn never saves twice, although a cancelled stream can have its      *)
(* answer and its closing checkpoint under way together.                   *)
THEOREM TurnsSaveOnce == Guarded => (Spec => []OneSavePerTurn)
<1> SUFFICES ASSUME Guarded PROVE Spec => []OneSavePerTurn
  OBVIOUS
<1>1. Inductive => OneSavePerTurn
  BY GuardedTurns DEF OneSavePerTurn
<1> QED
  BY <1>1, GuardedIsProtected, PTL

(* Without seeded rows a completed exchange can go missing, but only by a  *)
(* save of another turn of the session that found no row: once the session *)
(* has its row, whoever loads it is as safe as in the guarded deployment.  *)
THEOREM FirstTurnsAlone == Spec => []LostOnlyToFirstTurns
<1>1. CASE ~RowsStay
  <2>1. LostOnlyToFirstTurns
    BY <1>1 DEF LostOnlyToFirstTurns
  <2> QED
    BY <2>1, PTL
<1>2. CASE RowsStay
  <2>1. Inductive => LostOnlyToFirstTurns
    <3> SUFFICES ASSUME Inductive, NEW t \in Turns, outcome[t] = "completed", Missing(t)
                 PROVE  \E u \in Turns \ {t} : SessionOf(u) = SessionOf(t) /\ SavedBlindly(u)
      BY DEF LostOnlyToFirstTurns
    <3>1. Committed(t, "final") /\ ~Committed(t, "closing")
      BY DEF Inductive, CompletionsAreSaved, Committed
    <3>2. PICK u \in Turns : Overwrites(u, t)
      BY <3>1 DEF Inductive, AnswersAreKept
    <3> QED
      BY <3>1, <3>2 DEF Overwrites
  <2> QED
    BY <1>2, <2>1, Protected, PTL
<1> QED
  BY <1>1, <1>2

(* Only a worker thread's commit makes a save.                             *)
LEMMA SavesAreCommits ==
  ASSUME Inductive, [Next]_vars, NEW t \in Turns, SaveOf(t)
  PROVE  \E j \in JobNames : ThreadCommits(t, j)
<1>1. TypeOK /\ TurnInvariants /\ saveJob \in [Turns -> [JobNames -> JobStatus]]
  BY DEF Inductive, TurnInvariants, TypeOK
<1>2. ~Quiet
  BY DEF Quiet, SaveOf, Committed
<1>3. ~UNCHANGED saveJob
  BY DEF SaveOf
<1>4. \A u \in Turns : ~TurnStep(u)
  <2>1. \A u \in Turns : ~Loads(u)
    <3> SUFFICES ASSUME NEW u \in Turns, Loads(u) PROVE FALSE
      OBVIOUS
    <3>1. \A v \in Turns : /\ saveJob'[v]["final"] = "committed" => saveJob[v]["final"] = "committed"
                           /\ saveJob'[v]["closing"] = "committed" => saveJob[v]["closing"] = "committed"
      BY <1>1, LoadingFacts DEF OthersAlone
    <3> QED
      BY <3>1 DEF SaveOf, JobNames
  <2>2. \A u \in Turns : ~(TurnStep(u) /\ ~Loads(u))
    BY <1>1, <1>2, TurnStepsAreQuiet
  <2> QED
    BY <2>1, <2>2
<1>5. \A u \in Turns : ~(InterruptStream(u) \/ InterruptLoading(u)
                         \/ InterruptClosing(u) \/ CancelChat(u))
  BY <1>1, <1>2, CancellationsAreQuiet
<1>6. \A r \in ResetRequests : ~(ResetStep(r) \/ CancelReset(r))
  BY <1>3 DEF ResetStep, StartReset, AllowReset, RefuseReset, ResetCommits, ResetFails,
              ClearArtifacts, ClearFails, CancelReset, turnVars
<1>7. ~Crash
  BY <1>1, <1>2, CrashIsQuiet
<1>8. /\ \A s \in Sessions : ~(DeleteSession(s) \/ ExpireArtifacts(s))
      /\ \A u \in Turns : ~SaveArtifact(u)
      /\ ~UNCHANGED vars
  BY <1>3 DEF DeleteSession, ExpireArtifacts, SaveArtifact, vars, turnVars
<1>9. PICK u \in Turns, j \in JobNames : JobStep(u, j)
  BY <1>4, <1>5, <1>6, <1>7, <1>8 DEF Next, Environment, Cancellation, Terminated
<1>10. ThreadCommits(u, j)
  BY <1>1, <1>2, <1>9, FruitlessJobsAreQuiet DEF JobStep
<1>11. u = t
  BY <1>1, <1>10 DEF ThreadCommits, SaveOf
<1> QED
  BY <1>10, <1>11

(* A committing turn expects the stored version, hence the stored document *)
(* and generation.                                                         *)
LEMMA CommitsAreCurrent ==
  ASSUME Guarded, Inductive, NEW t \in Turns, NEW j \in JobNames, ThreadCommits(t, j)
  PROVE  /\ base[t].version = current[SessionOf(t)].version
         /\ base[t].doc = current[SessionOf(t)].doc /\ NotCleared(t)
<1>1. Based(t)
  BY GuardedTurns DEF ThreadCommits
<1>2. base[t].version = current[SessionOf(t)].version
  BY <1>1 DEF ThreadCommits, SaveConflicts, Based
<1> QED
  BY <1>1, <1>2 DEF Inductive, BasesAreBehind

(* A document drafted before a reset is never written over the cleared     *)
(* session: Clear is final for every turn then in flight.                  *)
THEOREM ResetsStandFirm == Guarded => (Spec => NoSaveAcrossReset)
<1> SUFFICES ASSUME Guarded PROVE Spec => NoSaveAcrossReset
  OBVIOUS
<1>1. ASSUME Inductive, [Next]_vars, NEW t \in Turns, SaveOf(t)
      PROVE  NotCleared(t)
  BY <1>1, SavesAreCommits, CommitsAreCurrent
<1>2. Inductive /\ [Next]_vars => [\A t \in Turns : SaveOf(t) => NotCleared(t)]_vars
  BY <1>1
<1> QED
  BY <1>2, GuardedIsProtected, PTL DEF Spec, NoSaveAcrossReset

(* Each save extends the stored conversation by its own turn's messages:   *)
(* a save never drops, rewrites or reorders what other turns saved.        *)
THEOREM ConversationsGrow == Guarded => (Spec => SavesExtendConversation)
<1> SUFFICES ASSUME Guarded PROVE Spec => SavesExtendConversation
  OBVIOUS
<1> DEFINE Extends(t) ==
      LET old == current[SessionOf(t)].doc.messages
          new == current'[SessionOf(t)].doc.messages
      IN  /\ Len(new) > Len(old)
          /\ \A i \in 1 .. Len(old) : new[i] = old[i]
          /\ \A i \in Len(old) + 1 .. Len(new) : new[i].turn = t
<1>1. ASSUME Inductive, [Next]_vars, NEW t \in Turns, SaveOf(t)
      PROVE  Extends(t)
  <2>1. PICK j \in JobNames : ThreadCommits(t, j)
    BY <1>1, SavesAreCommits
  <2>2. base[t].doc = current[SessionOf(t)].doc /\ base[t].doc \in Document
    BY <1>1, <2>1, CommitsAreCurrent DEF Inductive, TypeOK, LoadedRecord
  <2>3. current'[SessionOf(t)].doc = JobDocument(t, j)
    <3>1. SessionOf(t) \in Sessions /\ current \in [Sessions -> Row]
      BY <1>1 DEF Inductive, TypeOK, StoreTypeOK, SessionOf, Calls
    <3>2. \E version, generation :
            current' = [current EXCEPT ![SessionOf(t)] =
                          [version |-> version, doc |-> JobDocument(t, j),
                           generation |-> generation]]
      BY <2>1 DEF ThreadCommits, CommitSave, WriteRow
    <3> QED
      BY <3>1, <3>2
  <2> DEFINE doc == base[t].doc
             new == JobDocument(t, j)
             how == closingAs[t]
  <2>4. new \in {Answered(PrepareForChat(doc, t), t), Closed(PrepareForChat(doc, t), how)}
    BY DEF JobDocument, Draft
  <2> HIDE DEF doc, new, how
  <2>5. /\ Len(new.messages) > Len(doc.messages)
        /\ \A i \in 1 .. Len(doc.messages) : new.messages[i] = doc.messages[i]
        /\ \A i \in Len(doc.messages) + 1 .. Len(new.messages) : new.messages[i].turn = t
    <3>1. doc \in Document
      BY <2>2 DEF doc
    <3> QED
      BY <2>4, <3>1, WritesExtend, SMTT(30)
  <2>6. current[SessionOf(t)].doc = doc /\ current'[SessionOf(t)].doc = new
    BY <2>2, <2>3 DEF doc, new
  <2> QED
    BY <2>5, <2>6
<1>2. Inductive /\ [Next]_vars => [\A t \in Turns : SaveOf(t) => Extends(t)]_vars
  BY <1>1
<1> QED
  BY <1>2, GuardedIsProtected, PTL DEF Spec, SavesExtendConversation

-----------------------------------------------------------------------------
(* Every deployment: rows may be missing at first, removed by a reset or a *)
(* deletion, and inserted again.                                           *)

(* Who writes the tables, and who loads: a transaction committed by a      *)
(* thread or a deletion, a turn that loads, and nobody else.               *)
LEMMA Writers ==
  ASSUME TypeOK, [Next]_vars
  PROVE  /\ call' = call
         /\ \/ /\ UNCHANGED storeVars
               /\ \A t \in Turns : base'[t] \in {base[t], Loaded(SessionOf(t))}
            \/ /\ base' = base
               /\ \/ \E t \in Turns, j \in JobNames : ThreadCommits(t, j)
                  \/ \E s \in Sessions : CommitReset(s) \/ CommitDelete(s)
<1> DEFINE Writes == \/ \E t \in Turns, j \in JobNames : ThreadCommits(t, j)
                     \/ \E s \in Sessions : CommitReset(s) \/ CommitDelete(s)
<1>1. \A t \in Turns : SessionOf(t) \in Sessions
  BY DEF TypeOK, SessionOf, Calls
<1>2. base \in [Turns -> LoadedRecord]
  BY DEF TypeOK
<1>3. ASSUME NEW t \in Turns, TurnStep(t)
      PROVE  /\ UNCHANGED <<storeVars, call>>
             /\ base' = base \/ base' = [base EXCEPT ![t] = Loaded(SessionOf(t))]
  BY <1>3 DEF TurnStep, Start, LoadState, LoadFails, StartUnrecorded, RuntimeReturns,
     RuntimeFails, SaveReturns, ClosingReturns, FinishChat, DrainStream, CloseCompletedStream
<1>4. ASSUME NEW t \in Turns, NEW j \in JobNames, JobStep(t, j)
      PROVE  UNCHANGED <<call, base>> /\ (UNCHANGED storeVars \/ Writes)
  <2>1. CASE ThreadCommits(t, j)
    BY <2>1 DEF ThreadCommits
  <2>2. CASE ~ThreadCommits(t, j)
    BY <1>4, <2>2 DEF JobStep, ThreadTakes, ThreadConflicts, ThreadFails
  <2> QED
    BY <2>1, <2>2
<1>5. ASSUME NEW r \in ResetRequests, ResetStep(r) \/ CancelReset(r)
      PROVE  UNCHANGED <<call, base>> /\ (UNCHANGED storeVars \/ Writes)
  <2>1. CASE ResetCommits(r)
    BY <2>1 DEF ResetCommits, turnVars, TypeOK
  <2>2. CASE ~ResetCommits(r)
    BY <1>5, <2>2 DEF ResetStep, StartReset, AllowReset, RefuseReset, ResetFails,
                      ClearArtifacts, ClearFails, CancelReset, turnVars
  <2> QED
    BY <2>1, <2>2
<1>6. ASSUME NEW t \in Turns,
             \/ InterruptStream(t) \/ InterruptLoading(t) \/ InterruptClosing(t)
             \/ CancelChat(t) \/ SaveArtifact(t)
      PROVE  UNCHANGED <<storeVars, call, base>>
  BY <1>6 DEF InterruptStream, InterruptLoading, InterruptClosing, CancelChat, SaveArtifact,
              turnVars
<1>7. ASSUME NEW s \in Sessions, DeleteSession(s) \/ ExpireArtifacts(s)
      PROVE  UNCHANGED <<call, base>> /\ (UNCHANGED storeVars \/ Writes)
  BY <1>7 DEF DeleteSession, ExpireArtifacts, turnVars
<1>8. ASSUME Crash \/ Terminated
      PROVE  UNCHANGED <<storeVars, call, base>>
  BY <1>8 DEF Crash, Terminated, vars, turnVars
<1>9. CASE \E t \in Turns : TurnStep(t)
  <2>1. PICK t \in Turns : TurnStep(t)
    BY <1>9
  <2>2. UNCHANGED <<storeVars, call>> /\ base' \in {base, [base EXCEPT ![t] = Loaded(SessionOf(t))]}
    BY <1>3, <2>1
  <2>3. \A u \in Turns : base'[u] \in {base[u], Loaded(SessionOf(u))}
    BY <1>2, <2>2
  <2> QED
    BY <2>2, <2>3
<1> HIDE DEF Writes
<1>10. CASE Next /\ ~ \E t \in Turns : TurnStep(t)
  <2>1. UNCHANGED <<call, base>> /\ (UNCHANGED storeVars \/ Writes)
    BY <1>4, <1>5, <1>6, <1>7, <1>8, <1>10 DEF Next, Environment, Cancellation
  <2>2. base' = base => \A t \in Turns : base'[t] \in {base[t], Loaded(SessionOf(t))}
    OBVIOUS
  <2> QED
    BY <2>1, <2>2 DEF Writes
<1>11. CASE UNCHANGED vars
  BY <1>11 DEF vars, turnVars
<1> QED
  BY <1>9, <1>10, <1>11

(* A thread's commit is a save of its turn's session.                      *)
LEMMA ThreadsSave ==
  ASSUME TypeOK, NEW t \in Turns, NEW j \in JobNames, ThreadCommits(t, j)
  PROVE  \E s \in Sessions : s = SessionOf(t) /\ \E doc \in Document : CommitSave(s, doc)
BY JobDocumentType DEF ThreadCommits, TypeOK, SessionOf, Calls

(* So every step writes at most one session's tables, in one of three ways. *)
LEMMA StoreSteps ==
  ASSUME TypeOK, [Next]_vars
  PROVE  /\ call' = call
         /\ \/ /\ UNCHANGED storeVars
               /\ \A t \in Turns : base'[t] \in {base[t], Loaded(SessionOf(t))}
            \/ /\ base' = base
               /\ \E s \in Sessions : \/ \E doc \in Document : CommitSave(s, doc)
                                      \/ CommitReset(s)
                                      \/ CommitDelete(s)
BY Writers, ThreadsSave

(* A write changes the rows of one session: a document is written at the   *)
(* next version, in the row's lifetime or in a new one, or the row goes.   *)
LEMMA WritesMoveOn ==
  ASSUME StoreTypeOK, NEW s \in Sessions,
         \/ \E doc \in Document : CommitSave(s, doc)
         \/ CommitReset(s)
         \/ CommitDelete(s)
  PROVE  /\ \A q \in Sessions \ {s} : current'[q] = current[q] /\ epoch'[q] = epoch[q]
         /\ \/ current'[s].version = NoVersion /\ epoch'[s] = epoch[s]
            \/ /\ current'[s].version = current[s].version + 1
               /\ epoch'[s] = IF HasRow(s) THEN epoch[s] ELSE epoch[s] + 1
<1>1. /\ current \in [Sessions -> Row] /\ epoch \in [Sessions -> Nat]
  BY DEF StoreTypeOK
<1>2. ASSUME NEW doc, NEW generation, WriteRow(s, doc, generation)
      PROVE  /\ \A q \in Sessions \ {s} : current'[q] = current[q] /\ epoch'[q] = epoch[q]
             /\ current'[s].version = current[s].version + 1
             /\ epoch'[s] = IF HasRow(s) THEN epoch[s] ELSE epoch[s] + 1
  BY <1>1, <1>2 DEF WriteRow
<1>3. ASSUME current' = [current EXCEPT ![s] = AbsentRow], UNCHANGED epoch
      PROVE  /\ \A q \in Sessions \ {s} : current'[q] = current[q] /\ epoch'[q] = epoch[q]
             /\ current'[s].version = NoVersion /\ epoch'[s] = epoch[s]
  BY <1>1, <1>3 DEF AbsentRow
<1>4. CASE \E doc \in Document : CommitSave(s, doc)
  BY <1>2, <1>4 DEF CommitSave
<1>5. CASE CommitReset(s)
  BY <1>2, <1>3, <1>5 DEF CommitReset
<1>6. CASE CommitDelete(s)
  BY <1>3, <1>6 DEF CommitDelete
<1> QED
  BY <1>4, <1>5, <1>6

(* What a turn loaded belongs to a lifetime of the row that is over, or to *)
(* this one at an older version, or is what is stored.                     *)
Aged(t) ==
  LET s == SessionOf(t) IN
    base[t].version # NoVersion =>
      /\ base[t].epoch <= epoch[s]
      /\ base[t].epoch = epoch[s] /\ HasRow(s) =>
           /\ base[t].version <= current[s].version
           /\ base[t].version = current[s].version => base[t].doc = current[s].doc

(* Every step keeps what was loaded so.                                    *)
LEMMA AgedNext ==
  ASSUME TypeOK, [Next]_vars, NEW t \in Turns, Aged(t)
  PROVE  Aged(t)'
<1> DEFINE s == SessionOf(t)
<1>1. /\ s \in Sessions /\ SessionOf(t)' = s
      /\ current[s] \in Row /\ epoch[s] \in Nat /\ base[t] \in LoadedRecord
  BY StoreSteps DEF TypeOK, StoreTypeOK, SessionOf, Calls
<1>2. /\ current[s].version \in Nat
      /\ base[t].version \in Nat /\ base[t].epoch \in Nat
  BY <1>1 DEF Row, LoadedRecord
<1> HIDE DEF s
<1>3. CASE /\ UNCHANGED storeVars
           /\ base'[t] \in {base[t], Loaded(SessionOf(t))}
  <2>1. current' = current /\ epoch' = epoch
    BY <1>3 DEF storeVars
  <2>2. CASE base'[t] = base[t]
    BY <1>1, <2>1, <2>2 DEF Aged, HasRow, s
  <2>3. CASE base'[t] = Loaded(s)
    BY <1>1, <1>2, <2>1, <2>3 DEF Aged, HasRow, Loaded
  <2> QED
    BY <1>3, <2>2, <2>3 DEF s
<1>4. ASSUME base' = base, NEW q \in Sessions,
             \/ \E doc \in Document : CommitSave(q, doc)
             \/ CommitReset(q)
             \/ CommitDelete(q)
      PROVE  Aged(t)'
  <2>1. /\ \A p \in Sessions \ {q} : current'[p] = current[p] /\ epoch'[p] = epoch[p]
        /\ \/ current'[q].version = NoVersion /\ epoch'[q] = epoch[q]
           \/ /\ current'[q].version = current[q].version + 1
              /\ epoch'[q] = IF HasRow(q) THEN epoch[q] ELSE epoch[q] + 1
    BY <1>4, WritesMoveOn DEF TypeOK
  <2>2. CASE s # q
    BY <1>1, <1>4, <2>1, <2>2 DEF Aged, HasRow, s
  <2>3. CASE s = q /\ current'[s].version = NoVersion /\ epoch'[s] = epoch[s]
    BY <1>1, <1>4, <2>3 DEF Aged, HasRow, s
  <2>4. CASE /\ s = q
             /\ current'[s].version = current[s].version + 1
             /\ epoch'[s] = IF HasRow(s) THEN epoch[s] ELSE epoch[s] + 1
    <3>1. base[t].version # NoVersion =>
            /\ base[t].epoch <= epoch[s]
            /\ base[t].epoch = epoch[s] /\ HasRow(s) => base[t].version <= current[s].version
      BY DEF Aged, s
    <3>2. base[t].version # NoVersion =>
            /\ base[t].epoch <= epoch'[s]
            /\ base[t].epoch = epoch'[s] => base[t].version < current'[s].version
      BY <1>1, <1>2, <2>4, <3>1
    <3>3. current'[s].version \in Nat
      BY <1>2, <2>4
    <3> QED
      BY <1>1, <1>2, <1>4, <3>2, <3>3 DEF Aged
  <2> QED
    BY <2>1, <2>2, <2>3, <2>4
<1> QED
  BY <1>3, <1>4, StoreSteps

(* A turn that still expects what is stored holds exactly the stored       *)
(* document, in every deployment: this is what the version compare of the  *)
(* store relies on.                                                        *)
THEOREM VersionsTellDocuments == Spec => []VersionsIdentifyDocuments
<1> DEFINE AllAged == \A t \in Turns : Aged(t)
<1>1. Init => AllAged
  BY DEF Init, NoRecord, Aged
<1>2. TypeOK /\ AllAged /\ [Next]_vars => AllAged'
  BY AgedNext
<1>3. AllAged => VersionsIdentifyDocuments
  BY DEF VersionsIdentifyDocuments, Aged, HasRow
<1> HIDE DEF AllAged
<1> QED
  BY <1>1, <1>2, <1>3, TypeCorrect, PTL DEF Spec

(* A write leaves the other sessions' rows alone, and only a save leaves   *)
(* the reset count and a row.                                              *)
LEMMA WritesAreLocal ==
  ASSUME StoreTypeOK, NEW s \in Sessions, CommitReset(s) \/ CommitDelete(s)
  PROVE  /\ \A q \in Sessions \ {s} : current'[q] = current[q]
         /\ resetCount'[s] # resetCount[s] \/ current'[s].version = NoVersion
<1>1. /\ current \in [Sessions -> Row] /\ resetCount \in [Sessions -> Nat]
  BY DEF StoreTypeOK
<1>2. \A q \in Sessions \ {s} : current'[q] = current[q]
  BY WritesMoveOn
<1>3. CASE CommitReset(s)
  <2>1. resetCount'[s] = resetCount[s] + 1 /\ resetCount[s] \in Nat
    BY <1>1, <1>3 DEF CommitReset
  <2> QED
    BY <1>2, <2>1
<1>4. CASE CommitDelete(s)
  <2>1. current'[s] = AbsentRow
    BY <1>1, <1>4 DEF CommitDelete
  <2> QED
    BY <1>2, <2>1 DEF AbsentRow
<1> QED
  BY <1>3, <1>4

(* A save that expects the stored row's version extends what is stored.    *)
LEMMA ExpectingSavesKeep ==
  ASSUME TypeOK, VersionsIdentifyDocuments, NEW t \in Turns, NEW j \in JobNames,
         ThreadCommits(t, j), Expects(t)
  PROVE  Keeps(current[SessionOf(t)].doc.messages, current'[SessionOf(t)].doc.messages)
<1> DEFINE doc == base[t].doc
           new == JobDocument(t, j)
<1>1. current[SessionOf(t)].doc = doc
  BY DEF VersionsIdentifyDocuments, Expects, ThreadCommits, SaveConflicts
<1>2. current'[SessionOf(t)].doc = new
  <2>1. SessionOf(t) \in Sessions /\ current \in [Sessions -> Row]
    BY DEF TypeOK, StoreTypeOK, SessionOf, Calls
  <2>2. \E version, generation :
          current' = [current EXCEPT ![SessionOf(t)] =
                        [version |-> version, doc |-> new, generation |-> generation]]
    BY DEF ThreadCommits, CommitSave, WriteRow
  <2> QED
    BY <2>1, <2>2
<1>3. doc \in Document /\ new \in Document
  BY JobDocumentType DEF TypeOK, LoadedRecord
<1>4. new \in {Answered(PrepareForChat(doc, t), t), Closed(PrepareForChat(doc, t), closingAs[t])}
  BY DEF JobDocument, Draft
<1> HIDE DEF doc, new
<1>5. /\ Len(new.messages) > Len(doc.messages)
      /\ \A i \in 1 .. Len(doc.messages) : new.messages[i] = doc.messages[i]
  BY <1>3, <1>4, WritesExtend, SMTT(30)
<1>6. Len(new.messages) \in Nat /\ Len(doc.messages) \in Nat
  BY <1>3 DEF Document
<1> QED
  BY <1>1, <1>2, <1>5, <1>6 DEF Keeps

(* In every deployment a conversation loses messages only at a reset, a    *)
(* deletion, or a save that expects no version, or one of a row removed    *)
(* since.                                                                  *)
THEOREM LossesAreBlind == Spec => OnlyBlindSavesLose
<1> DEFINE KeepsOrBlind(s) ==
      \/ Keeps(current[s].doc.messages, current'[s].doc.messages)
      \/ resetCount'[s] # resetCount[s] \/ current'[s].version = NoVersion
      \/ \E t \in Turns : SessionOf(t) = s /\ SaveOf(t) /\ ~Expects(t)
<1>1. ASSUME TypeOK, VersionsIdentifyDocuments, [Next]_vars, NEW s \in Sessions
      PROVE  KeepsOrBlind(s)
  <2>1. current'[s] = current[s] => Keeps(current[s].doc.messages, current'[s].doc.messages)
    <3>1. current[s].doc.messages \in Seq(Message)
      BY <1>1 DEF TypeOK, StoreTypeOK, Row, Document
    <3> QED
      BY <3>1 DEF Keeps
  <2>2. CASE UNCHANGED storeVars
    BY <2>1, <2>2 DEF storeVars
  <2>3. ASSUME NEW t \in Turns, NEW j \in JobNames, ThreadCommits(t, j)
        PROVE  KeepsOrBlind(s)
    <3>1. CASE SessionOf(t) # s
      BY <1>1, <2>1, <2>3, <3>1, ThreadsSave, WritesMoveOn DEF TypeOK
    <3>2. CASE SessionOf(t) = s /\ Expects(t)
      BY <1>1, <2>3, <3>2, ExpectingSavesKeep
    <3>3. CASE SessionOf(t) = s /\ ~Expects(t)
      <4>1. SaveOf(t)
        BY <1>1, <2>3 DEF ThreadCommits, SaveOf, TypeOK
      <4> QED
        BY <3>3, <4>1
    <3> QED
      BY <3>1, <3>2, <3>3
  <2>4. ASSUME NEW q \in Sessions, CommitReset(q) \/ CommitDelete(q)
        PROVE  KeepsOrBlind(s)
    BY <1>1, <2>1, <2>4, WritesAreLocal DEF TypeOK
  <2> QED
    BY <1>1, <2>2, <2>3, <2>4, Writers
<1>2. TypeOK /\ VersionsIdentifyDocuments /\ [Next]_vars
        => [\A s \in Sessions : KeepsOrBlind(s)]_vars
  BY <1>1
<1> QED
  BY <1>2, TypeCorrect, VersionsTellDocuments, PTL DEF Spec, OnlyBlindSavesLose

-----------------------------------------------------------------------------
(* The audit.                                                              *)

(* A write of one session's tables keeps its rows and its audit agreeing.  *)
LEMMA AuditKept ==
  ASSUME StoreTypeOK, ResetAuditAgrees, NEW s \in Sessions,
         \/ \E doc \in Document : CommitSave(s, doc)
         \/ CommitReset(s)
         \/ CommitDelete(s)
  PROVE  ResetAuditAgrees'
<1> DEFINE Agrees(q) ==
      /\ HasRow(q) => q \in registered /\ current[q].generation = resetCount[q]
      /\ Len(resets[q]) = resetCount[q]
      /\ \A i \in 1 .. Len(resets[q]) : resets[q][i].generation = i
<1>1. /\ current \in [Sessions -> Row] /\ resetCount \in [Sessions -> Nat]
      /\ resets \in [Sessions -> Seq([generation : Nat, cleared : Nat])]
  BY DEF StoreTypeOK
<1>2. ASSUME NEW q \in Sessions PROVE Agrees(q)
  BY <1>2 DEF ResetAuditAgrees
<1>3. ASSUME NEW q \in Sessions PROVE Agrees(q)'
  <2>1. CASE \E doc \in Document : CommitSave(s, doc)
    <3>1. PICK doc \in Document : CommitSave(s, doc)
      BY <2>1
    <3>2. /\ resetCount' = resetCount /\ resets' = resets
          /\ registered' = registered \cup {s}
          /\ current' = [current EXCEPT ![s] =
               [version |-> @.version + 1, doc |-> doc, generation |-> resetCount[s]]]
      BY <3>1 DEF CommitSave, WriteRow
    <3>3. CASE q = s
      BY <1>1, <1>2, <3>2, <3>3 DEF HasRow
    <3>4. CASE q # s
      BY <1>1, <1>2, <1>3, <3>2, <3>4 DEF HasRow
    <3> QED
      BY <3>3, <3>4
  <2>2. CASE CommitReset(s)
    <3> DEFINE entry == [generation |-> resetCount[s] + 1, cleared |-> current[s].version]
    <3>1. /\ registered' = registered \cup {s}
          /\ resetCount' = [resetCount EXCEPT ![s] = @ + 1]
          /\ resets' = [resets EXCEPT ![s] = Append(@, entry)]
      BY <2>2 DEF CommitReset
    <3>2. \/ current' = [current EXCEPT ![s] = AbsentRow]
          \/ current' = [current EXCEPT ![s] =
               [version |-> @.version + 1, doc |-> EmptyDocument,
                generation |-> resetCount[s] + 1]]
      BY <2>2 DEF CommitReset, WriteRow
    <3>3. CASE q # s
      BY <1>1, <1>2, <1>3, <3>1, <3>2, <3>3 DEF HasRow
    <3>4. CASE q = s
      <4>1. HasRow(s)' => s \in registered' /\ current'[s].generation = resetCount'[s]
        BY <1>1, <3>1, <3>2 DEF HasRow, AbsentRow
      <4>2. /\ resets[s] \in Seq([generation : Nat, cleared : Nat])
            /\ entry \in [generation : Nat, cleared : Nat]
            /\ current[s].version \in Nat /\ resetCount[s] \in Nat
        BY <1>1 DEF Row
      <4>3. entry.generation = Len(resets[s]) + 1
        BY <1>2
      <4> HIDE DEF entry
      <4>4. /\ Len(Append(resets[s], entry)) = Len(resets[s]) + 1
            /\ \A i \in 1 .. Len(resets[s]) : Append(resets[s], entry)[i] = resets[s][i]
            /\ Append(resets[s], entry)[Len(resets[s]) + 1] = entry
        BY <4>2
      <4>5. resets'[s] = Append(resets[s], entry) /\ resetCount'[s] = resetCount[s] + 1
        BY <1>1, <3>1
      <4>6. Len(resets[s]) \in Nat
        BY <4>2
      <4>7. \A i \in 1 .. Len(resets[s]) + 1 : Append(resets[s], entry)[i].generation = i
        <5> TAKE i \in 1 .. Len(resets[s]) + 1
        <5>1. CASE i = Len(resets[s]) + 1
          BY <4>3, <4>4, <5>1
        <5>2. CASE i # Len(resets[s]) + 1
          BY <1>2, <4>4, <4>6, <5>2
        <5> QED
          BY <5>1, <5>2
      <4>8. Len(resets[s]) = resetCount[s]
        BY <1>2
      <4> QED
        BY <3>4, <4>1, <4>4, <4>5, <4>7, <4>8
    <3> QED
      BY <3>3, <3>4
  <2>3. CASE CommitDelete(s)
    <3>1. /\ registered' = registered \ {s}
          /\ current' = [current EXCEPT ![s] = AbsentRow]
          /\ resetCount' = [resetCount EXCEPT ![s] = 0]
          /\ resets' = [resets EXCEPT ![s] = << >>]
      BY <2>3 DEF CommitDelete
    <3>2. CASE q = s
      BY <1>1, <3>1, <3>2 DEF HasRow, AbsentRow
    <3>3. CASE q # s
      BY <1>1, <1>2, <1>3, <3>1, <3>3 DEF HasRow
    <3> QED
      BY <3>2, <3>3
  <2> QED
    BY <2>1, <2>2, <2>3
<1> QED
  BY <1>3 DEF ResetAuditAgrees

(* The rows and the audit of resets agree in every deployment, whatever    *)
(* saves, resets and deletions interleave.                                 *)
THEOREM AuditsAgree == Spec => []ResetAuditAgrees
<1>1. Init => ResetAuditAgrees
  BY DEF Init, StoreInit, ResetAuditAgrees, HasRow, AbsentRow
<1>2. TypeOK /\ ResetAuditAgrees /\ [Next]_vars => ResetAuditAgrees'
  <2> SUFFICES ASSUME TypeOK, ResetAuditAgrees, [Next]_vars PROVE ResetAuditAgrees'
    OBVIOUS
  <2>1. CASE UNCHANGED storeVars
    BY <2>1 DEF storeVars, ResetAuditAgrees, HasRow
  <2>2. CASE \E s \in Sessions : \/ \E doc \in Document : CommitSave(s, doc)
                                 \/ CommitReset(s)
                                 \/ CommitDelete(s)
    BY <2>2, AuditKept DEF TypeOK
  <2> QED
    BY <2>1, <2>2, StoreSteps
<1> QED
  BY <1>1, <1>2, TypeCorrect, PTL DEF Spec

-----------------------------------------------------------------------------
(* The session events, in every deployment.                                *)

Announced == {"stream_completed", "session_created", "session_resumed"}

(* What is recorded of a turn is true of it, because its last record is    *)
(* the end of it: until then it has none or that of its start, and a       *)
(* stream is told of its completion as soon as its answer is committed.    *)
TrueEvent(t) ==
  /\ pc[t] \notin {"done", "crashed"} => event[t] \in {"none", "stream_started"}
  /\ pc[t] = "completing" =>
       Committed(t, "final") /\ (IsStream(t) => outcome[t] = "completed")
  /\ event[t] \in Announced =>
       Committed(t, "final") /\ outcome[t] \in {"completed", "cancelled"}
  /\ event[t] = "stream_cancelled" => outcome[t] # "completed"
  /\ event[t] = "stream_failed" /\ outcome[t] = "completed" => Committed(t, "final")

(* A step of a turn that is under way keeps its event true: it goes on     *)
(* with no new record but that of its start, or completes, or ends with a  *)
(* record that fits.                                                       *)
LEMMA TurnGoesOn ==
  ASSUME NEW t \in Turns, TrueEvent(t), pc[t] \notin {"done", "crashed"},
         \/ /\ pc'[t] \notin {"done", "completing"}
            /\ event'[t] \in {event[t], "stream_started"}
         \/ /\ pc'[t] = "completing"
            /\ event'[t] = event[t]
            /\ Committed(t, "final")'
            /\ IsStream(t)' => outcome'[t] = "completed"
         \/ /\ pc'[t] = "done"
            /\ \/ event'[t] = event[t]
               \/ event'[t] \in {"stream_failed", "stream_cancelled"}
                  /\ outcome'[t] \in {"failed", "cancelled"}
               \/ event'[t] \in Announced \cup {"stream_failed"}
                  /\ Committed(t, "final")' /\ outcome'[t] \in {"completed", "cancelled"}
  PROVE  TrueEvent(t)'
  BY DEF TrueEvent, Announced

(* A turn whose coroutine a step leaves alone keeps its event true: a      *)
(* committed job stays committed.                                          *)
LEMMA TurnStays ==
  ASSUME NEW t \in Turns, TrueEvent(t), Committed(t, "final") => Committed(t, "final")',
         call' = call, event'[t] = event[t], outcome'[t] = outcome[t],
         pc'[t] = pc[t] \/ (pc[t] \notin {"done", "crashed"} /\ pc'[t] = "crashed")
  PROVE  TrueEvent(t)'
  BY DEF TrueEvent, Announced, IsStream

(* What one turn's step leaves of the others.                              *)
LEMMA OthersStay ==
  ASSUME NEW t \in Turns, \A u \in Turns : TrueEvent(u), TrueEvent(t)',
         OthersAlone(t), call' = call, \A u \in Turns \ {t} : event'[u] = event[u]
  PROVE  \A u \in Turns : TrueEvent(u)'
<1> SUFFICES ASSUME NEW u \in Turns \ {t} PROVE TrueEvent(u)'
  OBVIOUS
<1> QED
  BY TurnStays DEF OthersAlone, Committed

(* A record at the end of a stream that did not complete.                  *)
LEMMA EndsTrue ==
  ASSUME TypeOK, NEW t \in Turns, NEW how \in {"cancelled", "failed"}, EndRecorded(t, how)
  PROVE  /\ pc'[t] = "done" /\ outcome'[t] \in {"failed", "cancelled"}
         /\ event'[t] \in {event[t], "stream_failed", "stream_cancelled"}
         /\ \A u \in Turns \ {t} :
              pc'[u] = pc[u] /\ outcome'[u] = outcome[u] /\ event'[u] = event[u]
  BY DEF EndRecorded, Finish, LifecycleEvent, TypeOK

(* So does a stream that closes, or it saves first.                        *)
LEMMA ClosesTrue ==
  ASSUME TypeOK, NEW t \in Turns, NEW how \in {"cancelled", "failed"}, CloseStream(t, how)
  PROVE  /\ \/ pc'[t] = "closing" /\ event'[t] = event[t] /\ outcome'[t] = outcome[t]
            \/ /\ pc'[t] = "done" /\ outcome'[t] \in {"failed", "cancelled"}
               /\ event'[t] \in {event[t], "stream_failed", "stream_cancelled"}
         /\ \A u \in Turns \ {t} :
              pc'[u] = pc[u] /\ outcome'[u] = outcome[u] /\ event'[u] = event[u]
<1>1. CASE how \in SavePolicy
  BY <1>1 DEF CloseStream, TypeOK
<1>2. CASE how \notin SavePolicy
  BY <1>2, EndsTrue DEF CloseStream
<1> QED
  BY <1>1, <1>2

(* Each step of a turn's coroutine, its cancellations included.            *)
LEMMA CoroutinesTellTrue ==
  ASSUME TypeOK, \A u \in Turns : TrueEvent(u), NEW t \in Turns,
         \/ TurnStep(t) \/ InterruptStream(t) \/ InterruptLoading(t)
         \/ InterruptClosing(t) \/ CancelChat(t)
  PROVE  \A u \in Turns : TrueEvent(u)'
<1>1. /\ pc \in [Turns -> Locations] /\ outcome \in [Turns -> Outcomes]
      /\ event \in [Turns -> Events]
      /\ saveJob \in [Turns -> [JobNames -> JobStatus]]
      /\ closingAs[t] \in {"cancelled", "failed"}
  BY DEF TypeOK
<1>2. TrueEvent(t) /\ "final" \in JobNames
  BY DEF JobNames
<1> DEFINE Others == \A u \in Turns \ {t} : event'[u] = event[u]
<1>3. CASE Start(t) \/ RuntimeReturns(t)
  <2>1. /\ pc[t] \in {"idle", "running"} /\ pc'[t] \in {"loading", "saving"}
        /\ event' = event /\ call' = call /\ OthersAlone(t)
    BY <1>1, <1>3 DEF Start, RuntimeReturns, Goto, OthersAlone
  <2> QED
    BY <1>2, <2>1, TurnGoesOn, OthersStay
<1>4. CASE LoadState(t)
  <2>1. /\ pc[t] = "loading" /\ pc'[t] = "running"
        /\ event'[t] \in {event[t], "stream_started"}
        /\ call' = call /\ OthersAlone(t) /\ Others
    BY <1>1, <1>4 DEF LoadState, Goto, OthersAlone
  <2> QED
    BY <1>2, <2>1, TurnGoesOn, OthersStay
<1>5. CASE LoadFails(t)
  <2>1. /\ pc[t] = "loading" /\ pc'[t] = "done" /\ event' = event
        /\ call' = call /\ OthersAlone(t)
    BY <1>1, <1>5 DEF LoadFails, Finish, OthersAlone
  <2> QED
    BY <1>2, <2>1, TurnGoesOn, OthersStay
<1>6. ASSUME pc[t] \in {"loading", "running", "saving"}, call' = call,
             NEW how \in {"cancelled", "failed"}, CloseStream(t, how),
             CloseJobs(t, how)
      PROVE  \A u \in Turns : TrueEvent(u)'
  <2>1. OthersAlone(t) /\ Others
    BY <1>1, <1>6, ClosesTrue DEF OthersAlone, CloseJobs
  <2>2. \/ pc'[t] = "closing" /\ event'[t] = event[t]
        \/ /\ pc'[t] = "done" /\ outcome'[t] \in {"failed", "cancelled"}
           /\ event'[t] \in {event[t], "stream_failed", "stream_cancelled"}
    BY <1>6, ClosesTrue
  <2>3. TrueEvent(t)'
    BY <1>2, <1>6, <2>2, TurnGoesOn
  <2> QED
    BY <1>6, <2>1, <2>3, OthersStay
<1>7. CASE StartUnrecorded(t) \/ InterruptStream(t)
  BY <1>6, <1>7 DEF StartUnrecorded, InterruptStream
<1>8. CASE RuntimeFails(t)
  <2>1. CASE IsStream(t)
    BY <1>6, <1>8, <2>1 DEF RuntimeFails
  <2>2. CASE ~IsStream(t)
    <3>1. /\ pc[t] = "running" /\ pc'[t] = "done" /\ event' = event
          /\ call' = call /\ OthersAlone(t)
      BY <1>1, <1>8, <2>2 DEF RuntimeFails, Finish, OthersAlone
    <3> QED
      BY <1>2, <3>1, TurnGoesOn, OthersStay
  <2> QED
    BY <2>1, <2>2
<1>9. CASE SaveReturns(t)
  <2>1. /\ pc[t] = "saving" /\ event' = event /\ call' = call /\ OthersAlone(t)
        /\ saveJob' = saveJob
    BY <1>1, <1>9 DEF SaveReturns, Finish, OthersAlone
  <2>2. \/ pc'[t] = "done"
        \/ /\ pc'[t] = "completing" /\ Committed(t, "final")
           /\ IsStream(t) => outcome'[t] = "completed"
    BY <1>1, <1>9 DEF SaveReturns, Finish, Committed
  <2>3. TrueEvent(t)'
    BY <1>2, <2>1, <2>2, TurnGoesOn DEF Committed, IsStream
  <2> QED
    BY <2>1, <2>3, OthersStay
<1>10. CASE ClosingReturns(t)
  <2>1. /\ pc[t] = "closing" /\ call' = call /\ saveJob' = saveJob
    BY <1>10 DEF ClosingReturns
  <2>2. \/ EndRecorded(t, closingAs[t])
        \/ (\E how \in {"conflict", "unavailable"} : Finish(t, how)) /\ UNCHANGED event
    BY <1>10 DEF ClosingReturns
  <2>3. CASE EndRecorded(t, closingAs[t])
    <3>1. /\ pc'[t] = "done" /\ outcome'[t] \in {"failed", "cancelled"}
          /\ event'[t] \in {event[t], "stream_failed", "stream_cancelled"}
          /\ OthersAlone(t) /\ Others
      BY <1>1, <2>1, <2>3, EndsTrue DEF OthersAlone
    <3> QED
      BY <1>2, <2>1, <3>1, TurnGoesOn, OthersStay
  <2>4. CASE (\E how \in {"conflict", "unavailable"} : Finish(t, how)) /\ UNCHANGED event
    <3>1. pc'[t] = "done" /\ OthersAlone(t)
      BY <1>1, <2>1, <2>4 DEF Finish, OthersAlone
    <3> QED
      BY <1>2, <2>1, <2>4, <3>1, TurnGoesOn, OthersStay
  <2> QED
    BY <2>2, <2>3, <2>4
<1>11. ASSUME pc[t] = "completing", ~IsStream(t), event' \in {event, ChatEvent(t)},
              call' = call, \E how \in {"completed", "cancelled"} : Finish(t, how),
              saveJob'[t]["final"] \in {saveJob[t]["final"], Abandoned(saveJob[t]["final"])},
              \A u \in Turns \ {t} : saveJob'[u] = saveJob[u]
       PROVE  \A u \in Turns : TrueEvent(u)'
  <2>1. /\ pc'[t] = "done" /\ outcome'[t] \in {"completed", "cancelled"} /\ OthersAlone(t)
    BY <1>1, <1>11 DEF Finish, OthersAlone
  <2>2. Others /\ event'[t] \in Announced \cup {event[t]}
    BY <1>1, <1>11 DEF ChatEvent, Announced
  <2>3. Committed(t, "final")'
    BY <1>2, <1>11 DEF TrueEvent, Committed, Abandoned
  <2>4. TrueEvent(t)'
    BY <1>2, <1>11, <2>1, <2>2, <2>3, TurnGoesOn
  <2> QED
    BY <1>11, <2>1, <2>2, <2>4, OthersStay
<1>12. CASE FinishChat(t)
  <2>1. CASE Finish(t, "completed") /\ event' = ChatEvent(t)
    BY <1>11, <1>12, <2>1 DEF FinishChat
  <2>2. CASE Finish(t, "failed") /\ UNCHANGED event
    <3>1. pc[t] = "completing" /\ pc'[t] = "done" /\ OthersAlone(t) /\ call' = call
      BY <1>1, <1>12, <2>2 DEF FinishChat, Finish, OthersAlone
    <3> QED
      BY <1>2, <2>2, <3>1, TurnGoesOn, OthersStay
  <2> QED
    BY <1>12, <2>1, <2>2 DEF FinishChat
<1>13. CASE DrainStream(t) \/ CloseCompletedStream(t)
  <2>1. /\ pc[t] = "completing" /\ pc'[t] = "done" /\ IsStream(t)
        /\ call' = call /\ saveJob' = saveJob /\ outcome' = outcome /\ OthersAlone(t)
    BY <1>1, <1>13 DEF DrainStream, CloseCompletedStream, Goto, OthersAlone
  <2>2. Others /\ event'[t] \in {event[t], "stream_completed", "stream_failed"}
    BY <1>1, <1>13 DEF DrainStream, CloseCompletedStream
  <2>3. Committed(t, "final")' /\ outcome'[t] = "completed"
    BY <1>2, <2>1 DEF TrueEvent, Committed
  <2>4. TrueEvent(t)'
    BY <1>2, <2>1, <2>2, <2>3, TurnGoesOn DEF Announced
  <2> QED
    BY <2>1, <2>2, <2>4, OthersStay
<1>14. CASE InterruptLoading(t)
  <2>1. /\ pc[t] = "loading" /\ call' = call /\ saveJob' = saveJob
        /\ EndRecorded(t, "cancelled")
    BY <1>14 DEF InterruptLoading
  <2>2. /\ pc'[t] = "done" /\ outcome'[t] \in {"failed", "cancelled"}
        /\ event'[t] \in {event[t], "stream_failed", "stream_cancelled"}
        /\ OthersAlone(t) /\ Others
    BY <1>1, <2>1, EndsTrue DEF OthersAlone
  <2> QED
    BY <1>2, <2>1, <2>2, TurnGoesOn, OthersStay
<1>15. CASE InterruptClosing(t)
  <2>1. /\ pc[t] = "closing" /\ pc'[t] = "done" /\ event' = event /\ call' = call
        /\ OthersAlone(t)
    BY <1>1, <1>15 DEF InterruptClosing, Finish, OthersAlone
  <2> QED
    BY <1>2, <2>1, TurnGoesOn, OthersStay
<1>16. CASE CancelChat(t)
  <2>1. /\ pc[t] \in {"loading", "running", "saving", "completing"} /\ call' = call
        /\ Finish(t, "cancelled") /\ ~IsStream(t)
        /\ saveJob'[t]["final"] = Abandoned(saveJob[t]["final"])
        /\ \A u \in Turns \ {t} : saveJob'[u] = saveJob[u]
    BY <1>1, <1>2, <1>16 DEF CancelChat
  <2>2. CASE pc[t] = "completing"
    BY <1>11, <1>16, <2>1, <2>2 DEF CancelChat
  <2>3. CASE pc[t] # "completing"
    <3>1. event' = event /\ pc'[t] = "done" /\ OthersAlone(t)
      BY <1>1, <1>16, <2>1, <2>3 DEF CancelChat, Finish, OthersAlone
    <3> QED
      BY <1>2, <2>1, <3>1, TurnGoesOn, OthersStay
  <2> QED
    BY <2>2, <2>3
<1> QED
  BY <1>3, <1>4, <1>5, <1>7, <1>8, <1>9, <1>10, <1>12, <1>13, <1>14, <1>15, <1>16
     DEF TurnStep

(* Threads, resets, deletions and crashes record nothing.                  *)
LEMMA OthersTellNothing ==
  ASSUME TypeOK, \A u \in Turns : TrueEvent(u),
         \/ \E t \in Turns, j \in JobNames : JobStep(t, j)
         \/ \E r \in ResetRequests : ResetStep(r) \/ CancelReset(r)
         \/ \E s \in Sessions : DeleteSession(s) \/ ExpireArtifacts(s)
         \/ \E t \in Turns : SaveArtifact(t)
         \/ Crash \/ UNCHANGED vars
  PROVE  \A u \in Turns : TrueEvent(u)'
<1> SUFFICES ASSUME NEW u \in Turns PROVE TrueEvent(u)'
  OBVIOUS
<1>1. saveJob \in [Turns -> [JobNames -> JobStatus]] /\ "final" \in JobNames
  BY DEF TypeOK, JobNames
<1>2. CASE \E t \in Turns, j \in JobNames : JobStep(t, j)
  <2>1. UNCHANGED <<pc, call, outcome, event>>
    BY <1>2 DEF JobStep, ThreadTakes, ThreadCommits, ThreadConflicts, ThreadFails
  <2>2. Committed(u, "final") => Committed(u, "final")'
    <3>1. PICK t \in Turns, j \in JobNames : JobStep(t, j)
      BY <1>2
    <3>2. /\ saveJob[t][j] \in {"queued", "running"}
          /\ \E status \in {"running", "committed", "conflict", "error"} :
               saveJob' = [saveJob EXCEPT ![t][j] = status]
      BY <3>1 DEF JobStep, ThreadTakes, ThreadCommits, ThreadConflicts, ThreadFails
    <3> QED
      BY <1>1, <3>2 DEF Committed
  <2> QED
    BY <2>1, <2>2, TurnStays
<1>3. CASE Crash
  <2>1. UNCHANGED <<call, outcome, event>>
    BY <1>3 DEF Crash
  <2>2. pc'[u] = pc[u] \/ (pc[u] \notin {"done", "crashed"} /\ pc'[u] = "crashed")
    BY <1>3 DEF Crash, InFlight
  <2>3. Committed(u, "final") => Committed(u, "final")'
    BY <1>1, <1>3 DEF Crash, Committed
  <2> QED
    BY <2>1, <2>2, <2>3, TurnStays
<1>4. ASSUME UNCHANGED turnVars PROVE TrueEvent(u)'
  BY <1>4, TurnStays DEF turnVars, Committed
<1>5. CASE \E r \in ResetRequests : ResetStep(r) \/ CancelReset(r)
  <2>1. UNCHANGED turnVars
    BY <1>5 DEF ResetStep, StartReset, AllowReset, RefuseReset, ResetCommits, ResetFails,
                ClearArtifacts, ClearFails, CancelReset
  <2> QED
    BY <1>4, <2>1
<1>6. CASE \/ \E s \in Sessions : DeleteSession(s) \/ ExpireArtifacts(s)
           \/ \E t \in Turns : SaveArtifact(t)
           \/ UNCHANGED vars
  <2>1. UNCHANGED turnVars
    BY <1>6 DEF DeleteSession, ExpireArtifacts, SaveArtifact, vars
  <2> QED
    BY <1>4, <2>1
<1> QED
  BY <1>2, <1>3, <1>5, <1>6

(* The session event a turn leaves behind is true of it, in every          *)
(* deployment: an answer is announced only once it is saved, and no stream *)
(* is recorded as cancelled after its completion went out.                 *)
THEOREM EventsAreTrue == Spec => []EventsMatchOutcomes
<1> DEFINE AllTrue == \A t \in Turns : TrueEvent(t)
<1>1. Init => AllTrue
  BY DEF Init, TrueEvent, Announced
<1>2. TypeOK /\ AllTrue /\ [Next]_vars => AllTrue'
  BY CoroutinesTellTrue, OthersTellNothing DEF Next, Environment, Cancellation, Terminated
<1>3. AllTrue => EventsMatchOutcomes
  BY DEF TrueEvent, EventsMatchOutcomes, Announced
<1> HIDE DEF AllTrue
<1> QED
  BY <1>1, <1>2, <1>3, TypeCorrect, PTL DEF Spec

-----------------------------------------------------------------------------
(* The protected deployment implements SessionLog.                         *)

(* Shorthands for the refinement mapping of SessionTurnsProps.             *)
Log == [s \in Sessions |-> current[s].doc.messages]

Began == [t \in Turns |-> [session |-> SessionOf(t), cleared |-> base[t].generation]]

Added == [t \in Turns |-> AddedBy(t)]

Acked == {t \in Turns : outcome[t] = "completed"}

(* The protected deployment starts as a promise does: empty logs, nothing  *)
(* added or acknowledged.                                                  *)
LEMMA PromiseInit == Guarded /\ Init => Promise!Init
<1> SUFFICES ASSUME Guarded, Init PROVE Promise!Init
  OBVIOUS
<1>1. TypeOK
  BY InitTypes
<1>2. Log = [s \in Sessions |-> << >>]
  BY DEF Guarded, Init, StoreInit, Log, EmptyDocument
<1>3. resetCount \in [Sessions -> Nat]
  BY <1>1 DEF TypeOK, StoreTypeOK
<1>4. Began \in [Turns -> [session : Sessions, cleared : Nat]]
  BY <1>1 DEF TypeOK, Began, SessionOf, Calls, LoadedRecord
<1>5. Added = [t \in Turns |-> "nothing"]
  BY DEF Init, Added, AddedBy, Committed, JobNames
<1>6. Acked = {}
  BY DEF Init, Acked
<1> QED
  BY <1>2, <1>3, <1>4, <1>5, <1>6 DEF Promise!Init, Log, Began, Added, Acked

(* A quiet step changes at most who is acknowledged.                       *)
LEMMA QuietIsSilent ==
  ASSUME Quiet
  PROVE  Log' = Log /\ resetCount' = resetCount /\ Began' = Began /\ Added' = Added
<1>1. /\ current' = current /\ resetCount' = resetCount /\ call' = call /\ base' = base
      /\ \A t \in Turns : /\ Committed(t, "final")' <=> Committed(t, "final")
                          /\ Committed(t, "closing")' <=> Committed(t, "closing")
  BY DEF Quiet, storeVars, JobNames
<1> QED
  BY <1>1 DEF Log, Began, Added, AddedBy, SessionOf

(* A reply is given once, and "completed" only after the answer committed. *)
ReplyTo(t) ==
  /\ outcome[t] # "completed"
  /\ \E how \in Outcomes :
       /\ outcome' = [outcome EXCEPT ![t] = how]
       /\ how = "completed" => Committed(t, "final")

(* Each step of a turn, its cancellation included, replies at most once.   *)
LEMMA RepliesAreFinal ==
  ASSUME Inductive, NEW t \in Turns,
         \/ TurnStep(t) /\ ~Loads(t)
         \/ InterruptStream(t) \/ InterruptLoading(t) \/ InterruptClosing(t) \/ CancelChat(t)
  PROVE  outcome' = outcome \/ ReplyTo(t)
<1>1. SoundTurn(t)
  BY TurnsAreSound DEF Inductive, TurnInvariants
<1>2. pc[t] \in {"loading", "running", "saving", "closing"} => outcome[t] # "completed"
  BY <1>1 DEF SoundTurn
<1>3. pc[t] = "completing" => Committed(t, "final")
  BY <1>1 DEF SoundTurn
<1>4. pc[t] = "completing" /\ ~IsStream(t) => outcome[t] # "completed"
  BY <1>1 DEF SoundTurn
<1>5. closingAs[t] \in Outcomes \ {"completed"}
  BY DEF Inductive, TypeOK, Outcomes
<1>6. CASE \/ Start(t) \/ RuntimeReturns(t) \/ DrainStream(t)
           \/ CloseCompletedStream(t)
  BY <1>6 DEF Start, RuntimeReturns, DrainStream, CloseCompletedStream
<1>7. CASE LoadFails(t) \/ InterruptLoading(t) \/ InterruptClosing(t)
  BY <1>2, <1>7, EndsIncomplete
     DEF LoadFails, InterruptLoading, InterruptClosing, Finish, ReplyTo, Outcomes
<1>8. CASE RuntimeFails(t) \/ InterruptStream(t)
  BY <1>2, <1>8, ClosesIncomplete DEF RuntimeFails, InterruptStream, Finish, ReplyTo, Outcomes
<1>9. CASE SaveReturns(t)
  <2>1. outcome[t] # "completed"
    BY <1>2, <1>9 DEF SaveReturns
  <2>2. CASE saveJob[t]["final"] = "committed"
    BY <1>9, <2>1, <2>2 DEF SaveReturns, ReplyTo, Committed, Outcomes, Inductive, TypeOK
  <2>3. CASE saveJob[t]["final"] # "committed"
    BY <1>9, <2>1, <2>3 DEF SaveReturns, Finish, ReplyTo, Outcomes
  <2> QED
    BY <2>2, <2>3
<1>10. CASE ClosingReturns(t)
  <2>1. outcome[t] # "completed"
    BY <1>2, <1>10 DEF ClosingReturns
  <2>2. \E how \in Outcomes \ {"completed"} : outcome' = [outcome EXCEPT ![t] = how]
    BY <1>5, <1>10 DEF ClosingReturns, EndRecorded, Finish, Outcomes
  <2> QED
    BY <2>1, <2>2 DEF ReplyTo
<1>11. CASE FinishChat(t)
  BY <1>3, <1>4, <1>11 DEF FinishChat, Finish, ReplyTo, Outcomes
<1>12. CASE CancelChat(t)
  BY <1>2, <1>4, <1>12 DEF CancelChat, Finish, ReplyTo, Outcomes
<1> QED
  BY <1>6, <1>7, <1>8, <1>9, <1>10, <1>11, <1>12 DEF TurnStep, Loads

(* So a quiet step is a stutter of the promise or acknowledges one turn.   *)
LEMMA QuietStepsMap ==
  ASSUME Inductive, Quiet, outcome' = outcome \/ \E t \in Turns : ReplyTo(t)
  PROVE  [Promise!Next]_Promise!logVars
<1>1. Log' = Log /\ resetCount' = resetCount /\ Began' = Began /\ Added' = Added
  BY QuietIsSilent
<1>2. CASE Acked' = Acked
  BY <1>1, <1>2 DEF Promise!logVars, Log, Began, Added, Acked
<1>3. CASE Acked' # Acked
  <2>1. outcome' # outcome
    BY <1>3 DEF Acked
  <2>2. PICK t \in Turns : ReplyTo(t)
    BY <2>1
  <2>3. outcome'[t] = "completed" /\ Committed(t, "final")
    BY <1>3, <2>2 DEF ReplyTo, Acked, Inductive, TypeOK
  <2>4. Acked' = Acked \cup {t}
    BY <2>2, <2>3 DEF ReplyTo, Acked, Inductive, TypeOK
  <2>5. Added[t] = "answer"
    BY <2>3 DEF Added, AddedBy
  <2>6. Promise!Acknowledge(t)
    BY <1>1, <2>4, <2>5 DEF Promise!Acknowledge, Log, Began, Added, Acked
  <2> QED
    BY <2>6 DEF Promise!Next
<1> QED
  BY <1>2, <1>3

(* Loading begins a turn from the log as it is since the last reset.       *)
LEMMA LoadingBegins ==
  ASSUME Inductive, NEW t \in Turns, Loads(t), NEW s \in Sessions, s = SessionOf(t)
  PROVE  Promise!Begin(t, s)
<1>1. /\ current' = current /\ resetCount' = resetCount /\ call' = call
      /\ base' = [base EXCEPT ![t] = Loaded(SessionOf(t))]
      /\ \A u \in Turns : /\ Committed(u, "final")' <=> Committed(u, "final")
                          /\ Committed(u, "closing")' <=> Committed(u, "closing")
                          /\ outcome'[u] = "completed" <=> outcome[u] = "completed"
  BY LoadingFacts DEF Inductive, TurnInvariants, storeVars, Committed, OthersAlone
<1>2. SessionOf(t) \in Sessions /\ base \in [Turns -> LoadedRecord]
  BY DEF Inductive, TypeOK, SessionOf, Calls
<1>3. Loaded(SessionOf(t)).generation = resetCount[SessionOf(t)]
  BY <1>2 DEF Loaded, Inductive, RowsAreStamped
<1>4. Added[t] = "nothing"
  BY LoadingFacts DEF Inductive, TurnInvariants, Added, AddedBy, Committed
<1>5. Log' = Log /\ Added' = Added /\ Acked' = Acked
  BY <1>1 DEF Log, Added, AddedBy, Acked
<1>6. Began' = [Began EXCEPT ![t] = [session |-> SessionOf(t), cleared |-> resetCount[SessionOf(t)]]]
  <2>1. base'[t].generation = resetCount[SessionOf(t)]
    BY <1>1, <1>2, <1>3
  <2>2. \A u \in Turns \ {t} : base'[u] = base[u]
    BY <1>1, <1>2
  <2>3. \A u \in Turns : SessionOf(u)' = SessionOf(u)
    BY <1>1 DEF SessionOf
  <2> QED
    BY <2>1, <2>2, <2>3 DEF Began
<1> QED
  BY <1>1, <1>4, <1>5, <1>6 DEF Promise!Begin, Log, Began, Added, Acked

(* A commit adds the turn's messages to the log it began from.             *)
LEMMA CommitsAdd ==
  ASSUME Guarded, Inductive, NEW t \in Turns, NEW j \in JobNames, ThreadCommits(t, j)
  PROVE  Promise!AddAnswer(t) \/ Promise!AddQuestion(t)
<1> DEFINE s   == SessionOf(t)
           old == base[t].doc.messages
           new == JobDocument(t, j)
<1>1. /\ resetCount' = resetCount /\ call' = call /\ base' = base /\ outcome' = outcome
      /\ saveJob[t][j] = "running"
      /\ saveJob' = [saveJob EXCEPT ![t][j] = "committed"]
  BY DEF ThreadCommits, CommitSave
<1>2. base[t].doc = current[s].doc /\ NotCleared(t)
  BY CommitsAreCurrent
<1>3. /\ s \in Sessions /\ current \in [Sessions -> Row]
      /\ saveJob \in [Turns -> [JobNames -> JobStatus]]
  BY DEF Inductive, TypeOK, StoreTypeOK, SessionOf, Calls
<1>4. ~Committed(t, "final") /\ ~Committed(t, "closing")
  <2>1. base[t].version = current[s].version
    BY CommitsAreCurrent
  <2>2. base[t].version \in Nat
    BY DEF Inductive, TypeOK, LoadedRecord
  <2> QED
    BY <2>1, <2>2 DEF Inductive, SavedBasesArePassed, JobNames
<1>5. Log' = [Log EXCEPT ![s] = new.messages]
  <2>1. current' = [current EXCEPT ![s] =
          [version |-> current[s].version + 1, doc |-> new, generation |-> resetCount[s]]]
    BY DEF ThreadCommits, CommitSave, WriteRow
  <2> HIDE DEF s, new
  <2>2. current'[s].doc = new /\ \A x \in Sessions \ {s} : current'[x] = current[x]
    BY <1>3, <2>1
  <2> QED
    BY <1>3, <2>2 DEF Log
<1>6. /\ Began' = Began /\ Acked' = Acked
      /\ Log[s] = old /\ Began[t].session = s /\ Began[t].cleared = resetCount[s]
      /\ Added[t] = "nothing"
  BY <1>1, <1>2, <1>3, <1>4 DEF Began, Acked, Log, Added, AddedBy, SessionOf, NotCleared
<1>7. CASE j = "final"
  <2>1. new.messages = Append(Append(old, Promise!Question(t)), Promise!Answer(t))
    BY <1>7 DEF JobDocument, Draft, Answered, PrepareForChat, UserMessage, AssistantMessage,
                Promise!Question, Promise!Answer
  <2>2. Added' = [Added EXCEPT ![t] = "answer"]
    <3>1. \A u \in Turns : AddedBy(u)' = IF u = t THEN "answer" ELSE AddedBy(u)
      BY <1>1, <1>3, <1>7 DEF AddedBy, Committed, JobNames
    <3> QED
      BY <3>1 DEF Added
  <2> HIDE DEF s, old, new
  <2>3. Promise!AddAnswer(t)
    BY <1>1, <1>5, <1>6, <2>1, <2>2
       DEF Promise!AddAnswer, Promise!MayAdd, Log, Began, Added, Acked
  <2> QED
    BY <2>3
<1>8. CASE j = "closing"
  <2>1. new.messages = Append(old, Promise!Question(t))
    BY <1>8 DEF JobDocument, Draft, Closed, PrepareForChat, UserMessage, Promise!Question
  <2>2. Added' = [Added EXCEPT ![t] = "question"]
    <3>1. \A u \in Turns : AddedBy(u)' = IF u = t THEN "question" ELSE AddedBy(u)
      BY <1>1, <1>3, <1>4, <1>8 DEF AddedBy, Committed, JobNames
    <3> QED
      BY <3>1 DEF Added
  <2> HIDE DEF s, old, new
  <2>3. Promise!AddQuestion(t)
    BY <1>1, <1>5, <1>6, <2>1, <2>2
       DEF Promise!AddQuestion, Promise!MayAdd, Log, Began, Added, Acked
  <2> QED
    BY <2>3
<1> QED
  BY <1>7, <1>8 DEF JobNames

(* A reset clears one log.                                                 *)
LEMMA ResetsClear ==
  ASSUME Guarded, Inductive, NEW r \in ResetRequests, ResetCommits(r),
         NEW s \in Sessions, s = resetOf[r]
  PROVE  Promise!Clear(s)
<1>1. /\ call' = call /\ base' = base /\ outcome' = outcome /\ saveJob' = saveJob
      /\ resetCount' = [resetCount EXCEPT ![s] = @ + 1]
      /\ current' = [current EXCEPT ![s] =
           [version |-> current[s].version + 1, doc |-> EmptyDocument,
            generation |-> resetCount[s] + 1]]
  BY DEF ResetCommits, CommitReset, WriteRow, turnVars, Guarded, RowsStay
<1>2. s \in Sessions /\ current \in [Sessions -> Row]
  BY DEF Inductive, TypeOK, StoreTypeOK
<1>3. Log' = [Log EXCEPT ![s] = << >>]
  <2>1. current'[s].doc = EmptyDocument /\ \A x \in Sessions \ {s} : current'[x] = current[x]
    BY <1>1, <1>2
  <2>2. EmptyDocument.messages = << >>
    BY DEF EmptyDocument
  <2> QED
    BY <1>2, <2>1, <2>2 DEF Log
<1>4. Began' = Began /\ Added' = Added /\ Acked' = Acked
  BY <1>1 DEF Began, Added, AddedBy, Committed, Acked, SessionOf
<1> QED
  BY <1>1, <1>3, <1>4 DEF Promise!Clear, Log, Began, Added, Acked

(* Every step of the protected deployment is a step of the promise, or     *)
(* changes nothing the promise speaks of.                                  *)
LEMMA PromiseNext ==
  ASSUME Guarded, Inductive, [Next]_vars
  PROVE  [Promise!Next]_Promise!logVars
<1>1. TypeOK /\ TurnInvariants
  BY DEF Inductive, TurnInvariants
<1>2. ASSUME NEW t \in Turns, TurnStep(t) PROVE [Promise!Next]_Promise!logVars
  <2>1. CASE Loads(t)
    <3>1. PICK s \in Sessions : s = SessionOf(t)
      BY <1>1 DEF TypeOK, SessionOf, Calls
    <3>2. Promise!Begin(t, s)
      BY <2>1, <3>1, LoadingBegins
    <3> QED
      BY <3>2 DEF Promise!Next
  <2>2. CASE ~Loads(t)
    BY <1>1, <1>2, <2>2, TurnStepsAreQuiet, RepliesAreFinal, QuietStepsMap
  <2> QED
    BY <2>1, <2>2
<1>3. ASSUME NEW t \in Turns, NEW j \in JobNames, JobStep(t, j)
      PROVE  [Promise!Next]_Promise!logVars
  <2>1. CASE ThreadCommits(t, j)
    BY <2>1, CommitsAdd DEF Promise!Next
  <2>2. CASE ThreadTakes(t, j) \/ ThreadConflicts(t, j) \/ ThreadFails(t, j)
    <3>1. outcome' = outcome
      BY <2>2 DEF ThreadTakes, ThreadConflicts, ThreadFails
    <3> QED
      BY <1>1, <2>2, <3>1, FruitlessJobsAreQuiet, QuietStepsMap
  <2> QED
    BY <1>3, <2>1, <2>2 DEF JobStep
<1>4. ASSUME NEW r \in ResetRequests, ResetCommits(r) PROVE [Promise!Next]_Promise!logVars
  <2>1. PICK s \in Sessions : s = resetOf[r]
    BY <1>1 DEF TypeOK
  <2>2. Promise!Clear(s)
    BY <1>4, <2>1, ResetsClear
  <2> QED
    BY <2>2 DEF Promise!Next
<1>5. ASSUME NEW t \in Turns, \/ InterruptStream(t) \/ InterruptLoading(t)
                             \/ InterruptClosing(t) \/ CancelChat(t)
      PROVE  [Promise!Next]_Promise!logVars
  BY <1>1, <1>5, CancellationsAreQuiet, RepliesAreFinal, QuietStepsMap
<1>6. CASE Crash
  <2>1. outcome' = outcome
    BY <1>6 DEF Crash
  <2> QED
    BY <1>1, <1>6, <2>1, CrashIsQuiet, QuietStepsMap
<1>7. CASE UNCHANGED <<storeVars, turnVars>>
  <2>1. outcome' = outcome
    BY <1>7 DEF turnVars
  <2> QED
    BY <1>1, <1>7, <2>1, BystandersAreQuiet, QuietStepsMap
<1>8. CASE \E r \in ResetRequests : (ResetStep(r) \/ CancelReset(r)) /\ ~ResetCommits(r)
  <2>1. UNCHANGED <<storeVars, turnVars>>
    BY <1>8 DEF ResetStep, StartReset, AllowReset, RefuseReset, ResetFails,
                ClearArtifacts, ClearFails, CancelReset
  <2> QED
    BY <1>7, <2>1
<1>9. CASE \/ \E s \in Sessions : DeleteSession(s) \/ ExpireArtifacts(s)
           \/ \E t \in Turns : SaveArtifact(t)
           \/ UNCHANGED vars
  <2>1. UNCHANGED <<storeVars, turnVars>>
    BY <1>9 DEF DeleteSession, ExpireArtifacts, SaveArtifact, vars, Guarded, RowsStay
  <2> QED
    BY <1>7, <2>1
<1> QED
  BY <1>2, <1>3, <1>4, <1>5, <1>6, <1>8, <1>9 DEF Next, Environment, Cancellation, Terminated

(* The protected deployment keeps the one-log promise: each conversation   *)
(* behaves as a log to which turns add themselves whole, at most once, and *)
(* only to the log they began from.                                        *)
THEOREM PromiseKept == Guarded => (Spec => ImplementsPromise)
<1> SUFFICES ASSUME Guarded PROVE Spec => ImplementsPromise
  OBVIOUS
<1>1. Init => Promise!Init
  BY PromiseInit
<1>2. Inductive /\ [Next]_vars => [Promise!Next]_Promise!logVars
  BY PromiseNext
<1> QED
  BY <1>1, <1>2, GuardedIsProtected, PTL DEF Spec, ImplementsPromise, Promise!Spec
=============================================================================
