-------------------------- MODULE LlmGatewayProofs --------------------------
(***************************************************************************)
(* GatewaySound is inductive, for every plan of profiles and every number  *)
(* of retries; OneAttemptSpeaks and OutcomeFits follow from it, and so     *)
(* does each step of the refinement of GatewayPromise.                     *)
(***************************************************************************)
EXTENDS LlmGatewayProps, TLAPS

(* An attempt is a profile of the plan and one of its tries. *)
LEMMA AttemptPairs ==
  /\ \A p \in Profiles : \A a \in 0 .. Retries[p] : <<p, a>> \in Attempts
  /\ \A x \in Attempts : \E p \in Profiles : \E a \in 0 .. Retries[p] : x = <<p, a>>
BY DEF Attempts

LEMMA CurrentIsAttempt ==
  ASSUME TypeOK
  PROVE  Current \in Attempts
BY AttemptPairs DEF TypeOK, Current

(* A record made for the current attempt changes that attempt's alone. *)
LEMMA RecordMade ==
  ASSUME TypeOK, NEW what \in Records, record' = [record EXCEPT ![Current] = what]
  PROVE  /\ record' \in [Attempts -> Records]
         /\ record'[<<profile, attempt>>] = what
         /\ \A p \in Profiles : \A a \in 0 .. Retries[p] :
              p # profile \/ a # attempt => record'[<<p, a>>] = record[<<p, a>>]
<1>1. record \in [Attempts -> Records] /\ <<profile, attempt>> \in Attempts
  BY CurrentIsAttempt DEF TypeOK, Current
<1>2. record' = [record EXCEPT ![<<profile, attempt>>] = what]
  BY DEF Current
<1>3. ASSUME NEW p \in Profiles, NEW a \in 0 .. Retries[p], p # profile \/ a # attempt
      PROVE  record'[<<p, a>>] = record[<<p, a>>]
  <2>1. <<p, a>> \in Attempts /\ <<p, a>> # <<profile, attempt>>
    BY <1>3, AttemptPairs
  <2> QED BY <1>1, <1>2, <2>1
<1> QED BY <1>1, <1>2, <1>3

LEMMA GatewayInit ==
  ASSUME Init
  PROVE  CallSound
<1>1. 0 \in Profiles /\ 0 \in 0 .. Retries[0]
  BY GatewayAssumption DEF Profiles
<1>2. TypeOK
  BY <1>1 DEF Init, TypeOK, Points, Feeds, Records, Outcomes
<1>3. AttemptsInOrder /\ PermittedOnly
  <2>1. \A p \in Profiles : \A a \in 0 .. Retries[p] : record[<<p, a>>] = "none"
    BY AttemptPairs DEF Init
  <2>2. \A p \in Profiles : ~(p < 0) /\ \A a \in 0 .. Retries[p] : ~(a < 0)
    BY DEF Profiles
  <2> QED
    BY <1>1, <2>1, <2>2 DEF Init, AttemptsInOrder, PermittedOnly, Unmade, Current
<1>4. SpeechFits /\ FeedFits /\ OutcomeFits
  BY DEF Init, SpeechFits, FeedFits, OutcomeFits, Unmade
<1> QED BY <1>2, <1>3, <1>4 DEF CallSound

(* Steps of the gateway between calls (gateway.py:75-100, :194). *)
LEMMA GatewayKeeps ==
  ASSUME CallSound, GatewayStep
  PROVE  CallSound'
<1> USE DEF place, history
<1>1. CASE Resolve \/ ResolveFails \/ Deny
  <2>1. UNCHANGED <<op, profile, attempt, feed, sawDelta, closing, permitted, record, spoke, completions, excused>>
    BY <1>1 DEF Resolve, ResolveFails, Deny
  <2>2. \/ at = "resolving" /\ at' = "authorizing" /\ UNCHANGED outcome
        \/ /\ at \in {"resolving", "authorizing"} /\ at' = "over"
           /\ \/ closing /\ outcome' = "closed"
              \/ ~closing /\ outcome' \in {"failed", "denied"}
    BY <1>1, <2>1 DEF Resolve, ResolveFails, Deny, EndAs
  <2>3. TypeOK'
    BY <2>1, <2>2 DEF CallSound, TypeOK, Points, Outcomes
  <2>4. AttemptsInOrder'
    BY <2>1, <2>2 DEF CallSound, AttemptsInOrder, Unmade, Current
  <2>5. PermittedOnly'
    BY <2>1, <2>2 DEF CallSound, PermittedOnly
  <2>6. SpeechFits' /\ FeedFits'
    BY <2>1, <2>2 DEF CallSound, SpeechFits, FeedFits, Unmade, Current
  <2>7. OutcomeFits'
    BY <2>1, <2>2 DEF CallSound, OutcomeFits, SpeechFits, Unmade, Current
  <2> QED BY <2>3, <2>4, <2>5, <2>6, <2>7 DEF CallSound
<1>2. CASE Allow \/ PlanFails
  <2>1. UNCHANGED <<op, profile, attempt, feed, sawDelta, closing, record, spoke, completions, excused>>
    BY <1>2 DEF Allow, PlanFails
  <2>2. /\ at = "authorizing"
        /\ permitted' = permitted \cup {profile}
        /\ \/ at' = "starting" /\ UNCHANGED outcome
           \/ /\ at' = "over"
              /\ \/ closing /\ outcome' = "closed"
                 \/ ~closing /\ outcome' = "failed"
    BY <1>2, <2>1 DEF Allow, PlanFails, EndAs
  <2>3. TypeOK'
    BY <2>1, <2>2 DEF CallSound, TypeOK, Points, Outcomes
  <2>4. AttemptsInOrder'
    BY <2>1, <2>2 DEF CallSound, AttemptsInOrder, Unmade, Current
  <2>5. PermittedOnly'
    BY <2>1, <2>2 DEF CallSound, PermittedOnly
  <2>6. SpeechFits' /\ FeedFits'
    BY <2>1, <2>2 DEF CallSound, SpeechFits, FeedFits, Unmade, Current
  <2>7. OutcomeFits'
    BY <2>1, <2>2 DEF CallSound, OutcomeFits, SpeechFits, Unmade, Current
  <2> QED BY <2>3, <2>4, <2>5, <2>6, <2>7 DEF CallSound
<1>3. CASE StartCall
  <2>1. UNCHANGED <<op, profile, attempt, closing, permitted, spoke, completions, excused, outcome>>
    BY <1>3 DEF StartCall
  <2>2. /\ at = "starting" /\ at' = "calling" /\ feed' = "unopened" /\ sawDelta' = FALSE
        /\ record' = [record EXCEPT ![Current] = "started"]
    BY <1>3 DEF StartCall
  <2>3. /\ record' \in [Attempts -> Records]
        /\ record'[<<profile, attempt>>] = "started"
        /\ \A p \in Profiles : \A a \in 0 .. Retries[p] :
             p # profile \/ a # attempt => record'[<<p, a>>] = record[<<p, a>>]
    BY <2>2, RecordMade DEF CallSound, Records
  <2>4. TypeOK'
    BY <2>1, <2>2, <2>3 DEF CallSound, TypeOK, Points, Feeds
  <2>5. AttemptsInOrder'
    BY <2>1, <2>2, <2>3 DEF CallSound, TypeOK, AttemptsInOrder, Unmade, Current, Profiles
  <2>6. PermittedOnly'
    BY <2>1, <2>2, <2>3 DEF CallSound, PermittedOnly
  <2>7. SpeechFits' /\ FeedFits'
    BY <2>1, <2>2 DEF CallSound, SpeechFits, FeedFits, Unmade, Current
  <2>8. OutcomeFits'
    BY <2>1, <2>2 DEF CallSound, OutcomeFits
  <2> QED BY <2>4, <2>5, <2>6, <2>7, <2>8 DEF CallSound
<1>4. CASE Reported
  <2>1. UNCHANGED <<op, profile, attempt, feed, sawDelta, closing, permitted, spoke, completions, excused>>
    BY <1>4 DEF Reported
  <2>2. /\ at = "reporting" /\ at' = "over"
        /\ record' = [record EXCEPT ![Current] = "completed"]
        /\ \/ closing /\ outcome' = "closed"
           \/ ~closing /\ outcome' = "answered"
    BY <1>4, <2>1 DEF Reported, EndAs
  <2>3. /\ record' \in [Attempts -> Records]
        /\ record'[<<profile, attempt>>] = "completed"
        /\ \A p \in Profiles : \A a \in 0 .. Retries[p] :
             p # profile \/ a # attempt => record'[<<p, a>>] = record[<<p, a>>]
    BY <2>2, RecordMade DEF CallSound, Records
  <2>4. TypeOK'
    BY <2>1, <2>2, <2>3 DEF CallSound, TypeOK, Points, Outcomes
  <2>5. AttemptsInOrder'
    BY <2>1, <2>2, <2>3 DEF CallSound, TypeOK, AttemptsInOrder, Unmade, Current, Profiles
  <2>6. PermittedOnly'
    BY <2>1, <2>2, <2>3 DEF CallSound, TypeOK, AttemptsInOrder, PermittedOnly, Current
  <2>7. SpeechFits' /\ FeedFits'
    BY <2>1, <2>2 DEF CallSound, SpeechFits, FeedFits, Unmade, Current
  <2>8. OutcomeFits'
    BY <2>1, <2>2, <2>3 DEF CallSound, OutcomeFits, FeedFits, SpeechFits, Current
  <2> QED BY <2>4, <2>5, <2>6, <2>7, <2>8 DEF CallSound
<1> QED BY <1>1, <1>2, <1>3, <1>4 DEF GatewayStep

(* A failed attempt is excused, tried again, given up for a fallback or
   raised (gateway.py:130-158, :283-332); a dropped stream takes the same
   path. *)
LEMMA FailKeeps ==
  ASSUME CallSound, NEW kind \in Kinds, at \in {"calling", "offering", "reporting"},
         closing' \in BOOLEAN, op = "complete" => ~closing',
         UNCHANGED <<op, feed, sawDelta, permitted, spoke, completions>>,
         Fail(kind)
  PROVE  CallSound'
<1> USE DEF place
<1>1. /\ TypeOK /\ Retries[profile] \in Nat /\ attempt <= Retries[profile]
      /\ LastProfile \in Nat /\ profile \in 0 .. LastProfile /\ attempt \in Nat
  BY GatewayAssumption DEF CallSound, TypeOK, Profiles
<1>2. /\ record[<<profile, attempt>>] = "started" /\ profile \in permitted
      /\ (sawDelta <=> <<profile, attempt>> \in spoke) /\ spoke \subseteq {<<profile, attempt>>}
      /\ ~excused /\ outcome = "none"
  BY <1>1 DEF CallSound, TypeOK, AttemptsInOrder, PermittedOnly, SpeechFits, OutcomeFits, Current
<1>3. CASE Excuse \/ GiveUp(kind)
  <2>1. /\ UNCHANGED <<profile, attempt>>
        /\ record' = [record EXCEPT ![Current] = "failed"]
    BY <1>3 DEF Excuse, GiveUp
  <2>2. /\ record' \in [Attempts -> Records]
        /\ record'[<<profile, attempt>>] = "failed"
        /\ \A p \in Profiles : \A a \in 0 .. Retries[p] :
             p # profile \/ a # attempt => record'[<<p, a>>] = record[<<p, a>>]
    BY <1>1, <2>1, RecordMade DEF Records
  <2>3. \/ /\ sawDelta /\ at' = "excusing" /\ ~closing' /\ excused' = TRUE /\ UNCHANGED outcome
        \/ /\ sawDelta /\ at' = "over" /\ closing' /\ UNCHANGED excused /\ outcome' = "closed"
        \/ /\ ~sawDelta /\ at' = "over" /\ UNCHANGED excused
           /\ outcome' = IF closing' THEN "closed" ELSE "failed"
    BY <1>2, <1>3 DEF Excuse, GiveUp, Yield, EndAs, CallSound, TypeOK
  <2>4. TypeOK'
    BY <1>1, <2>1, <2>2, <2>3 DEF TypeOK, Points, Outcomes
  <2>5. AttemptsInOrder'
    BY <1>1, <2>1, <2>2, <2>3 DEF CallSound, AttemptsInOrder, Unmade, Current, Profiles
  <2>6. PermittedOnly'
    BY <1>2, <2>1, <2>2, <2>3 DEF CallSound, PermittedOnly
  <2>7. SpeechFits'
    BY <1>2, <2>1, <2>3 DEF SpeechFits, Unmade, Current
  <2>8. FeedFits'
    BY <2>1, <2>3 DEF CallSound, FeedFits
  <2>9. OutcomeFits'
    BY <1>2, <2>1, <2>2, <2>3 DEF OutcomeFits, Current
  <2> QED BY <2>4, <2>5, <2>6, <2>7, <2>8, <2>9 DEF CallSound
<1>4. CASE Retry(kind)
  <2>1. /\ profile' = profile /\ attempt' = attempt + 1 /\ at' = "starting"
        /\ ~sawDelta /\ attempt < Retries[profile]
        /\ record' = [record EXCEPT ![Current] = "retry"]
        /\ UNCHANGED <<excused, outcome>>
    BY <1>4 DEF Retry, CanRetry
  <2>2. /\ record' \in [Attempts -> Records]
        /\ record'[<<profile, attempt>>] = "retry"
        /\ \A p \in Profiles : \A a \in 0 .. Retries[p] :
             p # profile \/ a # attempt => record'[<<p, a>>] = record[<<p, a>>]
    BY <1>1, <2>1, RecordMade DEF Records
  <2>3. attempt + 1 \in 0 .. Retries[profile]
    BY <1>1, <2>1
  <2>4. TypeOK'
    BY <1>1, <2>1, <2>2, <2>3 DEF TypeOK, Points
  <2>5. record'[<<profile, attempt + 1>>] = "none"
    BY <1>1, <2>2, <2>3 DEF CallSound, AttemptsInOrder, Profiles
  <2>6. AttemptsInOrder'
    <3>1. ASSUME NEW p \in Profiles, NEW a \in 0 .. Retries[p]
          PROVE  /\ p < profile \/ (p = profile /\ a < attempt + 1) =>
                      record'[<<p, a>>] = IF a < Retries[p] THEN "retry" ELSE "failed"
                 /\ profile < p \/ (p = profile /\ attempt + 1 < a) =>
                      record'[<<p, a>>] = "none"
      <4>1. a \in Nat /\ p \in Nat
        BY <1>1 DEF Profiles
      <4>2. CASE p = profile /\ a = attempt
        BY <1>1, <2>1, <2>2, <4>2
      <4>3. CASE p # profile \/ a # attempt
        BY <1>1, <2>2, <4>1, <4>3 DEF CallSound, AttemptsInOrder
      <4> QED BY <4>2, <4>3
    <3> QED BY <2>1, <2>5, <3>1 DEF AttemptsInOrder, Unmade, Current
  <2>7. PermittedOnly'
    BY <1>2, <2>1, <2>2 DEF CallSound, PermittedOnly
  <2>8. SpeechFits' /\ FeedFits' /\ OutcomeFits'
    BY <1>2, <2>1 DEF CallSound, SpeechFits, FeedFits, OutcomeFits, Unmade, Current
  <2> QED BY <2>4, <2>6, <2>7, <2>8 DEF CallSound
<1>5. CASE FallBack(kind)
  <2>1. /\ profile' = profile + 1 /\ attempt' = 0 /\ at' = "authorizing"
        /\ ~sawDelta /\ profile < LastProfile /\ ~(attempt < Retries[profile])
        /\ record' = [record EXCEPT ![Current] = "failed"]
        /\ UNCHANGED <<excused, outcome>>
    BY <1>5 DEF FallBack, CanRetry
  <2>2. /\ record' \in [Attempts -> Records]
        /\ record'[<<profile, attempt>>] = "failed"
        /\ \A p \in Profiles : \A a \in 0 .. Retries[p] :
             p # profile \/ a # attempt => record'[<<p, a>>] = record[<<p, a>>]
    BY <1>1, <2>1, RecordMade DEF Records
  <2>3. profile + 1 \in Profiles /\ 0 \in 0 .. Retries[profile + 1]
    BY <1>1, <2>1, GatewayAssumption DEF Profiles
  <2>4. TypeOK'
    BY <1>1, <2>1, <2>2, <2>3 DEF TypeOK, Points
  <2>5. record'[<<profile + 1, 0>>] = "none"
    BY <1>1, <2>2, <2>3 DEF CallSound, AttemptsInOrder, Profiles
  <2>6. AttemptsInOrder'
    <3>1. ASSUME NEW p \in Profiles, NEW a \in 0 .. Retries[p]
          PROVE  /\ p < profile + 1 \/ (p = profile + 1 /\ a < 0) =>
                      record'[<<p, a>>] = IF a < Retries[p] THEN "retry" ELSE "failed"
                 /\ profile + 1 < p \/ (p = profile + 1 /\ 0 < a) =>
                      record'[<<p, a>>] = "none"
      <4>1. a \in Nat /\ p \in Nat /\ Retries[p] \in Nat /\ a <= Retries[p]
        BY <1>1, GatewayAssumption DEF Profiles
      <4>2. CASE p = profile /\ a = attempt
        BY <1>1, <2>1, <2>2, <4>2
      <4>3. CASE p # profile \/ a # attempt
        BY <1>1, <2>1, <2>2, <4>1, <4>3 DEF CallSound, AttemptsInOrder
      <4> QED BY <4>2, <4>3
    <3> QED BY <2>1, <2>5, <3>1 DEF AttemptsInOrder, Unmade, Current
  <2>7. PermittedOnly'
    BY <1>2, <2>1, <2>2 DEF CallSound, PermittedOnly
  <2>8. SpeechFits' /\ FeedFits' /\ OutcomeFits'
    BY <1>2, <2>1 DEF CallSound, SpeechFits, FeedFits, OutcomeFits, Unmade, Current
  <2> QED BY <2>4, <2>6, <2>7, <2>8 DEF CallSound
<1> QED BY <1>3, <1>4, <1>5 DEF Fail

(* Steps of the provider (openai_compatible.py, gateway.py:210-229). *)
LEMMA ProviderKeeps ==
  ASSUME CallSound, ProviderStep
  PROVE  CallSound'
<1> USE DEF place, history
<1>1. CASE StreamStarts
  <2>1. UNCHANGED <<op, profile, attempt, sawDelta, closing, permitted, record, spoke, completions, excused>>
    BY <1>1 DEF StreamStarts
  <2>2. /\ at = "calling" /\ op = "stream" /\ feed' = "open"
        /\ \/ closing /\ at' = "over" /\ outcome' = "closed"
           \/ ~closing /\ at' = "offering" /\ UNCHANGED outcome
    BY <1>1, <2>1 DEF StreamStarts, Yield, EndAs
  <2>3. TypeOK'
    BY <2>1, <2>2 DEF CallSound, TypeOK, Points, Feeds, Outcomes
  <2>4. AttemptsInOrder' /\ PermittedOnly'
    BY <2>1, <2>2 DEF CallSound, AttemptsInOrder, PermittedOnly, Unmade, Current
  <2>5. SpeechFits' /\ FeedFits'
    BY <2>1, <2>2 DEF CallSound, SpeechFits, FeedFits, Unmade, Current
  <2>6. OutcomeFits'
    BY <2>1, <2>2 DEF CallSound, OutcomeFits
  <2> QED BY <2>3, <2>4, <2>5, <2>6 DEF CallSound
<1>2. CASE TextArrives \/ CompletionArrives
  <2>1. UNCHANGED <<op, profile, attempt, closing, permitted, record, excused, outcome>>
    BY <1>2 DEF TextArrives, CompletionArrives
  <2>2. /\ at = "calling" /\ op = "stream" /\ feed \in {"open", "finished"} /\ at' = "offering"
        /\ \/ sawDelta' = TRUE /\ spoke' = spoke \cup {Current} /\ UNCHANGED <<feed, completions>>
           \/ /\ feed' \in {"finished", "drained"} /\ completions' = completions \cup {Current}
              /\ UNCHANGED <<sawDelta, spoke>>
    BY <1>2 DEF TextArrives, CompletionArrives
  <2>3. Current \in Attempts
    BY CurrentIsAttempt DEF CallSound
  <2>4. TypeOK'
    BY <2>1, <2>2, <2>3 DEF CallSound, TypeOK, Points, Feeds
  <2>5. AttemptsInOrder' /\ PermittedOnly'
    BY <2>1, <2>2 DEF CallSound, AttemptsInOrder, PermittedOnly, Unmade, Current
  <2>6. SpeechFits' /\ FeedFits' /\ OutcomeFits'
    BY <2>1, <2>2 DEF CallSound, SpeechFits, FeedFits, OutcomeFits, Unmade, Current
  <2> QED BY <2>4, <2>5, <2>6 DEF CallSound
<1>3. CASE StreamDrains \/ Answered
  <2>1. UNCHANGED <<op, profile, attempt, feed, sawDelta, closing, permitted, record, spoke, completions, excused, outcome>>
    BY <1>3 DEF StreamDrains, Answered
  <2>2. /\ at = "calling" /\ at' = "reporting"
        /\ op = "complete" \/ feed \in {"finished", "drained"}
    BY <1>3 DEF StreamDrains, Answered
  <2>3. TypeOK' /\ AttemptsInOrder' /\ PermittedOnly'
    BY <2>1, <2>2 DEF CallSound, TypeOK, Points, AttemptsInOrder, PermittedOnly, Unmade, Current
  <2>4. SpeechFits' /\ FeedFits' /\ OutcomeFits'
    BY <2>1, <2>2 DEF CallSound, TypeOK, SpeechFits, FeedFits, OutcomeFits, Unmade, Current
  <2> QED BY <2>3, <2>4 DEF CallSound
<1>4. CASE ProviderFails
  <2>1. PICK kind \in Kinds : Fail(kind)
    BY <1>4 DEF ProviderFails
  <2>2. /\ at = "calling" /\ closing' = closing
        /\ UNCHANGED <<op, feed, sawDelta, permitted, spoke, completions>>
    BY <1>4 DEF ProviderFails, Listening
  <2>3. closing' \in BOOLEAN /\ (op = "complete" => ~closing')
    BY <2>2 DEF CallSound, TypeOK, FeedFits
  <2> QED BY <2>1, <2>2, <2>3, FailKeeps
<1> QED BY <1>1, <1>2, <1>3, <1>4 DEF ProviderStep

(* A consumer asks for the next event or drops the stream
   (gateway.py:229, :293). *)
LEMMA ConsumerKeeps ==
  ASSUME CallSound, ConsumerStep
  PROVE  CallSound'
<1> USE DEF place, history
<1>1. CASE Resume \/ CloseUncaught
  <2>1. UNCHANGED <<op, profile, attempt, feed, sawDelta, permitted, record, spoke, completions, excused>>
    BY <1>1 DEF Resume, CloseUncaught
  <2>2. \/ at = "offering" /\ at' = "calling" /\ UNCHANGED <<closing, outcome>>
        \/ /\ at = "excusing" /\ at' = "over" /\ closing' = closing
           /\ outcome' = IF closing THEN "closed" ELSE "excused"
        \/ /\ at \in {"offering", "excusing"} /\ at' = "over"
           /\ closing' = TRUE /\ outcome' = "closed"
    BY <1>1 DEF Resume, CloseUncaught, EndAs
  <2>3. op = "stream"
    BY <2>2 DEF CallSound, TypeOK, FeedFits
  <2>4. TypeOK'
    BY <2>1, <2>2 DEF CallSound, TypeOK, Points, Outcomes
  <2>5. AttemptsInOrder' /\ PermittedOnly'
    BY <2>1, <2>2 DEF CallSound, AttemptsInOrder, PermittedOnly, Unmade, Current
  <2>6. SpeechFits' /\ FeedFits'
    BY <2>1, <2>2, <2>3 DEF CallSound, SpeechFits, FeedFits, Unmade, Current
  <2>7. OutcomeFits'
    BY <2>1, <2>2 DEF CallSound, OutcomeFits, AttemptsInOrder, SpeechFits, Unmade, Current
  <2> QED BY <2>4, <2>5, <2>6, <2>7 DEF CallSound
<1>2. CASE Close
  <2>1. /\ at = "offering" /\ closing' = TRUE /\ Fail("transient") /\ "transient" \in Kinds
        /\ UNCHANGED <<op, feed, sawDelta, permitted, spoke, completions>>
    BY <1>2 DEF Close, Kinds
  <2>2. op # "complete"
    BY <2>1 DEF CallSound, FeedFits
  <2> QED BY <2>1, <2>2, FailKeeps
<1> QED BY <1>1, <1>2 DEF ConsumerStep

(* So is a step that fails for its record (tracing.py:162-167). *)
LEMMA RecordFailsKeeps ==
  ASSUME CallSound, RecordFails
  PROVE  CallSound'
<1> USE DEF place, history
<1>1. CASE at' = "over" /\ UNCHANGED <<op, profile, attempt, feed, sawDelta, closing, permitted, record, spoke, completions, excused>>
           /\ outcome' = IF closing THEN "closed" ELSE "unrecorded"
  <2>1. TypeOK'
    BY <1>1 DEF CallSound, TypeOK, Points, Outcomes
  <2>2. AttemptsInOrder' /\ PermittedOnly'
    BY <1>1 DEF CallSound, AttemptsInOrder, PermittedOnly, Unmade, Current
  <2>3. SpeechFits' /\ FeedFits' /\ OutcomeFits'
    BY <1>1 DEF CallSound, SpeechFits, FeedFits, OutcomeFits, Unmade, Current
  <2> QED BY <2>1, <2>2, <2>3 DEF CallSound
<1>2. CASE /\ at \in {"calling", "reporting"} /\ closing' = closing
           /\ Fail(RecordKind)
           /\ UNCHANGED <<op, feed, sawDelta, permitted, spoke, completions>>
  <2>1. RecordKind \in Kinds
    BY DEF RecordKind, Kinds
  <2>2. closing' \in BOOLEAN /\ (op = "complete" => ~closing')
    BY <1>2 DEF CallSound, TypeOK, FeedFits
  <2> QED BY <1>2, <2>1, <2>2, FailKeeps
<1> QED BY <1>1, <1>2 DEF RecordFails, EndAs

(* A cancelled call is over (gateway.py:130, :270). *)
LEMMA CancellationKeeps ==
  ASSUME CallSound, Cancellation
  PROVE  CallSound'
<1> USE DEF place, history
<1>1. UNCHANGED <<op, profile, attempt, feed, sawDelta, closing, permitted, spoke, completions, excused>>
  BY DEF Cancellation, CancelOutside, CancelCall, CancelHandler
<1>2. at' = "over" /\ outcome' = IF closing THEN "closed" ELSE "cancelled"
  BY <1>1 DEF Cancellation, CancelOutside, CancelCall, CancelHandler, EndAs
<1>3. \/ record' = record
      \/ /\ \E what \in Records : record' = [record EXCEPT ![Current] = what]
         /\ at \in {"starting", "calling", "reporting"}
  BY DEF Cancellation, CancelOutside, CancelCall, CancelHandler, Listening, Records
<1>4. /\ record' \in [Attempts -> Records]
      /\ \A p \in Profiles : \A a \in 0 .. Retries[p] :
           p # profile \/ a # attempt => record'[<<p, a>>] = record[<<p, a>>]
      /\ \/ record'[<<profile, attempt>>] = record[<<profile, attempt>>]
         \/ profile \in permitted
  <2>1. TypeOK
    BY DEF CallSound
  <2>2. CASE record' = record
    BY <2>1, <2>2 DEF TypeOK
  <2>3. CASE record' # record
    <3>1. PICK what \in Records : record' = [record EXCEPT ![Current] = what]
      BY <1>3, <2>3
    <3>2. profile \in permitted
      BY <1>3, <2>1, <2>3 DEF CallSound, TypeOK, AttemptsInOrder, PermittedOnly, Current
    <3> QED BY <2>1, <3>1, <3>2, RecordMade
  <2> QED BY <2>2, <2>3
<1>5. TypeOK'
  BY <1>1, <1>2, <1>4 DEF CallSound, TypeOK, Points, Outcomes
<1>6. AttemptsInOrder'
  BY <1>1, <1>2, <1>4, <1>5 DEF CallSound, TypeOK, AttemptsInOrder, Unmade, Current, Profiles
<1>7. PermittedOnly'
  BY <1>1, <1>2, <1>4 DEF CallSound, PermittedOnly
<1>8. SpeechFits' /\ FeedFits'
  BY <1>1, <1>2 DEF CallSound, SpeechFits, FeedFits, Unmade, Current
<1>9. OutcomeFits'
  BY <1>1, <1>2 DEF CallSound, OutcomeFits
<1> QED BY <1>5, <1>6, <1>7, <1>8, <1>9 DEF CallSound

(* What the adapter does, and what ends a call, keep the completions
   those of attempts made (gateway.py:210-270, openai_compatible.py). *)
LEMMA CompletionsKept ==
  ASSUME CallSound, CompletionsFit, [Next]_vars
  PROVE  CompletionsFit'
<1> USE DEF place, history
<1>1. /\ record \in [Attempts -> Records] /\ Current \in Attempts
      /\ completions \subseteq Attempts
  BY CurrentIsAttempt DEF CallSound, TypeOK
<1>2. ASSUME UNCHANGED record \/ \E what \in Records \ {"none"} : record' = [record EXCEPT ![Current] = what],
             UNCHANGED completions
      PROVE  \A x \in completions' : record'[x] # "none"
  BY <1>1, <1>2 DEF CompletionsFit
<1>3. ASSUME UNCHANGED <<attempt, profile, completions, feed>>,
             UNCHANGED record \/ \E what \in Records \ {"none"} : record' = [record EXCEPT ![Current] = what],
             at' \notin {"resolving", "authorizing"} \/ at \in {"resolving", "authorizing"},
             at' \in {"calling", "offering"} => at \in {"calling", "offering"}
      PROVE  CompletionsFit'
  <2>1. \A x \in completions' : record'[x] # "none"
    BY <1>2, <1>3
  <2>2. at' \in {"calling", "offering"} /\ feed' \in {"unopened", "open"} => Current' \notin completions'
    BY <1>3 DEF CompletionsFit, Current
  <2> QED BY <1>3, <2>1, <2>2 DEF CompletionsFit
<1>4. ASSUME UNCHANGED <<completions, feed>>, NEW kind \in Kinds, Fail(kind)
      PROVE  CompletionsFit'
  <2>1. /\ \E what \in Records \ {"none"} : record' = [record EXCEPT ![Current] = what]
        /\ at' \in {"excusing", "over", "starting", "authorizing"}
        /\ at' = "authorizing" => attempt' = 0
    BY <1>4 DEF Fail, Excuse, Retry, FallBack, GiveUp, Yield, EndAs, Records
  <2>2. \A x \in completions' : record'[x] # "none"
    BY <1>2, <1>4, <2>1
  <2> QED BY <2>1, <2>2 DEF CompletionsFit
<1>5. CASE StartCall
  <2>1. /\ UNCHANGED <<profile, attempt, completions>> /\ at = "starting" /\ at' = "calling"
        /\ record' = [record EXCEPT ![Current] = "started"]
    BY <1>5 DEF StartCall
  <2>2. record[Current] = "none"
    BY <2>1 DEF CallSound, AttemptsInOrder, Unmade
  <2>3. Current \notin completions /\ Current' = Current
    BY <2>1, <2>2 DEF CompletionsFit, Current
  <2>4. \A x \in completions' : record'[x] # "none"
    BY <1>2, <2>1 DEF Records
  <2> QED BY <2>1, <2>3, <2>4 DEF CompletionsFit
<1>6. CASE CompletionArrives
  <2>1. /\ UNCHANGED <<profile, attempt, record>> /\ at = "calling" /\ at' = "offering"
        /\ feed' \in {"finished", "drained"} /\ completions' = completions \cup {Current}
    BY <1>6 DEF CompletionArrives
  <2>2. record[Current] = "started"
    BY <2>1 DEF CallSound, AttemptsInOrder
  <2>3. \A x \in completions' : record'[x] # "none"
    BY <2>1, <2>2 DEF CompletionsFit
  <2> QED BY <2>1, <2>3 DEF CompletionsFit
<1>7. CASE StreamStarts
  <2>1. /\ UNCHANGED <<profile, attempt, record, completions>>
        /\ at = "calling" /\ feed = "unopened" /\ at' \in {"offering", "over"}
    BY <1>7 DEF StreamStarts, Yield, EndAs
  <2>2. Current' \notin completions' /\ \A x \in completions' : record'[x] # "none"
    BY <2>1 DEF CompletionsFit, Current
  <2> QED BY <2>1, <2>2 DEF CompletionsFit
<1>8. CASE \/ Resolve \/ ResolveFails \/ Allow \/ Deny \/ PlanFails \/ Reported
           \/ TextArrives \/ StreamDrains \/ Answered
           \/ Resume \/ CloseUncaught \/ Cancellation
  <2>1. UNCHANGED <<attempt, profile, completions, feed>>
    BY <1>8 DEF Resolve, ResolveFails, Allow, Deny, PlanFails, Reported, TextArrives,
       StreamDrains, Answered, Resume, CloseUncaught, Cancellation, CancelOutside, CancelCall,
       CancelHandler
  <2>2. UNCHANGED record \/ \E what \in Records \ {"none"} : record' = [record EXCEPT ![Current] = what]
    BY <1>8 DEF Resolve, ResolveFails, Allow, Deny, PlanFails, Reported, TextArrives,
       StreamDrains, Answered, Resume, CloseUncaught, Cancellation, CancelOutside, CancelCall,
       CancelHandler, Records
  <2>3. /\ at' \notin {"resolving", "authorizing"} \/ at \in {"resolving", "authorizing"}
        /\ at' \in {"calling", "offering"} => at \in {"calling", "offering"}
    BY <1>8 DEF Resolve, ResolveFails, Allow, Deny, PlanFails, Reported, TextArrives,
       StreamDrains, Answered, Resume, CloseUncaught, Cancellation, CancelOutside, CancelCall,
       CancelHandler, EndAs
  <2> QED BY <1>3, <2>1, <2>2, <2>3
<1>9. CASE ProviderFails \/ Close
  BY <1>4, <1>9 DEF ProviderFails, Close, Kinds
<1>10. CASE RecordFails
  <2>1. CASE UNCHANGED <<attempt, profile, completions, feed, record>> /\ at' = "over"
    BY <1>3, <2>1
  <2>2. CASE ~(UNCHANGED <<attempt, profile, completions, feed, record>> /\ at' = "over")
    <3>1. UNCHANGED <<completions, feed>> /\ \E kind \in Kinds : Fail(kind)
      BY <1>10, <2>2 DEF RecordFails, RecordKind, EndAs, Kinds
    <3> QED BY <1>4, <3>1
  <2> QED BY <2>1, <2>2
<1>11. CASE UNCHANGED vars \/ Terminated
  BY <1>11 DEF vars, Terminated, CompletionsFit, Current
<1> QED
  BY <1>5, <1>6, <1>7, <1>8, <1>9, <1>10, <1>11
     DEF Next, GatewayStep, ProviderStep, ConsumerStep

(* GatewaySound holds in every state of every call: attempts are made in
   order and settled, only permitted profiles are called, text comes from the
   current attempt, and the outcome fits (gateway.py). *)
THEOREM GatewayIsSound == Spec => []GatewaySound
<1>1. Init => CallSound /\ CompletionsFit
  BY GatewayInit DEF Init, CompletionsFit
<1>2. CallSound /\ [Next]_vars => CallSound'
  <2> SUFFICES ASSUME CallSound, [Next]_vars
               PROVE  CallSound'
    OBVIOUS
  <2>1. CASE UNCHANGED vars
    BY <2>1 DEF vars, place, history, CallSound, TypeOK, AttemptsInOrder, PermittedOnly,
                SpeechFits, FeedFits, OutcomeFits, Unmade, Current
  <2>2. CASE GatewayStep
    BY <2>2, GatewayKeeps
  <2>3. CASE ProviderStep
    BY <2>3, ProviderKeeps
  <2>4. CASE ConsumerStep
    BY <2>4, ConsumerKeeps
  <2>5. CASE Cancellation
    BY <2>5, CancellationKeeps
  <2>6. CASE RecordFails
    BY <2>6, RecordFailsKeeps
  <2>7. CASE Terminated
    BY <2>1, <2>7 DEF Terminated
  <2> QED BY <2>1, <2>2, <2>3, <2>4, <2>5, <2>6, <2>7 DEF Next
<1>3. CallSound /\ CompletionsFit /\ [Next]_vars => CompletionsFit'
  BY CompletionsKept
<1> QED BY <1>1, <1>2, <1>3, PTL DEF Spec, GatewaySound

(* The text a consumer reads comes from one attempt, whatever the number of
   profiles and retries (gateway.py:286). *)
THEOREM GatewaySpeaksOnce == Spec => []OneAttemptSpeaks
<1>1. GatewaySound => OneAttemptSpeaks
  BY DEF GatewaySound, CallSound, SpeechFits, OneAttemptSpeaks
<1> QED BY <1>1, GatewayIsSound, PTL

(* The outcome a caller sees fits the trace and what it has read
   (gateway.py:124, :283-336). *)
THEOREM GatewayOutcomes == Spec => []OutcomeFits
<1>1. GatewaySound => OutcomeFits
  BY DEF GatewaySound, CallSound
<1> QED BY <1>1, GatewayIsSound, PTL

-----------------------------------------------------------------------------
(* The refinement of GatewayPromise.                                       *)

Idle == UNCHANGED <<op, permitted, Tried, spoke, completions, excused, closing, outcome>>

(* A call not over has made every attempt before the current one, and none
   after it. *)
LEMMA TriedInOrder ==
  ASSUME TypeOK, AttemptsInOrder
  PROVE  /\ record[Current] = "none" => Tried = Promise!Before(Current)
         /\ record[Current] # "none" => Tried = Promise!Before(Current) \cup {Current}
<1>1. Current \in Attempts /\ Current = <<profile, attempt>>
  BY CurrentIsAttempt DEF Current
<1>2. Promise!Before(Current) = {y \in Attempts : y[1] < profile \/ (y[1] = profile /\ y[2] < attempt)}
  BY <1>1 DEF Promise!Before, Promise!Attempts, Promise!Profiles, Attempts, Profiles
<1>3. ASSUME NEW x \in Attempts
      PROVE  /\ x[1] < profile \/ (x[1] = profile /\ x[2] < attempt) => record[x] # "none"
             /\ ~(x[1] < profile \/ (x[1] = profile /\ x[2] < attempt)) /\ x # Current => record[x] = "none"
  <2>1. PICK p \in Profiles : \E a \in 0 .. Retries[p] : x = <<p, a>>
    BY AttemptPairs
  <2>2. PICK a \in 0 .. Retries[p] : x = <<p, a>>
    BY <2>1
  <2>3. p \in Nat /\ a \in Nat /\ profile \in Nat /\ attempt \in Nat
    BY GatewayAssumption DEF TypeOK, Profiles
  <2>4. p < profile \/ (p = profile /\ a < attempt) => record[<<p, a>>] # "none"
    BY DEF AttemptsInOrder
  <2>5. profile < p \/ (p = profile /\ attempt < a) => record[<<p, a>>] = "none"
    BY DEF AttemptsInOrder
  <2> QED BY <1>1, <2>2, <2>3, <2>4, <2>5
<1>4. ~(profile < profile) /\ ~(attempt < attempt)
  BY GatewayAssumption DEF TypeOK, Profiles
<1> QED BY <1>1, <1>2, <1>3, <1>4 DEF Tried

(* A record made over another one makes no new attempt. *)
LEMMA TriedStays ==
  ASSUME TypeOK,
         \/ UNCHANGED record
         \/ /\ record[Current] # "none"
            /\ \E what \in Records \ {"none"} : record' = [record EXCEPT ![Current] = what]
  PROVE  UNCHANGED Tried
<1>1. record \in [Attempts -> Records] /\ Current \in Attempts
  BY CurrentIsAttempt DEF TypeOK
<1> QED BY <1>1 DEF Tried

(* The started record of an attempt makes it. *)
LEMMA TriedGrows ==
  ASSUME TypeOK, record' = [record EXCEPT ![Current] = "started"]
  PROVE  Tried' = Tried \cup {Current}
<1>1. record \in [Attempts -> Records] /\ Current \in Attempts
  BY CurrentIsAttempt DEF TypeOK
<1> QED BY <1>1 DEF Tried

LEMMA SamePlan ==
  Promise!Profiles = Profiles /\ Promise!Attempts = Attempts
BY DEF Promise!Profiles, Promise!Attempts, Profiles, Attempts

(* What ends the call may be said of it. *)
LEMMA EndsPromise ==
  ASSUME NEW how \in Promise!Outcomes, outcome = "none",
         UNCHANGED <<op, permitted, Tried, spoke, completions, excused, closing>>,
         outcome' = IF closing THEN "closed" ELSE how,
         ~closing => Promise!Truthful(how)
  PROVE  Promise!Next
<1>1. CASE closing
  <2>1. Promise!Truthful("closed")
    BY <1>1 DEF Promise!Truthful
  <2>2. Promise!End("closed")
    BY <1>1, <2>1 DEF Promise!End, Promise!Running, Promise!said, Tried
  <2> QED BY <2>2 DEF Promise!Next, Promise!Outcomes
<1>2. CASE ~closing
  <2>1. Promise!End(how)
    BY <1>2 DEF Promise!End, Promise!Running, Promise!said, Tried
  <2> QED BY <2>1 DEF Promise!Next
<1> QED BY <1>1, <1>2

LEMMA LeavesPromise ==
  ASSUME outcome = "none", op = "stream", ~closing, closing' = TRUE,
         outcome' \in {"none", "closed"},
         UNCHANGED <<op, permitted, Tried, spoke, completions, excused>>
  PROVE  Promise!Next
<1>1. Promise!Leave
  BY DEF Promise!Leave, Promise!Running, Promise!said, Tried
<1> QED BY <1>1 DEF Promise!Next

LEMMA IdleStutters ==
  ASSUME Idle
  PROVE  UNCHANGED Promise!promiseVars
BY DEF Idle, Promise!promiseVars, Promise!said, Tried

(* A failure is excused, tried again unheard, or raised unheard; a dropped
   stream that fails is left. *)
LEMMA FailMaps ==
  ASSUME GatewaySound, NEW kind \in Kinds, at \in {"calling", "offering", "reporting"},
         \/ closing' = closing
         \/ at = "offering" /\ closing' = TRUE,
         UNCHANGED <<op, feed, sawDelta, permitted, spoke, completions>>,
         Fail(kind)
  PROVE  [Promise!Next]_(Promise!promiseVars)
<1>1. /\ TypeOK /\ record[Current] = "started" /\ outcome = "none" /\ ~excused
      /\ ~sawDelta => spoke = {}
      /\ sawDelta => spoke # {}
      /\ sawDelta => ~closing
      /\ at = "offering" => op = "stream" /\ ~closing
  BY DEF GatewaySound, CallSound, TypeOK, AttemptsInOrder, OutcomeFits, SpeechFits, FeedFits, Unmade
<1>2. \E what \in Records \ {"none"} : record' = [record EXCEPT ![Current] = what]
  BY DEF Fail, Excuse, Retry, FallBack, GiveUp, Records
<1>3. UNCHANGED Tried
  BY <1>1, <1>2, TriedStays
<1>4. \/ sawDelta /\ ~closing' /\ excused' = TRUE /\ UNCHANGED outcome
      \/ ~sawDelta /\ UNCHANGED <<excused, outcome>>
      \/ ~sawDelta /\ UNCHANGED excused /\ outcome' = IF closing' THEN "closed" ELSE "failed"
      \/ closing' /\ UNCHANGED excused /\ outcome' = "closed"
  <2>1. excused \in BOOLEAN
    BY <1>1 DEF TypeOK
  <2> QED BY <1>1, <2>1 DEF Fail, Excuse, Retry, FallBack, GiveUp, Yield, EndAs
<1>5. CASE closing' = closing
  <2>1. CASE sawDelta /\ ~closing' /\ excused' = TRUE /\ UNCHANGED outcome
    <3>1. Promise!Excuse
      BY <1>1, <1>3, <1>5, <2>1 DEF Promise!Excuse, Promise!Running, Tried
    <3> QED BY <3>1 DEF Promise!Next
  <2>2. CASE ~sawDelta /\ UNCHANGED <<excused, outcome>>
    <3>1. Idle
      BY <1>3, <1>5, <2>2 DEF Idle
    <3> QED BY <3>1, IdleStutters
  <2>3. CASE ~sawDelta /\ UNCHANGED excused /\ outcome' = IF closing' THEN "closed" ELSE "failed"
    <3>1. ~closing => Promise!Truthful("failed")
      BY <1>1, <2>3 DEF Promise!Truthful
    <3> QED BY <1>1, <1>3, <1>5, <2>3, <3>1, EndsPromise DEF Promise!Outcomes
  <2>4. CASE closing' /\ UNCHANGED excused /\ outcome' = "closed"
    BY <1>1, <1>3, <1>5, <2>4, EndsPromise DEF Promise!Outcomes
  <2> QED BY <1>4, <2>1, <2>2, <2>3, <2>4
<1>6. CASE at = "offering" /\ closing' = TRUE
  BY <1>1, <1>3, <1>4, <1>6, LeavesPromise
<1> QED BY <1>5, <1>6

(* The gateway asks, tries and ends as promised (gateway.py:75-128). *)
LEMMA GatewayMaps ==
  ASSUME GatewaySound, GatewayStep
  PROVE  [Promise!Next]_(Promise!promiseVars)
<1> USE DEF place, history
<1>1. /\ TypeOK /\ outcome = "none" /\ profile \in Profiles /\ Current = <<profile, attempt>>
      /\ at # "reporting" => spoke = {} /\ record[Current] = "none"
      /\ at = "reporting" => record[Current] = "started" /\ (op = "stream" => Current \in completions)
      /\ ~excused
      /\ at = "authorizing" => attempt = 0
      /\ at = "starting" => profile \in permitted
  BY DEF GatewaySound, CallSound, CompletionsFit, TypeOK, AttemptsInOrder, PermittedOnly,
         OutcomeFits, SpeechFits, FeedFits, Unmade, Current, GatewayStep, Resolve,
         ResolveFails, Allow, Deny, PlanFails, StartCall, Reported
<1>2. /\ at # "reporting" => Tried = Promise!Before(Current)
      /\ at = "reporting" => Tried = Promise!Before(Current) \cup {Current}
  BY <1>1, TriedInOrder DEF GatewaySound, CallSound
<1>3. Current \in Promise!Attempts /\ profile \in Promise!Profiles
  BY <1>1, CurrentIsAttempt, SamePlan
<1>4. CASE Resolve
  <2>1. Idle
    BY <1>4 DEF Resolve, Idle, Tried
  <2> QED BY <2>1, IdleStutters
<1>5. CASE ResolveFails \/ Deny
  <2>1. /\ UNCHANGED <<op, permitted, record, spoke, completions, excused, closing>>
        /\ at # "reporting"
        /\ \E how \in {"failed", "denied"} : outcome' = IF closing THEN "closed" ELSE how
    BY <1>5 DEF ResolveFails, Deny, EndAs
  <2>2. PICK how \in {"failed", "denied"} : outcome' = IF closing THEN "closed" ELSE how
    BY <2>1
  <2>3. ~closing => Promise!Truthful(how)
    BY <1>1, <2>1, <2>2 DEF Promise!Truthful
  <2>4. UNCHANGED Tried
    BY <2>1 DEF Tried
  <2> QED BY <1>1, <2>1, <2>2, <2>3, <2>4, EndsPromise DEF Promise!Outcomes
<1>6. CASE Allow
  <2>1. /\ at = "authorizing" /\ permitted' = permitted \cup {profile}
        /\ UNCHANGED <<op, record, spoke, completions, excused, closing, outcome>>
    BY <1>6 DEF Allow
  <2>2. Promise!Allow(profile)
    BY <1>1, <1>2, <2>1 DEF Promise!Allow, Promise!Running, Promise!said, Tried
  <2> QED BY <1>3, <2>2 DEF Promise!Next
<1>7. CASE PlanFails
  <2>1. /\ at = "authorizing" /\ profile = 0 /\ permitted' = permitted \cup {0}
        /\ outcome' = IF closing THEN "closed" ELSE "failed"
        /\ UNCHANGED <<op, record, spoke, completions, excused, closing>>
    BY <1>7 DEF PlanFails, EndAs
  <2>2. Promise!Before(<<0, 0>>) = {}
    <3>1. ASSUME NEW x \in Attempts
          PROVE  ~(x[1] < 0) /\ ~(x[2] < 0)
      BY AttemptPairs, GatewayAssumption DEF Profiles
    <3> QED BY <3>1, SamePlan DEF Promise!Before
  <2>3. Tried = {}
    BY <1>1, <1>2, <2>1, <2>2
  <2>4. Promise!EndPlan
    BY <1>1, <2>1, <2>3 DEF Promise!EndPlan, Promise!Running, Promise!said, Promise!Told, Tried
  <2> QED BY <2>4 DEF Promise!Next
<1>8. CASE StartCall
  <2>1. /\ at = "starting" /\ record' = [record EXCEPT ![Current] = "started"]
        /\ UNCHANGED <<op, permitted, spoke, completions, excused, closing, outcome>>
    BY <1>8 DEF StartCall
  <2>2. Tried' = Tried \cup {Current}
    BY <1>1, <2>1, TriedGrows
  <2>3. Current[1] \in permitted
    BY <1>1, <2>1
  <2>4. PICK x \in Promise!Attempts : x = Current
    BY <1>3
  <2>5. Promise!Try(x)
    BY <1>1, <1>2, <2>1, <2>2, <2>3, <2>4 DEF Promise!Try, Promise!Running, Promise!said, Tried
  <2> QED BY <2>5 DEF Promise!Next
<1>9. CASE Reported
  <2>1. /\ at = "reporting" /\ record' = [record EXCEPT ![Current] = "completed"]
        /\ outcome' = IF closing THEN "closed" ELSE "answered"
        /\ UNCHANGED <<op, permitted, spoke, completions, excused, closing>>
    BY <1>9 DEF Reported, EndAs
  <2>2. UNCHANGED Tried
    BY <1>1, <2>1, TriedStays DEF Records
  <2>3. Promise!Latest(Current) /\ Current \in Tried
    BY <1>2, <1>3, <2>1 DEF Promise!Latest, Tried
  <2>4. ~closing => Promise!Truthful("answered")
    BY <1>1, <2>1, <2>3 DEF Promise!Truthful, Tried
  <2> QED BY <1>1, <2>1, <2>2, <2>4, EndsPromise DEF Promise!Outcomes
<1> QED BY <1>4, <1>5, <1>6, <1>7, <1>8, <1>9 DEF GatewayStep

(* The current attempt alone speaks, and announces its completion
   (gateway.py:200-229). *)
LEMMA ProviderMaps ==
  ASSUME GatewaySound, ProviderStep
  PROVE  [Promise!Next]_(Promise!promiseVars)
<1> USE DEF place, history
<1>1. /\ TypeOK /\ at = "calling" /\ outcome = "none" /\ record[Current] = "started" /\ ~excused
      /\ feed \in {"open", "finished"} => ~closing
  BY DEF GatewaySound, CallSound, CompletionsFit, TypeOK, AttemptsInOrder, OutcomeFits, SpeechFits,
         Unmade, ProviderStep, StreamStarts, TextArrives, CompletionArrives, StreamDrains,
         Answered, ProviderFails, Listening
<1>2. Promise!Latest(Current) /\ Current \in Promise!Attempts
  BY <1>1, TriedInOrder, CurrentIsAttempt, SamePlan DEF GatewaySound, CallSound, Promise!Latest, Tried
<1>3. CASE StreamStarts
  <2>1. /\ UNCHANGED <<op, permitted, record, spoke, completions, excused, closing>>
        /\ (closing /\ outcome' = "closed") \/ UNCHANGED outcome
    BY <1>3 DEF StreamStarts, Yield, EndAs
  <2>2. UNCHANGED Tried
    BY <2>1 DEF Tried
  <2>3. CASE UNCHANGED outcome
    <3>1. Idle
      BY <2>1, <2>2, <2>3 DEF Idle
    <3> QED BY <3>1, IdleStutters
  <2>4. CASE closing /\ outcome' = "closed"
    BY <1>1, <2>1, <2>2, <2>4, EndsPromise DEF Promise!Outcomes
  <2> QED BY <2>1, <2>3, <2>4
<1>4. CASE TextArrives
  <2>1. /\ op = "stream" /\ feed \in {"open", "finished"} /\ spoke' = spoke \cup {Current}
        /\ UNCHANGED <<op, permitted, record, completions, excused, closing, outcome>>
    BY <1>4 DEF TextArrives
  <2>2. Promise!Speak(Current)
    BY <1>1, <1>2, <2>1 DEF Promise!Speak, Promise!Speaking, Promise!Running, Tried
  <2> QED BY <1>2, <2>2 DEF Promise!Next
<1>5. CASE CompletionArrives
  <2>1. /\ op = "stream" /\ feed \in {"open", "finished"} /\ completions' = completions \cup {Current}
        /\ UNCHANGED <<op, permitted, record, spoke, excused, closing, outcome>>
    BY <1>5 DEF CompletionArrives
  <2>2. Promise!Announce(Current)
    BY <1>1, <1>2, <2>1 DEF Promise!Announce, Promise!Speaking, Promise!Running, Tried
  <2> QED BY <1>2, <2>2 DEF Promise!Next
<1>6. CASE StreamDrains \/ Answered
  <2>1. Idle
    BY <1>6 DEF StreamDrains, Answered, Idle, Tried
  <2> QED BY <2>1, IdleStutters
<1>7. CASE ProviderFails
  <2>1. PICK kind \in Kinds : Fail(kind)
    BY <1>7 DEF ProviderFails
  <2> QED BY <1>1, <1>7, <2>1, FailMaps DEF ProviderFails
<1> QED BY <1>3, <1>4, <1>5, <1>6, <1>7 DEF ProviderStep

(* A consumer goes on or leaves (gateway.py:229, :293). *)
LEMMA ConsumerMaps ==
  ASSUME GatewaySound, ConsumerStep
  PROVE  [Promise!Next]_(Promise!promiseVars)
<1> USE DEF place, history
<1>1. /\ at \in {"offering", "excusing"} /\ outcome = "none" /\ op = "stream" /\ ~closing
      /\ at = "excusing" => excused
  BY DEF GatewaySound, CallSound, TypeOK, OutcomeFits, SpeechFits, FeedFits,
         Unmade, ConsumerStep, Resume, Close, CloseUncaught
<1>2. CASE Resume
  <2>1. /\ UNCHANGED <<op, permitted, record, spoke, completions, excused, closing>>
        /\ \/ UNCHANGED outcome
           \/ at = "excusing" /\ outcome' = IF closing' THEN "closed" ELSE "excused"
    BY <1>2 DEF Resume, EndAs
  <2>2. UNCHANGED Tried
    BY <2>1 DEF Tried
  <2>3. CASE UNCHANGED outcome
    <3>1. Idle
      BY <2>1, <2>2, <2>3 DEF Idle
    <3> QED BY <3>1, IdleStutters
  <2>4. CASE at = "excusing" /\ outcome' = IF closing' THEN "closed" ELSE "excused"
    <3>1. ~closing => Promise!Truthful("excused")
      BY <1>1, <2>4 DEF Promise!Truthful
    <3> QED BY <1>1, <2>1, <2>2, <2>4, <3>1, EndsPromise DEF Promise!Outcomes
  <2> QED BY <2>1, <2>3, <2>4
<1>3. CASE Close
  <2>1. /\ at = "offering" /\ closing' = TRUE /\ Fail("transient") /\ "transient" \in Kinds
        /\ UNCHANGED <<op, feed, sawDelta, permitted, spoke, completions>>
    BY <1>3 DEF Close, Kinds
  <2> QED BY <2>1, FailMaps
<1>4. CASE CloseUncaught
  <2>1. /\ closing' = TRUE /\ outcome' = "closed"
        /\ UNCHANGED <<op, permitted, record, spoke, completions, excused>>
    BY <1>4 DEF CloseUncaught, EndAs
  <2>2. UNCHANGED Tried
    BY <2>1 DEF Tried
  <2> QED BY <1>1, <2>1, <2>2, LeavesPromise
<1> QED BY <1>2, <1>3, <1>4 DEF ConsumerStep

(* A record that fails ends the call or passes for a failure of the provider
   (tracing.py:162-167). *)
LEMMA RecordFailsMaps ==
  ASSUME GatewaySound, RecordFails
  PROVE  [Promise!Next]_(Promise!promiseVars)
<1> USE DEF place, history
<1>1. outcome = "none" /\ ~excused
  BY DEF GatewaySound, CallSound, TypeOK, OutcomeFits, SpeechFits, RecordFails, Listening
<1>2. CASE /\ UNCHANGED <<op, permitted, record, spoke, completions, excused, closing>>
           /\ outcome' = IF closing THEN "closed" ELSE "unrecorded"
  <2>1. UNCHANGED Tried
    BY <1>2 DEF Tried
  <2>2. ~closing => Promise!Truthful("unrecorded")
    BY <1>1 DEF Promise!Truthful
  <2> QED BY <1>1, <1>2, <2>1, <2>2, EndsPromise DEF Promise!Outcomes
<1>3. CASE /\ at \in {"calling", "reporting"} /\ closing' = closing
           /\ Fail(RecordKind)
           /\ UNCHANGED <<op, feed, sawDelta, permitted, spoke, completions>>
  <2>1. RecordKind \in Kinds
    BY DEF RecordKind, Kinds
  <2> QED BY <1>3, <2>1, FailMaps
<1> QED BY <1>2, <1>3 DEF RecordFails, EndAs

(* A cancelled call ends, its last attempt perhaps made (gateway.py:130,
   :270). *)
LEMMA CancellationMaps ==
  ASSUME GatewaySound, Cancellation
  PROVE  [Promise!Next]_(Promise!promiseVars)
<1> USE DEF place, history
<1>1. /\ UNCHANGED <<op, permitted, spoke, completions, excused, closing>>
      /\ outcome' = IF closing THEN "closed" ELSE "cancelled"
  BY DEF Cancellation, CancelOutside, CancelCall, CancelHandler, EndAs
<1>2. /\ TypeOK /\ outcome = "none" /\ ~excused
      /\ at \in {"calling", "reporting"} => record[Current] = "started"
      /\ at = "starting" => spoke = {} /\ record[Current] = "none" /\ profile \in permitted
  BY DEF GatewaySound, CallSound, TypeOK, AttemptsInOrder, PermittedOnly, OutcomeFits,
         SpeechFits, Unmade, Cancellation, CancelOutside, CancelCall, CancelHandler, Listening
<1>3. \/ UNCHANGED record
      \/ /\ at \in {"calling", "reporting"}
         /\ \E what \in Records \ {"none"} : record' = [record EXCEPT ![Current] = what]
      \/ at = "starting" /\ record' = [record EXCEPT ![Current] = "started"]
  BY DEF Cancellation, CancelOutside, CancelCall, CancelHandler, Listening, Records
<1>4. CASE \/ UNCHANGED record
           \/ /\ at \in {"calling", "reporting"}
              /\ \E what \in Records \ {"none"} : record' = [record EXCEPT ![Current] = what]
  <2>1. UNCHANGED Tried
    BY <1>2, <1>4, TriedStays
  <2>2. ~closing => Promise!Truthful("cancelled")
    BY <1>2 DEF Promise!Truthful
  <2> QED BY <1>1, <1>2, <2>1, <2>2, EndsPromise DEF Promise!Outcomes
<1>5. CASE at = "starting" /\ record' = [record EXCEPT ![Current] = "started"]
  <2>1. Tried = Promise!Before(Current) /\ Tried' = Tried \cup {Current}
    BY <1>2, <1>5, TriedInOrder, TriedGrows DEF GatewaySound, CallSound
  <2>2. Current[1] \in permitted /\ Current \in Promise!Attempts
    BY <1>2, <1>5, CurrentIsAttempt, SamePlan DEF Current
  <2>3. PICK x \in Promise!Attempts : x = Current
    BY <2>2
  <2>4. Promise!EndTrying(x)
    BY <1>1, <1>2, <1>5, <2>1, <2>2, <2>3
       DEF Promise!EndTrying, Promise!Running, Promise!said, Promise!Told, Tried
  <2> QED BY <2>4 DEF Promise!Next
<1> QED BY <1>3, <1>4, <1>5

(* Every step of a call is one its promise allows, or none: the plan is tried
   in order and only as allowed, one attempt is heard and none follows it, and
   the call ends once and truly, for every plan and every number of retries
   (gateway.py:75-158, :194-336). *)
THEOREM GatewayKeepsPromise == Spec => KeepsPromise
<1>1. Init => Promise!Init
  <2> SUFFICES ASSUME Init
               PROVE  Promise!Init
    OBVIOUS
  <2>1. Tried = {}
    BY DEF Init, Tried
  <2> QED BY <2>1 DEF Init, Promise!Init, Tried
<1>2. GatewaySound /\ [Next]_vars => [Promise!Next]_(Promise!promiseVars)
  <2> SUFFICES ASSUME GatewaySound, [Next]_vars
               PROVE  [Promise!Next]_(Promise!promiseVars)
    OBVIOUS
  <2>1. CASE UNCHANGED vars \/ Terminated
    <3>1. Idle
      BY <2>1 DEF vars, Terminated, history, Idle, Tried
    <3> QED BY <3>1, IdleStutters
  <2> QED
    BY <2>1, GatewayMaps, ProviderMaps, ConsumerMaps, RecordFailsMaps, CancellationMaps DEF Next
<1> QED BY <1>1, <1>2, GatewayIsSound, PTL DEF Spec, KeepsPromise, Promise!Spec
=============================================================================
