--------------------------- MODULE ToolCallsProofs ---------------------------
(***************************************************************************)
(* What the tool calls keep, for every number of turns, every set of calls *)
(* they may make, every profile of the policy and every number of retries. *)
(***************************************************************************)
EXTENDS ToolCallsProps, SequenceTheorems, FiniteSetTheorems, WellFoundedInduction, TLAPS

USE ToolsAssumption, CacheAssumption

(* Before the server ran the tool; until the attempt ends.                 *)
Ahead == {"starting", "waiting", "fetching", "connecting", "calling", "offering"}

Attempting == Ahead \cup {"answering"}

(* Where a call is, and what it has done so far: an attempt that is made   *)
(* has run no more often than those before it, it is told nothing before   *)
(* it ends, and it was still allowed when it was begun.                    *)
Stage(t) ==
  /\ attempt[t] <= Attempts(request[t])
  /\ ran[t] <= attempt[t]
  /\ at[t] \in Ahead => ran[t] < attempt[t]
  /\ outcome[t] \in {"completed", "reported", "oversized"} => ran[t] >= 1
  /\ at[t] = "answering" => ran[t] >= 1
  /\ at[t] \in Attempting => outcome[t] = "none"
  /\ at[t] = "refusing" => outcome[t] = "denied"
  /\ at[t] = "noting" => outcome[t] \in {"completed", "reported", "failed", "cancelled"}
  /\ at[t] = "last" => outcome[t] \in {"completed", "reported"} /\ request[t].op = "stream"
  /\ dropped[t] => outcome[t] \in {"failed", "cancelled"}

(* SettledAsTold, of one call. *)
Settled(t) ==
  /\ outcome[t] = "none" => closed[t] = <<>>
  /\ outcome[t] = "denied" => closed[t] = <<"failed">> /\ attempt[t] = 0
  /\ outcome[t] = "completed" => closed[t] = <<"completed">>
  /\ outcome[t] = "reported" => closed[t] = <<"failed">>
  /\ outcome[t] = "oversized" => closed[t] = <<>> /\ request[t].op = "execute"
  /\ outcome[t] = "failed" /\ ~dropped[t] => closed[t] = <<"failed">>
  /\ Len(closed[t]) > 1 => /\ Len(closed[t]) = 2
                           /\ request[t].op = "stream"
                           /\ dropped[t] \/ outcome[t] = "cancelled"

Heard(t) == heard[t] \subseteq {attempt[t]}

Call(t) == Stage(t) /\ Settled(t) /\ Heard(t)

(* TypeOK without the lock and the token. *)
CallTypes ==
  /\ at \in [Turns -> Points]
  /\ request \in [Turns -> Requests]
  /\ attempt \in [Turns -> 0 .. MaxRetries + 1]
  /\ ran \in [Turns -> Nat]
  /\ closed \in [Turns -> Seq(Records)]
  /\ heard \in [Turns -> SUBSET (1 .. MaxRetries + 1)]
  /\ dropped \in [Turns -> BOOLEAN]
  /\ outcome \in [Turns -> Outcomes]

TokenTypes ==
  /\ token \in {"none", "fresh", "stale"}
  /\ holder \in Turns \cup {Nobody}
  /\ waiters \in Seq(Turns)
  /\ fetched \in Nat
  /\ aged \in Nat

callVars == <<request, attempt, ran, closed, heard, dropped, outcome>>

(* The sequences of records that occur. *)
LEMMA RecordSequences ==
  /\ <<>> \in Seq(Records) /\ Len(<<>>) = 0
  /\ \A r \in Records : <<r>> \in Seq(Records) /\ Len(<<r>>) = 1 /\ Append(<<>>, r) = <<r>>
  /\ \A s \in Seq(Records), r \in Records :
       Append(s, r) \in Seq(Records) /\ Len(Append(s, r)) = Len(s) + 1
  /\ <<"failed">> \in Seq(Records) /\ <<"completed">> \in Seq(Records) /\ <<"cancelled">> \in Seq(Records)
BY DEF Records

(* How many attempts a call may take. *)
LEMMA AttemptsBound ==
  ASSUME NEW r \in Requests
  PROVE  /\ Attempts(r) \in 1 .. MaxRetries + 1
         /\ \/ r.safety = "read_only"
            \/ r.safety = "write" /\ r.keyed
            \/ Attempts(r) = 1
<1>1. /\ r.safety \in Levels /\ r.keyed \in BOOLEAN /\ MaxRetries \in Nat
  OBVIOUS
<1>2. CASE AllowsRetry(r)
  BY <1>1, <1>2 DEF Attempts, AllowsRetry, Levels
<1>3. CASE ~AllowsRetry(r)
  BY <1>1, <1>3 DEF Attempts
<1> QED BY <1>2, <1>3

(* The step leaves every call but u's as it is. *)
OnlyOf(u) ==
  \A t \in Turns \ {u} :
    /\ at'[t] = at[t] /\ request'[t] = request[t] /\ attempt'[t] = attempt[t]
    /\ ran'[t] = ran[t] /\ closed'[t] = closed[t] /\ heard'[t] = heard[t]
    /\ dropped'[t] = dropped[t] /\ outcome'[t] = outcome[t]

(* What a step of one call keeps of it, it keeps of all of them. *)
LEMMA OneCall ==
  ASSUME \A t \in Turns : Call(t), NEW u \in Turns, OnlyOf(u), Call(u)'
  PROVE  (\A t \in Turns : Call(t))'
<1> SUFFICES ASSUME NEW t \in Turns, t # u PROVE Call(t)'
  OBVIOUS
<1>1. Stage(t)' BY DEF OnlyOf, Call, Stage
<1>2. Settled(t)' BY DEF OnlyOf, Call, Settled
<1>3. Heard(t)' BY DEF OnlyOf, Call, Heard
<1> QED BY <1>1, <1>2, <1>3 DEF Call

(* An attempt that ends with its record, from an attempt or a stream's
   consumer who was offered its session (gateway.py, _record_failure_event). *)
LEMMA Closing ==
  ASSUME CallTypes, NEW u \in Turns, Call(u), at[u] \in Attempting,
         UNCHANGED <<request, ran>>,
         NEW r \in Records, NEW how \in {"completed", "reported", "failed", "cancelled"},
         how = "completed" => r = "completed",
         how \in {"reported", "failed"} => r = "failed",
         Close(u, r, how),
         how \in {"completed", "reported"} => at[u] = "answering",
         \/ UNCHANGED dropped
         \/ how = "failed" /\ dropped' = [dropped EXCEPT ![u] = TRUE]
  PROVE  CallTypes' /\ Call(u)' /\ OnlyOf(u)
<1>1. /\ at' = [at EXCEPT ![u] = "noting"]
      /\ closed' = [closed EXCEPT ![u] = Append(closed[u], r)]
      /\ outcome' = [outcome EXCEPT ![u] = how]
      /\ UNCHANGED <<attempt, heard>>
  BY DEF Close
<1>2. outcome[u] = "none" /\ closed[u] = <<>> /\ ~dropped[u]
  BY DEF Call, Stage, Settled, Ahead, CallTypes
<1>3. closed'[u] = <<r>> /\ Len(closed'[u]) = 1 /\ closed'[u] \in Seq(Records)
  BY <1>1, <1>2, RecordSequences DEF CallTypes
<1>4. CallTypes'
  <2>1. at' \in [Turns -> Points] /\ outcome' \in [Turns -> Outcomes] /\ dropped' \in [Turns -> BOOLEAN]
    BY <1>1 DEF CallTypes, Points, Outcomes
  <2>2. closed' \in [Turns -> Seq(Records)]
    BY <1>1, <1>2, RecordSequences DEF CallTypes
  <2> QED BY <1>1, <2>1, <2>2 DEF CallTypes
<1>5. OnlyOf(u)
  BY <1>1 DEF OnlyOf, CallTypes
<1>6. at'[u] = "noting" /\ outcome'[u] = how /\ attempt'[u] = attempt[u] /\ heard'[u] = heard[u]
      /\ request'[u] = request[u] /\ ran'[u] = ran[u]
      /\ (dropped'[u] => how = "failed")
  BY <1>1, <1>2 DEF CallTypes
<1>7. Stage(u)'
  BY <1>6 DEF Call, Stage, Ahead, Attempting
<1>8. Settled(u)'
  BY <1>3, <1>6 DEF Settled
<1>9. Heard(u)'
  BY <1>6 DEF Call, Heard
<1> QED BY <1>4, <1>5, <1>7, <1>8, <1>9 DEF Call

(* The handler of an attempt that failed or was cancelled. *)
LEMMA Handling ==
  ASSUME CallTypes, NEW u \in Turns, Call(u), at[u] \in Attempting,
         UNCHANGED <<request, ran, dropped>>,
         NEW kind \in {"transient", "permanent", "cancelled"}, Handle(u, kind)
  PROVE  CallTypes' /\ Call(u)' /\ OnlyOf(u) /\ at'[u] \in {"starting", "noting"}
         /\ at' = [at EXCEPT ![u] = at'[u]]
<1>1. CASE kind = "transient" /\ CanRetry(u)
  <2>1. /\ at' = [at EXCEPT ![u] = "starting"]
        /\ attempt' = [attempt EXCEPT ![u] = attempt[u] + 1]
        /\ UNCHANGED <<heard, closed, outcome>>
    BY <1>1 DEF Handle
  <2>2. attempt[u] < Attempts(request[u]) /\ attempt[u] \notin heard[u]
    BY <1>1 DEF CanRetry
  <2>3. Attempts(request[u]) \in 1 .. MaxRetries + 1 /\ attempt[u] \in Nat /\ MaxRetries \in Nat
    BY AttemptsBound DEF CallTypes
  <2>4. heard[u] = {}
    BY <2>2 DEF Call, Heard
  <2>5. CallTypes'
    <3>1. attempt[u] + 1 \in 0 .. MaxRetries + 1
      BY <2>2, <2>3
    <3> QED BY <2>1, <3>1 DEF CallTypes, Points
  <2>6. /\ at'[u] = "starting" /\ attempt'[u] = attempt[u] + 1 /\ heard'[u] = {} /\ closed'[u] = closed[u]
        /\ outcome'[u] = outcome[u] /\ request'[u] = request[u] /\ ran'[u] = ran[u] /\ dropped'[u] = dropped[u]
    BY <2>1, <2>4 DEF CallTypes
  <2>7. outcome[u] = "none" /\ ran[u] <= attempt[u] /\ ran[u] \in Nat
    BY DEF Call, Stage, CallTypes
  <2>8. Attempts(request[u])' = Attempts(request[u])
    BY DEF Attempts, AllowsRetry
  <2>9. Stage(u)'
    BY <2>2, <2>3, <2>6, <2>7, <2>8 DEF Stage, Ahead, Attempting, Call
  <2>10. Settled(u)'
    BY <2>6, <2>7, RecordSequences DEF Settled, Call
  <2>11. Heard(u)' BY <2>6 DEF Heard
  <2>12. OnlyOf(u) BY <2>1 DEF OnlyOf, CallTypes
  <2> QED BY <2>1, <2>5, <2>6, <2>9, <2>10, <2>11, <2>12 DEF Call
<1>2. CASE ~(kind = "transient" /\ CanRetry(u)) /\ kind = "cancelled"
  <2>1. Close(u, "cancelled", "cancelled") BY <1>2 DEF Handle
  <2>2. CallTypes' /\ Call(u)' /\ OnlyOf(u)
    BY <2>1, Closing DEF Records
  <2>3. at' = [at EXCEPT ![u] = "noting"] /\ at'[u] = "noting"
    BY <2>1 DEF Close, CallTypes
  <2> QED BY <2>2, <2>3
<1>3. CASE ~(kind = "transient" /\ CanRetry(u)) /\ kind # "cancelled"
  <2>1. Close(u, "failed", "failed") BY <1>3 DEF Handle
  <2>2. CallTypes' /\ Call(u)' /\ OnlyOf(u)
    BY <2>1, Closing DEF Records
  <2>3. at' = [at EXCEPT ![u] = "noting"] /\ at'[u] = "noting"
    BY <2>1 DEF Close, CallTypes
  <2> QED BY <2>2, <2>3
<1> QED BY <1>1, <1>2, <1>3

(* A step that moves one call between its points and tells nothing. *)
LEMMA Moving ==
  ASSUME CallTypes, NEW u \in Turns, Call(u), NEW p \in Points,
         at' = [at EXCEPT ![u] = p],
         UNCHANGED <<request, attempt, closed, dropped, outcome>>,
         \/ UNCHANGED heard
         \/ Hear(u) /\ attempt[u] >= 1,
         \/ UNCHANGED ran /\ (p \in Ahead => at[u] \in Ahead)
                          /\ p \notin {"answering", "refusing", "noting"}
         \/ p = "answering" /\ at[u] \in Ahead /\ ran' = [ran EXCEPT ![u] = ran[u] + 1],
         p = "last" => outcome[u] \in {"completed", "reported"} /\ request[u].op = "stream"
  PROVE  CallTypes' /\ Call(u)' /\ OnlyOf(u)
<1>1. MaxRetries \in Nat /\ attempt[u] \in 0 .. MaxRetries + 1 /\ ran[u] \in Nat
  BY DEF CallTypes
<1>2. heard' \in [Turns -> SUBSET (1 .. MaxRetries + 1)] /\ heard'[u] \subseteq heard[u] \cup {attempt[u]}
      /\ \A t \in Turns \ {u} : heard'[t] = heard[t]
  <2>1. CASE UNCHANGED heard BY <2>1 DEF CallTypes
  <2>2. CASE Hear(u) /\ attempt[u] >= 1
    <3>1. attempt[u] \in 1 .. MaxRetries + 1 BY <1>1, <2>2
    <3>2. heard[u] \cup {attempt[u]} \in SUBSET (1 .. MaxRetries + 1) BY <3>1 DEF CallTypes
    <3> QED BY <2>2, <3>2 DEF CallTypes, Hear
  <2> QED BY <2>1, <2>2
<1>0. ran' \in [Turns -> Nat] /\ \A t \in Turns \ {u} : ran'[t] = ran[t]
  <2>1. CASE UNCHANGED ran BY <2>1 DEF CallTypes
  <2>2. CASE ran' = [ran EXCEPT ![u] = ran[u] + 1] BY <1>1, <2>2 DEF CallTypes
  <2> QED BY <2>1, <2>2
<1>3. CallTypes'
  <2>1. at' \in [Turns -> Points] BY DEF CallTypes
  <2> QED BY <2>1, <1>0, <1>2 DEF CallTypes
<1>4. OnlyOf(u)
  BY <1>0, <1>2 DEF OnlyOf, CallTypes
<1>5. at'[u] = p /\ Attempts(request[u])' = Attempts(request[u])
  BY DEF CallTypes, Attempts, AllowsRetry
<1>6. Stage(u)'
  <2>1. CASE UNCHANGED ran /\ (p \in Ahead => at[u] \in Ahead) /\ p \notin {"answering", "refusing", "noting"}
    BY <1>1, <1>5, <2>1 DEF Call, Stage, Ahead, Attempting, Points
  <2>2. CASE p = "answering" /\ at[u] \in Ahead /\ ran' = [ran EXCEPT ![u] = ran[u] + 1]
    <3>1. ran'[u] = ran[u] + 1 /\ ran'[u] >= 1 /\ ran'[u] <= attempt[u] BY <1>1, <2>2 DEF CallTypes, Call, Stage
    <3>2. outcome[u] = "none" BY <2>2 DEF Call, Stage, Attempting
    <3> QED BY <1>1, <1>5, <2>2, <3>1, <3>2 DEF Call, Stage, Ahead, Attempting
  <2> QED BY <2>1, <2>2
<1>7. Settled(u)'
  BY DEF Settled, Call
<1>8. Heard(u)'
  BY <1>2 DEF Heard, Call
<1> QED BY <1>3, <1>4, <1>6, <1>7, <1>8 DEF Call

(* A call that is made: allowed, or refused (gateway.py, execute). *)
LEMMA Asking ==
  ASSUME CallTypes, NEW u \in Turns, Ask(u)
  PROVE  CallTypes' /\ Call(u)' /\ OnlyOf(u)
<1>1. PICK r \in Requests : request' = [request EXCEPT ![u] = r] /\ (Begin(u) \/ Refuse(u))
  BY DEF Ask
<1>2. /\ ran' = [ran EXCEPT ![u] = 0] /\ heard' = [heard EXCEPT ![u] = {}]
      /\ dropped' = [dropped EXCEPT ![u] = FALSE]
  BY DEF Ask
<1>3. request'[u] = r /\ ran'[u] = 0 /\ heard'[u] = {} /\ ~dropped'[u]
  BY <1>1, <1>2 DEF CallTypes
<1>4. Attempts(request[u])' \in 1 .. MaxRetries + 1 /\ MaxRetries \in Nat
  BY <1>3, AttemptsBound DEF Attempts, AllowsRetry
<1>5. CASE Begin(u)
  <2>1. at'[u] = "starting" /\ attempt'[u] = 1 /\ closed'[u] = <<>> /\ outcome'[u] = "none"
    BY <1>5 DEF Begin, CallTypes
  <2>2. CallTypes'
    BY <1>1, <1>2, <1>4, <1>5, RecordSequences DEF CallTypes, Begin, Points, Outcomes
  <2>3. Call(u)'
    BY <2>1, <1>3, <1>4, RecordSequences DEF Call, Stage, Settled, Heard, Ahead, Attempting
  <2>4. OnlyOf(u)
    BY <1>1, <1>2, <1>5 DEF OnlyOf, Begin, CallTypes
  <2> QED BY <2>2, <2>3, <2>4
<1>6. CASE Refuse(u)
  <2>1. at'[u] = "refusing" /\ attempt'[u] = 0 /\ closed'[u] = <<"failed">> /\ outcome'[u] = "denied"
    BY <1>6 DEF Refuse, CallTypes
  <2>2. CallTypes'
    BY <1>1, <1>2, <1>4, <1>6, RecordSequences DEF CallTypes, Refuse, Points, Outcomes
  <2>3. Call(u)'
    BY <2>1, <1>3, <1>4 DEF Call, Stage, Settled, Heard, Ahead, Attempting
  <2>4. OnlyOf(u)
    BY <1>1, <1>2, <1>6 DEF OnlyOf, Refuse, CallTypes
  <2> QED BY <2>2, <2>3, <2>4
<1> QED BY <1>1, <1>5, <1>6

(* A call that ends without a record of its own: a result too large for the
   backend, or a cancellation outside the attempt's handler. *)
LEMMA Leaving ==
  ASSUME CallTypes, NEW u \in Turns, Call(u), NEW how \in {"oversized", "cancelled"},
         at' = [at EXCEPT ![u] = "idle"],
         outcome' = [outcome EXCEPT ![u] = how],
         UNCHANGED <<request, attempt, ran, closed, heard, dropped>>,
         \/ how = "oversized" /\ at[u] = "answering" /\ request[u].op = "execute"
         \/ how = "cancelled" /\ at[u] \in {"starting", "refusing", "noting"}
  PROVE  CallTypes' /\ Call(u)' /\ OnlyOf(u)
<1>1. CallTypes' /\ OnlyOf(u)
  BY DEF CallTypes, OnlyOf, Points, Outcomes
<1>2. at'[u] = "idle" /\ outcome'[u] = how /\ Attempts(request[u])' = Attempts(request[u])
  BY DEF CallTypes, Attempts, AllowsRetry
<1>3. Stage(u)' /\ Heard(u)'
  BY <1>2 DEF Call, Stage, Heard, Ahead, Attempting
<1>4. Settled(u)'
  <2>1. CASE how = "oversized"
    BY <2>1, <1>2, RecordSequences DEF Call, Stage, Settled, Ahead, Attempting
  <2>2. CASE how = "cancelled"
    BY <2>2, <1>2 DEF Call, Settled
  <2> QED BY <2>1, <2>2
<1> QED BY <1>1, <1>3, <1>4 DEF Call

(* A stream whose result is recorded is dropped or cancelled before its
   consumer has it: the second record (gateway.py, stream_execute). *)
LEMMA Overtaking ==
  ASSUME CallTypes, NEW u \in Turns, Call(u),
         Offers(u) \/ at[u] = "last",
         UNCHANGED <<request, ran>>,
         NEW r \in Records, NEW how \in {"failed", "cancelled"},
         Close(u, r, how),
         \/ how = "cancelled" /\ UNCHANGED dropped
         \/ how = "failed" /\ dropped' = [dropped EXCEPT ![u] = TRUE]
  PROVE  CallTypes' /\ Call(u)' /\ OnlyOf(u)
<1>1. /\ at' = [at EXCEPT ![u] = "noting"]
      /\ closed' = [closed EXCEPT ![u] = Append(closed[u], r)]
      /\ outcome' = [outcome EXCEPT ![u] = how]
      /\ UNCHANGED <<attempt, heard>>
  BY DEF Close
<1>2. /\ outcome[u] \in {"completed", "reported"} /\ request[u].op = "stream"
      /\ closed[u] \in Seq(Records) /\ Len(closed[u]) = 1
  <2>1. outcome[u] \in {"completed", "reported"} /\ request[u].op = "stream"
    BY DEF Offers, Call, Stage
  <2>2. closed[u] = <<"completed">> \/ closed[u] = <<"failed">>
    BY <2>1 DEF Call, Settled
  <2> QED BY <2>1, <2>2, RecordSequences DEF Records
<1>3. closed'[u] \in Seq(Records) /\ Len(closed'[u]) = 2
  <2>1. closed'[u] = Append(closed[u], r) BY <1>1 DEF CallTypes
  <2>2. Append(closed[u], r) \in Seq(Records) /\ Len(Append(closed[u], r)) = Len(closed[u]) + 1
    BY <1>2, RecordSequences
  <2> QED BY <1>2, <2>1, <2>2
<1>4. dropped' \in [Turns -> BOOLEAN] /\ (\A t \in Turns \ {u} : dropped'[t] = dropped[t])
      /\ (dropped'[u] \/ how = "cancelled")
  <2>1. CASE how = "cancelled" /\ UNCHANGED dropped BY <2>1 DEF CallTypes
  <2>2. CASE dropped' = [dropped EXCEPT ![u] = TRUE] BY <2>2 DEF CallTypes
  <2> QED BY <2>1, <2>2
<1>5. CallTypes'
  <2>1. at' \in [Turns -> Points] /\ outcome' \in [Turns -> Outcomes]
    BY <1>1 DEF CallTypes, Points, Outcomes
  <2>2. Append(closed[u], r) \in Seq(Records)
    BY <1>2, RecordSequences
  <2>3. closed' \in [Turns -> Seq(Records)]
    BY <1>1, <2>2 DEF CallTypes
  <2> QED BY <1>1, <1>4, <2>1, <2>3 DEF CallTypes
<1>6. OnlyOf(u)
  BY <1>1, <1>4 DEF OnlyOf, CallTypes
<1>7. at'[u] = "noting" /\ outcome'[u] = how /\ Attempts(request[u])' = Attempts(request[u])
  BY <1>1 DEF CallTypes, Attempts, AllowsRetry
<1>8. Stage(u)' /\ Heard(u)'
  BY <1>1, <1>7 DEF Call, Stage, Heard, Ahead, Attempting
<1>9. Settled(u)'
  BY <1>2, <1>3, <1>4, <1>7 DEF Settled
<1> QED BY <1>5, <1>6, <1>8, <1>9 DEF Call

Calls == CallTypes /\ \A t \in Turns : Call(t)

LEMMA CallsStart == Init => Calls
<1> SUFFICES ASSUME Init PROVE Calls
  OBVIOUS
<1>1. CallTypes
  BY RecordSequences DEF Init, CallTypes, Points, Outcomes
<1>2. ASSUME NEW t \in Turns PROVE Call(t)
  <2>1. Attempts(request[t]) \in 1 .. MaxRetries + 1 /\ MaxRetries \in Nat
    BY <1>1, AttemptsBound DEF CallTypes
  <2>2. at[t] = "idle" /\ attempt[t] = 0 /\ ran[t] = 0 /\ closed[t] = <<>> /\ heard[t] = {}
        /\ ~dropped[t] /\ outcome[t] = "none"
    BY DEF Init
  <2> QED BY <2>1, <2>2, RecordSequences DEF Call, Stage, Settled, Heard, Ahead, Attempting
<1> QED BY <1>1, <1>2 DEF Calls

(* Every step keeps what is said of the calls, one action at a time. *)
LEMMA CallsStep == Calls /\ [Next]_vars => Calls'
<1> SUFFICES ASSUME Calls, [Next]_vars PROVE Calls'
  OBVIOUS
<1>0. CallTypes /\ \A t \in Turns : Call(t)
  BY DEF Calls
<1>1. ASSUME NEW u \in Turns, CallTypes' /\ Call(u)' /\ OnlyOf(u) PROVE Calls'
  BY <1>0, <1>1, OneCall DEF Calls
<1>2. CASE UNCHANGED <<at, callVars>>
  BY <1>0, <1>2 DEF Calls, callVars, CallTypes, Call, Stage, Settled, Heard, Attempts, AllowsRetry
<1>3. ASSUME NEW u \in Turns, Ask(u) PROVE Calls'
  BY <1>0, <1>1, <1>3, Asking
<1>4. ASSUME NEW u \in Turns, Open(u) PROVE Calls'
  <2>1. at[u] = "starting" /\ UNCHANGED callVars
    BY <1>4 DEF Open, callVars
  <2>2. PICK p \in {"connecting", "fetching", "waiting"} : at' = [at EXCEPT ![u] = p]
    BY <1>4 DEF Open
  <2> QED BY <1>0, <1>1, <2>1, <2>2, Moving DEF callVars, Points, Ahead
<1>5. ASSUME NEW u \in Turns, Acquire(u) PROVE Calls'
  <2>1. at[u] = "waiting" /\ UNCHANGED callVars
    BY <1>5 DEF Acquire, callVars
  <2>2. PICK p \in {"connecting", "fetching"} : at' = [at EXCEPT ![u] = p]
    BY <1>5 DEF Acquire
  <2> QED BY <1>0, <1>1, <2>1, <2>2, Moving DEF callVars, Points, Ahead
<1>6. ASSUME NEW u \in Turns, Fetch(u) PROVE Calls'
  <2>1. at[u] = "fetching" /\ UNCHANGED callVars /\ at' = [at EXCEPT ![u] = "connecting"]
    BY <1>6 DEF Fetch, callVars
  <2> QED BY <1>0, <1>1, <2>1, Moving DEF callVars, Points, Ahead
<1>7. ASSUME NEW u \in Turns, FetchFails(u) PROVE Calls'
  <2>1. at[u] \in Attempting /\ Handle(u, "permanent") /\ UNCHANGED <<request, ran, dropped>>
    BY <1>7 DEF FetchFails, Attempting, Ahead
  <2> QED BY <1>0, <1>1, <2>1, Handling
<1>8. ASSUME NEW u \in Turns, Connect(u) PROVE Calls'
  <2>1. at[u] = "connecting" /\ UNCHANGED <<request, attempt, ran, closed, dropped, outcome>>
    BY <1>8 DEF Connect
  <2>2. attempt[u] >= 1
    BY <1>0, <2>1 DEF Call, Stage, Ahead, CallTypes
  <2>3. PICK p \in {"calling", "offering"} : at' = [at EXCEPT ![u] = p] /\ (UNCHANGED heard \/ Hear(u))
    BY <1>8 DEF Connect
  <2> QED BY <1>0, <1>1, <2>1, <2>2, <2>3, Moving DEF Points, Ahead
<1>9. ASSUME NEW u \in Turns, Run(u) PROVE Calls'
  <2>1. /\ at[u] = "calling" /\ at' = [at EXCEPT ![u] = "answering"]
        /\ ran' = [ran EXCEPT ![u] = ran[u] + 1]
        /\ UNCHANGED <<request, attempt, closed, heard, dropped, outcome>>
    BY <1>9 DEF Run
  <2> QED BY <1>0, <1>1, <2>1, Moving DEF Points, Ahead
<1>10. ASSUME NEW u \in Turns, Resume(u) PROVE Calls'
  <2>1. UNCHANGED callVars
    BY <1>10 DEF Resume, callVars
  <2>2. PICK p \in {"calling", "idle"} : at' = [at EXCEPT ![u] = p] /\ (p = "calling" => at[u] = "offering")
    BY <1>10 DEF Resume
  <2> QED BY <1>0, <1>1, <2>1, <2>2, Moving DEF callVars, Points, Ahead
<1>11. ASSUME NEW u \in Turns, Answer(u) PROVE Calls'
  <2>1. at[u] = "answering" /\ UNCHANGED <<request, ran, dropped>>
    BY <1>11 DEF Answer
  <2>2. CASE Close(u, "completed", "completed")
    BY <1>0, <1>1, <2>1, <2>2, Closing DEF Records, Attempting
  <2>3. CASE Close(u, "failed", "reported")
    BY <1>0, <1>1, <2>1, <2>3, Closing DEF Records, Attempting
  <2>4. CASE /\ request[u].op = "execute" /\ at' = [at EXCEPT ![u] = "idle"]
             /\ outcome' = [outcome EXCEPT ![u] = "oversized"]
             /\ UNCHANGED <<attempt, closed, heard>>
    BY <1>0, <1>1, <2>1, <2>4, Leaving
  <2> QED BY <1>11, <2>2, <2>3, <2>4 DEF Answer
<1>12. ASSUME NEW u \in Turns, Fail(u) PROVE Calls'
  <2>1. at[u] \in Attempting /\ UNCHANGED <<request, ran, dropped>>
    BY <1>12 DEF Fail, Attempting, Ahead
  <2>2. PICK kind \in {"transient", "permanent"} : Handle(u, kind)
    BY <1>12 DEF Fail
  <2> QED BY <1>0, <1>1, <2>1, <2>2, Handling
<1>13. ASSUME NEW u \in Turns, Noted(u) PROVE Calls'
  <2>1. at[u] \in {"refusing", "noting"} /\ UNCHANGED <<request, attempt, ran, closed, dropped, outcome>>
    BY <1>13 DEF Noted
  <2>2. CASE ~Offers(u) /\ at' = [at EXCEPT ![u] = "idle"] /\ UNCHANGED heard
    BY <1>0, <1>1, <2>1, <2>2, Moving DEF Points, Ahead
  <2>3. CASE Offers(u) /\ at' = [at EXCEPT ![u] = "last"] /\ Hear(u)
    <3>1. outcome[u] \in {"completed", "reported"} /\ request[u].op = "stream"
      BY <1>0, <2>3 DEF Offers
    <3>2. ran[u] >= 1 /\ ran[u] <= attempt[u] /\ ran[u] \in Nat /\ attempt[u] \in Nat
      BY <1>0, <3>1 DEF Call, Stage, CallTypes
    <3>3. attempt[u] >= 1
      BY <3>2
    <3> QED BY <1>0, <1>1, <2>1, <2>3, <3>1, <3>3, Moving DEF Points, Ahead
  <2> QED BY <1>13, <2>2, <2>3 DEF Noted
<1>14. ASSUME NEW u \in Turns, Drop(u) PROVE Calls'
  <2>1. /\ dropped' = [dropped EXCEPT ![u] = TRUE] /\ Close(u, "failed", "failed")
        /\ UNCHANGED <<request, ran>>
    BY <1>14 DEF Drop
  <2>2. CASE at[u] = "offering"
    BY <1>0, <1>1, <2>1, <2>2, Closing DEF Records, Attempting, Ahead
  <2>3. CASE at[u] = "last"
    BY <1>0, <1>1, <2>1, <2>3, Overtaking DEF Records
  <2> QED BY <1>14, <2>2, <2>3 DEF Drop
<1>15. ASSUME NEW u \in Turns, CancelAttempt(u) PROVE Calls'
  <2>1. Handle(u, "cancelled") /\ UNCHANGED <<request, ran, dropped>>
    BY <1>15 DEF CancelAttempt
  <2>2. CASE Offers(u)
    <3>1. Close(u, "cancelled", "cancelled")
      BY <2>1 DEF Handle
    <3> QED BY <1>0, <1>1, <2>1, <2>2, <3>1, Overtaking DEF Records
  <2>3. CASE ~Offers(u)
    <3>1. at[u] \in Attempting
      BY <1>15, <2>3 DEF CancelAttempt, Attempting, Ahead
    <3> QED BY <1>0, <1>1, <2>1, <3>1, Handling
  <2> QED BY <2>2, <2>3
<1>16. ASSUME NEW u \in Turns, CancelOutside(u) PROVE Calls'
  BY <1>0, <1>1, <1>16, Leaving DEF CancelOutside
<1>17. CASE Age \/ CacheTurns \/ UNCHANGED vars
  BY <1>2, <1>17 DEF Age, CacheTurns, vars, callVars
<1> QED
  BY <1>3, <1>4, <1>5, <1>6, <1>7, <1>8, <1>9, <1>10, <1>11, <1>12, <1>13, <1>14, <1>15, <1>16, <1>17
  DEF Next, Work

-----------------------------------------------------------------------------
(* The token and its lock.                                                 *)

Lock == at \in [Turns -> Points] /\ TokenTypes /\ LockAccounted

AtLock == {"waiting", "fetching"}

(* A step that stays away from the lock. *)
LEMMA AwayFromLock ==
  ASSUME Lock, NEW u \in Turns, NEW p \in Points \ AtLock, at[u] \notin AtLock,
         at' = [at EXCEPT ![u] = p], UNCHANGED <<holder, waiters, token>>,
         fetched' \in Nat, aged' \in Nat
  PROVE  Lock'
<1>1. at' \in [Turns -> Points] /\ \A t \in Turns : at'[t] # at[t] => at'[t] \notin AtLock /\ at[t] \notin AtLock
  BY DEF Lock
<1>2. TokenTypes' BY DEF Lock, TokenTypes
<1>3. LockAccounted'
  <2> USE DEF Lock, TokenTypes, AtLock
  <2>1. (holder = Nobody => waiters = <<>>)' BY DEF LockAccounted
  <2>2. (\A t \in Turns : at[t] = "fetching" => holder = t /\ token # "fresh")' BY <1>1 DEF LockAccounted
  <2>3. (\A t \in Turns : holder = t => at[t] \in {"fetching", "waiting"})' BY <1>1 DEF LockAccounted
  <2>4. (\A i \in 1 .. Len(waiters) : at[waiters[i]] = "waiting" /\ holder # waiters[i])'
    <3>1. \A i \in 1 .. Len(waiters) : waiters[i] \in Turns OBVIOUS
    <3> QED BY <1>1, <3>1 DEF LockAccounted
  <2>5. (\A i, j \in 1 .. Len(waiters) : waiters[i] = waiters[j] => i = j)' BY DEF LockAccounted
  <2>6. (\A t \in Turns : at[t] = "waiting" =>
           holder = t \/ \E i \in 1 .. Len(waiters) : waiters[i] = t)' BY <1>1 DEF LockAccounted
  <2> QED BY <2>1, <2>2, <2>3, <2>4, <2>5, <2>6 DEF LockAccounted
<1> QED BY <1>1, <1>2, <1>3 DEF Lock

(* The holder gives the lock to the first in line, whatever the token
   became. *)
LEMMA Releasing ==
  ASSUME Lock, NEW u \in Turns, holder = u, Release, NEW p \in Points \ AtLock,
         at' = [at EXCEPT ![u] = p], token' \in {"none", "fresh", "stale"},
         fetched' \in Nat, aged' \in Nat
  PROVE  Lock'
<1> USE DEF Lock, TokenTypes
<1>0. Nobody \notin Turns OBVIOUS
<1>1. at' \in [Turns -> Points] /\ at'[u] = p /\ \A t \in Turns \ {u} : at'[t] = at[t]
  OBVIOUS
<1>2. \A t \in Turns : at'[t] # "fetching"
  BY <1>1 DEF LockAccounted, AtLock
<1>3. \A i \in 1 .. Len(waiters) : waiters[i] \in Turns \ {u} /\ at'[waiters[i]] = "waiting"
  <2>1. \A i \in 1 .. Len(waiters) : waiters[i] \in Turns OBVIOUS
  <2> QED BY <1>1, <2>1 DEF LockAccounted
<1>4. \A t \in Turns : at'[t] = "waiting" => \E i \in 1 .. Len(waiters) : waiters[i] = t
  BY <1>1 DEF LockAccounted, AtLock
<1>5. CASE waiters = <<>>
  <2>1. holder' = Nobody /\ waiters' = <<>> BY <1>5 DEF Release
  <2>2. \A t \in Turns : at'[t] # "waiting" BY <1>4, <1>5
  <2> QED BY <1>0, <1>1, <1>2, <2>1, <2>2 DEF LockAccounted
<1>6. CASE waiters # <<>>
  <2>1. holder' = waiters[1] /\ waiters' = Tail(waiters) /\ Len(waiters) \in Nat \ {0}
    BY <1>6 DEF Release
  <2>2. /\ waiters' \in Seq(Turns) /\ Len(waiters') = Len(waiters) - 1
        /\ \A i \in 1 .. Len(waiters') : waiters'[i] = waiters[i + 1]
    BY <1>6, <2>1
  <2>3. \A i \in 1 .. Len(waiters') : i + 1 \in 1 .. Len(waiters) /\ i + 1 # 1
    BY <2>1, <2>2
  <2>4. 1 \in 1 .. Len(waiters) /\ holder' \in Turns /\ at'[holder'] = "waiting" /\ holder' # Nobody
    BY <1>0, <1>3, <2>1
  <2>5. \A i, j \in 1 .. Len(waiters) : waiters[i] = waiters[j] => i = j
    BY DEF LockAccounted
  <2>6. \A i \in 1 .. Len(waiters') : at'[waiters'[i]] = "waiting" /\ holder' # waiters'[i]
    BY <1>3, <2>1, <2>2, <2>3, <2>4, <2>5
  <2>7. \A i, j \in 1 .. Len(waiters') : waiters'[i] = waiters'[j] => i = j
    BY <2>1, <2>2, <2>3, <2>5
  <2>8. ASSUME NEW t \in Turns, at'[t] = "waiting", holder' # t
        PROVE  \E i \in 1 .. Len(waiters') : waiters'[i] = t
    <3>1. PICK i \in 1 .. Len(waiters) : waiters[i] = t BY <1>4, <2>8
    <3>2. i - 1 \in 1 .. Len(waiters') BY <2>1, <2>2, <2>8, <3>1
    <3>3. waiters'[i - 1] = t BY <2>1, <2>2, <3>1, <3>2
    <3> QED BY <3>2, <3>3
  <2> QED BY <1>1, <1>2, <2>1, <2>2, <2>4, <2>6, <2>7, <2>8 DEF LockAccounted
<1> QED BY <1>5, <1>6

(* A call that finds the token stale takes the lock or joins the line. *)
LEMMA Opening ==
  ASSUME Lock, NEW u \in Turns, Open(u)
  PROVE  Lock'
<1> USE DEF Lock, TokenTypes
<1>0. Nobody \notin Turns /\ at[u] = "starting" /\ holder # u /\ UNCHANGED <<token, fetched, aged>>
  BY DEF Open, LockAccounted
<1>1. CASE at' = [at EXCEPT ![u] = "connecting"] /\ UNCHANGED <<holder, waiters>>
  BY <1>0, <1>1, AwayFromLock DEF AtLock, Points
<1>2. CASE /\ token # "fresh" /\ holder = Nobody /\ at' = [at EXCEPT ![u] = "fetching"]
           /\ holder' = u /\ UNCHANGED waiters
  <2>1. waiters = <<>> BY <1>2 DEF LockAccounted
  <2>2. at' \in [Turns -> Points] /\ at'[u] = "fetching" /\ \A t \in Turns \ {u} : at'[t] = at[t]
    BY <1>2 DEF Points
  <2>3. \A t \in Turns : at[t] \notin {"fetching", "waiting"}
    BY <1>0, <1>2, <2>1 DEF LockAccounted
  <2> QED BY <1>0, <1>2, <2>1, <2>2, <2>3 DEF LockAccounted
<1>3. CASE /\ token # "fresh" /\ holder # Nobody /\ at' = [at EXCEPT ![u] = "waiting"]
           /\ waiters' = Append(waiters, u) /\ UNCHANGED holder
  <2>1. /\ waiters' \in Seq(Turns) /\ Len(waiters') = Len(waiters) + 1 /\ waiters'[Len(waiters) + 1] = u
        /\ \A i \in 1 .. Len(waiters) : waiters'[i] = waiters[i] /\ waiters[i] \in Turns
    BY <1>3
  <2>2. at' \in [Turns -> Points] /\ at'[u] = "waiting" /\ \A t \in Turns \ {u} : at'[t] = at[t]
    BY <1>3 DEF Points
  <2>3. \A i \in 1 .. Len(waiters) : waiters[i] # u
    BY <1>0 DEF LockAccounted
  <2>4. \A i \in 1 .. Len(waiters') : i \in 1 .. Len(waiters) \/ i = Len(waiters) + 1
    BY <2>1
  <2>5. (\A i \in 1 .. Len(waiters) : at[waiters[i]] = "waiting" /\ holder # waiters[i])'
    BY <1>0, <1>3, <2>1, <2>2, <2>3, <2>4 DEF LockAccounted
  <2>6. (\A i, j \in 1 .. Len(waiters) : waiters[i] = waiters[j] => i = j)'
    <3> SUFFICES ASSUME NEW i \in 1 .. Len(waiters'), NEW j \in 1 .. Len(waiters'), waiters'[i] = waiters'[j]
                 PROVE  i = j
      OBVIOUS
    <3>1. CASE i \in 1 .. Len(waiters) /\ j \in 1 .. Len(waiters) BY <2>1, <3>1 DEF LockAccounted
    <3>2. CASE i = Len(waiters) + 1 /\ j \in 1 .. Len(waiters) BY <2>1, <2>3, <3>2
    <3>3. CASE j = Len(waiters) + 1 /\ i \in 1 .. Len(waiters) BY <2>1, <2>3, <3>3
    <3>4. CASE i = Len(waiters) + 1 /\ j = Len(waiters) + 1 BY <3>4
    <3> QED BY <2>4, <3>1, <3>2, <3>3, <3>4
  <2>7. (\A t \in Turns : at[t] = "waiting" => holder = t \/ \E i \in 1 .. Len(waiters) : waiters[i] = t)'
    <3> SUFFICES ASSUME NEW t \in Turns, at'[t] = "waiting", holder # t
                 PROVE  \E i \in 1 .. Len(waiters') : waiters'[i] = t
      BY <1>3
    <3>1. CASE t = u BY <2>1, <3>1
    <3>2. CASE t # u
      <4>1. PICK i \in 1 .. Len(waiters) : waiters[i] = t BY <2>2, <3>2 DEF LockAccounted
      <4>2. i \in 1 .. Len(waiters') BY <2>1
      <4> QED BY <2>1, <4>1, <4>2
    <3> QED BY <3>1, <3>2
  <2>8. /\ (\A t \in Turns : at[t] = "fetching" => holder = t /\ token # "fresh")'
        /\ (\A t \in Turns : holder = t => at[t] \in {"fetching", "waiting"})'
    BY <1>0, <1>3, <2>2 DEF LockAccounted
  <2> QED BY <1>0, <1>3, <2>1, <2>2, <2>5, <2>6, <2>7, <2>8 DEF LockAccounted
<1> QED BY <1>1, <1>2, <1>3 DEF Open

(* Two parts of the line put together. *)
LEMMA Joined ==
  ASSUME NEW a \in Seq(Turns), NEW b \in Seq(Turns)
  PROVE  /\ a \o b \in Seq(Turns) /\ Len(a \o b) = Len(a) + Len(b)
         /\ \A i \in 1 .. Len(a) + Len(b) : (a \o b)[i] = IF i <= Len(a) THEN a[i] ELSE b[i - Len(a)]
BY ConcatProperties

(* A cancelled call leaves its place in line, and the line keeps its order. *)
LEMMA LeavingTheLine ==
  ASSUME Lock, NEW u \in Turns, at[u] = "waiting", holder # u, Leave(u),
         NEW p \in Points \ AtLock, at' = [at EXCEPT ![u] = p],
         UNCHANGED <<holder, token, fetched, aged>>
  PROVE  Lock'
<1> USE DEF Lock, TokenTypes
<1>1. PICK k \in 1 .. Len(waiters) :
        waiters[k] = u /\ waiters' = SubSeq(waiters, 1, k - 1) \o SubSeq(waiters, k + 1, Len(waiters))
  BY DEF Leave
<1> DEFINE a == SubSeq(waiters, 1, k - 1)
           b == SubSeq(waiters, k + 1, Len(waiters))
<1>2. Len(waiters) \in Nat /\ k \in Nat /\ k >= 1 /\ k <= Len(waiters)
  BY <1>1
<1>3. a \in Seq(Turns) /\ Len(a) = k - 1 /\ \A i \in 1 .. k - 1 : a[i] = waiters[i]
  BY <1>2
<1>4. b \in Seq(Turns) /\ Len(b) = Len(waiters) - k /\ \A i \in 1 .. Len(waiters) - k : b[i] = waiters[k + i]
  BY <1>2
<1>5. waiters' = a \o b
  BY <1>1
<1> HIDE DEF a, b
<1>6. /\ waiters' \in Seq(Turns) /\ Len(waiters') = Len(waiters) - 1
      /\ \A i \in 1 .. k - 1 : waiters'[i] = waiters[i]
      /\ \A i \in k .. Len(waiters) - 1 : waiters'[i] = waiters[i + 1]
  <2>1. /\ a \o b \in Seq(Turns) /\ Len(a \o b) = Len(a) + Len(b)
        /\ \A i \in 1 .. Len(a) + Len(b) : (a \o b)[i] = IF i <= Len(a) THEN a[i] ELSE b[i - Len(a)]
    BY <1>3, <1>4, Joined
  <2>2. ASSUME NEW i \in k .. Len(waiters) - 1 PROVE (a \o b)[i] = waiters[i + 1]
    <3>1. i - (k - 1) \in 1 .. Len(waiters) - k /\ k + (i - (k - 1)) = i + 1 /\ ~(i <= k - 1)
          /\ i \in 1 .. Len(a) + Len(b)
      BY <1>2, <1>3, <1>4
    <3> QED BY <1>3, <1>4, <2>1, <3>1
  <2>3. \A i \in 1 .. k - 1 : (a \o b)[i] = waiters[i]
    BY <1>2, <1>3, <1>4, <2>1
  <2> QED BY <1>2, <1>3, <1>4, <1>5, <2>1, <2>2, <2>3
<1> DEFINE Old(i) == IF i <= k - 1 THEN i ELSE i + 1
<1>7. \A i \in 1 .. Len(waiters') : Old(i) \in 1 .. Len(waiters) /\ Old(i) # k /\ waiters'[i] = waiters[Old(i)]
  BY <1>2, <1>6
<1>8. \A i, j \in 1 .. Len(waiters') : Old(i) = Old(j) => i = j
  BY <1>2, <1>6
<1>9. \A i \in 1 .. Len(waiters) : i # k => \E j \in 1 .. Len(waiters') : waiters'[j] = waiters[i]
  <2> SUFFICES ASSUME NEW i \in 1 .. Len(waiters), i # k
               PROVE  \E j \in 1 .. Len(waiters') : waiters'[j] = waiters[i]
    OBVIOUS
  <2>1. CASE i < k
    <3>1. i \in 1 .. k - 1 /\ i \in 1 .. Len(waiters') BY <1>2, <1>6, <2>1
    <3> QED BY <1>6, <3>1
  <2>2. CASE i > k
    <3>1. i - 1 \in k .. Len(waiters) - 1 /\ i - 1 \in 1 .. Len(waiters') /\ (i - 1) + 1 = i BY <1>2, <1>6, <2>2
    <3> QED BY <1>6, <3>1
  <2> QED BY <1>2, <2>1, <2>2
<1> HIDE DEF Old
<1>10. at' \in [Turns -> Points] /\ at'[u] = p /\ \A t \in Turns \ {u} : at'[t] = at[t]
  OBVIOUS
<1>11. \A i, j \in 1 .. Len(waiters) : waiters[i] = waiters[j] => i = j
  BY DEF LockAccounted
<1>12. (\A i \in 1 .. Len(waiters) : at[waiters[i]] = "waiting" /\ holder # waiters[i])'
  <2> SUFFICES ASSUME NEW i \in 1 .. Len(waiters')
               PROVE  at'[waiters'[i]] = "waiting" /\ holder # waiters'[i]
    OBVIOUS
  <2>1. Old(i) \in 1 .. Len(waiters) /\ waiters'[i] = waiters[Old(i)] /\ waiters'[i] \in Turns /\ waiters'[i] # u
    <3>1. Old(i) \in 1 .. Len(waiters) /\ Old(i) # k /\ waiters'[i] = waiters[Old(i)] BY <1>7
    <3>2. waiters[Old(i)] # waiters[k] BY <1>1, <1>11, <3>1
    <3>3. waiters[Old(i)] \in Turns BY <3>1
    <3> QED BY <1>1, <3>1, <3>2, <3>3
  <2> QED BY <1>10, <2>1 DEF LockAccounted
<1>13. (\A i, j \in 1 .. Len(waiters) : waiters[i] = waiters[j] => i = j)'
  <2> SUFFICES ASSUME NEW i \in 1 .. Len(waiters'), NEW j \in 1 .. Len(waiters'), waiters'[i] = waiters'[j]
               PROVE  i = j
    OBVIOUS
  <2>1. Old(i) = Old(j) BY <1>7, <1>11
  <2> QED BY <1>8, <2>1
<1>14. (\A t \in Turns : at[t] = "waiting" => holder = t \/ \E i \in 1 .. Len(waiters) : waiters[i] = t)'
  <2> SUFFICES ASSUME NEW t \in Turns, at'[t] = "waiting", holder # t
               PROVE  \E i \in 1 .. Len(waiters') : waiters'[i] = t
    OBVIOUS
  <2>1. t # u /\ at[t] = "waiting" BY <1>10 DEF AtLock
  <2>2. PICK i \in 1 .. Len(waiters) : waiters[i] = t BY <2>1 DEF LockAccounted
  <2> QED BY <1>1, <1>9, <2>1, <2>2
<1>15. /\ (holder = Nobody => waiters = <<>>)'
       /\ (\A t \in Turns : at[t] = "fetching" => holder = t /\ token # "fresh")'
       /\ (\A t \in Turns : holder = t => at[t] \in {"fetching", "waiting"})'
  <2>1. holder # Nobody BY <1>2 DEF LockAccounted
  <2> QED BY <1>10, <2>1 DEF LockAccounted, AtLock
<1> QED BY <1>6, <1>10, <1>12, <1>13, <1>14, <1>15 DEF LockAccounted

(* Where the handler of an attempt leaves its call. *)
LEMMA HandledAt ==
  ASSUME NEW u \in Turns, NEW kind, Handle(u, kind)
  PROVE  \E p \in Points \ AtLock : at' = [at EXCEPT ![u] = p]
<1>1. at' = [at EXCEPT ![u] = "starting"] \/ at' = [at EXCEPT ![u] = "noting"]
  BY DEF Handle, Close
<1> QED BY <1>1 DEF Points, AtLock

LEMMA LockStarts == Init => Lock /\ OneFetchPerToken
BY DEF Init, Lock, TokenTypes, LockAccounted, OneFetchPerToken, Points

(* Every step accounts for the lock, one action at a time. *)
LEMMA LockStep == Lock /\ [Next]_vars => Lock'
<1> SUFFICES ASSUME Lock, [Next]_vars PROVE Lock'
  OBVIOUS
<1>0. fetched \in Nat /\ aged \in Nat /\ token \in {"none", "fresh", "stale"}
  BY DEF Lock, TokenTypes
<1>1. ASSUME NEW u \in Turns, NEW p \in Points \ AtLock, at[u] \notin AtLock,
             at' = [at EXCEPT ![u] = p], UNCHANGED auth
      PROVE  Lock'
  BY <1>0, <1>1, AwayFromLock DEF auth
<1>2. ASSUME NEW u \in Turns, Ask(u) PROVE Lock'
  <2>1. PICK p \in Points \ AtLock : at' = [at EXCEPT ![u] = p]
    <3>1. at' = [at EXCEPT ![u] = "starting"] \/ at' = [at EXCEPT ![u] = "refusing"]
      BY <1>2 DEF Ask, Begin, Refuse
    <3> QED BY <3>1 DEF Points, AtLock
  <2>2. at[u] \notin AtLock /\ UNCHANGED auth BY <1>2 DEF Ask, AtLock
  <2> QED BY <1>1, <2>1, <2>2
<1>3. ASSUME NEW u \in Turns, Open(u) PROVE Lock'
  BY <1>3, Opening
<1>4. ASSUME NEW u \in Turns, Acquire(u) PROVE Lock'
  <2>1. at[u] = "waiting" /\ holder = u /\ UNCHANGED <<token, fetched, aged>>
    BY <1>4 DEF Acquire
  <2>2. CASE token = "fresh" /\ at' = [at EXCEPT ![u] = "connecting"] /\ Release
    <3>1. "connecting" \in Points \ AtLock BY DEF Points, AtLock
    <3> QED BY <1>0, <2>1, <2>2, <3>1, Releasing
  <2>3. CASE token # "fresh" /\ at' = [at EXCEPT ![u] = "fetching"] /\ UNCHANGED <<holder, waiters>>
    <3>1. at' \in [Turns -> Points] /\ at'[u] = "fetching" /\ \A t \in Turns \ {u} : at'[t] = at[t]
      BY <2>3 DEF Lock, Points
    <3>2. \A i \in 1 .. Len(waiters) : waiters[i] \in Turns \ {u}
      <4>1. \A i \in 1 .. Len(waiters) : waiters[i] \in Turns BY DEF Lock, TokenTypes
      <4> QED BY <2>1, <4>1 DEF Lock, LockAccounted
    <3> QED BY <2>1, <2>3, <3>1, <3>2 DEF Lock, TokenTypes, LockAccounted
  <2> QED BY <1>4, <2>2, <2>3 DEF Acquire
<1>5. ASSUME NEW u \in Turns, Fetch(u) PROVE Lock'
  <2>1. at[u] = "fetching" /\ holder = u /\ Release /\ at' = [at EXCEPT ![u] = "connecting"]
    BY <1>5 DEF Fetch, Lock, LockAccounted
  <2>2. token' \in {"none", "fresh", "stale"} /\ fetched' \in Nat /\ aged' \in Nat
    BY <1>0, <1>5 DEF Fetch
  <2> QED BY <2>1, <2>2, Releasing DEF Points, AtLock
<1>6. ASSUME NEW u \in Turns, FetchFails(u) PROVE Lock'
  <2>1. at[u] = "fetching" /\ holder = u /\ Release /\ Handle(u, "permanent") /\ UNCHANGED <<token, fetched, aged>>
    BY <1>6 DEF FetchFails, Lock, LockAccounted
  <2>2. PICK p \in Points \ AtLock : at' = [at EXCEPT ![u] = p]
    BY <2>1, HandledAt
  <2> QED BY <1>0, <2>1, <2>2, Releasing
<1>7. ASSUME NEW u \in Turns, Connect(u) \/ Run(u) \/ Resume(u) \/ Answer(u) \/ Noted(u) \/ CancelOutside(u) PROVE Lock'
  <2>1. at[u] \notin AtLock /\ UNCHANGED auth
    BY <1>7 DEF Connect, Run, Resume, Answer, Noted, CancelOutside, AtLock
  <2>2. \E p \in {"calling", "offering", "answering", "idle", "last", "noting"} : at' = [at EXCEPT ![u] = p]
    BY <1>7 DEF Connect, Run, Resume, Answer, Noted, CancelOutside, Close
  <2>3. PICK p \in Points \ AtLock : at' = [at EXCEPT ![u] = p]
    BY <2>2 DEF Points, AtLock
  <2> QED BY <1>1, <2>1, <2>3
<1>8. ASSUME NEW u \in Turns, Fail(u) PROVE Lock'
  <2>1. at[u] \notin AtLock /\ UNCHANGED auth /\ \E kind : Handle(u, kind)
    BY <1>8 DEF Fail, AtLock
  <2>2. PICK p \in Points \ AtLock : at' = [at EXCEPT ![u] = p]
    BY <2>1, HandledAt
  <2> QED BY <1>1, <2>1, <2>2
<1>9. ASSUME NEW u \in Turns, Drop(u) PROVE Lock'
  <2>1. at[u] \notin AtLock /\ UNCHANGED auth /\ at' = [at EXCEPT ![u] = "noting"]
    BY <1>9 DEF Drop, Close, AtLock
  <2> QED BY <1>1, <2>1 DEF Points, AtLock
<1>10. ASSUME NEW u \in Turns, CancelAttempt(u) PROVE Lock'
  <2>1. Handle(u, "cancelled") /\ UNCHANGED <<token, fetched, aged>>
    BY <1>10 DEF CancelAttempt
  <2>2. PICK p \in Points \ AtLock : at' = [at EXCEPT ![u] = p]
    BY <2>1, HandledAt
  <2>3. CASE at[u] \in {"connecting", "calling", "answering"} /\ UNCHANGED <<holder, waiters>>
    BY <1>1, <2>1, <2>2, <2>3 DEF auth, AtLock
  <2>4. CASE at[u] = "waiting" /\ holder # u /\ Leave(u) /\ UNCHANGED holder
    BY <2>1, <2>2, <2>4, LeavingTheLine
  <2>5. CASE at[u] \in {"waiting", "fetching"} /\ holder = u /\ Release
    BY <1>0, <2>1, <2>2, <2>5, Releasing
  <2>6. CASE Offers(u) /\ UNCHANGED <<holder, waiters>>
    BY <1>1, <2>1, <2>2, <2>6 DEF auth, AtLock, Offers
  <2> QED BY <1>10, <2>3, <2>4, <2>5, <2>6 DEF CancelAttempt
<1>11. CASE Age
  <2>1. token' = "stale" /\ aged' \in Nat /\ UNCHANGED <<at, holder, waiters, fetched>>
    BY <1>0, <1>11 DEF Age
  <2> QED BY <2>1 DEF Lock, TokenTypes, LockAccounted
<1>12. CASE CacheTurns \/ UNCHANGED vars
  <2>1. UNCHANGED <<at, token, holder, waiters, fetched, aged>>
    BY <1>12 DEF CacheTurns, vars, auth
  <2> QED BY <2>1 DEF Lock, TokenTypes, LockAccounted
<1> QED
  BY <1>2, <1>3, <1>4, <1>5, <1>6, <1>7, <1>8, <1>9, <1>10, <1>11, <1>12 DEF Next, Work

(* No call fetches a token another has fetched. *)
LEMMA TokenStep == Lock /\ OneFetchPerToken /\ [Next]_vars => OneFetchPerToken'
<1> SUFFICES ASSUME Lock, OneFetchPerToken, [Next]_vars PROVE OneFetchPerToken'
  OBVIOUS
<1>0. fetched \in Nat /\ aged \in Nat /\ token \in {"none", "fresh", "stale"}
  BY DEF Lock, TokenTypes
<1>1. CASE UNCHANGED <<token, fetched, aged>>
  BY <1>1 DEF OneFetchPerToken
<1>2. ASSUME NEW u \in Turns, Fetch(u) PROVE OneFetchPerToken'
  <2>1. token # "fresh" BY <1>2 DEF Fetch, Lock, LockAccounted
  <2>2. fetched' = fetched + 1 /\ \/ token' = "fresh" /\ aged' = aged
                                  \/ token' = "stale" /\ aged' = aged + 1
    BY <1>2 DEF Fetch
  <2> QED BY <1>0, <2>1, <2>2 DEF OneFetchPerToken
<1>3. CASE Age
  BY <1>0, <1>3 DEF Age, OneFetchPerToken
<1>4. ASSUME NEW u \in Turns,
             \/ Ask(u) \/ Open(u) \/ Acquire(u) \/ FetchFails(u) \/ Connect(u) \/ Run(u) \/ Resume(u)
             \/ Answer(u) \/ Fail(u) \/ Noted(u) \/ Drop(u) \/ CancelAttempt(u) \/ CancelOutside(u)
      PROVE  UNCHANGED <<token, fetched, aged>>
  BY <1>4 DEF Ask, Open, Acquire, FetchFails, Connect, Run, Resume, Answer, Fail, Noted, Drop,
     CancelAttempt, CancelOutside, auth
<1>5. CASE CacheTurns \/ UNCHANGED vars
  BY <1>1, <1>5 DEF CacheTurns, vars, auth
<1> QED BY <1>1, <1>2, <1>3, <1>4, <1>5 DEF Next, Work

-----------------------------------------------------------------------------
(* The policy's decisions.                                                 *)

(* A set of numbers has a least one. *)
LEMMA Least ==
  ASSUME NEW T \in SUBSET Nat, T # {}
  PROVE  \E x \in T : \A y \in T : x <= y
<1> DEFINE R == OpToRel(<, Nat)
<1>1. IsWellFoundedOn(R, Nat)
  BY NatLessThanWellFounded
<1>2. \A x, y \in Nat : x < y => <<x, y>> \in R
  BY DEF OpToRel
<1> HIDE DEF R
<1>3. PICK x \in T : \A y \in T : <<y, x>> \notin R
  BY <1>1, WFMin
<1>4. \A y \in T : ~(y < x)
  BY <1>2, <1>3
<1> QED BY <1>4

(* The j-th smallest of a set of positions is one of them, with j - 1 below
   it. *)
LEMMA NthOf ==
  ASSUME NEW n \in Nat, NEW S \in SUBSET (1 .. n), NEW j \in 1 .. Cardinality(S)
  PROVE  Nth(S, j) \in S /\ Cardinality({m \in S : m < Nth(S, j)}) = j - 1
<1> DEFINE Below(i) == {m \in S : m < i}
           T == {i \in Nat : Cardinality(Below(i + 1)) >= j}
<1>1. IsFiniteSet(S) /\ \A m \in S : m \in Nat /\ 1 <= m /\ m <= n
  <2>1. IsFiniteSet(1 .. n)
    BY FS_Interval
  <2>2. IsFiniteSet(S)
    BY <2>1, FS_Subset
  <2> QED BY <2>2
<1>2. T \in SUBSET Nat /\ \A i \in Nat : i \in T <=> Cardinality(Below(i + 1)) >= j
  OBVIOUS
<1> HIDE DEF T
<1>3. /\ Below(n + 1) = S
      /\ Below(1) = {}
      /\ \A i \in Nat : i \notin S => Below(i + 1) = Below(i)
      /\ \A i \in S : Below(i + 1) = Below(i) \cup {i} /\ i \notin Below(i)
  <2>1. \A m \in S : m < n + 1 /\ ~(m < 1)
    BY <1>1
  <2>2. ASSUME NEW i \in Nat, i \notin S PROVE \A m \in S : m < i + 1 <=> m < i
    BY <1>1, <2>2
  <2>3. ASSUME NEW i \in S PROVE \A m \in S : m < i + 1 <=> m < i \/ m = i
    BY <1>1
  <2>4. \A i \in S : ~(i < i)
    BY <1>1
  <2>5. Below(n + 1) = S /\ Below(1) = {}
    BY <2>1
  <2>6. ASSUME NEW i \in Nat, i \notin S PROVE Below(i + 1) = Below(i)
    BY <2>2, <2>6
  <2>7. ASSUME NEW i \in S PROVE Below(i + 1) = Below(i) \cup {i} /\ i \notin Below(i)
    <3>1. i \notin Below(i)
      BY <2>4
    <3>2. ASSUME NEW m PROVE m \in Below(i + 1) <=> m \in Below(i) \cup {i}
      BY <2>3
    <3> HIDE DEF Below
    <3> QED BY <3>1, <3>2
  <2> HIDE DEF Below
  <2> QED BY <2>5, <2>6, <2>7
<1>4. \A i : IsFiniteSet(Below(i)) /\ Cardinality(Below(i)) \in Nat
  <2>1. \A i : Below(i) \in SUBSET S
    OBVIOUS
  <2> HIDE DEF Below
  <2> QED BY <1>1, <2>1, FS_Subset, FS_CardinalityType
<1> HIDE DEF Below
<1>5. PICK x \in T : \A y \in T : x <= y
  <2>1. n \in T
    BY <1>2, <1>3
  <2> QED BY <1>2, <2>1, Least
<1>6. x \in Nat /\ Cardinality(Below(x + 1)) >= j /\ x # 0
  <2>1. x \in Nat /\ Cardinality(Below(x + 1)) >= j
    BY <1>2
  <2>2. ASSUME x = 0 PROVE FALSE
    <3>1. Cardinality(Below(x + 1)) = 0
      BY <1>3, <2>2, FS_EmptySet
    <3> QED BY <2>1, <3>1
  <2> QED BY <2>1, <2>2
<1>7. Cardinality(Below(x)) < j
  <2>1. x - 1 \in Nat /\ (x - 1) + 1 = x /\ x - 1 \notin T
    BY <1>2, <1>5, <1>6
  <2>2. ~(Cardinality(Below(x)) >= j)
    BY <1>2, <2>1
  <2> QED BY <1>4, <2>2
<1>8. x \in S
  BY <1>3, <1>4, <1>6, <1>7
<1>9. Cardinality(Below(x + 1)) = Cardinality(Below(x)) + 1
  BY <1>3, <1>4, <1>8, FS_AddElement
<1>10. Cardinality(Below(x)) = j - 1
  BY <1>4, <1>6, <1>7, <1>9
<1>11. \E k \in S : Cardinality({m \in S : m < k}) = j - 1
  BY <1>8, <1>10 DEF Below
<1> QED BY <1>11 DEF Nth

(* What is kept of the cache: entries of it, no two the same. *)
LEMMA KeptIs ==
  ASSUME entries \in Seq(Entries), NEW S \in SUBSET (1 .. Len(entries))
  PROVE  /\ IsFiniteSet(S) /\ Cardinality(S) \in Nat /\ Cardinality(S) <= Len(entries)
         /\ Kept(S) \in Seq(Entries) /\ Len(Kept(S)) = Cardinality(S)
         /\ \A j \in 1 .. Cardinality(S) : Nth(S, j) \in S /\ Kept(S)[j] = entries[Nth(S, j)]
         /\ \A i, j \in 1 .. Cardinality(S) : Nth(S, i) = Nth(S, j) => i = j
<1>1. IsFiniteSet(1 .. Len(entries)) /\ Cardinality(1 .. Len(entries)) = Len(entries)
  <2>1. 1 \in Int /\ Len(entries) \in Nat
    OBVIOUS
  <2>2. /\ IsFiniteSet(1 .. Len(entries))
        /\ Cardinality(1 .. Len(entries)) = IF 1 > Len(entries) THEN 0 ELSE Len(entries) - 1 + 1
    BY <2>1, FS_Interval
  <2> QED BY <2>1, <2>2
<1>2. IsFiniteSet(S) /\ Cardinality(S) \in Nat /\ Cardinality(S) <= Len(entries)
  BY <1>1, FS_Subset, FS_CardinalityType
<1>3. ASSUME NEW j \in 1 .. Cardinality(S)
      PROVE  Nth(S, j) \in S /\ Cardinality({m \in S : m < Nth(S, j)}) = j - 1
  <2>1. Len(entries) \in Nat
    OBVIOUS
  <2> QED BY <2>1, NthOf
<1>4. ASSUME NEW j \in 1 .. Cardinality(S)
      PROVE  entries[Nth(S, j)] \in Entries
  <2>1. Nth(S, j) \in 1 .. Len(entries)
    BY <1>3
  <2> QED BY <2>1
<1>5. Kept(S) \in Seq(Entries) /\ Len(Kept(S)) = Cardinality(S)
  BY <1>2, <1>4 DEF Kept
<1>6. \A j \in 1 .. Cardinality(S) : Kept(S)[j] = entries[Nth(S, j)]
  BY DEF Kept
<1>7. ASSUME NEW i \in 1 .. Cardinality(S), NEW j \in 1 .. Cardinality(S), Nth(S, i) = Nth(S, j)
      PROVE  i = j
  <2>1. i - 1 = j - 1
    BY <1>3, <1>7
  <2> QED BY <2>1
<1> QED BY <1>2, <1>3, <1>5, <1>6, <1>7

(* One entry for a key; decisions the policy made. *)
Distinct(q) == \A i, j \in 1 .. Len(q) : q[i].key = q[j].key => i = j

Genuine(k, d) == \E t \in Turns, r \in Requests : k = CacheKey(t, r) /\ d = Verdict(r)

AllGenuine(q) == \A i \in 1 .. Len(q) : Genuine(q[i].key, q[i].decision)

Cache ==
  entries \in Seq(Entries) /\ Len(entries) <= MaxEntries /\ Distinct(entries) /\ AllGenuine(entries)

LEMMA CacheKeepsDecisions == Cache => DecisionsKept
BY DEF Cache, Distinct, AllGenuine, Genuine, DecisionsKept

(* What is kept has one entry for a key and genuine decisions as before. *)
LEMMA KeptSound ==
  ASSUME Cache, NEW S \in SUBSET (1 .. Len(entries))
  PROVE  /\ Kept(S) \in Seq(Entries) /\ Len(Kept(S)) \in Nat /\ Len(Kept(S)) <= Len(entries)
         /\ Distinct(Kept(S)) /\ AllGenuine(Kept(S))
<1> DEFINE q == Kept(S)
<1>1. /\ q \in Seq(Entries) /\ Len(q) \in Nat /\ Len(q) <= Len(entries)
      /\ \A j \in 1 .. Len(q) : Nth(S, j) \in 1 .. Len(entries) /\ q[j] = entries[Nth(S, j)]
      /\ \A i, j \in 1 .. Len(q) : Nth(S, i) = Nth(S, j) => i = j
  BY KeptIs DEF Cache
<1> HIDE DEF q
<1>2. Distinct(q)
  BY <1>1 DEF Cache, Distinct
<1>3. AllGenuine(q)
  BY <1>1 DEF Cache, AllGenuine
<1> QED BY <1>1, <1>2, <1>3 DEF q

(* An entry is put behind those that are kept. *)
LEMMA Putting ==
  ASSUME NEW q \in Seq(Entries), Distinct(q), AllGenuine(q), NEW e \in Entries,
         \A i \in 1 .. Len(q) : q[i].key # e.key, Genuine(e.key, e.decision)
  PROVE  /\ Append(q, e) \in Seq(Entries) /\ Len(Append(q, e)) = Len(q) + 1
         /\ Distinct(Append(q, e)) /\ AllGenuine(Append(q, e))
<1> DEFINE p == Append(q, e)
<1>1. /\ Len(q) \in Nat /\ p \in Seq(Entries) /\ Len(p) = Len(q) + 1 /\ p[Len(q) + 1] = e
      /\ \A i \in 1 .. Len(q) : p[i] = q[i]
  OBVIOUS
<1> HIDE DEF p
<1>2. \A i \in 1 .. Len(p) : i \in 1 .. Len(q) \/ i = Len(q) + 1
  BY <1>1
<1>3. Distinct(p)
  BY <1>1, <1>2 DEF Distinct
<1>4. AllGenuine(p)
  BY <1>1, <1>2 DEF AllGenuine
<1> QED BY <1>1, <1>3, <1>4 DEF p

(* The oldest is evicted. *)
LEMMA Trimming ==
  ASSUME NEW q \in Seq(Entries), Len(q) <= MaxEntries + 1, Distinct(q), AllGenuine(q)
  PROVE  /\ Trimmed(q) \in Seq(Entries) /\ Len(Trimmed(q)) <= MaxEntries
         /\ Distinct(Trimmed(q)) /\ AllGenuine(Trimmed(q))
<1>1. CASE Len(q) > MaxEntries
  <2> DEFINE p == Tail(q)
  <2>1. q # <<>> /\ Len(q) \in Nat
    BY <1>1
  <2>2. /\ p \in Seq(Entries) /\ Len(p) = Len(q) - 1
        /\ \A i \in 1 .. Len(p) : i + 1 \in 1 .. Len(q) /\ p[i] = q[i + 1]
    BY <2>1
  <2>3. Trimmed(q) = p
    BY <1>1 DEF Trimmed
  <2> HIDE DEF p
  <2>4. Distinct(p)
    <3> SUFFICES ASSUME NEW i \in 1 .. Len(p), NEW j \in 1 .. Len(p), p[i].key = p[j].key
                 PROVE  i = j
      BY DEF Distinct
    <3>1. i + 1 = j + 1
      BY <2>2 DEF Distinct
    <3> QED BY <2>1, <2>2, <3>1
  <2>5. AllGenuine(p)
    BY <2>2 DEF AllGenuine
  <2> QED BY <2>1, <2>2, <2>3, <2>4, <2>5
<1>2. CASE ~(Len(q) > MaxEntries)
  <2>1. Trimmed(q) = q /\ Len(q) \in Nat
    BY <1>2 DEF Trimmed
  <2> QED BY <1>2, <2>1
<1> QED BY <1>1, <1>2

(* The policy's decision is one of three. *)
LEMMA Verdicts ==
  ASSUME NEW r \in Requests, NEW t \in Turns
  PROVE  /\ Verdict(r) \in {"allow", "deny", "approval_required"}
         /\ \A d : d = Verdict(r) => Entry(CacheKey(t, r), d) \in Entries
<1>1. Verdict(r) \in {"allow", "deny", "approval_required"}
  BY DEF Verdict
<1>2. CacheKey(t, r) \in Turns \X {"execute", "stream"} \X Levels
  BY DEF CacheKey
<1> QED BY <1>1, <1>2 DEF Entry, Entries

(* An evaluation, from the cache or the engine (policy/service.py,
   evaluate). *)
LEMMA Evaluating ==
  ASSUME Cache, NEW u \in Turns, NEW r \in Requests, Evaluate(CacheKey(u, r), Verdict(r))
  PROVE  Cache'
<1> DEFINE k == CacheKey(u, r)
           O == Others(k)
<1>1. /\ Len(entries) \in Nat /\ Len(entries) <= MaxEntries /\ MaxEntries \in Nat \ {0}
      /\ O \in SUBSET (1 .. Len(entries)) /\ \A i \in O : entries[i].key # k
  BY DEF Cache, Others, Positions
<1>2. ASSUME NEW S \in SUBSET O
      PROVE  \A i \in 1 .. Len(Kept(S)) : Kept(S)[i].key # k
  <2>1. S \in SUBSET (1 .. Len(entries))
    BY <1>1
  <2>2. \A j \in 1 .. Len(Kept(S)) : Nth(S, j) \in S /\ Kept(S)[j] = entries[Nth(S, j)]
    BY <2>1, KeptIs DEF Cache
  <2> QED BY <1>1, <2>2
<1>3. CASE Hit(k)
  <2>1. PICK i \in Positions(k) : ~entries[i].lapsed
    BY <1>3 DEF Hit, Live
  <2>2. PICK c \in Positions(k) : Stored(k) = entries[c].decision
    BY <2>1 DEF Stored
  <2>3. c \in 1 .. Len(entries) /\ entries[c].key = k /\ i \in 1 .. Len(entries) /\ i \notin O
    BY DEF Positions, Others
  <2> DEFINE e == Entry(k, Stored(k))
  <2>4. Genuine(k, Stored(k))
    BY <2>2, <2>3 DEF Cache, AllGenuine
  <2>5. e \in Entries /\ e.key = k /\ e.decision = Stored(k)
    <3>1. PICK v \in Turns, s \in Requests : k = CacheKey(v, s) /\ Stored(k) = Verdict(s)
      BY <2>4 DEF Genuine
    <3>2. Entry(CacheKey(v, s), Verdict(s)) \in Entries
      BY Verdicts
    <3> QED BY <3>1, <3>2 DEF Entry
  <2>6. Cardinality(O) + 1 <= Len(entries)
    <3>1. IsFiniteSet(O) /\ Cardinality(O) \in Nat
      BY <1>1, KeptIs DEF Cache
    <3>2. Cardinality(O \cup {i}) = Cardinality(O) + 1
      BY <2>3, <3>1, FS_AddElement
    <3>3. O \cup {i} \in SUBSET (1 .. Len(entries))
      BY <1>1, <2>3
    <3>4. Cardinality(O \cup {i}) <= Len(entries)
      BY <3>3, KeptIs DEF Cache
    <3> QED BY <3>2, <3>4
  <2>7. Kept(O) \in Seq(Entries) /\ Len(Kept(O)) = Cardinality(O) /\ Distinct(Kept(O)) /\ AllGenuine(Kept(O))
    BY <1>1, KeptSound, KeptIs DEF Cache
  <2>8. \A j \in 1 .. Len(Kept(O)) : Kept(O)[j].key # k
    BY <1>2
  <2>9. entries' = Append(Kept(O), e)
    BY <1>3 DEF Hit
  <2> HIDE DEF e, O, k
  <2>10. /\ entries' \in Seq(Entries) /\ Len(entries') = Cardinality(O) + 1
         /\ Distinct(entries') /\ AllGenuine(entries')
    BY <2>4, <2>5, <2>7, <2>8, <2>9, Putting
  <2>11. Len(entries') <= MaxEntries
    BY <1>1, <2>6, <2>10
  <2> QED BY <2>10, <2>11 DEF Cache, Distinct, AllGenuine, Genuine, CacheKey, Verdict
<1>4. CASE Miss(k, Verdict(r))
  <2> DEFINE S == O \cap Unlapsed
             e == Entry(k, Verdict(r))
  <2>1. S \in SUBSET O /\ S \in SUBSET (1 .. Len(entries))
    BY <1>1
  <2>2. e \in Entries /\ e.key = k /\ e.decision = Verdict(r) /\ Genuine(k, Verdict(r))
    BY Verdicts DEF Entry, Genuine
  <2>3. /\ Kept(S) \in Seq(Entries) /\ Len(Kept(S)) \in Nat /\ Len(Kept(S)) <= Len(entries)
        /\ Distinct(Kept(S)) /\ AllGenuine(Kept(S))
    BY <2>1, KeptSound
  <2>4. \A j \in 1 .. Len(Kept(S)) : Kept(S)[j].key # k
    BY <1>2, <2>1
  <2>5. entries' = Trimmed(Append(Kept(S), e))
    BY <1>4 DEF Miss
  <2> HIDE DEF e, S, O, k
  <2>6. /\ Append(Kept(S), e) \in Seq(Entries) /\ Len(Append(Kept(S), e)) <= MaxEntries + 1
        /\ Distinct(Append(Kept(S), e)) /\ AllGenuine(Append(Kept(S), e))
    BY <1>1, <2>2, <2>3, <2>4, Putting
  <2>7. entries' \in Seq(Entries) /\ Len(entries') <= MaxEntries /\ Distinct(entries') /\ AllGenuine(entries')
    BY <2>5, <2>6, Trimming
  <2> QED BY <2>7 DEF Cache, Distinct, AllGenuine, Genuine, CacheKey, Verdict
<1> QED BY <1>3, <1>4 DEF Evaluate

(* Entries expire, and are purged. *)
LEMMA CacheTurning ==
  ASSUME Cache, Lapse \/ Snapshot
  PROVE  Cache'
<1>1. CASE Lapse
  <2>1. PICK i \in 1 .. Len(entries) : entries' = [entries EXCEPT ![i].lapsed = TRUE]
    BY <1>1 DEF Lapse
  <2>2. entries \in Seq(Entries) /\ Len(entries) \in Nat /\ entries[i] \in Entries
    BY DEF Cache
  <2>3. [entries[i] EXCEPT !.lapsed = TRUE] \in Entries
    BY <2>2 DEF Entries
  <2>4. /\ entries' \in Seq(Entries) /\ Len(entries') = Len(entries)
        /\ \A j \in 1 .. Len(entries) : entries'[j].key = entries[j].key /\ entries'[j].decision = entries[j].decision
    <3>1. entries' = [entries EXCEPT ![i] = [entries[i] EXCEPT !.lapsed = TRUE]]
      BY <2>1
    <3>2. entries' \in Seq(Entries) /\ Len(entries') = Len(entries)
      BY <2>2, <2>3, <3>1
    <3>3. \A j \in 1 .. Len(entries) : entries'[j] = IF j = i THEN [entries[i] EXCEPT !.lapsed = TRUE] ELSE entries[j]
      BY <2>2, <3>1
    <3> QED BY <2>2, <3>2, <3>3 DEF Entries
  <2>5. Distinct(entries')
    BY <2>4 DEF Cache, Distinct
  <2>6. AllGenuine(entries')
    BY <2>4 DEF Cache, AllGenuine
  <2> QED BY <2>4, <2>5, <2>6 DEF Cache, Distinct, AllGenuine, Genuine, CacheKey, Verdict
<1>2. CASE Snapshot
  <2>1. entries' = Kept(Unlapsed) /\ Unlapsed \in SUBSET (1 .. Len(entries)) /\ Len(entries) \in Nat
    BY <1>2 DEF Snapshot, Unlapsed, Cache
  <2>2. /\ entries' \in Seq(Entries) /\ Len(entries') \in Nat /\ Len(entries') <= Len(entries)
        /\ Distinct(entries') /\ AllGenuine(entries')
    BY <2>1, KeptSound
  <2>3. Len(entries') <= MaxEntries
    BY <2>1, <2>2 DEF Cache
  <2> QED BY <2>2, <2>3 DEF Cache, Distinct, AllGenuine, Genuine, CacheKey, Verdict
<1> QED BY <1>1, <1>2

LEMMA CacheStarts == Init => Cache
BY DEF Init, CacheInit, Cache, Distinct, AllGenuine

LEMMA CacheStep == Cache /\ [Next]_vars => Cache'
<1> SUFFICES ASSUME Cache, [Next]_vars PROVE Cache'
  OBVIOUS
<1>1. CASE UNCHANGED entries
  BY <1>1 DEF Cache, Distinct, AllGenuine, Genuine, CacheKey, Verdict
<1>2. ASSUME NEW u \in Turns, Ask(u) PROVE Cache'
  <2>1. PICK r \in Requests : Evaluate(CacheKey(u, r), Verdict(r))
    BY <1>2 DEF Ask
  <2> QED BY <2>1, Evaluating
<1>3. ASSUME NEW u \in Turns, Work(u) \/ Drop(u) \/ CancelAttempt(u) \/ CancelOutside(u)
      PROVE  UNCHANGED entries
  BY <1>3 DEF Work, Open, Acquire, Fetch, FetchFails, Connect, Run, Resume, Answer, Fail, Noted, Drop,
     CancelAttempt, CancelOutside
<1>4. CASE Age
  BY <1>1, <1>4 DEF Age
<1>5. CASE CacheTurns
  BY <1>5, CacheTurning DEF CacheTurns
<1>6. CASE UNCHANGED vars
  BY <1>1, <1>6 DEF vars
<1> QED BY <1>1, <1>2, <1>3, <1>4, <1>5, <1>6 DEF Next

-----------------------------------------------------------------------------
(* No call is attempted that the policy would refuse.                      *)

(* What PolicyHeeded says of a call r of turn t. *)
Heeds(t, r) ==
  \/ Verdict(r) = "allow"
  \/ Overlooked(r) /\ \E s \in Requests : s.keyed /\ CacheKey(t, s) = CacheKey(t, r)

Heeded(t) == attempt[t] >= 1 => Heeds(t, request[t])

(* What one decision of the policy says of another call under its key. *)
LEMMA SameKey ==
  ASSUME NEW t \in Turns, NEW v \in Turns, NEW r \in Requests, NEW s \in Requests,
         CacheKey(v, s) = CacheKey(t, r), Verdict(s) = "allow"
  PROVE  Heeds(t, r)
<1>1. v = t /\ s.op = r.op /\ s.safety = r.safety /\ r.safety \in Levels
      /\ s.keyed \in BOOLEAN /\ r.keyed \in BOOLEAN
  BY DEF CacheKey
<1>2. CASE r.safety = "read_only"
  BY <1>2 DEF Verdict, Heeds
<1>3. CASE r.safety # "read_only" /\ r.safety \notin AllowedLevels
  <2>1. Verdict(s) = "deny"
    BY <1>1, <1>3 DEF Verdict
  <2> QED BY <2>1
<1>4. CASE r.safety # "read_only" /\ r.safety \in AllowedLevels
  <2>1. \A x \in {r, s} :
          Verdict(x) = IF x.safety \in ApprovalLevels /\ (x.safety = "write" => ~x.keyed)
                         THEN "approval_required" ELSE "allow"
    BY <1>1, <1>4 DEF Verdict
  <2>2. CASE r.safety \in ApprovalLevels /\ (r.safety = "write" => ~r.keyed)
    <3>1. r.safety = "write" /\ ~r.keyed /\ s.keyed
      BY <1>1, <2>1, <2>2
    <3>2. Overlooked(r)
      BY <1>4, <2>2, <3>1 DEF Overlooked
    <3>3. \E x \in Requests : x.keyed /\ CacheKey(t, x) = CacheKey(t, r)
      BY <1>1, <3>1
    <3> QED BY <3>2, <3>3 DEF Heeds
  <2>3. CASE ~(r.safety \in ApprovalLevels /\ (r.safety = "write" => ~r.keyed))
    BY <2>1, <2>3 DEF Heeds
  <2> QED BY <2>2, <2>3
<1> QED BY <1>2, <1>3, <1>4

(* A decision, cached or not, is heeded by the call it answers
   (policy/service.py, evaluate). *)
LEMMA Deciding ==
  ASSUME Cache, NEW t \in Turns, NEW r \in Requests,
         Decision(CacheKey(t, r), Verdict(r)) = "allow"
  PROVE  Heeds(t, r)
<1> DEFINE k == CacheKey(t, r)
<1>1. CASE ~Live(k)
  BY <1>1 DEF Decision, Heeds
<1>2. CASE Live(k)
  <2>1. PICK c \in Positions(k) : Stored(k) = entries[c].decision
    BY <1>2 DEF Live, Stored
  <2>2. Stored(k) = "allow"
    BY <1>2 DEF Decision
  <2>3. c \in 1 .. Len(entries) /\ entries[c].key = k
    BY DEF Positions
  <2>4. PICK v \in Turns, s \in Requests : k = CacheKey(v, s) /\ entries[c].decision = Verdict(s)
    BY <2>3 DEF Cache, AllGenuine, Genuine
  <2> QED BY <2>1, <2>2, <2>4, SameKey
<1> QED BY <1>1, <1>2

LEMMA HeedingStep ==
  ASSUME Calls, Cache, PolicyHeeded, [Next]_vars
  PROVE  PolicyHeeded'
<1>0. CallTypes /\ (\A t \in Turns : Call(t)) /\ \A t \in Turns : Heeded(t)
  BY DEF Calls, PolicyHeeded, Heeded, Heeds
<1>1. ASSUME request' = request, \A t \in Turns : attempt'[t] >= 1 => attempt[t] >= 1
      PROVE  PolicyHeeded'
  BY <1>0, <1>1 DEF PolicyHeeded, Heeded, Heeds, Verdict, Overlooked, CacheKey
<1>2. ASSUME NEW u \in Turns, Ask(u) PROVE PolicyHeeded'
  <2>1. PICK r \in Requests :
          /\ request' = [request EXCEPT ![u] = r]
          /\ \/ Decision(CacheKey(u, r), Verdict(r)) = "allow" /\ Begin(u)
             \/ Refuse(u)
    BY <1>2 DEF Ask
  <2>2. /\ request'[u] = r
        /\ \A t \in Turns \ {u} : request'[t] = request[t] /\ attempt'[t] = attempt[t]
        /\ attempt'[u] >= 1 => Heeds(u, r)
    <3>1. CASE Decision(CacheKey(u, r), Verdict(r)) = "allow" /\ Begin(u)
      BY <1>0, <2>1, <3>1, Deciding DEF Begin, CallTypes
    <3>2. CASE Refuse(u)
      BY <1>0, <2>1, <3>2 DEF Refuse, CallTypes
    <3> QED BY <2>1, <3>1, <3>2
  <2>3. \A t \in Turns : attempt'[t] >= 1 => Heeds(t, request'[t])
    BY <1>0, <2>2 DEF Heeded
  <2> QED BY <2>3 DEF PolicyHeeded, Heeds, Verdict, Overlooked, CacheKey
<1>3. ASSUME NEW u \in Turns, Work(u) \/ Drop(u) \/ CancelAttempt(u) \/ CancelOutside(u)
      PROVE  PolicyHeeded'
  <2>1. request' = request
    BY <1>3 DEF Work, Open, Acquire, Fetch, FetchFails, Connect, Run, Resume, Answer, Fail, Noted,
       Drop, CancelAttempt, CancelOutside
  <2>2. attempt' = attempt \/ (at[u] \in Attempting /\ attempt' = [attempt EXCEPT ![u] = attempt[u] + 1])
    <3>1. ASSUME NEW kind, Handle(u, kind), kind = "transient" => at[u] \in Attempting
          PROVE  attempt' = attempt \/ (at[u] \in Attempting /\ attempt' = [attempt EXCEPT ![u] = attempt[u] + 1])
      BY <3>1 DEF Handle, Close
    <3> QED
      BY <1>3, <3>1 DEF Work, Open, Acquire, Fetch, FetchFails, Connect, Run, Resume, Answer, Fail,
         Noted, Drop, CancelAttempt, CancelOutside, Close, Attempting, Ahead
  <2>3. at[u] \in Attempting => attempt[u] >= 1
    BY <1>0 DEF Call, Stage, Attempting, Ahead, CallTypes
  <2>4. \A t \in Turns : attempt'[t] >= 1 => attempt[t] >= 1
    BY <1>0, <2>2, <2>3 DEF CallTypes
  <2> QED BY <1>1, <2>1, <2>4
<1>4. CASE Age \/ CacheTurns \/ UNCHANGED vars
  BY <1>1, <1>4 DEF Age, CacheTurns, vars
<1> QED BY <1>2, <1>3, <1>4 DEF Next

-----------------------------------------------------------------------------
(* The theorems.                                                           *)

(* What every reachable state satisfies. *)
IInv == Calls /\ Lock /\ OneFetchPerToken /\ Cache /\ PolicyHeeded

LEMMA Inductive == Spec => []IInv
<1>1. Init => IInv
  <2>1. Init => PolicyHeeded
    BY DEF Init, PolicyHeeded
  <2> QED BY <2>1, CallsStart, LockStarts, CacheStarts DEF IInv
<1>2. IInv /\ [Next]_vars => IInv'
  BY CallsStep, LockStep, TokenStep, CacheStep, HeedingStep DEF IInv
<1> QED BY <1>1, <1>2, PTL DEF Spec

(* The calls, the token and its lock have their types. *)
THEOREM TypeCorrect == Spec => []TypeOK
<1>1. IInv => TypeOK
  BY DEF IInv, Calls, CallTypes, Lock, TokenTypes, Cache, TypeOK
<1> QED BY <1>1, Inductive, PTL

(* Nobody keeps the token's lock who is not fetching, and nobody is lost in
   the line for it (tools/mcp/auth.py, _get_token). *)
THEOREM LockIsAccounted == Spec => []LockAccounted
<1>1. IInv => LockAccounted
  BY DEF IInv, Lock
<1> QED BY <1>1, Inductive, PTL

(* However many calls find the token stale, one of them fetches it. *)
THEOREM FetchedOnce == Spec => []OneFetchPerToken
<1>1. IInv => OneFetchPerToken
  BY DEF IInv
<1> QED BY <1>1, Inductive, PTL

(* A call with an effect outside and no key is carried out once at most,
   whatever the retries (tools/retry.py, _tool_allows_retry). *)
THEOREM EffectsHappenOnce == Spec => []EffectsOnce
<1>1. IInv => EffectsOnce
  <2> SUFFICES ASSUME IInv, NEW t \in Turns
               PROVE  /\ ran[t] <= attempt[t]
                      /\ \/ request[t].safety = "read_only"
                         \/ request[t].safety = "write" /\ request[t].keyed
                         \/ ran[t] <= 1
    BY DEF EffectsOnce
  <2>1. /\ ran[t] <= attempt[t] /\ attempt[t] <= Attempts(request[t])
        /\ ran[t] \in Nat /\ attempt[t] \in 0 .. MaxRetries + 1 /\ request[t] \in Requests
    BY DEF IInv, Calls, CallTypes, Call, Stage
  <2>2. /\ Attempts(request[t]) \in 1 .. MaxRetries + 1
        /\ \/ request[t].safety = "read_only"
           \/ request[t].safety = "write" /\ request[t].keyed
           \/ Attempts(request[t]) = 1
    BY <2>1, AttemptsBound
  <2> QED BY <2>1, <2>2
<1> QED BY <1>1, Inductive, PTL

(* What the caller and the trace are told of a call is of one attempt, the
   same, and true. *)
THEOREM CallsAreToldTruly == Spec => []ToldTruly
<1>1. IInv => OneAttemptHeard
  BY DEF IInv, Calls, Call, Heard, OneAttemptHeard
<1>2. IInv => SettledAsTold
  BY DEF IInv, Calls, Call, Settled, SettledAsTold
<1>3. IInv => ResultsAreReal
  <2> SUFFICES ASSUME IInv, NEW t \in Turns
               PROVE  /\ outcome[t] \in {"completed", "reported", "oversized"} => ran[t] >= 1
                      /\ outcome[t] = "denied" => ran[t] = 0
    BY DEF ResultsAreReal
  <2>1. Stage(t) /\ Settled(t) /\ ran[t] \in Nat
    BY DEF IInv, Calls, CallTypes, Call
  <2> QED BY <2>1 DEF Stage, Settled
<1>4. IInv => ToldTruly
  BY <1>1, <1>2, <1>3 DEF ToldTruly
<1> QED BY <1>4, Inductive, PTL

(* What the policy's cache answers for is what the policy decided, whatever
   expired or was evicted, and no call is attempted against it but one that
   differs in the idempotency key alone (policy/decision_cache.py, build_policy_cache_key). *)
THEOREM DecisionsAreHeld == Spec => []DecisionsHold
<1>1. IInv => DecisionsHold
  BY CacheKeepsDecisions DEF IInv, DecisionsHold
<1> QED BY <1>1, Inductive, PTL
=============================================================================
