--------------------------- MODULE ToolCallsProps ---------------------------
(***************************************************************************)
(* What the tool calls of concurrent turns keep.                           *)
(***************************************************************************)
EXTENDS ToolCalls

Records == {"completed", "failed", "cancelled"}

Entries ==
  [key : Turns \X {"execute", "stream"} \X Levels,
   decision : {"allow", "deny", "approval_required"}, lapsed : BOOLEAN]

TypeOK ==
  /\ entries \in Seq(Entries)
  /\ at \in [Turns -> Points]
  /\ request \in [Turns -> Requests]
  /\ attempt \in [Turns -> 0 .. MaxRetries + 1]
  /\ ran \in [Turns -> Nat]
  /\ closed \in [Turns -> Seq(Records)]
  /\ heard \in [Turns -> SUBSET (1 .. MaxRetries + 1)]
  /\ dropped \in [Turns -> BOOLEAN]
  /\ outcome \in [Turns -> Outcomes]
  /\ token \in {"none", "fresh", "stale"}
  /\ holder \in Turns \cup {Nobody}
  /\ waiters \in Seq(Turns)
  /\ fetched \in Nat
  /\ aged \in Nat

(* What the token lock keeps: it is held by the one call that fetches a    *)
(* token or is about to look at it again, every other call that needs one  *)
(* waits in line, once, and a call that is cancelled or whose fetch failed *)
(* leaves neither the lock nor its place in line behind (auth.py:90).      *)
LockAccounted ==
  /\ holder = Nobody => waiters = <<>>
  /\ \A t \in Turns : at[t] = "fetching" => holder = t /\ token # "fresh"
  /\ \A t \in Turns : holder = t => at[t] \in {"fetching", "waiting"}
  /\ \A i \in 1 .. Len(waiters) : at[waiters[i]] = "waiting" /\ holder # waiters[i]
  /\ \A i, j \in 1 .. Len(waiters) : waiters[i] = waiters[j] => i = j
  /\ \A t \in Turns : at[t] = "waiting" =>
       holder = t \/ \E i \in 1 .. Len(waiters) : waiters[i] = t

(* However many calls find the token stale at once, one fetches it and the *)
(* others use what it fetched: there are no more fetches than the first    *)
(* and one for each token that grew stale (auth.py:90).                    *)
OneFetchPerToken ==
  /\ token = "none" => fetched = 0 /\ aged = 0
  /\ token = "fresh" => fetched = aged + 1
  /\ token = "stale" => fetched = aged

(* The server runs a call no more often than it is attempted, and a call   *)
(* that has an effect outside and no idempotency key once at most,         *)
(* although an attempt that failed may have been carried out               *)
(* (retry.py:75).                                                          *)
EffectsOnce ==
  \A t \in Turns :
    /\ ran[t] <= attempt[t]
    /\ \/ request[t].safety = "read_only"
       \/ request[t].safety = "write" /\ request[t].keyed
       \/ ran[t] <= 1

(* All that the consumer of a stream hears comes from the last attempt.    *)
OneAttemptHeard ==
  \A t \in Turns : heard[t] \subseteq {attempt[t]}

(* The trace settles a call the way its caller learns of it, once; a       *)
(* second record is made only of a stream that was dropped or cancelled    *)
(* after its result.  A result too large for the backend, or a cancelled   *)
(* record, can leave a call unsettled (gateway.py:270, :491, :517).        *)
SettledAsTold ==
  \A t \in Turns :
    /\ outcome[t] = "none" => closed[t] = <<>>
    /\ outcome[t] = "denied" => closed[t] = <<"failed">> /\ attempt[t] = 0
    /\ outcome[t] = "completed" => closed[t] = <<"completed">>
    /\ outcome[t] = "reported" => closed[t] = <<"failed">>
    /\ outcome[t] = "oversized" => closed[t] = <<>> /\ request[t].op = "execute"
    /\ outcome[t] = "failed" /\ ~dropped[t] => closed[t] = <<"failed">>
    /\ Len(closed[t]) > 1 => /\ Len(closed[t]) = 2
                             /\ request[t].op = "stream"
                             /\ dropped[t] \/ outcome[t] = "cancelled"

(* A result the caller gets is of a tool that ran, and of a refused call   *)
(* nothing ran (gateway.py:424, :515).                                     *)
ResultsAreReal ==
  \A t \in Turns :
    /\ outcome[t] \in {"completed", "reported", "oversized"} => ran[t] >= 1
    /\ outcome[t] = "denied" => ran[t] = 0

(* What the caller and the trace are told of a call is of one attempt, the *)
(* same, and true, however often it was tried, dropped or cancelled.       *)
ToldTruly == OneAttemptHeard /\ SettledAsTold /\ ResultsAreReal

(* The cache keeps within its size, has one entry for a key, and every     *)
(* decision in it is the policy's of some call under that key, whatever    *)
(* expired, was evicted or was purged in between (decision_cache.py:127).  *)
DecisionsKept ==
  /\ Len(entries) <= MaxEntries
  /\ \A i, j \in 1 .. Len(entries) : entries[i].key = entries[j].key => i = j
  /\ \A i \in 1 .. Len(entries) : \E t \in Turns, r \in Requests :
       entries[i].key = CacheKey(t, r) /\ entries[i].decision = Verdict(r)

(* A write without an idempotency key, where writes need approval: the one *)
(* kind of call whose decision depends on what the key leaves out.         *)
Overlooked(r) ==
  /\ r.safety = "write" /\ ~r.keyed
  /\ "write" \in AllowedLevels /\ "write" \in ApprovalLevels

(* No call is attempted that the policy would refuse, although most        *)
(* decisions come from the cache, but for an overlooked one that follows   *)
(* an allowed write with a key (tool_policy.py:204, decision_cache.py:18). *)
PolicyHeeded ==
  \A t \in Turns : attempt[t] >= 1 =>
    \/ Verdict(request[t]) = "allow"
    \/ Overlooked(request[t]) /\ \E r \in Requests :
         r.keyed /\ CacheKey(t, r) = CacheKey(t, request[t])

(* What the cache answers for is what the policy decided.                  *)
DecisionsHold == DecisionsKept /\ PolicyHeeded

(* Every call ends: none waits for the token's lock or an answer forever.  *)
CallsEnd == \A t \in Turns : at[t] # "idle" ~> at[t] = "idle"
=============================================================================
