------------------------------ MODULE ToolCalls ------------------------------
(***************************************************************************)
(* The tool calls of concurrent turns through the tool gateway             *)
(* (backend/app/tools/gateway.py, execute and stream_execute): the policy  *)
(* is asked, each attempt opens a session of its own with the MCP server   *)
(* under a token all calls share (tools/mcp/auth.py), and an attempt that  *)
(* failed may be tried again (tools/retry.py).                             *)
(*                                                                         *)
(* A turn makes its calls one after the other, turns run at once.  Calls   *)
(* are made of a tool of each safety level; any of them may be turned off  *)
(* or streamed or given arguments its schema rejects.  closed is what the  *)
(* gateway hands to the trace store, whose failures it swallows.  Progress *)
(* events, yields like the first event of a stream, are left out.          *)
(***************************************************************************)
EXTENDS PolicyDecisionCache

CONSTANTS
  Turns,
  Requests,        \* the calls a turn may make: [op, safety, keyed]
  AllowedLevels,   \* safety levels the policy profile allows
  ApprovalLevels,  \* those among them that require approval
  MaxRetries,      \* tooling.defaults.max_retries
  MaxAged,         \* bound: tokens that grow stale
  Nobody

Levels == {"read_only", "write", "destructive", "external_side_effect"}

ASSUME ToolsAssumption ==
  /\ Requests \subseteq [op : {"execute", "stream"}, safety : Levels, keyed : BOOLEAN]
  /\ MaxRetries \in Nat
  /\ MaxAged \in Nat
  /\ Nobody \notin Turns
  /\ IsFiniteSet(Turns)

VARIABLES
  at,        \* where the turn's call is
  request,   \* its call
  attempt,   \* attempt_count
  ran,       \* history: how often the server ran the tool for it
  closed,    \* its trace records of how attempts ended
  heard,     \* history: the attempts the consumer of a stream heard from
  dropped,   \* the consumer has dropped the stream
  outcome,   \* what the call ends with
  token,     \* _cached_token
  holder,    \* who holds the token lock
  waiters,   \* who waits for it, first come first served
  fetched,   \* history: tokens fetched
  aged       \* history: tokens grown stale

auth == <<token, holder, waiters, fetched, aged>>
vars == <<entries, at, request, attempt, ran, closed, heard, dropped, outcome, auth>>

Points == {"idle", "refusing", "starting", "waiting", "fetching", "connecting",
           "calling", "answering", "offering", "noting", "last"}

Outcomes == {"none", "denied", "completed", "reported", "failed", "oversized", "cancelled"}

Init ==
  /\ CacheInit
  /\ at = [t \in Turns |-> "idle"]
  /\ request \in [Turns -> Requests]
  /\ attempt = [t \in Turns |-> 0]
  /\ ran = [t \in Turns |-> 0]
  /\ closed = [t \in Turns |-> <<>>]
  /\ heard = [t \in Turns |-> {}]
  /\ dropped = [t \in Turns |-> FALSE]
  /\ outcome = [t \in Turns |-> "none"]
  /\ token = "none"
  /\ holder = Nobody
  /\ waiters = <<>>
  /\ fetched = 0
  /\ aged = 0

-----------------------------------------------------------------------------
(* The policy's decision.                                                  *)

(* What the engine decides of a call of a known, enabled tool.             *)
Verdict(r) ==
  CASE r.safety = "read_only" -> "allow"
    [] r.safety # "read_only" /\ r.safety \notin AllowedLevels -> "deny"
    [] OTHER -> IF /\ r.safety \in ApprovalLevels
                   /\ r.safety = "write" => ~r.keyed
                THEN "approval_required" ELSE "allow"

CacheKeyOfAction(t, r) == <<t, r.op>>

(* The key names the turn's trace, the action and the tool (one tool for   *)
(* each level here); not whether the call carries an idempotency key.      *)
CacheKey(t, r) == <<t, r.op, r.safety>>

Begin(t) ==
  /\ at' = [at EXCEPT ![t] = "starting"]
  /\ attempt' = [attempt EXCEPT ![t] = 1]
  /\ closed' = [closed EXCEPT ![t] = <<>>]
  /\ outcome' = [outcome EXCEPT ![t] = "none"]

(* A refused call, or one whose arguments do not fit the schema, is        *)
(* recorded as failed without an attempt.                                  *)
Refuse(t) ==
  /\ at' = [at EXCEPT ![t] = "refusing"]
  /\ attempt' = [attempt EXCEPT ![t] = 0]
  /\ closed' = [closed EXCEPT ![t] = <<"failed">>]
  /\ outcome' = [outcome EXCEPT ![t] = "denied"]

Ask(t) ==
  /\ at[t] = "idle"
  /\ \E r \in Requests : LET k == CacheKey(t, r) IN
       /\ request' = [request EXCEPT ![t] = r]
       /\ Evaluate(k, Verdict(r))
       /\ \/ Decision(k, Verdict(r)) = "allow" /\ Begin(t)
          \/ Refuse(t)
  /\ ran' = [ran EXCEPT ![t] = 0]
  /\ heard' = [heard EXCEPT ![t] = {}]
  /\ dropped' = [dropped EXCEPT ![t] = FALSE]
  /\ UNCHANGED auth

-----------------------------------------------------------------------------
(* The token and its lock.                                                 *)

(* The lock passes to the first who waits for it.                          *)
Release ==
  IF waiters = <<>>
    THEN holder' = Nobody /\ UNCHANGED waiters
    ELSE holder' = Head(waiters) /\ waiters' = Tail(waiters)

(* The started record is written; a fresh token needs no lock.             *)
Open(t) ==
  /\ at[t] = "starting"
  /\ \/ /\ token = "fresh"
        /\ at' = [at EXCEPT ![t] = "connecting"]
        /\ UNCHANGED <<holder, waiters>>
     \/ /\ token # "fresh" /\ holder = Nobody
        /\ at' = [at EXCEPT ![t] = "fetching"]
        /\ holder' = t
        /\ UNCHANGED waiters
     \/ /\ token # "fresh" /\ holder # Nobody
        /\ at' = [at EXCEPT ![t] = "waiting"]
        /\ waiters' = Append(waiters, t)
        /\ UNCHANGED holder
  /\ UNCHANGED <<entries, request, attempt, ran, closed, heard, dropped, outcome, token, fetched, aged>>

AcquireUnchecked(t) ==
  /\ at[t] = "waiting"
  /\ holder = t
  /\ at' = [at EXCEPT ![t] = "fetching"]
  /\ UNCHANGED <<entries, request, attempt, ran, closed, heard, dropped, outcome, auth>>

(* Under the lock the token is looked at again.                            *)
Acquire(t) ==
  /\ at[t] = "waiting"
  /\ holder = t
  /\ \/ /\ token = "fresh"
        /\ at' = [at EXCEPT ![t] = "connecting"]
        /\ Release
     \/ /\ token # "fresh"
        /\ at' = [at EXCEPT ![t] = "fetching"]
        /\ UNCHANGED <<holder, waiters>>
  /\ UNCHANGED <<entries, request, attempt, ran, closed, heard, dropped, outcome, token, fetched, aged>>

(* A token that lives no longer than the refresh skew is stale at once.    *)
Fetch(t) ==
  /\ at[t] = "fetching"
  /\ at' = [at EXCEPT ![t] = "connecting"]
  /\ fetched' = fetched + 1
  /\ \/ token' = "fresh" /\ UNCHANGED aged
     \/ token' = "stale" /\ aged < MaxAged /\ aged' = aged + 1
  /\ Release
  /\ UNCHANGED <<entries, request, attempt, ran, closed, heard, dropped, outcome>>

Age ==
  /\ token = "fresh"
  /\ aged < MaxAged
  /\ token' = "stale"
  /\ aged' = aged + 1
  /\ UNCHANGED <<entries, at, request, attempt, ran, closed, heard, dropped, outcome,
                 holder, waiters, fetched>>

-----------------------------------------------------------------------------
(* How an attempt ends.                                                    *)

AllowsRetryUnkeyed(r) == r.safety \notin {"destructive", "external_side_effect"}

(* _tool_allows_retry *)
AllowsRetry(r) ==
  /\ r.safety \notin {"destructive", "external_side_effect"}
  /\ r.safety = "write" => r.keyed

Attempts(r) == IF AllowsRetry(r) THEN MaxRetries + 1 ELSE 1

CanRetryUnheeding(t) == attempt[t] < Attempts(request[t])

CanRetry(t) ==
  /\ AllowsRetry(request[t])
  /\ attempt[t] < Attempts(request[t])
  /\ attempt[t] \notin heard[t]

Close(t, record, how) ==
  /\ at' = [at EXCEPT ![t] = "noting"]
  /\ closed' = [closed EXCEPT ![t] = Append(@, record)]
  /\ outcome' = [outcome EXCEPT ![t] = how]
  /\ UNCHANGED <<attempt, heard>>

(* The handler of everything an attempt raises.                            *)
Handle(t, kind) ==
  CASE kind = "transient" /\ CanRetry(t) ->
         /\ at' = [at EXCEPT ![t] = "starting"]
         /\ attempt' = [attempt EXCEPT ![t] = @ + 1]
         /\ UNCHANGED <<heard, closed, outcome>>
    [] kind = "cancelled" -> Close(t, "cancelled", "cancelled")
    [] OTHER -> Close(t, "failed", "failed")

FetchFailsHolding(t) ==
  /\ at[t] = "fetching"
  /\ Handle(t, "permanent")
  /\ UNCHANGED <<entries, request, ran, dropped, auth>>

FetchFails(t) ==
  /\ at[t] = "fetching"
  /\ Handle(t, "permanent")
  /\ Release
  /\ UNCHANGED <<entries, request, ran, dropped, token, fetched, aged>>

(* A session or a request breaks, before the server ran the tool or after. *)
Fail(t) ==
  /\ at[t] \in {"connecting", "calling", "answering"}
  /\ \E kind \in {"transient", "permanent"} : Handle(t, kind)
  /\ UNCHANGED <<entries, request, ran, dropped, auth>>

Hear(t) == heard' = [heard EXCEPT ![t] = @ \cup {attempt[t]}]

(* A stream announces its session before the tool is called.               *)
Connect(t) ==
  /\ at[t] = "connecting"
  /\ \/ /\ request[t].op = "execute"
        /\ at' = [at EXCEPT ![t] = "calling"]
        /\ UNCHANGED heard
     \/ /\ request[t].op = "stream"
        /\ at' = [at EXCEPT ![t] = "offering"]
        /\ Hear(t)
  /\ UNCHANGED <<entries, request, attempt, ran, closed, dropped, outcome, auth>>

Run(t) ==
  /\ at[t] = "calling"
  /\ at' = [at EXCEPT ![t] = "answering"]
  /\ ran' = [ran EXCEPT ![t] = @ + 1]
  /\ UNCHANGED <<entries, request, attempt, closed, heard, dropped, outcome, auth>>

(* The consumer asks for the next event; after the terminal one the        *)
(* stream is over.                                                         *)
Resume(t) ==
  /\ \/ at[t] = "offering" /\ at' = [at EXCEPT ![t] = "calling"]
     \/ at[t] = "last" /\ at' = [at EXCEPT ![t] = "idle"]
  /\ UNCHANGED <<entries, request, attempt, ran, closed, heard, dropped, outcome, auth>>

(* A result, an error the tool reports, or a result too large to pass on:  *)
(* normalize_result is outside execute's handler, so what it raises there  *)
(* is not recorded.                                                        *)
Answer(t) ==
  /\ at[t] = "answering"
  /\ \/ Close(t, "completed", "completed")
     \/ Close(t, "failed", "reported")
     \/ /\ request[t].op = "execute"
        /\ at' = [at EXCEPT ![t] = "idle"]
        /\ outcome' = [outcome EXCEPT ![t] = "oversized"]
        /\ UNCHANGED <<attempt, closed, heard>>
  /\ UNCHANGED <<entries, request, ran, dropped, auth>>

(* A stream offers its last event after the record; a failure is raised.   *)
Offers(t) ==
  /\ at[t] = "noting"
  /\ request[t].op = "stream"
  /\ outcome[t] \in {"completed", "reported"}

Noted(t) ==
  /\ at[t] \in {"refusing", "noting"}
  /\ \/ /\ ~Offers(t)
        /\ at' = [at EXCEPT ![t] = "idle"]
        /\ UNCHANGED heard
     \/ /\ Offers(t)
        /\ at' = [at EXCEPT ![t] = "last"]
        /\ Hear(t)
  /\ UNCHANGED <<entries, request, attempt, ran, closed, dropped, outcome, auth>>

-----------------------------------------------------------------------------
(* Callers that go away.                                                   *)

(* A stream dropped at a yield raises GeneratorExit there, which the       *)
(* handler records as a failure, of a stream that completed too.           *)
Drop(t) ==
  /\ at[t] \in {"offering", "last"}
  /\ dropped' = [dropped EXCEPT ![t] = TRUE]
  /\ Close(t, "failed", "failed")
  /\ UNCHANGED <<entries, request, ran, auth>>

Leave(t) == \E i \in 1 .. Len(waiters) :
  /\ waiters[i] = t
  /\ waiters' = SubSeq(waiters, 1, i - 1) \o SubSeq(waiters, i + 1, Len(waiters))

(* A cancelled attempt is recorded, and the cancellation becomes an        *)
(* ordinary error of the gateway.                                          *)
CancelAttempt(t) ==
  /\ \/ at[t] \in {"connecting", "calling", "answering"} /\ UNCHANGED <<holder, waiters>>
     \/ at[t] = "waiting" /\ holder # t /\ Leave(t) /\ UNCHANGED holder
     \/ at[t] \in {"waiting", "fetching"} /\ holder = t /\ Release
     \/ Offers(t) /\ UNCHANGED <<holder, waiters>>
  /\ Handle(t, "cancelled")
  /\ UNCHANGED <<entries, request, ran, dropped, token, fetched, aged>>

(* Outside an attempt's handler the cancellation passes through.           *)
CancelOutside(t) ==
  /\ at[t] \in {"starting", "refusing", "noting"}
  /\ ~Offers(t)
  /\ at' = [at EXCEPT ![t] = "idle"]
  /\ outcome' = [outcome EXCEPT ![t] = "cancelled"]
  /\ UNCHANGED <<entries, request, attempt, ran, closed, heard, dropped, auth>>

CacheTurns ==
  /\ Lapse \/ Snapshot
  /\ UNCHANGED <<at, request, attempt, ran, closed, heard, dropped, outcome, auth>>

Work(t) ==
  \/ Open(t) \/ Acquire(t) \/ Fetch(t) \/ FetchFails(t) \/ Connect(t) \/ Run(t)
  \/ Resume(t) \/ Answer(t) \/ Fail(t) \/ Noted(t)

Next ==
  \/ \E t \in Turns : Ask(t) \/ Work(t) \/ Drop(t) \/ CancelAttempt(t) \/ CancelOutside(t)
  \/ Age
  \/ CacheTurns

Spec == Init /\ [][Next]_vars

(* The event loop runs every task that can run; the server's answer, or a  *)
(* timeout of the session, ends every wait for it.                         *)
FairSpec == Spec /\ \A t \in Turns : WF_vars(Work(t))
=============================================================================
