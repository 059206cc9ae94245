-------------------------- MODULE ReportingQueries --------------------------
(***************************************************************************)
(* The MCP server's reporting tool (mcp/tools/reporting/service.py): the   *)
(* concurrent queries it answers from a cache or, past a circuit breaker   *)
(* and a semaphore, from a provider it may ask again.                      *)
(*                                                                         *)
(* The tool's wrapper (mcp/app/tools_base/decorators.py:101) gives a whole *)
(* query the time that the service gives each of its attempts, and starts  *)
(* its timer first.  The attempt's own timer therefore never decides: when *)
(* both have expired, the attempt sees the wrapper's cancellation.  The    *)
(* provider is any ReportingProvider, not only the fixture, which answers  *)
(* without waiting.  Validation, the actor's rate limit and the contents   *)
(* of datasets are choices here.                                           *)
(***************************************************************************)
EXTENDS Naturals, Sequences, FiniteSets

CONSTANTS
  Queries,     \* callers of the tool
  Keys,        \* what they ask for
  Permits,     \* max_concurrency
  Attempts,    \* retry_attempts
  Threshold    \* circuit_breaker_threshold

ASSUME ReportingAssumption ==
  /\ IsFiniteSet(Queries)
  /\ Permits \in Nat \ {0}
  /\ Attempts \in Nat \ {0}
  /\ Threshold \in Nat \ {0}

VARIABLES
  at,        \* where the query is
  key,       \* what it asks for
  tries,     \* attempt
  outcome,   \* what the tool call ended with
  holders,   \* who holds a permit of the provider's semaphore
  waiters,   \* who waits for one, first come first served
  failures,  \* consecutive_failures
  circuit,   \* opened_until: not set, ahead or past
  cache      \* _cache

breaker == <<failures, circuit>>
vars == <<at, key, tries, outcome, holders, waiters, breaker, cache>>

Admitted == {"queued", "querying", "pausing"}

Outcomes == {"none", "rejected", "cached", "unavailable", "answered", "error",
             "timeout", "cancelled"}

Init ==
  /\ at = [q \in Queries |-> "idle"]
  /\ key \in [Queries -> Keys]
  /\ tries = [q \in Queries |-> 0]
  /\ outcome = [q \in Queries |-> "none"]
  /\ holders = {}
  /\ waiters = <<>>
  /\ failures = 0
  /\ circuit = "closed"
  /\ cache = [k \in Keys |-> "none"]

-----------------------------------------------------------------------------
(* The semaphore.                                                          *)

(* A permit goes to the first who waits for it.                            *)
Release(q) ==
  IF waiters = <<>>
    THEN holders' = holders \ {q} /\ UNCHANGED waiters
    ELSE holders' = (holders \ {q}) \cup {Head(waiters)} /\ waiters' = Tail(waiters)

Leave(q) == \E i \in 1 .. Len(waiters) :
  /\ waiters[i] = q
  /\ waiters' = SubSeq(waiters, 1, i - 1) \o SubSeq(waiters, i + 1, Len(waiters))
  /\ UNCHANGED holders

Enter(q) ==
  IF Cardinality(holders) < Permits /\ waiters = <<>>
    THEN /\ at' = [at EXCEPT ![q] = "querying"]
         /\ tries' = [tries EXCEPT ![q] = 1]
         /\ holders' = holders \cup {q}
         /\ UNCHANGED waiters
    ELSE /\ at' = [at EXCEPT ![q] = "queued"]
         /\ waiters' = Append(waiters, q)
         /\ UNCHANGED <<tries, holders>>

-----------------------------------------------------------------------------
(* The circuit.                                                            *)

ResetCircuit == failures' = 0 /\ circuit' = "closed"

RecordFailure ==
  /\ failures' = failures + 1
  /\ circuit' = IF failures + 1 >= Threshold THEN "open" ELSE circuit

Cool ==
  /\ circuit = "open"
  /\ circuit' = "elapsed"
  /\ UNCHANGED <<at, key, tries, outcome, holders, waiters, failures, cache>>

-----------------------------------------------------------------------------
(* A query.                                                                *)

(* It fails its validation, exceeds its rate limit, is answered from the   *)
(* cache or finds the circuit open.                                        *)
AskRefused(q) ==
  /\ at[q] = "idle"
  /\ \E k \in Keys :
       /\ key' = [key EXCEPT ![q] = k]
       /\ \/ /\ outcome' = [outcome EXCEPT ![q] = "rejected"]
             /\ UNCHANGED cache
          \/ /\ cache[k] = "live"
             /\ outcome' = [outcome EXCEPT ![q] = "cached"]
             /\ UNCHANGED cache
          \/ /\ cache[k] # "live" /\ circuit = "open"
             /\ outcome' = [outcome EXCEPT ![q] = "unavailable"]
             /\ cache' = [cache EXCEPT ![k] = "none"]
  /\ UNCHANGED <<at, tries, holders, waiters, breaker>>

AskUnchecked(q) ==
  /\ at[q] = "idle"
  /\ \E k \in Keys :
       /\ cache[k] # "live"
       /\ key' = [key EXCEPT ![q] = k]
       /\ cache' = [cache EXCEPT ![k] = "none"]
  /\ UNCHANGED <<breaker>>
  /\ outcome' = [outcome EXCEPT ![q] = "none"]
  /\ Enter(q)

(* An expired entry is dropped when it is read.  The first query after the *)
(* circuit's time resets it for all.                                       *)
Ask(q) ==
  /\ at[q] = "idle"
  /\ circuit # "open"
  /\ \E k \in Keys :
       /\ cache[k] # "live"
       /\ key' = [key EXCEPT ![q] = k]
       /\ cache' = [cache EXCEPT ![k] = "none"]
  /\ \/ circuit = "elapsed" /\ ResetCircuit
     \/ circuit = "closed" /\ UNCHANGED <<breaker>>
  /\ outcome' = [outcome EXCEPT ![q] = "none"]
  /\ Enter(q)

(* The circuit is not looked at again.                                     *)
Start(q) ==
  /\ at[q] = "queued"
  /\ q \in holders
  /\ at' = [at EXCEPT ![q] = "querying"]
  /\ tries' = [tries EXCEPT ![q] = 1]
  /\ UNCHANGED <<key, outcome, holders, waiters, breaker, cache>>

Settle(q, how) ==
  /\ at' = [at EXCEPT ![q] = "idle"]
  /\ outcome' = [outcome EXCEPT ![q] = how]
  /\ UNCHANGED <<key, tries>>

(* The provider answers; a dataset that cannot be normalized is an error,  *)
(* although the provider counts as sound.                                  *)
Answer(q) ==
  /\ at[q] = "querying"
  /\ ResetCircuit
  /\ Release(q)
  /\ \/ Settle(q, "answered") /\ cache' = [cache EXCEPT ![key[q]] = "live"]
     \/ Settle(q, "error") /\ UNCHANGED cache

Retry(q) ==
  /\ at[q] = "querying"
  /\ tries[q] < Attempts
  /\ at' = [at EXCEPT ![q] = "pausing"]
  /\ UNCHANGED <<key, tries, outcome, holders, waiters, breaker, cache>>

TryAgain(q) ==
  /\ at[q] = "pausing"
  /\ at' = [at EXCEPT ![q] = "querying"]
  /\ tries' = [tries EXCEPT ![q] = @ + 1]
  /\ UNCHANGED <<key, outcome, holders, waiters, breaker, cache>>

GiveUpHolding(q) ==
  /\ at[q] = "querying"
  /\ Settle(q, "error")
  /\ \/ tries[q] >= Attempts /\ RecordFailure
     \/ UNCHANGED <<breaker>>
  /\ UNCHANGED <<holders, waiters, cache>>

(* The last attempt, or one that is not worth another, has failed.         *)
GiveUp(q) ==
  /\ at[q] = "querying"
  /\ Settle(q, "error")
  /\ Release(q)
  /\ \/ tries[q] >= Attempts /\ RecordFailure
     \/ UNCHANGED <<breaker>>
  /\ UNCHANGED cache

-----------------------------------------------------------------------------
(* Queries that are cut short.                                             *)

(* What the semaphore does of a query that leaves it, wherever it is.      *)
Exit(q) == IF q \in holders THEN Release(q) ELSE Leave(q)

TimeOutHolding(q) ==
  /\ at[q] \in Admitted
  /\ Settle(q, "timeout")
  /\ UNCHANGED <<holders, waiters, breaker, cache>>

(* The wrapper's timer, which fires before an attempt's own: the circuit   *)
(* does not hear of it.                                                    *)
TimeOut(q) ==
  /\ at[q] \in Admitted
  /\ Settle(q, "timeout")
  /\ Exit(q)
  /\ UNCHANGED <<breaker, cache>>

Cancel(q) ==
  /\ at[q] \in Admitted
  /\ Settle(q, "cancelled")
  /\ Exit(q)
  /\ UNCHANGED <<breaker, cache>>

Expire(k) ==
  /\ cache[k] = "live"
  /\ cache' = [cache EXCEPT ![k] = "expired"]
  /\ UNCHANGED <<at, key, tries, outcome, holders, waiters, breaker>>

Next ==
  \/ \E q \in Queries :
       \/ AskRefused(q) \/ Ask(q) \/ Start(q) \/ Answer(q) \/ Retry(q) \/ TryAgain(q)
       \/ GiveUp(q) \/ TimeOut(q) \/ Cancel(q)
  \/ Cool
  \/ \E k \in Keys : Expire(k)

Spec == Init /\ [][Next]_vars

(* What ends the wait for the provider: its answer, its failure or, if it  *)
(* never answers, the timer.                                               *)
Resolve(q) ==
  /\ at[q] = "querying"
  /\ Answer(q) \/ Retry(q) \/ GiveUp(q) \/ TimeOut(q)

(* The loop runs what can run and ends each wait for the provider.  A      *)
(* query that waits for a permit is not helped by its own timer.           *)
FairSpec ==
  /\ Spec
  /\ \A q \in Queries : WF_vars(Start(q)) /\ WF_vars(TryAgain(q)) /\ WF_vars(Resolve(q))
=============================================================================
