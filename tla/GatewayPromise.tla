--------------------------- MODULE GatewayPromise ---------------------------
(***************************************************************************)
(* What one call of the LLM gateway promises, without its handlers: the    *)
(* plan of profiles is tried in order, each only once the policy allowed   *)
(* it and each retry before the next fallback; one attempt alone is heard, *)
(* and nothing is tried after it; the call ends once, and truly.           *)
(***************************************************************************)
EXTENDS Naturals

CONSTANTS
  LastProfile,   \* profile 0 is the first choice, 1 .. LastProfile its fallbacks
  Retries        \* how often each profile may be tried again

VARIABLES
  streamed,    \* the answer is asked for as a stream
  allowed,     \* profiles the policy has allowed
  tried,       \* attempts made
  heard,       \* attempts whose text the caller has read
  announced,   \* attempts announced to it as complete
  excused,     \* it was told that the answer broke off
  left,        \* it has dropped the stream
  ended        \* what it was told in the end

said == <<heard, announced, excused>>
promiseVars == <<streamed, allowed, tried, said, left, ended>>

Profiles == 0 .. LastProfile

Attempts == UNION {{p} \X (0 .. Retries[p]) : p \in Profiles}

Before(x) ==
  {y \in Attempts : y[1] < x[1] \/ (y[1] = x[1] /\ y[2] < x[2])}

(* The plan is tried up to x.                                              *)
Latest(x) == x \in Attempts /\ tried = Before(x) \cup {x}

Init ==
  /\ streamed \in BOOLEAN
  /\ allowed = {} /\ tried = {} /\ heard = {} /\ announced = {}
  /\ ~excused /\ ~left
  /\ ended = "none"

Running == ended = "none"

(* The policy is asked about a fallback when everything before it failed.  *)
Allow(p) ==
  /\ Running /\ heard = {}
  /\ tried = Before(<<p, 0>>)
  /\ allowed' = allowed \cup {p}
  /\ UNCHANGED <<streamed, tried, said, left, ended>>

Try(x) ==
  /\ Running /\ heard = {}
  /\ tried = Before(x) /\ x[1] \in allowed
  /\ tried' = tried \cup {x}
  /\ UNCHANGED <<streamed, allowed, said, left, ended>>

Speaking(x) == Running /\ streamed /\ Latest(x) /\ ~excused /\ ~left

(* The latest attempt speaks as long as it likes: being announced as       *)
(* complete does not silence it.                                           *)
Speak(x) ==
  /\ Speaking(x)
  /\ heard' = heard \cup {x}
  /\ UNCHANGED <<streamed, allowed, tried, announced, excused, left, ended>>

Announce(x) ==
  /\ Speaking(x)
  /\ announced' = announced \cup {x}
  /\ UNCHANGED <<streamed, allowed, tried, heard, excused, left, ended>>

(* Whoever has read text is told that it broke off, not given another.     *)
Excuse ==
  /\ Running /\ heard # {} /\ ~excused /\ ~left
  /\ excused' = TRUE
  /\ UNCHANGED <<streamed, allowed, tried, heard, announced, left, ended>>

(* A dropped stream may go on unheard until it notices.                    *)
Leave ==
  /\ Running /\ streamed /\ ~left
  /\ left' = TRUE
  /\ ended' \in {"none", "closed"}
  /\ UNCHANGED <<streamed, allowed, tried, said>>

Told(how) == IF left THEN "closed" ELSE how

(* What may be said at the end: an answer is one attempt's, announced if   *)
(* it was streamed; an error is raised only to a caller that read nothing; *)
(* whoever was told that the answer broke off is told nothing else.        *)
Truthful(how) ==
  IF left THEN how = "closed" ELSE
    /\ how # "closed"
    /\ how = "answered" => \E x \in tried : Latest(x) /\ (streamed => x \in announced)
    /\ how \in {"failed", "denied"} => heard = {}
    /\ how = "excused" <=> excused

End(how) ==
  /\ Running /\ Truthful(how)
  /\ ended' = how
  /\ UNCHANGED <<streamed, left, said, allowed, tried>>

(* A plan that cannot be resolved fails although its first profile is      *)
(* allowed.                                                                *)
EndPlan ==
  /\ Running /\ tried = {} /\ heard = {}
  /\ allowed' = allowed \cup {0}
  /\ ended' = Told("failed")
  /\ UNCHANGED <<streamed, left, said, tried>>

(* A call cancelled while an attempt is being recorded may have made it.   *)
EndTrying(x) ==
  /\ Running /\ heard = {}
  /\ tried = Before(x) /\ x[1] \in allowed
  /\ tried' = tried \cup {x}
  /\ ended' = Told("cancelled")
  /\ UNCHANGED <<streamed, left, said, allowed>>

Outcomes == {"answered", "excused", "failed", "denied", "cancelled", "unrecorded", "closed"}

Next ==
  \/ \E p \in Profiles : Allow(p)
  \/ \E x \in Attempts : Try(x) \/ Speak(x) \/ Announce(x) \/ EndTrying(x)
  \/ Excuse \/ Leave \/ EndPlan
  \/ \E how \in Outcomes : End(how)

Spec == Init /\ [][Next]_promiseVars
=============================================================================
