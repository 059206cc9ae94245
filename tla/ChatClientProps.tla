--------------------------- MODULE ChatClientProps ---------------------------
(***************************************************************************)
(* What the chat page keeps.                                               *)
(***************************************************************************)
EXTENDS ChatClient

TypeOK ==
  /\ pending \in BOOLEAN
  /\ loading \in BOOLEAN
  /\ active \in Sessions \cup {None}
  /\ inspector \in Sessions \cup {None}
  /\ last \in [sent : BOOLEAN, session : Sessions \cup {None}]
  /\ failed \in BOOLEAN
  /\ listed \subseteq Sessions
  /\ dialog \in [what : {"none", "reset", "delete"}, session : Sessions \cup {None}]
  /\ at \in Points
  /\ target \in Sessions \cup {None}
  /\ content \in BOOLEAN
  /\ card \in BOOLEAN
  /\ shown \subseteq Sessions
  /\ lists \in [Slots -> [state : {"idle", "sent", "answered"}, reply : SUBSET Sessions]]
  /\ exists \subseteq Sessions
  /\ used \subseteq Sessions
  /\ tries \in 0 .. 2
  /\ strayed \in BOOLEAN

(* The flags that lock the controls are set exactly while a handler has    *)
(* something under way, through histories read inside a reset, lists       *)
(* awaited or not, and every failure: no second handler meets the first    *)
(* (runtime-state.js:143, composer.js:74).                                 *)
OneAtATime ==
  /\ pending \/ loading <=> at # "idle"
  /\ at # "idle" => dialog = Closed
  /\ lists[Main] # Idle <=> at \in {"starting", "relisting"}

(* With the types, which also bound a message to one repetition            *)
(* (requests.js:252).                                                      *)
PageSound == TypeOK /\ OneAtATime

(* The answers on the page are of the active session or of the request     *)
(* under way, whatever arrives late: histories, answers, resets and stale  *)
(* lists.  Until it is cleared again a page is excused that sent a retry   *)
(* to another session, or that was left with answers and no session: its   *)
(* own was dropped meanwhile, or no frame named it (composer.js:135,       *)
(* sessions.js:270, requests.js:309, :330).                                *)
ShownIsActive ==
  ~strayed => shown \subseteq {active} \cup
    (IF at \in {"streaming", "posting"} /\ content THEN {target} ELSE {})

(* The answer of a retry goes to the session of the request retried.       *)
Elsewhere ==
  at \in {"streaming", "posting"} /\ strayed /\ last.session # active

(* The steps that may take the session from the page.                      *)
Takes ==
  \/ NewChat \/ DeleteDone \/ \E s \in Sessions : Open(s)
  \/ \E l \in Slots : ListArrives(l) /\ active \notin lists[l].reply
  \/ Elsewhere

(* Nothing but the user, a list without it or a retry elsewhere takes the  *)
(* active session from the page: not the late end or stop of a stream, nor *)
(* a reset, which goes on with the session taken before its dialog opened, *)
(* lists arriving all the while (sessions.js:341-364, requests.js:62,      *)
(* :309).                                                                  *)
ConversationKept ==
  [][active # None /\ active' # active => Takes]_vars

(* The page never stays locked (requests.js:84, sessions.js:89).           *)
Unlocks == pending \/ loading ~> ~pending /\ ~loading
=============================================================================
