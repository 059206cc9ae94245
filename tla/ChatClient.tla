----------------------------- MODULE ChatClient -----------------------------
(***************************************************************************)
(* The chat page of the frontend (frontend/app/static/js/chat): one thread *)
(* of JavaScript whose handlers give it up at every await, the requests    *)
(* they have under way, and the lists of sessions that arrive meanwhile.   *)
(*                                                                         *)
(* A handler runs from one await to the next in one step.  What keeps the  *)
(* user from starting a second one are two flags, pending and              *)
(* conversationLoading, and the page behind a confirmation's dialog.       *)
(* Capabilities are on, except that a request may be streamed or not.  The *)
(* proxy and the backend answer, fail or break off as they like; the       *)
(* JSON answer to a stream, which this backend never gives, is left out.   *)
(***************************************************************************)
EXTENDS FiniteSets, Naturals

CONSTANTS
  Sessions,  \* session ids
  Slots,     \* bound: lists under way
  Main,      \* the slot of the list a handler awaits
  None

ASSUME ClientAssumption == Main \in Slots /\ None \notin Sessions

VARIABLES
  pending,    \* runtimeState.pending
  loading,    \* runtimeState.conversationLoading
  active,     \* activeSessionId
  inspector,  \* inspector.sessionId
  last,       \* lastRequestBody: [sent, session]
  failed,     \* lastFailure is set
  listed,     \* sessions, as last rendered
  dialog,     \* the confirmation that is open: [what, session]
  at,         \* what the handler that is under way awaits
  target,     \* the session it is about
  content,    \* contentStarted
  card,       \* the request's cards are still on the page
  shown,      \* sessions whose answers are on the page
  lists,      \* lists under way: [state, reply]
  exists,     \* sessions the backend has
  used,       \* history: session ids given out
  tries,      \* history: requests made for the message
  strayed     \* history: since it was cleared, the page may show answers of other sessions

flags == <<pending, loading>>
chat == <<last, failed, content, card, tries>>
page == <<active, inspector, shown, strayed>>
server == <<exists, used>>
vars == <<flags, page, chat, listed, dialog, at, target, lists, server>>

Points == {"idle", "starting", "history", "streaming", "posting",
           "resetting", "rereading", "deleting", "relisting"}

Closed == [what |-> "none", session |-> None]

Idle == [state |-> "idle", reply |-> {}]
Sent == [state |-> "sent", reply |-> {}]

(* The page is opened with the session local storage kept, if any.         *)
Init ==
  /\ pending = FALSE
  /\ loading = TRUE
  /\ active \in Sessions \cup {None}
  /\ inspector = active
  /\ last = [sent |-> FALSE, session |-> None]
  /\ failed = FALSE
  /\ listed = {}
  /\ dialog = Closed
  /\ at = "starting"
  /\ target = None
  /\ content = FALSE
  /\ card = FALSE
  /\ shown = {}
  /\ lists = [l \in Slots |-> IF l = Main THEN Sent ELSE Idle]
  /\ exists \in SUBSET Sessions
  /\ used = exists \cup ({active} \ {None})
  /\ tries = 0
  /\ strayed = FALSE

-----------------------------------------------------------------------------
(* Parts of the handlers.                                                  *)

(* Mutated Free: the dialog does not cover the controls.                   *)
FreeBeside == ~pending /\ ~loading

(* The controls are enabled, and no dialog covers them.                    *)
Free == ~pending /\ ~loading /\ dialog = Closed

Or(s, t) == IF s # None THEN s ELSE t

(* The session a request for session s reaches: without one the backend    *)
(* makes a new one; None if the request does not get there.                *)
Reached(s) == IF s # None THEN {s} ELSE (Sessions \ used) \cup {None}

Give(s) == used' = used \cup ({s} \ {None}) /\ UNCHANGED exists

(* loadSessions, not awaited by a handler that locks the page.             *)
AskList ==
  LET free == {l \in Slots \ {Main} : lists[l] = Idle} IN
    \/ free = {} /\ UNCHANGED lists
    \/ \E l \in free : lists' = [lists EXCEPT ![l] = Sent]

AwaitList == lists' = [lists EXCEPT ![Main] = Sent]

(* What every cleared conversation starts with.                            *)
Clear(s) == active' = s /\ inspector' = s /\ shown' = {} /\ strayed' = FALSE

-----------------------------------------------------------------------------
(* Chat requests.                                                          *)

BeginUnlocked(s) ==
  /\ last' = [sent |-> TRUE, session |-> s]
  /\ failed' = FALSE
  /\ inspector' = active
  /\ content' = FALSE
  /\ card' = TRUE
  /\ tries' = 1
  /\ at' \in {"streaming", "posting"}
  /\ \E r \in Reached(s) : target' = r /\ Give(r)
  /\ UNCHANGED <<flags, active, shown, listed, dialog, lists>>

(* beginChatRequest and the start of runStreamingRequest or                *)
(* runNonStreamingRequest.                                                 *)
Begin(s) ==
  /\ last' = [sent |-> TRUE, session |-> s]
  /\ failed' = FALSE
  /\ inspector' = active
  /\ content' = FALSE
  /\ card' = TRUE
  /\ tries' = 1
  /\ pending' = TRUE
  /\ at' \in {"streaming", "posting"}
  /\ \E r \in Reached(s) : target' = r /\ Give(r)
  /\ UNCHANGED <<loading, active, shown, listed, dialog, lists>>

Send ==
  /\ Free
  /\ Begin(active)
  /\ UNCHANGED strayed

(* The body of the last request is sent again, with its session.           *)
Retry ==
  /\ Free
  /\ failed /\ last.sent
  /\ Begin(last.session)
  /\ strayed' = (strayed \/ last.session # active)

Show == shown' = IF card THEN shown \cup {target} ELSE shown

(* A frame that names the session.                                         *)
Name ==
  /\ at = "streaming" /\ target # None
  /\ inspector' = target
  /\ UNCHANGED <<flags, active, shown, chat, listed, dialog, at, target, lists, server, strayed>>

Delta ==
  /\ at = "streaming" /\ target # None
  /\ content' = TRUE
  /\ Show
  /\ UNCHANGED <<flags, active, inspector, last, failed, card, tries, listed, dialog, at,
                 target, lists, server, strayed>>

(* finalizeSuccessfulChat, the inspector knowing session s.  The page is   *)
(* free again before the list it asks for arrives.                         *)
Finalize(s) ==
  /\ inspector' = s
  /\ active' = Or(s, active)
  /\ Show
  /\ pending' = FALSE
  /\ at' = "idle"
  /\ AskList
  /\ UNCHANGED <<loading, chat, listed, dialog, target, used>>

(* The stream completed, or the request was answered.                      *)
Answer ==
  /\ at \in {"streaming", "posting"} /\ target # None
  /\ Finalize(target)
  /\ exists' = exists \cup {target}
  /\ UNCHANGED strayed

(* Answers stay on a page that knows no session they could be of.          *)
Homeless(s, answers) == s = None /\ answers # {}

(* A stream that ends after texts without its completion counts as well.   *)
EndsShort ==
  /\ at = "streaming" /\ content
  /\ Finalize(inspector)
  /\ strayed' = (strayed \/ Homeless(active', shown'))
  /\ UNCHANGED exists

(* The message is sent again as a plain request.                           *)
FallBack ==
  /\ at' = "posting"
  /\ tries' = tries + 1
  /\ \E r \in Reached(last.session) : target' = r /\ Give(r)
  /\ UNCHANGED <<flags, page, last, failed, content, card, listed, dialog, lists>>

Fail ==
  /\ failed' = TRUE
  /\ pending' = FALSE
  /\ at' = "idle"
  /\ strayed' = (strayed \/ Homeless(active, shown))
  /\ UNCHANGED <<loading, active, inspector, shown, last, content, card, tries, listed, dialog,
                 target, lists, server>>

(* The stream could not be opened, sent an error, broke off or ended       *)
(* without content.                                                        *)
Breaks ==
  /\ at = "streaming"
  /\ \/ ~content /\ FallBack
     \/ content /\ Fail

PostFailsLocked ==
  /\ at = "posting"
  /\ failed' = TRUE
  /\ UNCHANGED <<flags, page, last, content, card, tries, listed, dialog, at, target, lists,
                 server>>

PostFails == at = "posting" /\ Fail

(* Only a session that a frame named is kept.                              *)
Stop ==
  /\ at = "streaming"
  /\ active' = Or(inspector, active)
  /\ pending' = FALSE
  /\ at' = "idle"
  /\ strayed' = (strayed \/ Homeless(active', shown))
  /\ UNCHANGED <<loading, inspector, shown, chat, listed, dialog, target, lists, server>>

-----------------------------------------------------------------------------
(* Sessions.                                                               *)

(* loadSessionHistory up to its await.                                     *)
View(s, point) ==
  /\ Clear(s)
  /\ card' = FALSE
  /\ target' = s
  /\ loading' = TRUE
  /\ at' = point

Open(s) ==
  /\ Free
  /\ s \in listed
  /\ View(s, "history")
  /\ UNCHANGED <<pending, last, failed, content, tries, listed, dialog, lists, server>>

(* The messages are shown; whether their session is still the active one   *)
(* is not looked at.                                                       *)
Read ==
  \/ /\ target \in exists
     /\ shown' \in {{}, {target}}
     /\ card' = FALSE
     /\ strayed' = (strayed \/ Homeless(active, shown'))
  \/ UNCHANGED <<shown, card, strayed>>

HistoryEnds ==
  /\ at = "history"
  /\ Read
  /\ loading' = FALSE
  /\ at' = "idle"
  /\ UNCHANGED <<pending, active, inspector, last, failed, content, tries, listed, dialog,
                 target, lists, server>>

NewChatOverlaid ==
  /\ Free
  /\ active' = None
  /\ inspector' = None
  /\ UNCHANGED <<flags, chat, shown, listed, dialog, at, target, lists, server, strayed>>

NewChat ==
  /\ Free
  /\ Clear(None)
  /\ card' = FALSE
  /\ UNCHANGED <<flags, last, failed, content, tries, listed, dialog, at, target, lists, server>>

Refresh ==
  /\ Free
  /\ AskList
  /\ UNCHANGED <<flags, page, chat, listed, dialog, at, target, server>>

(* The session is taken before the dialog opens.                           *)
Question ==
  /\ Free
  /\ \/ active # None /\ dialog' = [what |-> "reset", session |-> active]
     \/ \E s \in listed \cup ({active} \ {None}) : dialog' = [what |-> "delete", session |-> s]
  /\ UNCHANGED <<flags, page, chat, listed, at, target, lists, server>>

Dismiss ==
  /\ dialog # Closed
  /\ dialog' = Closed
  /\ UNCHANGED <<flags, page, chat, listed, at, target, lists, server>>

Confirm ==
  /\ dialog # Closed
  /\ dialog' = Closed
  /\ pending' = TRUE
  /\ target' = dialog.session
  /\ at' = IF dialog.what = "reset" THEN "resetting" ELSE "deleting"
  /\ UNCHANGED <<loading, page, chat, listed, lists, server>>

(* After a reset the session's history and the list are read again.        *)
ResetDone ==
  /\ at = "resetting"
  /\ View(target, "rereading")
  /\ UNCHANGED <<pending, last, failed, content, tries, listed, dialog, lists, server>>

RereadEnds ==
  /\ at = "rereading"
  /\ Read
  /\ loading' = FALSE
  /\ at' = "relisting"
  /\ AwaitList
  /\ UNCHANGED <<pending, active, inspector, last, failed, content, tries, listed, dialog,
                 target, server>>

DeleteDone ==
  /\ at = "deleting"
  /\ exists' = exists \ {target}
  /\ IF active = target
       THEN Clear(None) /\ card' = FALSE
       ELSE UNCHANGED <<page, card>>
  /\ at' = "relisting"
  /\ AwaitList
  /\ UNCHANGED <<flags, last, failed, content, tries, listed, dialog, target, used>>

(* The error is shown; a session may be gone all the same.                 *)
ChangeFails ==
  /\ at \in {"resetting", "deleting"}
  /\ pending' = FALSE
  /\ at' = "idle"
  /\ exists' \in {exists} \cup (IF at = "deleting" THEN {exists \ {target}} ELSE {})
  /\ UNCHANGED <<loading, page, chat, listed, dialog, target, lists, used>>

-----------------------------------------------------------------------------
(* Lists of sessions.                                                      *)

Reply(l) ==
  /\ lists[l] = Sent
  /\ lists' = [lists EXCEPT ![l] = [state |-> "answered", reply |-> exists]]
  /\ UNCHANGED <<flags, page, chat, listed, dialog, at, target, server>>

(* What the handler that awaited a list goes on with, s being the active   *)
(* session then.                                                           *)
Continue(s) ==
  \/ /\ at = "starting" /\ s # None
     /\ View(s, "history")
     /\ UNCHANGED pending
  \/ /\ at = "starting" /\ s = None
     /\ Clear(None)
     /\ card' = FALSE
     /\ loading' = FALSE
     /\ at' = "idle"
     /\ UNCHANGED <<pending, target>>

(* An active session that is not in the list is dropped.                   *)
Gone(l) == active # None /\ active \notin lists[l].reply

Look(l) ==
  IF Gone(l) THEN Clear(None) /\ card' = FALSE ELSE UNCHANGED <<page, card>>

Unlock == pending' = FALSE /\ at' = "idle" /\ UNCHANGED <<loading, target>>

ListArrives(l) ==
  /\ lists[l].state = "answered"
  /\ lists' = [lists EXCEPT ![l] = Idle]
  /\ listed' = lists[l].reply
  /\ CASE l = Main /\ at = "starting" -> Continue(IF Gone(l) THEN None ELSE active)
       [] l = Main /\ at = "relisting" -> Look(l) /\ Unlock
       [] OTHER -> Look(l) /\ UNCHANGED <<flags, at, target>>
  /\ UNCHANGED <<last, failed, content, tries, dialog, server>>

ListFails(l) ==
  /\ lists[l] = Sent
  /\ lists' = [lists EXCEPT ![l] = Idle]
  /\ CASE l = Main /\ at = "starting" -> Continue(active)
       [] l = Main /\ at = "relisting" -> Unlock /\ UNCHANGED <<page, card>>
       [] OTHER -> UNCHANGED <<flags, page, card, at, target>>
  /\ UNCHANGED <<last, failed, content, tries, listed, dialog, server>>

(* A turn the page no longer waits for, or another tab.                    *)
BackendChanges ==
  /\ \/ \E s \in used \ exists : exists' = exists \cup {s}
     \/ \E s \in exists : exists' = exists \ {s}
  /\ UNCHANGED <<flags, page, chat, listed, dialog, at, target, lists, used>>

ChatEnds == Answer \/ EndsShort \/ Breaks \/ PostFails

SessionsEnd == HistoryEnds \/ ResetDone \/ RereadEnds \/ DeleteDone \/ ChangeFails

ListEnds(l) == Reply(l) \/ ListArrives(l) \/ ListFails(l)

Next ==
  \/ Send \/ Retry \/ Name \/ Delta \/ Stop \/ ChatEnds
  \/ (\E s \in Sessions : Open(s)) \/ NewChat \/ Refresh
  \/ Question \/ Dismiss \/ Confirm \/ SessionsEnd
  \/ \E l \in Slots : ListEnds(l)
  \/ BackendChanges

Spec == Init /\ [][Next]_vars

(* The proxy's timeouts end every request, and what arrived is handled.    *)
FairSpec ==
  /\ Spec
  /\ WF_vars(ChatEnds)
  /\ WF_vars(SessionsEnd)
  /\ WF_vars(ListEnds(Main))
=============================================================================
