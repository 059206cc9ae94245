-------------------------- MODULE ChatClientProofs --------------------------
(***************************************************************************)
(* The chat page keeps what it shows apart, locks itself while a handler   *)
(* runs and keeps the conversation the user is in, for any sessions and    *)
(* any lists under way.                                                    *)
(***************************************************************************)
EXTENDS ChatClientProps, TLAPS

USE ClientAssumption DEF flags, page, chat, server

Chatting == {"streaming", "posting"}

(* Which flag each await of a handler holds. *)
Flags ==
  /\ pending <=> at \in Chatting \cup {"resetting", "rereading", "deleting", "relisting"}
  /\ loading <=> at \in {"starting", "history", "rereading"}
  /\ at # "idle" => dialog = Closed
  /\ lists[Main] # Idle <=> at \in {"starting", "relisting"}

(* A request goes to the active session, unless that was dropped or a      *)
(* retry went elsewhere; the inspector knows that one or the one a frame   *)
(* named.                                                                  *)
Aimed ==
  /\ at = "streaming" => tries = 1 /\ inspector \in {active, target}
  /\ at \in Chatting /\ content => target # None
  /\ at \in Chatting /\ active # None /\ last.session = active => target = active
  /\ at \in Chatting /\ active # None /\ ~strayed => last.session = active

(* A history that is read and a reset, from its dialog on, are of the      *)
(* active session, unless that was dropped.                                *)
Returning ==
  /\ at \in {"history", "rereading", "resetting"} => active \in {target, None}
  /\ dialog.what = "reset" => active \in {dialog.session, None}

IInv == TypeOK /\ Flags /\ Aimed /\ Returning /\ ShownIsActive

LEMMA InvariantStarts == Init => IInv
<1> SUFFICES ASSUME Init PROVE IInv
  OBVIOUS
<1>1. Idle # Sent /\ {Idle, Sent} \subseteq [state : {"idle", "sent", "answered"}, reply : SUBSET Sessions]
  BY DEF Idle, Sent
<1>2. lists \in [Slots -> [state : {"idle", "sent", "answered"}, reply : SUBSET Sessions]]
  BY <1>1 DEF Init
<1>3. last \in [sent : BOOLEAN, session : Sessions \cup {None}]
      /\ dialog \in [what : {"none", "reset", "delete"}, session : Sessions \cup {None}]
  BY DEF Init, Closed
<1>4. used \subseteq Sessions /\ exists \subseteq Sessions
  BY DEF Init
<1>5. TypeOK
  <2>1. /\ pending \in BOOLEAN /\ loading \in BOOLEAN /\ failed \in BOOLEAN
        /\ content \in BOOLEAN /\ card \in BOOLEAN /\ strayed \in BOOLEAN
    BY Zenon DEF Init
  <2>2. /\ active \in Sessions \cup {None} /\ inspector \in Sessions \cup {None}
        /\ target \in Sessions \cup {None} /\ tries \in 0 .. 2
        /\ at \in Points /\ listed \subseteq Sessions /\ shown \subseteq Sessions
    BY DEF Init, Points
  <2> QED BY <1>2, <1>3, <1>4, <2>1, <2>2, Zenon DEF TypeOK
<1>6. Flags
  BY <1>1 DEF Init, Flags, Chatting
<1>7. Aimed /\ Returning /\ ShownIsActive
  BY DEF Init, Aimed, Returning, Chatting, Closed, ShownIsActive
<1> QED BY <1>5, <1>6, <1>7 DEF IInv

-----------------------------------------------------------------------------
(* Parts of the steps.                                                     *)

Entries == [state : {"idle", "sent", "answered"}, reply : SUBSET Sessions]

LEMMA OwnEntries == {Idle, Sent} \subseteq Entries /\ Idle # Sent
BY DEF Idle, Sent, Entries

LEMMA ListChange ==
  ASSUME TypeOK, NEW l \in Slots, NEW v \in Entries, lists' = [lists EXCEPT ![l] = v]
  PROVE  /\ lists' \in [Slots -> Entries]
         /\ lists'[Main] = IF l = Main THEN v ELSE lists[Main]
BY DEF TypeOK, Entries

(* A list nobody waits for leaves the awaited one alone. *)
LEMMA Asking ==
  ASSUME TypeOK, AskList
  PROVE  lists' \in [Slots -> Entries] /\ lists'[Main] = lists[Main]
<1>1. lists \in [Slots -> Entries] BY DEF TypeOK, Entries
<1>2. CASE UNCHANGED lists BY <1>1, <1>2
<1>3. CASE \E l \in Slots \ {Main} : lists' = [lists EXCEPT ![l] = Sent]
  <2>1. PICK l \in Slots \ {Main} : lists' = [lists EXCEPT ![l] = Sent] BY <1>3
  <2>2. Sent \in Entries BY OwnEntries
  <2> QED BY <2>1, <2>2, ListChange
<1> QED BY <1>2, <1>3 DEF AskList

LEMMA Awaiting ==
  ASSUME TypeOK, AwaitList
  PROVE  lists' \in [Slots -> Entries] /\ lists'[Main] # Idle
<1>1. Sent \in Entries /\ Sent # Idle BY OwnEntries
<1> QED BY <1>1, ListChange DEF AwaitList

(* Where a request goes. *)
LEMMA Reaching ==
  ASSUME TypeOK, NEW s \in Sessions \cup {None}, NEW r \in Reached(s), Give(r)
  PROVE  /\ r \in Sessions \cup {None} /\ (s # None => r = s)
         /\ used' \subseteq Sessions /\ exists' = exists
<1>1. r \in Sessions \cup {None} /\ (s # None => r = s) BY DEF Reached, TypeOK
<1> QED BY <1>1 DEF Give, TypeOK

(* The user's controls answer while nothing runs. *)
LEMMA FreeIsIdle == TypeOK /\ Flags /\ Free => at = "idle"
BY DEF TypeOK, Flags, Free, Points, Chatting

(* No reset is asked for without a dialog. *)
LEMMA Unasked == dialog' = Closed => dialog'.what # "reset"
BY DEF Closed

(* How a request starts, whose session is the active one unless strayed. *)
LEMMA Beginning ==
  ASSUME IInv, at = "idle", dialog = Closed, NEW s \in Sessions \cup {None}, Begin(s),
         strayed' \in BOOLEAN, ~strayed' => ~strayed /\ s = active
  PROVE  IInv'
<1>1. TypeOK /\ Flags /\ ShownIsActive BY DEF IInv
<1>2. PICK r \in Reached(s) : target' = r /\ Give(r) BY DEF Begin
<1>3. /\ r \in Sessions \cup {None} /\ (s # None => r = s)
      /\ used' \subseteq Sessions /\ exists' = exists
  BY <1>1, <1>2, Reaching
<1>4. /\ last' = [sent |-> TRUE, session |-> s] /\ failed' = FALSE /\ inspector' = active
      /\ content' = FALSE /\ tries' = 1 /\ card' = TRUE /\ pending' = TRUE /\ at' \in Chatting
      /\ UNCHANGED <<loading, active, shown, listed, dialog, lists>>
  BY DEF Begin, Chatting
<1>5. TypeOK'
  <2>1. /\ pending' \in BOOLEAN /\ failed' \in BOOLEAN /\ content' \in BOOLEAN /\ card' \in BOOLEAN
    BY <1>4, Zenon
  <2>2. /\ last' \in [sent : BOOLEAN, session : Sessions \cup {None}]
        /\ inspector' \in Sessions \cup {None} /\ target' \in Sessions \cup {None}
        /\ tries' \in 0 .. 2 /\ at' \in Points
    BY <1>1, <1>2, <1>3, <1>4 DEF TypeOK, Points, Chatting
  <2>3. UNCHANGED <<loading, active, shown, listed, dialog, lists, exists>> BY <1>3, <1>4
  <2> QED BY <1>1, <1>3, <2>1, <2>2, <2>3 DEF TypeOK
<1>6. Flags' BY <1>1, <1>4 DEF Flags, Chatting
<1>7. Aimed' BY <1>2, <1>3, <1>4 DEF Aimed, Chatting
<1>8. ShownIsActive' BY <1>1, <1>4 DEF ShownIsActive, Chatting
<1>9. Returning' BY <1>4, Unasked DEF Returning, Chatting
<1> QED BY <1>5, <1>6, <1>7, <1>8, <1>9 DEF IInv

(* What is shown of the request under way. *)
LEMMA Showing ==
  ASSUME TypeOK, at \in Chatting, Show
  PROVE  /\ shown' \subseteq shown \cup {target}
         /\ target # None => shown' \subseteq Sessions
BY DEF TypeOK, Show

(* While a request is under way all that is shown is of its session, or
   nothing of it is. *)
LEMMA OfTheRequest ==
  ASSUME TypeOK, Aimed, ShownIsActive, at \in Chatting, ~strayed
  PROVE  /\ shown \subseteq {target}
         /\ ~content => shown \subseteq {active}
<1>1. shown \subseteq Sessions /\ None \notin Sessions BY DEF TypeOK
<1>2. shown \subseteq {active} \cup (IF content THEN {target} ELSE {})
  BY DEF ShownIsActive, Chatting
<1>3. active # None => target = active BY DEF Aimed
<1> QED BY <1>1, <1>2, <1>3

(* How a request ends well. *)
LEMMA Finalizing ==
  ASSUME IInv, at \in Chatting, target # None, NEW s \in Sessions \cup {None}, Finalize(s),
         exists' \subseteq Sessions, strayed' \in BOOLEAN,
         ~strayed' => ~strayed /\ (Or(s, active) = target \/ shown' = {})
  PROVE  IInv'
<1>1. TypeOK /\ Flags /\ Aimed /\ ShownIsActive BY DEF IInv
<1>2. lists' \in [Slots -> Entries] /\ lists'[Main] = lists[Main]
  BY <1>1, Asking DEF Finalize
<1>3. /\ inspector' = s /\ active' = Or(s, active) /\ pending' = FALSE /\ at' = "idle"
      /\ UNCHANGED <<loading, chat, listed, dialog, target, used>>
  BY DEF Finalize
<1>4. shown' \subseteq shown \cup {target} /\ shown' \subseteq Sessions
  BY <1>1, Showing DEF Finalize
<1>5. TypeOK'
  BY <1>1, <1>2, <1>3, <1>4 DEF TypeOK, Points, Entries, Or
<1>6. Flags'
  BY <1>1, <1>2, <1>3 DEF Flags, Chatting
<1>7. Aimed' BY <1>3 DEF Aimed, Chatting
<1>8. ShownIsActive'
  <2>1. ASSUME ~strayed' PROVE shown' \subseteq {active'}
    <3>1. shown \subseteq {target} BY <1>1, <2>1, OfTheRequest
    <3> QED BY <1>3, <1>4, <2>1, <3>1
  <2> QED BY <2>1 DEF ShownIsActive
<1>9. Returning' BY <1>1, <1>3, Unasked DEF Returning, Flags, Chatting
<1> QED BY <1>5, <1>6, <1>7, <1>8, <1>9 DEF IInv

(* How a request fails or is stopped, with the page's session now s. *)
LEMMA Ending ==
  ASSUME IInv, at \in Chatting, NEW s \in Sessions \cup {None},
         active' = s, pending' = FALSE, at' = "idle", failed' \in BOOLEAN,
         UNCHANGED <<loading, inspector, shown, last, content, card, tries, listed, dialog, target,
                     lists, server>>,
         strayed' = (strayed \/ Homeless(s, shown)),
         s = active \/ (at = "streaming" /\ s = inspector)
  PROVE  IInv'
<1>1. TypeOK /\ Flags /\ Aimed /\ ShownIsActive BY DEF IInv
<1>2. TypeOK'
  <2>1. pending' \in BOOLEAN /\ at' \in Points /\ strayed' \in BOOLEAN BY Zenon DEF Points
  <2>2. active' \in Sessions \cup {None} BY Zenon
  <2> QED BY <1>1, <2>1, <2>2 DEF TypeOK
<1>3. Flags' BY <1>1 DEF Flags, Chatting
<1>4. Aimed' BY DEF Aimed, Chatting
<1>5. ASSUME ~strayed' PROVE shown' \subseteq {active'}
  <2>1. ~strayed /\ (s # None \/ shown = {}) BY <1>1, <1>5 DEF Homeless, TypeOK
  <2>2. CASE shown = {} BY <2>2
  <2>3. CASE s # None
    <3>1. active # None => target = active BY <1>1, <2>1 DEF Aimed
    <3>2. s \in {active, target} BY <1>1 DEF Aimed
    <3>3. s = target BY <2>3, <3>1, <3>2
    <3>4. shown \subseteq {target} BY <1>1, <2>1, OfTheRequest
    <3> QED BY <3>3, <3>4
  <2> QED BY <2>1, <2>2, <2>3
<1>6. ShownIsActive' BY <1>5 DEF ShownIsActive
<1>7. Returning' BY <1>1, Unasked DEF Returning, Flags, Chatting
<1> QED BY <1>2, <1>3, <1>4, <1>6, <1>7 DEF IInv

(* The message is sent again. *)
LEMMA FallingBack ==
  ASSUME IInv, at = "streaming", ~content, FallBack
  PROVE  IInv'
<1>1. TypeOK /\ Flags /\ Aimed /\ ShownIsActive BY DEF IInv
<1>2. PICK r \in Reached(last.session) : target' = r /\ Give(r) BY DEF FallBack
<1>3. last.session \in Sessions \cup {None} BY <1>1 DEF TypeOK
<1>4. /\ r \in Sessions \cup {None} /\ (last.session # None => r = last.session)
      /\ used' \subseteq Sessions /\ exists' = exists
  BY <1>1, <1>2, <1>3, Reaching
<1>5. /\ at' = "posting" /\ tries' = tries + 1
      /\ UNCHANGED <<flags, page, last, failed, content, card, listed, dialog, lists, strayed>>
  BY DEF FallBack
<1>6. tries = 1 BY <1>1 DEF Aimed
<1>7. TypeOK' BY <1>1, <1>2, <1>4, <1>5, <1>6 DEF TypeOK, Points
<1>8. Flags' BY <1>1, <1>5 DEF Flags, Chatting
<1>9. Aimed' BY <1>1, <1>2, <1>4, <1>5 DEF Aimed, Chatting
<1>10. ShownIsActive' BY <1>1, <1>5 DEF ShownIsActive, Chatting
<1>11. Returning' BY <1>1, <1>5, Unasked DEF Returning, Flags, Chatting
<1> QED BY <1>7, <1>8, <1>9, <1>10, <1>11 DEF IInv

(* A handler of the sessions goes on: nothing of a request is shown but by
   what it reads. *)
LEMMA Moving ==
  ASSUME IInv, TypeOK', Flags', Returning', at' \notin Chatting,
         ~strayed' => \/ shown' \subseteq {active'}
                      \/ ~strayed /\ at \notin Chatting /\ UNCHANGED <<active, shown>>
  PROVE  IInv'
<1>1. Aimed' BY DEF Aimed, Chatting
<1>2. ShownIsActive' BY DEF IInv, ShownIsActive, Chatting
<1> QED BY <1>1, <1>2 DEF IInv

(* A list drops the session it does not have. *)
LEMMA Looking ==
  ASSUME IInv, NEW l \in Slots, Look(l), TypeOK', Flags', UNCHANGED <<content, tries, last, dialog>>,
         \/ at' = at /\ target' = target
         \/ at' = "idle" /\ at \notin Chatting
  PROVE  IInv'
<1>1. TypeOK /\ Aimed /\ Returning /\ ShownIsActive BY DEF IInv
<1>2. CASE UNCHANGED page
  <2>1. Aimed' BY <1>1, <1>2 DEF Aimed, Chatting
  <2>2. ShownIsActive' BY <1>1, <1>2 DEF ShownIsActive, Chatting
  <2>3. Returning' BY <1>1, <1>2 DEF Returning
  <2> QED BY <2>1, <2>2, <2>3 DEF IInv
<1>3. CASE Clear(None)
  <2>1. active' = None /\ inspector' = None /\ shown' = {} BY <1>3 DEF Clear
  <2>2. Aimed' BY <1>1, <2>1 DEF Aimed, Chatting
  <2>3. ShownIsActive' BY <2>1 DEF ShownIsActive
  <2>4. Returning' BY <2>1 DEF Returning
  <2> QED BY <2>2, <2>3, <2>4 DEF IInv
<1> QED BY <1>2, <1>3 DEF Look

(* Nothing a request or the page depends on moves. *)
LEMMA Undisturbed ==
  ASSUME IInv, TypeOK', Flags', UNCHANGED <<page, last, content, tries, at, target>>,
         dialog'.what = "reset" => dialog' = dialog \/ active \in {dialog'.session, None}
  PROVE  IInv'
<1>1. Aimed' BY DEF IInv, Aimed, Chatting
<1>2. ShownIsActive' BY DEF IInv, ShownIsActive, Chatting
<1>3. Returning' BY DEF IInv, Returning
<1> QED BY <1>1, <1>2, <1>3 DEF IInv

-----------------------------------------------------------------------------
(* The steps, by what they are about.                                      *)

LEMMA RequestStep ==
  ASSUME IInv, Send \/ Retry \/ Name \/ Delta \/ Stop
  PROVE  IInv'
<1>1. TypeOK /\ Flags /\ Aimed /\ ShownIsActive BY DEF IInv
<1>2. CASE Send
  <2>1. at = "idle" /\ dialog = Closed BY <1>1, <1>2, FreeIsIdle DEF Send, Free
  <2>2. Begin(active) /\ strayed' = strayed /\ active \in Sessions \cup {None} /\ strayed \in BOOLEAN
    BY <1>1, <1>2 DEF Send, TypeOK
  <2> QED BY <2>1, <2>2, Beginning
<1>3. CASE Retry
  <2>1. at = "idle" /\ dialog = Closed BY <1>1, <1>3, FreeIsIdle DEF Retry, Free
  <2>2. Begin(last.session) /\ strayed' = (strayed \/ last.session # active)
        /\ last.session \in Sessions \cup {None} /\ strayed \in BOOLEAN
    BY <1>1, <1>3 DEF Retry, TypeOK
  <2> QED BY <2>1, <2>2, Beginning
<1>4. CASE Name
  <2>1. TypeOK' BY <1>1, <1>4 DEF Name, TypeOK
  <2>2. Flags' BY <1>1, <1>4 DEF Name, Flags, Chatting
  <2>3. Aimed' BY <1>1, <1>4 DEF Name, Aimed, Chatting
  <2>4. ShownIsActive' BY <1>1, <1>4 DEF Name, ShownIsActive, Chatting
  <2>5. Returning' BY <1>4 DEF IInv, Name, Returning
  <2> QED BY <2>1, <2>2, <2>3, <2>4, <2>5 DEF IInv
<1>5. CASE Delta
  <2>1. /\ at = "streaming" /\ target # None /\ content' = TRUE
        /\ UNCHANGED <<flags, active, inspector, last, failed, card, tries, listed, dialog, at,
                       target, lists, server, strayed>>
    BY <1>5 DEF Delta
  <2>2. shown' \subseteq shown \cup {target} /\ shown' \subseteq Sessions
    BY <1>1, <1>5, <2>1, Showing DEF Delta, Chatting
  <2>3. TypeOK' BY <1>1, <2>1, <2>2 DEF TypeOK
  <2>4. Flags' BY <1>1, <2>1 DEF Flags, Chatting
  <2>5. Aimed' BY <1>1, <2>1 DEF Aimed, Chatting
  <2>6. ASSUME ~strayed' PROVE shown' \subseteq {target'}
    <3>1. at \in Chatting /\ ~strayed BY <2>1, <2>6 DEF Chatting
    <3> QED BY <1>1, <2>1, <2>2, <3>1, OfTheRequest
  <2>7. ShownIsActive' BY <2>1, <2>6 DEF ShownIsActive
  <2>8. Returning' BY <2>1 DEF IInv, Returning
  <2> QED BY <2>3, <2>4, <2>5, <2>7, <2>8 DEF IInv
<1>6. CASE Stop
  <2> DEFINE s == Or(inspector, active)
  <2>1. /\ s \in Sessions \cup {None} /\ (s = active \/ s = inspector)
    BY <1>1 DEF TypeOK, Or
  <2>2. /\ at = "streaming" /\ at \in Chatting /\ failed' \in BOOLEAN
        /\ active' = s /\ pending' = FALSE /\ at' = "idle" /\ strayed' = (strayed \/ Homeless(s, shown))
        /\ UNCHANGED <<loading, inspector, shown, last, content, card, tries, listed, dialog, target,
                       lists, server>>
    BY <1>1, <1>6 DEF Stop, TypeOK, Chatting
  <2> HIDE DEF s
  <2> QED BY <2>1, <2>2, Ending
<1> QED BY <1>2, <1>3, <1>4, <1>5, <1>6

LEMMA RequestEnds ==
  ASSUME IInv, ChatEnds
  PROVE  IInv'
<1>1. TypeOK /\ Flags /\ Aimed /\ ShownIsActive BY DEF IInv
<1>2. ASSUME Fail, at \in Chatting PROVE IInv'
  <2>1. active \in Sessions \cup {None} BY <1>1 DEF TypeOK
  <2>2. /\ active' = active /\ failed' \in BOOLEAN /\ pending' = FALSE /\ at' = "idle"
        /\ strayed' = (strayed \/ Homeless(active, shown))
        /\ UNCHANGED <<loading, inspector, shown, last, content, card, tries, listed, dialog, target,
                       lists, server>>
    BY <1>2 DEF Fail
  <2> QED BY <1>2, <2>1, <2>2, Ending
<1>3. CASE Answer
  <2>1. /\ at \in Chatting /\ target # None /\ target \in Sessions /\ Finalize(target)
        /\ exists' \subseteq Sessions /\ strayed' = strayed /\ strayed \in BOOLEAN
    BY <1>1, <1>3 DEF Answer, Chatting, TypeOK
  <2>2. Or(target, active) = target BY <2>1 DEF Or
  <2> QED BY <2>1, <2>2, Finalizing
<1>4. CASE EndsShort
  <2>1. /\ at \in Chatting /\ at = "streaming" /\ content /\ Finalize(inspector)
        /\ inspector \in Sessions \cup {None} /\ exists' \subseteq Sessions /\ strayed \in BOOLEAN
        /\ strayed' = (strayed \/ Homeless(active', shown')) /\ active' = Or(inspector, active)
    BY <1>1, <1>4 DEF EndsShort, Finalize, Chatting, TypeOK
  <2>2. target # None BY <1>1, <2>1 DEF Aimed
  <2>3. strayed' \in BOOLEAN BY <2>1, Zenon
  <2>4. ASSUME ~strayed' PROVE ~strayed /\ (Or(inspector, active) = target \/ shown' = {})
    <3>1. ~strayed /\ (Or(inspector, active) # None \/ shown' = {}) BY <2>1, <2>4 DEF Homeless
    <3>2. active # None => target = active BY <1>1, <2>1, <3>1 DEF Aimed
    <3>3. inspector \in {active, target} BY <1>1, <2>1 DEF Aimed
    <3> QED BY <3>1, <3>2, <3>3 DEF Or
  <2> QED BY <2>1, <2>2, <2>3, <2>4, Finalizing
<1>5. CASE Breaks
  <2>1. CASE ~content /\ FallBack BY <1>5, <2>1, FallingBack DEF Breaks
  <2>2. CASE content /\ Fail BY <1>2, <1>5, <2>2 DEF Breaks, Chatting
  <2> QED BY <1>5, <2>1, <2>2 DEF Breaks
<1>6. CASE PostFails BY <1>2, <1>6 DEF PostFails, Chatting
<1> QED BY <1>3, <1>4, <1>5, <1>6 DEF ChatEnds

(* What the user does to the page while it is free. *)
LEMMA UserStep ==
  ASSUME IInv, (\E s \in Sessions : Open(s)) \/ NewChat \/ Refresh \/ Question \/ Dismiss \/ Confirm
  PROVE  IInv'
<1>1. TypeOK /\ Flags /\ ShownIsActive BY DEF IInv
<1>2. ASSUME NEW s \in Sessions, Open(s) PROVE IInv'
  <2>1. at = "idle" BY <1>1, <1>2, FreeIsIdle DEF Open
  <2>2. /\ active' = s /\ inspector' = s /\ shown' = {} /\ card' = FALSE /\ target' = s
        /\ loading' = TRUE /\ at' = "history" /\ dialog = Closed
        /\ strayed' = FALSE
        /\ UNCHANGED <<pending, last, failed, content, tries, listed, dialog, lists, server>>
    BY <1>2 DEF Open, View, Clear, Free
  <2>3. TypeOK' BY <1>1, <2>2 DEF TypeOK, Points
  <2>4. Flags' BY <1>1, <2>1, <2>2 DEF Flags, Chatting
  <2>5. Returning' BY <2>2, Unasked DEF Returning
  <2> QED BY <2>2, <2>3, <2>4, <2>5, Moving DEF Chatting
<1>3. CASE NewChat
  <2>1. at = "idle" BY <1>1, <1>3, FreeIsIdle DEF NewChat
  <2>2. /\ active' = None /\ inspector' = None /\ shown' = {} /\ card' = FALSE /\ strayed' = FALSE
        /\ UNCHANGED <<flags, last, failed, content, tries, listed, dialog, at, target, lists, server>>
    BY <1>3 DEF NewChat, Clear
  <2>3. TypeOK'
    <3>1. active' \in Sessions \cup {None} /\ inspector' \in Sessions \cup {None}
          /\ shown' \subseteq Sessions /\ card' \in BOOLEAN
      BY <2>2
    <3> QED BY <1>1, <2>2, <3>1 DEF TypeOK
  <2>4. Flags' BY <1>1, <2>2 DEF Flags, Chatting
  <2>5. Returning' BY <2>2 DEF Returning
  <2> QED BY <2>1, <2>2, <2>3, <2>4, <2>5, Moving DEF Chatting
<1>4. CASE Refresh
  <2>1. lists' \in [Slots -> Entries] /\ lists'[Main] = lists[Main] BY <1>1, <1>4, Asking DEF Refresh
  <2>2. UNCHANGED <<flags, page, chat, listed, dialog, at, target, server>>
    BY <1>4 DEF Refresh
  <2>3. TypeOK' BY <1>1, <2>1, <2>2 DEF TypeOK, Entries
  <2>4. Flags' BY <1>1, <2>1, <2>2 DEF Flags, Chatting
  <2> QED BY <2>2, <2>3, <2>4, Undisturbed
<1>5. CASE Question
  <2>1. at = "idle" BY <1>1, <1>5, FreeIsIdle DEF Question
  <2>2. UNCHANGED <<flags, page, chat, listed, at, target, lists, server, strayed>>
    BY <1>5 DEF Question
  <2>3. /\ dialog' \in [what : {"none", "reset", "delete"}, session : Sessions \cup {None}]
        /\ dialog'.what = "reset" => active = dialog'.session
    BY <1>1, <1>5 DEF Question, TypeOK
  <2>4. TypeOK' BY <1>1, <2>2, <2>3 DEF TypeOK
  <2>5. Flags' BY <1>1, <2>1, <2>2 DEF Flags, Chatting
  <2> QED BY <2>2, <2>3, <2>4, <2>5, Undisturbed
<1>6. CASE Dismiss
  <2>1. at = "idle" BY <1>1, <1>6 DEF Flags, Dismiss
  <2>2. dialog' = Closed /\ UNCHANGED <<flags, page, chat, listed, at, target, lists, server, strayed>>
    BY <1>6 DEF Dismiss
  <2>3. TypeOK' BY <1>1, <2>2 DEF TypeOK, Closed
  <2>4. Flags' BY <1>1, <2>1, <2>2 DEF Flags, Chatting
  <2> QED BY <2>2, <2>3, <2>4, Unasked, Undisturbed
<1>7. CASE Confirm
  <2>1. at = "idle" BY <1>1, <1>7 DEF Flags, Confirm
  <2>2. /\ dialog' = Closed /\ pending' = TRUE /\ target' = dialog.session
        /\ at' \in {"resetting", "deleting"} /\ (at' = "resetting" => dialog.what = "reset")
        /\ UNCHANGED <<loading, page, chat, listed, lists, server>>
    BY <1>7 DEF Confirm
  <2>3. TypeOK' BY <1>1, <2>2 DEF TypeOK, Closed, Points
  <2>4. Flags' BY <1>1, <2>1, <2>2 DEF Flags, Chatting
  <2>5. Returning' BY <2>2, Unasked DEF IInv, Returning
  <2> QED BY <2>1, <2>2, <2>3, <2>4, <2>5, Moving DEF Chatting
<1> QED BY <1>2, <1>3, <1>4, <1>5, <1>6, <1>7

(* What the answers about sessions do. *)
LEMMA ReadEnds ==
  ASSUME IInv, Read, at \in {"history", "rereading"}
  PROVE  /\ shown' \subseteq Sessions /\ card' \in BOOLEAN /\ strayed' \in BOOLEAN
         /\ ~strayed' => ~strayed /\ (shown' \subseteq {active} \/ shown' = shown)
<1>1. TypeOK /\ active \in {target, None} BY DEF IInv, Returning
<1>2. CASE /\ target \in exists /\ shown' \in {{}, {target}} /\ card' = FALSE
           /\ strayed' = (strayed \/ Homeless(active, shown'))
  <2>1. strayed' \in BOOLEAN BY <1>1, <1>2, Zenon DEF TypeOK
  <2>2. shown' \subseteq Sessions /\ card' \in BOOLEAN BY <1>1, <1>2 DEF TypeOK
  <2>3. ASSUME ~strayed' PROVE ~strayed /\ shown' \subseteq {active}
    BY <1>1, <1>2, <2>3 DEF Homeless
  <2> QED BY <2>1, <2>2, <2>3
<1>3. CASE UNCHANGED <<shown, card, strayed>> BY <1>1, <1>3 DEF TypeOK
<1> QED BY <1>2, <1>3 DEF Read

LEMMA SessionsStep ==
  ASSUME IInv, SessionsEnd
  PROVE  IInv'
<1>1. TypeOK /\ Flags /\ Returning /\ ShownIsActive BY DEF IInv
<1>2. CASE HistoryEnds
  <2>1. /\ at = "history" /\ Read /\ loading' = FALSE /\ at' = "idle"
        /\ UNCHANGED <<pending, active, inspector, last, failed, content, tries, listed, dialog,
                       target, lists, server>>
    BY <1>2 DEF HistoryEnds
  <2>2. /\ shown' \subseteq Sessions /\ card' \in BOOLEAN /\ strayed' \in BOOLEAN
        /\ ~strayed' => ~strayed /\ (shown' \subseteq {active} \/ shown' = shown)
    BY <2>1, ReadEnds
  <2>3. TypeOK'
    <3>1. loading' \in BOOLEAN /\ at' \in Points BY <2>1, Zenon DEF Points
    <3> QED BY <1>1, <2>1, <2>2, <3>1 DEF TypeOK
  <2>4. Flags' BY <1>1, <2>1 DEF Flags, Chatting
  <2>5. Returning' BY <1>1, <2>1 DEF Returning
  <2> QED BY <2>1, <2>2, <2>3, <2>4, <2>5, Moving DEF Chatting
<1>3. CASE ResetDone
  <2>1. /\ at = "resetting" /\ active' = target /\ inspector' = target /\ shown' = {} /\ card' = FALSE
        /\ target' = target /\ loading' = TRUE /\ at' = "rereading" /\ strayed' = FALSE
        /\ UNCHANGED <<pending, last, failed, content, tries, listed, dialog, lists, server>>
    BY <1>3 DEF ResetDone, View, Clear
  <2>2. TypeOK' BY <1>1, <2>1 DEF TypeOK, Points
  <2>3. Flags' BY <1>1, <2>1 DEF Flags, Chatting
  <2>4. Returning' BY <1>1, <2>1, Unasked DEF Returning, Flags
  <2> QED BY <2>1, <2>2, <2>3, <2>4, Moving DEF Chatting
<1>4. CASE RereadEnds
  <2>1. /\ at = "rereading" /\ Read /\ loading' = FALSE /\ at' = "relisting" /\ AwaitList
        /\ UNCHANGED <<pending, active, inspector, last, failed, content, tries, listed, dialog,
                       target, server>>
    BY <1>4 DEF RereadEnds
  <2>2. /\ shown' \subseteq Sessions /\ card' \in BOOLEAN /\ strayed' \in BOOLEAN
        /\ ~strayed' => ~strayed /\ (shown' \subseteq {active} \/ shown' = shown)
    BY <2>1, ReadEnds
  <2>3. lists' \in [Slots -> Entries] /\ lists'[Main] # Idle BY <1>1, <2>1, Awaiting
  <2>4. TypeOK'
    <3>1. loading' \in BOOLEAN /\ at' \in Points BY <2>1, Zenon DEF Points
    <3> QED BY <1>1, <2>1, <2>2, <2>3, <3>1 DEF TypeOK, Entries
  <2>5. Flags' BY <1>1, <2>1, <2>3 DEF Flags, Chatting
  <2>6. Returning' BY <1>1, <2>1, Unasked DEF Returning, Flags
  <2> QED BY <2>1, <2>2, <2>4, <2>5, <2>6, Moving DEF Chatting
<1>5. CASE DeleteDone
  <2>1. /\ at = "deleting" /\ exists' = exists \ {target} /\ at' = "relisting" /\ AwaitList
        /\ UNCHANGED <<flags, last, failed, content, tries, listed, dialog, target, used>>
        /\ \/ active' = None /\ inspector' = None /\ shown' = {} /\ card' = FALSE /\ strayed' = FALSE
           \/ UNCHANGED <<active, inspector, shown, card, strayed>>
    BY <1>5 DEF DeleteDone, Clear
  <2>2. lists' \in [Slots -> Entries] /\ lists'[Main] # Idle BY <1>1, <2>1, Awaiting
  <2>3. /\ exists' \subseteq Sessions /\ active' \in Sessions \cup {None} /\ inspector' \in Sessions \cup {None}
        /\ shown' \subseteq Sessions /\ card' \in BOOLEAN /\ strayed' \in BOOLEAN /\ at' \in Points
    BY <1>1, <2>1 DEF TypeOK, Points
  <2>4. TypeOK' BY <1>1, <2>1, <2>2, <2>3 DEF TypeOK, Entries
  <2>5. Flags' BY <1>1, <2>1, <2>2 DEF Flags, Chatting
  <2>6. Returning' BY <1>1, <2>1, Unasked DEF Returning, Flags
  <2> QED BY <2>1, <2>4, <2>5, <2>6, Moving DEF Chatting
<1>6. CASE ChangeFails
  <2>1. /\ at \in {"resetting", "deleting"} /\ pending' = FALSE /\ at' = "idle"
        /\ exists' \subseteq exists
        /\ UNCHANGED <<loading, page, chat, listed, dialog, target, lists, used, strayed>>
    BY <1>6 DEF ChangeFails
  <2>2. exists' \subseteq Sessions BY <1>1, <2>1 DEF TypeOK
  <2>3. TypeOK'
    <3>1. pending' \in BOOLEAN /\ at' \in Points BY <2>1 DEF Points
    <3>2. UNCHANGED <<loading, page, chat, listed, dialog, target, lists, used, strayed>> BY <2>1
    <3> QED BY <1>1, <2>2, <3>1, <3>2 DEF TypeOK
  <2>4. Flags' BY <1>1, <2>1 DEF Flags, Chatting
  <2>5. Returning' BY <1>1, <2>1 DEF Returning
  <2> QED BY <2>1, <2>3, <2>4, <2>5, Moving DEF Chatting
<1> QED BY <1>2, <1>3, <1>4, <1>5, <1>6 DEF SessionsEnd

(* What a list that came, or failed, leaves to do, whatever is listed then. *)
LEMMA StartingContinues ==
  ASSUME IInv, at = "starting", NEW s \in Sessions \cup {None}, Continue(s),
         lists' = [lists EXCEPT ![Main] = Idle], listed' \subseteq Sessions,
         UNCHANGED <<last, failed, content, tries, dialog, server>>
  PROVE  IInv'
<1>1. TypeOK /\ Flags BY DEF IInv
<1>2. lists' \in [Slots -> Entries] /\ lists'[Main] = Idle BY <1>1, OwnEntries, ListChange
<1>3. /\ active' = s /\ inspector' = s /\ shown' = {} /\ card' = FALSE /\ strayed' = FALSE
      /\ pending' = pending
      /\ \/ loading' = TRUE /\ at' = "history" /\ target' = s
         \/ loading' = FALSE /\ at' = "idle" /\ target' = target
  BY DEF Continue, View, Clear
<1>4. TypeOK'
  <2>1. loading' \in BOOLEAN /\ card' \in BOOLEAN /\ at' \in Points BY <1>3, Zenon DEF Points
  <2>2. active' \in Sessions \cup {None} /\ inspector' \in Sessions \cup {None}
        /\ target' \in Sessions \cup {None} /\ shown' \subseteq Sessions
    BY <1>1, <1>3 DEF TypeOK
  <2> QED BY <1>1, <1>2, <1>3, <2>1, <2>2 DEF TypeOK, Entries
<1>5. Flags' BY <1>1, <1>2, <1>3 DEF Flags, Chatting
<1>6. Returning' BY <1>1, <1>3, Unasked DEF Returning, Flags
<1> QED BY <1>3, <1>4, <1>5, <1>6, Moving DEF Chatting

(* Elsewhere the list the page waited for unlocks it, and no other touches *)
(* what it waits for.                                                      *)
LEMMA Delivered ==
  ASSUME TypeOK, Flags, NEW l \in Slots, lists[l] # Idle, lists' = [lists EXCEPT ![l] = Idle],
         listed' \subseteq Sessions, UNCHANGED <<last, failed, content, tries, dialog, server>>,
         strayed' \in BOOLEAN, active' \in Sessions \cup {None}, inspector' \in Sessions \cup {None},
         shown' \subseteq Sessions, card' \in BOOLEAN,
         \/ l = Main /\ at = "relisting" /\ Unlock
         \/ ~(l = Main /\ at \in {"starting", "relisting"}) /\ UNCHANGED <<flags, at, target>>
  PROVE  TypeOK' /\ Flags'
<1>1. /\ lists' \in [Slots -> Entries]
      /\ lists'[Main] = IF l = Main THEN Idle ELSE lists[Main]
  BY OwnEntries, ListChange
<1>2. CASE l = Main /\ at = "relisting" /\ Unlock
  <2>1. pending' = FALSE /\ at' = "idle" /\ UNCHANGED <<loading, target>> BY <1>2 DEF Unlock
  <2>2. TypeOK' BY <1>1, <2>1 DEF TypeOK, Points, Entries
  <2>3. Flags' BY <1>1, <1>2, <2>1 DEF Flags, Chatting
  <2> QED BY <2>2, <2>3
<1>3. CASE ~(l = Main /\ at \in {"starting", "relisting"}) /\ UNCHANGED <<flags, at, target>>
  <2>1. l # Main BY <1>3 DEF Flags
  <2>2. TypeOK' BY <1>1, <1>3 DEF TypeOK, Entries
  <2>3. Flags' BY <1>1, <1>3, <2>1 DEF Flags, Chatting
  <2> QED BY <2>2, <2>3
<1> QED BY <1>2, <1>3

LEMMA ListStep ==
  ASSUME IInv, NEW l \in Slots, ListEnds(l)
  PROVE  IInv'
<1>1. TypeOK /\ Flags /\ ShownIsActive BY DEF IInv
<1>2. CASE Reply(l)
  <2> DEFINE v == [state |-> "answered", reply |-> exists]
  <2>1. /\ lists[l] = Sent /\ lists' = [lists EXCEPT ![l] = v]
        /\ UNCHANGED <<flags, page, chat, listed, dialog, at, target, server, strayed>>
    BY <1>2 DEF Reply
  <2>2. v \in Entries BY <1>1 DEF TypeOK, Entries
  <2>3. v # Idle /\ Sent # Idle
    <3>1. v.state = "answered" BY Zenon
    <3>2. Idle.state = "idle" BY DEF Idle
    <3>3. Sent # Idle BY OwnEntries
    <3> QED BY <3>1, <3>2, <3>3
  <2> HIDE DEF v
  <2>4. lists' \in [Slots -> Entries] /\ lists'[Main] = IF l = Main THEN v ELSE lists[Main]
    BY <1>1, <2>1, <2>2, ListChange
  <2>5. TypeOK' BY <1>1, <2>1, <2>4 DEF TypeOK, Entries
  <2>6. Flags' BY <1>1, <2>1, <2>3, <2>4 DEF Flags, Chatting
  <2> QED BY <2>1, <2>5, <2>6, Undisturbed
<1>3. ASSUME UNCHANGED <<page, card>> PROVE /\ active' \in Sessions \cup {None} /\ inspector' \in Sessions \cup {None}
                                            /\ shown' \subseteq Sessions /\ card' \in BOOLEAN /\ strayed' \in BOOLEAN
  BY <1>1, <1>3 DEF TypeOK
<1>4. ASSUME Look(l) PROVE /\ active' \in Sessions \cup {None} /\ inspector' \in Sessions \cup {None}
                           /\ shown' \subseteq Sessions /\ card' \in BOOLEAN /\ strayed' \in BOOLEAN
  BY <1>1, <1>4 DEF TypeOK, Look, Clear
<1>5. CASE ListArrives(l)
  <2>1. /\ lists[l].state = "answered" /\ lists' = [lists EXCEPT ![l] = Idle] /\ listed' = lists[l].reply
        /\ UNCHANGED <<last, failed, content, tries, dialog, server>>
    BY <1>5 DEF ListArrives
  <2>2. lists[l] # Idle /\ listed' \subseteq Sessions BY <1>1, <2>1 DEF TypeOK, Idle
  <2>3. CASE l = Main /\ at = "starting"
    <3>1. Continue(IF Gone(l) THEN None ELSE active) BY <1>5, <2>3 DEF ListArrives
    <3>2. (IF Gone(l) THEN None ELSE active) \in Sessions \cup {None} BY <1>1 DEF TypeOK
    <3> QED BY <2>1, <2>2, <2>3, <3>1, <3>2, StartingContinues
  <2>4. CASE l = Main /\ at = "relisting"
    <3>1. Look(l) /\ Unlock BY <1>5, <2>4 DEF ListArrives
    <3>2. TypeOK' /\ Flags' BY <1>1, <1>4, <2>1, <2>2, <2>4, <3>1, Delivered
    <3>3. at' = "idle" /\ at \notin Chatting BY <2>4, <3>1 DEF Unlock, Chatting
    <3> QED BY <2>1, <3>1, <3>2, <3>3, Looking
  <2>5. CASE ~(l = Main /\ at \in {"starting", "relisting"})
    <3>1. Look(l) /\ UNCHANGED <<flags, at, target>> BY <1>5, <2>5 DEF ListArrives
    <3>2. TypeOK' /\ Flags' BY <1>1, <1>4, <2>1, <2>2, <2>5, <3>1, Delivered
    <3>3. UNCHANGED <<content, tries, last, dialog>> /\ at' = at /\ target' = target BY <2>1, <3>1
    <3> QED BY <3>1, <3>2, <3>3, Looking
  <2> QED BY <2>3, <2>4, <2>5
<1>6. CASE ListFails(l)
  <2>1. /\ lists[l] = Sent /\ lists' = [lists EXCEPT ![l] = Idle] /\ listed' = listed
        /\ UNCHANGED <<last, failed, content, tries, dialog, server>>
    BY <1>6 DEF ListFails
  <2>2. lists[l] # Idle /\ listed' \subseteq Sessions BY <1>1, <2>1, OwnEntries DEF TypeOK
  <2>3. CASE l = Main /\ at = "starting"
    <3>1. Continue(active) BY <1>6, <2>3 DEF ListFails
    <3>2. active \in Sessions \cup {None} BY <1>1 DEF TypeOK
    <3> QED BY <2>1, <2>2, <2>3, <3>1, <3>2, StartingContinues
  <2>4. CASE l = Main /\ at = "relisting"
    <3>1. Unlock /\ UNCHANGED <<page, card>> BY <1>6, <2>4 DEF ListFails
    <3>2. TypeOK' /\ Flags' BY <1>1, <1>3, <2>1, <2>2, <2>4, <3>1, Delivered
    <3>3. Returning' BY <2>1, <3>1 DEF IInv, Returning, Unlock
    <3> QED BY <2>1, <2>4, <3>1, <3>2, <3>3, Moving DEF Unlock, Chatting
  <2>5. CASE ~(l = Main /\ at \in {"starting", "relisting"})
    <3>1. UNCHANGED <<flags, page, card, at, target>> BY <1>6, <2>5 DEF ListFails
    <3>2. TypeOK' /\ Flags' BY <1>1, <1>3, <2>1, <2>2, <2>5, <3>1, Delivered
    <3> QED BY <2>1, <3>1, <3>2, Undisturbed
  <2> QED BY <2>3, <2>4, <2>5
<1> QED BY <1>2, <1>5, <1>6 DEF ListEnds

LEMMA BackendStep ==
  ASSUME IInv, BackendChanges
  PROVE  IInv'
<1>1. TypeOK /\ Flags BY DEF IInv
<1>2. UNCHANGED <<flags, page, chat, listed, dialog, at, target, lists, used, strayed>>
  BY DEF BackendChanges
<1>3. exists' \subseteq Sessions BY <1>1 DEF BackendChanges, TypeOK
<1>4. TypeOK' BY <1>1, <1>2, <1>3 DEF TypeOK
<1>5. Flags' BY <1>1, <1>2 DEF Flags, Chatting
<1> QED BY <1>2, <1>4, <1>5, Undisturbed

LEMMA InvariantStep == IInv /\ [Next]_vars => IInv'
<1> SUFFICES ASSUME IInv, [Next]_vars PROVE IInv'
  OBVIOUS
<1>1. CASE Send \/ Retry \/ Name \/ Delta \/ Stop BY <1>1, RequestStep
<1>2. CASE ChatEnds BY <1>2, RequestEnds
<1>3. CASE (\E s \in Sessions : Open(s)) \/ NewChat \/ Refresh \/ Question \/ Dismiss \/ Confirm
  BY <1>3, UserStep
<1>4. CASE SessionsEnd BY <1>4, SessionsStep
<1>5. CASE \E l \in Slots : ListEnds(l) BY <1>5, ListStep
<1>6. CASE BackendChanges BY <1>6, BackendStep
<1>7. CASE UNCHANGED vars
  BY <1>7 DEF vars, IInv, TypeOK, Flags, Aimed, Returning, ShownIsActive
<1> QED BY <1>1, <1>2, <1>3, <1>4, <1>5, <1>6, <1>7 DEF Next

LEMMA Invariant == Spec => []IInv
BY InvariantStarts, InvariantStep, PTL DEF Spec

-----------------------------------------------------------------------------
(* The results.                                                            *)

(* The controls are locked exactly while a handler runs, and a message is  *)
(* sent at most twice (runtime-state.js:143, requests.js:252).             *)
THEOREM PageIsSound == Spec => []PageSound
<1>1. IInv => PageSound
  BY DEF IInv, PageSound, OneAtATime, Flags, Chatting, TypeOK, Points
<1> QED BY Invariant, <1>1, PTL

(* What the page shows is of the session it is at, or of the request under *)
(* way, except after a retry elsewhere or answers without a session, until *)
(* the page is cleared (composer.js:135, sessions.js:270, requests.js:330).*)
THEOREM ShownBelongs == Spec => []ShownIsActive
BY Invariant, PTL DEF IInv

(* While the page has a session, the session a request, a history or a     *)
(* reset ends with is that one, or the request is a retry elsewhere.       *)
LEMMA EndsWhereItBegan ==
  ASSUME IInv, active # None
  PROVE  /\ at \in Chatting /\ ~Elsewhere => target = active
         /\ at = "streaming" /\ ~Elsewhere => Or(inspector, active) = active
         /\ at = "resetting" => target = active
<1>1. Aimed /\ Returning BY DEF IInv
<1>2. at \in Chatting /\ ~Elsewhere => target = active
  BY <1>1 DEF Aimed, Elsewhere, Chatting
<1>3. at = "streaming" /\ ~Elsewhere => Or(inspector, active) = active
  BY <1>1, <1>2 DEF Aimed, Or, Chatting
<1> QED BY <1>1, <1>2, <1>3 DEF Returning

(* Nothing but the user, a list without it or a retry elsewhere takes the  *)
(* active session from the page (sessions.js:341-364, requests.js:62,      *)
(* :309).                                                                  *)
THEOREM ConversationsAreKept == Spec => ConversationKept
<1>1. IInv /\ [Next]_vars => [active # None /\ active' # active => Takes]_vars
  <2> SUFFICES ASSUME IInv, Next, active # None, ~Takes PROVE active' = active
    BY DEF vars
  <2>1. ~Elsewhere BY DEF Takes
  <2>2. CASE Send \/ Retry BY <2>2 DEF Send, Retry, Begin
  <2>3. CASE Name \/ Delta BY <2>3 DEF Name, Delta
  <2>4. CASE Stop BY <2>1, <2>4, EndsWhereItBegan DEF Stop
  <2>5. CASE ChatEnds
    <3>1. CASE Answer
      BY <2>1, <3>1, EndsWhereItBegan DEF Answer, Finalize, Or, Chatting
    <3>2. CASE EndsShort BY <2>1, <3>2, EndsWhereItBegan DEF EndsShort, Finalize
    <3>3. CASE Breaks \/ PostFails BY <3>3 DEF Breaks, PostFails, FallBack, Fail
    <3> QED BY <2>5, <3>1, <3>2, <3>3 DEF ChatEnds
  <2>6. CASE (\E s \in Sessions : Open(s)) \/ NewChat BY <2>6 DEF Takes
  <2>7. CASE Refresh \/ Question \/ Dismiss \/ Confirm
    BY <2>7 DEF Refresh, Question, Dismiss, Confirm
  <2>8. CASE SessionsEnd
    <3>1. CASE ResetDone BY <3>1, EndsWhereItBegan DEF ResetDone, View, Clear
    <3>2. CASE HistoryEnds \/ RereadEnds \/ ChangeFails
      BY <3>2 DEF HistoryEnds, RereadEnds, ChangeFails
    <3>3. CASE DeleteDone BY <3>3 DEF Takes
    <3> QED BY <2>8, <3>1, <3>2, <3>3 DEF SessionsEnd
  <2>9. CASE \E l \in Slots : ListEnds(l)
    <3>1. PICK l \in Slots : ListEnds(l) BY <2>9
    <3>2. CASE Reply(l) BY <3>2 DEF Reply
    <3>3. CASE ListArrives(l)
      <4>1. ~Gone(l) BY <3>3 DEF Takes, Gone
      <4> QED BY <3>3, <4>1 DEF ListArrives, Continue, View, Clear, Look
    <3>4. CASE ListFails(l) BY <3>4 DEF ListFails, Continue, View, Clear
    <3> QED BY <3>1, <3>2, <3>3, <3>4 DEF ListEnds
  <2>10. CASE BackendChanges BY <2>10 DEF BackendChanges
  <2> QED BY <2>2, <2>3, <2>4, <2>5, <2>6, <2>7, <2>8, <2>9, <2>10 DEF Next
<1> QED BY Invariant, <1>1, PTL DEF Spec, ConversationKept, Takes
=============================================================================
