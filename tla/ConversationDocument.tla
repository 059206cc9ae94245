------------------------ MODULE ConversationDocument ------------------------
(***************************************************************************)
(* The workflow-state document of one session, as the session service      *)
(* shapes it (backend/app/session/lifecycle.py).  Of the JSON document the *)
(* properties tell apart the conversation, reduced to who spoke in which   *)
(* turn, and workflow.current_step; texts, timestamps and summaries are    *)
(* left out.                                                               *)
(***************************************************************************)
EXTENDS Naturals, Sequences

CONSTANT Turns      \* the chat turns: one per call of handle_chat or stream_chat

Message == [role : {"user", "assistant"}, turn : Turns]

Steps == {"none", "responding", "answered", "cancelled", "failed"}

Document == [messages : Seq(Message), step : Steps]

EmptyDocument == [messages |-> << >>, step |-> "none"]

UserMessage(t) == [role |-> "user", turn |-> t]

AssistantMessage(t) == [role |-> "assistant", turn |-> t]

(* The draft a turn works on: a deep copy of what was loaded, with the     *)
(* incoming user message appended.                                         *)
PrepareForChat(doc, t) ==
  [messages |-> Append(doc.messages, UserMessage(t)), step |-> "responding"]

(* A completed turn appends the assistant's message to its draft.          *)
Answered(draft, t) ==
  [messages |-> Append(draft.messages, AssistantMessage(t)), step |-> "answered"]

(* An interrupted or a failed stream keeps its draft, the user message     *)
(* included, and marks the step: how is "cancelled" or "failed".           *)
Closed(draft, how) == [messages |-> draft.messages, step |-> how]

Mentions(doc, m) == \E i \in 1 .. Len(doc.messages) : doc.messages[i] = m

(* Both messages of an answered turn are in the conversation.              *)
HoldsExchange(doc, t) ==
  Mentions(doc, UserMessage(t)) /\ Mentions(doc, AssistantMessage(t))
=============================================================================
