---------------------------- MODULE MCToolCalls ----------------------------
(* A stream of a read-only tool, tried again only before its first event;  *)
(* a write without an idempotency key, which is not tried again; and a     *)
(* destructive tool, which the profile refuses.                            *)
EXTENDS ToolCallsProps

Call(op, safety) == [op |-> op, safety |-> safety, keyed |-> FALSE]

ReadWriteOrDestroy ==
  {Call("stream", "read_only"), Call("execute", "write"), Call("execute", "destructive")}
=============================================================================
