------------------------------ MODULE AuditLog ------------------------------
(***************************************************************************)
(* What the audit trail of the API promises to the services that write to  *)
(* it (audit.service.ts, "Bitacora append-only"): the log is a sequence of  *)
(* events that only grows at its end, a call to record() contributes its   *)
(* event at most once, and a call that reports success has contributed it. *)
(* Nothing here speaks of locks, hashes or transactions: AuditChain does,  *)
(* and implements this module.                                             *)
(***************************************************************************)
EXTENDS Sequences

CONSTANTS
  Calls,        \* the calls of AuditService.record
  PayloadOf     \* the event each call is asked to record

VARIABLES
  log,          \* the events recorded so far, oldest first
  status        \* how far each call has got

vars == <<log, status>>

Status == {"none", "pending", "appended", "returned", "dropped"}

Init ==
  /\ log = << >>
  /\ status = [c \in Calls |-> "none"]

Move(c, from, to) ==
  /\ status[c] = from
  /\ status' = [status EXCEPT ![c] = to]

Request(c) == Move(c, "none", "pending") /\ UNCHANGED log

Record(c) ==
  /\ Move(c, "pending", "appended")
  /\ log' = Append(log, PayloadOf[c])

Drop(c) == Move(c, "pending", "dropped") /\ UNCHANGED log

Confirm(c) == Move(c, "appended", "returned") /\ UNCHANGED log

Next == \E c \in Calls : Request(c) \/ Record(c) \/ Drop(c) \/ Confirm(c)

Spec == Init /\ [][Next]_vars
=============================================================================
