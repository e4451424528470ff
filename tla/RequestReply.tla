---------------------------- MODULE RequestReply ----------------------------
(***************************************************************************)
(* What a RoboClient method promises its caller, free of sockets, buffers  *)
(* and threads: a request is executed at most once, a call returns only    *)
(* after its own request was executed, and it returns the answer to that   *)
(* request.  A call may stay pending for ever.                             *)
(***************************************************************************)
EXTENDS Integers

VARIABLES
  phase,      \* "idle", "called" or "executed"
  calls,      \* number of calls made
  executions, \* number of requests the server has begun to execute
  answered    \* the call that the last returned answer belongs to

vars == <<phase, calls, executions, answered>>

Init ==
  /\ phase = "idle"
  /\ calls = 0
  /\ executions = 0
  /\ answered = 0

Call ==
  /\ phase = "idle"
  /\ phase' = "called"
  /\ calls' = calls + 1
  /\ UNCHANGED <<executions, answered>>

Execute ==
  /\ phase = "called"
  /\ phase' = "executed"
  /\ executions' = executions + 1
  /\ UNCHANGED <<calls, answered>>

Return ==
  /\ phase = "executed"
  /\ phase' = "idle"
  /\ answered' = calls
  /\ UNCHANGED <<calls, executions>>

Next == Call \/ Execute \/ Return

Spec == Init /\ [][Next]_vars

=============================================================================
