----------------------------- MODULE FifoChannel -----------------------------
(***************************************************************************)
(* What one direction of the connection promises the two ends, free of     *)
(* bytes, frames and buffers: a message that was sent is delivered whole,  *)
(* once, and after the ones that were sent before it.  Message is the set  *)
(* of what can be delivered.  A message may stay under way for ever.       *)
(***************************************************************************)
EXTENDS Sequences

CONSTANT Message

VARIABLES
  channel,  \* the messages under way, oldest first
  delivered \* the messages delivered so far

vars == <<channel, delivered>>

Init ==
  /\ channel = <<>>
  /\ delivered = <<>>

Send(msg) ==
  /\ channel' = Append(channel, msg)
  /\ UNCHANGED delivered

Deliver ==
  /\ channel # <<>>
  /\ delivered' = Append(delivered, Head(channel))
  /\ channel' = Tail(channel)

Next == (\E msg \in Message : Send(msg)) \/ Deliver

Spec == Init /\ [][Next]_vars

=============================================================================
