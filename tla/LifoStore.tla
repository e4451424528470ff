------------------------------ MODULE LifoStore ------------------------------
(***************************************************************************)
(* What ThreadsafeDeque promises its users, free of mutex and condition    *)
(* variable: an atomic store that gives the newest of its messages, each   *)
(* of them once, and that says it is empty only when it is.                *)
(***************************************************************************)
EXTENDS Integers, Sequences

CONSTANTS
  Consumers, \* the threads that take messages out
  Null,      \* the null pointer that try_pop_back() returns
  Yes, No    \* the answers of empty()

VARIABLES
  puts,      \* number of messages put into the store so far
  content,   \* the numbers of the messages in the store, newest last
  answer,    \* the last answer each consumer was given
  given      \* how many times each message was given to a consumer

vars == <<puts, content, answer, given>>

Init ==
  /\ puts = 0
  /\ content = <<>>
  /\ answer = [c \in Consumers |-> Null]
  /\ given = <<>>

Put ==
  /\ puts' = puts + 1
  /\ content' = Append(content, puts + 1)
  /\ given' = Append(given, 0)
  /\ UNCHANGED answer

TakeNewest(c) ==
  /\ content # <<>>
  /\ answer' = [answer EXCEPT ![c] = content[Len(content)]]
  /\ given' = [given EXCEPT ![content[Len(content)]] = @ + 1]
  /\ content' = SubSeq(content, 1, Len(content) - 1)
  /\ UNCHANGED puts

FindNothing(c) ==
  /\ content = <<>>
  /\ answer' = [answer EXCEPT ![c] = Null]
  /\ UNCHANGED <<puts, content, given>>

AskEmpty(c) ==
  /\ answer' = [answer EXCEPT ![c] = IF content = <<>> THEN Yes ELSE No]
  /\ UNCHANGED <<puts, content, given>>

Next ==
  \/ Put
  \/ \E c \in Consumers : TakeNewest(c) \/ FindNothing(c) \/ AskEmpty(c)

Spec == Init /\ [][Next]_vars

=============================================================================
