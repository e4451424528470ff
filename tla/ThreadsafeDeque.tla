--------------------------- MODULE ThreadsafeDeque ---------------------------
(***************************************************************************)
(* ThreadsafeDeque<T>: a std::deque, a std::mutex and a std::              *)
(* condition_variable.  The io thread of an endpoint pushes decoded        *)
(* messages; the GUI thread or the process thread waits for them.  The     *)
(* module allows any number of both, as the class does, and all of its     *)
(* operations: push_back, wait_pop_back, try_pop_back, empty.              *)
(***************************************************************************)
EXTENDS Integers, Sequences, FiniteSets

CONSTANTS
  Producers,   \* threads that call push_back()
  Consumers,   \* threads that call the operations in ConsumerOps
  ConsumerOps, \* a subset of {"wait", "try", "empty"}
  MaxPushes    \* bound: calls of push_back() in a behaviour

Threads == Producers \cup Consumers

\* What an operation returns beside a message, which is a positive number.
Null == 0
Yes == -1
No == -2

ASSUME DequeAssumption ==
  /\ IsFiniteSet(Threads)
  /\ Producers \cap Consumers = {}
  /\ ConsumerOps \subseteq {"wait", "try", "empty"}
  /\ MaxPushes \in Nat

VARIABLES
  data_deque, \* the messages, numbered in the order of their push_back()
  pushed,     \* number of push_back() calls that have stored their message
  owner,      \* the threads that hold the mutex mut: none or one
  pc,         \* where each thread is
  op,         \* the operation each thread is in, or was in last
  result,     \* what each consumer was given last
  given       \* history: how many times each message was given to a consumer

vars == <<data_deque, pushed, owner, pc, op, result, given>>

(***************************************************************************)
(* pc: "idle" outside of the class, "locking" blocked on mut at the start  *)
(* of an operation, "asleep" in data_cond.wait() and "woken" from it and   *)
(* blocked on mut again, "inside" the critical section, and "notifying"    *)
(* there after the push.                                                   *)
(***************************************************************************)
Sleepers == {t \in Consumers : pc[t] = "asleep"}
Notifying == {t \in Producers : pc[t] = "notifying"}

\* Waiters that have been through the wait, or need not go to sleep: they will
\* test the predicate again before they sleep.
Awake == {t \in Consumers : op[t] = "wait" /\ pc[t] \in {"woken", "inside"}}

Init ==
  /\ data_deque = <<>>
  /\ pushed = 0
  /\ owner = {}
  /\ pc = [t \in Threads |-> "idle"]
  /\ op = [t \in Threads |-> "none"]
  /\ result = [c \in Consumers |-> Null]
  /\ given = <<>>

Call(t, o) ==
  /\ pc[t] = "idle"
  /\ pc' = [pc EXCEPT ![t] = "locking"]
  /\ op' = [op EXCEPT ![t] = o]
  /\ UNCHANGED <<data_deque, pushed, owner, result, given>>

\* A broken Lock: an operation that forgets its lock_guard.
LockShared(t) ==
  /\ pc[t] \in {"locking", "woken"}
  /\ owner' = owner \cup {t}
  /\ pc' = [pc EXCEPT ![t] = "inside"]
  /\ UNCHANGED <<data_deque, pushed, op, result, given>>

\* lock_guard, unique_lock, and the re-acquisition inside wait().
Lock(t) ==
  /\ pc[t] \in {"locking", "woken"}
  /\ owner = {}
  /\ owner' = {t}
  /\ pc' = [pc EXCEPT ![t] = "inside"]
  /\ UNCHANGED <<data_deque, pushed, op, result, given>>

\* The end of a critical section of t: the lock is released.
Leave(t, where) ==
  /\ owner' = owner \ {t}
  /\ pc' = [pc EXCEPT ![t] = where]

\* push_back(): the new message goes to the back ...
Push(t) ==
  /\ pc[t] = "inside"
  /\ op[t] = "push"
  /\ pushed' = pushed + 1
  /\ data_deque' = Append(data_deque, pushed + 1)
  /\ given' = Append(given, 0)
  /\ pc' = [pc EXCEPT ![t] = "notifying"]
  /\ UNCHANGED <<owner, op, result>>

\* A broken Notify: the push forgets to notify when the deque was not empty.
NotifyOnlyFirst(t) ==
  /\ pc[t] = "notifying"
  /\ op' = op
  /\ IF Sleepers = {} \/ Len(data_deque) > 1
       THEN Leave(t, "idle")
       ELSE \E s \in Sleepers :
              /\ owner' = owner \ {t}
              /\ pc' = [pc EXCEPT ![t] = "idle", ![s] = "woken"]
  /\ UNCHANGED <<data_deque, pushed, result, given>>

\* ... and notify_one() wakes some sleeper, if there is one.
Notify(t) ==
  /\ pc[t] = "notifying"
  /\ op' = op
  /\ IF Sleepers = {}
       THEN Leave(t, "idle")
       ELSE \E s \in Sleepers :
              /\ owner' = owner \ {t}
              /\ pc' = [pc EXCEPT ![t] = "idle", ![s] = "woken"]
  /\ UNCHANGED <<data_deque, pushed, result, given>>

\* data_cond.wait() with nothing to take: the lock is released and the thread
\* put to sleep in one step.
Sleep(t) ==
  /\ pc[t] = "inside"
  /\ op[t] = "wait"
  /\ data_deque = <<>>
  /\ Leave(t, "asleep")
  /\ UNCHANGED <<data_deque, pushed, op, result, given>>

\* A condition variable may wake without a notification.
WakeSpuriously(t) ==
  /\ pc[t] = "asleep"
  /\ pc' = [pc EXCEPT ![t] = "woken"]
  /\ UNCHANGED <<data_deque, pushed, owner, op, result, given>>

\* A broken PopBack: a thread that was woken does not test the predicate, and
\* moves from the back of an empty deque.
PopBackUntested(t) ==
  /\ pc[t] = "inside"
  /\ op[t] \in {"wait", "try"}
  /\ result' = [result EXCEPT
                  ![t] = IF data_deque = <<>> THEN No ELSE data_deque[Len(data_deque)]]
  /\ data_deque' = SubSeq(data_deque, 1, Len(data_deque) - 1)
  /\ Leave(t, "idle")
  /\ UNCHANGED <<pushed, op, given>>

\* A broken PopBack: it takes two messages off and gives one.
PopBackTwice(t) ==
  /\ pc[t] = "inside"
  /\ op[t] \in {"wait", "try"}
  /\ data_deque # <<>>
  /\ result' = [result EXCEPT ![t] = data_deque[Len(data_deque)]]
  /\ given' = [given EXCEPT ![data_deque[Len(data_deque)]] = @ + 1]
  /\ data_deque' = SubSeq(data_deque, 1, Len(data_deque) - 2)
  /\ Leave(t, "idle")
  /\ UNCHANGED <<pushed, op>>

\* wait_pop_back() and try_pop_back() with something to take.
PopBack(t) ==
  /\ pc[t] = "inside"
  /\ op[t] \in {"wait", "try"}
  /\ data_deque # <<>>
  /\ result' = [result EXCEPT ![t] = data_deque[Len(data_deque)]]
  /\ given' = [given EXCEPT ![data_deque[Len(data_deque)]] = @ + 1]
  /\ data_deque' = SubSeq(data_deque, 1, Len(data_deque) - 1)
  /\ Leave(t, "idle")
  /\ UNCHANGED <<pushed, op>>

TryFindsNothing(t) ==
  /\ pc[t] = "inside"
  /\ op[t] = "try"
  /\ data_deque = <<>>
  /\ result' = [result EXCEPT ![t] = Null]
  /\ Leave(t, "idle")
  /\ UNCHANGED <<data_deque, pushed, op, given>>

Empty(t) ==
  /\ pc[t] = "inside"
  /\ op[t] = "empty"
  /\ result' = [result EXCEPT ![t] = IF data_deque = <<>> THEN Yes ELSE No]
  /\ Leave(t, "idle")
  /\ UNCHANGED <<data_deque, pushed, op, given>>

\* Pushes that have been called and have not stored their message yet.
Pushing == {p \in Producers : pc[p] \in {"locking", "inside"}}

CallPush(t) ==
  /\ pushed + Cardinality(Pushing) < MaxPushes
  /\ Call(t, "push")

\* The steps of an operation that has been called.
Step(t) ==
  \/ Push(t)
  \/ Notify(t)
  \/ Sleep(t)
  \/ PopBack(t)
  \/ TryFindsNothing(t)
  \/ Empty(t)

Next ==
  \/ \E t \in Producers : CallPush(t)
  \/ \E t \in Consumers, o \in ConsumerOps : Call(t, o)
  \/ \E t \in Threads : Lock(t) \/ Step(t)
  \/ \E t \in Consumers : WakeSpuriously(t)

Spec == Init /\ [][Next]_vars

\* A thread that runs goes on, and a free mutex that somebody wants is given to
\* one of them: not to each in its turn, which std::mutex does not promise.
Fairness ==
  /\ \A t \in Threads : WF_vars(Step(t))
  /\ WF_vars(\E t \in Threads : Lock(t))

FairSpec == Spec /\ Fairness

-----------------------------------------------------------------------------
(***************************************************************************)
(* Correctness.                                                            *)
(***************************************************************************)

\* The variables hold values of their types, and the mutex has one owner at most.
TypeOK ==
  /\ data_deque \in Seq(Nat \ {0})
  /\ pushed \in Nat
  /\ owner \in {{}} \cup {{t} : t \in Threads}
  /\ pc \in [Threads -> {"idle", "locking", "asleep", "woken", "inside", "notifying"}]
  /\ op \in [Threads -> {"none", "push", "wait", "try", "empty"}]
  /\ result \in [Consumers -> Int]
  /\ given \in Seq(Nat)

\* Whatever the interleaving, spurious wake-ups included: while a consumer
\* sleeps, every message in the deque has a waiter that is up and on its way to
\* it, or a producer that is about to wake one.  One notify_one() for each push
\* is enough although a consumer that never slept may take the message first.
NoLostWakeup ==
  Sleepers # {} =>
    Len(data_deque) <= Cardinality(Awake) + Cardinality(Notifying)

\* No message is lost or given twice: every one that was pushed is in the deque, or
\* has been given to one consumer, once; and no two consumers hold the same one.
GivenOnce ==
  /\ \A m \in 1 .. pushed :
       given[m] = IF \E i \in 1 .. Len(data_deque) : data_deque[i] = m THEN 0 ELSE 1
  /\ \A c, d \in Consumers : c # d /\ result[c] > 0 => result[c] # result[d]

\* Every operation is atomic: it looks as if the consumers used a store with no
\* lock and no wait in it.
Store == INSTANCE LifoStore WITH puts <- pushed, content <- data_deque, answer <- result

ImplementsLifoStore == Store!Spec

\* Consumers do not sleep for ever beside messages that nobody takes.
MessagesAreTaken ==
  (data_deque # <<>> /\ Sleepers # {}) ~> (data_deque = <<>> \/ Sleepers = {})

=============================================================================
