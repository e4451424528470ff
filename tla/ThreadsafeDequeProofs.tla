------------------------ MODULE ThreadsafeDequeProofs ------------------------
(***************************************************************************)
(* Proofs about ThreadsafeDeque, for any finite number of producers and    *)
(* consumers, any set of operations and any number of pushes.              *)
(***************************************************************************)
EXTENDS ThreadsafeDeque, SequenceTheorems, FiniteSetTheorems, TLAPS

-----------------------------------------------------------------------------
(***************************************************************************)
(* The inductive invariant.                                                *)
(***************************************************************************)

\* The mutex is held by the thread that is in a critical section; only producers
\* notify, and only consumers in wait_pop_back() sleep.
Placed ==
  /\ owner = {t \in Threads : pc[t] \in {"inside", "notifying"}}
  /\ \A t \in Threads :
       /\ pc[t] = "notifying" => t \in Producers
       /\ pc[t] \in {"asleep", "woken"} => t \in Consumers /\ op[t] = "wait"
       /\ pc[t] # "idle" => (op[t] = "push" <=> t \in Producers)

IInv == TypeOK /\ Placed /\ NoLostWakeup

\* The sets that NoLostWakeup counts are finite.
LEMMA Counted ==
  /\ IsFiniteSet(Awake) /\ IsFiniteSet(Notifying)
  /\ Cardinality(Awake) \in Nat /\ Cardinality(Notifying) \in Nat
<1>1. Awake \subseteq Threads /\ Notifying \subseteq Threads
  BY DEF Awake, Notifying, Threads
<1> QED BY <1>1, DequeAssumption, FS_Subset, FS_CardinalityType

\* The same after a step.
LEMMA CountedNext ==
  /\ IsFiniteSet(Awake') /\ IsFiniteSet(Notifying')
  /\ Cardinality(Awake') \in Nat /\ Cardinality(Notifying') \in Nat
<1>1. Awake' \subseteq Threads /\ Notifying' \subseteq Threads
  BY DEF Awake, Notifying, Threads
<1> QED BY <1>1, DequeAssumption, FS_Subset, FS_CardinalityType

\* A step that adds no message, puts nobody to sleep and takes nobody off its way
\* keeps every message attended to.
LEMMA StillAttended ==
  ASSUME NoLostWakeup, data_deque' = data_deque, Sleepers' \subseteq Sleepers,
         Awake \subseteq Awake', Notifying \subseteq Notifying'
  PROVE  NoLostWakeup'
<1>1. /\ Cardinality(Awake) <= Cardinality(Awake')
      /\ Cardinality(Notifying) <= Cardinality(Notifying')
  BY Counted, CountedNext, FS_Subset
<1> QED BY <1>1, Counted, CountedNext DEF NoLostWakeup

\* The initial state.
LEMMA InvInit == Init => IInv
<1> SUFFICES ASSUME Init PROVE IInv
  OBVIOUS
<1>1. TypeOK
  BY DequeAssumption, EmptySeq DEF Init, TypeOK, Null
<1>2. Placed
  BY DEF Init, Placed
<1>3. Sleepers = {}
  BY DEF Init, Sleepers, Threads
<1>4. NoLostWakeup
  BY <1>3 DEF NoLostWakeup
<1> QED BY <1>1, <1>2, <1>4 DEF IInv

\* A call only moves a thread from outside the class to the mutex.
LEMMA CallInv ==
  ASSUME IInv, NEW t \in Threads, NEW o \in {"push", "wait", "try", "empty"},
         o = "push" <=> t \in Producers, Call(t, o)
  PROVE  IInv'
<1> USE DEF IInv
<1>1. TypeOK'
  BY DEF Call, TypeOK
<1>2. Placed'
  BY DEF Call, TypeOK, Placed
<1>3. /\ Sleepers' \subseteq Sleepers /\ Awake \subseteq Awake'
      /\ Notifying \subseteq Notifying' /\ data_deque' = data_deque
  BY DEF Call, TypeOK, Sleepers, Awake, Notifying, Threads
<1>4. NoLostWakeup'
  BY <1>3, StillAttended
<1> QED BY <1>1, <1>2, <1>4

\* Taking the mutex takes no waiter off its way.
LEMMA LockInv ==
  ASSUME IInv, NEW t \in Threads, Lock(t)
  PROVE  IInv'
<1> USE DEF IInv
<1>1. TypeOK'
  BY DEF Lock, TypeOK
<1>2. Placed'
  BY DEF Lock, TypeOK, Placed
<1>3. /\ Sleepers' \subseteq Sleepers /\ Awake \subseteq Awake'
      /\ Notifying \subseteq Notifying' /\ data_deque' = data_deque
  BY DEF Lock, TypeOK, Sleepers, Awake, Notifying, Threads
<1>4. NoLostWakeup'
  BY <1>3, StillAttended
<1> QED BY <1>1, <1>2, <1>4

\* A push adds one message, and the producer that will wake somebody for it.
LEMMA PushInv ==
  ASSUME IInv, NEW t \in Threads, Push(t)
  PROVE  IInv'
<1> USE DEF IInv
<1>1. TypeOK'
  BY DequeAssumption DEF Push, TypeOK
<1>2. Placed'
  BY DEF Push, TypeOK, Placed
<1>3. t \in Producers /\ t \notin Notifying /\ t \notin Consumers
  BY DequeAssumption DEF Push, Placed, Notifying
<1>4. /\ Sleepers' = Sleepers /\ Awake' = Awake
      /\ Notifying' = Notifying \cup {t}
  BY <1>3 DEF Push, TypeOK, Sleepers, Awake, Notifying, Threads
<1>5. Cardinality(Notifying') = Cardinality(Notifying) + 1
  BY <1>3, <1>4, Counted, FS_AddElement
<1>6. Len(data_deque') = Len(data_deque) + 1 /\ Len(data_deque) \in Nat
  BY DEF Push, TypeOK
<1>7. NoLostWakeup'
  BY <1>4, <1>5, <1>6, Counted DEF NoLostWakeup
<1> QED BY <1>1, <1>2, <1>7

\* notify_one() replaces the producer by the sleeper that it wakes.
LEMMA NotifyInv ==
  ASSUME IInv, NEW t \in Threads, Notify(t)
  PROVE  IInv'
<1> USE DEF IInv
<1>1. t \in Producers /\ t \in Notifying /\ t \notin Consumers /\ owner = {t}
  BY DequeAssumption DEF Notify, TypeOK, Placed, Notifying
<1>2. CASE Sleepers = {}
  <2>1. TypeOK'
    BY <1>1, <1>2 DEF Notify, Leave, TypeOK
  <2>2. Placed'
    BY <1>1, <1>2 DEF Notify, Leave, TypeOK, Placed
  <2>3. Sleepers' = {}
    BY <1>1, <1>2 DEF Notify, Leave, TypeOK, Sleepers, Threads
  <2> QED BY <2>1, <2>2, <2>3 DEF NoLostWakeup
<1>3. ASSUME NEW s \in Sleepers, owner' = owner \ {t},
             pc' = [pc EXCEPT ![t] = "idle", ![s] = "woken"]
      PROVE  IInv'
  <2>1. s \in Consumers /\ s # t /\ op[s] = "wait" /\ s \notin Awake /\ s \in Threads
    BY <1>1 DEF Sleepers, Awake, Placed, Threads
  <2>2. UNCHANGED <<data_deque, pushed, op, result, given>>
    BY DEF Notify
  <2>3. TypeOK'
    BY <1>1, <1>3, <2>1, <2>2 DEF TypeOK
  <2>4. Placed'
    <3>1. /\ pc'[t] = "idle" /\ pc'[s] = "woken"
          /\ \A u \in Threads : u # t /\ u # s => pc'[u] = pc[u]
      BY <1>3, <2>1 DEF TypeOK
    <3>2. \A u \in Threads : u # t => pc[u] \notin {"inside", "notifying"}
      BY <1>1 DEF Placed
    <3>3. owner' = {}
      BY <1>1, <1>3
    <3>4. \A u \in Threads : pc'[u] \notin {"inside", "notifying"}
      <4> TAKE u \in Threads
      <4>1. CASE u = t
        BY <3>1, <4>1
      <4>2. CASE u = s
        BY <3>1, <4>2
      <4>3. CASE u # t /\ u # s
        BY <3>1, <3>2, <4>3
      <4> QED BY <4>1, <4>2, <4>3
    <3>5. owner' = {u \in Threads : pc'[u] \in {"inside", "notifying"}}
      BY <3>3, <3>4
    <3>6. ASSUME NEW u \in Threads
          PROVE  /\ pc'[u] = "notifying" => u \in Producers
                 /\ pc'[u] \in {"asleep", "woken"} => u \in Consumers /\ op'[u] = "wait"
                 /\ pc'[u] # "idle" => (op'[u] = "push" <=> u \in Producers)
      <4>1. op' = op
        BY <2>2
      <4>2. CASE u = t
        BY <3>1, <4>2
      <4>3. CASE u = s
        <5>1. s \notin Producers
          BY <2>1, DequeAssumption
        <5> QED BY <2>1, <3>1, <4>1, <4>3, <5>1
      <4>4. CASE u # t /\ u # s
        <5>1. pc'[u] = pc[u]
          BY <3>1, <4>4
        <5> QED BY <4>1, <5>1 DEF Placed
      <4> QED BY <4>2, <4>3, <4>4
    <3> QED BY <3>5, <3>6 DEF Placed
  <2>5. /\ Sleepers' = Sleepers \ {s} /\ Awake' = Awake \cup {s}
        /\ Notifying' = Notifying \ {t}
    BY <1>1, <1>3, <2>1, <2>2, DequeAssumption
       DEF TypeOK, Sleepers, Awake, Notifying, Threads
  <2>6. Cardinality(Awake') = Cardinality(Awake) + 1
    BY <2>1, <2>5, Counted, FS_AddElement
  <2>7. Cardinality(Notifying') = Cardinality(Notifying) - 1
    BY <1>1, <2>5, Counted, FS_RemoveElement
  <2>8. NoLostWakeup'
    BY <1>3, <2>2, <2>5, <2>6, <2>7, Counted DEF NoLostWakeup
  <2> QED BY <2>3, <2>4, <2>8
<1> QED BY <1>2, <1>3 DEF Notify

\* A thread goes to sleep only beside an empty deque.
LEMMA SleepInv ==
  ASSUME IInv, NEW t \in Threads, Sleep(t)
  PROVE  IInv'
<1> USE DEF IInv
<1>1. TypeOK'
  BY DEF Sleep, Leave, TypeOK
<1>2. t \in Consumers /\ owner = {t}
  BY DEF Sleep, TypeOK, Placed, Threads
<1>3. Placed'
  BY <1>2 DEF Sleep, Leave, TypeOK, Placed
<1>4. data_deque' = <<>> /\ Len(<<>>) = 0
  BY DEF Sleep
<1>5. NoLostWakeup'
  BY <1>4, CountedNext DEF NoLostWakeup
<1> QED BY <1>1, <1>3, <1>5

\* A spurious wake-up only adds a waiter that is on its way.
LEMMA WakeInv ==
  ASSUME IInv, NEW t \in Consumers, WakeSpuriously(t)
  PROVE  IInv'
<1> USE DEF IInv
<1>1. TypeOK'
  BY DEF WakeSpuriously, TypeOK
<1>2. Placed'
  BY DEF WakeSpuriously, TypeOK, Placed, Threads
<1>3. /\ Sleepers' \subseteq Sleepers /\ Awake \subseteq Awake'
      /\ Notifying \subseteq Notifying' /\ data_deque' = data_deque
  BY DEF WakeSpuriously, TypeOK, Placed, Sleepers, Awake, Notifying, Threads
<1>4. NoLostWakeup'
  BY <1>3, StillAttended
<1> QED BY <1>1, <1>2, <1>4

\* Whoever takes a message, woken for it or not, takes one message and is one
\* waiter.
LEMMA PopBackInv ==
  ASSUME IInv, NEW t \in Threads, PopBack(t)
  PROVE  IInv'
<1> USE DEF IInv
<1>1. /\ t \in Consumers /\ owner = {t}
      /\ Len(data_deque) \in Nat /\ Len(data_deque) > 0
  BY EmptySeq, LenProperties DEF PopBack, TypeOK, Placed, Threads
<1>2. /\ SubSeq(data_deque, 1, Len(data_deque) - 1) \in Seq(Nat \ {0})
      /\ Len(data_deque') <= Len(data_deque) - 1
      /\ data_deque[Len(data_deque)] \in Nat
  <2>1. \A i \in 1 .. Len(data_deque) : data_deque[i] \in Nat \ {0}
    BY ElementOfSeq DEF TypeOK
  <2>2. \A i \in 1 .. Len(data_deque) - 1 : data_deque[i] \in Nat \ {0}
    BY <1>1, <2>1
  <2>3. /\ SubSeq(data_deque, 1, Len(data_deque) - 1) \in Seq(Nat \ {0})
        /\ Len(SubSeq(data_deque, 1, Len(data_deque) - 1)) =
             IF 1 <= Len(data_deque) - 1 THEN Len(data_deque) - 1 - 1 + 1 ELSE 0
    BY <1>1, <2>2, SubSeqProperties
  <2>4. data_deque' = SubSeq(data_deque, 1, Len(data_deque) - 1)
    BY DEF PopBack
  <2>5. Len(data_deque') <= Len(data_deque) - 1
    <3>1. ASSUME NEW n \in Nat, n > 0
          PROVE  (IF 1 <= n - 1 THEN n - 1 - 1 + 1 ELSE 0) <= n - 1
      BY <3>1
    <3> QED BY <1>1, <2>3, <2>4, <3>1, Zenon
  <2>6. data_deque[Len(data_deque)] \in Nat
    BY <1>1, <2>1
  <2> QED BY <2>3, <2>5, <2>6
<1>a. given' \in Seq(Nat)
  <2>1. ASSUME NEW s \in Seq(Nat), NEW k \in Nat
        PROVE  [s EXCEPT ![k] = @ + 1] \in Seq(Nat)
    <3>1. CASE k \in 1 .. Len(s)
      <4>1. s[k] + 1 \in Nat
        BY <3>1, ElementOfSeq
      <4>2. [s EXCEPT ![k] = s[k] + 1] \in Seq(Nat)
        BY <3>1, <4>1, ExceptSeq, Zenon
      <4> QED BY <4>2
    <3>2. CASE k \notin 1 .. Len(s)
      <4>1. s = [i \in 1 .. Len(s) |-> s[i]]
        BY SeqDef
      <4>2. [s EXCEPT ![k] = s[k] + 1] = s
        BY <3>2, <4>1, Zenon
      <4> QED BY <4>2
    <3> QED BY <3>1, <3>2
  <2>2. given \in Seq(Nat)
    BY DEF TypeOK
  <2> QED BY <1>2, <2>1, <2>2, Zenon DEF PopBack
<1>b. UNCHANGED <<pushed, op>>
  BY DEF PopBack
<1>c. /\ data_deque' \in Seq(Nat \ {0}) /\ pc' = [pc EXCEPT ![t] = "idle"] /\ owner' = {}
      /\ result' \in [Consumers -> Int]
  BY <1>1, <1>2 DEF PopBack, Leave, TypeOK
<1>3. TypeOK'
  BY <1>a, <1>b, <1>c DEF TypeOK
<1>4. Placed'
  BY <1>1 DEF PopBack, Leave, TypeOK, Placed
<1>5. /\ Sleepers' \subseteq Sleepers /\ Awake \ {t} \subseteq Awake'
      /\ Notifying \subseteq Notifying'
  BY <1>1 DEF PopBack, Leave, TypeOK, Sleepers, Awake, Notifying, Threads
<1>6. Cardinality(Awake) - 1 <= Cardinality(Awake')
  <2>1. IsFiniteSet(Awake \ {t}) /\ Cardinality(Awake) - 1 <= Cardinality(Awake \ {t})
    BY Counted, FS_RemoveElement
  <2>2. Cardinality(Awake \ {t}) <= Cardinality(Awake') /\ Cardinality(Awake \ {t}) \in Nat
    BY <2>1, <1>5, CountedNext, FS_Subset, FS_CardinalityType
  <2> QED BY <2>1, <2>2, Counted, CountedNext
<1>7. Cardinality(Notifying) <= Cardinality(Notifying')
  BY <1>5, CountedNext, FS_Subset
<1>8. NoLostWakeup'
  BY <1>1, <1>2, <1>5, <1>6, <1>7, Counted, CountedNext DEF NoLostWakeup
<1> QED BY <1>3, <1>4, <1>8

\* try_pop_back() that finds nothing, and empty(), only report.
LEMMA ReportInv ==
  ASSUME IInv, NEW t \in Threads, TryFindsNothing(t) \/ Empty(t)
  PROVE  IInv'
<1> USE DEF IInv
<1>a. UNCHANGED <<data_deque, pushed, op, given>>
  BY DEF TryFindsNothing, Empty
<1>b. /\ pc' = [pc EXCEPT ![t] = "idle"] /\ owner' = owner \ {t}
      /\ result' \in [Consumers -> Int]
  BY DEF TryFindsNothing, Empty, Leave, TypeOK, Null, Yes, No
<1>1. TypeOK'
  BY <1>a, <1>b DEF TypeOK
<1>2. t \in Consumers /\ owner = {t}
  BY DEF TryFindsNothing, Empty, TypeOK, Placed, Threads
<1>3. Placed'
  BY <1>2 DEF TryFindsNothing, Empty, Leave, TypeOK, Placed
<1>4. /\ Sleepers' \subseteq Sleepers /\ Awake \subseteq Awake'
      /\ Notifying \subseteq Notifying' /\ data_deque' = data_deque
  BY <1>2 DEF TryFindsNothing, Empty, Leave, TypeOK, Sleepers, Awake, Notifying,
              Threads
<1>5. NoLostWakeup'
  BY <1>4, StillAttended
<1> QED BY <1>1, <1>3, <1>5

\* Every step keeps the inductive invariant.
LEMMA InvNext == IInv /\ [Next]_vars => IInv'
<1> SUFFICES ASSUME IInv, [Next]_vars PROVE IInv'
  OBVIOUS
<1>1. ASSUME NEW t \in Producers, CallPush(t) PROVE IInv'
  BY <1>1, CallInv DEF CallPush, Threads
<1>2. ASSUME NEW t \in Consumers, NEW o \in ConsumerOps, Call(t, o) PROVE IInv'
  <2>1. t \in Threads /\ t \notin Producers /\ o \in {"wait", "try", "empty"}
    BY DequeAssumption DEF Threads
  <2>2. o # "push"
    BY <2>1
  <2> QED BY <1>2, <2>1, <2>2, CallInv
<1>3. ASSUME NEW t \in Threads, Lock(t) PROVE IInv'
  BY <1>3, LockInv
<1>4. ASSUME NEW t \in Threads, Step(t) PROVE IInv'
  BY <1>4, PushInv, NotifyInv, SleepInv, PopBackInv, ReportInv DEF Step
<1>5. ASSUME NEW t \in Consumers, WakeSpuriously(t) PROVE IInv'
  BY <1>5, WakeInv
<1>6. CASE UNCHANGED vars
  BY <1>6 DEF vars, IInv, TypeOK, Placed, NoLostWakeup, Sleepers, Awake, Notifying
<1> QED BY <1>1, <1>2, <1>3, <1>4, <1>5, <1>6 DEF Next

-----------------------------------------------------------------------------
(***************************************************************************)
(* The theorems.                                                           *)
(***************************************************************************)

\* The inductive invariant holds in every reachable state.
LEMMA Invariant == Spec => []IInv
BY InvInit, InvNext, PTL DEF Spec

\* For any finite set of threads and any number of pushes, the variables hold
\* values of their types and the mutex has at most one owner.
THEOREM TypeCorrect == Spec => []TypeOK
<1>1. IInv => TypeOK
  BY DEF IInv
<1> QED BY <1>1, Invariant, PTL

\* For any finite set of threads: one notify_one() for each push_back() is
\* enough.  No interleaving, with spurious wake-ups and with consumers that take
\* a message before the one woken for it, leaves a message in the deque with a
\* consumer asleep and nobody up to take it.
THEOREM NoLostWakeupHolds == Spec => []NoLostWakeup
<1>1. IInv => NoLostWakeup
  BY DEF IInv
<1> QED BY <1>1, Invariant, PTL

\* The initial state of the deque is one of the store.
LEMMA StoreInit == Init => Store!Init
BY DEF Init, Store!Init

\* Every step of a thread is one operation of the store, or none.
LEMMA StoreNext == IInv /\ [Next]_vars => [Store!Next]_Store!vars
<1> SUFFICES ASSUME IInv, [Next]_vars PROVE [Store!Next]_Store!vars
  OBVIOUS
<1>1. ASSUME NEW t \in Threads, op[t] \in {"wait", "try", "empty"}, pc[t] # "idle"
      PROVE  t \in Consumers
  BY <1>1 DEF IInv, Placed, Threads
<1>2. ASSUME NEW t \in Producers, CallPush(t) PROVE UNCHANGED Store!vars
  BY <1>2 DEF CallPush, Call, Store!vars
<1>3. ASSUME NEW t \in Consumers, NEW o \in ConsumerOps, Call(t, o)
      PROVE  UNCHANGED Store!vars
  BY <1>3 DEF Call, Store!vars
<1>4. ASSUME NEW t \in Threads, Lock(t) \/ Notify(t) \/ Sleep(t)
      PROVE  UNCHANGED Store!vars
  BY <1>4 DEF Lock, Notify, Sleep, Store!vars
<1>5. ASSUME NEW t \in Consumers, WakeSpuriously(t) PROVE UNCHANGED Store!vars
  BY <1>5 DEF WakeSpuriously, Store!vars
<1>6. ASSUME NEW t \in Threads, Push(t) PROVE Store!Next
  BY <1>6 DEF Push, Store!Next, Store!Put
<1>7. ASSUME NEW t \in Threads, PopBack(t) PROVE Store!Next
  <2>1. t \in Consumers
    BY <1>1, <1>7 DEF PopBack
  <2>2. Store!TakeNewest(t)
    BY <1>7 DEF PopBack, Store!TakeNewest
  <2> QED BY <2>1, <2>2 DEF Store!Next
<1>8. ASSUME NEW t \in Threads, TryFindsNothing(t) PROVE Store!Next
  <2>1. t \in Consumers
    BY <1>1, <1>8 DEF TryFindsNothing
  <2>2. Store!FindNothing(t)
    BY <1>8 DEF TryFindsNothing, Store!FindNothing
  <2> QED BY <2>1, <2>2 DEF Store!Next
<1>9. ASSUME NEW t \in Threads, Empty(t) PROVE Store!Next
  <2>1. t \in Consumers
    BY <1>1, <1>9 DEF Empty
  <2>2. Store!AskEmpty(t)
    BY <1>9 DEF Empty, Store!AskEmpty
  <2> QED BY <2>1, <2>2 DEF Store!Next
<1>10. CASE UNCHANGED vars
  BY <1>10 DEF vars, Store!vars
<1> QED BY <1>2, <1>3, <1>4, <1>5, <1>6, <1>7, <1>8, <1>9, <1>10 DEF Next, Step

\* The locked deque of any number of threads implements the store of a single
\* step for each operation.
THEOREM Refinement == Spec => ImplementsLifoStore
BY StoreInit, StoreNext, Invariant, PTL DEF Spec, ImplementsLifoStore, Store!Spec

-----------------------------------------------------------------------------
(***************************************************************************)
(* GivenOnce speaks only of what the store holds and gave, so that it is   *)
(* enough to look at the steps of the store.                               *)
(***************************************************************************)

\* The deque holds the numbers of pushed messages in increasing order, and no number
\* that a consumer holds.
Fresh ==
  /\ Len(given) = pushed
  /\ \A i \in 1 .. Len(data_deque) : data_deque[i] <= pushed
  /\ \A i, j \in 1 .. Len(data_deque) : i < j => data_deque[i] < data_deque[j]
  /\ \A c \in Consumers : result[c] <= pushed
  /\ \A c \in Consumers, i \in 1 .. Len(data_deque) : result[c] # data_deque[i]
  /\ GivenOnce

LEMMA FreshInit == Init => Fresh
<1> SUFFICES ASSUME Init PROVE Fresh
  OBVIOUS
<1>1. \A i \in 1 .. Len(data_deque) : FALSE
  BY EmptySeq DEF Init
<1>2. \A c \in Consumers : result[c] = 0
  BY DEF Init, Null
<1>3. pushed = 0 /\ Len(given) = 0
  BY DEF Init
<1> QED BY <1>1, <1>2, <1>3 DEF Fresh, GivenOnce

LEMMA FreshNext == TypeOK /\ Fresh /\ [Store!Next]_Store!vars => Fresh'
<1> SUFFICES ASSUME TypeOK, Fresh, [Store!Next]_Store!vars PROVE Fresh'
  OBVIOUS
<1>1. /\ data_deque \in Seq(Nat \ {0}) /\ Len(data_deque) \in Nat /\ pushed \in Nat
      /\ \A i \in 1 .. Len(data_deque) : data_deque[i] \in Nat \ {0}
      /\ result \in [Consumers -> Int] /\ given \in Seq(Nat) /\ Len(given) = pushed
  BY ElementOfSeq, LenProperties DEF TypeOK, Fresh
<1>2. CASE Store!Put
  <2>1. /\ pushed' = pushed + 1 /\ result' = result
        /\ Len(data_deque') = Len(data_deque) + 1
        /\ data_deque'[Len(data_deque) + 1] = pushed + 1
        /\ \A i \in 1 .. Len(data_deque) : data_deque'[i] = data_deque[i]
    BY <1>1, <1>2, AppendProperties DEF Store!Put
  <2>2. \A i \in 1 .. Len(data_deque') :
          \/ i \in 1 .. Len(data_deque) /\ data_deque'[i] = data_deque[i]
          \/ i = Len(data_deque) + 1 /\ data_deque'[i] = pushed + 1
    BY <1>1, <2>1
  <2>a. /\ \A i \in 1 .. Len(data_deque) : data_deque[i] <= pushed
        /\ \A c \in Consumers : result[c] <= pushed
        /\ \A c \in Consumers, i \in 1 .. Len(data_deque) : result[c] # data_deque[i]
    BY DEF Fresh
  <2>b. pushed \in Nat
    BY <1>1
  <2>3. ASSUME NEW i \in 1 .. Len(data_deque')
        PROVE  data_deque'[i] <= pushed'
    <3>1. CASE i \in 1 .. Len(data_deque) /\ data_deque'[i] = data_deque[i]
      <4>1. data_deque[i] <= pushed /\ data_deque[i] \in Nat
        BY <1>1, <2>a, <3>1
      <4> QED BY ONLY <3>1, <4>1, <2>1, <2>b
    <3>2. CASE data_deque'[i] = pushed + 1
      BY ONLY <3>2, <2>1, <2>b
    <3> QED BY <2>2, <3>1, <3>2
  <2>4. ASSUME NEW i \in 1 .. Len(data_deque'), NEW j \in 1 .. Len(data_deque'), i < j
        PROVE  data_deque'[i] < data_deque'[j]
    <3>1. i \in 1 .. Len(data_deque) /\ data_deque'[i] = data_deque[i]
      BY <1>1, <2>1, <2>4
    <3>2. CASE j \in 1 .. Len(data_deque) /\ data_deque'[j] = data_deque[j]
      BY <2>4, <3>1, <3>2 DEF Fresh
    <3>3. CASE data_deque'[j] = pushed + 1
      <4>1. data_deque[i] <= pushed /\ data_deque[i] \in Nat
        BY <1>1, <3>1 DEF Fresh
      <4> QED BY <1>1, <3>1, <3>3, <4>1
    <3> QED BY <2>2, <3>2, <3>3
  <2>5. \A c \in Consumers : result'[c] <= pushed'
    BY <1>1, <2>1 DEF Fresh
  <2>6. ASSUME NEW c \in Consumers, NEW i \in 1 .. Len(data_deque')
        PROVE  result'[c] # data_deque'[i]
    <3>1. result'[c] = result[c] /\ result[c] <= pushed /\ result[c] \in Int
      BY <1>1, <2>1, <2>a
    <3>2. CASE i \in 1 .. Len(data_deque) /\ data_deque'[i] = data_deque[i]
      BY <2>a, <3>1, <3>2
    <3>3. CASE data_deque'[i] = pushed + 1
      BY ONLY <3>1, <3>3, <2>b
    <3> QED BY <2>2, <3>2, <3>3
  <2>7. /\ Len(given') = pushed' /\ given'[pushed + 1] = 0
        /\ \A m \in 1 .. pushed : given'[m] = given[m]
    BY <1>1, <1>2, AppendProperties DEF Store!Put
  <2>8. ASSUME NEW m \in 1 .. pushed'
        PROVE  given'[m] = IF \E i \in 1 .. Len(data_deque') : data_deque'[i] = m
                             THEN 0 ELSE 1
    <3>1. CASE m = pushed + 1
      <4>1. Len(data_deque) + 1 \in 1 .. Len(data_deque')
        BY <1>1, <2>1
      <4> QED BY <2>1, <2>7, <3>1, <4>1
    <3>2. CASE m \in 1 .. pushed
      <4>1. m # pushed + 1
        BY <1>1, <3>2
      <4>2. \A i \in 1 .. Len(data_deque) : i \in 1 .. Len(data_deque')
        BY <1>1, <2>1
      <4>3. (\E i \in 1 .. Len(data_deque') : data_deque'[i] = m)
              <=> \E i \in 1 .. Len(data_deque) : data_deque[i] = m
        BY <2>1, <2>2, <4>1, <4>2, Zenon
      <4>4. given[m] = IF \E i \in 1 .. Len(data_deque) : data_deque[i] = m THEN 0 ELSE 1
        BY <3>2 DEF Fresh, GivenOnce
      <4> QED BY <2>7, <3>2, <4>3, <4>4
    <3> QED BY <1>1, <2>1, <3>1, <3>2
  <2>9. \A c, d \in Consumers : c # d /\ result'[c] > 0 => result'[c] # result'[d]
    BY <2>1 DEF Fresh, GivenOnce
  <2>10. GivenOnce'
    BY <2>8, <2>9, Zenon DEF GivenOnce
  <2> QED BY <2>3, <2>4, <2>5, <2>6, <2>7, <2>10 DEF Fresh
<1>3. ASSUME NEW c \in Consumers, Store!TakeNewest(c) PROVE Fresh'
  <2>1. Len(data_deque) > 0
    BY <1>1, <1>3, EmptySeq DEF Store!TakeNewest
  <2>2. /\ Len(data_deque') = Len(data_deque) - 1 /\ Len(data_deque') \in Nat
        /\ \A i \in 1 .. Len(data_deque') : data_deque'[i] = data_deque[i]
    <3> DEFINE n == Len(data_deque) - 1
    <3>1. n \in Int /\ \A i \in 1 .. n : data_deque[i] \in Nat \ {0}
      BY <1>1
    <3> HIDE DEF n
    <3>2. /\ SubSeq(data_deque, 1, n) \in Seq(Nat \ {0})
          /\ Len(SubSeq(data_deque, 1, n)) = (IF 1 <= n THEN n - 1 + 1 ELSE 0)
          /\ \A i \in 1 .. n - 1 + 1 : SubSeq(data_deque, 1, n)[i] = data_deque[1 + i - 1]
      BY <3>1, SubSeqProperties
    <3>3. data_deque' = SubSeq(data_deque, 1, n)
      BY <1>3 DEF Store!TakeNewest, n
    <3>4. n >= 0
      BY <1>1, <2>1 DEF n
    <3>5. /\ Len(data_deque') = n /\ Len(data_deque') \in Nat
          /\ \A i \in 1 .. n : data_deque'[i] = data_deque[i]
      BY <3>1, <3>2, <3>3, <3>4
    <3>6. \A i \in 1 .. Len(data_deque') : i \in 1 .. n
      BY <3>1, <3>5
    <3> QED BY <3>5, <3>6 DEF n
  <2>3. /\ pushed' = pushed
        /\ result'[c] = data_deque[Len(data_deque)]
        /\ \A d \in Consumers : d # c => result'[d] = result[d]
    BY <1>1, <1>3 DEF Store!TakeNewest
  <2>4. \A i \in 1 .. Len(data_deque') :
          data_deque[i] < data_deque[Len(data_deque)] /\ i \in 1 .. Len(data_deque)
    BY <1>1, <2>1, <2>2 DEF Fresh
  <2>5. Len(data_deque) \in 1 .. Len(data_deque)
    BY <1>1, <2>1
  <2>6. /\ \A i \in 1 .. Len(data_deque') : data_deque'[i] <= pushed'
        /\ \A i, j \in 1 .. Len(data_deque') : i < j => data_deque'[i] < data_deque'[j]
    BY <2>2, <2>3, <2>4 DEF Fresh
  <2>7. \A d \in Consumers : result'[d] <= pushed'
    BY <2>3, <2>5 DEF Fresh
  <2>8. ASSUME NEW d \in Consumers, NEW i \in 1 .. Len(data_deque')
        PROVE  result'[d] # data_deque'[i]
    <3>1. CASE d = c
      BY <1>1, <2>2, <2>3, <2>4, <2>5, <3>1
    <3>2. CASE d # c
      BY <2>2, <2>3, <2>4, <3>2 DEF Fresh
    <3> QED BY <3>1, <3>2
  <2>9. ASSUME NEW d \in Consumers, NEW e \in Consumers, d # e, result'[d] > 0
        PROVE  result'[d] # result'[e]
    <3>1. \A x \in Consumers : result[x] # data_deque[Len(data_deque)]
      BY <2>5 DEF Fresh
    <3>2. CASE d # c /\ e # c
      BY <2>3, <2>9, <3>2 DEF Fresh, GivenOnce
    <3>3. CASE d = c \/ e = c
      BY <2>3, <2>9, <3>1, <3>3
    <3> QED BY <3>2, <3>3
  <2> DEFINE last == data_deque[Len(data_deque)]
  <2>10. last \in 1 .. pushed
    BY <1>1, <2>5 DEF Fresh
  <2>11. /\ Len(given') = pushed'
         /\ \A m \in 1 .. pushed : given'[m] = IF m = last THEN given[m] + 1 ELSE given[m]
    <3>1. given' = [given EXCEPT ![last] = @ + 1]
      BY <1>3 DEF Store!TakeNewest
    <3> HIDE DEF last
    <3> QED BY <1>1, <2>3, <2>10, <3>1
  <2>12. ASSUME NEW m \in 1 .. pushed'
         PROVE  given'[m] = IF \E i \in 1 .. Len(data_deque') : data_deque'[i] = m
                              THEN 0 ELSE 1
    <3>1. m \in 1 .. pushed
      BY <2>3
    <3>2. given[m] = IF \E i \in 1 .. Len(data_deque) : data_deque[i] = m THEN 0 ELSE 1
      BY <3>1 DEF Fresh, GivenOnce
    <3>3. CASE m = last
      <4>1. given[m] = 0
        BY <2>5, <3>2, <3>3
      <4>2. \A i \in 1 .. Len(data_deque') : data_deque'[i] # m
        BY <1>1, <2>2, <2>4, <2>5, <3>3
      <4>3. given'[m] = 1
        BY <2>11, <3>1, <3>3, <4>1
      <4> QED BY <4>2, <4>3
    <3>4. CASE m # last
      <4>1. \A i \in 1 .. Len(data_deque) : i \in 1 .. Len(data_deque') \/ i = Len(data_deque)
        BY <1>1, <2>2
      <4>2. (\E i \in 1 .. Len(data_deque') : data_deque'[i] = m)
              <=> \E i \in 1 .. Len(data_deque) : data_deque[i] = m
        BY <2>2, <2>4, <3>4, <4>1, Zenon
      <4>3. given'[m] = given[m]
        BY <2>11, <3>1, <3>4
      <4> QED BY <3>2, <4>2, <4>3
    <3> QED BY <3>3, <3>4
  <2>13. GivenOnce'
    BY <2>9, <2>12, Zenon DEF GivenOnce
  <2> QED BY <2>6, <2>7, <2>8, <2>11, <2>13 DEF Fresh
<1>4. ASSUME NEW c \in Consumers, Store!FindNothing(c) \/ Store!AskEmpty(c) PROVE Fresh'
  <2>1. /\ UNCHANGED <<pushed, data_deque, given>>
        /\ result'[c] <= 0 /\ result'[c] \in Int
        /\ \A d \in Consumers : d # c => result'[d] = result[d]
    BY <1>1, <1>4 DEF Store!FindNothing, Store!AskEmpty, Null, Yes, No
  <2> QED BY <1>1, <2>1, SMTT(30) DEF Fresh, GivenOnce
<1>5. CASE UNCHANGED Store!vars
  BY <1>5 DEF Store!vars, Fresh, GivenOnce
<1> QED BY <1>2, <1>3, <1>4, <1>5 DEF Store!Next

\* For any finite set of threads: every message that was pushed is in the deque or
\* has been given once, none lost and none given to two consumers.
THEOREM GivenOnceHolds == Spec => []GivenOnce
<1>1. IInv => TypeOK
  BY DEF IInv
<1>2. Fresh => GivenOnce
  BY DEF Fresh
<1> QED BY <1>1, <1>2, FreshInit, FreshNext, StoreNext, Invariant, PTL DEF Spec

=============================================================================
