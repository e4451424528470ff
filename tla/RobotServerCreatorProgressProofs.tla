------------------ MODULE RobotServerCreatorProgressProofs ------------------
(***************************************************************************)
(* That a GUI thread which waits for an answer is never forgotten, and     *)
(* never set back: what AnsweredOrKnown of RobotServerCreator rests on,    *)
(* for every number of clients, robots, connections and restarts.          *)
(***************************************************************************)
EXTENDS RobotServerCreatorProofs

-----------------------------------------------------------------------------
(***************************************************************************)
(* The inductive invariant, beside IInv.                                   *)
(***************************************************************************)

\* A call that is waited for belongs to the client process that waits, in a
\* connection that was opened; one whose request is lost is known to be.
CallsOpen ==
  \A g \in Guis, k \in Connections :
    waiting[g] = k =>
      /\ owner[k] = g
      /\ place[k] \notin {"none", "gone"}
      /\ phase[k] # "none"
      /\ phase[k] = "lost" => ~is_alive_[k]

\* A list shows connections of its own process.
ListKept ==
  \A g \in Guis : \A k \in clients_[g] : owner[k] = g /\ place[k] \notin {"none", "gone"}

\* A connection that waits for accept does so at a robot that runs, and a backlog
\* holds none that has not reached the robot yet.
BacklogKept ==
  /\ \A k \in Connections : place[k] = "queued" =>
       /\ up[target[k]]
       /\ \E i \in 1 .. Len(backlog[target[k]]) : backlog[target[k]][i] = k
  /\ \A r \in Robots : \A i \in 1 .. Len(backlog[r]) :
       place[backlog[r][i]] \notin {"none", "connecting"}

\* A connection that was taken is in front of no server any more.
BornLeft ==
  \A k \in Connections : born[k] > 0 => place[k] \notin {"none", "connecting", "queued"}

Kept == CallsOpen /\ ListKept /\ BacklogKept /\ BornLeft

\* What a step may not do to a call.
NoneSetBack ==
  \A g \in Guis, k \in Connections :
    (waiting[g] = k /\ waiting'[g] = k /\ is_alive_'[k]) => NotSetBack(k)

-----------------------------------------------------------------------------
(***************************************************************************)
(* How far a call is.                                                      *)
(***************************************************************************)

\* A step that changes neither the call, nor its place, nor its robot's backlog.
LEMMA LeftAlone ==
  ASSUME TypeOK, NEW k \in Connections,
         place'[k] = place[k], phase'[k] = phase[k], target'[k] = target[k],
         place[k] = "queued" => /\ backlog'[target[k]] = backlog[target[k]]
                                /\ Len(backlog[target[k]]) \in Nat
  PROVE  NotSetBack(k)
PROOF
  <1>1. Left(k)' = Left(k)
    BY DEF Left
  <1>2. ASSUME place[k] = "queued", NEW i \in Turns(k)
        PROVE  \E j \in Turns(k)' :
                 /\ j <= i
                 /\ Len(backlog'[target[k]]) < Len(backlog[target[k]]) => j < i
    <2>1. i \in Turns(k)' /\ i \in Nat
      BY <1>2 DEF Turns
    <2>2. i <= i /\ ~(Len(backlog'[target[k]]) < Len(backlog[target[k]]))
      BY <1>2, <2>1
    <2> QED BY <2>1, <2>2
  <1> QED BY <1>1, <1>2 DEF NotSetBack

\* A call that is waited for in the backlog, and whose codec lives, has its request
\* under way and no answer.
LEMMA QueuedIsCalled ==
  ASSUME IInv, Kept, NEW g \in Guis, NEW k \in Connections,
         waiting[g] = k, place[k] \in {"queued", "connecting"}
  PROVE  /\ phase[k] \in {"called", "lost"}
         /\ is_alive_[k] => phase[k] = "called"
PROOF
  <1>1. born[k] \in Nat /\ ~(born[k] > 0)
    BY CreatorAssumption DEF CreatorAssumption, IInv, TypeOK, Kept, BornLeft
  <1>2. phase[k] \in {"none", "called", "lost", "executed", "answered"}
    BY DEF IInv, TypeOK
  <1>3. phase[k] \notin {"executed", "answered"}
    BY <1>1 DEF IInv, AnswersAreServed
  <1>4. phase[k] # "none" /\ (phase[k] = "lost" => ~is_alive_[k])
    BY DEF Kept, CallsOpen
  <1> QED BY <1>2, <1>3, <1>4

\* A connection that was opened, and the types of what belongs to it.
LEMMA Opened ==
  ASSUME IInv, NEW k \in Connections, k <= used \/ place[k] # "none"
  PROVE  /\ target[k] \in Robots
         /\ backlog[target[k]] \in Seq(1 .. used)
         /\ Len(backlog[target[k]]) \in Nat
PROOF
  <1>1. target[k] \in Robots
    BY DEF IInv, Addressed
  <1>2. backlog[target[k]] \in Seq(1 .. used)
    BY <1>1 DEF IInv, TypeOK
  <1> QED BY <1>1, <1>2, LenProperties

\* What waits in a backlog is a connection.
LEMMA InLine ==
  ASSUME IInv, NEW r \in Robots
  PROVE  /\ backlog[r] \in Seq(1 .. used) /\ Len(backlog[r]) \in Nat
         /\ \A i \in 1 .. Len(backlog[r]) :
              /\ backlog[r][i] \in Connections /\ backlog[r][i] <= used
              /\ target[backlog[r][i]] = r
PROOF
  <1>1. backlog[r] \in Seq(1 .. used) /\ used \in 0 .. MaxConnections
    BY DEF IInv, TypeOK
  <1>2. Len(backlog[r]) \in Nat /\ \A i \in 1 .. Len(backlog[r]) : backlog[r][i] \in 1 .. used
    BY <1>1, LenProperties, ElementOfSeq
  <1>3. \A i \in 1 .. Len(backlog[r]) : target[backlog[r][i]] = r
    BY DEF IInv, Addressed
  <1>4. \A k \in 1 .. used : k \in Connections /\ k <= used
    BY <1>1, CreatorAssumption DEF CreatorAssumption, Connections
  <1>5. \A i \in 1 .. Len(backlog[r]) : backlog[r][i] \in Connections /\ backlog[r][i] <= used
    BY ONLY <1>2, <1>4, Zenon
  <1> QED BY ONLY <1>1, <1>2, <1>3, <1>5, Zenon

\* What a list shows are connections.
LEMMA Listed ==
  ASSUME IInv
  PROVE  \A g \in Guis : \A k \in clients_[g] : k \in Connections
PROOF
  <1> QED BY CreatorAssumption DEF IInv, TypeOK, CreatorAssumption, Connections

\* A backlog to which a connection is added.
LEMMA AtTheEnd ==
  ASSUME NEW S, NEW s \in Seq(S), NEW e \in S
  PROVE  /\ Len(s) \in Nat /\ ~(Len(Append(s, e)) < Len(s))
         /\ \A i \in 1 .. Len(s) : i \in 1 .. Len(Append(s, e)) /\ Append(s, e)[i] = s[i]
         /\ \E i \in 1 .. Len(Append(s, e)) : Append(s, e)[i] = e
         /\ \A i \in 1 .. Len(Append(s, e)) : i \in 1 .. Len(s) \/ Append(s, e)[i] = e
PROOF
  <1>1. /\ Len(s) \in Nat
        /\ Len(Append(s, e)) = Len(s) + 1
        /\ \A i \in 1 .. Len(s) : Append(s, e)[i] = s[i]
        /\ Append(s, e)[Len(s) + 1] = e
    BY AppendProperties, LenProperties
  <1>2. Len(s) + 1 \in 1 .. Len(Append(s, e))
    BY <1>1
  <1>3. \A i \in 1 .. Len(Append(s, e)) : i \in 1 .. Len(s) \/ i = Len(s) + 1
    BY <1>1
  <1> QED BY <1>1, <1>2, <1>3

\* A connection that is closed in the backlog, or while it is served, is nearer to
\* the error that its codec will report.
LEMMA Closed ==
  ASSUME IInv, Kept, NEW g \in Guis, NEW k \in Connections, waiting[g] = k,
         place[k] \in {"queued", "served"}, place'[k] = "dropped", phase'[k] = phase[k]
  PROVE  NotSetBack(k)
PROOF
  <1>1. CASE phase[k] = "answered"
    <2>1. place[k] # "queued"
      BY <1>1, QueuedIsCalled
    <2>2. Left(k) = 0 /\ Left(k)' = 0
      BY <1>1 DEF Left
    <2> QED BY <2>1, <2>2 DEF NotSetBack
  <1>2. CASE phase[k] # "answered"
    <2>1. Left(k)' = 1 /\ Left(k) \in {2, 3, 4}
      BY <1>2 DEF Left
    <2> QED BY <2>1 DEF NotSetBack
  <1> QED BY <1>1, <1>2

-----------------------------------------------------------------------------
(***************************************************************************)
(* Steps.                                                                  *)
(***************************************************************************)

\* No connection was opened.
LEMMA InitKept == Init => Kept
PROOF
  <1> SUFFICES ASSUME Init PROVE Kept
    OBVIOUS
  <1>1. CallsOpen
    BY DEF Init, CallsOpen, Connections, None
  <1>2. ListKept
    BY DEF Init, ListKept
  <1>3. BacklogKept
    BY DEF Init, BacklogKept, Connections
  <1>4. BornLeft
    BY DEF Init, BornLeft, Connections
  <1> QED BY <1>1, <1>2, <1>3, <1>4 DEF Kept

\* A new process finds an empty backlog: nothing of the old one comes back.
LEMMA ServerStartsKeeps ==
  ASSUME IInv, Kept, NEW r \in Robots, ServerStarts(r)
  PROVE  Kept' /\ NoneSetBack
PROOF
  <1>a. CallsOpen /\ ListKept /\ BacklogKept /\ BornLeft /\ TypeOK
    BY DEF Kept, IInv
  <1>b. /\ UNCHANGED <<backlog, owner, target, place, phase, is_alive_, waiting, clients_, born>>
        /\ up' = [up EXCEPT ![r] = TRUE]
    BY DEF ServerStarts, connection, gui
  <1>1. CallsOpen' /\ ListKept' /\ BornLeft'
    BY <1>a, <1>b DEF CallsOpen, ListKept, BornLeft
  <1>2. BacklogKept'
    BY <1>a, <1>b DEF BacklogKept, TypeOK
  <1>3. NoneSetBack
    <2> SUFFICES ASSUME NEW k \in Connections, place[k] = "queued"
                 PROVE  Len(backlog[target[k]]) \in Nat
      BY <1>a, <1>b, LeftAlone DEF NoneSetBack
    <2> QED BY Opened
  <1> QED BY <1>1, <1>2, <1>3 DEF Kept

\* What waits in a backlog that dies, and what is served, is closed: nearer to the
\* error of its codec.
LEMMA ServerEndsKeeps ==
  ASSUME IInv, Kept, NEW r \in Robots, ServerEnds(r)
  PROVE  Kept' /\ NoneSetBack
PROOF
  <1>a. CallsOpen /\ ListKept /\ BacklogKept /\ BornLeft /\ TypeOK
    BY DEF Kept, IInv
  <1>b. UNCHANGED <<owner, target, phase, is_alive_, waiting, clients_, born>>
    BY DEF ServerEnds, gui
  <1>c. \A k \in Connections :
          place'[k] = IF target[k] = r /\ place[k] \in {"queued", "served"} THEN "dropped"
                      ELSE place[k]
    BY DEF ServerEnds
  <1>d. \A q \in Robots : /\ backlog'[q] = IF q = r THEN <<>> ELSE backlog[q]
                          /\ up'[q] = IF q = r THEN FALSE ELSE up[q]
    BY <1>a DEF ServerEnds, TypeOK
  <1>1. CallsOpen' /\ BornLeft'
    BY <1>a, <1>b, <1>c DEF CallsOpen, BornLeft
  <1>2. ListKept'
    BY <1>a, <1>b, <1>c, Listed DEF ListKept
  <1>3. BacklogKept'
    <2>1. ASSUME NEW k \in Connections, place'[k] = "queued"
          PROVE  /\ up'[target'[k]]
                 /\ \E i \in 1 .. Len(backlog'[target'[k]]) : backlog'[target'[k]][i] = k
      <3>1. place[k] = "queued" /\ target[k] # r
        BY <1>c, <2>1
      <3>2. target[k] \in Robots
        BY <3>1, Opened
      <3>3. /\ target'[k] = target[k] /\ backlog'[target[k]] = backlog[target[k]]
            /\ up'[target[k]] = up[target[k]]
        BY <1>b, <1>d, <3>1, <3>2
      <3>4. /\ up[target[k]]
            /\ \E i \in 1 .. Len(backlog[target[k]]) : backlog[target[k]][i] = k
        BY <1>a, <3>1 DEF BacklogKept
      <3> QED BY <3>3, <3>4
    <2>2. ASSUME NEW q \in Robots, NEW i \in 1 .. Len(backlog'[q])
          PROVE  place'[backlog'[q][i]] \notin {"none", "connecting"}
      <3>1. q # r /\ backlog'[q] = backlog[q]
        <4>1. CASE q = r
          <5>1. backlog'[q] = <<>>
            BY <1>d, <4>1
          <5> QED BY <2>2, <5>1
        <4>2. CASE q # r
          BY <1>d, <4>2
        <4> QED BY <4>1, <4>2
      <3>2. backlog[q][i] \in Connections
        BY <2>2, <3>1, InLine
      <3>3. place[backlog[q][i]] \notin {"none", "connecting"}
        BY <1>a, <2>2, <3>1 DEF BacklogKept
      <3>4. place'[backlog[q][i]] \in {place[backlog[q][i]], "dropped"}
        BY <1>c, <3>2
      <3> QED BY <3>1, <3>3, <3>4
    <2> QED BY <2>1, <2>2 DEF BacklogKept
  <1>4. NoneSetBack
    <2> SUFFICES ASSUME NEW g \in Guis, NEW k \in Connections, waiting[g] = k
                 PROVE  NotSetBack(k)
      BY DEF NoneSetBack
    <2>1. CASE target[k] = r /\ place[k] \in {"queued", "served"}
      <3>1. place'[k] = "dropped" /\ phase'[k] = phase[k]
        BY <1>b, <1>c, <2>1
      <3> QED BY <2>1, <3>1, Closed
    <2>2. CASE ~(target[k] = r /\ place[k] \in {"queued", "served"})
      <3>1. place'[k] = place[k] /\ phase'[k] = phase[k] /\ target'[k] = target[k]
        BY <1>b, <1>c, <2>2
      <3>2. ASSUME place[k] = "queued"
            PROVE  backlog'[target[k]] = backlog[target[k]] /\ Len(backlog[target[k]]) \in Nat
        BY <1>d, <2>2, <3>2, Opened
      <3> QED BY <1>a, <3>1, <3>2, LeftAlone
    <2> QED BY <2>1, <2>2
  <1> QED BY <1>1, <1>2, <1>3, <1>4 DEF Kept

\* The first of a backlog is taken, and served or closed; the turn of every other
\* comes nearer.
LEMMA NextAcceptKeeps ==
  ASSUME IInv, Kept, NEW r \in Robots, backlog[r] # <<>>, NextAccept(r),
         up' = up, target' = target, phase' = phase,
         \A j \in Connections :
           IF j = Head(backlog[r]) /\ place[j] = "queued"
           THEN place'[j] \in {"served", "dropped"}
           ELSE place'[j] = place[j]
  PROVE  /\ Head(backlog[r]) \in Connections
         /\ target[Head(backlog[r])] = r
         /\ place[Head(backlog[r])] \notin {"none", "connecting"}
         /\ BacklogKept'
         /\ \A g \in Guis, k \in Connections : waiting[g] = k => NotSetBack(k)
PROOF
  <1> DEFINE h == Head(backlog[r])
  <1>a. CallsOpen /\ ListKept /\ BacklogKept /\ BornLeft /\ TypeOK
    BY DEF Kept, IInv
  <1>b. /\ backlog[r] \in Seq(1 .. used) /\ backlog[r] # <<>>
    BY InLine
  <1>c. /\ h = backlog[r][1] /\ 1 \in 1 .. Len(backlog[r])
        /\ Len(Tail(backlog[r])) = Len(backlog[r]) - 1
        /\ \A i \in 1 .. Len(Tail(backlog[r])) :
             i + 1 \in 1 .. Len(backlog[r]) /\ Tail(backlog[r])[i] = backlog[r][i + 1]
    BY <1>b, HeadOfBacklog
  <1>d. \A j \in Connections :
           IF j = h /\ place[j] = "queued"
           THEN place'[j] \in {"served", "dropped"}
           ELSE place'[j] = place[j]
    OBVIOUS
  <1>e. \A q \in Robots : backlog'[q] = IF q = r THEN Tail(backlog[r]) ELSE backlog[q]
    BY <1>a DEF TypeOK, NextAccept
  <1> HIDE DEF h
  <1>1. h \in Connections /\ target[h] = r /\ place[h] \notin {"none", "connecting"}
    BY <1>a, <1>c, InLine DEF BacklogKept
  <1>f. Len(backlog[r]) \in Nat
    BY InLine
  <1>2. ASSUME NEW k \in Connections, k # h, target[k] = r,
               NEW i \in 1 .. Len(backlog[r]), backlog[r][i] = k
        PROVE  /\ i - 1 \in 1 .. Len(backlog'[r])
               /\ backlog'[r][i - 1] = k
    <2>1. backlog'[r] = Tail(backlog[r])
      BY <1>e
    <2>2. i \in Nat /\ i # 1
      BY <1>c, <1>2
    <2>3. i - 1 \in 1 .. Len(Tail(backlog[r])) /\ (i - 1) + 1 = i
      BY <1>c, <1>f, <2>2
    <2>4. Tail(backlog[r])[i - 1] = backlog[r][(i - 1) + 1]
      BY <1>c, <2>3
    <2> QED BY <1>2, <2>1, <2>3, <2>4
  <1>3. BacklogKept'
    <2>1. ASSUME NEW k \in Connections, place'[k] = "queued"
          PROVE  /\ up'[target'[k]]
                 /\ \E i \in 1 .. Len(backlog'[target'[k]]) : backlog'[target'[k]][i] = k
      <3>1. place[k] = "queued" /\ k # h
        BY <1>d, <2>1
      <3>a. target[k] \in Robots /\ target'[k] = target[k]
        BY <3>1, Opened
      <3>b. /\ up[target[k]]
            /\ \E i \in 1 .. Len(backlog[target[k]]) : backlog[target[k]][i] = k
        BY <1>a, <3>1, Zenon DEF BacklogKept
      <3>2. up'[target'[k]]
        BY <3>a, <3>b
      <3>3. PICK i \in 1 .. Len(backlog[target[k]]) : backlog[target[k]][i] = k
        BY <3>b, Zenon
      <3>4. CASE target[k] = r
        BY <1>2, <3>1, <3>a, <3>2, <3>3, <3>4
      <3>5. CASE target[k] # r
        <4>1. backlog'[target'[k]] = backlog[target[k]]
          BY <1>e, <3>a, <3>5, Zenon
        <4> QED BY <3>2, <3>3, <4>1, Zenon
      <3> QED BY <3>2, <3>4, <3>5
    <2>2. ASSUME NEW q \in Robots, NEW i \in 1 .. Len(backlog'[q])
          PROVE  place'[backlog'[q][i]] \notin {"none", "connecting"}
      <3>1. PICK n \in 1 .. Len(backlog[q]) : backlog'[q][i] = backlog[q][n]
        <4>1. CASE q = r
          BY <1>c, <1>e, <2>2, <4>1
        <4>2. CASE q # r
          <5>1. backlog'[q] = backlog[q]
            BY <1>e, <4>2, Zenon
          <5> QED BY <2>2, <5>1, Zenon
        <4> QED BY <4>1, <4>2
      <3>2. backlog[q][n] \in Connections
        BY InLine, Zenon
      <3>3. place[backlog[q][n]] \notin {"none", "connecting"}
        BY <1>a, Zenon DEF BacklogKept
      <3>4. place'[backlog[q][n]] \in {place[backlog[q][n]], "served", "dropped"}
        BY <1>d, <3>2
      <3> QED BY <3>1, <3>3, <3>4
    <2> QED BY <2>1, <2>2 DEF BacklogKept
  <1>4. ASSUME NEW g \in Guis, NEW k \in Connections, waiting[g] = k PROVE NotSetBack(k)
    <2>1. CASE k = h /\ place[k] = "queued"
      <3>1. phase[k] \in {"called", "lost"} /\ phase'[k] = phase[k]
        BY <1>4, <2>1, QueuedIsCalled
      <3>2. Left(k) = 4
        BY <2>1, <3>1 DEF Left
      <3>3. place'[k] \in {"served", "dropped"}
        BY <1>d, <2>1
      <3>4. Left(k)' \in {1, 3}
        BY <3>1, <3>3 DEF Left
      <3> QED BY <3>2, <3>4 DEF NotSetBack
    <2>2. CASE ~(k = h /\ place[k] = "queued")
      <3>1. place'[k] = place[k] /\ phase'[k] = phase[k] /\ target'[k] = target[k]
        BY <1>d, <2>2
      <3>2. CASE place[k] = "queued" /\ target[k] = r
        <4>1. k # h
          BY <2>2, <3>2
        <4>2. Left(k)' = Left(k)
          BY <3>1 DEF Left
        <4>3. ASSUME NEW i \in Turns(k)
              PROVE  i - 1 \in Turns(k)' /\ i - 1 <= i /\ i - 1 < i
          <5>1. i \in 1 .. Len(backlog[r]) /\ backlog[r][i] = k
            BY <3>2 DEF Turns
          <5>2. i - 1 \in 1 .. Len(backlog'[r]) /\ backlog'[r][i - 1] = k
            BY <1>2, <3>2, <4>1, <5>1
          <5>3. i \in Nat
            BY <5>1
          <5> QED BY <3>1, <3>2, <5>2, <5>3 DEF Turns
        <4> QED BY <4>2, <4>3 DEF NotSetBack
      <3>3. CASE ~(place[k] = "queued" /\ target[k] = r)
        <4>1. ASSUME place[k] = "queued"
              PROVE  backlog'[target[k]] = backlog[target[k]] /\ Len(backlog[target[k]]) \in Nat
          BY <1>e, <3>3, <4>1, Opened
        <4> QED BY <1>a, <3>1, <4>1, LeftAlone
      <3> QED BY <3>2, <3>3
    <2> QED BY <2>1, <2>2
  <1> QED BY <1>1, <1>3, <1>4 DEF h

\* The first connection of a process is taken from the head of its backlog.
LEMMA CreateKeeps ==
  ASSUME IInv, Kept, NEW r \in Robots, Create(r)
  PROVE  Kept' /\ NoneSetBack
PROOF
  <1> DEFINE h == Head(backlog[r])
  <1>a. CallsOpen /\ ListKept /\ BacklogKept /\ BornLeft /\ TypeOK
    BY DEF Kept, IInv
  <1>b. /\ UNCHANGED <<up, owner, target, phase, is_alive_, waiting, clients_>>
        /\ backlog[r] # <<>> /\ NextAccept(r)
        /\ place' = [place EXCEPT ![h] = IF @ = "queued" THEN "served" ELSE @]
        /\ born' = [born EXCEPT ![h] = starts[r]]
    BY DEF Create, gui
  <1>c. \A j \in Connections :
          place'[j] = IF j = h /\ place[j] = "queued" THEN "served" ELSE place[j]
    BY <1>a, <1>b DEF TypeOK
  <1>d. /\ h \in Connections /\ place[h] \notin {"none", "connecting"}
        /\ BacklogKept'
        /\ \A g \in Guis, k \in Connections : waiting[g] = k => NotSetBack(k)
    BY <1>b, <1>c, NextAcceptKeeps
  <1>e. \A j \in Connections : j # h => born'[j] = born[j]
    BY <1>a, <1>b DEF TypeOK
  <1> HIDE DEF h
  <1>1. CallsOpen'
    BY <1>a, <1>b, <1>c DEF CallsOpen
  <1>2. ListKept'
    BY <1>a, <1>b, <1>c, Listed DEF ListKept
  <1>3. BornLeft'
    BY <1>a, <1>c, <1>d, <1>e DEF BornLeft
  <1>4. NoneSetBack
    BY <1>d DEF NoneSetBack
  <1> QED BY <1>d, <1>1, <1>2, <1>3, <1>4 DEF Kept

\* Every other connection is closed at the head of the backlog.
LEMMA DropKeeps ==
  ASSUME IInv, Kept, NEW r \in Robots, Drop(r)
  PROVE  Kept' /\ NoneSetBack
PROOF
  <1> DEFINE h == Head(backlog[r])
  <1>a. CallsOpen /\ ListKept /\ BacklogKept /\ BornLeft /\ TypeOK
    BY DEF Kept, IInv
  <1>b. /\ UNCHANGED <<up, owner, target, phase, is_alive_, waiting, clients_, born>>
        /\ backlog[r] # <<>> /\ NextAccept(r)
        /\ place' = [place EXCEPT ![h] = IF @ = "queued" THEN "dropped" ELSE @]
    BY DEF Drop, gui
  <1>c. \A j \in Connections :
          place'[j] = IF j = h /\ place[j] = "queued" THEN "dropped" ELSE place[j]
    BY <1>a, <1>b DEF TypeOK
  <1>d. /\ BacklogKept'
        /\ \A g \in Guis, k \in Connections : waiting[g] = k => NotSetBack(k)
    BY <1>b, <1>c, NextAcceptKeeps
  <1> HIDE DEF h
  <1>1. CallsOpen' /\ BornLeft'
    BY <1>a, <1>b, <1>c DEF CallsOpen, BornLeft
  <1>2. ListKept'
    BY <1>a, <1>b, <1>c, Listed DEF ListKept
  <1>3. NoneSetBack
    BY <1>d DEF NoneSetBack
  <1> QED BY <1>d, <1>1, <1>2, <1>3 DEF Kept

\* A request is executed in the connection that was taken, which is in no backlog.
LEMMA ExecuteKeeps ==
  ASSUME IInv, Kept, NEW r \in Robots, Execute(r)
  PROVE  Kept' /\ NoneSetBack
PROOF
  <1> DEFINE c == srv[r]
  <1>a. CallsOpen /\ ListKept /\ BacklogKept /\ BornLeft /\ TypeOK
    BY DEF Kept, IInv
  <1>b. /\ UNCHANGED <<up, backlog, owner, target, place, is_alive_, waiting, clients_, born>>
        /\ phase[c] = "called"
        /\ phase' = [phase EXCEPT ![c] = "executed"]
    BY DEF Execute, server, gui
  <1>c. c \in Connections /\ born[c] > 0
    <2>1. c \in 0 .. used /\ used \in 0 .. MaxConnections /\ c # 0
      BY <1>a DEF TypeOK, Execute, None
    <2>2. born[c] > 0
      BY DEF Execute, IInv, Lives
    <2> QED BY <2>1, <2>2, CreatorAssumption DEF CreatorAssumption, Connections
  <1> HIDE DEF c
  <1>d. \A j \in Connections : phase'[j] = IF j = c THEN "executed" ELSE phase[j]
    BY <1>a, <1>b DEF TypeOK
  <1>1. CallsOpen'
    BY <1>a, <1>b, <1>d DEF CallsOpen
  <1>2. ListKept' /\ BacklogKept' /\ BornLeft'
    BY <1>a, <1>b DEF ListKept, BacklogKept, BornLeft
  <1>3. NoneSetBack
    <2> SUFFICES ASSUME NEW g \in Guis, NEW k \in Connections, waiting[g] = k
                 PROVE  NotSetBack(k)
      BY DEF NoneSetBack
    <2>1. CASE k = c
      <3>1. place[k] \in {"served", "dropped"}
        BY <1>a, <1>c, <2>1 DEF TypeOK, BornLeft, CallsOpen
      <3>2. place'[k] = place[k] /\ phase[k] = "called" /\ phase'[k] = "executed"
        BY <1>b, <1>d, <2>1
      <3>3. CASE place[k] = "served"
        <4>1. Left(k) = 3 /\ Left(k)' = 2
          BY <3>2, <3>3 DEF Left
        <4> QED BY <4>1 DEF NotSetBack
      <3>4. CASE place[k] = "dropped"
        <4>1. Left(k) = 1 /\ Left(k)' = 1
          BY <3>2, <3>4 DEF Left
        <4> QED BY <3>4, <4>1 DEF NotSetBack
      <3> QED BY <3>1, <3>3, <3>4
    <2>2. CASE k # c
      <3>1. place'[k] = place[k] /\ phase'[k] = phase[k] /\ target'[k] = target[k]
        BY <1>b, <1>d, <2>2
      <3> QED BY <1>a, <1>b, <3>1, Opened, LeftAlone
    <2> QED BY <2>1, <2>2
  <1> QED BY <1>1, <1>2, <1>3 DEF Kept

\* An answer is the end.
LEMMA RespondKeeps ==
  ASSUME IInv, Kept, NEW r \in Robots, Respond(r)
  PROVE  Kept' /\ NoneSetBack
PROOF
  <1> DEFINE c == srv[r]
  <1>a. CallsOpen /\ ListKept /\ BacklogKept /\ BornLeft /\ TypeOK
    BY DEF Kept, IInv
  <1>b. /\ UNCHANGED <<up, backlog, owner, target, place, is_alive_, waiting, clients_, born>>
        /\ phase[c] = "executed" /\ place[c] = "served"
        /\ phase' = [phase EXCEPT ![c] = "answered"]
    BY DEF Respond, server, gui
  <1> HIDE DEF c
  <1>d. \A j \in Connections : phase'[j] = IF j = c THEN "answered" ELSE phase[j]
    BY <1>a, <1>b DEF TypeOK
  <1>1. CallsOpen'
    BY <1>a, <1>b, <1>d DEF CallsOpen
  <1>2. ListKept' /\ BacklogKept' /\ BornLeft'
    BY <1>a, <1>b DEF ListKept, BacklogKept, BornLeft
  <1>3. NoneSetBack
    <2> SUFFICES ASSUME NEW g \in Guis, NEW k \in Connections, waiting[g] = k
                 PROVE  NotSetBack(k)
      BY DEF NoneSetBack
    <2>1. CASE k = c
      <3>1. /\ place[k] = "served" /\ place'[k] = "served"
            /\ phase[k] = "executed" /\ phase'[k] = "answered"
        BY <1>b, <1>d, <2>1
      <3>2. Left(k) = 2 /\ Left(k)' = 0
        BY <3>1 DEF Left
      <3> QED BY <3>2 DEF NotSetBack
    <2>2. CASE k # c
      <3>1. place'[k] = place[k] /\ phase'[k] = phase[k] /\ target'[k] = target[k]
        BY <1>b, <1>d, <2>2
      <3> QED BY <1>a, <1>b, <3>1, Opened, LeftAlone
    <2> QED BY <2>1, <2>2
  <1> QED BY <1>1, <1>2, <1>3 DEF Kept

\* The connection is a new one: nobody waits for it, lists it or has it in a backlog.
LEMMA CreateServerKeeps ==
  ASSUME IInv, Kept, NEW g \in Guis, NEW r \in Robots, CreateServer(g, r)
  PROVE  Kept' /\ NoneSetBack
PROOF
  <1> DEFINE n == used + 1
  <1>a. CallsOpen /\ ListKept /\ BacklogKept /\ BornLeft /\ TypeOK
    BY DEF Kept, IInv
  <1>b. /\ UNCHANGED <<up, backlog, is_alive_, clients_, born>>
        /\ owner' = [owner EXCEPT ![n] = g]
        /\ target' = [target EXCEPT ![n] = r]
        /\ place' = [place EXCEPT ![n] = "connecting"]
        /\ phase' = [phase EXCEPT ![n] = "called"]
        /\ waiting' = [waiting EXCEPT ![g] = n]
        /\ waiting[g] = 0
    BY DEF CreateServer, server, None
  <1>c. n \in Connections /\ \A j \in Connections : j <= used => j # n
    <2>1. used \in Nat /\ used + 1 <= MaxConnections
      BY <1>a, CreatorAssumption DEF TypeOK, CreateServer, CreatorAssumption
    <2> QED BY <2>1, CreatorAssumption DEF CreatorAssumption, Connections
  <1>d. place[n] = "none" /\ ~(born[n] > 0)
    <2>1. ~(n <= used)
      BY <1>c
    <2> QED BY <1>c, <2>1 DEF IInv, Addressed, Lives
  <1>e. \A h \in Guis : waiting[h] # n
    <2>1. waiting \in [Guis -> 0 .. used] /\ used \in Nat
      BY <1>a, CreatorAssumption DEF TypeOK, CreatorAssumption
    <2> QED BY <2>1
  <1>f. \A h \in Guis : \A k \in clients_[h] : k \in Connections /\ k # n
    <2>1. \A h \in Guis : \A k \in clients_[h] : k \in 1 .. used /\ used \in Nat
      BY <1>a, CreatorAssumption DEF TypeOK, CreatorAssumption
    <2> QED BY <2>1, Listed
  <1> HIDE DEF n
  <1>g. \A j \in Connections : j # n =>
          /\ owner'[j] = owner[j] /\ target'[j] = target[j]
          /\ place'[j] = place[j] /\ phase'[j] = phase[j]
    BY <1>b
  <1>h. /\ owner'[n] = g /\ place'[n] = "connecting" /\ phase'[n] = "called"
        /\ \A h \in Guis : waiting'[h] = IF h = g THEN n ELSE waiting[h]
    BY <1>a, <1>b, <1>c DEF TypeOK
  <1>1. CallsOpen'
    <2> SUFFICES ASSUME NEW h \in Guis, NEW k \in Connections, waiting'[h] = k
                 PROVE  /\ owner'[k] = h
                        /\ place'[k] \notin {"none", "gone"}
                        /\ phase'[k] # "none"
                        /\ phase'[k] = "lost" => ~is_alive_'[k]
      BY DEF CallsOpen
    <2>1. CASE h = g
      BY <1>h, <2>1
    <2>2. CASE h # g
      <3>1. waiting[h] = k /\ k # n
        BY <1>e, <1>h, <2>2
      <3> QED BY <1>a, <1>b, <1>g, <3>1 DEF CallsOpen
    <2> QED BY <2>1, <2>2
  <1>2. ListKept'
    BY <1>a, <1>b, <1>f, <1>g DEF ListKept
  <1>3. BacklogKept'
    <2>1. ASSUME NEW k \in Connections, place'[k] = "queued"
          PROVE  /\ up'[target'[k]]
                 /\ \E i \in 1 .. Len(backlog'[target'[k]]) : backlog'[target'[k]][i] = k
      <3>1. k # n
        BY <1>h, <2>1
      <3>2. place[k] = "queued" /\ target'[k] = target[k]
        BY <1>g, <2>1, <3>1
      <3> QED BY <1>a, <1>b, <3>2 DEF BacklogKept
    <2>2. ASSUME NEW q \in Robots, NEW i \in 1 .. Len(backlog'[q])
          PROVE  place'[backlog'[q][i]] \notin {"none", "connecting"}
      <3>1. backlog[q][i] \in Connections /\ backlog[q][i] # n
        BY <1>b, <1>c, <2>2, InLine
      <3>2. place[backlog[q][i]] \notin {"none", "connecting"}
        BY <1>a, <1>b, <2>2 DEF BacklogKept
      <3> QED BY <1>b, <1>g, <3>1, <3>2
    <2> QED BY <2>1, <2>2 DEF BacklogKept
  <1>4. BornLeft'
    BY <1>a, <1>b, <1>d, <1>g DEF BornLeft
  <1>5. NoneSetBack
    <2> SUFFICES ASSUME NEW h \in Guis, NEW k \in Connections, waiting[h] = k
                 PROVE  NotSetBack(k)
      BY DEF NoneSetBack
    <2>1. place'[k] = place[k] /\ phase'[k] = phase[k] /\ target'[k] = target[k]
      BY <1>e, <1>g
    <2> QED BY <1>a, <1>b, <2>1, Opened, LeftAlone
  <1> QED BY <1>1, <1>2, <1>3, <1>4, <1>5 DEF Kept

\* A connection is put at the end of the backlog, behind those that wait.
LEMMA ConnectKeeps ==
  ASSUME IInv, Kept, NEW c \in Connections, Connect(c)
  PROVE  Kept' /\ NoneSetBack
PROOF
  <1> DEFINE r == target[c]
  <1>a. CallsOpen /\ ListKept /\ BacklogKept /\ BornLeft /\ TypeOK
    BY DEF Kept, IInv
  <1>b. /\ UNCHANGED <<up, owner, target, phase, is_alive_, waiting, clients_, born>>
        /\ place[c] = "connecting" /\ up[r]
        /\ place' = [place EXCEPT ![c] = "queued"]
        /\ backlog' = [backlog EXCEPT ![r] = Append(@, c)]
    BY DEF Connect, gui
  <1>c. r \in Robots /\ backlog[r] \in Seq(1 .. used) /\ c \in 1 .. used
    <2>1. c <= used /\ r \in Robots
      BY <1>b DEF IInv, Addressed
    <2>2. backlog[r] \in Seq(1 .. used) /\ c \in 1 .. used
      BY <1>a, <2>1, CreatorAssumption DEF TypeOK, CreatorAssumption, Connections
    <2> QED BY <2>1, <2>2
  <1> HIDE DEF r
  <1> DEFINE b == Append(backlog[r], c)
  <1>d. /\ Len(backlog[r]) \in Nat /\ ~(Len(b) < Len(backlog[r]))
        /\ \A i \in 1 .. Len(backlog[r]) : i \in 1 .. Len(b) /\ b[i] = backlog[r][i]
        /\ \E i \in 1 .. Len(b) : b[i] = c
        /\ \A i \in 1 .. Len(b) : i \in 1 .. Len(backlog[r]) \/ b[i] = c
    <2> DEFINE s == backlog[r]
    <2>1. s \in Seq(1 .. used) /\ c \in 1 .. used
      BY <1>c
    <2> HIDE DEF s
    <2>2. Len(s) \in Nat /\ ~(Len(Append(s, c)) < Len(s))
      BY ONLY <2>1, AtTheEnd
    <2>3. \A i \in 1 .. Len(s) : i \in 1 .. Len(Append(s, c)) /\ Append(s, c)[i] = s[i]
      BY ONLY <2>1, AtTheEnd
    <2>4. \E i \in 1 .. Len(Append(s, c)) : Append(s, c)[i] = c
      BY ONLY <2>1, AtTheEnd
    <2>5. \A i \in 1 .. Len(Append(s, c)) : i \in 1 .. Len(s) \/ Append(s, c)[i] = c
      BY ONLY <2>1, AtTheEnd
    <2> QED BY ONLY <2>2, <2>3, <2>4, <2>5, Zenon DEF s
  <1>e. \A q \in Robots : backlog'[q] = IF q = r THEN b ELSE backlog[q]
    BY <1>a, <1>b DEF TypeOK
  <1> HIDE DEF b
  <1>f. \A j \in Connections : place'[j] = IF j = c THEN "queued" ELSE place[j]
    BY <1>a, <1>b DEF TypeOK
  <1>g. \A q \in Robots : \A i \in 1 .. Len(backlog[q]) :
          i \in 1 .. Len(backlog'[q]) /\ backlog'[q][i] = backlog[q][i]
    <2> SUFFICES ASSUME NEW q \in Robots, NEW i \in 1 .. Len(backlog[q])
                 PROVE  i \in 1 .. Len(backlog'[q]) /\ backlog'[q][i] = backlog[q][i]
      OBVIOUS
    <2>1. CASE q = r
      BY <1>d, <1>e, <2>1
    <2>2. CASE q # r
      BY <1>e, <2>2
    <2> QED BY <2>1, <2>2
  <1>1. CallsOpen'
    BY <1>a, <1>b, <1>f DEF CallsOpen
  <1>2. ListKept'
    BY <1>a, <1>b, <1>f, Listed DEF ListKept
  <1>3. BacklogKept'
    <2>1. ASSUME NEW k \in Connections, place'[k] = "queued"
          PROVE  /\ up'[target'[k]]
                 /\ \E i \in 1 .. Len(backlog'[target'[k]]) : backlog'[target'[k]][i] = k
      <3>1. CASE k = c
        <4>1. target'[k] = r /\ up'[r]
          BY <1>b, <3>1 DEF r
        <4>2. \E i \in 1 .. Len(backlog'[r]) : backlog'[r][i] = k
          BY <1>c, <1>d, <1>e, <3>1
        <4> QED BY <4>1, <4>2
      <3>2. CASE k # c
        <4>1. place[k] = "queued"
          BY <1>f, <2>1, <3>2
        <4>2. target[k] \in Robots /\ target'[k] = target[k]
          BY <1>b, <4>1, Opened
        <4> QED BY <1>a, <1>b, <1>g, <4>1, <4>2 DEF BacklogKept
      <3> QED BY <3>1, <3>2
    <2>2. ASSUME NEW q \in Robots, NEW i \in 1 .. Len(backlog'[q])
          PROVE  place'[backlog'[q][i]] \notin {"none", "connecting"}
      <3>1. CASE i \in 1 .. Len(backlog[q])
        <4>1. backlog'[q][i] = backlog[q][i] /\ backlog[q][i] \in Connections
          BY <1>g, <3>1, InLine
        <4>2. place[backlog[q][i]] \notin {"none", "connecting"}
          BY <1>a, <3>1 DEF BacklogKept
        <4> QED BY <1>f, <4>1, <4>2
      <3>2. CASE i \notin 1 .. Len(backlog[q])
        <4>1. q = r
          BY <1>e, <2>2, <3>2
        <4>2. backlog'[q][i] = c
          BY <1>c, <1>d, <1>e, <2>2, <3>2, <4>1
        <4> QED BY <1>f, <4>2
      <3> QED BY <3>1, <3>2
    <2> QED BY <2>1, <2>2 DEF BacklogKept
  <1>4. BornLeft'
    BY <1>a, <1>b, <1>f DEF BornLeft
  <1>5. NoneSetBack
    <2> SUFFICES ASSUME NEW g \in Guis, NEW k \in Connections, waiting[g] = k
                 PROVE  NotSetBack(k)
      BY DEF NoneSetBack
    <2>1. CASE k = c
      <3>1. /\ phase[k] \in {"called", "lost"} /\ phase'[k] = phase[k]
            /\ place[k] = "connecting" /\ place'[k] = "queued"
        BY <1>b, <1>f, <2>1, QueuedIsCalled
      <3>2. Left(k) = 5 /\ Left(k)' = 4
        BY <3>1 DEF Left
      <3> QED BY <3>2 DEF NotSetBack
    <2>2. CASE k # c
      <3>1. place'[k] = place[k] /\ phase'[k] = phase[k] /\ target'[k] = target[k]
        BY <1>b, <1>f, <2>2
      <3>2. Left(k)' = Left(k)
        BY <3>1 DEF Left
      <3>3. ASSUME place[k] = "queued", NEW i \in Turns(k)
            PROVE  /\ i \in Turns(k)' /\ i <= i
                   /\ ~(Len(backlog'[target[k]]) < Len(backlog[target[k]]))
        <4>1. target[k] \in Robots /\ Len(backlog[target[k]]) \in Nat
          BY <3>3, Opened
        <4>2. i \in 1 .. Len(backlog[target[k]]) /\ backlog[target[k]][i] = k
          BY DEF Turns
        <4>3. i \in Turns(k)'
          BY <1>g, <3>1, <4>1, <4>2 DEF Turns
        <4>4. ~(Len(backlog'[target[k]]) < Len(backlog[target[k]]))
          <5>1. CASE target[k] = r
            BY <1>d, <1>e, <4>1, <5>1
          <5>2. CASE target[k] # r
            <6>1. backlog'[target[k]] = backlog[target[k]]
              BY <1>e, <4>1, <5>2
            <6> QED BY <4>1, <6>1
          <5> QED BY <5>1, <5>2
        <4> QED BY <4>2, <4>3, <4>4
      <3> QED BY <3>2, <3>3 DEF NotSetBack
    <2> QED BY <2>1, <2>2
  <1> QED BY <1>1, <1>2, <1>3, <1>4, <1>5 DEF Kept

\* A connection that is refused is known to be.
LEMMA RefusedKeeps ==
  ASSUME IInv, Kept, NEW c \in Connections, Refused(c)
  PROVE  Kept' /\ NoneSetBack
PROOF
  <1>a. CallsOpen /\ ListKept /\ BacklogKept /\ BornLeft /\ TypeOK
    BY DEF Kept, IInv
  <1>b. /\ UNCHANGED <<up, backlog, owner, target, phase, waiting, clients_, born>>
        /\ place[c] = "connecting"
        /\ place' = [place EXCEPT ![c] = "dropped"]
        /\ is_alive_' = [is_alive_ EXCEPT ![c] = FALSE]
    BY DEF Refused, server, gui
  <1>c. \A j \in Connections : j # c => place'[j] = place[j] /\ is_alive_'[j] = is_alive_[j]
    BY <1>b
  <1>d. place'[c] = "dropped" /\ ~is_alive_'[c]
    BY <1>a, <1>b DEF TypeOK
  <1>1. CallsOpen'
    BY <1>a, <1>b, <1>c, <1>d DEF CallsOpen
  <1>2. ListKept'
    BY <1>a, <1>b, <1>c, <1>d, Listed DEF ListKept
  <1>3. BacklogKept'
    <2>1. \A k \in Connections : place'[k] = "queued" => place[k] = "queued"
      BY <1>c, <1>d
    <2>2. \A q \in Robots : \A i \in 1 .. Len(backlog[q]) :
            place'[backlog[q][i]] \notin {"none", "connecting"}
      BY <1>a, <1>c, <1>d, InLine DEF BacklogKept
    <2> QED BY <1>a, <1>b, <2>1, <2>2 DEF BacklogKept
  <1>4. BornLeft'
    BY <1>a, <1>b, <1>c, <1>d DEF BornLeft
  <1>5. NoneSetBack
    <2> SUFFICES ASSUME NEW k \in Connections, is_alive_'[k] PROVE NotSetBack(k)
      BY DEF NoneSetBack
    <2>1. place'[k] = place[k] /\ phase'[k] = phase[k] /\ target'[k] = target[k]
      BY <1>b, <1>c, <1>d
    <2> QED BY <1>a, <1>b, <2>1, Opened, LeftAlone
  <1> QED BY <1>1, <1>2, <1>3, <1>4, <1>5 DEF Kept

\* A request that is lost is known to be.
LEMMA RequestLostKeeps ==
  ASSUME IInv, Kept, NEW c \in Connections, RequestLost(c)
  PROVE  Kept' /\ NoneSetBack
PROOF
  <1>a. CallsOpen /\ ListKept /\ BacklogKept /\ BornLeft /\ TypeOK
    BY DEF Kept, IInv
  <1>b. /\ UNCHANGED <<up, backlog, owner, target, place, waiting, clients_, born>>
        /\ phase' = [phase EXCEPT ![c] = "lost"]
        /\ is_alive_' = [is_alive_ EXCEPT ![c] = FALSE]
    BY DEF RequestLost, server, gui
  <1>c. \A j \in Connections : j # c => phase'[j] = phase[j] /\ is_alive_'[j] = is_alive_[j]
    BY <1>b
  <1>d. phase'[c] = "lost" /\ ~is_alive_'[c]
    BY <1>a, <1>b DEF TypeOK
  <1>1. CallsOpen'
    BY <1>a, <1>b, <1>c, <1>d DEF CallsOpen
  <1>2. ListKept' /\ BacklogKept' /\ BornLeft'
    BY <1>a, <1>b DEF ListKept, BacklogKept, BornLeft
  <1>3. NoneSetBack
    <2> SUFFICES ASSUME NEW k \in Connections, is_alive_'[k] PROVE NotSetBack(k)
      BY DEF NoneSetBack
    <2>1. place'[k] = place[k] /\ phase'[k] = phase[k] /\ target'[k] = target[k]
      BY <1>b, <1>c, <1>d
    <2> QED BY <1>a, <1>b, <2>1, Opened, LeftAlone
  <1> QED BY <1>1, <1>2, <1>3 DEF Kept

\* A connection that is closed becomes known to be.
LEMMA ReadFailsKeeps ==
  ASSUME IInv, Kept, NEW c \in Connections, ReadFails(c)
  PROVE  Kept' /\ NoneSetBack
PROOF
  <1>a. CallsOpen /\ ListKept /\ BacklogKept /\ BornLeft /\ TypeOK
    BY DEF Kept, IInv
  <1>b. /\ UNCHANGED <<up, backlog, owner, target, place, phase, waiting, clients_, born>>
        /\ is_alive_' = [is_alive_ EXCEPT ![c] = FALSE]
    BY DEF ReadFails, server, gui
  <1>c. \A j \in Connections : is_alive_'[j] => is_alive_[j]
    BY <1>a, <1>b DEF TypeOK
  <1>1. CallsOpen'
    BY <1>a, <1>b, <1>c DEF CallsOpen
  <1>2. ListKept' /\ BacklogKept' /\ BornLeft'
    BY <1>a, <1>b DEF ListKept, BacklogKept, BornLeft
  <1>3. NoneSetBack
    BY <1>a, <1>b, Opened, LeftAlone DEF NoneSetBack
  <1> QED BY <1>1, <1>2, <1>3 DEF Kept

\* A client process calls in a connection of its own, and nobody waits for it yet.
LEMMA CallAgainKeeps ==
  ASSUME IInv, Kept, NEW g \in Guis, NEW c \in Connections, CallAgain(g, c)
  PROVE  Kept' /\ NoneSetBack
PROOF
  <1>a. CallsOpen /\ ListKept /\ BacklogKept /\ BornLeft /\ TypeOK
    BY DEF Kept, IInv
  <1>b. /\ UNCHANGED <<up, backlog, owner, target, place, is_alive_, clients_, born>>
        /\ waiting[g] = 0 /\ c \in clients_[g]
        /\ phase' = [phase EXCEPT ![c] = "called"]
        /\ waiting' = [waiting EXCEPT ![g] = c]
    BY DEF CallAgain, server, None
  <1>c. \A j \in Connections : phase'[j] = IF j = c THEN "called" ELSE phase[j]
    BY <1>a, <1>b DEF TypeOK
  <1>d. \A h \in Guis : waiting'[h] = IF h = g THEN c ELSE waiting[h]
    BY <1>a, <1>b DEF TypeOK
  <1>e. owner[c] = g /\ place[c] \notin {"none", "gone"}
    BY <1>a, <1>b DEF ListKept
  <1>1. CallsOpen'
    BY <1>a, <1>b, <1>c, <1>d, <1>e DEF CallsOpen
  <1>2. ListKept' /\ BacklogKept' /\ BornLeft'
    BY <1>a, <1>b DEF ListKept, BacklogKept, BornLeft
  <1>3. NoneSetBack
    <2> SUFFICES ASSUME NEW h \in Guis, NEW k \in Connections, waiting[h] = k
                 PROVE  NotSetBack(k)
      BY DEF NoneSetBack
    <2>1. k # 0
      BY CreatorAssumption DEF CreatorAssumption, Connections
    <2>2. h # g /\ owner[k] = h
      BY <1>a, <1>b, <2>1 DEF CallsOpen
    <2>3. place'[k] = place[k] /\ phase'[k] = phase[k] /\ target'[k] = target[k]
      BY <1>b, <1>c, <1>e, <2>2
    <2> QED BY <1>a, <1>b, <2>3, Opened, LeftAlone
  <1> QED BY <1>1, <1>2, <1>3 DEF Kept

\* The call that returns is the one that this client process waited for.
LEMMA ReturnKeeps ==
  ASSUME IInv, Kept, NEW g \in Guis, Return(g)
  PROVE  Kept' /\ NoneSetBack
PROOF
  <1> DEFINE c == waiting[g]
  <1>a. CallsOpen /\ ListKept /\ BacklogKept /\ BornLeft /\ TypeOK
    BY DEF Kept, IInv
  <1>b. /\ UNCHANGED <<up, backlog, owner, target, place, is_alive_, born>>
        /\ phase' = [phase EXCEPT ![c] = "none"]
        /\ clients_' = [clients_ EXCEPT ![g] = @ \cup {c}]
        /\ waiting' = [waiting EXCEPT ![g] = 0]
    BY DEF Return, server, None
  <1>c. c \in Connections
    <2>1. c \in 0 .. used /\ used \in 0 .. MaxConnections /\ c # 0
      BY <1>a DEF TypeOK, Return, None
    <2> QED BY <2>1, CreatorAssumption DEF CreatorAssumption, Connections
  <1>d. owner[c] = g /\ place[c] \notin {"none", "gone"}
    BY <1>a, <1>c DEF CallsOpen
  <1>e. \A k \in Connections : k # 0
    BY CreatorAssumption DEF CreatorAssumption, Connections
  <1>f. \A h \in Guis, k \in Connections : waiting'[h] = k => h # g /\ waiting[h] = k /\ k # c
    BY <1>a, <1>b, <1>d, <1>e DEF TypeOK, CallsOpen
  <1>g. \A h \in Guis : \A k \in clients_'[h] : k \in clients_[h] \/ (h = g /\ k = c)
    BY <1>a, <1>b DEF TypeOK
  <1> HIDE DEF c
  <1>h. \A j \in Connections : j # c => phase'[j] = phase[j]
    BY <1>b
  <1>1. CallsOpen'
    BY <1>a, <1>b, <1>f, <1>h DEF CallsOpen
  <1>2. ListKept'
    BY <1>a, <1>b, <1>d, <1>g DEF ListKept
  <1>3. BacklogKept' /\ BornLeft'
    BY <1>a, <1>b DEF BacklogKept, BornLeft
  <1>4. NoneSetBack
    <2> SUFFICES ASSUME NEW h \in Guis, NEW k \in Connections, waiting'[h] = k
                 PROVE  NotSetBack(k)
      BY DEF NoneSetBack
    <2>1. place'[k] = place[k] /\ phase'[k] = phase[k] /\ target'[k] = target[k]
      BY <1>b, <1>f, <1>h
    <2> QED BY <1>a, <1>b, <2>1, Opened, LeftAlone
  <1> QED BY <1>1, <1>2, <1>3, <1>4 DEF Kept

\* A client process takes its own connections with it, and no others.
LEMMA GuiRestartsKeeps ==
  ASSUME IInv, Kept, NEW g \in Guis, GuiRestarts(g)
  PROVE  Kept' /\ NoneSetBack
PROOF
  <1>a. CallsOpen /\ ListKept /\ BacklogKept /\ BornLeft /\ TypeOK
    BY DEF Kept, IInv
  <1>b. /\ UNCHANGED <<up, backlog, owner, target, phase, born>>
        /\ waiting' = [waiting EXCEPT ![g] = 0]
        /\ clients_' = [clients_ EXCEPT ![g] = {}]
    BY DEF GuiRestarts, server, None
  <1>c. \A j \in Connections :
          \/ place'[j] = "gone" /\ owner[j] = g
          \/ place'[j] = place[j] /\ is_alive_'[j] = is_alive_[j]
    <2>1. \A j \in Connections :
            /\ place'[j] = IF j \in Ours(g) THEN "gone" ELSE place[j]
            /\ is_alive_'[j] = (j \in Ours(g) \/ is_alive_[j])
            /\ is_alive_[j] \in BOOLEAN
      BY <1>a DEF GuiRestarts, TypeOK
    <2>2. \A j \in Ours(g) : owner[j] = g
      BY DEF Ours
    <2> QED BY <2>1, <2>2
  <1>d. \A h \in Guis, k \in Connections : waiting'[h] = k => h # g /\ waiting[h] = k
    BY <1>a, <1>b, CreatorAssumption DEF TypeOK, CreatorAssumption, Connections
  <1>e. \A h \in Guis : \A k \in clients_'[h] : h # g /\ k \in clients_[h]
    BY <1>a, <1>b DEF TypeOK
  <1>1. CallsOpen'
    BY <1>a, <1>b, <1>c, <1>d DEF CallsOpen
  <1>2. ListKept'
    BY <1>a, <1>b, <1>c, <1>e, Listed DEF ListKept
  <1>3. BacklogKept'
    <2>1. \A k \in Connections : place'[k] = "queued" => place[k] = "queued"
      BY <1>c
    <2>2. \A q \in Robots : \A i \in 1 .. Len(backlog[q]) :
            place'[backlog[q][i]] \notin {"none", "connecting"}
      BY <1>a, <1>c, InLine DEF BacklogKept
    <2> QED BY <1>a, <1>b, <2>1, <2>2 DEF BacklogKept
  <1>4. BornLeft'
    BY <1>a, <1>b, <1>c DEF BornLeft
  <1>5. NoneSetBack
    <2> SUFFICES ASSUME NEW h \in Guis, NEW k \in Connections, waiting'[h] = k
                 PROVE  NotSetBack(k)
      BY DEF NoneSetBack
    <2>1. owner[k] = h /\ h # g
      BY <1>a, <1>d DEF CallsOpen
    <2>2. place'[k] = place[k] /\ phase'[k] = phase[k] /\ target'[k] = target[k]
      BY <1>b, <1>c, <2>1
    <2> QED BY <1>a, <1>b, <2>2, Opened, LeftAlone
  <1> QED BY <1>1, <1>2, <1>3, <1>4, <1>5 DEF Kept

\* A connection that breaks is nearer to the error that tells of it.
LEMMA LinkBreaksKeeps ==
  ASSUME IInv, Kept, NEW c \in Connections, LinkBreaks(c)
  PROVE  Kept' /\ NoneSetBack
PROOF
  <1>a. CallsOpen /\ ListKept /\ BacklogKept /\ BornLeft /\ TypeOK
    BY DEF Kept, IInv
  <1>b. /\ UNCHANGED <<up, backlog, owner, target, phase, is_alive_, waiting, clients_, born>>
        /\ place[c] \in {"queued", "served"}
        /\ place' = [place EXCEPT ![c] = "dropped"]
    BY DEF LinkBreaks, server, gui
  <1>c. \A j \in Connections : place'[j] = IF j = c THEN "dropped" ELSE place[j]
    BY <1>a, <1>b DEF TypeOK
  <1>1. CallsOpen' /\ BornLeft'
    BY <1>a, <1>b, <1>c DEF CallsOpen, BornLeft
  <1>2. ListKept'
    BY <1>a, <1>b, <1>c, Listed DEF ListKept
  <1>3. BacklogKept'
    <2>1. \A k \in Connections : place'[k] = "queued" => place[k] = "queued"
      BY <1>c
    <2>2. \A q \in Robots : \A i \in 1 .. Len(backlog[q]) :
            place'[backlog[q][i]] \notin {"none", "connecting"}
      BY <1>a, <1>c, InLine DEF BacklogKept
    <2> QED BY <1>a, <1>b, <2>1, <2>2 DEF BacklogKept
  <1>4. NoneSetBack
    <2> SUFFICES ASSUME NEW g \in Guis, NEW k \in Connections, waiting[g] = k
                 PROVE  NotSetBack(k)
      BY DEF NoneSetBack
    <2>1. CASE k = c
      <3>1. place'[k] = "dropped" /\ phase'[k] = phase[k] /\ place[k] \in {"queued", "served"}
        BY <1>b, <1>c, <2>1
      <3> QED BY <3>1, Closed
    <2>2. CASE k # c
      <3>1. place'[k] = place[k] /\ phase'[k] = phase[k] /\ target'[k] = target[k]
        BY <1>b, <1>c, <2>2
      <3> QED BY <1>a, <1>b, <3>1, Opened, LeftAlone
    <2> QED BY <2>1, <2>2
  <1> QED BY <1>1, <1>2, <1>3, <1>4 DEF Kept

-----------------------------------------------------------------------------
(***************************************************************************)
(* The theorems.                                                           *)
(***************************************************************************)

\* Every action, and a stutter.
LEMMA NextKeeps == IInv /\ Kept /\ [Next]_vars => Kept' /\ (NoneSetBack \/ UNCHANGED vars)
PROOF
  <1> SUFFICES ASSUME IInv, Kept, [Next]_vars
               PROVE  Kept' /\ (NoneSetBack \/ UNCHANGED vars)
    OBVIOUS
  <1>1. ASSUME NEW r \in Robots, ServerStarts(r) PROVE Kept' /\ NoneSetBack
    BY <1>1, ServerStartsKeeps
  <1>2. ASSUME NEW r \in Robots, ServerEnds(r) PROVE Kept' /\ NoneSetBack
    BY <1>2, ServerEndsKeeps
  <1>3. ASSUME NEW r \in Robots, Accept(r) PROVE Kept' /\ NoneSetBack
    BY <1>3, <1>2, CreateKeeps, DropKeeps DEF Accept, CreateThrows
  <1>4. ASSUME NEW r \in Robots, Execute(r) \/ Respond(r) PROVE Kept' /\ NoneSetBack
    BY <1>4, ExecuteKeeps, RespondKeeps
  <1>5. ASSUME NEW g \in Guis, NEW r \in Robots, CreateServer(g, r)
        PROVE  Kept' /\ NoneSetBack
    BY <1>5, CreateServerKeeps
  <1>6. ASSUME NEW g \in Guis, NEW k \in Connections, CallAgain(g, k)
        PROVE  Kept' /\ NoneSetBack
    BY <1>6, CallAgainKeeps
  <1>7. ASSUME NEW g \in Guis, Return(g) \/ GuiRestarts(g) PROVE Kept' /\ NoneSetBack
    BY <1>7, ReturnKeeps, GuiRestartsKeeps
  <1>8. ASSUME NEW k \in Connections, ClientIo(k) PROVE Kept' /\ NoneSetBack
    BY <1>8, ConnectKeeps, RefusedKeeps, ReadFailsKeeps DEF ClientIo
  <1>9. ASSUME NEW k \in Connections, RequestLost(k) \/ LinkBreaks(k)
        PROVE  Kept' /\ NoneSetBack
    BY <1>9, RequestLostKeeps, LinkBreaksKeeps
  <1>10. CASE UNCHANGED vars
    BY <1>10 DEF Kept, CallsOpen, ListKept, BacklogKept, BornLeft,
                 vars, server, connection, gui
  <1> QED
    BY <1>1, <1>2, <1>3, <1>4, <1>5, <1>6, <1>7, <1>8, <1>9, <1>10 DEF Next

\* Both parts of the invariant hold in every state.
LEMMA KeptInvariant == Spec => []Kept
PROOF
  <1> QED BY Invariant, InitKept, NextKeeps, PTL DEF Spec

\* A GUI thread that waits for an answer is never forgotten by the io threads, the
\* accept loop and the process thread: while its codec believes the connection alive,
\* one of them still has something to do for it, or the answer is there.
THEOREM NobodyStuckHolds == Spec => []NobodyStuck
PROOF
  <1>1. IInv /\ Kept => NobodyStuck
    <2> SUFFICES ASSUME IInv, Kept, NEW g \in Guis, NEW k \in Connections,
                        waiting[g] = k, is_alive_[k],
                        phase[k] # "answered", place[k] \notin {"connecting", "dropped"}
                 PROVE  \/ /\ place[k] = "queued"
                           /\ up[target[k]]
                           /\ Turns(k) # {}
                        \/ /\ place[k] = "served"
                           /\ up[target[k]]
                           /\ srv[target[k]] = k
                           /\ phase[k] \in {"called", "executed"}
      BY DEF NobodyStuck
    <2>1. place[k] \in {"queued", "served"}
      BY DEF IInv, TypeOK, Kept, CallsOpen
    <2>2. CASE place[k] = "queued"
      BY <2>2 DEF Kept, BacklogKept, Turns
    <2>3. CASE place[k] = "served"
      <3>1. phase[k] \in {"called", "executed"}
        BY DEF IInv, TypeOK, Kept, CallsOpen
      <3> QED BY <2>3, <3>1 DEF IInv, ServedBySrv
    <2> QED BY <2>1, <2>2, <2>3
  <1> QED BY <1>1, Invariant, KeptInvariant, PTL

\* No step sets a call back while its codec is alive: it stays as far from its end,
\* and no farther from its turn in the backlog, or comes nearer.
THEOREM NeverSetBackHolds == Spec => NeverSetBack
PROOF
  <1>1. IInv /\ Kept /\ [Next]_vars =>
          [\A g \in Guis, k \in Connections :
             (waiting[g] = k /\ waiting'[g] = k /\ is_alive_'[k]) => NotSetBack(k)]_vars
    BY NextKeeps DEF NoneSetBack
  <1> QED BY <1>1, Invariant, KeptInvariant, PTL DEF Spec, NeverSetBack

=============================================================================
