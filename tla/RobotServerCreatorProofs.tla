---------------------- MODULE RobotServerCreatorProofs ----------------------
(***************************************************************************)
(* Proofs about RobotServerCreator, for every number of clients, robots,   *)
(* connections and restarts.                                               *)
(***************************************************************************)
EXTENDS RobotServerCreator, SequenceTheorems, TLAPS

-----------------------------------------------------------------------------
(***************************************************************************)
(* The inductive invariant.                                                *)
(***************************************************************************)

\* A connection that was opened goes to a robot, and waits there if anywhere.
Addressed ==
  /\ \A k \in Connections : (k <= used \/ place[k] # "none") => target[k] \in Robots
  /\ \A k \in Connections : place[k] # "none" => k <= used
  /\ \A r \in Robots : \A i \in 1 .. Len(backlog[r]) : target[backlog[r][i]] = r

\* The life of a server process is told by its number, and its one client by
\* already_created_.
Lives ==
  /\ \A r \in Robots : up[r] => starts[r] > 0
  /\ \A r \in Robots : srv[r] # None => born[srv[r]] > 0
  /\ \A k \in Connections : born[k] > 0 =>
       /\ k <= used
       /\ born[k] <= starts[target[k]]
       /\ (up[target[k]] /\ born[k] = starts[target[k]]) => already_created_[target[k]]

\* Two connections never share the life of a server.
Distinct ==
  \A k, l \in Connections :
    (born[k] > 0 /\ born[k] = born[l] /\ target[k] = target[l]) => k = l

\* Only a server that took a connection executes and answers its requests.
AnswersAreServed ==
  /\ \A k \in Connections : phase[k] \in {"executed", "answered"} => born[k] > 0
  /\ \A g \in Guis : \A k \in clients_[g] : born[k] > 0

IInv ==
  /\ TypeOK
  /\ Addressed
  /\ Lives
  /\ Distinct
  /\ AnswersAreServed
  /\ ServedBySrv

-----------------------------------------------------------------------------
(***************************************************************************)
(* Steps.                                                                  *)
(***************************************************************************)

\* No server runs and no connection was opened.
LEMMA InitIInv == Init => IInv
PROOF
  <1> SUFFICES ASSUME Init PROVE IInv
    OBVIOUS
  <1> USE CreatorAssumption DEF CreatorAssumption, Init, Connections, None
  <1>1. TypeOK
    BY DEF TypeOK
  <1>2. Addressed
    BY DEF Addressed
  <1>3. Lives /\ Distinct /\ AnswersAreServed /\ ServedBySrv
    BY DEF Lives, Distinct, AnswersAreServed, ServedBySrv
  <1> QED BY <1>1, <1>2, <1>3 DEF IInv

\* What a server reads of its backlog when it takes the first connection.
LEMMA HeadOfBacklog ==
  ASSUME NEW S, NEW s \in Seq(S), s # <<>>
  PROVE  /\ Head(s) = s[1] /\ Head(s) \in S /\ 1 \in 1 .. Len(s)
         /\ Tail(s) \in Seq(S)
         /\ Len(Tail(s)) = Len(s) - 1
         /\ \A i \in 1 .. Len(Tail(s)) : i + 1 \in 1 .. Len(s) /\ Tail(s)[i] = s[i + 1]
PROOF
  <1>1. Len(s) \in Nat /\ Len(s) > 0
    BY EmptySeq
  <1>2. Tail(s) \in Seq(S) /\ Len(Tail(s)) = Len(s) - 1
    BY HeadTailProperties
  <1>3. \A i \in 1 .. Len(Tail(s)) : Tail(s)[i] = s[i + 1]
    BY HeadTailProperties
  <1>4. Head(s) = s[1] /\ s[1] \in S
    BY <1>1, HeadTailProperties
  <1> QED BY <1>1, <1>2, <1>3, <1>4

\* A new process is the first in its life: none of the connections was born in it.
LEMMA ServerStartsPreservesIInv ==
  ASSUME IInv, NEW r \in Robots, ServerStarts(r)
  PROVE  IInv'
PROOF
  <1> USE CreatorAssumption DEF CreatorAssumption, Connections, None,
         server, connection, gui, NextAccept, Ours
  <1>0. TypeOK /\ Addressed /\ Lives /\ Distinct /\ AnswersAreServed /\ ServedBySrv
    BY DEF IInv
  <1>1. TypeOK'
    <2>1. starts[r] \in Nat /\ starts[r] < MaxStarts
      BY <1>0 DEF TypeOK, ServerStarts
    <2>2. starts' \in [Robots -> 0 .. MaxStarts]
      BY <1>0, <2>1 DEF TypeOK, ServerStarts
    <2>3. QED
      BY <1>0, <2>2 DEF TypeOK, ServerStarts
  <1>2. Addressed'
    BY <1>0 DEF TypeOK, Addressed, ServerStarts
  <1>3. Lives'
    <2>1. \A q \in Robots : starts'[q] = IF q = r THEN starts[r] + 1 ELSE starts[q]
      BY <1>0 DEF TypeOK, ServerStarts
    <2>2. \A q \in Robots : starts[q] \in Nat
      BY <1>0 DEF TypeOK
    <2>3. \A q \in Robots : up'[q] => starts'[q] > 0
      BY <1>0, <2>1, <2>2 DEF TypeOK, Lives, ServerStarts
    <2>4. \A q \in Robots : srv'[q] # None => born'[srv'[q]] > 0
      BY <1>0 DEF Lives, ServerStarts
    <2>5. ASSUME NEW k \in Connections, born'[k] > 0
          PROVE  /\ k <= used'
                 /\ born'[k] <= starts'[target'[k]]
                 /\ (up'[target'[k]] /\ born'[k] = starts'[target'[k]])
                      => already_created_'[target'[k]]
      <3>1. /\ born' = born /\ target' = target /\ used' = used
            /\ ~up[r] /\ up' = [up EXCEPT ![r] = TRUE]
            /\ already_created_' = already_created_
        BY DEF ServerStarts
      <3>2. born[k] \in Nat /\ born[k] > 0 /\ used \in Nat
        BY <1>0, <2>5, <3>1 DEF TypeOK
      <3>3. /\ k <= used /\ target[k] \in Robots
            /\ born[k] <= starts[target[k]]
            /\ (up[target[k]] /\ born[k] = starts[target[k]]) => already_created_[target[k]]
        BY <1>0, <3>2 DEF Addressed, Lives
      <3>4. CASE target[k] = r
        BY <2>1, <2>2, <3>1, <3>2, <3>3, <3>4
      <3>5. CASE target[k] # r
        BY <1>0, <2>1, <2>2, <3>1, <3>2, <3>3, <3>5 DEF TypeOK
      <3>6. QED
        BY <3>4, <3>5
    <2>6. QED
      BY <2>3, <2>4, <2>5 DEF Lives
  <1>4. Distinct'
    BY <1>0 DEF TypeOK, Addressed, Lives, Distinct, ServerStarts
  <1>5. AnswersAreServed'
    BY <1>0 DEF TypeOK, Lives, AnswersAreServed, ServerStarts
  <1>6. ServedBySrv'
    BY <1>0 DEF TypeOK, Addressed, Lives, ServedBySrv, ServerStarts
  <1> QED BY <1>1, <1>2, <1>3, <1>4, <1>5, <1>6 DEF IInv

\* What a process served is closed with it.
LEMMA ServerEndsPreservesIInv ==
  ASSUME IInv, NEW r \in Robots, ServerEnds(r)
  PROVE  IInv'
PROOF
  <1> USE CreatorAssumption DEF CreatorAssumption, Connections, None,
         server, connection, gui, NextAccept, Ours
  <1>0. TypeOK /\ Addressed /\ Lives /\ Distinct /\ AnswersAreServed /\ ServedBySrv
    BY DEF IInv
  <1>1. TypeOK'
    <2>1. /\ up' \in [Robots -> BOOLEAN] /\ already_created_' \in [Robots -> BOOLEAN]
          /\ srv' \in [Robots -> 0 .. used'] /\ backlog' \in [Robots -> Seq(1 .. used')]
      BY <1>0 DEF TypeOK, ServerEnds
    <2>2. place' \in [Connections ->
                     {"none", "connecting", "queued", "served", "dropped", "gone"}]
      BY <1>0 DEF TypeOK, ServerEnds
    <2>3. QED
      BY <1>0, <2>1, <2>2 DEF TypeOK, ServerEnds
  <1>2. Addressed'
    <2>1. \A q \in Robots : backlog'[q] = IF q = r THEN <<>> ELSE backlog[q]
      BY <1>0 DEF TypeOK, ServerEnds
    <2>2. \A q \in Robots : \A i \in 1 .. Len(backlog'[q]) : target'[backlog'[q][i]] = q
      BY <1>0, <2>1 DEF Addressed, ServerEnds
    <2>3. QED
      BY <1>0, <2>2 DEF TypeOK, Addressed, ServerEnds
  <1>3. Lives'
    BY <1>0 DEF TypeOK, Addressed, Lives, ServerEnds
  <1>4. Distinct'
    BY <1>0 DEF TypeOK, Addressed, Lives, Distinct, ServerEnds
  <1>5. AnswersAreServed'
    BY <1>0 DEF TypeOK, Lives, AnswersAreServed, ServerEnds
  <1>6. ServedBySrv'
    BY <1>0 DEF TypeOK, Addressed, Lives, ServedBySrv, ServerEnds
  <1> QED BY <1>1, <1>2, <1>3, <1>4, <1>5, <1>6 DEF IInv

\* The connection that is taken is the only one of the life of its server.
LEMMA CreatePreservesIInv ==
  ASSUME IInv, NEW r \in Robots, Create(r)
  PROVE  IInv'
PROOF
  <1> USE CreatorAssumption DEF CreatorAssumption, Connections, None,
         server, connection, gui, NextAccept, Ours
  <1>0. TypeOK /\ Addressed /\ Lives /\ Distinct /\ AnswersAreServed /\ ServedBySrv
    BY DEF IInv
  <1> DEFINE k == Head(backlog[r])
  <1>a. /\ backlog[r] \in Seq(1 .. used) /\ backlog[r] # <<>>
    BY <1>0 DEF TypeOK, Create
  <1>b. /\ k = backlog[r][1] /\ k \in 1 .. used /\ 1 \in 1 .. Len(backlog[r])
        /\ Tail(backlog[r]) \in Seq(1 .. used)
        /\ \A i \in 1 .. Len(Tail(backlog[r])) :
             i + 1 \in 1 .. Len(backlog[r]) /\ Tail(backlog[r])[i] = backlog[r][i + 1]
    BY <1>a, HeadOfBacklog
  <1> HIDE DEF k
  <1>c. k \in Connections /\ target[k] = r
    <2>1. k \in 1 .. used /\ used \in 0 .. MaxConnections
      BY <1>0, <1>b DEF TypeOK
    <2>2. target[backlog[r][1]] = r
      BY <1>0, <1>b DEF Addressed
    <2>3. QED
      BY <1>b, <2>1, <2>2
  <1>d. /\ up[r] /\ ~already_created_[r] /\ up' = up /\ starts' = starts
        /\ used' = used /\ target' = target /\ phase' = phase /\ clients_' = clients_
        /\ already_created_' = [already_created_ EXCEPT ![r] = TRUE]
        /\ srv' = [srv EXCEPT ![r] = k]
        /\ place' = [place EXCEPT ![k] = IF @ = "queued" THEN "served" ELSE @]
        /\ born' = [born EXCEPT ![k] = starts[r]]
    BY DEF Create, k
  <1>1. TypeOK'
    <2>1. backlog' \in [Robots -> Seq(1 .. used')]
      BY <1>0, <1>b DEF TypeOK, Create
    <2>2. place' \in [Connections ->
                     {"none", "connecting", "queued", "served", "dropped", "gone"}]
      BY <1>0 DEF TypeOK, Create
    <2>3. srv' \in [Robots -> 0 .. used']
      <3>1. used \in Nat /\ k \in 1 .. used
        BY <1>0, <1>b DEF TypeOK
      <3>2. QED
        <4>1. k \in 0 .. used
          BY <3>1
        <4>2. QED
          BY <1>0, <1>d, <4>1 DEF TypeOK
    <2>4. born' \in [Connections -> 0 .. MaxStarts]
      BY <1>0, <1>d DEF TypeOK
    <2>5. QED
      BY <1>0, <2>1, <2>2, <2>3, <2>4 DEF TypeOK, Create
  <1>2. Addressed'
    <2>1. \A q \in Robots : backlog'[q] = IF q = r THEN Tail(backlog[r]) ELSE backlog[q]
      BY <1>0 DEF TypeOK, Create
    <2>2. \A q \in Robots : \A i \in 1 .. Len(backlog'[q]) : target'[backlog'[q][i]] = q
      BY <1>0, <1>b, <2>1 DEF Addressed, Create
    <2>3. \A j \in Connections : place'[j] # "none" => place[j] # "none"
      BY <1>0 DEF TypeOK, Create
    <2>4. QED
      BY <1>0, <2>2, <2>3 DEF TypeOK, Addressed, Create
  <1>e. /\ starts[r] \in Nat /\ starts[r] > 0
        /\ \A j \in Connections : born[j] \in Nat
    BY <1>0, <1>d DEF TypeOK, Lives
  <1>f. \A j \in Connections : born'[j] = IF j = k THEN starts[r] ELSE born[j]
    BY <1>0, <1>d DEF TypeOK
  <1>g. \A q \in Robots : /\ srv'[q] = (IF q = r THEN k ELSE srv[q])
                          /\ already_created_'[q] = (q = r \/ already_created_[q])
    <2>1. srv \in [Robots -> 0 .. used] /\ srv' = [srv EXCEPT ![r] = k]
      BY <1>0, <1>d DEF TypeOK
    <2>2. /\ already_created_ \in [Robots -> BOOLEAN]
          /\ already_created_' = [already_created_ EXCEPT ![r] = TRUE]
      BY <1>0, <1>d DEF TypeOK
    <2> HIDE DEF k
    <2>3. \A q \in Robots : srv'[q] = IF q = r THEN k ELSE srv[q]
      BY <2>1
    <2>4. \A q \in Robots : already_created_'[q] = (q = r \/ already_created_[q])
      BY <2>2
    <2> QED BY <2>3, <2>4
  <1>3. Lives'
    <2>1. \A q \in Robots : srv'[q] # None => born'[srv'[q]] > 0
      <3>1. \A q \in Robots : srv[q] # None => srv[q] \in Connections
        <4>1. srv \in [Robots -> 0 .. used] /\ used \in 0 .. MaxConnections
          BY <1>0 DEF TypeOK
        <4>2. \A q \in Robots : srv[q] \in 0 .. used
          BY <4>1
        <4>3. QED
          BY <4>1, <4>2
      <3>2. QED
        BY <1>0, <1>c, <1>e, <1>f, <1>g, <3>1 DEF Lives
    <2>2. ASSUME NEW j \in Connections, born'[j] > 0
          PROVE  /\ j <= used'
                 /\ born'[j] <= starts'[target'[j]]
                 /\ (up'[target'[j]] /\ born'[j] = starts'[target'[j]])
                      => already_created_'[target'[j]]
      <3>1. CASE j = k
        <4>1. used' = used /\ k <= used
          BY <1>0, <1>b, <1>d DEF TypeOK
        <4>2. target'[j] = r /\ born'[j] = starts[r] /\ already_created_'[r]
          BY <1>c, <1>d, <1>f, <1>g, <3>1
        <4>3. QED
          BY <1>d, <1>e, <3>1, <4>1, <4>2
      <3>2. CASE j # k
        <4>1. born[j] > 0 /\ target[j] \in Robots
          BY <1>0, <1>f, <2>2, <3>2 DEF TypeOK, Addressed, Lives
        <4>2. QED
          BY <1>0, <1>d, <1>f, <1>g, <3>2, <4>1 DEF Lives
      <3>3. QED
        BY <3>1, <3>2
    <2>3. QED
      BY <1>0, <1>d, <2>1, <2>2 DEF Lives
  <1>4. Distinct'
    <2>1. \A j \in Connections :
            (born[j] > 0 /\ target[j] = r) => born[j] # starts[r]
      BY <1>0, <1>d DEF Lives
    <2>2. QED
      BY <1>0, <1>c, <1>d, <1>f, <2>1 DEF Distinct
  <1>5. AnswersAreServed'
    <2>1. \A j \in Connections : born[j] > 0 => born'[j] > 0
      BY <1>e, <1>f
    <2>2. \A g \in Guis : clients_[g] \subseteq Connections
      BY <1>0 DEF TypeOK
    <2>3. QED
      BY <1>0, <1>d, <2>1, <2>2 DEF AnswersAreServed
  <1>6. ServedBySrv'
    <2>1. \A j \in Connections :
            place'[j] = "served" => j = k \/ (place[j] = "served" /\ target[j] \in Robots)
      BY <1>0, <1>d DEF TypeOK, Addressed
    <2>2. \A j \in Connections : (place[j] = "served" /\ target[j] = r) => FALSE
      BY <1>0, <1>d, <1>e DEF TypeOK, Lives, ServedBySrv
    <2>3. QED
      <3>1. ASSUME NEW j \in Connections, place'[j] = "served"
            PROVE  up'[target'[j]] /\ srv'[target'[j]] = j /\ born'[j] = starts'[target'[j]]
        <4>1. CASE j = k
          BY <1>c, <1>d, <1>f, <1>g, <4>1
        <4>2. CASE j # k
          <5>1. place[j] = "served" /\ target[j] \in Robots /\ target[j] # r
            BY <2>1, <2>2, <3>1, <4>2
          <5>2. QED
            BY <1>0, <1>d, <1>f, <1>g, <4>2, <5>1 DEF ServedBySrv
        <4>3. QED
          BY <4>1, <4>2
      <3>2. QED
        BY <3>1 DEF ServedBySrv
  <1> QED BY <1>1, <1>2, <1>3, <1>4, <1>5, <1>6 DEF IInv

\* The head of the backlog is closed, and the others keep their server.
LEMMA DropPreservesIInv ==
  ASSUME IInv, NEW r \in Robots, Drop(r)
  PROVE  IInv'
PROOF
  <1> USE CreatorAssumption DEF CreatorAssumption, Connections, None,
         server, connection, gui, NextAccept, Ours
  <1>0. TypeOK /\ Addressed /\ Lives /\ Distinct /\ AnswersAreServed /\ ServedBySrv
    BY DEF IInv
  <1> DEFINE k == Head(backlog[r])
  <1>a. /\ backlog[r] \in Seq(1 .. used) /\ backlog[r] # <<>>
    BY <1>0 DEF TypeOK, Drop
  <1>b. /\ k = backlog[r][1] /\ k \in 1 .. used /\ 1 \in 1 .. Len(backlog[r])
        /\ Tail(backlog[r]) \in Seq(1 .. used)
        /\ \A i \in 1 .. Len(Tail(backlog[r])) :
             i + 1 \in 1 .. Len(backlog[r]) /\ Tail(backlog[r])[i] = backlog[r][i + 1]
    BY <1>a, HeadOfBacklog
  <1> HIDE DEF k
  <1>c. k \in Connections /\ target[k] = r
    <2>1. k \in 1 .. used /\ used \in 0 .. MaxConnections
      BY <1>0, <1>b DEF TypeOK
    <2>2. target[backlog[r][1]] = r
      BY <1>0, <1>b DEF Addressed
    <2>3. QED
      BY <1>b, <2>1, <2>2
  <1>1. TypeOK'
    <2>1. backlog' \in [Robots -> Seq(1 .. used')]
      BY <1>0, <1>b DEF TypeOK, Drop
    <2>2. place' \in [Connections ->
                     {"none", "connecting", "queued", "served", "dropped", "gone"}]
      BY <1>0 DEF TypeOK, Drop
    <2>3. QED
      BY <1>0, <1>b, <1>c, <2>1, <2>2 DEF TypeOK, Drop, k
  <1>2. Addressed'
    <2>1. \A q \in Robots : backlog'[q] = IF q = r THEN Tail(backlog[r]) ELSE backlog[q]
      BY <1>0 DEF TypeOK, Drop
    <2>2. \A q \in Robots : \A i \in 1 .. Len(backlog'[q]) : target'[backlog'[q][i]] = q
      BY <1>0, <1>b, <2>1 DEF Addressed, Drop
    <2>3. \A j \in Connections : place'[j] # "none" => place[j] # "none"
      BY <1>0 DEF TypeOK, Drop
    <2>4. QED
      BY <1>0, <2>2, <2>3 DEF TypeOK, Addressed, Drop
  <1>3. Lives'
    BY <1>0 DEF TypeOK, Addressed, Lives, Drop
  <1>4. Distinct'
    BY <1>0 DEF TypeOK, Addressed, Lives, Distinct, Drop
  <1>5. AnswersAreServed'
    BY <1>0 DEF TypeOK, Lives, AnswersAreServed, Drop
  <1>6. ServedBySrv'
    BY <1>0, ZenonT(60) DEF TypeOK, Addressed, Lives, ServedBySrv, Drop
  <1> QED BY <1>1, <1>2, <1>3, <1>4, <1>5, <1>6 DEF IInv

\* The connection that srv owns has been born.
LEMMA ExecutePreservesIInv ==
  ASSUME IInv, NEW r \in Robots, Execute(r)
  PROVE  IInv'
PROOF
  <1> USE CreatorAssumption DEF CreatorAssumption, Connections, None,
         server, connection, gui, NextAccept, Ours
  <1>0. TypeOK /\ Addressed /\ Lives /\ Distinct /\ AnswersAreServed /\ ServedBySrv
    BY DEF IInv
  <1>1. TypeOK'
    BY <1>0 DEF TypeOK, Execute
  <1>2. Addressed'
    BY <1>0 DEF TypeOK, Addressed, Execute
  <1>3. Lives'
    BY <1>0 DEF TypeOK, Addressed, Lives, Execute
  <1>4. Distinct'
    BY <1>0 DEF TypeOK, Addressed, Lives, Distinct, Execute
  <1>5. AnswersAreServed'
    BY <1>0 DEF TypeOK, Lives, AnswersAreServed, Execute
  <1>6. ServedBySrv'
    BY <1>0 DEF TypeOK, Addressed, Lives, ServedBySrv, Execute
  <1> QED BY <1>1, <1>2, <1>3, <1>4, <1>5, <1>6 DEF IInv

\* An answer is made where a request was executed.
LEMMA RespondPreservesIInv ==
  ASSUME IInv, NEW r \in Robots, Respond(r)
  PROVE  IInv'
PROOF
  <1> USE CreatorAssumption DEF CreatorAssumption, Connections, None,
         server, connection, gui, NextAccept, Ours
  <1>0. TypeOK /\ Addressed /\ Lives /\ Distinct /\ AnswersAreServed /\ ServedBySrv
    BY DEF IInv
  <1>1. TypeOK'
    BY <1>0 DEF TypeOK, Respond
  <1>2. Addressed'
    BY <1>0 DEF TypeOK, Addressed, Respond
  <1>3. Lives'
    BY <1>0 DEF TypeOK, Addressed, Lives, Respond
  <1>4. Distinct'
    BY <1>0 DEF TypeOK, Addressed, Lives, Distinct, Respond
  <1>5. AnswersAreServed'
    BY <1>0 DEF TypeOK, Lives, AnswersAreServed, Respond
  <1>6. ServedBySrv'
    BY <1>0 DEF TypeOK, Addressed, Lives, ServedBySrv, Respond
  <1> QED BY <1>1, <1>2, <1>3, <1>4, <1>5, <1>6 DEF IInv

\* A connection that is opened is new to every backlog.
LEMMA CreateServerPreservesIInv ==
  ASSUME IInv, NEW g \in Guis, NEW r \in Robots, CreateServer(g, r)
  PROVE  IInv'
PROOF
  <1> USE CreatorAssumption DEF CreatorAssumption, Connections, None,
         server, connection, gui, NextAccept, Ours
  <1>0. TypeOK /\ Addressed /\ Lives /\ Distinct /\ AnswersAreServed /\ ServedBySrv
    BY DEF IInv
  <1> DEFINE k == used + 1
  <1>a. k \in Connections /\ used \in Nat /\ k = used + 1
    BY <1>0 DEF TypeOK, CreateServer
  <1> HIDE DEF k
  <1>b. /\ used' = k
        /\ owner' = [owner EXCEPT ![k] = g]
        /\ target' = [target EXCEPT ![k] = r]
        /\ place' = [place EXCEPT ![k] = "connecting"]
        /\ phase' = [phase EXCEPT ![k] = "called"]
        /\ calls' = [calls EXCEPT ![k] = 1]
        /\ waiting' = [waiting EXCEPT ![g] = k]
        /\ UNCHANGED <<server, is_alive_, clients_, born>>
    BY DEF CreateServer, k
  <1>c. 1 .. used \subseteq 1 .. k /\ 0 .. used \subseteq 0 .. k
    BY <1>a
  <1>1. TypeOK'
    <2>1. backlog' \in [Robots -> Seq(1 .. used')]
      <3>1. ASSUME NEW q \in Robots
            PROVE  backlog[q] \in Seq(1 .. k)
        <4>1. backlog[q] \in Seq(1 .. used)
          BY <1>0 DEF TypeOK
        <4>2. QED
          BY <1>c, <4>1, SeqMonotonic
      <3>2. QED
        BY <1>0, <1>b, <3>1 DEF TypeOK
    <2>2. srv' \in [Robots -> 0 .. used'] /\ clients_' \in [Guis -> SUBSET (1 .. used')]
      BY <1>0, <1>b, <1>c DEF TypeOK
    <2>3. waiting' \in [Guis -> 0 .. used']
      BY <1>0, <1>a, <1>b, <1>c DEF TypeOK
    <2>4. calls' \in [Connections -> 0 .. MaxCalls]
      <3>1. 1 \in 0 .. MaxCalls
        OBVIOUS
      <3>2. QED
        BY <1>0, <1>b, <3>1 DEF TypeOK
    <2>5. used' \in 0 .. MaxConnections
      BY <1>a, <1>b
    <2>6. /\ owner' \in [Connections -> Guis \cup {"none"}]
          /\ target' \in [Connections -> Robots \cup {"none"}]
          /\ place' \in [Connections ->
                         {"none", "connecting", "queued", "served", "dropped", "gone"}]
          /\ phase' \in [Connections -> {"none", "called", "lost", "executed", "answered"}]
      BY <1>0, <1>b DEF TypeOK
    <2>7. /\ starts' \in [Robots -> 0 .. MaxStarts] /\ up' \in [Robots -> BOOLEAN]
          /\ already_created_' \in [Robots -> BOOLEAN]
          /\ is_alive_' \in [Connections -> BOOLEAN]
          /\ born' \in [Connections -> 0 .. MaxStarts]
      BY <1>0, <1>b DEF TypeOK
    <2>8. QED
      BY <2>1, <2>2, <2>3, <2>4, <2>5, <2>6, <2>7 DEF TypeOK
  <1>2. Addressed'
    <2>1. \A j \in Connections : (j <= used' \/ place'[j] # "none") => target'[j] \in Robots
      BY <1>0, <1>a, <1>b DEF TypeOK, Addressed
    <2>2. \A j \in Connections : place'[j] # "none" => j <= used'
      BY <1>0, <1>a, <1>b DEF TypeOK, Addressed
    <2>3. ASSUME NEW q \in Robots, NEW i \in 1 .. Len(backlog[q])
          PROVE  target'[backlog[q][i]] = q
      <3>1. backlog[q] \in Seq(1 .. used)
        BY <1>0 DEF TypeOK
      <3>2. backlog[q][i] \in 1 .. used
        BY <3>1, ElementOfSeq
      <3>3. target[backlog[q][i]] = q
        BY <1>0 DEF Addressed
      <3>4. backlog[q][i] \in Connections /\ backlog[q][i] # k
        BY <1>a, <3>2
      <3>5. QED
        BY <1>0, <1>b, <3>3, <3>4 DEF TypeOK
    <2>4. QED
      BY <1>b, <2>1, <2>2, <2>3 DEF Addressed
  <1>3. Lives'
    BY <1>0 DEF TypeOK, Addressed, Lives, CreateServer
  <1>4. Distinct'
    BY <1>0 DEF TypeOK, Addressed, Lives, Distinct, CreateServer
  <1>5. AnswersAreServed'
    BY <1>0 DEF TypeOK, Lives, AnswersAreServed, CreateServer
  <1>6. ServedBySrv'
    <2>1. k \in Connections /\ place'[k] = "connecting"
      BY <1>0, <1>a, <1>b DEF TypeOK
    <2>2. ASSUME NEW j \in Connections, j # k
          PROVE  place'[j] = place[j] /\ target'[j] = target[j]
      BY <1>0, <1>b, <2>2 DEF TypeOK
    <2>3. UNCHANGED <<up, srv, born, starts>>
      BY <1>b
    <2>4. QED
      BY <1>0, <2>1, <2>2, <2>3 DEF ServedBySrv
  <1> QED BY <1>1, <1>2, <1>3, <1>4, <1>5, <1>6 DEF IInv

\* The connection is appended to the backlog of the robot it goes to.
LEMMA ConnectPreservesIInv ==
  ASSUME IInv, NEW k \in Connections, Connect(k)
  PROVE  IInv'
PROOF
  <1> USE CreatorAssumption DEF CreatorAssumption, Connections, None,
         server, connection, gui, NextAccept, Ours
  <1>0. TypeOK /\ Addressed /\ Lives /\ Distinct /\ AnswersAreServed /\ ServedBySrv
    BY DEF IInv
  <1>a. /\ place[k] = "connecting" /\ target[k] \in Robots /\ k \in 1 .. used
        /\ backlog[target[k]] \in Seq(1 .. used)
    BY <1>0 DEF TypeOK, Addressed, Connect
  <1>b. /\ Append(backlog[target[k]], k) \in Seq(1 .. used)
        /\ Len(Append(backlog[target[k]], k)) = Len(backlog[target[k]]) + 1
        /\ \A i \in 1 .. Len(backlog[target[k]]) :
             Append(backlog[target[k]], k)[i] = backlog[target[k]][i]
        /\ Append(backlog[target[k]], k)[Len(backlog[target[k]]) + 1] = k
    BY <1>a, AppendProperties
  <1>c. \A q \in Robots :
          backlog'[q] = IF q = target[k] THEN Append(backlog[target[k]], k) ELSE backlog[q]
    BY <1>0, <1>a DEF TypeOK, Connect
  <1>1. TypeOK'
    <2>1. backlog' \in [Robots -> Seq(1 .. used')]
      BY <1>0, <1>a, <1>b DEF TypeOK, Connect
    <2>2. place' \in [Connections ->
                     {"none", "connecting", "queued", "served", "dropped", "gone"}]
      BY <1>0 DEF TypeOK, Connect
    <2>3. QED
      BY <1>0, <2>1, <2>2 DEF TypeOK, Connect
  <1>2. Addressed'
    <2>1. ASSUME NEW q \in Robots, NEW i \in 1 .. Len(backlog'[q])
          PROVE  target[backlog'[q][i]] = q
      <3>1. CASE q # target[k]
        BY <1>0, <1>c, <3>1 DEF Addressed
      <3>2. CASE q = target[k] /\ i \in 1 .. Len(backlog[q])
        <4>1. backlog'[q][i] = backlog[q][i]
          BY <1>b, <1>c, <3>2
        <4>2. target[backlog[q][i]] = q
          BY <1>0, <3>2 DEF Addressed
        <4>3. QED
          BY <4>1, <4>2
      <3>3. CASE q = target[k] /\ i = Len(backlog[q]) + 1
        BY <1>b, <1>c, <3>3
      <3>4. Len(backlog[target[k]]) \in Nat
        BY <1>a
      <3>5. q = target[k] => i \in 1 .. Len(backlog[q]) + 1
        BY <1>b, <1>c
      <3>6. QED
        BY <3>1, <3>2, <3>3, <3>4, <3>5
    <2>2. QED
      BY <1>0, <1>a, <2>1 DEF TypeOK, Addressed, Connect
  <1>3. Lives'
    BY <1>0 DEF TypeOK, Addressed, Lives, Connect
  <1>4. Distinct'
    BY <1>0 DEF TypeOK, Addressed, Lives, Distinct, Connect
  <1>5. AnswersAreServed'
    BY <1>0 DEF TypeOK, Lives, AnswersAreServed, Connect
  <1>6. ServedBySrv'
    BY <1>0, SMTT(30) DEF TypeOK, Addressed, Lives, ServedBySrv, Connect
  <1> QED BY <1>1, <1>2, <1>3, <1>4, <1>5, <1>6 DEF IInv

\* A refused connection was in no backlog.
LEMMA RefusedPreservesIInv ==
  ASSUME IInv, NEW k \in Connections, Refused(k)
  PROVE  IInv'
PROOF
  <1> USE CreatorAssumption DEF CreatorAssumption, Connections, None,
         server, connection, gui, NextAccept, Ours
  <1>0. TypeOK /\ Addressed /\ Lives /\ Distinct /\ AnswersAreServed /\ ServedBySrv
    BY DEF IInv
  <1>1. TypeOK'
    BY <1>0 DEF TypeOK, Refused
  <1>2. Addressed'
    BY <1>0 DEF TypeOK, Addressed, Refused
  <1>3. Lives'
    BY <1>0 DEF TypeOK, Addressed, Lives, Refused
  <1>4. Distinct'
    BY <1>0 DEF TypeOK, Addressed, Lives, Distinct, Refused
  <1>5. AnswersAreServed'
    BY <1>0 DEF TypeOK, Lives, AnswersAreServed, Refused
  <1>6. ServedBySrv'
    BY <1>0, SMTT(30) DEF TypeOK, Addressed, Lives, ServedBySrv, Refused
  <1> QED BY <1>1, <1>2, <1>3, <1>4, <1>5, <1>6 DEF IInv

\* The request is lost; the connection is not.
LEMMA RequestLostPreservesIInv ==
  ASSUME IInv, NEW k \in Connections, RequestLost(k)
  PROVE  IInv'
PROOF
  <1> USE CreatorAssumption DEF CreatorAssumption, Connections, None,
         server, connection, gui, NextAccept, Ours
  <1>0. TypeOK /\ Addressed /\ Lives /\ Distinct /\ AnswersAreServed /\ ServedBySrv
    BY DEF IInv
  <1>1. TypeOK'
    BY <1>0 DEF TypeOK, RequestLost
  <1>2. Addressed'
    BY <1>0 DEF TypeOK, Addressed, RequestLost
  <1>3. Lives'
    BY <1>0 DEF TypeOK, Addressed, Lives, RequestLost
  <1>4. Distinct'
    BY <1>0 DEF TypeOK, Addressed, Lives, Distinct, RequestLost
  <1>5. AnswersAreServed'
    BY <1>0 DEF TypeOK, Lives, AnswersAreServed, RequestLost
  <1>6. ServedBySrv'
    BY <1>0 DEF TypeOK, Addressed, Lives, ServedBySrv, RequestLost
  <1> QED BY <1>1, <1>2, <1>3, <1>4, <1>5, <1>6 DEF IInv

\* Only is_alive_ changes.
LEMMA ReadFailsPreservesIInv ==
  ASSUME IInv, NEW k \in Connections, ReadFails(k)
  PROVE  IInv'
PROOF
  <1> USE CreatorAssumption DEF CreatorAssumption, Connections, None,
         server, connection, gui, NextAccept, Ours
  <1>0. TypeOK /\ Addressed /\ Lives /\ Distinct /\ AnswersAreServed /\ ServedBySrv
    BY DEF IInv
  <1>1. TypeOK'
    BY <1>0 DEF TypeOK, ReadFails
  <1>2. Addressed'
    BY <1>0 DEF TypeOK, Addressed, ReadFails
  <1>3. Lives'
    BY <1>0 DEF TypeOK, Addressed, Lives, ReadFails
  <1>4. Distinct'
    BY <1>0 DEF TypeOK, Addressed, Lives, Distinct, ReadFails
  <1>5. AnswersAreServed'
    BY <1>0 DEF TypeOK, Lives, AnswersAreServed, ReadFails
  <1>6. ServedBySrv'
    BY <1>0 DEF TypeOK, Addressed, Lives, ServedBySrv, ReadFails
  <1> QED BY <1>1, <1>2, <1>3, <1>4, <1>5, <1>6 DEF IInv

\* A client that the list shows has been served.
LEMMA CallAgainPreservesIInv ==
  ASSUME IInv, NEW g \in Guis, NEW k \in Connections, CallAgain(g, k)
  PROVE  IInv'
PROOF
  <1> USE CreatorAssumption DEF CreatorAssumption, Connections, None,
         server, connection, gui, NextAccept, Ours
  <1>0. TypeOK /\ Addressed /\ Lives /\ Distinct /\ AnswersAreServed /\ ServedBySrv
    BY DEF IInv
  <1>1. TypeOK'
    <2>1. k \in 1 .. used /\ calls[k] \in Nat /\ calls[k] < MaxCalls
      BY <1>0 DEF TypeOK, CallAgain
    <2>2. calls' \in [Connections -> 0 .. MaxCalls]
      <3>1. calls[k] + 1 \in 0 .. MaxCalls
        BY <2>1
      <3>2. calls' = [calls EXCEPT ![k] = calls[k] + 1]
        BY DEF CallAgain
      <3>3. QED
        BY <1>0, <3>1, <3>2 DEF TypeOK
    <2>3. waiting' \in [Guis -> 0 .. used']
      BY <1>0, <2>1 DEF TypeOK, CallAgain
    <2>4. QED
      BY <1>0, <2>2, <2>3 DEF TypeOK, CallAgain
  <1>2. Addressed'
    BY <1>0 DEF TypeOK, Addressed, CallAgain
  <1>3. Lives'
    BY <1>0 DEF TypeOK, Addressed, Lives, CallAgain
  <1>4. Distinct'
    BY <1>0 DEF TypeOK, Addressed, Lives, Distinct, CallAgain
  <1>5. AnswersAreServed'
    BY <1>0 DEF TypeOK, Lives, AnswersAreServed, CallAgain
  <1>6. ServedBySrv'
    BY <1>0 DEF TypeOK, Addressed, Lives, ServedBySrv, CallAgain
  <1> QED BY <1>1, <1>2, <1>3, <1>4, <1>5, <1>6 DEF IInv

\* An answered connection has been served.
LEMMA ReturnPreservesIInv ==
  ASSUME IInv, NEW g \in Guis, Return(g)
  PROVE  IInv'
PROOF
  <1> USE CreatorAssumption DEF CreatorAssumption, Connections, None,
         server, connection, gui, NextAccept, Ours
  <1>0. TypeOK /\ Addressed /\ Lives /\ Distinct /\ AnswersAreServed /\ ServedBySrv
    BY DEF IInv
  <1>1. TypeOK'
    <2>1. waiting[g] \in 1 .. used
      BY <1>0 DEF TypeOK, Return
    <2>2. clients_' \in [Guis -> SUBSET (1 .. used')]
      BY <1>0, <2>1 DEF TypeOK, Return
    <2>3. waiting' \in [Guis -> 0 .. used']
      BY <1>0 DEF TypeOK, Return
    <2>4. QED
      BY <1>0, <2>2, <2>3 DEF TypeOK, Return
  <1>2. Addressed'
    BY <1>0 DEF TypeOK, Addressed, Return
  <1>3. Lives'
    BY <1>0 DEF TypeOK, Addressed, Lives, Return
  <1>4. Distinct'
    BY <1>0 DEF TypeOK, Addressed, Lives, Distinct, Return
  <1>5. AnswersAreServed'
    <2> DEFINE k == waiting[g]
    <2>1. /\ k \in Connections /\ phase[k] = "answered"
          /\ phase' = [phase EXCEPT ![k] = "none"]
          /\ clients_' = [clients_ EXCEPT ![g] = @ \cup {k}]
          /\ born' = born
      BY <1>0 DEF TypeOK, Return
    <2> HIDE DEF k
    <2>2. born[k] > 0
      BY <1>0, <2>1 DEF AnswersAreServed
    <2>3. \A j \in Connections : phase'[j] \in {"executed", "answered"} => born'[j] > 0
      BY <1>0, <2>1 DEF TypeOK, AnswersAreServed
    <2>4. \A h \in Guis : clients_'[h] \subseteq clients_[h] \cup {k}
      BY <1>0, <2>1 DEF TypeOK
    <2>5. \A h \in Guis : \A j \in clients_'[h] : born'[j] > 0
      BY <1>0, <2>1, <2>2, <2>4 DEF AnswersAreServed
    <2>6. QED
      BY <2>3, <2>5 DEF AnswersAreServed
  <1>6. ServedBySrv'
    BY <1>0 DEF TypeOK, Addressed, Lives, ServedBySrv, Return
  <1> QED BY <1>1, <1>2, <1>3, <1>4, <1>5, <1>6 DEF IInv

\* The connections of a client process leave, and stay where they are in a backlog.
LEMMA GuiRestartsPreservesIInv ==
  ASSUME IInv, NEW g \in Guis, GuiRestarts(g)
  PROVE  IInv'
PROOF
  <1> USE CreatorAssumption DEF CreatorAssumption, Connections, None,
         server, connection, gui, NextAccept, Ours
  <1>0. TypeOK /\ Addressed /\ Lives /\ Distinct /\ AnswersAreServed /\ ServedBySrv
    BY DEF IInv
  <1>a. \A k \in Connections : place'[k] = "gone" \/ place'[k] = place[k]
    BY <1>0 DEF TypeOK, GuiRestarts
  <1>1. TypeOK'
    <2>1. /\ place' \in [Connections ->
                        {"none", "connecting", "queued", "served", "dropped", "gone"}]
          /\ calls' \in [Connections -> 0 .. MaxCalls]
          /\ is_alive_' \in [Connections -> BOOLEAN]
      BY <1>0, SMTT(30) DEF TypeOK, GuiRestarts
    <2>2. /\ waiting' \in [Guis -> 0 .. used']
          /\ clients_' \in [Guis -> SUBSET (1 .. used')]
      BY <1>0 DEF TypeOK, GuiRestarts
    <2>3. QED
      BY <1>0, <2>1, <2>2 DEF TypeOK, GuiRestarts
  <1>2. Addressed'
    <2>1. \A k \in Connections : place'[k] # "none" => k <= used
      BY <1>0 DEF Addressed, GuiRestarts, Ours
    <2>2. \A k \in Connections : k <= used => target[k] \in Robots
      BY <1>0 DEF Addressed
    <2>3. used' = used /\ target' = target /\ backlog' = backlog
      BY DEF GuiRestarts
    <2>4. QED
      BY <1>0, <2>1, <2>2, <2>3 DEF Addressed
  <1>3. Lives'
    BY <1>0 DEF TypeOK, Addressed, Lives, GuiRestarts
  <1>4. Distinct'
    BY <1>0 DEF TypeOK, Addressed, Lives, Distinct, GuiRestarts
  <1>5. AnswersAreServed'
    BY <1>0 DEF TypeOK, Lives, AnswersAreServed, GuiRestarts
  <1>6. ServedBySrv'
    BY <1>0 DEF TypeOK, Addressed, Lives, ServedBySrv, GuiRestarts
  <1> QED BY <1>1, <1>2, <1>3, <1>4, <1>5, <1>6 DEF IInv

\* A broken connection is served no more.
LEMMA LinkBreaksPreservesIInv ==
  ASSUME IInv, NEW k \in Connections, LinkBreaks(k)
  PROVE  IInv'
PROOF
  <1> USE CreatorAssumption DEF CreatorAssumption, Connections, None,
         server, connection, gui, NextAccept, Ours
  <1>0. TypeOK /\ Addressed /\ Lives /\ Distinct /\ AnswersAreServed /\ ServedBySrv
    BY DEF IInv
  <1>1. TypeOK'
    BY <1>0 DEF TypeOK, LinkBreaks
  <1>2. Addressed'
    BY <1>0 DEF TypeOK, Addressed, LinkBreaks
  <1>3. Lives'
    BY <1>0 DEF TypeOK, Addressed, Lives, LinkBreaks
  <1>4. Distinct'
    BY <1>0 DEF TypeOK, Addressed, Lives, Distinct, LinkBreaks
  <1>5. AnswersAreServed'
    BY <1>0 DEF TypeOK, Lives, AnswersAreServed, LinkBreaks
  <1>6. ServedBySrv'
    BY <1>0 DEF TypeOK, Addressed, Lives, ServedBySrv, LinkBreaks
  <1> QED BY <1>1, <1>2, <1>3, <1>4, <1>5, <1>6 DEF IInv

-----------------------------------------------------------------------------
(***************************************************************************)
(* The theorems.                                                           *)
(***************************************************************************)

\* Every action, and a stutter.
LEMMA NextPreservesIInv == IInv /\ [Next]_vars => IInv'
PROOF
  <1> SUFFICES ASSUME IInv, [Next]_vars PROVE IInv'
    OBVIOUS
  <1>1. ASSUME NEW r \in Robots, ServerStarts(r) PROVE IInv'
    BY <1>1, ServerStartsPreservesIInv
  <1>2. ASSUME NEW r \in Robots, ServerEnds(r) PROVE IInv'
    BY <1>2, ServerEndsPreservesIInv
  <1>3. ASSUME NEW r \in Robots, Accept(r) PROVE IInv'
    BY <1>3, <1>2, CreatePreservesIInv, DropPreservesIInv DEF Accept, CreateThrows
  <1>4. ASSUME NEW r \in Robots, Execute(r) \/ Respond(r) PROVE IInv'
    BY <1>4, ExecutePreservesIInv, RespondPreservesIInv
  <1>5. ASSUME NEW g \in Guis, NEW r \in Robots, CreateServer(g, r) PROVE IInv'
    BY <1>5, CreateServerPreservesIInv
  <1>6. ASSUME NEW g \in Guis, NEW k \in Connections, CallAgain(g, k) PROVE IInv'
    BY <1>6, CallAgainPreservesIInv
  <1>7. ASSUME NEW g \in Guis, Return(g) \/ GuiRestarts(g) PROVE IInv'
    BY <1>7, ReturnPreservesIInv, GuiRestartsPreservesIInv
  <1>8. ASSUME NEW k \in Connections, ClientIo(k) PROVE IInv'
    BY <1>8, ConnectPreservesIInv, RefusedPreservesIInv, ReadFailsPreservesIInv
       DEF ClientIo
  <1>9. ASSUME NEW k \in Connections, RequestLost(k) \/ LinkBreaks(k) PROVE IInv'
    BY <1>9, RequestLostPreservesIInv, LinkBreaksPreservesIInv
  <1>10. CASE UNCHANGED vars
    BY <1>10 DEF IInv, TypeOK, Addressed, Lives, Distinct, AnswersAreServed, ServedBySrv,
                 vars, server, connection, gui
  <1> QED
    BY <1>1, <1>2, <1>3, <1>4, <1>5, <1>6, <1>7, <1>8, <1>9, <1>10 DEF Next

\* The invariant holds in every state.
LEMMA Invariant == Spec => []IInv
PROOF
  <1> QED BY InitIInv, NextPreservesIInv, PTL DEF Spec

\* The variables of the servers, the connections and the clients keep their types.
THEOREM TypeCorrect == Spec => []TypeOK
PROOF
  <1>1. IInv => TypeOK
    BY DEF IInv
  <1> QED BY <1>1, Invariant, PTL

\* However often servers and clients are started again, and whoever is in the
\* backlog, a connection that is served is the one the running process owns.
THEOREM ServedBySrvHolds == Spec => []ServedBySrv
PROOF
  <1>1. IInv => ServedBySrv
    BY DEF IInv
  <1> QED BY <1>1, Invariant, PTL

\* A server process gets into one list of one client process in its life.
THEOREM OneEntryInALifeHolds == Spec => []OneEntryInALife
PROOF
  <1>1. IInv => OneEntryInALife
    <2> SUFFICES ASSUME IInv, NEW g \in Guis, NEW h \in Guis,
                        NEW k \in clients_[g], NEW l \in clients_[h],
                        target[k] = target[l], born[k] = born[l]
                 PROVE  k = l
      BY DEF OneEntryInALife
    <2>1. k \in Connections /\ l \in Connections
      <3>1. /\ used \in 0 .. MaxConnections
            /\ k \in 1 .. used /\ l \in 1 .. used
        BY DEF IInv, TypeOK
      <3>2. QED
        BY <3>1, CreatorAssumption DEF CreatorAssumption, Connections
    <2>2. born[k] > 0
      BY DEF IInv, AnswersAreServed
    <2> QED BY <2>1, <2>2 DEF IInv, Distinct
  <1> QED BY <1>1, Invariant, PTL

=============================================================================
