------------------------ MODULE MessageHandlerProofs ------------------------
(***************************************************************************)
(* Proofs about MessageHandler, for every set of words, fields and images  *)
(* and every number of requests.                                           *)
(***************************************************************************)
EXTENDS MessageHandler, SequenceTheorems, TLAPS

-----------------------------------------------------------------------------
(***************************************************************************)
(* The inductive invariant.                                                *)
(***************************************************************************)

\* The words of the request are these fields, in their order.
Written(user, dir, name, image) == request.words = user \o dir \o name \o <<image>>

\* The request is one that a client call wrote.
RequestWritten ==
  /\ request.command = "execRoboContainer" =>
       \E user, dir, name \in Fields, image \in Images :
         /\ Written(user, dir, name, image)
         /\ asked = [user |-> user, dir |-> dir, name |-> name, image |-> image]
  /\ request.command \in {"buildRoboImage", "deleteRoboImage"} =>
       request.words[1] \in Images
  /\ request.command = "stopRoboContainer" => request.words[1] \in Words
  /\ stage # "idle" => handled > 0

\* Between createContainer() and containerStart() the request is a start whose
\* JSON was accepted, and a create that was answered without an error has made
\* the container that is to be started.
Starting ==
  stage = "starting" =>
    /\ request.command = "execRoboContainer"
    /\ JsonParses
    /\ ~err_create /\ Name \notin Blanks =>
         containers[Name] = [state |-> "created", image |-> Config, dir |-> LaunchDir,
                             by |-> handled, started |-> 0]

\* A name that no container has was never answered with Success.
AbsentIsUnspent ==
  \A w \in Words \ Blanks : containers[w].state = "absent" => successes[w] = {}

IInv ==
  /\ TypeOK
  /\ RequestWritten
  /\ Starting
  /\ AbsentIsUnspent
  /\ SuccessIsOwnStart
  /\ NameIsSpent

-----------------------------------------------------------------------------
(***************************************************************************)
(* What the words of a start request are.                                  *)
(***************************************************************************)

\* Every field has a word, so that the image is the fourth word or a later one.
LEMMA StartLength ==
  ASSUME NEW user \in Fields, NEW dir \in Fields, NEW name \in Fields,
         NEW image \in Images
  PROVE  LET words == user \o dir \o name \o <<image>>
         IN  /\ Len(words) = Len(user) + Len(dir) + Len(name) + 1
             /\ Len(user) >= 1 /\ Len(dir) >= 1 /\ Len(name) >= 1
             /\ words \in Seq(Words \cup Images)
             /\ words[Len(words)] = image
PROOF
  <1> DEFINE All == Words \cup Images
  <1>1. /\ user \in Seq(All) /\ dir \in Seq(All) /\ name \in Seq(All)
        /\ user # <<>> /\ dir # <<>> /\ name # <<>>
    BY HandlerAssumption DEF HandlerAssumption
  <1>2. <<image>> \in Seq(All) /\ Len(<<image>>) = 1 /\ <<image>>[1] = image
    OBVIOUS
  <1>3. Len(user) >= 1 /\ Len(dir) >= 1 /\ Len(name) >= 1
    BY <1>1, EmptySeq
  <1> DEFINE u == user \o dir
             v == u \o name
             words == v \o <<image>>
  <1>4. u \in Seq(All) /\ Len(u) = Len(user) + Len(dir)
    BY <1>1, ConcatProperties
  <1>5. v \in Seq(All) /\ Len(v) = Len(user) + Len(dir) + Len(name)
    BY <1>1, <1>4, ConcatProperties
  <1>6. words \in Seq(All) /\ Len(words) = Len(v) + 1
    BY <1>2, <1>5, ConcatProperties
  <1>7. words[Len(words)] = image
    BY <1>2, <1>5, <1>6, ConcatProperties
  <1> QED BY <1>3, <1>5, <1>6, <1>7

\* Where the parts of a start request stand: the words of the name begin behind those
\* of user and directory, and those from the fourth on are in front of the JSON.
LEMMA StartWords ==
  ASSUME NEW user \in Fields, NEW dir \in Fields, NEW name \in Fields,
         NEW image \in Images,
         Written(user, dir, name, image)
  PROVE  /\ LaunchDir \in Words /\ Name \in Words
         /\ Len(Json) = Len(user) + Len(dir) + Len(name) - 2
         /\ Config = image
         /\ Len(user) = 1 => LaunchDir = dir[1]
         /\ \A i \in 1 .. Len(user) + Len(dir) + Len(name) - 3 :
              Json[i] = request.words[i + 3]
         /\ \A i \in 1 .. Len(name) : request.words[Len(user) + Len(dir) + i] = name[i]
PROOF
  <1> DEFINE All == Words \cup Images
             u == user \o dir
             v == u \o name
             words == v \o <<image>>
  <1>1. /\ Len(words) = Len(user) + Len(dir) + Len(name) + 1
        /\ Len(user) >= 1 /\ Len(dir) >= 1 /\ Len(name) >= 1
        /\ words \in Seq(All)
        /\ words[Len(words)] = image
    BY StartLength
  <1>2. /\ user \in Seq(Words) /\ dir \in Seq(Words) /\ name \in Seq(Words)
        /\ Len(user) \in Nat /\ Len(dir) \in Nat /\ Len(name) \in Nat
    BY HandlerAssumption DEF HandlerAssumption
  <1>3. request.words = words
    BY DEF Written
  <1>4. /\ u \in Seq(Words) /\ Len(u) = Len(user) + Len(dir)
        /\ \A i \in 1 .. Len(dir) : u[Len(user) + i] = dir[i]
    BY <1>2, ConcatProperties
  <1>5. /\ v \in Seq(Words) /\ Len(v) = Len(u) + Len(name)
        /\ \A i \in 1 .. Len(u) : v[i] = u[i]
        /\ \A i \in 1 .. Len(name) : v[Len(u) + i] = name[i]
    BY <1>2, <1>4, ConcatProperties
  <1>6. \A i \in 1 .. Len(v) : words[i] = v[i]
    BY <1>5, ConcatProperties
  <1> HIDE DEF words, v, u
  <1>7. /\ Len(v) >= 3 /\ Len(u) >= 2 /\ Len(words) \in Nat /\ Len(words) >= 4
        /\ Len(v) \in Nat /\ Len(u) \in Nat
    BY <1>1, <1>2, <1>4, <1>5
  <1>8. words[2] \in Words /\ words[3] \in Words
    BY <1>5, <1>6, <1>7
  <1>9. Len(user) = 1 => words[2] = dir[1]
    <2>1. ASSUME Len(user) = 1
          PROVE  words[2] = dir[1]
      <3>1. words[2] = v[2] /\ v[2] = u[2]
        BY <1>5, <1>6, <1>7
      <3>2. 1 \in 1 .. Len(dir) /\ Len(user) + 1 = 2
        BY <1>1, <1>2, <2>1
      <3>3. u[2] = dir[1]
        BY <1>4, <3>2, Zenon
      <3> QED BY <3>1, <3>3
    <2> QED BY <2>1
  <1>10. \A i \in 1 .. Len(name) : words[Len(user) + Len(dir) + i] = name[i]
    <2> TAKE i \in 1 .. Len(name)
    <2>1. v[Len(u) + i] = name[i]
      BY <1>5
    <2>2. Len(u) + i \in 1 .. Len(v)
      BY <1>2, <1>5, <1>7
    <2>3. words[Len(u) + i] = v[Len(u) + i]
      BY <1>6, <2>2
    <2>4. Len(user) + Len(dir) + i = Len(u) + i
      BY <1>4
    <2> QED BY <2>1, <2>3, <2>4, Zenon
  <1>11. /\ Len(SubSeq(words, 4, Len(words))) = Len(words) - 3
         /\ \A i \in 1 .. Len(words) - 3 : SubSeq(words, 4, Len(words))[i] = words[i + 3]
    BY <1>1, <1>7, SubSeqProperties
  <1>12. Json = SubSeq(words, 4, Len(words))
    BY <1>3 DEF Json
  <1>13. /\ Len(Json) = Len(words) - 3
         /\ \A i \in 1 .. Len(words) - 3 : Json[i] = words[i + 3]
    BY <1>11, <1>12, Zenon
  <1>14. Config = image
    <2>1. /\ Len(words) - 3 \in 1 .. Len(words) - 3
          /\ (Len(words) - 3) + 3 = Len(words)
      BY <1>7
    <2>2. Json[Len(words) - 3] = words[Len(words)]
      BY <1>13, <2>1
    <2> QED BY <1>1, <1>13, <2>2, Zenon DEF Config
  <1>15. Len(Json) = Len(user) + Len(dir) + Len(name) - 2
    BY <1>1, <1>2, <1>13
  <1>16. \A i \in 1 .. Len(user) + Len(dir) + Len(name) - 3 : Json[i] = words[i + 3]
    BY <1>1, <1>2, <1>13
  <1>17. LaunchDir = words[2] /\ Name = words[3]
    BY <1>3 DEF LaunchDir, Name
  <1> QED BY <1>3, <1>8, <1>9, <1>10, <1>14, <1>15, <1>16, <1>17

\* A word of the name that is no blank is in front of the JSON unless it is the third
\* of the request: a start that is parsed and has such a word was read as it was meant.
LEMMA ParsedFields ==
  ASSUME NEW user \in Fields, NEW dir \in Fields, NEW name \in Fields,
         NEW image \in Images,
         Written(user, dir, name, image),
         JsonParses,
         NEW i \in DOMAIN name, name[i] \notin Blanks
  PROVE  i = 1 /\ name[1] = Name /\ dir = <<LaunchDir>>
PROOF
  <1>1. /\ user \in Seq(Words) /\ dir \in Seq(Words) /\ name \in Seq(Words)
        /\ Len(user) \in Nat /\ Len(dir) \in Nat /\ Len(name) \in Nat
        /\ i \in 1 .. Len(name)
    BY HandlerAssumption DEF HandlerAssumption
  <1>2. Len(user) >= 1 /\ Len(dir) >= 1
    BY StartLength
  <1> DEFINE at == Len(user) + Len(dir) + i
  <1>3. request.words[at] = name[i]
    BY <1>1, StartWords
  <1>4. /\ Len(Json) = Len(user) + Len(dir) + Len(name) - 2
        /\ \A k \in 1 .. Len(user) + Len(dir) + Len(name) - 3 :
             Json[k] = request.words[k + 3]
    BY StartWords
  <1>5. at <= 3
    <2>1. ASSUME at > 3
          PROVE  FALSE
      <3>1. /\ at - 3 \in 1 .. Len(user) + Len(dir) + Len(name) - 3
            /\ (at - 3) + 3 = at
            /\ at - 3 \in 1 .. Len(Json) - 1
        BY <1>1, <1>2, <1>4, <2>1
      <3>2. Json[at - 3] = name[i]
        BY <1>3, <1>4, <3>1
      <3>3. Json[at - 3] \in Blanks
        BY <3>1 DEF JsonParses
      <3> QED BY <3>2, <3>3
    <2> QED BY <1>1, <2>1
  <1>6. Len(user) = 1 /\ Len(dir) = 1 /\ i = 1 /\ at = 3
    <2>1. ASSUME NEW a \in Nat, NEW b \in Nat, NEW c \in Nat,
                 a >= 1, b >= 1, c >= 1, a + b + c <= 3
          PROVE  a = 1 /\ b = 1 /\ c = 1 /\ a + b + c = 3
      BY <2>1
    <2>2. i \in Nat /\ i >= 1
      BY <1>1
    <2> QED BY <1>1, <1>2, <1>5, <2>1, <2>2, Zenon
  <1>7. name[1] = Name
    BY <1>3, <1>6 DEF Name
  <1>8. LaunchDir = dir[1]
    BY <1>6, StartWords
  <1>9. dir = <<dir[1]>>
    BY <1>1, <1>6
  <1> QED BY <1>6, <1>7, <1>8, <1>9, Zenon

\* A start with a word in each field is parsed, and read part by part, blanks behind
\* the name included.
LEMMA OneWordsParse ==
  ASSUME NEW user \in Fields, NEW dir \in Fields, NEW name \in Fields,
         NEW image \in Images,
         Written(user, dir, name, image),
         Len(user) = 1, Len(dir) = 1,
         \A i \in 2 .. Len(name) : name[i] \in Blanks
  PROVE  JsonParses /\ Name = name[1] /\ LaunchDir = dir[1] /\ Config = image
PROOF
  <1>1. /\ Len(Json) = Len(user) + Len(dir) + Len(name) - 2
        /\ Config = image
        /\ Len(user) = 1 => LaunchDir = dir[1]
        /\ \A i \in 1 .. Len(user) + Len(dir) + Len(name) - 3 :
             Json[i] = request.words[i + 3]
        /\ \A i \in 1 .. Len(name) : request.words[Len(user) + Len(dir) + i] = name[i]
    <2>1. Len(Json) = Len(user) + Len(dir) + Len(name) - 2
      BY StartWords, Zenon
    <2>2. \A i \in 1 .. Len(user) + Len(dir) + Len(name) - 3 :
            Json[i] = request.words[i + 3]
      BY StartWords, Zenon
    <2>3. Config = image
      BY StartWords, Zenon
    <2>4. Len(user) = 1 => LaunchDir = dir[1]
      BY StartWords, Zenon
    <2>5. \A i \in 1 .. Len(name) : request.words[Len(user) + Len(dir) + i] = name[i]
      BY StartWords, Zenon
    <2> QED BY <2>1, <2>2, <2>3, <2>4, <2>5, Zenon
  <1>2. Len(name) \in Nat /\ Len(name) >= 1
    BY StartLength, HandlerAssumption DEF HandlerAssumption
  <1>3. \A i \in 1 .. Len(name) : request.words[2 + i] = name[i]
    <2> TAKE i \in 1 .. Len(name)
    <2>1. request.words[Len(user) + Len(dir) + i] = name[i]
      BY <1>1, Zenon
    <2>2. Len(user) + Len(dir) + i = 2 + i
      BY <1>2
    <2> QED BY <2>1, <2>2
  <1>4. Name = name[1]
    <2>1. 1 \in 1 .. Len(name) /\ 2 + 1 = 3
      BY <1>2
    <2> QED BY <1>3, <2>1, Zenon DEF Name
  <1>5. ASSUME NEW i \in 1 .. Len(Json) - 1
        PROVE  Json[i] \in Blanks
    <2>1. i \in 1 .. Len(user) + Len(dir) + Len(name) - 3
      BY <1>1, <1>2
    <2>2. i + 1 \in 1 .. Len(name) /\ i + 1 \in 2 .. Len(name) /\ 2 + (i + 1) = i + 3
      BY <1>1, <1>2
    <2>3. Json[i] = name[i + 1]
      BY <1>1, <1>3, <2>1, <2>2
    <2> QED BY <2>2, <2>3
  <1>6. JsonParses
    BY <1>1, <1>5 DEF JsonParses
  <1> QED BY <1>1, <1>4, <1>6

-----------------------------------------------------------------------------
(***************************************************************************)
(* The inductive invariant holds at first, and every step preserves it.    *)
(***************************************************************************)

LEMMA InitIInv == Init => IInv
PROOF
  <1> SUFFICES ASSUME Init
               PROVE  IInv
    OBVIOUS
  <1> USE HandlerAssumption DEF HandlerAssumption, Init
  <1>1. TypeOK
    <2>1. 0 \in 0 .. MaxRequests
      OBVIOUS
    <2>2. NoContainer \in Container
      BY <2>1 DEF Container, NoContainer
    <2>3. containers \in [Words -> Container]
      BY <2>2
    <2>4. successes \in [Words -> SUBSET (1 .. MaxRequests)]
      OBVIOUS
    <2> QED BY <2>1, <2>3, <2>4 DEF TypeOK
  <1>2. /\ RequestWritten
        /\ Starting
        /\ AbsentIsUnspent
        /\ NameIsSpent
        /\ SuccessIsOwnStart
    BY DEF RequestWritten, Starting, AbsentIsUnspent, NameIsSpent,
           SuccessIsOwnStart, Answered, NoRequest
  <1> QED BY <1>1, <1>2 DEF IInv

\* Receiving a request: the engine and what it was asked for stay as they are.
LEMMA ReceivePreservesIInv ==
  ASSUME IInv, Requests
  PROVE  IInv'
PROOF
  <1>1. /\ stage = "idle" /\ handled < MaxRequests
        /\ handled' = handled + 1
        /\ stage' = "executing"
        /\ UNCHANGED <<images, containers, discovery, env, err_create, reply, successes>>
    BY DEF Requests, StartContainer, BuildImage, DeleteImage, StopContainer, GetLog,
           GetExecutedContainers, GetContainersInfo, CreateDDSInstance, Receive, engine,
           dds
  <1>2. TypeOK'
    BY <1>1, HandlerAssumption DEF IInv, TypeOK, HandlerAssumption
  <1>3. RequestWritten'
    <2>1. handled' > 0
      BY <1>1 DEF IInv, TypeOK
    <2>2. CASE \E user, dir, name \in Fields, image \in Images :
                 StartContainer(user, dir, name, image)
      <3>1. PICK user \in Fields, dir \in Fields, name \in Fields, image \in Images :
                   StartContainer(user, dir, name, image)
        BY <2>2
      <3>2. /\ request'.command = "execRoboContainer"
            /\ request'.words = user \o dir \o name \o <<image>>
            /\ asked' = [user |-> user, dir |-> dir, name |-> name, image |-> image]
        BY <3>1 DEF StartContainer, Receive
      <3>3. \E u, d, n \in Fields, i \in Images :
              /\ Written(u, d, n, i)'
              /\ asked' = [user |-> u, dir |-> d, name |-> n, image |-> i]
        <4>1. Written(user, dir, name, image)'
          BY <3>2 DEF Written
        <4> QED BY <3>2, <4>1, Zenon
      <3> QED BY <2>1, <3>2, <3>3, Zenon DEF RequestWritten
    <2>3. CASE \E image \in Images, user \in Fields : BuildImage(image, user)
      <3>1. PICK image \in Images, user \in Fields : BuildImage(image, user)
        BY <2>3
      <3>2. (<<image, "target">> \o user)[1] = image
        <4>1. user \in Seq(Words)
          BY HandlerAssumption DEF HandlerAssumption
        <4> QED BY <4>1
      <3> QED BY <2>1, <3>1, <3>2 DEF BuildImage, Receive, RequestWritten
    <2>4. CASE \E image \in Images : DeleteImage(image)
      BY <2>1, <2>4 DEF DeleteImage, Receive, RequestWritten
    <2>5. CASE \E w \in Listed : StopContainer(w) \/ GetLog(w)
      <3>1. PICK w \in Words : StopContainer(w) \/ GetLog(w)
        BY <2>5 DEF Listed
      <3>2. CASE StopContainer(w)
        BY <2>1, <3>2 DEF StopContainer, Receive, RequestWritten
      <3>3. CASE GetLog(w)
        BY <2>1, <3>3 DEF GetLog, Receive, RequestWritten
      <3> QED BY <3>1, <3>2, <3>3
    <2>6. CASE GetExecutedContainers \/ GetContainersInfo \/ CreateDDSInstance
      BY <2>1, <2>6
      DEF GetExecutedContainers, GetContainersInfo, CreateDDSInstance, Receive,
          RequestWritten
    <2> QED BY <2>2, <2>3, <2>4, <2>5, <2>6 DEF Requests
  <1>4. Starting' /\ SuccessIsOwnStart'
    BY <1>1 DEF Starting, SuccessIsOwnStart, Answered
  <1>5. AbsentIsUnspent' /\ NameIsSpent'
    BY <1>1 DEF IInv, AbsentIsUnspent, NameIsSpent
  <1> QED BY <1>2, <1>3, <1>4, <1>5 DEF IInv

\* What the handler cuts out of a start request.
LEMMA StartRequest ==
  ASSUME RequestWritten, request.command = "execRoboContainer"
  PROVE  /\ Name \in Words /\ LaunchDir \in Words
         /\ asked.name \in Seq(Words)
PROOF
  <1>1. PICK user \in Fields, dir \in Fields, name \in Fields, image \in Images :
               /\ Written(user, dir, name, image)
               /\ asked = [user |-> user, dir |-> dir, name |-> name, image |-> image]
    BY Zenon DEF RequestWritten
  <1>2. LaunchDir \in Words /\ Name \in Words
    BY <1>1, StartWords, Zenon
  <1>3. asked.name \in Seq(Words)
    BY <1>1, HandlerAssumption DEF HandlerAssumption
  <1> QED BY <1>2, <1>3

\* What it cuts out of one that it accepts is what the caller asked for, unless the
\* name is all blanks.
LEMMA ParsedRequest ==
  ASSUME RequestWritten, request.command = "execRoboContainer", JsonParses
  PROVE  LET blank == {i \in DOMAIN asked.name : asked.name[i] \in Blanks}
         IN  blank # DOMAIN asked.name =>
               /\ blank = DOMAIN asked.name \ {1}
               /\ asked.name[1] = Name /\ Name \notin Blanks
               /\ asked.dir = <<LaunchDir>> /\ asked.image = Config
PROOF
  <1> DEFINE blank == {i \in DOMAIN asked.name : asked.name[i] \in Blanks}
  <1> SUFFICES ASSUME blank # DOMAIN asked.name
               PROVE  /\ blank = DOMAIN asked.name \ {1}
                      /\ asked.name[1] = Name /\ Name \notin Blanks
                      /\ asked.dir = <<LaunchDir>> /\ asked.image = Config
    OBVIOUS
  <1>1. PICK user \in Fields, dir \in Fields, name \in Fields, image \in Images :
               /\ Written(user, dir, name, image)
               /\ asked = [user |-> user, dir |-> dir, name |-> name, image |-> image]
    BY Zenon DEF RequestWritten
  <1>2. asked.name = name /\ asked.dir = dir /\ asked.image = image
    BY <1>1
  <1>3. \A i \in DOMAIN name : name[i] \notin Blanks =>
          i = 1 /\ name[1] = Name /\ dir = <<LaunchDir>>
    <2> TAKE i \in DOMAIN name
    <2> HAVE name[i] \notin Blanks
    <2> QED BY <1>1, ParsedFields, Zenon
  <1>4. PICK i \in DOMAIN name : name[i] \notin Blanks
    BY <1>2
  <1>5. i = 1 /\ name[1] = Name /\ dir = <<LaunchDir>> /\ Name \notin Blanks
    BY <1>3, <1>4
  <1>6. blank = DOMAIN name \ {1}
    BY <1>2, <1>3, <1>4, <1>5
  <1>7. Config = image
    BY <1>1, StartWords, Zenon
  <1> QED BY <1>2, <1>5, <1>6, <1>7

\* What the client writes, the server reads.
LEMMA WrittenIsRead == RequestWritten => OneWordFieldsAreRead
PROOF
  <1> SUFFICES ASSUME RequestWritten, Executing("execRoboContainer"),
                      Len(asked.user) = 1, Len(asked.dir) = 1,
                      \A i \in 2 .. Len(asked.name) : asked.name[i] \in Blanks
               PROVE  /\ JsonParses
                      /\ Name = asked.name[1] /\ LaunchDir = asked.dir[1]
                      /\ Config = asked.image
    BY DEF OneWordFieldsAreRead
  <1>1. PICK user \in Fields, dir \in Fields, name \in Fields, image \in Images :
               /\ Written(user, dir, name, image)
               /\ asked = [user |-> user, dir |-> dir, name |-> name, image |-> image]
    BY Zenon DEF RequestWritten, Executing
  <1>2. asked.user = user /\ asked.name = name /\ asked.dir = dir /\ asked.image = image
    BY <1>1
  <1>3. /\ Len(user) = 1 /\ Len(dir) = 1
        /\ \A i \in 2 .. Len(name) : name[i] \in Blanks
    BY <1>2
  <1>4. JsonParses /\ Name = name[1] /\ LaunchDir = dir[1] /\ Config = image
    BY <1>1, <1>3, OneWordsParse, Zenon
  <1> QED BY <1>2, <1>4

\* Steps that change no container, or let one that was running end.
LEMMA SettlePreservesIInv ==
  ASSUME IInv,
         UNCHANGED <<request, asked, handled, successes, err_create>>,
         images' \subseteq Images,
         discovery' \in {"none", "up", "failed"},
         env' \in BOOLEAN,
         \/ UNCHANGED containers
         \/ \E w \in Words :
              /\ containers[w].state = "running"
              /\ containers' = [containers EXCEPT ![w].state = "exited"],
         \/ UNCHANGED <<stage, reply>>
         \/ /\ stage # "idle" /\ stage' \in {"idle", "dead"}
            /\ request.command # "execRoboContainer"
  PROVE  IInv'
PROOF
  <1>1. /\ containers' \in [Words -> Container]
        /\ \A w \in Words :
             /\ containers'[w].image = containers[w].image
             /\ containers'[w].dir = containers[w].dir
             /\ containers'[w].by = containers[w].by
             /\ containers'[w].started = containers[w].started
             /\ containers'[w].state = "absent" => containers[w].state = "absent"
             /\ containers[w].state = "created" => containers'[w] = containers[w]
    <2>1. CASE UNCHANGED containers
      BY <2>1 DEF IInv, TypeOK
    <2>2. CASE \E w \in Words :
                 /\ containers[w].state = "running"
                 /\ containers' = [containers EXCEPT ![w].state = "exited"]
      BY <2>2 DEF IInv, TypeOK, Container
    <2> QED BY <2>1, <2>2
  <1>2. TypeOK'
    BY <1>1 DEF IInv, TypeOK
  <1>3. RequestWritten'
    BY ZenonT(60) DEF IInv, RequestWritten, Written
  <1>4. /\ Name' = Name /\ Config' = Config /\ LaunchDir' = LaunchDir
        /\ JsonParses' = JsonParses
    BY DEF Name, Json, LaunchDir, Config, JsonParses
  <1>5. request.command = "execRoboContainer" => Name \in Words
    BY StartRequest DEF IInv
  <1>6. Starting'
    BY <1>1, <1>4, <1>5 DEF IInv, Starting
  <1>7. AbsentIsUnspent' /\ NameIsSpent'
    BY <1>1 DEF IInv, AbsentIsUnspent, NameIsSpent
  <1>8. SuccessIsOwnStart'
    <2> SUFFICES ASSUME stage = "idle", stage' = stage, reply' = reply,
                        request.command = "execRoboContainer", reply = "Success"
                 PROVE  SuccessIsOwnStart'
      BY DEF SuccessIsOwnStart, Answered
    <2>1. Name \in Words
      BY <1>5
    <2>2. /\ containers'[Name].by = containers[Name].by
          /\ containers'[Name].started = containers[Name].started
          /\ containers'[Name].dir = containers[Name].dir
          /\ containers'[Name].image = containers[Name].image
      BY <1>1, <2>1
    <2> DEFINE blank == {i \in DOMAIN asked.name : asked.name[i] \in Blanks}
    <2>3. /\ Name \notin Blanks =>
               containers[Name].by = handled /\ containers[Name].started = handled
          /\ blank # DOMAIN asked.name =>
               /\ blank = DOMAIN asked.name \ {1} /\ asked.name[1] = Name
               /\ asked.dir = <<containers[Name].dir>>
               /\ asked.image = containers[Name].image
      BY DEF IInv, SuccessIsOwnStart, Answered
    <2> QED BY <1>4, <2>2, <2>3 DEF SuccessIsOwnStart
  <1> QED BY <1>2, <1>3, <1>6, <1>7, <1>8 DEF IInv

\* createContainer(): it makes the container of the request, or nothing.
LEMMA CreatePreservesIInv ==
  ASSUME IInv, NEW err \in BOOLEAN, CreateContainer(err)
  PROVE  IInv'
PROOF
  <1>1. /\ stage = "executing" /\ request.command = "execRoboContainer" /\ JsonParses
        /\ err_create' = err /\ stage' = "starting"
        /\ UNCHANGED <<images, discovery, env, request, asked, reply, handled, successes>>
    BY DEF CreateContainer, EngineCreates, Executing, dds, Refused, engine
  <1>2. /\ Name' = Name /\ Config' = Config /\ LaunchDir' = LaunchDir
        /\ JsonParses' = JsonParses
    BY <1>1 DEF Name, Json, Config, LaunchDir, JsonParses
  <1>3. Name \in Words /\ LaunchDir \in Words /\ Config \in Images
    BY <1>1, StartRequest DEF IInv, JsonParses
  <1>4. handled \in 1 .. MaxRequests
    BY <1>1 DEF IInv, TypeOK, RequestWritten
  <1> DEFINE new == [state |-> "created", image |-> Config, dir |-> LaunchDir,
                     by |-> handled, started |-> 0]
  <1>5. new \in Container
    <2>1. 0 \in 0 .. MaxRequests /\ handled \in 0 .. MaxRequests
      BY <1>4, HandlerAssumption DEF HandlerAssumption
    <2> QED BY <1>3, <2>1 DEF Container
  <1>6. RequestWritten' /\ SuccessIsOwnStart'
    BY <1>1 DEF IInv, RequestWritten, Written, SuccessIsOwnStart, Answered
  <1>7. CASE (err \/ Name \in Blanks) /\ UNCHANGED containers
    <2>1. TypeOK'
      BY <1>1, <1>7 DEF IInv, TypeOK
    <2>2. Starting'
      BY <1>1, <1>2, <1>7 DEF Starting
    <2>3. AbsentIsUnspent' /\ NameIsSpent'
      BY <1>1, <1>7 DEF IInv, AbsentIsUnspent, NameIsSpent
    <2> QED BY <1>6, <2>1, <2>2, <2>3 DEF IInv
  <1>8. CASE /\ containers[Name].state = "absent"
             /\ containers' = [containers EXCEPT ![Name] = new]
    <2>1. /\ containers' \in [Words -> Container]
          /\ containers'[Name] = new
          /\ \A w \in Words \ {Name} : containers'[w] = containers[w]
      BY <1>3, <1>5, <1>8 DEF IInv, TypeOK
    <2>2. TypeOK'
      BY <1>1, <2>1 DEF IInv, TypeOK
    <2>3. Starting'
      BY <1>1, <1>2, <2>1 DEF Starting
    <2>4. Name \notin Blanks => successes[Name] = {}
      BY <1>3, <1>8 DEF IInv, AbsentIsUnspent
    <2>5. AbsentIsUnspent' /\ NameIsSpent'
      BY <1>1, <2>1, <2>4 DEF IInv, AbsentIsUnspent, NameIsSpent
    <2> QED BY <1>6, <2>2, <2>3, <2>5 DEF IInv
  <1> QED BY <1>7, <1>8 DEF CreateContainer, EngineCreates, Refused, engine

\* containerStart(): only a start that follows its own create succeeds.
LEMMA StartPreservesIInv ==
  ASSUME IInv, NEW err \in BOOLEAN, ContainerStart(err)
  PROVE  IInv'
PROOF
  <1>1. /\ stage = "starting" /\ stage' = "idle"
        /\ reply' = IF err_create \/ err THEN "Failure" ELSE "Success"
        /\ UNCHANGED <<images, discovery, env, request, asked, handled, err_create>>
    BY DEF ContainerStart, EngineStarts, Refused, engine, Answer, Result, dds
  <1>2. request.command = "execRoboContainer" /\ JsonParses
    BY <1>1 DEF IInv, Starting
  <1>3. /\ Name' = Name /\ Config' = Config /\ LaunchDir' = LaunchDir
        /\ JsonParses' = JsonParses
    BY <1>1 DEF Name, Json, Config, LaunchDir, JsonParses
  <1>4. Name \in Words
    BY <1>2, StartRequest DEF IInv
  <1>5. handled \in 1 .. MaxRequests
    BY <1>1 DEF IInv, TypeOK, RequestWritten
  <1>6. /\ containers' \in [Words -> Container]
        /\ \A w \in Words :
             /\ containers'[w].image = containers[w].image
             /\ containers'[w].dir = containers[w].dir
             /\ containers'[w].by = containers[w].by
             /\ containers'[w].state = "absent" => containers[w].state = "absent"
    <2>1. CASE UNCHANGED containers
      BY <2>1 DEF IInv, TypeOK
    <2>2. CASE containers' = [containers EXCEPT ![Name].state = "running",
                                                ![Name].started = handled]
      <3>1. containers \in [Words -> Container]
        BY DEF IInv, TypeOK
      <3>2. containers'[Name] = [containers[Name] EXCEPT !.state = "running",
                                                        !.started = handled]
        BY <1>4, <2>2, <3>1
      <3>3. \A w \in Words : w # Name => containers'[w] = containers[w]
        BY <2>2, <3>1
      <3>4. /\ containers'[Name] \in Container
            /\ containers'[Name].image = containers[Name].image
            /\ containers'[Name].dir = containers[Name].dir
            /\ containers'[Name].by = containers[Name].by
            /\ containers'[Name].state = "running"
        <4>1. containers[Name] \in Container
          BY <1>4, <3>1
        <4>2. ASSUME NEW c \in Container, NEW d,
                     d = [c EXCEPT !.state = "running", !.started = handled]
              PROVE  /\ d \in Container /\ d.state = "running"
                     /\ d.image = c.image /\ d.dir = c.dir /\ d.by = c.by
          <5>1. handled \in 0 .. MaxRequests
            BY <1>5
          <5> QED BY <4>2, <5>1 DEF Container
        <4> QED BY <3>2, <4>1, <4>2, Zenon
      <3>5. containers' \in [Words -> Container]
        BY <1>4, <2>2, <3>1, <3>3, <3>4
      <3> QED BY <3>3, <3>4, <3>5
    <2> QED BY <2>1, <2>2 DEF ContainerStart, EngineStarts, Refused, engine
  <1>7. RequestWritten' /\ Starting'
    BY <1>1 DEF IInv, RequestWritten, Written, Starting
  <1>8. CASE err_create \/ err
    <2>1. UNCHANGED successes
      BY <1>4, <1>8 DEF ContainerStart, IInv, TypeOK
    <2>2. TypeOK'
      BY <1>1, <1>6, <2>1 DEF IInv, TypeOK
    <2>3. AbsentIsUnspent' /\ NameIsSpent'
      BY <1>6, <2>1 DEF IInv, AbsentIsUnspent, NameIsSpent
    <2>4. SuccessIsOwnStart'
      BY <1>1, <1>8 DEF SuccessIsOwnStart, Answered
    <2> QED BY <1>7, <2>2, <2>3, <2>4 DEF IInv
  <1>9. CASE ~err_create /\ ~err
    <2>1. successes' = [successes EXCEPT ![Name] = @ \cup {handled}]
      BY <1>4, <1>9 DEF ContainerStart, IInv, TypeOK
    <2>2. TypeOK'
      <3>1. successes' \in [Words -> SUBSET (1 .. MaxRequests)]
        BY <1>4, <1>5, <2>1 DEF IInv, TypeOK
      <3> QED BY <1>1, <1>6, <3>1 DEF IInv, TypeOK
    <2>3. CASE Name \in Blanks
      <3>1. \A w \in Words \ Blanks : successes'[w] = successes[w]
        BY <1>4, <2>1, <2>3 DEF IInv, TypeOK
      <3>2. AbsentIsUnspent' /\ NameIsSpent'
        BY <1>6, <3>1 DEF IInv, AbsentIsUnspent, NameIsSpent
      <3> DEFINE blank == {i \in DOMAIN asked.name : asked.name[i] \in Blanks}
      <3>3. blank = DOMAIN asked.name
        BY <1>2, <2>3, ParsedRequest DEF IInv
      <3>4. SuccessIsOwnStart'
        BY <1>1, <1>3, <2>3, <3>3 DEF SuccessIsOwnStart
      <3> QED BY <1>7, <2>2, <3>2, <3>4 DEF IInv
    <2>4. CASE Name \notin Blanks
      <3>1. containers[Name] = [state |-> "created", image |-> Config, dir |-> LaunchDir,
                                by |-> handled, started |-> 0]
        BY <1>1, <1>9, <2>4 DEF IInv, Starting
      <3>2. containers' = [containers EXCEPT ![Name].state = "running",
                                             ![Name].started = handled]
        BY <1>9, <2>4, <3>1 DEF ContainerStart, EngineStarts, Refused
      <3>3. /\ containers'[Name].state = "running" /\ containers'[Name].started = handled
            /\ containers'[Name].by = handled /\ containers'[Name].dir = LaunchDir
            /\ containers'[Name].image = Config
        BY <1>4, <3>1, <3>2 DEF IInv, TypeOK
      <3>4. NameIsSpent'
        BY <1>4, <1>6, <2>1, <3>3 DEF IInv, TypeOK, NameIsSpent
      <3>5. AbsentIsUnspent'
        BY <1>4, <1>6, <2>1, <3>3 DEF IInv, TypeOK, AbsentIsUnspent
      <3> DEFINE blank == {i \in DOMAIN asked.name : asked.name[i] \in Blanks}
      <3>6. blank # DOMAIN asked.name =>
              /\ blank = DOMAIN asked.name \ {1} /\ asked.name[1] = Name
              /\ asked.dir = <<LaunchDir>> /\ asked.image = Config
        BY <1>2, ParsedRequest DEF IInv
      <3>7. SuccessIsOwnStart'
        BY <1>1, <1>3, <3>3, <3>6 DEF SuccessIsOwnStart
      <3> QED BY <1>7, <2>2, <3>4, <3>5, <3>7 DEF IInv
    <2> QED BY <2>3, <2>4
  <1> QED BY <1>8, <1>9

\* The server ends before the engine is called.
LEMMA ThrowsPreserveIInv ==
  ASSUME IInv, ParseThrows \/ LookupThrows
  PROVE  IInv'
PROOF
  <1>1. /\ stage = "executing" /\ stage' = "dead"
        /\ UNCHANGED <<images, containers, discovery, env, request, asked, err_create,
                       reply, handled, successes>>
    BY DEF ParseThrows, LookupThrows, Executing, Die, engine, dds
  <1>2. TypeOK'
    BY <1>1 DEF IInv, TypeOK
  <1>3. RequestWritten'
    BY <1>1 DEF IInv, RequestWritten, Written
  <1>4. AbsentIsUnspent' /\ NameIsSpent'
    BY <1>1 DEF IInv, AbsentIsUnspent, NameIsSpent
  <1>5. Starting' /\ SuccessIsOwnStart'
    BY <1>1 DEF Starting, SuccessIsOwnStart, Answered
  <1> QED BY <1>2, <1>3, <1>4, <1>5 DEF IInv

\* The other executors.
LEMMA ExecutePreservesIInv ==
  ASSUME IInv, Execute
  PROVE  IInv'
PROOF
  <1> USE DEF Executing, Answer, Die, engine, dds
  <1> DEFINE Rest == /\ UNCHANGED <<request, asked, handled, successes, err_create>>
                     /\ stage # "idle" /\ stage' \in {"idle", "dead"}
                     /\ request.command # "execRoboContainer"
  <1>1. CASE ParseThrows \/ LookupThrows
    BY <1>1, ThrowsPreserveIInv
  <1>2. CASE \E err \in BOOLEAN : CreateContainer(err)
    BY <1>2, CreatePreservesIInv
  <1>3. CASE \E err \in BOOLEAN : ContainerStart(err)
    BY <1>3, StartPreservesIInv
  <1>4. CASE \/ \E err \in BOOLEAN : ContainerList(err) \/ ContainerLog(err)
             \/ ImageList \/ ImageListAborts \/ ForkThrows
    <2>1. Rest /\ UNCHANGED <<images, containers, discovery, env>>
      BY <1>4 DEF ContainerList, ContainerLog, ImageList, ImageListAborts, ForkThrows
    <2>2. images \subseteq Images /\ discovery \in {"none", "up", "failed"} /\ env \in BOOLEAN
      BY DEF IInv, TypeOK
    <2> QED BY <2>1, <2>2, SettlePreservesIInv
  <1>5. CASE \E err \in BOOLEAN : ContainerStop(err)
    <2>1. Rest /\ UNCHANGED <<images, discovery, env>>
      BY <1>5 DEF ContainerStop, Refused
    <2>2. request.command = "stopRoboContainer"
      BY <1>5 DEF ContainerStop
    <2>3. request.words[1] \in Words
      BY <2>2 DEF IInv, RequestWritten
    <2>4. \/ UNCHANGED containers
          \/ \E w \in Words :
               /\ containers[w].state = "running"
               /\ containers' = [containers EXCEPT ![w].state = "exited"]
      BY <1>5, <2>3 DEF ContainerStop, Refused
    <2>5. images \subseteq Images /\ discovery \in {"none", "up", "failed"} /\ env \in BOOLEAN
      BY DEF IInv, TypeOK
    <2> QED BY <2>1, <2>4, <2>5, SettlePreservesIInv
  <1>6. CASE \E err \in BOOLEAN : ImageRemove(err) \/ ImageBuild(err)
    <2>1. Rest /\ UNCHANGED <<containers, discovery, env>>
      BY <1>6 DEF ImageRemove, ImageBuild, Refused
    <2>2. request.command \in {"buildRoboImage", "deleteRoboImage"}
      BY <1>6 DEF ImageRemove, ImageBuild
    <2>3. request.words[1] \in Images
      BY <2>2 DEF IInv, RequestWritten
    <2>4. images \subseteq Images /\ discovery \in {"none", "up", "failed"} /\ env \in BOOLEAN
      BY DEF IInv, TypeOK
    <2>5. images' \subseteq Images
      BY <1>6, <2>3, <2>4 DEF ImageRemove, ImageBuild, Refused
    <2> QED BY <2>1, <2>4, <2>5, SettlePreservesIInv
  <1>7. CASE \E fate \in {"up", "failed"}, set \in BOOLEAN : StartDDS(fate, set)
    <2>1. Rest /\ UNCHANGED <<images, containers>>
      BY <1>7 DEF StartDDS
    <2>2. images \subseteq Images /\ env \in BOOLEAN
      BY DEF IInv, TypeOK
    <2>3. discovery' \in {"none", "up", "failed"} /\ env' \in BOOLEAN
      BY <1>7 DEF StartDDS
    <2> QED BY <2>1, <2>2, <2>3, SettlePreservesIInv
  <1> QED BY <1>1, <1>2, <1>3, <1>4, <1>5, <1>6, <1>7 DEF Execute

LEMMA NextPreservesIInv == IInv /\ [Next]_vars => IInv'
PROOF
  <1> SUFFICES ASSUME IInv, [Next]_vars
               PROVE  IInv'
    OBVIOUS
  <1>1. images \subseteq Images /\ discovery \in {"none", "up", "failed"} /\ env \in BOOLEAN
    BY DEF IInv, TypeOK
  <1>2. CASE Requests
    BY <1>2, ReceivePreservesIInv
  <1>3. CASE Execute
    BY <1>3, ExecutePreservesIInv
  <1>4. CASE \E w \in Words : ContainerExits(w)
    <2>1. /\ UNCHANGED <<images, discovery, env, stage, request, asked, err_create, reply,
                         handled, successes>>
          /\ \E w \in Words :
               /\ containers[w].state = "running"
               /\ containers' = [containers EXCEPT ![w].state = "exited"]
      BY <1>4 DEF ContainerExits, dds
    <2> QED BY <1>1, <2>1, SettlePreservesIInv
  <1>5. CASE UNCHANGED vars
    <2>1. UNCHANGED <<images, containers, discovery, env, stage, request, asked, err_create,
                      reply, handled, successes>>
      BY <1>5 DEF vars, engine, dds
    <2> QED BY <1>1, <2>1, SettlePreservesIInv
  <1> QED BY <1>2, <1>3, <1>4, <1>5 DEF Next

LEMMA Invariant == Spec => []IInv
PROOF BY InitIInv, NextPreservesIInv, PTL DEF Spec

-----------------------------------------------------------------------------
\* The variables hold values of their types, for every set of words, fields and
\* images: what the executors cut out of a request is what they take it for.
THEOREM TypeCorrect == Spec => []TypeOK
PROOF
  <1>1. IInv => TypeOK
    BY DEF IInv
  <1> QED BY <1>1, Invariant, PTL

\* RoboContainerExec answers "Success" only for a container that this request
\* created and started; when the caller gave it a name, with his launch directory
\* and image.
THEOREM SuccessIsOwnStartHolds == Spec => []SuccessIsOwnStart
PROOF
  <1>1. IInv => SuccessIsOwnStart
    BY DEF IInv
  <1> QED BY <1>1, Invariant, PTL

\* No name but a blank one is answered "Success" by two starts, nor by one that did not create
\* its container.
THEOREM NameIsSpentHolds == Spec => []NameIsSpent
PROOF
  <1>1. IInv => NameIsSpent
    BY DEF IInv
  <1> QED BY <1>1, Invariant, PTL

\* A start whose fields are one word each is parsed, whatever the words, and the
\* server reads every part of it as the client meant it.
THEOREM OneWordFieldsAreReadHolds == Spec => []OneWordFieldsAreRead
PROOF
  <1>1. IInv => OneWordFieldsAreRead
    BY WrittenIsRead DEF IInv
  <1> QED BY <1>1, Invariant, PTL

=============================================================================
