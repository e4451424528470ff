------------------------- MODULE ServerWidgetProofs -------------------------
(***************************************************************************)
(* Proofs about ServerWidget: the GUI implements the client that           *)
(* MessageHandler assumes, so that the theorems of MessageHandlerProofs    *)
(* hold of the whole, and its tables keep what they promise.               *)
(***************************************************************************)
EXTENDS ServerWidget, MessageHandlerProofs

-----------------------------------------------------------------------------
(***************************************************************************)
(* What the executors leave behind them.                                   *)
(***************************************************************************)

\* A container was started if it runs or has run, and a request that is not yet
\* answered is in nobody's successes.
StartedRan ==
  \A w \in Words :
    containers[w].started > 0 <=> containers[w].state \in {"running", "exited"}

Unanswered ==
  \A w \in Words : \A n \in successes[w] :
    n <= handled /\ (stage \in {"executing", "starting"} => n < handled)

\* A container that runs after a step of an executor ran before it, and was left
\* alone; or it was started, and that is a success only if it was answered so.
RunsAppear ==
  \A w \in Running' :
    \/ /\ w \in Running
       /\ containers'[w].started = containers[w].started
       /\ successes'[w] = successes[w]
    \/ request.command = "execRoboContainer" /\ stage' = "idle" /\ reply' = "Success"
    \/ request.command = "execRoboContainer" /\ containers'[w].started \notin successes'[w]

\* The lists are answered by their own executors, and images change by theirs.
AnswersMatch ==
  /\ (stage' = "idle" /\ reply' = "images") => request.command = "getRoboContainerInfo"
  /\ (stage' = "idle" /\ reply' = "list") => request.command = "getExecutedRoboContainer"
  /\ (stage' = "idle" /\ request.command = "getRoboContainerInfo") => reply' = "images"
  /\ (stage' = "idle" /\ request.command = "getExecutedRoboContainer") =>
       reply' \in {"list", "empty list"}
  /\ images' # images =>
       stage' = "idle" /\ request.command \in {"deleteRoboImage", "buildRoboImage"}

ExecuteEffects ==
  /\ stage \in {"executing", "starting"}
  /\ UNCHANGED <<request, handled>>
  /\ stage' \in {"starting", "idle", "dead"}
  /\ StartedRan' /\ Unanswered'
  /\ Listed \subseteq Listed'
  /\ RunsAppear
  /\ AnswersMatch

\* Every executor, by what its steps write.
LEMMA ExecuteWrites ==
  ASSUME IInv, StartedRan, Unanswered, Execute
  PROVE  ExecuteEffects
PROOF
  <1>1. /\ containers \in [Words -> Container] /\ handled \in Nat
        /\ successes \in [Words -> SUBSET (1 .. MaxRequests)]
        /\ \A w \in Words : containers[w].started \in Nat
    BY HandlerAssumption DEF IInv, TypeOK, Container, HandlerAssumption
  <1>2. ASSUME UNCHANGED <<request, handled, containers, successes>>,
               stage \in {"executing", "starting"}, stage' \in {"starting", "idle", "dead"},
               AnswersMatch
        PROVE  ExecuteEffects
    BY <1>2 DEF ExecuteEffects, StartedRan, Unanswered, Listed, Running, RunsAppear
  <1>3. CASE ParseThrows \/ LookupThrows \/ ImageListAborts \/ ForkThrows
    <2>1. /\ UNCHANGED <<request, handled, containers, successes, images>>
          /\ stage = "executing" /\ stage' = "dead"
      BY <1>3
         DEF ParseThrows, LookupThrows, ImageListAborts, ForkThrows, Executing, Die, engine
    <2> QED BY <1>2, <2>1 DEF AnswersMatch
  <1>4. CASE ImageList
    BY <1>2, <1>4 DEF ImageList, Executing, Answer, engine, AnswersMatch
  <1>5. ASSUME NEW fate \in {"up", "failed"}, NEW set \in BOOLEAN, StartDDS(fate, set)
        PROVE  ExecuteEffects
    BY <1>2, <1>5 DEF StartDDS, Executing, Answer, engine, AnswersMatch
  <1>6. ASSUME NEW err \in BOOLEAN, ContainerList(err) \/ ContainerLog(err)
        PROVE  ExecuteEffects
    BY <1>2, <1>6 DEF ContainerList, ContainerLog, Executing, Answer, Result, engine,
                AnswersMatch
  <1>7. ASSUME NEW err \in BOOLEAN, ImageRemove(err) \/ ImageBuild(err)
        PROVE  ExecuteEffects
    BY <1>2, <1>7 DEF ImageRemove, ImageBuild, Refused, Executing, Answer, Result, engine,
                      AnswersMatch
  <1>8. ASSUME NEW err \in BOOLEAN, ContainerStop(err)
        PROVE  ExecuteEffects
    <2> DEFINE id == request.words[1]
    <2>2. /\ stage = "executing" /\ stage' = "idle"
          /\ UNCHANGED <<request, handled, images, successes>>
          /\ request.command = "stopRoboContainer"
          /\ reply' \in {"Success", "Failure"}
      BY <1>8 DEF ContainerStop, Refused, Executing, Answer, Result, engine
    <2>3. id \in Words
      BY <2>2 DEF IInv, RequestWritten
    <2>4. \/ UNCHANGED containers
          \/ containers[id].state = "running"
             /\ containers' = [containers EXCEPT ![id].state = "exited"]
      BY <1>8 DEF ContainerStop, Refused, engine
    <2> HIDE DEF id
    <2>5. \A w \in Words :
             /\ containers'[w].started = containers[w].started
             /\ containers'[w].state = containers[w].state
                \/ (containers[w].state = "running" /\ containers'[w].state = "exited")
      BY <1>1, <2>3, <2>4 DEF Container
    <2>6. AnswersMatch
      BY <2>2 DEF AnswersMatch
    <2> QED BY <2>2, <2>5, <2>6 DEF ExecuteEffects, StartedRan, Unanswered, Listed,
                Running, RunsAppear
  <1>9. ASSUME NEW err \in BOOLEAN, CreateContainer(err)
        PROVE  ExecuteEffects
    <2>2. /\ stage = "executing" /\ stage' = "starting"
          /\ UNCHANGED <<request, handled, images, successes>>
          /\ request.command = "execRoboContainer" /\ JsonParses
      BY <1>9 DEF CreateContainer, EngineCreates, Refused, Executing, engine
    <2>3. Name \in Words
      BY <2>2, StartRequest DEF IInv
    <2>4. \/ UNCHANGED containers
          \/ /\ containers[Name].state = "absent"
             /\ containers' = [containers EXCEPT
                  ![Name] = [state |-> "created", image |-> Config, dir |-> LaunchDir,
                             by |-> handled, started |-> 0]]
      BY <1>9 DEF CreateContainer, EngineCreates, Refused, engine
    <2>5. \A w \in Words :
             \/ containers'[w] = containers[w]
             \/ /\ containers[w].state = "absent"
                /\ containers'[w].state = "created" /\ containers'[w].started = 0
      BY <1>1, <2>3, <2>4
    <2>6. AnswersMatch
      BY <2>2 DEF AnswersMatch
    <2>7. \A w \in Words : containers[w].state = "absent" => ~(containers[w].started > 0)
      BY DEF StartedRan
    <2>8. StartedRan' /\ Listed \subseteq Listed'
      BY <1>1, <2>5, <2>7 DEF StartedRan, Listed
    <2>9. Unanswered'
      BY <2>2 DEF Unanswered
    <2>10. RunsAppear
      BY <2>2, <2>5 DEF RunsAppear, Running
    <2> QED BY <2>2, <2>6, <2>8, <2>9, <2>10 DEF ExecuteEffects
  <1>10. ASSUME NEW err \in BOOLEAN, ContainerStart(err)
        PROVE  ExecuteEffects
    <2>2. /\ stage = "starting" /\ stage' = "idle" /\ UNCHANGED <<request, handled, images>>
          /\ request.command = "execRoboContainer"
          /\ reply' \in {"Success", "Failure"}
          /\ reply' # "Success" => UNCHANGED successes
          /\ successes' = [successes EXCEPT
               ![Name] = IF err_create \/ err THEN @ ELSE @ \cup {handled}]
      BY <1>10 DEF ContainerStart, EngineStarts, Refused, Answer, Result, engine, IInv,
                  Starting,
                  TypeOK
    <2>3. Name \in Words
      BY <2>2, StartRequest DEF IInv, Starting
    <2>4. handled > 0
      BY <2>2 DEF IInv, RequestWritten
    <2>5. \/ UNCHANGED containers
          \/ containers' = [containers EXCEPT
               ![Name].state = "running", ![Name].started = handled]
      BY <1>10 DEF ContainerStart, EngineStarts, Refused, engine
    <2>6. \A w \in Words :
             \/ containers'[w] = containers[w]
             \/ containers'[w].state = "running" /\ containers'[w].started = handled
      BY <1>1, <2>3, <2>5 DEF Container
    <2>7. \A w \in Words : successes'[w] \subseteq successes[w] \cup {handled}
      BY <1>1, <2>2
    <2>8. StartedRan' /\ Listed \subseteq Listed'
      BY <1>1, <2>4, <2>6 DEF StartedRan, Listed
    <2>9. Unanswered'
      BY <1>1, <2>2, <2>7 DEF Unanswered
    <2>10. \A w \in Words : handled \notin successes[w]
      BY <1>1, <2>2 DEF Unanswered
    <2>11. RunsAppear
      BY <2>2, <2>6, <2>10 DEF RunsAppear, Running
    <2>12. AnswersMatch
      BY <2>2 DEF AnswersMatch
    <2> QED BY <2>2, <2>8, <2>9, <2>11, <2>12 DEF ExecuteEffects
  <1> QED
    BY <1>3, <1>4, <1>5, <1>6, <1>7, <1>8, <1>9, <1>10, Zenon DEF Execute

-----------------------------------------------------------------------------
(***************************************************************************)
(* The inductive invariant of the GUI.                                     *)
(***************************************************************************)

\* Where the GUI thread waits tells which request is being answered.
Asked ==
  /\ gui \in {"idle", "read containers", "image box", "create box", "stopped box",
             "dead"} =>
       stage = "idle"
  /\ gui = "creating" => request.command = "execDDSServer" /\ wgt_stack = 0
  /\ gui \in {"clicked", "reread images"} => request.command = "getRoboContainerInfo"
  /\ gui = "list containers" => request.command = "getExecutedRoboContainer"
  /\ gui = "building" => request.command = "buildRoboImage"
  /\ gui = "starting" => request.command = "execRoboContainer"
  /\ gui = "deleting" => request.command = "deleteRoboImage"
  /\ gui = "stopping" => request.command = "stopRoboContainer"
  /\ gui = "taking log" => request.command = "getRoboLog" /\ request.words[1] \in Words

\* What was answered, and waits for the GUI thread.
AnswersKnown ==
  stage = "idle" =>
    /\ gui \in {"clicked", "reread images"} => data = images
    /\ gui = "list containers" =>
         /\ data \in {ran, {}}
         /\ Running \subseteq ran
         /\ ran \subseteq Listed

\* The table of images was read when nothing could change it any more.
ImagesKnown ==
  (\/ gui \in {"read containers", "list containers", "create box", "starting", "stopping",
               "stopped box", "taking log"}
   \/ gui = "idle" /\ wgt_stack = 1
   \/ gui \in {"building", "deleting"} /\ stage # "idle") =>
    name_table = images \/ unsure

\* A container that runs beside the table was a failure, until the table is read.
RunsKnown ==
  ~(\/ gui \in {"read containers", "list containers"}
    \/ gui = "starting" /\ stage = "idle" /\ reply = "Success") =>
    \A w \in Running \ run_table :
      containers[w].started \notin successes[w] \/ run_table # ran

WidgetIInv ==
  /\ StartedRan
  /\ Unanswered
  /\ WidgetTypeOK
  /\ run_table \subseteq Listed
  /\ Asked
  /\ AnswersKnown
  /\ ImagesKnown
  /\ RunsKnown

-----------------------------------------------------------------------------
\* At first no table shows anything.
LEMMA InitWidgetIInv == WidgetInit => WidgetIInv
PROOF
  <1> SUFFICES ASSUME WidgetInit PROVE WidgetIInv
    OBVIOUS
  <1> USE HandlerAssumption, IndexAssumption
      DEF HandlerAssumption, IndexAssumption, WidgetInit, Init, NoBox
  <1>1. StartedRan /\ Unanswered
    BY DEF StartedRan, Unanswered, NoContainer
  <1>2. WidgetTypeOK
    BY DEF WidgetTypeOK, Places
  <1>3. Asked /\ AnswersKnown /\ ImagesKnown /\ RunsKnown
    BY DEF Asked, AnswersKnown, ImagesKnown, RunsKnown, Running,
           NoContainer
  <1> QED BY <1>1, <1>2, <1>3 DEF WidgetIInv

\* What a call leaves alone.
LEMMA Requested ==
  ASSUME IInv, WidgetIInv, Requests
  PROVE  /\ stage = "idle" /\ stage' = "executing" /\ handled' = handled + 1
         /\ UNCHANGED <<images, containers, successes>>
         /\ StartedRan' /\ Unanswered'
PROOF
  <1>1. /\ stage = "idle" /\ stage' = "executing" /\ handled' = handled + 1
        /\ UNCHANGED <<images, containers, successes>>
    BY DEF Requests, StartContainer, BuildImage, DeleteImage, StopContainer, GetLog,
           GetExecutedContainers, GetContainersInfo, CreateDDSInstance, Receive, engine
  <1>2. StartedRan'
    BY <1>1 DEF WidgetIInv, StartedRan
  <1>3. Unanswered'
    <2>1. handled \in Nat /\ \A w \in Words : successes[w] \subseteq Nat
      BY HandlerAssumption DEF HandlerAssumption, IInv, TypeOK
    <2> QED BY <1>1, <2>1 DEF WidgetIInv, Unanswered
  <1> QED BY <1>1, <1>2, <1>3

(***************************************************************************)
(* The steps that make a call: they are requests of MessageHandler.        *)
(***************************************************************************)

\* CreateServer leaves the tables, and shows the list.
LEMMA CreateServerCalls ==
  ASSUME IInv, WidgetIInv, CreateServer
  PROVE  Requests /\ WidgetIInv'
PROOF
  <1>1. Requests
    BY IndexAssumption DEF WidgetIInv, WidgetTypeOK, IndexAssumption, CreateServer, Call,
                CreateDDSInstance, Requests
  <1>2. /\ stage = "idle" /\ stage' = "executing"
        /\ UNCHANGED <<images, containers, successes>>
        /\ StartedRan' /\ Unanswered'
    BY <1>1, Requested
  <1>3. WidgetTypeOK' /\ (run_table \subseteq Listed)'
    BY <1>2 DEF WidgetIInv, WidgetTypeOK, Listed, Places, CreateServer,
                Call, widget, tables, answer, createBox
  <1>4. Asked'
    BY <1>2 DEF WidgetIInv, WidgetTypeOK, Listed, Asked, CreateServer, Call,
                CreateDDSInstance, Receive
  <1>5. AnswersKnown' /\ ImagesKnown'
    BY <1>2 DEF WidgetIInv, AnswersKnown, ImagesKnown, CreateServer, UserActs,
                TablesShown, Call, widget, tables, answer
  <1>6. RunsKnown'
    BY <1>2 DEF WidgetIInv, RunsKnown, Running, CreateServer, UserActs, TablesShown, Call,
                widget, tables, answer
  <1> QED BY <1>1, <1>2, <1>3, <1>4, <1>5, <1>6 DEF WidgetIInv

\* The tables are about to be read.
LEMMA OnServerClickedCalls ==
  ASSUME IInv, WidgetIInv, OnServerClicked
  PROVE  Requests /\ WidgetIInv'
PROOF
  <1>1. Requests
    BY IndexAssumption DEF WidgetIInv, WidgetTypeOK, IndexAssumption, OnServerClicked,
                Call, GetContainersInfo, Requests
  <1>2. /\ stage = "idle" /\ stage' = "executing"
        /\ UNCHANGED <<images, containers, successes>>
        /\ StartedRan' /\ Unanswered'
    BY <1>1, Requested
  <1>3. WidgetTypeOK' /\ (run_table \subseteq Listed)'
    BY <1>2 DEF WidgetIInv, WidgetTypeOK, Listed, Places,
                OnServerClicked, Call, widget, tables, answer, createBox
  <1>4. Asked'
    BY <1>2 DEF WidgetIInv, WidgetTypeOK, Listed, Asked, OnServerClicked, Call,
                GetContainersInfo, Receive
  <1>5. AnswersKnown' /\ ImagesKnown'
    BY <1>2 DEF WidgetIInv, AnswersKnown, ImagesKnown, OnServerClicked, UserActs,
                TablesShown, Call, widget, tables, answer
  <1>6. RunsKnown'
    BY <1>2 DEF WidgetIInv, RunsKnown, Running, OnServerClicked, UserActs, TablesShown,
                Call, widget, tables, answer
  <1> QED BY <1>1, <1>2, <1>3, <1>4, <1>5, <1>6 DEF WidgetIInv

\* The images have been read, or a container was stopped.
LEMMA ReadContainersCalls ==
  ASSUME IInv, WidgetIInv, ReadContainers
  PROVE  Requests /\ WidgetIInv'
PROOF
  <1>1. Requests
    BY IndexAssumption DEF WidgetIInv, WidgetTypeOK, IndexAssumption, ReadContainers,
                Call, GetExecutedContainers, Requests
  <1>2. /\ stage = "idle" /\ stage' = "executing"
        /\ UNCHANGED <<images, containers, successes>>
        /\ StartedRan' /\ Unanswered'
    BY <1>1, Requested
  <1>3. WidgetTypeOK' /\ (run_table \subseteq Listed)'
    BY <1>2 DEF WidgetIInv, WidgetTypeOK, Listed, Places,
                ReadContainers, Call, widget, tables, answer, createBox
  <1>4. Asked'
    BY <1>2 DEF WidgetIInv, WidgetTypeOK, Listed, Asked, ReadContainers, Call,
                GetExecutedContainers, Receive
  <1>5. AnswersKnown' /\ ImagesKnown'
    BY <1>2 DEF WidgetIInv, AnswersKnown, ImagesKnown, ReadContainers, UserActs,
                TablesShown, Call, widget, tables, answer
  <1>6. RunsKnown'
    BY <1>2 DEF WidgetIInv, RunsKnown, Running, ReadContainers, UserActs, TablesShown,
                Call, widget, tables, answer
  <1> QED BY <1>1, <1>2, <1>3, <1>4, <1>5, <1>6 DEF WidgetIInv

\* The line is one of index.txt, so that its image is a known one.
LEMMA BuildCalls ==
  ASSUME IInv, WidgetIInv, NEW line \in build_table, NEW user \in Fields, Build(line, user)
  PROVE  Requests /\ WidgetIInv'
PROOF
  <1>1. Requests
    BY IndexAssumption DEF WidgetIInv, WidgetTypeOK, IndexAssumption, Build, Call,
                BuildImage, Requests
  <1>2. /\ stage = "idle" /\ stage' = "executing"
        /\ UNCHANGED <<images, containers, successes>>
        /\ StartedRan' /\ Unanswered'
    BY <1>1, Requested
  <1>3. WidgetTypeOK' /\ (run_table \subseteq Listed)'
    BY <1>2 DEF WidgetIInv, WidgetTypeOK, Listed, Places, Build, Call,
                widget, tables, answer, createBox
  <1>4. Asked'
    BY <1>2 DEF WidgetIInv, WidgetTypeOK, Listed, Asked, Build, Call, BuildImage, Receive
  <1>5. AnswersKnown' /\ ImagesKnown'
    BY <1>2 DEF WidgetIInv, AnswersKnown, ImagesKnown, Build, UserActs, TablesShown, Call,
                widget, tables, answer
  <1>6. RunsKnown'
    BY <1>2 DEF WidgetIInv, RunsKnown, Running, Build, UserActs, TablesShown, Call,
                widget, tables, answer
  <1> QED BY <1>1, <1>2, <1>3, <1>4, <1>5, <1>6 DEF WidgetIInv

\* A build or a delete was answered with Success.
LEMMA ReadImagesCalls ==
  ASSUME IInv, WidgetIInv, ReadImages
  PROVE  Requests /\ WidgetIInv'
PROOF
  <1>1. Requests
    BY IndexAssumption DEF WidgetIInv, WidgetTypeOK, IndexAssumption, ReadImages, Call,
                GetContainersInfo, Requests
  <1>2. /\ stage = "idle" /\ stage' = "executing"
        /\ UNCHANGED <<images, containers, successes>>
        /\ StartedRan' /\ Unanswered'
    BY <1>1, Requested
  <1>3. WidgetTypeOK' /\ (run_table \subseteq Listed)'
    BY <1>2 DEF WidgetIInv, WidgetTypeOK, Listed, Places, ReadImages,
                Call, widget, tables, answer, createBox
  <1>4. Asked'
    BY <1>2 DEF WidgetIInv, WidgetTypeOK, Listed, Asked, ReadImages, Call,
                GetContainersInfo, Receive
  <1>5. AnswersKnown' /\ ImagesKnown'
    BY <1>2 DEF WidgetIInv, AnswersKnown, ImagesKnown, ReadImages, UserActs, TablesShown,
                Call, widget, tables, answer
  <1>6. RunsKnown'
    BY <1>2 DEF WidgetIInv, RunsKnown, Running, ReadImages, UserActs, TablesShown, Call,
                widget, tables, answer
  <1> QED BY <1>1, <1>2, <1>3, <1>4, <1>5, <1>6 DEF WidgetIInv

\* The image is a row of the table, so that it is a known one.
LEMMA AcceptCreateBoxCalls ==
  ASSUME IInv, WidgetIInv, NEW user \in Fields, NEW dir \in Fields, NEW name \in Fields,
         NEW image \in name_table, AcceptCreateBox(user, dir, name, image)
  PROVE  Requests /\ WidgetIInv'
PROOF
  <1>1. Requests
    BY IndexAssumption DEF WidgetIInv, WidgetTypeOK, IndexAssumption, AcceptCreateBox,
                Call, StartContainer, Requests
  <1>2. /\ stage = "idle" /\ stage' = "executing"
        /\ UNCHANGED <<images, containers, successes>>
        /\ StartedRan' /\ Unanswered'
    BY <1>1, Requested
  <1>3. WidgetTypeOK' /\ (run_table \subseteq Listed)'
    BY <1>2 DEF WidgetIInv, WidgetTypeOK, Listed, Places,
                AcceptCreateBox, Call, widget, tables, answer, createBox
  <1>4. Asked'
    BY <1>2 DEF WidgetIInv, WidgetTypeOK, Listed, Asked, AcceptCreateBox, Call,
                StartContainer, Receive
  <1>5. AnswersKnown' /\ ImagesKnown'
    BY <1>2 DEF WidgetIInv, AnswersKnown, ImagesKnown, AcceptCreateBox, UserActs,
                TablesShown, Call, widget, tables, answer
  <1>6. RunsKnown'
    BY <1>2 DEF WidgetIInv, RunsKnown, Running, AcceptCreateBox, UserActs, TablesShown,
                Call, widget, tables, answer
  <1> QED BY <1>1, <1>2, <1>3, <1>4, <1>5, <1>6 DEF WidgetIInv

\* Likewise.
LEMMA DeleteCalls ==
  ASSUME IInv, WidgetIInv, NEW image \in name_table, Delete(image)
  PROVE  Requests /\ WidgetIInv'
PROOF
  <1>1. Requests
    BY IndexAssumption DEF WidgetIInv, WidgetTypeOK, IndexAssumption, Delete, Call,
                DeleteImage, Requests
  <1>2. /\ stage = "idle" /\ stage' = "executing"
        /\ UNCHANGED <<images, containers, successes>>
        /\ StartedRan' /\ Unanswered'
    BY <1>1, Requested
  <1>3. WidgetTypeOK' /\ (run_table \subseteq Listed)'
    BY <1>2 DEF WidgetIInv, WidgetTypeOK, Listed, Places, Delete, Call,
                widget, tables, answer, createBox
  <1>4. Asked'
    BY <1>2 DEF WidgetIInv, WidgetTypeOK, Listed, Asked, Delete, Call, DeleteImage, Receive
  <1>5. AnswersKnown' /\ ImagesKnown'
    BY <1>2 DEF WidgetIInv, AnswersKnown, ImagesKnown, Delete, UserActs, TablesShown,
                Call, widget, tables, answer
  <1>6. RunsKnown'
    BY <1>2 DEF WidgetIInv, RunsKnown, Running, Delete, UserActs, TablesShown, Call,
                widget, tables, answer
  <1> QED BY <1>1, <1>2, <1>3, <1>4, <1>5, <1>6 DEF WidgetIInv

\* The container is a row of the table, so that it has been running.
LEMMA StopCalls ==
  ASSUME IInv, WidgetIInv, NEW w \in run_table, Stop(w)
  PROVE  Requests /\ WidgetIInv'
PROOF
  <1>1. Requests
    BY IndexAssumption DEF WidgetIInv, WidgetTypeOK, IndexAssumption, Stop, Call,
                StopContainer, Requests
  <1>2. /\ stage = "idle" /\ stage' = "executing"
        /\ UNCHANGED <<images, containers, successes>>
        /\ StartedRan' /\ Unanswered'
    BY <1>1, Requested
  <1>3. WidgetTypeOK' /\ (run_table \subseteq Listed)'
    BY <1>2 DEF WidgetIInv, WidgetTypeOK, Listed, Places, Stop, Call,
                widget, tables, answer, createBox
  <1>4. Asked'
    BY <1>2 DEF WidgetIInv, WidgetTypeOK, Listed, Asked, Stop, Call, StopContainer, Receive
  <1>5. AnswersKnown' /\ ImagesKnown'
    BY <1>2 DEF WidgetIInv, AnswersKnown, ImagesKnown, Stop, UserActs, TablesShown, Call,
                widget, tables, answer
  <1>6. RunsKnown'
    BY <1>2 DEF WidgetIInv, RunsKnown, Running, Stop, UserActs, TablesShown, Call, widget,
                tables, answer
  <1> QED BY <1>1, <1>2, <1>3, <1>4, <1>5, <1>6 DEF WidgetIInv

\* Likewise.
LEMMA TakeLogCalls ==
  ASSUME IInv, WidgetIInv, NEW w \in run_table, TakeLog(w)
  PROVE  Requests /\ WidgetIInv'
PROOF
  <1>1. Requests
    BY IndexAssumption DEF WidgetIInv, WidgetTypeOK, IndexAssumption, TakeLog, Call,
                GetLog, Requests
  <1>2. /\ stage = "idle" /\ stage' = "executing"
        /\ UNCHANGED <<images, containers, successes>>
        /\ StartedRan' /\ Unanswered'
    BY <1>1, Requested
  <1>3. WidgetTypeOK' /\ (run_table \subseteq Listed)'
    BY <1>2 DEF WidgetIInv, WidgetTypeOK, Listed, Places, TakeLog, Call,
                widget, tables, answer, createBox
  <1>4. Asked'
    BY <1>2 DEF WidgetIInv, WidgetTypeOK, Listed, Asked, TakeLog, Call, GetLog, Receive
  <1>5. AnswersKnown' /\ ImagesKnown'
    BY <1>2 DEF WidgetIInv, AnswersKnown, ImagesKnown, TakeLog, UserActs, TablesShown,
                Call, widget, tables, answer
  <1>6. RunsKnown'
    BY <1>2 DEF WidgetIInv, RunsKnown, Running, TakeLog, UserActs, TablesShown, Call,
                widget, tables, answer
  <1> QED BY <1>1, <1>2, <1>3, <1>4, <1>5, <1>6 DEF WidgetIInv

(***************************************************************************)
(* The steps that read an answer, or only move the GUI.                    *)
(***************************************************************************)

\* The list of servers stays in front.
LEMMA ServerCreatedGoes ==
  ASSUME IInv, WidgetIInv, ServerCreated
  PROVE  UNCHANGED vars /\ WidgetIInv'
PROOF
  <1>1. UNCHANGED vars
    BY DEF ServerCreated, Returned
  <1>2. /\ UNCHANGED <<images, containers, successes, stage, handled, request, reply>>
        /\ StartedRan' /\ Unanswered'
    BY <1>1 DEF vars, engine, WidgetIInv, StartedRan, Unanswered
  <1>3. WidgetTypeOK' /\ (run_table \subseteq Listed)'
    BY <1>2 DEF IInv, TypeOK, WidgetIInv, WidgetTypeOK, Listed, AnswersKnown, Asked,
                Places, ServerCreated, Returned, NoBoxNext, widget,
                tables, answer, createBox
  <1>4. Asked'
    BY <1>2 DEF WidgetIInv, Asked, ServerCreated, UserActs, TablesShown, Returned
  <1>5. AnswersKnown' /\ ImagesKnown'
    BY <1>2 DEF WidgetIInv, WidgetTypeOK, Asked, AnswersKnown, ImagesKnown, ServerCreated,
                UserActs, TablesShown, Returned, widget, tables, answer, Running, Listed
  <1>6. RunsKnown'
    BY <1>2 DEF WidgetIInv, RunsKnown, AnswersKnown, Running, ServerCreated, UserActs,
                TablesShown, Returned, widget, tables, answer
  <1> QED BY <1>1, <1>2, <1>3, <1>4, <1>5, <1>6 DEF WidgetIInv

\* The images are those that the answer lists.
LEMMA FillTablesGoes ==
  ASSUME IInv, WidgetIInv, FillTables
  PROVE  UNCHANGED vars /\ WidgetIInv'
PROOF
  <1>1. UNCHANGED vars
    BY DEF FillTables, Returned
  <1>2. /\ UNCHANGED <<images, containers, successes, stage, handled, request, reply>>
        /\ StartedRan' /\ Unanswered'
    BY <1>1 DEF vars, engine, WidgetIInv, StartedRan, Unanswered
  <1>3. WidgetTypeOK' /\ (run_table \subseteq Listed)'
    BY <1>2 DEF IInv, TypeOK, WidgetIInv, WidgetTypeOK, Listed, AnswersKnown, Asked,
                Places, FillTables, Returned, NoBoxNext, widget, tables,
                answer, createBox
  <1>4. Asked'
    BY <1>2 DEF WidgetIInv, Asked, FillTables, UserActs, TablesShown, Returned
  <1>5. AnswersKnown' /\ ImagesKnown'
    BY <1>2 DEF WidgetIInv, WidgetTypeOK, AnswersKnown, ImagesKnown, FillTables, UserActs,
                TablesShown, Returned, widget, tables, answer, Running, Listed
  <1>6. RunsKnown'
    BY <1>2 DEF WidgetIInv, RunsKnown, AnswersKnown, Running, FillTables, UserActs,
                TablesShown, Returned, widget, tables, answer
  <1> QED BY <1>1, <1>2, <1>3, <1>4, <1>5, <1>6 DEF WidgetIInv

\* A target of index.txt has a space in it.
LEMMA ClientParseThrowsGoes ==
  ASSUME IInv, WidgetIInv, ClientParseThrows
  PROVE  UNCHANGED vars /\ WidgetIInv'
PROOF
  <1>1. UNCHANGED vars
    BY DEF ClientParseThrows, Returned
  <1>2. /\ UNCHANGED <<images, containers, successes, stage, handled, request, reply>>
        /\ StartedRan' /\ Unanswered'
    BY <1>1 DEF vars, engine, WidgetIInv, StartedRan, Unanswered
  <1>3. WidgetTypeOK' /\ (run_table \subseteq Listed)'
    <2>1. UNCHANGED <<index, listed, wgt_stack, build_table, name_table, run_table,
                      container_log, tty_, checked_tty, unsure, link, data, ran>> /\ gui' = "dead"
      BY DEF ClientParseThrows, Returned, widget, tables, createBox, answer
    <2> QED BY <1>2, <2>1 DEF WidgetIInv, WidgetTypeOK, Listed, Places
  <1>4. Asked'
    BY <1>2 DEF WidgetIInv, Asked, ClientParseThrows, UserActs, TablesShown, Returned
  <1>5. AnswersKnown' /\ ImagesKnown'
    BY <1>2 DEF WidgetIInv, WidgetTypeOK, AnswersKnown, ImagesKnown, ClientParseThrows,
                UserActs, TablesShown, Returned, widget, tables, answer, Running, Listed
  <1>6. RunsKnown'
    BY <1>2 DEF WidgetIInv, RunsKnown, AnswersKnown, Running, ClientParseThrows, UserActs,
                TablesShown, Returned, widget, tables, answer
  <1> QED BY <1>1, <1>2, <1>3, <1>4, <1>5, <1>6 DEF WidgetIInv

\* The containers are those that the answer lists, or none.
LEMMA FillRunTableGoes ==
  ASSUME IInv, WidgetIInv, FillRunTable
  PROVE  UNCHANGED vars /\ WidgetIInv'
PROOF
  <1>1. UNCHANGED vars
    BY DEF FillRunTable, Returned
  <1>2. /\ UNCHANGED <<images, containers, successes, stage, handled, request, reply>>
        /\ StartedRan' /\ Unanswered'
    BY <1>1 DEF vars, engine, WidgetIInv, StartedRan, Unanswered
  <1>3. WidgetTypeOK' /\ (run_table \subseteq Listed)'
    BY <1>2 DEF IInv, TypeOK, WidgetIInv, WidgetTypeOK, Listed, AnswersKnown, Asked,
                Places, FillRunTable, Returned, NoBoxNext, widget,
                tables, answer, createBox
  <1>4. Asked'
    BY <1>2 DEF WidgetIInv, Asked, FillRunTable, UserActs, TablesShown, Returned
  <1>5. AnswersKnown' /\ ImagesKnown'
    BY <1>2 DEF WidgetIInv, WidgetTypeOK, AnswersKnown, ImagesKnown, FillRunTable,
                UserActs, TablesShown, Returned, widget, tables, answer, Running, Listed
  <1>6. RunsKnown'
    BY <1>2 DEF WidgetIInv, RunsKnown, AnswersKnown, Running, FillRunTable, UserActs,
                TablesShown, Returned, widget, tables, answer
  <1> QED BY <1>1, <1>2, <1>3, <1>4, <1>5, <1>6 DEF WidgetIInv

\* A failure makes the table of images unsure.
LEMMA ImageBuiltGoes ==
  ASSUME IInv, WidgetIInv, ImageBuilt
  PROVE  UNCHANGED vars /\ WidgetIInv'
PROOF
  <1>1. UNCHANGED vars
    BY DEF ImageBuilt, Returned
  <1>2. /\ UNCHANGED <<images, containers, successes, stage, handled, request, reply>>
        /\ StartedRan' /\ Unanswered'
    BY <1>1 DEF vars, engine, WidgetIInv, StartedRan, Unanswered
  <1>3. WidgetTypeOK' /\ (run_table \subseteq Listed)'
    BY <1>2 DEF IInv, TypeOK, WidgetIInv, WidgetTypeOK, Listed, AnswersKnown, Asked,
                Places, ImageBuilt, Returned, NoBoxNext, widget, tables,
                answer, createBox
  <1>4. Asked'
    BY <1>2 DEF WidgetIInv, Asked, ImageBuilt, UserActs, TablesShown, Returned
  <1>5. AnswersKnown' /\ ImagesKnown'
    BY <1>2 DEF WidgetIInv, WidgetTypeOK, AnswersKnown, ImagesKnown, ImageBuilt, UserActs,
                TablesShown, Returned, widget, tables, answer, Running, Listed
  <1>6. RunsKnown'
    BY <1>2 DEF WidgetIInv, RunsKnown, AnswersKnown, Running, ImageBuilt, UserActs,
                TablesShown, Returned, widget, tables, answer
  <1> QED BY <1>1, <1>2, <1>3, <1>4, <1>5, <1>6 DEF WidgetIInv

\* The images are those that the answer lists.
LEMMA FillNameTableGoes ==
  ASSUME IInv, WidgetIInv, FillNameTable
  PROVE  UNCHANGED vars /\ WidgetIInv'
PROOF
  <1>1. UNCHANGED vars
    BY DEF FillNameTable, Returned
  <1>2. /\ UNCHANGED <<images, containers, successes, stage, handled, request, reply>>
        /\ StartedRan' /\ Unanswered'
    BY <1>1 DEF vars, engine, WidgetIInv, StartedRan, Unanswered
  <1>3. WidgetTypeOK' /\ (run_table \subseteq Listed)'
    BY <1>2 DEF IInv, TypeOK, WidgetIInv, WidgetTypeOK, Listed, AnswersKnown, Asked,
                Places, FillNameTable, Returned, NoBoxNext, widget,
                tables, answer, createBox
  <1>4. Asked'
    BY <1>2 DEF WidgetIInv, Asked, FillNameTable, UserActs, TablesShown, Returned
  <1>5. AnswersKnown' /\ ImagesKnown'
    BY <1>2 DEF WidgetIInv, WidgetTypeOK, AnswersKnown, ImagesKnown, FillNameTable,
                UserActs, TablesShown, Returned, widget, tables, answer, Running, Listed
  <1>6. RunsKnown'
    BY <1>2 DEF WidgetIInv, RunsKnown, AnswersKnown, Running, FillNameTable, UserActs,
                TablesShown, Returned, widget, tables, answer
  <1> QED BY <1>1, <1>2, <1>3, <1>4, <1>5, <1>6 DEF WidgetIInv

\* A failure leaves the table as it is.
LEMMA ContainerStartedGoes ==
  ASSUME IInv, WidgetIInv, ContainerStarted
  PROVE  UNCHANGED vars /\ WidgetIInv'
PROOF
  <1>1. UNCHANGED vars
    BY DEF ContainerStarted, Returned
  <1>2. /\ UNCHANGED <<images, containers, successes, stage, handled, request, reply>>
        /\ StartedRan' /\ Unanswered'
    BY <1>1 DEF vars, engine, WidgetIInv, StartedRan, Unanswered
  <1>3. WidgetTypeOK' /\ (run_table \subseteq Listed)'
    BY <1>2 DEF IInv, TypeOK, WidgetIInv, WidgetTypeOK, Listed, AnswersKnown, Asked,
                Places, ContainerStarted, Returned, NoBoxNext, widget,
                tables, answer, createBox
  <1>4. Asked'
    BY <1>2 DEF WidgetIInv, Asked, ContainerStarted, UserActs, TablesShown, Returned
  <1>5. AnswersKnown' /\ ImagesKnown'
    BY <1>2 DEF WidgetIInv, WidgetTypeOK, AnswersKnown, ImagesKnown, ContainerStarted,
                UserActs, TablesShown, Returned, widget, tables, answer, Running, Listed
  <1>6. RunsKnown'
    BY <1>2 DEF WidgetIInv, RunsKnown, AnswersKnown, Running, ContainerStarted, UserActs,
                TablesShown, Returned, widget, tables, answer
  <1> QED BY <1>1, <1>2, <1>3, <1>4, <1>5, <1>6 DEF WidgetIInv

\* A failure makes the table of images unsure.
LEMMA ImageDeletedGoes ==
  ASSUME IInv, WidgetIInv, ImageDeleted
  PROVE  UNCHANGED vars /\ WidgetIInv'
PROOF
  <1>1. UNCHANGED vars
    BY DEF ImageDeleted, Returned
  <1>2. /\ UNCHANGED <<images, containers, successes, stage, handled, request, reply>>
        /\ StartedRan' /\ Unanswered'
    BY <1>1 DEF vars, engine, WidgetIInv, StartedRan, Unanswered
  <1>3. WidgetTypeOK' /\ (run_table \subseteq Listed)'
    BY <1>2 DEF IInv, TypeOK, WidgetIInv, WidgetTypeOK, Listed, AnswersKnown, Asked,
                Places, ImageDeleted, Returned, NoBoxNext, widget,
                tables, answer, createBox
  <1>4. Asked'
    BY <1>2 DEF WidgetIInv, Asked, ImageDeleted, UserActs, TablesShown, Returned
  <1>5. AnswersKnown' /\ ImagesKnown'
    BY <1>2 DEF WidgetIInv, WidgetTypeOK, AnswersKnown, ImagesKnown, ImageDeleted,
                UserActs, TablesShown, Returned, widget, tables, answer, Running, Listed
  <1>6. RunsKnown'
    BY <1>2 DEF WidgetIInv, RunsKnown, AnswersKnown, Running, ImageDeleted, UserActs,
                TablesShown, Returned, widget, tables, answer
  <1> QED BY <1>1, <1>2, <1>3, <1>4, <1>5, <1>6 DEF WidgetIInv

\* A failure leaves the table as it is.
LEMMA ContainerStoppedGoes ==
  ASSUME IInv, WidgetIInv, ContainerStopped
  PROVE  UNCHANGED vars /\ WidgetIInv'
PROOF
  <1>1. UNCHANGED vars
    BY DEF ContainerStopped, Returned
  <1>2. /\ UNCHANGED <<images, containers, successes, stage, handled, request, reply>>
        /\ StartedRan' /\ Unanswered'
    BY <1>1 DEF vars, engine, WidgetIInv, StartedRan, Unanswered
  <1>3. WidgetTypeOK' /\ (run_table \subseteq Listed)'
    BY <1>2 DEF IInv, TypeOK, WidgetIInv, WidgetTypeOK, Listed, AnswersKnown, Asked,
                Places, ContainerStopped, Returned, NoBoxNext, widget,
                tables, answer, createBox
  <1>4. Asked'
    BY <1>2 DEF WidgetIInv, Asked, ContainerStopped, UserActs, TablesShown, Returned
  <1>5. AnswersKnown' /\ ImagesKnown'
    BY <1>2 DEF WidgetIInv, WidgetTypeOK, AnswersKnown, ImagesKnown, ContainerStopped,
                UserActs, TablesShown, Returned, widget, tables, answer, Running, Listed
  <1>6. RunsKnown'
    BY <1>2 DEF WidgetIInv, RunsKnown, AnswersKnown, Running, ContainerStopped, UserActs,
                TablesShown, Returned, widget, tables, answer
  <1> QED BY <1>1, <1>2, <1>3, <1>4, <1>5, <1>6 DEF WidgetIInv

\* Only the log changes.
LEMMA LogTakenGoes ==
  ASSUME IInv, WidgetIInv, LogTaken
  PROVE  UNCHANGED vars /\ WidgetIInv'
PROOF
  <1>1. UNCHANGED vars
    BY DEF LogTaken, Returned
  <1>2. /\ UNCHANGED <<images, containers, successes, stage, handled, request, reply>>
        /\ StartedRan' /\ Unanswered'
    BY <1>1 DEF vars, engine, WidgetIInv, StartedRan, Unanswered
  <1>3. WidgetTypeOK' /\ (run_table \subseteq Listed)'
    BY <1>2 DEF IInv, TypeOK, WidgetIInv, WidgetTypeOK, Listed, AnswersKnown, Asked,
                Places, LogTaken, Returned, NoBoxNext, widget, tables,
                answer, createBox
  <1>4. Asked'
    BY <1>2 DEF WidgetIInv, Asked, LogTaken, UserActs, TablesShown, Returned
  <1>5. AnswersKnown' /\ ImagesKnown'
    BY <1>2 DEF WidgetIInv, WidgetTypeOK, AnswersKnown, ImagesKnown, LogTaken, UserActs,
                TablesShown, Returned, widget, tables, answer, Running, Listed
  <1>6. RunsKnown'
    BY <1>2 DEF WidgetIInv, RunsKnown, AnswersKnown, Running, LogTaken, UserActs,
                TablesShown, Returned, widget, tables, answer
  <1> QED BY <1>1, <1>2, <1>3, <1>4, <1>5, <1>6 DEF WidgetIInv

\* Only the page changes.
LEMMA OnServerBackClickedGoes ==
  ASSUME IInv, WidgetIInv, OnServerBackClicked
  PROVE  UNCHANGED vars /\ WidgetIInv'
PROOF
  <1>1. UNCHANGED vars
    BY DEF OnServerBackClicked, Returned
  <1>2. /\ UNCHANGED <<images, containers, successes, stage, handled, request, reply>>
        /\ StartedRan' /\ Unanswered'
    BY <1>1 DEF vars, engine, WidgetIInv, StartedRan, Unanswered
  <1>3. WidgetTypeOK' /\ (run_table \subseteq Listed)'
    BY <1>2 DEF IInv, TypeOK, WidgetIInv, WidgetTypeOK, Listed, AnswersKnown, Asked,
                Places, OnServerBackClicked, Returned, NoBoxNext,
                widget, tables, answer, createBox
  <1>4. Asked'
    BY <1>2 DEF WidgetIInv, Asked, OnServerBackClicked, UserActs, TablesShown, Returned
  <1>5. AnswersKnown' /\ ImagesKnown'
    BY <1>2 DEF WidgetIInv, WidgetTypeOK, AnswersKnown, ImagesKnown, OnServerBackClicked,
                UserActs, TablesShown, Returned, widget, tables, answer, Running, Listed
  <1>6. RunsKnown'
    BY <1>2 DEF WidgetIInv, RunsKnown, AnswersKnown, Running, OnServerBackClicked,
                UserActs, TablesShown, Returned, widget, tables, answer
  <1> QED BY <1>1, <1>2, <1>3, <1>4, <1>5, <1>6 DEF WidgetIInv

\* Only the box changes.
LEMMA OpenCreateBoxGoes ==
  ASSUME IInv, WidgetIInv, OpenCreateBox
  PROVE  UNCHANGED vars /\ WidgetIInv'
PROOF
  <1>1. UNCHANGED vars
    BY DEF OpenCreateBox, Returned
  <1>2. /\ UNCHANGED <<images, containers, successes, stage, handled, request, reply>>
        /\ StartedRan' /\ Unanswered'
    BY <1>1 DEF vars, engine, WidgetIInv, StartedRan, Unanswered
  <1>3. WidgetTypeOK' /\ (run_table \subseteq Listed)'
    BY <1>2 DEF IInv, TypeOK, WidgetIInv, WidgetTypeOK, Listed, AnswersKnown, Asked,
                Places, OpenCreateBox, Returned, NoBoxNext, widget,
                tables, answer, createBox
  <1>4. Asked'
    BY <1>2 DEF WidgetIInv, Asked, OpenCreateBox, UserActs, TablesShown, Returned
  <1>5. AnswersKnown' /\ ImagesKnown'
    BY <1>2 DEF WidgetIInv, WidgetTypeOK, AnswersKnown, ImagesKnown, OpenCreateBox,
                UserActs, TablesShown, Returned, widget, tables, answer, Running, Listed
  <1>6. RunsKnown'
    BY <1>2 DEF WidgetIInv, RunsKnown, AnswersKnown, Running, OpenCreateBox, UserActs,
                TablesShown, Returned, widget, tables, answer
  <1> QED BY <1>1, <1>2, <1>3, <1>4, <1>5, <1>6 DEF WidgetIInv

\* Only the box changes.
LEMMA OnTtyChooseGoes ==
  ASSUME IInv, WidgetIInv, NEW enable \in BOOLEAN, OnTtyChoose(enable)
  PROVE  UNCHANGED vars /\ WidgetIInv'
PROOF
  <1>1. UNCHANGED vars
    BY DEF OnTtyChoose, Returned
  <1>2. /\ UNCHANGED <<images, containers, successes, stage, handled, request, reply>>
        /\ StartedRan' /\ Unanswered'
    BY <1>1 DEF vars, engine, WidgetIInv, StartedRan, Unanswered
  <1>3. WidgetTypeOK' /\ (run_table \subseteq Listed)'
    BY <1>2 DEF IInv, TypeOK, WidgetIInv, WidgetTypeOK, Listed, AnswersKnown, Asked,
                Places, OnTtyChoose, Returned, NoBoxNext, widget,
                tables, answer, createBox
  <1>4. Asked'
    BY <1>2 DEF WidgetIInv, Asked, OnTtyChoose, UserActs, TablesShown, Returned
  <1>5. AnswersKnown' /\ ImagesKnown'
    BY <1>2 DEF WidgetIInv, WidgetTypeOK, AnswersKnown, ImagesKnown, OnTtyChoose,
                UserActs, TablesShown, Returned, widget, tables, answer, Running, Listed
  <1>6. RunsKnown'
    BY <1>2 DEF WidgetIInv, RunsKnown, AnswersKnown, Running, OnTtyChoose, UserActs,
                TablesShown, Returned, widget, tables, answer
  <1> QED BY <1>1, <1>2, <1>3, <1>4, <1>5, <1>6 DEF WidgetIInv

\* Only the box changes.
LEMMA CancelCreateBoxGoes ==
  ASSUME IInv, WidgetIInv, CancelCreateBox
  PROVE  UNCHANGED vars /\ WidgetIInv'
PROOF
  <1>1. UNCHANGED vars
    BY DEF CancelCreateBox, Returned
  <1>2. /\ UNCHANGED <<images, containers, successes, stage, handled, request, reply>>
        /\ StartedRan' /\ Unanswered'
    BY <1>1 DEF vars, engine, WidgetIInv, StartedRan, Unanswered
  <1>3. WidgetTypeOK' /\ (run_table \subseteq Listed)'
    BY <1>2 DEF IInv, TypeOK, WidgetIInv, WidgetTypeOK, Listed, AnswersKnown, Asked,
                Places, CancelCreateBox, Returned, NoBoxNext, widget,
                tables, answer, createBox
  <1>4. Asked'
    BY <1>2 DEF WidgetIInv, Asked, CancelCreateBox, UserActs, TablesShown, Returned
  <1>5. AnswersKnown' /\ ImagesKnown'
    BY <1>2 DEF WidgetIInv, WidgetTypeOK, AnswersKnown, ImagesKnown, CancelCreateBox,
                UserActs, TablesShown, Returned, widget, tables, answer, Running, Listed
  <1>6. RunsKnown'
    BY <1>2 DEF WidgetIInv, RunsKnown, AnswersKnown, Running, CancelCreateBox, UserActs,
                TablesShown, Returned, widget, tables, answer
  <1> QED BY <1>1, <1>2, <1>3, <1>4, <1>5, <1>6 DEF WidgetIInv

(***************************************************************************)
(* The server's steps.                                                     *)
(***************************************************************************)

\* An executor's step, seen from the GUI.
LEMMA ServeGoes ==
  ASSUME IInv, IInv', WidgetIInv, Serve
  PROVE  WidgetIInv'
PROOF
  <1>1. /\ Execute
        /\ UNCHANGED <<index, gui, listed, wgt_stack, build_table, name_table, run_table,
                       container_log, tty_, checked_tty, unsure, link>>
        /\ data' = CASE reply' = "list" -> Running
                     [] reply' = "images" -> images
                     [] OTHER -> {}
        /\ ran' = IF Executing("getExecutedRoboContainer") THEN Running ELSE ran
    BY DEF Serve, widget, tables, createBox
  <1>2. /\ stage \in {"executing", "starting"}
        /\ UNCHANGED <<request, handled>>
        /\ stage' \in {"starting", "idle", "dead"}
        /\ StartedRan' /\ Unanswered'
        /\ Listed \subseteq Listed'
        /\ RunsAppear
        /\ AnswersMatch
    BY <1>1, ExecuteWrites DEF WidgetIInv, ExecuteEffects
  <1>3. Running \subseteq Listed
    BY DEF WidgetIInv, StartedRan, Running, Listed
  <1>4. stage = "starting" => request.command = "execRoboContainer"
    BY DEF IInv, Starting
  <1>5. WidgetTypeOK'
    <2>1. data' \subseteq Words \cup Images /\ ran' \subseteq Words
      BY <1>1 DEF WidgetIInv, WidgetTypeOK, Running, IInv, TypeOK
    <2> QED BY <1>1, <2>1 DEF WidgetIInv, WidgetTypeOK
  <1>6. (run_table \subseteq Listed)' /\ Asked'
    BY <1>1, <1>2 DEF WidgetIInv, Asked
  <1>7. AnswersKnown'
    <2> SUFFICES ASSUME stage' = "idle" PROVE AnswersKnown'
      BY DEF AnswersKnown
    <2>1. gui \in {"clicked", "reread images"} => data' = images'
      BY <1>1, <1>2 DEF WidgetIInv, Asked, AnswersMatch
    <2>2. ASSUME gui = "list containers"
          PROVE  /\ data' \in {ran', {}} /\ ran' = Running
                 /\ Running' \subseteq Running
      <3>1. request.command = "getExecutedRoboContainer" /\ stage = "executing"
        BY <1>2, <1>4, <2>2 DEF WidgetIInv, Asked
      <3>2. ran' = Running /\ reply' \in {"list", "empty list"}
        BY <1>1, <1>2, <3>1 DEF Executing, AnswersMatch
      <3>3. Running' \subseteq Running
        BY <1>2, <3>1 DEF RunsAppear
      <3> QED BY <1>1, <3>2, <3>3
    <2> QED BY <1>1, <1>2, <1>3, <2>1, <2>2 DEF AnswersKnown
  <1>8. ImagesKnown'
    <2>1. CASE images' = images
      BY <1>1, <1>2, <2>1 DEF WidgetIInv, ImagesKnown
    <2>2. CASE images' # images
      <3>1. gui \in {"building", "deleting"}
        <4>1. request.command \in {"deleteRoboImage", "buildRoboImage"}
          BY <1>2, <2>2 DEF AnswersMatch
        <4>2. gui \in Places /\ Asked /\ stage # "idle"
          BY <1>2 DEF WidgetIInv, WidgetTypeOK
        <4>3. /\ gui \notin {"idle", "read containers", "image box", "create box",
                            "stopped box", "dead"}
              /\ gui \notin {"creating", "clicked", "reread images", "list containers"}
          BY <4>1, <4>2 DEF Asked
        <4>4. gui \notin {"starting", "stopping", "taking log"}
          BY <4>1, <4>2 DEF Asked
        <4> QED BY <4>2, <4>3, <4>4 DEF Places
      <3>2. stage' = "idle"
        BY <1>2, <2>2 DEF AnswersMatch
      <3> QED BY <1>1, <3>1, <3>2 DEF ImagesKnown
    <2> QED BY <2>1, <2>2
  <1>9. RunsKnown'
    <2> SUFFICES ASSUME gui # "read containers", gui # "list containers",
                        ~(gui = "starting" /\ stage' = "idle" /\ reply' = "Success"),
                        NEW w \in Running', w \notin run_table, run_table = ran'
                 PROVE  containers'[w].started \notin successes'[w]
      BY <1>1 DEF RunsKnown
    <2>1. ran' = ran
      BY <1>1, <1>2 DEF WidgetIInv, WidgetTypeOK, Places, Asked, Executing
    <2>2. request.command = "execRoboContainer" => gui = "starting"
      BY <1>2 DEF WidgetIInv, WidgetTypeOK, Places, Asked
    <2>3. CASE /\ w \in Running
               /\ containers'[w].started = containers[w].started
               /\ successes'[w] = successes[w]
      BY <1>1, <1>2, <2>1, <2>3 DEF WidgetIInv, RunsKnown
    <2> QED BY <1>2, <2>2, <2>3 DEF RunsAppear
  <1> QED BY <1>2, <1>5, <1>6, <1>7, <1>8, <1>9 DEF WidgetIInv

\* A container that exits leaves the table behind.
LEMMA ExitGoes ==
  ASSUME IInv, WidgetIInv, NEW v \in Words, Exit(v)
  PROVE  WidgetIInv'
PROOF
  <1>1. /\ containers[v].state = "running"
        /\ containers' = [containers EXCEPT ![v].state = "exited"]
        /\ UNCHANGED <<images, stage, request, reply, handled, successes, index, gui,
                       listed, wgt_stack, build_table, name_table, run_table, container_log, tty_,
                       checked_tty, unsure, link, data, ran>>
    BY DEF Exit, ContainerExits, widget, tables, createBox, answer
  <1>2. /\ containers \in [Words -> Container]
        /\ \A w \in Words :
             /\ containers'[w].started = containers[w].started
             /\ \/ containers'[w].state = containers[w].state
                \/ containers[w].state = "running" /\ containers'[w].state = "exited"
    BY <1>1 DEF IInv, TypeOK, Container
  <1>3. StartedRan' /\ Unanswered' /\ Listed' = Listed /\ Running' \subseteq Running
    BY <1>1, <1>2 DEF WidgetIInv, StartedRan, Unanswered, Listed, Running
  <1>4. WidgetTypeOK' /\ (run_table \subseteq Listed)' /\ Asked'
    <2>1. WidgetTypeOK'
      BY <1>1 DEF WidgetIInv, WidgetTypeOK
    <2>2. (run_table \subseteq Listed)'
      BY <1>1, <1>3 DEF WidgetIInv
    <2>3. Asked'
      BY <1>1 DEF WidgetIInv, Asked
    <2> QED BY <2>1, <2>2, <2>3
  <1>5. AnswersKnown' /\ ImagesKnown'
    BY <1>1, <1>3 DEF WidgetIInv, AnswersKnown, ImagesKnown
  <1>6. RunsKnown'
    BY <1>1, <1>2, <1>3 DEF WidgetIInv, RunsKnown, Running
  <1> QED BY <1>3, <1>4, <1>5, <1>6 DEF WidgetIInv

\* The GUI does not notice that the connection is lost.
LEMMA ConnectionLostGoes ==
  ASSUME IInv, WidgetIInv, ConnectionLost
  PROVE  UNCHANGED vars /\ WidgetIInv'
PROOF
  <1>1. UNCHANGED vars
    BY DEF ConnectionLost
  <1>2. UNCHANGED <<images, containers, stage, request, reply, handled, successes>>
    BY <1>1 DEF vars, engine
  <1>3. /\ UNCHANGED <<index, gui, listed, wgt_stack, build_table, name_table, run_table,
                       container_log, tty_, checked_tty, unsure, data, ran>>
        /\ link' = "lost"
    BY DEF ConnectionLost, widget, tables, createBox
  <1>4. StartedRan' /\ Unanswered' /\ Listed' = Listed /\ Running' = Running
    BY <1>2 DEF WidgetIInv, StartedRan, Unanswered, Listed, Running
  <1>5. WidgetTypeOK' /\ (run_table \subseteq Listed)' /\ Asked'
    <2>1. WidgetTypeOK'
      BY <1>3 DEF WidgetIInv, WidgetTypeOK
    <2>2. (run_table \subseteq Listed)'
      BY <1>3, <1>4 DEF WidgetIInv
    <2>3. Asked'
      BY <1>2, <1>3 DEF WidgetIInv, Asked
    <2> QED BY <2>1, <2>2, <2>3
  <1>6. AnswersKnown' /\ ImagesKnown' /\ RunsKnown'
    BY <1>2, <1>3, <1>4 DEF WidgetIInv, AnswersKnown, ImagesKnown, RunsKnown
  <1> QED BY <1>1, <1>4, <1>5, <1>6 DEF WidgetIInv

-----------------------------------------------------------------------------
(***************************************************************************)
(* The refinement, and the theorems.                                       *)
(***************************************************************************)

\* What the user does is a request that MessageHandler allows, or none.
LEMMA UserStepGoes ==
  ASSUME IInv, WidgetIInv, UserStep
  PROVE  (Requests \/ UNCHANGED vars) /\ WidgetIInv'
PROOF
  <1>1. ASSUME NEW line \in build_table, NEW user \in Fields, Build(line, user)
        PROVE  Requests /\ WidgetIInv'
    BY <1>1, BuildCalls
  <1>2. ASSUME NEW enable \in BOOLEAN, OnTtyChoose(enable)
        PROVE  UNCHANGED vars /\ WidgetIInv'
    BY <1>2, OnTtyChooseGoes
  <1>3. ASSUME NEW user \in Fields, NEW dir \in Fields, NEW name \in Fields,
               NEW image \in name_table, AcceptCreateBox(user, dir, name, image)
        PROVE  Requests /\ WidgetIInv'
    BY <1>3, AcceptCreateBoxCalls
  <1>4. ASSUME NEW image \in name_table, Delete(image)
        PROVE  Requests /\ WidgetIInv'
    BY <1>4, DeleteCalls
  <1>5. ASSUME NEW w \in run_table, Stop(w) \/ TakeLog(w)
        PROVE  Requests /\ WidgetIInv'
    BY <1>5, StopCalls, TakeLogCalls
  <1>6. CASE CreateServer
    BY <1>6, CreateServerCalls
  <1>7. CASE OnServerClicked
    BY <1>7, OnServerClickedCalls
  <1>8. CASE OnServerBackClicked
    BY <1>8, OnServerBackClickedGoes
  <1>9. CASE OpenCreateBox
    BY <1>9, OpenCreateBoxGoes
  <1>10. CASE CancelCreateBox
    BY <1>10, CancelCreateBoxGoes
  <1> QED
    BY <1>1, <1>2, <1>3, <1>4, <1>5, <1>6, <1>7, <1>8, <1>9, <1>10, Zenon DEF UserStep

\* Every step of the GUI is one that MessageHandler's clients may take.
LEMMA StepImplements ==
  ASSUME IInv, WidgetIInv, [WidgetNext]_widgetVars
  PROVE  [Next]_vars /\ IInv' /\ WidgetIInv'
PROOF
  <1>1. CASE UserStep
    <2>1. (Requests \/ UNCHANGED vars) /\ WidgetIInv'
      BY <1>1, UserStepGoes
    <2> QED BY <2>1, NextPreservesIInv DEF Next
  <1>2. CASE GuiStep
    <2>1. (Requests \/ UNCHANGED vars) /\ WidgetIInv'
      BY <1>2, ReadContainersCalls, ReadImagesCalls, ServerCreatedGoes, FillTablesGoes,
         ClientParseThrowsGoes, FillRunTableGoes, ImageBuiltGoes, FillNameTableGoes,
         ContainerStartedGoes, ImageDeletedGoes, ContainerStoppedGoes, LogTakenGoes
         DEF GuiStep
    <2> QED BY <2>1, NextPreservesIInv DEF Next
  <1>3. CASE Serve
    <2>1. Next
      BY <1>3 DEF Serve, Next
    <2>2. IInv'
      BY <2>1, NextPreservesIInv
    <2> QED BY <1>3, <2>1, <2>2, ServeGoes
  <1>4. ASSUME NEW w \in Words, Exit(w) PROVE [Next]_vars /\ IInv' /\ WidgetIInv'
    <2>1. Next
      BY <1>4 DEF Exit, Next
    <2> QED BY <1>4, <2>1, NextPreservesIInv, ExitGoes
  <1>5. CASE ConnectionLost
    <2>1. UNCHANGED vars /\ WidgetIInv'
      BY <1>5, ConnectionLostGoes
    <2> QED BY <2>1, NextPreservesIInv
  <1>6. CASE UNCHANGED widgetVars
    <2>1. UNCHANGED vars
      BY <1>6 DEF widgetVars
    <2>2. IInv'
      BY <2>1, NextPreservesIInv
    <2>3. UNCHANGED <<images, containers, stage, request, reply, handled, successes>>
      BY <2>1 DEF vars, engine
    <2>4. UNCHANGED <<index, gui, listed, wgt_stack, build_table, name_table, run_table,
                      container_log, tty_, checked_tty, unsure, link, data, ran>>
      BY <1>6 DEF widgetVars, widget, tables, createBox, answer
    <2>5. StartedRan' /\ Unanswered' /\ Listed' = Listed /\ Running' = Running
      BY <2>3 DEF WidgetIInv, StartedRan, Unanswered, Listed, Running
    <2>6. WidgetTypeOK' /\ (run_table \subseteq Listed)' /\ Asked'
      <3>1. WidgetTypeOK'
        BY <2>4 DEF WidgetIInv, WidgetTypeOK
      <3>2. (run_table \subseteq Listed)'
        BY <2>4, <2>5 DEF WidgetIInv
      <3>3. Asked'
        BY <2>3, <2>4 DEF WidgetIInv, Asked
      <3> QED BY <3>1, <3>2, <3>3
    <2>7. AnswersKnown' /\ ImagesKnown' /\ RunsKnown'
      BY <2>3, <2>4, <2>5 DEF WidgetIInv, AnswersKnown, ImagesKnown, RunsKnown
    <2>8. WidgetIInv'
      BY <2>5, <2>6, <2>7 DEF WidgetIInv
    <2> QED BY <2>1, <2>2, <2>8
  <1> QED BY <1>1, <1>2, <1>3, <1>4, <1>5, <1>6 DEF WidgetNext

\* The invariants of both hold in every state of the GUI.
LEMMA WidgetInvariant == WidgetSpec => [](IInv /\ WidgetIInv)
PROOF
  <1>1. WidgetInit => IInv /\ WidgetIInv
    BY InitIInv, InitWidgetIInv DEF WidgetInit
  <1> QED BY <1>1, StepImplements, PTL DEF WidgetSpec

\* The GUI implements the clients of MessageHandler: what is proved about
\* them holds whatever the user clicks.
THEOREM HandlerImplemented == WidgetSpec => ImplementsHandler
PROOF
  <1>1. WidgetInit => Init
    BY DEF WidgetInit
  <1> QED BY <1>1, WidgetInvariant, StepImplements, PTL DEF WidgetSpec, Spec,
              ImplementsHandler

\* The variables of the GUI keep their types.
THEOREM WidgetTypeCorrect == WidgetSpec => []WidgetTypeOK
PROOF
  <1>1. WidgetIInv => WidgetTypeOK
    BY DEF WidgetIInv
  <1> QED BY <1>1, WidgetInvariant, PTL

\* However the user mixes starts, stops, builds and deletes, a container that runs
\* beside the table was reported as a failure, or the list could not be had.
THEOREM HiddenRunsWereFailuresHolds == WidgetSpec => []HiddenRunsWereFailures
PROOF
  <1>1. WidgetIInv => HiddenRunsWereFailures
    BY DEF WidgetIInv, RunsKnown, HiddenRunsWereFailures
  <1> QED BY <1>1, WidgetInvariant, PTL

\* The table of images is the engine's, but for a failure that was none.
THEOREM ImagesOutdatedByFailureOnlyHolds == WidgetSpec => []ImagesOutdatedByFailureOnly
PROOF
  <1>1. WidgetIInv => ImagesOutdatedByFailureOnly
    BY DEF WidgetIInv, ImagesKnown, ImagesOutdatedByFailureOnly
  <1> QED BY <1>1, WidgetInvariant, PTL

\* What the GUI shows as a success is a container that this request created and
\* started and, when its user gave it a name, the one that he asked for.
THEOREM GuiSuccessIsOwnStart == WidgetSpec => []SuccessIsOwnStart
PROOF
  <1>1. IInv => SuccessIsOwnStart
    BY DEF IInv
  <1> QED BY <1>1, WidgetInvariant, PTL

-----------------------------------------------------------------------------
(***************************************************************************)
(* The calls, one after the other.                                         *)
(***************************************************************************)

\* A method of RoboClient is entered.
Enters == Requests /\ BetweenCalls /\ ~BetweenCalls'

\* It returns, with its answer.
Leaves == ~BetweenCalls /\ stage = "idle" /\ BetweenCalls' /\ UNCHANGED vars

\* The GUI thread moves outside of them.
Elsewhere == BetweenCalls /\ BetweenCalls' /\ UNCHANGED vars

\* Whatever the user clicks, the GUI thread enters a method or stays outside.
LEMMA UserStepCalls ==
  ASSUME IInv, WidgetIInv, UserStep
  PROVE  Enters \/ Elsewhere
PROOF
  <1>1. CASE CreateServer
    BY <1>1, CreateServerCalls DEF CreateServer, Call, UserActs, Enters, BetweenCalls
  <1>2. CASE OnServerClicked
    BY <1>2, OnServerClickedCalls DEF OnServerClicked, Call, UserActs, Enters, BetweenCalls
  <1>3. ASSUME NEW line \in build_table, NEW user \in Fields, Build(line, user)
        PROVE  Enters
    BY <1>3, BuildCalls DEF Build, Call, TablesShown, UserActs, Enters, BetweenCalls
  <1>4. ASSUME NEW user \in Fields, NEW dir \in Fields, NEW name \in Fields,
               NEW image \in name_table, AcceptCreateBox(user, dir, name, image)
        PROVE  Enters
    BY <1>4, AcceptCreateBoxCalls DEF AcceptCreateBox, Call, Enters, BetweenCalls
  <1>5. ASSUME NEW image \in name_table, Delete(image)
        PROVE  Enters
    BY <1>5, DeleteCalls DEF Delete, Call, TablesShown, UserActs, Enters, BetweenCalls
  <1>6. ASSUME NEW w \in run_table, Stop(w) \/ TakeLog(w)
        PROVE  Enters
    BY <1>6, StopCalls, TakeLogCalls
       DEF Stop, TakeLog, Call, TablesShown, UserActs, Enters, BetweenCalls
  <1>7. CASE OnServerBackClicked
    BY <1>7 DEF OnServerBackClicked, Elsewhere, BetweenCalls
  <1>8. CASE OpenCreateBox
    BY <1>8 DEF OpenCreateBox, TablesShown, UserActs, Elsewhere, BetweenCalls
  <1>9. ASSUME NEW enable \in BOOLEAN, OnTtyChoose(enable)
        PROVE  Elsewhere
    BY <1>9 DEF OnTtyChoose, Elsewhere, BetweenCalls
  <1>10. CASE CancelCreateBox
    BY <1>10 DEF CancelCreateBox, Elsewhere, BetweenCalls
  <1> QED
    BY <1>1, <1>2, <1>3, <1>4, <1>5, <1>6, <1>7, <1>8, <1>9, <1>10, Zenon DEF UserStep

\* A slot goes on with an answer or, behind a box or an answer that was taken, with
\* its next call.
LEMMA GuiStepCalls ==
  ASSUME IInv, WidgetIInv, GuiStep
  PROVE  Enters \/ Leaves
PROOF
  <1>1. CASE ReadContainers
    BY <1>1, ReadContainersCalls DEF ReadContainers, Call, Enters, BetweenCalls
  <1>2. CASE ReadImages
    BY <1>2, ReadImagesCalls DEF ReadImages, Call, Enters, BetweenCalls
  <1>3. ASSUME NEW from, NEW next, Returned(from, next),
               from \in {"creating", "clicked", "list containers", "building",
                         "reread images", "starting", "deleting", "stopping",
                         "taking log"},
               next \in {"idle", "read containers", "image box", "stopped box", "dead"}
        PROVE  Leaves
    BY <1>3 DEF Returned, Leaves, BetweenCalls
  <1>4. CASE ServerCreated \/ FillRunTable \/ FillNameTable \/ LogTaken
    BY <1>3, <1>4 DEF ServerCreated, FillRunTable, FillNameTable, LogTaken
  <1>5. CASE FillTables \/ ClientParseThrows
    BY <1>3, <1>5 DEF FillTables, ClientParseThrows
  <1>6. CASE ImageBuilt \/ ImageDeleted
    BY <1>3, <1>6 DEF ImageBuilt, ImageDeleted
  <1>7. CASE ContainerStarted \/ ContainerStopped
    BY <1>3, <1>7 DEF ContainerStarted, ContainerStopped
  <1> QED BY <1>1, <1>2, <1>4, <1>5, <1>6, <1>7 DEF GuiStep

\* The slots are one caller of the service that RobotSession implements, whatever
\* their order, and the executors of MessageHandler serve it: each request is
\* executed once, between its call and its return, and each answer is taken once, by
\* the call it belongs to.
THEOREM CallsImplemented == WidgetSpec => ImplementsRequestReply
PROOF
  <1>1. WidgetInit => RR!Init
    BY DEF WidgetInit, Init, BetweenCalls, RR!Init
  <1>2. ASSUME IInv, WidgetIInv, [WidgetNext]_widgetVars
        PROVE  [RR!Next]_(RR!vars)
    <2>1. handled \in Nat /\ (BetweenCalls => stage = "idle")
      <3>1. handled \in Nat
        BY <1>2, HandlerAssumption DEF HandlerAssumption, IInv, TypeOK
      <3>2. BetweenCalls => stage = "idle"
        BY <1>2 DEF WidgetIInv, Asked, BetweenCalls
      <3> QED BY <3>1, <3>2
    <2>2. CASE Enters
      <3>1. stage = "idle" /\ stage' = "executing" /\ handled' = handled + 1
        BY <1>2, <2>2, Requested DEF Enters
      <3>2. BetweenCalls /\ ~BetweenCalls'
        BY <2>2 DEF Enters
      <3>3. RR!Call
        BY <2>1, <3>1, <3>2 DEF RR!Call
      <3> QED BY <3>3 DEF RR!Next
    <2>3. CASE Leaves
      <3>1. ~BetweenCalls /\ stage = "idle" /\ BetweenCalls'
            /\ stage' = stage /\ handled' = handled
        BY <2>3 DEF Leaves, vars
      <3>2. RR!Return
        BY <2>1, <3>1 DEF RR!Return
      <3> QED BY <3>2 DEF RR!Next
    <2>4. ASSUME BetweenCalls' = BetweenCalls, UNCHANGED <<stage, handled>>
          PROVE  UNCHANGED RR!vars
      BY <2>4 DEF RR!vars
    <2>5. CASE Elsewhere
      BY <2>4, <2>5 DEF Elsewhere, vars
    <2>6. CASE Serve
      <3>1. gui' = gui /\ ExecuteEffects
        BY <1>2, <2>6, ExecuteWrites DEF Serve, WidgetIInv
      <3>2. /\ stage \in {"executing", "starting"} /\ handled' = handled
            /\ stage' \in {"starting", "idle", "dead"}
        BY <3>1 DEF ExecuteEffects
      <3>3. ~BetweenCalls /\ ~BetweenCalls'
        BY <2>1, <3>1, <3>2 DEF BetweenCalls
      <3>4. CASE stage = "executing"
        <4>1. RR!Execute
          BY <2>1, <3>2, <3>3, <3>4 DEF RR!Execute
        <4> QED BY <4>1 DEF RR!Next
      <3>5. CASE stage = "starting"
        BY <3>2, <3>3, <3>5 DEF RR!vars
      <3> QED BY <3>2, <3>4, <3>5
    <2>7. ASSUME NEW w \in Words, Exit(w)
          PROVE  UNCHANGED RR!vars
      <3>1. gui' = gui /\ UNCHANGED <<stage, handled>>
        BY <2>7 DEF Exit, ContainerExits
      <3> QED BY <2>4, <3>1 DEF BetweenCalls
    <2>8. CASE ConnectionLost
      <3>1. gui' = gui /\ UNCHANGED <<stage, handled>>
        BY <2>8 DEF ConnectionLost, vars
      <3> QED BY <2>4, <3>1 DEF BetweenCalls
    <2>9. CASE UNCHANGED widgetVars
      <3>1. gui' = gui /\ UNCHANGED <<stage, handled>>
        BY <2>9 DEF widgetVars, vars
      <3> QED BY <2>4, <3>1 DEF BetweenCalls
    <2>10. CASE UserStep \/ GuiStep
      BY <1>2, <2>2, <2>3, <2>5, <2>10, UserStepCalls, GuiStepCalls
    <2> QED BY <1>2, <2>6, <2>7, <2>8, <2>9, <2>10 DEF WidgetNext
  <1> QED
    BY <1>1, <1>2, WidgetInvariant, PTL DEF WidgetSpec, RR!Spec, ImplementsRequestReply

=============================================================================
