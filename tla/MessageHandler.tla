--------------------------- MODULE MessageHandler ---------------------------
(***************************************************************************)
(* RequestHandler and its eight executors, with the docker engine that     *)
(* they drive and the RoboClient methods that write their requests.  One   *)
(* request is handled at a time: module RobotSession shows that the next   *)
(* one is not sent before.                                                 *)
(*                                                                         *)
(* The data of a request is one string; here it is the sequence of its     *)
(* words, which are what find(" ") and substr() cut it into.  A text field *)
(* is whatever the user typed, so it may hold several words.               *)
(***************************************************************************)
EXTENDS Integers, Sequences

CONSTANTS
  Words,      \* the words that may be typed; one may be empty, between two spaces
  Blanks,     \* the words of whitespace alone, the empty one among them
  Fields,     \* the contents that a text field may have: sequences of words
  Images,     \* images of the docker engine, each standing for its JSON too
  MaxRequests \* bound: requests in a behaviour

ASSUME HandlerAssumption ==
  /\ Fields \subseteq Seq(Words) \ {<<>>}
  /\ Words \cap Images = {}
  /\ Blanks \subseteq Words
  /\ MaxRequests \in Nat

VARIABLES
  images,     \* the images that the engine has
  containers, \* the containers of the engine, by name
  discovery,  \* the last fastdds process started: "none", "up" or "failed"
  env,        \* whether ROS_DISCOVERY_SERVER is set in the server
  stage,      \* "idle", "executing", "starting" or "dead"
  request,    \* the request being handled, or handled last
  asked,      \* ghost: the arguments of the last call of startContainer()
  err_create, \* RoboContainerExec's outcome of createContainer()
  reply,      \* the data of the last response
  handled,    \* number of requests received
  successes   \* ghost: the requests to start a name that were answered "Success"

engine == <<images, containers>>
dds == <<discovery, env>>
vars == <<engine, dds, stage, request, asked, err_create, reply, handled, successes>>

\* by and started are the requests that created and last started a container.
NoContainer == [state |-> "absent", image |-> "none", dir |-> "none", by |-> 0, started |-> 0]
NoRequest == [command |-> "none", words |-> <<>>]
NothingAsked == [user |-> <<>>, dir |-> <<>>, name |-> <<>>, image |-> "none"]

Init ==
  /\ images \in SUBSET Images
  /\ containers = [w \in Words |-> NoContainer]
  /\ discovery = "none"
  /\ env = FALSE
  /\ stage = "idle"
  /\ request = NoRequest
  /\ asked = NothingAsked
  /\ err_create = FALSE
  /\ reply = "none"
  /\ handled = 0
  /\ successes = [w \in Words |-> {}]

-----------------------------------------------------------------------------
(***************************************************************************)
(* The client's side: a RoboClient method writes a request.                *)
(***************************************************************************)

Receive(command, words) ==
  /\ stage = "idle"
  /\ handled < MaxRequests
  /\ handled' = handled + 1
  /\ request' = [command |-> command, words |-> words]
  /\ stage' = "executing"
  /\ UNCHANGED <<engine, dds, err_create, reply, successes>>

\* A broken StartContainer: the launch directory and the name change places.
StartContainerSwapped(user, dir, name, image) ==
  /\ Receive("execRoboContainer", user \o name \o dir \o <<image>>)
  /\ asked' = [user |-> user, dir |-> dir, name |-> name, image |-> image]

StartContainer(user, dir, name, image) ==
  /\ Receive("execRoboContainer", user \o dir \o name \o <<image>>)
  /\ asked' = [user |-> user, dir |-> dir, name |-> name, image |-> image]

BuildImage(image, user) ==
  Receive("buildRoboImage", <<image, "target">> \o user) /\ UNCHANGED asked

DeleteImage(image) == Receive("deleteRoboImage", <<image>>) /\ UNCHANGED asked
StopContainer(w) == Receive("stopRoboContainer", <<w>>) /\ UNCHANGED asked
GetLog(w) == Receive("getRoboLog", <<w>>) /\ UNCHANGED asked
GetExecutedContainers == Receive("getExecutedRoboContainer", <<>>) /\ UNCHANGED asked
GetContainersInfo == Receive("getRoboContainerInfo", <<>>) /\ UNCHANGED asked
CreateDDSInstance == Receive("execDDSServer", <<"0">>) /\ UNCHANGED asked

\* The containers that a call can be about: the GUI takes their ids from a list
\* of running containers that the engine gave once.
Listed == {w \in Words : containers[w].started > 0}

Requests ==
  \/ \E user, dir, name \in Fields, image \in Images : StartContainer(user, dir, name, image)
  \/ \E image \in Images, user \in Fields : BuildImage(image, user)
  \/ \E image \in Images : DeleteImage(image)
  \/ \E w \in Listed : StopContainer(w) \/ GetLog(w)
  \/ GetExecutedContainers
  \/ GetContainersInfo
  \/ CreateDDSInstance

-----------------------------------------------------------------------------
(***************************************************************************)
(* RequestHandler: the executor of the command runs, and answers.          *)
(***************************************************************************)

Executing(command) == stage = "executing" /\ request.command = command

Answer(data) ==
  /\ reply' = data
  /\ stage' = "idle"
  /\ UNCHANGED <<request, asked, handled>>

\* An exception or an abort() on the process thread ends the whole server.
Die ==
  /\ stage' = "dead"
  /\ UNCHANGED <<request, asked, handled, reply, successes, err_create>>

Result(err) == IF err THEN "Failure" ELSE "Success"

\* A call of the engine that changes something: it is refused, or it is done,
\* and then the error may be that its answer was lost.
Refused(err) == err /\ UNCHANGED engine

\* A broken Json: the name is still in front of it.
JsonWithName == SubSeq(request.words, 3, Len(request.words))

\* The words of a start request: name is the third, and the JSON what follows.
LaunchDir == request.words[2]
Name == request.words[3]
Json == SubSeq(request.words, 4, Len(request.words))

\* What the client dumped ends the request.  json::parse() skips the blanks in front
\* of it, and accepts no other word there.
Config == Json[Len(Json)]
JsonParses == Config \in Images /\ \A i \in 1 .. Len(Json) - 1 : Json[i] \in Blanks

\* RoboContainerExec, before the engine is called: json::parse() throws, ...
ParseThrows ==
  /\ Executing("execRoboContainer")
  /\ ~JsonParses
  /\ Die
  /\ UNCHANGED <<engine, dds>>

\* ... or the search for the launch directory does: in the path of an executable
\* that could not be read, or in a directory that cannot be listed.
LookupThrows ==
  /\ Executing("execRoboContainer")
  /\ JsonParses
  /\ Die
  /\ UNCHANGED <<engine, dds>>

\* The engine makes up a name for a container that is given none: no request can be
\* about that container, and it is left out.
EngineCreates(err) ==
  \/ Refused(err)
  \/ Name \in Blanks /\ UNCHANGED engine
  \/ /\ Name \notin Blanks
     /\ containers[Name].state = "absent"
     /\ Config \in images
     /\ containers' = [containers EXCEPT
          ![Name] = [state |-> "created", image |-> Config, dir |-> LaunchDir,
                     by |-> handled, started |-> 0]]
     /\ UNCHANGED images

CreateContainer(err) ==
  /\ Executing("execRoboContainer")
  /\ JsonParses
  /\ EngineCreates(err)
  /\ err_create' = err
  /\ stage' = "starting"
  /\ UNCHANGED <<dds, request, asked, reply, handled, successes>>

\* The engine starts a container that is not running.  What docker_cpp makes of
\* the start of a running one, which the engine neither does nor refuses, or of a
\* start that names none, is left open.
EngineStarts(err) ==
  \/ Refused(err)
  \/ (Name \in Blanks \/ containers[Name].state = "running") /\ UNCHANGED engine
  \/ /\ containers[Name].state \in {"created", "exited"}
     /\ containers' = [containers EXCEPT ![Name].state = "running",
                                         ![Name].started = handled]
     /\ UNCHANGED images

\* A broken ContainerStart: only the error of the start counts.
ContainerStartAlone(err_start) ==
  /\ stage = "starting"
  /\ EngineStarts(err_start)
  /\ Answer(Result(err_start))
  /\ successes' = [successes EXCEPT ![Name] = IF err_start THEN @ ELSE @ \cup {handled}]
  /\ UNCHANGED <<dds, err_create>>

\* A broken ContainerStart: an early return without an answer after a failed
\* createContainer().
ContainerStartUnlessFailed(err_start) ==
  /\ stage = "starting"
  /\ ~err_create
  /\ EngineStarts(err_start)
  /\ Answer(Result(err_start))
  /\ successes' = [successes EXCEPT ![Name] = IF err_start THEN @ ELSE @ \cup {handled}]
  /\ UNCHANGED <<dds, err_create>>

\* containerStart() follows createContainer() whatever came of it.
ContainerStart(err_start) ==
  /\ stage = "starting"
  /\ EngineStarts(err_start)
  /\ Answer(Result(err_create \/ err_start))
  /\ successes' =
       [successes EXCEPT ![Name] = IF err_create \/ err_start THEN @
                                   ELSE @ \cup {handled}]
  /\ UNCHANGED <<dds, err_create>>

\* RoboContainerInfoExec: it aborts when the engine fails, and throws when the path
\* of the executable cannot be read.
ImageListAborts ==
  /\ Executing("getRoboContainerInfo")
  /\ Die
  /\ UNCHANGED <<engine, dds>>

ImageList ==
  /\ Executing("getRoboContainerInfo")
  /\ Answer("images")
  /\ UNCHANGED <<engine, dds, err_create, successes>>

\* RoboStartedContainerInfoExec: an error is answered with an empty list.
ContainerList(err) ==
  /\ Executing("getExecutedRoboContainer")
  /\ Answer(IF err \/ \A w \in Words : containers[w].state # "running"
              THEN "empty list" ELSE "list")
  /\ UNCHANGED <<engine, dds, err_create, successes>>

\* RoboStopContainerExec.
ContainerStop(err) ==
  /\ Executing("stopRoboContainer")
  /\ LET id == request.words[1]
     IN  \/ Refused(err)
         \/ containers[id].state # "running" /\ UNCHANGED engine
         \/ /\ containers[id].state = "running"
            /\ containers' = [containers EXCEPT ![id].state = "exited"]
            /\ UNCHANGED images
  /\ Answer(Result(err))
  /\ UNCHANGED <<dds, err_create, successes>>

\* RoboDeleteImageExec.
ImageRemove(err) ==
  /\ Executing("deleteRoboImage")
  /\ \/ Refused(err)
     \/ /\ request.words[1] \in images
        /\ images' = images \ {request.words[1]}
        /\ UNCHANGED containers
  /\ Answer(Result(err))
  /\ UNCHANGED <<dds, err_create, successes>>

\* A broken ImageBuild: it takes the second field for the name of the image.
ImageBuildWrongField(err) ==
  /\ Executing("buildRoboImage")
  /\ \/ Refused(err)
     \/ /\ images' = images \cup {request.words[2]}
        /\ UNCHANGED containers
  /\ Answer(IF err THEN "Faliure" ELSE "Success")
  /\ UNCHANGED <<dds, err_create, successes>>

\* RoboBuildImageExec; its word for a failure is "Faliure".
ImageBuild(err) ==
  /\ Executing("buildRoboImage")
  /\ \/ Refused(err)
     \/ /\ images' = images \cup {request.words[1]}
        /\ UNCHANGED containers
  /\ Answer(IF err THEN "Faliure" ELSE "Success")
  /\ UNCHANGED <<dds, err_create, successes>>

\* RoboContainerLogExec: the client cuts the log from the result.
ContainerLog(err) ==
  /\ Executing("getRoboLog")
  /\ Answer(Result(err))
  /\ UNCHANGED <<engine, dds, err_create, successes>>

\* RoboStartDDSExec.  bash is started and asked to run fastdds: nothing looks at
\* what became of that, and disc_serv_, an optional that has just been assigned,
\* is never empty.  A setenv() that fails leaves no trace in the answer either.
StartDDS(fate, set) ==
  /\ Executing("execDDSServer")
  /\ discovery' = fate
  /\ env' = (env \/ set)
  /\ Answer("Success")
  /\ UNCHANGED <<engine, err_create, successes>>

\* bp::child's constructor throws when bash itself cannot be started.
ForkThrows ==
  /\ Executing("execDDSServer")
  /\ Die
  /\ UNCHANGED <<engine, dds>>

\* The main process of a container ends by itself.
ContainerExits(w) ==
  /\ containers[w].state = "running"
  /\ containers' = [containers EXCEPT ![w].state = "exited"]
  /\ UNCHANGED <<images, dds, stage, request, asked, err_create, reply, handled,
                 successes>>

Execute ==
  \/ ParseThrows
  \/ LookupThrows
  \/ \E err \in BOOLEAN :
       \/ CreateContainer(err)
       \/ ContainerStart(err)
       \/ ContainerList(err)
       \/ ContainerStop(err)
       \/ ImageRemove(err)
       \/ ImageBuild(err)
       \/ ContainerLog(err)
  \/ ImageListAborts
  \/ ImageList
  \/ \E fate \in {"up", "failed"}, set \in BOOLEAN : StartDDS(fate, set)
  \/ ForkThrows

Next == Requests \/ Execute \/ \E w \in Words : ContainerExits(w)

Spec == Init /\ [][Next]_vars

\* Every call of the engine returns, with a result or an error.
FairSpec == Spec /\ WF_vars(Execute)

-----------------------------------------------------------------------------
(***************************************************************************)
(* Correctness.                                                            *)
(***************************************************************************)

Container ==
  [state : {"absent", "created", "running", "exited"}, image : Images \cup {"none"},
   dir : Words \cup {"none"}, by : 0 .. MaxRequests, started : 0 .. MaxRequests]

\* The variables hold values of their types.
TypeOK ==
  /\ images \subseteq Images
  /\ containers \in [Words -> Container]
  /\ discovery \in {"none", "up", "failed"}
  /\ env \in BOOLEAN
  /\ stage \in {"idle", "executing", "starting", "dead"}
  /\ err_create \in BOOLEAN
  /\ handled \in 0 .. MaxRequests
  /\ successes \in [Words -> SUBSET (1 .. MaxRequests)]

Answered(command) == stage = "idle" /\ request.command = command

\* A start that was answered "Success" created the container of the name that it
\* was read as and started it: not one that an earlier request had left under that
\* name.  When the caller gave a name, that is the container he asked for, with his
\* launch directory and image, although a space in a field moves the words: behind
\* a name that is all blanks, words of the other fields can be taken for name and
\* directory.
SuccessIsOwnStart ==
  (Answered("execRoboContainer") /\ reply = "Success") =>
    LET c == containers[Name]
        blank == {i \in DOMAIN asked.name : asked.name[i] \in Blanks}
    IN  /\ Name \notin Blanks => c.by = handled /\ c.started = handled
        /\ blank # DOMAIN asked.name =>
             /\ blank = DOMAIN asked.name \ {1} /\ asked.name[1] = Name
             /\ asked.dir = <<c.dir>> /\ asked.image = c.image

\* No handler removes a container, so that a name is spent by its first creation:
\* over retries, failed starts, exits and stops it is answered "Success" once at
\* most, and never when the request that created it was answered "Failure".  Only
\* the blank name, under which the engine keeps no container, is never spent.
NameIsSpent == \A w \in Words \ Blanks : successes[w] \subseteq {containers[w].by}

\* The client's order of the fields is the server's: a start whose user and launch
\* directory are a word each, and whose name is one with or without blanks behind
\* it, is parsed, and every part is read as what the caller meant by it.
OneWordFieldsAreRead ==
  ( /\ Executing("execRoboContainer")
    /\ Len(asked.user) = 1 /\ Len(asked.dir) = 1
    /\ \A i \in 2 .. Len(asked.name) : asked.name[i] \in Blanks ) =>
    /\ JsonParses
    /\ Name = asked.name[1] /\ LaunchDir = asked.dir[1] /\ Config = asked.image

\* Whatever the engine does, a request is answered or the server ends: no path
\* through an executor leaves the client waiting beside a living server.
RequestIsAnswered ==
  (stage \in {"executing", "starting"}) ~> (stage \in {"idle", "dead"})

\* The GUI shows "Failure to start container!" for the answer "Failure": it should
\* not have started the container that another request had left under the name.
FailureMeansNotStarted ==
  (Answered("execRoboContainer") /\ reply = "Failure") =>
    ~(containers[Name].started = handled /\ containers[Name].by # handled)

\* RoboStartDDSExec has texts for a setenv() that failed and for a fastdds that
\* did not start: a "Success" says that neither happened.
DDSFailureIsReported ==
  (Answered("execDDSServer") /\ reply = "Success") => discovery = "up" /\ env

=============================================================================
