---------------------------- MODULE ServerWidget ----------------------------
(***************************************************************************)
(* The GUI of one robot: ServerWidget with the dialogs it opens, on top of *)
(* the client's calls and the server's executors of MessageHandler.        *)
(*                                                                         *)
(* Every slot runs on the GUI thread, dialogs and menus are modal, and a   *)
(* call of a RoboClient method blocks: gui says which slot is under way    *)
(* and where in it the thread is.  That a call returns the answer to its   *)
(* own request is what RobotSession shows; of the connection below it, all *)
(* that the slots can tell is whether it is lost.  The three tables are    *)
(* copies of what the server knew when it answered; only some of the slots *)
(* read them again.                                                        *)
(***************************************************************************)
EXTENDS MessageHandler

CONSTANT Indexes \* what index.txt may hold: sets of lines, a target for an image

ASSUME IndexAssumption ==
  Indexes \subseteq SUBSET [image : Images, target : Seq(Words) \ {<<>>}]

VARIABLES
  index,         \* the lines of index.txt
  gui,           \* where the GUI thread is
  listed,        \* whether the robot is in srv_name_list_wgt
  wgt_stack,     \* 0: the list of servers is shown, 1: the tables are
  build_table,   \* the lines shown in container_build_table_wgt
  name_table,    \* the images shown in container_name_table_wgt
  run_table,     \* the containers shown in container_run_table_wgt
  container_log, \* the container whose log is shown, or "none"
  tty_,          \* ServerContainerCreateBox::tty_, which becomes conf.Tty
  checked_tty,   \* what the radio buttons of that box show
  link,          \* the connection: "up", "lost", or "silent" once a call was made on it
  data,          \* what the answer of the last request lists
  ran,           \* ghost: what ran when the last list of containers was answered
  unsure         \* ghost: a build or a delete failed since name_table was filled

\* The box is a local of showContextName(): no box holds anything between slots.
NoBox == tty_ = FALSE /\ checked_tty = TRUE
NoBoxNext == tty_' = FALSE /\ checked_tty' = TRUE

tables == <<build_table, name_table, run_table, container_log>>
createBox == <<tty_, checked_tty>>
answer == <<link, data, ran>>
widget == <<listed, wgt_stack, tables, createBox, unsure>>
widgetVars == <<vars, index, gui, widget, answer>>

Running == {w \in Words : containers[w].state = "running"}

WidgetInit ==
  /\ Init
  /\ index \in Indexes
  /\ gui = "idle"
  /\ listed = FALSE
  /\ wgt_stack = 0
  /\ build_table = {} /\ name_table = {} /\ run_table = {}
  /\ container_log = "none"
  /\ NoBox
  /\ link = "up"
  /\ data = {} /\ ran = {}
  /\ unsure = FALSE

-----------------------------------------------------------------------------
(***************************************************************************)
(* The steps of a slot.  A slot makes two calls at most, and a user does   *)
(* not begin one that the bound on requests would cut short.               *)
(***************************************************************************)

UserActs == gui = "idle" /\ handled + 2 <= MaxRequests
TablesShown == UserActs /\ wgt_stack = 1

\* encode() tells nobody that the connection is gone: the call is made all the same.
Call(method, next) ==
  /\ method
  /\ gui' = next
  /\ link' = IF link = "lost" THEN "silent" ELSE link
  /\ UNCHANGED <<index, data, ran>>

\* A broken Returned: try_pop_back() in the place of wait_pop_back().
ReturnedAtOnce(from, next) ==
  /\ gui = from
  /\ gui' = next
  /\ UNCHANGED <<vars, index, answer>>

\* wait_pop_back() has returned the answer.  Nothing ends its wait when the connection
\* is lost.
Returned(from, next) ==
  /\ gui = from
  /\ stage = "idle"
  /\ link = "up"
  /\ gui' = next
  /\ UNCHANGED <<vars, index, answer>>

\* createServer(), with the box for address and port accepted.
CreateServer ==
  /\ UserActs
  /\ ~listed
  /\ Call(CreateDDSInstance, "creating")
  /\ wgt_stack' = 0
  /\ UNCHANGED <<listed, tables, createBox, unsure>>

ServerCreated ==
  /\ Returned("creating", "idle")
  /\ listed' = (reply = "Success")
  /\ UNCHANGED <<wgt_stack, tables, createBox, unsure>>

\* onServerClicked(): first the images, then the containers.
OnServerClicked ==
  /\ UserActs
  /\ listed
  /\ wgt_stack = 0
  /\ Call(GetContainersInfo, "clicked")
  /\ UNCHANGED widget

\* getRoboContainersInfo() cuts the answer at its first space, which stands behind
\* the map of targets unless one of them has a space itself.
AnswerParses == \A line \in index : Len(line.target) = 1

FillTables ==
  /\ AnswerParses
  /\ Returned("clicked", "read containers")
  /\ build_table' = index
  /\ name_table' = data
  /\ unsure' = FALSE
  /\ UNCHANGED <<listed, wgt_stack, run_table, container_log, createBox>>

\* json::parse() throws through the slot, and the client ends.
ClientParseThrows ==
  /\ ~AnswerParses
  /\ Returned("clicked", "dead")
  /\ UNCHANGED widget

ReadContainers ==
  /\ gui \in {"read containers", "stopped box"}
  /\ Call(GetExecutedContainers, "list containers")
  /\ UNCHANGED widget

\* A broken FillRunTable: the pages are counted from one.
FillRunTableCountsFromOne ==
  /\ Returned("list containers", "idle")
  /\ run_table' = data
  /\ wgt_stack' = 2
  /\ UNCHANGED <<listed, build_table, name_table, container_log, createBox, unsure>>

FillRunTable ==
  /\ Returned("list containers", "idle")
  /\ run_table' = data
  /\ wgt_stack' = 1
  /\ UNCHANGED <<listed, build_table, name_table, container_log, createBox, unsure>>

OnServerBackClicked ==
  /\ gui = "idle"
  /\ wgt_stack = 1
  /\ wgt_stack' = 0
  /\ UNCHANGED <<vars, index, gui, answer, listed, tables, createBox, unsure>>

-----------------------------------------------------------------------------
(***************************************************************************)
(* showContextBuild().                                                     *)
(***************************************************************************)

Build(line, user) ==
  /\ TablesShown
  /\ line \in build_table
  /\ Call(BuildImage(line.image, user), "building")
  /\ UNCHANGED widget

\* "Successfuly build image!" or "Failure to build container".
ImageBuilt ==
  /\ Returned("building", IF reply = "Success" THEN "image box" ELSE "idle")
  /\ unsure' = (unsure \/ reply # "Success")
  /\ UNCHANGED <<listed, wgt_stack, tables, createBox>>

\* The box is closed: the images are read again, and nothing else.
ReadImages ==
  /\ gui = "image box"
  /\ Call(GetContainersInfo, "reread images")
  /\ UNCHANGED widget

FillNameTable ==
  /\ AnswerParses
  /\ Returned("reread images", "idle")
  /\ name_table' = data
  /\ unsure' = FALSE
  /\ UNCHANGED <<listed, wgt_stack, build_table, run_table, container_log, createBox>>

(***************************************************************************)
(* showContextName().  Nothing initializes tty_, and setChecked() emits no *)
(* buttonClicked: until the user clicks a button it is what the memory     *)
(* held.                                                                   *)
(***************************************************************************)

OpenCreateBox ==
  /\ TablesShown
  /\ name_table # {}
  /\ gui' = "create box"
  /\ tty_' \in BOOLEAN
  /\ checked_tty' = TRUE
  /\ UNCHANGED <<vars, index, answer, listed, wgt_stack, tables, unsure>>

OnTtyChoose(enable) ==
  /\ gui = "create box"
  /\ tty_' = enable
  /\ checked_tty' = enable
  /\ UNCHANGED <<vars, index, gui, answer, listed, wgt_stack, tables, unsure>>

\* A box that is cancelled is reported as "Failure to start container!", and no
\* request is made.
CancelCreateBox ==
  /\ gui = "create box"
  /\ gui' = "idle"
  /\ NoBoxNext
  /\ UNCHANGED <<vars, index, answer, listed, wgt_stack, tables, unsure>>

\* A broken AcceptCreateBox: the name is taken for the image.
AcceptCreateBoxWrongColumn(user, dir, name, image) ==
  /\ gui = "create box"
  /\ image \in name_table
  /\ Call(StartContainer(user, dir, name, Head(name)), "starting")
  /\ UNCHANGED widget

AcceptCreateBox(user, dir, name, image) ==
  /\ gui = "create box"
  /\ image \in name_table
  /\ Call(StartContainer(user, dir, name, image), "starting")
  /\ UNCHANGED widget

\* A broken ContainerStarted: the table is left as it was.
ContainerStartedWithoutReading ==
  /\ Returned("starting", "idle")
  /\ NoBoxNext
  /\ UNCHANGED <<listed, wgt_stack, tables, unsure>>

\* The containers are read again after a "Success" only; a "Failure" is shown.
ContainerStarted ==
  /\ Returned("starting", IF reply = "Success" THEN "read containers" ELSE "idle")
  /\ NoBoxNext
  /\ UNCHANGED <<listed, wgt_stack, tables, unsure>>

Delete(image) ==
  /\ TablesShown
  /\ image \in name_table
  /\ Call(DeleteImage(image), "deleting")
  /\ UNCHANGED widget

\* A broken ImageDeleted: the images are read again after a failure instead.
ImageDeletedSwapped ==
  /\ Returned("deleting", IF reply # "Success" THEN "image box" ELSE "idle")
  /\ unsure' = (unsure \/ reply # "Success")
  /\ UNCHANGED <<listed, wgt_stack, tables, createBox>>

\* "Image succesfuly deleted!" or "Failure to delete image!".
ImageDeleted ==
  /\ Returned("deleting", IF reply = "Success" THEN "image box" ELSE "idle")
  /\ unsure' = (unsure \/ reply # "Success")
  /\ UNCHANGED <<listed, wgt_stack, tables, createBox>>

(***************************************************************************)
(* showContextRun().                                                       *)
(***************************************************************************)

Stop(w) ==
  /\ TablesShown
  /\ w \in run_table
  /\ Call(StopContainer(w), "stopping")
  /\ UNCHANGED widget

\* "Container succesfuly stoped!" or "Failure to stop container!".
ContainerStopped ==
  /\ Returned("stopping", IF reply = "Success" THEN "stopped box" ELSE "idle")
  /\ UNCHANGED widget

TakeLog(w) ==
  /\ TablesShown
  /\ w \in run_table
  /\ Call(GetLog(w), "taking log")
  /\ UNCHANGED widget

\* A broken LogTaken: only a "Success" ends it.
LogTakenOnSuccess ==
  /\ Returned("taking log", "idle")
  /\ reply = "Success"
  /\ container_log' \in {request.words[1], container_log}
  /\ UNCHANGED <<listed, wgt_stack, build_table, name_table, run_table, createBox, unsure>>

\* A failure shows nothing.  An empty log leaves the one of another container.
LogTaken ==
  /\ Returned("taking log", "idle")
  /\ container_log' \in
       (IF reply = "Success" THEN {request.words[1], container_log} ELSE {container_log})
  /\ UNCHANGED <<listed, wgt_stack, build_table, name_table, run_table, createBox, unsure>>

-----------------------------------------------------------------------------
(***************************************************************************)
(* The server's side: an executor's step, with what its answer lists.      *)
(***************************************************************************)

\* A request that was on its way when the connection was lost may have come through;
\* one that was made later does not.
Serve ==
  /\ link # "silent"
  /\ Execute
  /\ data' = CASE reply' = "list" -> Running
               [] reply' = "images" -> images
               [] OTHER -> {}
  /\ ran' = IF Executing("getExecutedRoboContainer") THEN Running ELSE ran
  /\ UNCHANGED <<index, gui, link, widget>>

\* The connection breaks; or the server has dropped it; or a request was written before
\* it was up, and is gone.
ConnectionLost ==
  /\ link = "up"
  /\ link' = "lost"
  /\ UNCHANGED <<vars, index, gui, widget, data, ran>>

Exit(w) == ContainerExits(w) /\ UNCHANGED <<index, gui, widget, answer>>

UserStep ==
  \/ CreateServer
  \/ OnServerClicked
  \/ OnServerBackClicked
  \/ \E line \in build_table, user \in Fields : Build(line, user)
  \/ OpenCreateBox
  \/ \E enable \in BOOLEAN : OnTtyChoose(enable)
  \/ CancelCreateBox
  \/ \E user, dir, name \in Fields, image \in name_table :
       AcceptCreateBox(user, dir, name, image)
  \/ \E image \in name_table : Delete(image)
  \/ \E w \in run_table : Stop(w) \/ TakeLog(w)

GuiStep ==
  \/ ServerCreated
  \/ FillTables
  \/ ClientParseThrows
  \/ ReadContainers
  \/ FillRunTable
  \/ ImageBuilt
  \/ ReadImages
  \/ FillNameTable
  \/ ContainerStarted
  \/ ImageDeleted
  \/ ContainerStopped
  \/ LogTaken

WidgetNext == UserStep \/ GuiStep \/ Serve \/ ConnectionLost \/ \E w \in Words : Exit(w)

WidgetSpec == WidgetInit /\ [][WidgetNext]_widgetVars

\* The GUI thread goes on when an answer is there and when an info box has been
\* closed, and while the connection is up a request arrives and every call of the
\* engine returns.  The user need not do anything else.
WidgetFairSpec ==
  WidgetSpec /\ WF_widgetVars(GuiStep) /\ WF_widgetVars(link = "up" /\ Serve)

-----------------------------------------------------------------------------
(***************************************************************************)
(* Correctness.                                                            *)
(***************************************************************************)

Places ==
  {"idle", "creating", "clicked", "read containers", "list containers", "building",
   "image box", "reread images", "create box", "starting", "deleting", "stopping",
   "stopped box", "taking log", "dead"}

\* The variables hold values of their types.
WidgetTypeOK ==
  /\ index \in Indexes
  /\ gui \in Places
  /\ listed \in BOOLEAN
  /\ wgt_stack \in {0, 1}
  /\ build_table \subseteq index
  /\ name_table \subseteq Images
  /\ run_table \subseteq Words
  /\ container_log \in Words \cup {"none"}
  /\ tty_ \in BOOLEAN /\ checked_tty \in BOOLEAN
  /\ link \in {"up", "lost", "silent"}
  /\ data \subseteq Words \cup Images
  /\ ran \subseteq Words
  /\ unsure \in BOOLEAN

\* A container that runs and is not in the run table was last started by a request
\* that the GUI has shown as a failure, unless the list that filled the table could
\* not be had: over starts, retries under a used name, stops and exits, and
\* although a failed start, a build and a delete do not read the table again.
HiddenRunsWereFailures ==
  gui = "idle" =>
    \A w \in Running \ run_table :
      containers[w].started \notin successes[w] \/ run_table # ran

\* The table of images shows what the engine has, unless a build or a delete whose
\* failure was shown has changed it all the same.
ImagesOutdatedByFailureOnly ==
  (gui = "idle" /\ wgt_stack = 1 /\ name_table # images) => unsure

\* What the GUI asks for is what MessageHandler takes for granted: one request at a
\* time, images of the robot's own list, and stops and logs for containers that
\* have been running, however old the table is that a row was picked from.
ImplementsHandler == Spec

\* The GUI thread is outside every method of RoboClient.
BetweenCalls ==
  gui \in {"idle", "read containers", "image box", "create box", "stopped box", "dead"}

\* The calls of all slots are those of one caller of the service that RobotSession
\* implements: a slot of two calls, a box that is open between them and a table that
\* is read again never make a call before the answer to the last one was taken, take
\* an answer twice, or leave one for the next call.
RR == INSTANCE RequestReply WITH
        phase <- IF BetweenCalls THEN "idle"
                 ELSE IF stage = "executing" THEN "called" ELSE "executed",
        calls <- handled,
        executions <- IF stage = "executing" THEN handled - 1 ELSE handled,
        answered <- IF BetweenCalls THEN handled ELSE handled - 1

ImplementsRequestReply == RR!Spec

WaitsForUser == gui \in {"idle", "create box"}

\* A slot that was begun ends, whatever the engine answers and however many calls and
\* tables it has still before it: unless the server died under it, the connection was
\* lost, or the client's parser threw at a target with a space in index.txt.
SlotsReturn ==
  ~WaitsForUser ~>
    (WaitsForUser \/ stage = "dead" \/ link # "up" \/ (gui = "dead" /\ ~AnswerParses))

\* The dialog comes up with "Enable" checked: the container gets the tty setting
\* that the dialog shows.
TtyAsShown == gui = "starting" => tty_ = checked_tty

\* "Filling the table of the running containers", says the comment: when it was
\* filled, the table showed what was running.
RunTableShowsRunning == gui = "idle" => run_table = ran

=============================================================================
