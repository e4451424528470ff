------------------------- MODULE RobotServerCreator -------------------------
(***************************************************************************)
(* Who is served: several client processes, several robots, and servers    *)
(* that are stopped and started again.  A client process opens a           *)
(* connection for every robot that its user adds; the server of a robot    *)
(* serves one connection in its life and drops all the others.  What       *)
(* happens inside of a connection is in RobotSession.                      *)
(***************************************************************************)
EXTENDS Integers, Sequences

CONSTANTS
  Guis,           \* client processes
  Robots,         \* addresses at which a server may listen
  MaxConnections, \* bound: connections in a behaviour
  MaxStarts,      \* bound: starts of a robot's server
  MaxCalls        \* bound: calls made in a connection

ASSUME CreatorAssumption ==
  /\ MaxConnections \in Nat /\ MaxStarts \in Nat /\ MaxCalls \in Nat \ {0}
  /\ "none" \notin Robots

Connections == 1 .. MaxConnections
None == 0

VARIABLES
  \* The servers.
  starts,          \* how often the server of a robot has been started
  up,              \* whether its process runs
  already_created_,
  srv,             \* the connection that its RobotServer owns, or None
  backlog,         \* connections that wait for accept, oldest first
  \* The connections.
  used,            \* how many there are
  owner, target,   \* the client process and the robot of a connection
  place,           \* "none", "connecting", "queued", "served", "dropped" or "gone"
  phase,           \* its call: "none", "called", "lost", "executed" or "answered"
  calls,           \* calls made in it
  is_alive_,       \* of its ClientCodec
  \* The client processes.
  waiting,         \* the connection whose answer the GUI thread waits for, or None
  clients_,        \* the connections that its list of servers shows
  \* Ghost.
  born             \* the start of the server that serves a connection

server == <<starts, up, already_created_, srv, backlog>>
connection == <<used, owner, target, place, phase, calls, is_alive_>>
gui == <<waiting, clients_>>
vars == <<server, connection, gui, born>>

Init ==
  /\ starts = [r \in Robots |-> 0]
  /\ up = [r \in Robots |-> FALSE]
  /\ already_created_ = [r \in Robots |-> FALSE]
  /\ srv = [r \in Robots |-> None]
  /\ backlog = [r \in Robots |-> <<>>]
  /\ used = 0
  /\ owner = [k \in Connections |-> "none"]
  /\ target = [k \in Connections |-> "none"]
  /\ place = [k \in Connections |-> "none"]
  /\ phase = [k \in Connections |-> "none"]
  /\ calls = [k \in Connections |-> 0]
  /\ is_alive_ = [k \in Connections |-> TRUE]
  /\ waiting = [g \in Guis |-> None]
  /\ clients_ = [g \in Guis |-> {}]
  /\ born = [k \in Connections |-> 0]

-----------------------------------------------------------------------------
(***************************************************************************)
(* The server of a robot.                                                  *)
(***************************************************************************)

\* A broken ServerStarts: a second process on the port of one that runs.
ServerStartsTwice(r) ==
  /\ starts[r] < MaxStarts
  /\ starts' = [starts EXCEPT ![r] = @ + 1]
  /\ up' = [up EXCEPT ![r] = TRUE]
  /\ UNCHANGED <<already_created_, srv, backlog, connection, gui, born>>

\* main(): a process listens.
ServerStarts(r) ==
  /\ ~up[r]
  /\ starts[r] < MaxStarts
  /\ starts' = [starts EXCEPT ![r] = @ + 1]
  /\ up' = [up EXCEPT ![r] = TRUE]
  /\ UNCHANGED <<already_created_, srv, backlog, connection, gui, born>>

\* The server is stopped, or an executor aborts on the process thread.  Its memory
\* is gone, and the kernel closes what it had accepted and what still waited.
ServerEnds(r) ==
  /\ up[r]
  /\ up' = [up EXCEPT ![r] = FALSE]
  /\ already_created_' = [already_created_ EXCEPT ![r] = FALSE]
  /\ srv' = [srv EXCEPT ![r] = None]
  /\ backlog' = [backlog EXCEPT ![r] = <<>>]
  /\ place' = [k \in Connections |->
                 IF target[k] = r /\ place[k] \in {"queued", "served"} THEN "dropped"
                 ELSE place[k]]
  /\ UNCHANGED <<starts, used, owner, target, phase, calls, is_alive_, gui, born>>

\* The handler of async_accept ends with do_accept(): the next one is taken.
NextAccept(r) == backlog' = [backlog EXCEPT ![r] = Tail(@)]

\* A broken Create: already_created_ is not asked.
CreateAlways(r) ==
  /\ up[r]
  /\ backlog[r] # <<>>
  /\ NextAccept(r)
  /\ already_created_' = [already_created_ EXCEPT ![r] = TRUE]
  /\ LET k == Head(backlog[r])
     IN  /\ srv' = [srv EXCEPT ![r] = k]
         /\ place' = [place EXCEPT ![k] = IF @ = "queued" THEN "served" ELSE @]
         /\ born' = [born EXCEPT ![k] = starts[r]]
  /\ UNCHANGED <<starts, up, used, owner, target, phase, calls, is_alive_, gui>>

\* The first connection of the process gets the RobotServer, even when its
\* client has left it in the meantime.
Create(r) ==
  /\ up[r]
  /\ backlog[r] # <<>>
  /\ ~already_created_[r]
  /\ NextAccept(r)
  /\ already_created_' = [already_created_ EXCEPT ![r] = TRUE]
  /\ LET k == Head(backlog[r])
     IN  /\ srv' = [srv EXCEPT ![r] = k]
         /\ place' = [place EXCEPT ![k] = IF @ = "queued" THEN "served" ELSE @]
         /\ born' = [born EXCEPT ![k] = starts[r]]
  /\ UNCHANGED <<starts, up, used, owner, target, phase, calls, is_alive_, gui>>

\* RequestHandler's constructor throws: the docker engine is not there.
CreateThrows(r) ==
  /\ backlog[r] # <<>>
  /\ ~already_created_[r]
  /\ ServerEnds(r)

\* A broken Drop: the socket is kept, and stays open.
DropWithoutClosing(r) ==
  /\ up[r]
  /\ backlog[r] # <<>>
  /\ already_created_[r] \/ place[Head(backlog[r])] # "queued"
  /\ NextAccept(r)
  /\ UNCHANGED <<starts, up, already_created_, srv, connection, gui, born>>

\* Every other connection is closed as the handler's socket goes out of scope.  One
\* that was aborted in the backlog may be reported as an error, or not at all.
Drop(r) ==
  /\ up[r]
  /\ backlog[r] # <<>>
  /\ already_created_[r] \/ place[Head(backlog[r])] # "queued"
  /\ NextAccept(r)
  /\ place' = [place EXCEPT ![Head(backlog[r])] = IF @ = "queued" THEN "dropped" ELSE @]
  /\ UNCHANGED <<starts, up, already_created_, srv, used, owner, target, phase, calls,
                 is_alive_, gui, born>>

\* The process thread takes the request and executes it, and answers.
Execute(r) ==
  /\ up[r]
  /\ srv[r] # None
  /\ phase[srv[r]] = "called"
  /\ phase' = [phase EXCEPT ![srv[r]] = "executed"]
  /\ UNCHANGED <<server, used, owner, target, place, calls, is_alive_, gui, born>>

Respond(r) ==
  /\ up[r]
  /\ srv[r] # None
  /\ phase[srv[r]] = "executed"
  /\ place[srv[r]] = "served"
  /\ phase' = [phase EXCEPT ![srv[r]] = "answered"]
  /\ UNCHANGED <<server, used, owner, target, place, calls, is_alive_, gui, born>>

-----------------------------------------------------------------------------
(***************************************************************************)
(* A client process.                                                       *)
(***************************************************************************)

\* createServer(): createRoboClient(), and createDDSInstance() of the new client.
CreateServer(g, r) ==
  /\ waiting[g] = None
  /\ used < MaxConnections
  /\ LET k == used + 1
     IN  /\ used' = k
         /\ owner' = [owner EXCEPT ![k] = g]
         /\ target' = [target EXCEPT ![k] = r]
         /\ place' = [place EXCEPT ![k] = "connecting"]
         /\ phase' = [phase EXCEPT ![k] = "called"]
         /\ calls' = [calls EXCEPT ![k] = 1]
         /\ waiting' = [waiting EXCEPT ![g] = k]
  /\ UNCHANGED <<server, is_alive_, clients_, born>>

\* A broken Connect: the newest connection is taken first.
ConnectFirst(k) ==
  /\ place[k] = "connecting"
  /\ up[target[k]]
  /\ place' = [place EXCEPT ![k] = "queued"]
  /\ backlog' = [backlog EXCEPT ![target[k]] = <<k>> \o @]
  /\ UNCHANGED <<starts, up, already_created_, srv, used, owner, target, phase, calls,
                 is_alive_, gui, born>>

\* async_connect, by the io thread.
Connect(k) ==
  /\ place[k] = "connecting"
  /\ up[target[k]]
  /\ place' = [place EXCEPT ![k] = "queued"]
  /\ backlog' = [backlog EXCEPT ![target[k]] = Append(@, k)]
  /\ UNCHANGED <<starts, up, already_created_, srv, used, owner, target, phase, calls,
                 is_alive_, gui, born>>

\* An endpoint that the resolver put in front refuses, and the request that was
\* encoded before fails with it.
RequestLost(k) ==
  /\ place[k] = "connecting"
  /\ phase[k] = "called"
  /\ phase' = [phase EXCEPT ![k] = "lost"]
  /\ is_alive_' = [is_alive_ EXCEPT ![k] = FALSE]
  /\ UNCHANGED <<server, used, owner, target, place, calls, gui, born>>

\* A broken Refused: the connection is given a place of its own.
RefusedForEver(k) ==
  /\ place[k] = "connecting"
  /\ ~up[target[k]]
  /\ place' = [place EXCEPT ![k] = "refused"]
  /\ is_alive_' = [is_alive_ EXCEPT ![k] = FALSE]
  /\ UNCHANGED <<server, used, owner, target, phase, calls, gui, born>>

Refused(k) ==
  /\ place[k] = "connecting"
  /\ ~up[target[k]]
  /\ place' = [place EXCEPT ![k] = "dropped"]
  /\ is_alive_' = [is_alive_ EXCEPT ![k] = FALSE]
  /\ UNCHANGED <<server, used, owner, target, phase, calls, gui, born>>

\* The read that is always under way ends with an error.
ReadFails(k) ==
  /\ place[k] = "dropped"
  /\ is_alive_[k]
  /\ is_alive_' = [is_alive_ EXCEPT ![k] = FALSE]
  /\ UNCHANGED <<server, used, owner, target, place, phase, calls, gui, born>>

\* A call of a client that the list shows, whatever is_alive_ says.
CallAgain(g, k) ==
  /\ waiting[g] = None
  /\ k \in clients_[g]
  /\ calls[k] < MaxCalls
  /\ calls' = [calls EXCEPT ![k] = @ + 1]
  /\ phase' = [phase EXCEPT ![k] = "called"]
  /\ waiting' = [waiting EXCEPT ![g] = k]
  /\ UNCHANGED <<server, used, owner, target, place, is_alive_, clients_, born>>

\* wait_pop_back() returns; the answer to the first call puts the robot in the list.
Return(g) ==
  /\ waiting[g] # None
  /\ phase[waiting[g]] = "answered"
  /\ phase' = [phase EXCEPT ![waiting[g]] = "none"]
  /\ clients_' = [clients_ EXCEPT ![g] = @ \cup {waiting[g]}]
  /\ waiting' = [waiting EXCEPT ![g] = None]
  /\ UNCHANGED <<server, used, owner, target, place, calls, is_alive_, born>>

\* A client process ends, and a new one takes its place: the user closes its
\* window, or ends it because it does not react, or resolve() has thrown through
\* createServer().  Its clients are gone with it.
Ours(g) == {k \in 1 .. used : owner[k] = g /\ place[k] # "gone"}

GuiRestarts(g) ==
  /\ Ours(g) # {}
  /\ place' = [k \in Connections |-> IF k \in Ours(g) THEN "gone" ELSE place[k]]
  /\ calls' = [k \in Connections |-> IF k \in Ours(g) THEN 0 ELSE calls[k]]
  /\ is_alive_' = [k \in Connections |-> k \in Ours(g) \/ is_alive_[k]]
  /\ waiting' = [waiting EXCEPT ![g] = None]
  /\ clients_' = [clients_ EXCEPT ![g] = {}]
  /\ UNCHANGED <<server, used, owner, target, phase, born>>

\* The connection breaks.
LinkBreaks(k) ==
  /\ place[k] \in {"queued", "served"}
  /\ place' = [place EXCEPT ![k] = "dropped"]
  /\ UNCHANGED <<server, used, owner, target, phase, calls, is_alive_, gui, born>>

Accept(r) == Create(r) \/ CreateThrows(r) \/ Drop(r)
ClientIo(k) == Connect(k) \/ Refused(k) \/ ReadFails(k)

Next ==
  \/ \E r \in Robots :
       \/ ServerStarts(r)
       \/ ServerEnds(r)
       \/ Accept(r)
       \/ Execute(r)
       \/ Respond(r)
  \/ \E g \in Guis :
       \/ \E r \in Robots : CreateServer(g, r)
       \/ \E k \in Connections : CallAgain(g, k)
       \/ Return(g)
       \/ GuiRestarts(g)
  \/ \E k \in Connections : ClientIo(k) \/ RequestLost(k) \/ LinkBreaks(k)

Spec == Init /\ [][Next]_vars

\* The io threads and the process thread run, the kernel settles a connection
\* attempt, every docker request ends.  Nobody has to start a server or a client.
Fairness ==
  /\ \A r \in Robots : WF_vars(Accept(r)) /\ WF_vars(Execute(r) \/ Respond(r))
  /\ \A k \in Connections : WF_vars(ClientIo(k))
  /\ \A g \in Guis : WF_vars(Return(g))

FairSpec == Spec /\ Fairness

-----------------------------------------------------------------------------
(***************************************************************************)
(* Correctness.                                                            *)
(***************************************************************************)

\* The variables hold values of their types.
TypeOK ==
  /\ starts \in [Robots -> 0 .. MaxStarts]
  /\ up \in [Robots -> BOOLEAN]
  /\ already_created_ \in [Robots -> BOOLEAN]
  /\ srv \in [Robots -> 0 .. used]
  /\ backlog \in [Robots -> Seq(1 .. used)]
  /\ used \in 0 .. MaxConnections
  /\ owner \in [Connections -> Guis \cup {"none"}]
  /\ target \in [Connections -> Robots \cup {"none"}]
  /\ place \in [Connections -> {"none", "connecting", "queued", "served", "dropped", "gone"}]
  /\ phase \in [Connections -> {"none", "called", "lost", "executed", "answered"}]
  /\ calls \in [Connections -> 0 .. MaxCalls]
  /\ is_alive_ \in [Connections -> BOOLEAN]
  /\ waiting \in [Guis -> 0 .. used]
  /\ clients_ \in [Guis -> SUBSET (1 .. used)]
  /\ born \in [Connections -> 0 .. MaxStarts]

\* A connection that is served belongs to the server process that runs now, and is
\* the one that it owns: over restarts of either side, connections that broke in
\* the backlog, and clients that come while another one is served.
ServedBySrv ==
  \A k \in Connections :
    place[k] = "served" =>
      /\ up[target[k]]
      /\ srv[target[k]] = k
      /\ born[k] = starts[target[k]]

\* A server process gets into one list of one client process in its life: after
\* its first client every other one, and the first one when it comes back, waits
\* in vain until the server is started again.
OneEntryInALife ==
  \A g, h \in Guis : \A k \in clients_[g], l \in clients_[h] :
    (target[k] = target[l] /\ born[k] = born[l]) => k = l

\* The places of a connection in the backlog of its robot: one, if it waits there.
Turns(k) == {i \in 1 .. Len(backlog[target[k]]) : backlog[target[k]][i] = k}

\* The GUI thread that waits for an answer is never forgotten by all the others: as
\* long as its codec believes the connection alive, an answer is there, or the io
\* thread has a connection attempt or a read to end, or the accept loop will come to
\* the connection, or the process that serves it has its request.
NobodyStuck ==
  \A g \in Guis, k \in Connections :
    (waiting[g] = k /\ is_alive_[k]) =>
      \/ phase[k] = "answered"
      \/ place[k] \in {"connecting", "dropped"}
      \/ /\ place[k] = "queued"
         /\ up[target[k]]
         /\ Turns(k) # {}
      \/ /\ place[k] = "served"
         /\ up[target[k]]
         /\ srv[target[k]] = k
         /\ phase[k] \in {"called", "executed"}

\* How far a call is from its answer, or from the error that tells of its end.
Left(k) ==
  IF phase[k] = "answered" THEN 0
  ELSE CASE place[k] = "dropped" -> 1
         [] place[k] = "served" -> IF phase[k] = "executed" THEN 2 ELSE 3
         [] place[k] = "queued" -> 4
         [] OTHER -> 5

\* A step leaves a call as far as it was, or brings it nearer; while it waits in the
\* backlog, its turn comes with each connection that is taken.
NotSetBack(k) ==
  \/ Left(k)' < Left(k)
  \/ /\ Left(k)' = Left(k)
     /\ place[k] = "queued" =>
          \A i \in Turns(k) : \E j \in Turns(k)' :
            /\ j <= i
            /\ Len(backlog'[target[k]]) < Len(backlog[target[k]]) => j < i

\* No restart of a server, no break of a connection and no other client sets a call
\* back while its codec is alive, and no connection is overtaken in the backlog: with
\* NobodyStuck, every call comes to its answer or to the error of its codec.
NeverSetBack ==
  [][\A g \in Guis, k \in Connections :
       (waiting[g] = k /\ waiting'[g] = k /\ is_alive_'[k]) => NotSetBack(k)]_vars

\* A GUI thread is given an answer, or its codec knows that none will come: a
\* connection that a server dropped, that a later server process never heard of, or
\* that waited in the backlog of one that died is noticed, though by is_alive_ only.
AnsweredOrKnown ==
  \A g \in Guis : \A k \in Connections :
    (waiting[g] = k) ~> (waiting[g] # k \/ ~is_alive_[k])

=============================================================================
