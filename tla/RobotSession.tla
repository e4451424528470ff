---------------------------- MODULE RobotSession ----------------------------
(***************************************************************************)
(* One RoboClient talking to one RobotServer: the GUI thread that calls    *)
(* and blocks, the client's io thread, the TCP connection, the server's    *)
(* main (io) thread and its process thread.  The two endpoints' codecs are *)
(* instances of module Codec; the channel from client to server is the     *)
(* out of one and the in of the other.                                     *)
(***************************************************************************)
EXTENDS Integers, Sequences

CONSTANTS
  MaxCalls,  \* bound: RoboClient method calls in a behaviour
  BodyLens,  \* the lengths, in chunks, that message bodies may have
  Endpoints  \* number of endpoints the resolver returned for the server

ASSUME SessionAssumption ==
  /\ MaxCalls \in Nat
  /\ BodyLens \subseteq Nat
  /\ Endpoints \in Nat \ {0}

VARIABLES
  gui,       \* GUI thread: "idle" or "waiting" in wait_pop_back
  call,      \* number of the last call made
  answer,    \* the message the last returned call was given
  link,      \* TCP: "connecting", "up", "refused" or "down"
  attempt,   \* the endpoint async_connect is trying
  cEnc, cWrites, cReader, cDec, cReady, cAlive,  \* the client's codec
  toServer, toClient,                            \* chunks in flight
  sEnc, sWrites, sReader, sDec, sReady, sAlive,  \* the server's codec
  server,    \* server process: "listening", "serving" or "dead"
  proc,      \* process thread: "off", "waiting" or "handling"
  request,   \* the message the process thread popped last
  executed   \* ghost: requests the process thread has begun to execute

clientCodec == <<cEnc, cWrites, cReader, cDec, cReady, cAlive>>
serverCodec == <<sEnc, sWrites, sReader, sDec, sReady, sAlive>>
caller == <<gui, call, answer>>
serverState == <<server, proc, request, executed>>
vars == <<caller, link, attempt, clientCodec, toServer, toClient, serverCodec,
          serverState>>

C == INSTANCE Codec WITH
       enc_message_ <- cEnc, writes <- cWrites, out <- toServer, in <- toClient,
       reader <- cReader, dec_message_ <- cDec, ready_msgs_ <- cReady,
       is_alive_ <- cAlive

S == INSTANCE Codec WITH
       enc_message_ <- sEnc, writes <- sWrites, out <- toClient, in <- toServer,
       reader <- sReader, dec_message_ <- sDec, ready_msgs_ <- sReady,
       is_alive_ <- sAlive

\* The deque is pushed and popped at the same end.
Back(deque) == deque[Len(deque)]
PopBack(deque) == SubSeq(deque, 1, Len(deque) - 1)

Init ==
  /\ gui = "idle"
  /\ call = 0
  /\ answer = C!NoMessage
  /\ link = "connecting"
  /\ attempt = 1
  /\ C!CodecInit
  /\ S!CodecInit
  /\ toServer = <<>>
  /\ toClient = <<>>
  /\ server = "listening"
  /\ proc = "off"
  /\ request = C!NoMessage
  /\ executed = 0

-----------------------------------------------------------------------------
(***************************************************************************)
(* The GUI thread.  Every RoboClient method encodes a request and blocks   *)
(* in wait_pop_back; the constructor only started the connection, so the   *)
(* first request may be encoded before the connection is up.               *)
(***************************************************************************)

\* A broken GuiCall: it does not wait for the answer to the call before it.
GuiCallWithoutWaiting(len) ==
  /\ call < MaxCalls
  /\ gui' = "waiting"
  /\ call' = call + 1
  /\ C!Encode([id |-> call + 1, len |-> len])
  /\ UNCHANGED <<answer, link, attempt, serverCodec, serverState>>

GuiCall(len) ==
  /\ gui = "idle"
  /\ call < MaxCalls
  /\ gui' = "waiting"
  /\ call' = call + 1
  /\ C!Encode([id |-> call + 1, len |-> len])
  /\ UNCHANGED <<answer, link, attempt, serverCodec, serverState>>

\* A broken GuiReturn: it reads the answer but leaves it in the deque.
GuiReturnWithoutPop ==
  /\ gui = "waiting"
  /\ cReady # <<>>
  /\ answer' = Back(cReady)
  /\ gui' = "idle"
  /\ UNCHANGED <<call, link, attempt, clientCodec, toServer, toClient, serverCodec,
                 serverState>>

GuiReturn ==
  /\ gui = "waiting"
  /\ cReady # <<>>
  /\ answer' = Back(cReady)
  /\ cReady' = PopBack(cReady)
  /\ gui' = "idle"
  /\ UNCHANGED <<call, link, attempt, cEnc, cWrites, cReader, cDec, cAlive,
                 toServer, toClient, serverCodec, serverState>>

(***************************************************************************)
(* The client's io thread: async_connect and the completion handlers.      *)
(***************************************************************************)

ConnectOk ==
  /\ link = "connecting"
  /\ link' = "up"
  /\ cReader' = "header"
  /\ UNCHANGED <<caller, attempt, cEnc, cWrites, cDec, cReady, cAlive, toServer,
                 toClient, serverCodec, serverState>>

\* A broken ConnectRefused: it goes on to endpoints the resolver never gave.
ConnectRefusedForEver ==
  /\ link = "connecting"
  /\ attempt' = attempt + 1
  /\ cWrites' = <<>>
  /\ cAlive' = (cAlive /\ cWrites = <<>>)
  /\ UNCHANGED <<caller, link, cEnc, cReader, cDec, cReady, toServer, toClient,
                 serverCodec, serverState>>

\* A broken ConnectRefused: only the refusal of the last endpoint is reported,
\* and not that a write went down with an earlier one.
ConnectRefusedSilently ==
  /\ link = "connecting"
  /\ IF attempt < Endpoints
       THEN /\ attempt' = attempt + 1
            /\ UNCHANGED link
       ELSE /\ link' = "refused"
            /\ UNCHANGED attempt
  /\ cWrites' = <<>>
  /\ cAlive' = (cAlive /\ attempt < Endpoints)
  /\ UNCHANGED <<caller, cEnc, cReader, cDec, cReady, toServer, toClient,
                 serverCodec, serverState>>

\* A broken ConnectRefused: it reports the refusal of an endpoint although
\* the write still waits for the next one.
ConnectRefusedTooLoud ==
  /\ link = "connecting"
  /\ IF attempt < Endpoints
       THEN /\ attempt' = attempt + 1
            /\ UNCHANGED link
       ELSE /\ link' = "refused"
            /\ UNCHANGED attempt
  /\ cAlive' = FALSE
  /\ UNCHANGED <<caller, cEnc, cWrites, cReader, cDec, cReady, toServer, toClient,
                 serverCodec, serverState>>

\* An endpoint refuses.  A write that was queued on the socket behind the
\* connect fails with it, even when another endpoint is left to try; only
\* the failure of the last endpoint reaches connect()'s own handler.
ConnectRefused ==
  /\ link = "connecting"
  /\ IF attempt < Endpoints
       THEN /\ attempt' = attempt + 1
            /\ UNCHANGED link
       ELSE /\ link' = "refused"
            /\ UNCHANGED attempt
  /\ cWrites' = <<>>
  /\ cAlive' = (cAlive /\ cWrites = <<>> /\ attempt < Endpoints)
  /\ UNCHANGED <<caller, cEnc, cReader, cDec, cReady, toServer, toClient,
                 serverCodec, serverState>>

ClientStep(action) ==
  /\ action
  /\ UNCHANGED <<caller, link, attempt, serverCodec, serverState>>

ClientSend == link = "up" /\ ClientStep(C!SendChunk)
ClientWriteFail == link \in {"down", "refused"} /\ ClientStep(C!WriteFail)
ClientRead ==
  /\ link \in {"up", "down"}
  /\ ClientStep(C!ReadHeader \/ C!ReadChunk \/ C!Deliver)
ClientReadFail == link = "down" /\ ClientStep(C!ReadFail)

(***************************************************************************)
(* The server's main thread: do_accept and the completion handlers.        *)
(***************************************************************************)

\* RobotServer's constructor: the codec starts to read, then RequestHandler
\* connects to the docker engine, then the process thread is started.  A connection
\* that broke in the backlog is accepted like any other.
Accept ==
  /\ server = "listening"
  /\ link \in {"up", "down"}
  /\ server' = "serving"
  /\ sReader' = "header"
  /\ proc' = "waiting"
  /\ UNCHANGED <<caller, link, attempt, clientCodec, toServer, toClient, sEnc,
                 sWrites, sDec, sReady, sAlive, request, executed>>

\* The docker engine does not answer: RequestHandler's constructor throws
\* through io_context.run(), and main() ends.
AcceptWithoutDocker ==
  /\ server = "listening"
  /\ link \in {"up", "down"}
  /\ server' = "dead"
  /\ link' = "down"
  /\ UNCHANGED <<caller, attempt, clientCodec, toServer, toClient, serverCodec,
                 proc, request, executed>>

ServerStep(action) ==
  /\ server = "serving"
  /\ action
  /\ UNCHANGED <<caller, link, attempt, clientCodec, serverState>>

ServerSend == link = "up" /\ ServerStep(S!SendChunk)
ServerWriteFail == link = "down" /\ ServerStep(S!WriteFail)
ServerRead == ServerStep(S!ReadHeader \/ S!ReadChunk \/ S!Deliver)
ServerReadFail == link = "down" /\ ServerStep(S!ReadFail)

(***************************************************************************)
(* The server's process thread: RobotServer::process().  It never looks at *)
(* is_alive_: the call of isAlive() is commented out.                      *)
(***************************************************************************)

\* A broken ProcPop: the request stays in the deque and is executed again.
ProcPopWithoutPop ==
  /\ server = "serving"
  /\ proc = "waiting"
  /\ sReady # <<>>
  /\ request' = Back(sReady)
  /\ proc' = "handling"
  /\ executed' = executed + 1
  /\ UNCHANGED <<caller, link, attempt, clientCodec, toServer, toClient,
                 serverCodec, server>>

ProcPop ==
  /\ server = "serving"
  /\ proc = "waiting"
  /\ sReady # <<>>
  /\ request' = Back(sReady)
  /\ sReady' = PopBack(sReady)
  /\ proc' = "handling"
  /\ executed' = executed + 1
  /\ UNCHANGED <<caller, link, attempt, clientCodec, toServer, toClient, sEnc,
                 sWrites, sReader, sDec, sAlive, server>>

ProcReply(len) ==
  /\ server = "serving"
  /\ proc = "handling"
  /\ proc' = "waiting"
  /\ S!Encode([id |-> request.id, len |-> len])
  /\ UNCHANGED <<caller, link, attempt, clientCodec, server, request, executed>>

\* An executor aborts or throws: nothing catches on this thread, and the
\* whole server process dies.
ProcCrash ==
  /\ server = "serving"
  /\ proc = "handling"
  /\ server' = "dead"
  /\ link' = "down"
  /\ UNCHANGED <<caller, attempt, clientCodec, toServer, toClient, serverCodec,
                 proc, request, executed>>

\* The connection breaks.
LinkBreak ==
  /\ link = "up"
  /\ link' = "down"
  /\ UNCHANGED <<caller, attempt, clientCodec, toServer, toClient, serverCodec,
                 serverState>>

-----------------------------------------------------------------------------
Next ==
  \/ \E len \in BodyLens : GuiCall(len)
  \/ GuiReturn
  \/ ConnectOk
  \/ ConnectRefused
  \/ ClientSend
  \/ ClientWriteFail
  \/ ClientRead
  \/ ClientReadFail
  \/ Accept
  \/ AcceptWithoutDocker
  \/ ServerSend
  \/ ServerWriteFail
  \/ ServerRead
  \/ ServerReadFail
  \/ ProcPop
  \/ \E len \in BodyLens : ProcReply(len)
  \/ ProcCrash
  \/ LinkBreak

Spec == Init /\ [][Next]_vars

\* Both io_context threads run until their process ends, a blocked thread is
\* woken when its deque is filled (module ThreadsafeDeque), the kernel
\* settles every connection attempt, and every docker request ends.  Nobody
\* has to make a call, and nothing has to break.
Fairness ==
  /\ WF_vars(GuiReturn)
  /\ WF_vars(ConnectOk \/ ConnectRefused)
  /\ WF_vars(ClientSend \/ ClientWriteFail)
  /\ WF_vars(ClientRead \/ ClientReadFail)
  /\ WF_vars(Accept \/ AcceptWithoutDocker)
  /\ WF_vars(ServerSend \/ ServerWriteFail)
  /\ WF_vars(ServerRead \/ ServerReadFail)
  /\ WF_vars(ProcPop)
  /\ WF_vars(ProcCrash \/ \E len \in BodyLens : ProcReply(len))

FairSpec == Spec /\ Fairness

-----------------------------------------------------------------------------
(***************************************************************************)
(* Correctness.                                                            *)
(***************************************************************************)

Frame == [id : Nat, len : Nat]
FrameChunk == [id : Nat, len : Nat, at : Nat]
Write == [off : Nat, total : Nat]
Buffer == [id : Nat, len : Nat, got : Nat, whole : BOOLEAN]
Msg == [id : Nat, whole : BOOLEAN]

\* The variables hold values of the types the code gives them, and the counters
\* stay within their bounds.
TypeOK ==
  /\ gui \in {"idle", "waiting"}
  /\ call \in 0 .. MaxCalls
  /\ answer \in Msg
  /\ link \in {"connecting", "up", "refused", "down"}
  /\ attempt \in 1 .. Endpoints
  /\ cEnc \in Frame /\ sEnc \in Frame
  /\ cWrites \in Seq(Write) /\ sWrites \in Seq(Write)
  /\ toServer \in Seq(FrameChunk) /\ toClient \in Seq(FrameChunk)
  /\ cReader \in {"off", "header", "body"} /\ sReader \in {"off", "header", "body"}
  /\ cDec \in Buffer /\ sDec \in Buffer
  /\ cReady \in Seq(Msg) /\ sReady \in Seq(Msg)
  /\ cAlive \in BOOLEAN /\ sAlive \in BOOLEAN
  /\ server \in {"listening", "serving", "dead"}
  /\ proc \in {"off", "waiting", "handling"}
  /\ request \in Msg
  /\ executed \in Nat

\* ThreadsafeDeque pushes and pops at the same end, so two queued messages would
\* be taken newest first.  They never meet: over both deques and the process
\* thread there is at most one message at a time, and last in, first out is
\* first in, first out.
SingleSlot ==
  Len(cReady) + Len(sReady) + (IF proc = "handling" THEN 1 ELSE 0) <= 1

\* encode() overwrites enc_message_ and frees its bytes without asking whether an
\* async_write still points into them.  No interleaving of the four threads lets
\* that happen: at every encode() the earlier write has left the buffer.
BufferNotOverwritten ==
  [][/\ cEnc' # cEnc => cWrites = <<>>
     /\ sEnc' # sEnc => sWrites = <<>>]_vars

\* Every message that decodeData() returned was put together from exactly the
\* chunks of one frame, in order: the two async_reads never lose their place in
\* the stream, over partial sends, empty bodies and queued writes.
FramesWhole ==
  /\ \A i \in 1 .. Len(cReady) : cReady[i].whole
  /\ \A i \in 1 .. Len(sReady) : sReady[i].whole
  /\ answer.whole /\ request.whole

\* A RoboClient method returns the answer to its own request, although nothing on
\* the wire says which request a response belongs to.
OwnAnswer == gui = "idle" => answer.id = call

\* A client that is connected and yet has its is_alive_ lowered connected on a
\* later endpoint after an earlier one took its request down with it: the GUI
\* thread waits for a request that was never sent and never will be.
LostRequestIsSilent ==
  (link = "up" /\ ~cAlive) =>
    /\ gui = "waiting"
    /\ executed = call - 1
    /\ cWrites = <<>> /\ toServer = <<>> /\ sReady = <<>>

\* The session implements the abstract request/reply service: at-most-once
\* execution, in the order of the calls, and no return before the execution.
RR == INSTANCE RequestReply WITH
        phase <- IF gui = "idle" THEN "idle"
                 ELSE IF executed = call THEN "executed" ELSE "called",
        calls <- call, executions <- executed, answered <- answer.id

ImplementsRequestReply == RR!Spec

\* What a pending async_read may take from the stream: a header, a part of the
\* body, or nothing for a body that is complete.
MayRead(reader, wire, dec) ==
  \/ reader # "off" /\ wire # <<>>
  \/ reader = "body" /\ dec.got = dec.len

ClientMayStep ==
  \/ cReady # <<>>
  \/ link = "connecting"
  \/ link = "up" /\ cWrites # <<>>
  \/ link \in {"up", "down"} /\ MayRead(cReader, toClient, cDec)
  \/ link = "down" /\ cReader # "off"

ServerMayStep ==
  \/ server = "listening" /\ link \in {"up", "down"}
  \/ /\ server = "serving"
     /\ \/ link = "up" /\ sWrites # <<>>
        \/ MayRead(sReader, toServer, sDec)
        \/ proc = "waiting" /\ sReady # <<>>
        \/ proc = "handling"

\* The GUI thread never waits in wait_pop_back() while every other thread waits
\* too: unless is_alive_ tells, a chunk, a connection, a message in a deque or an
\* executor is under way, after any refusal, break or crash.
NobodyStuck == (gui = "waiting" /\ cAlive) => ClientMayStep \/ ServerMayStep

\* How much is left of a call: first the stage that it is in, and within a stage
\* the chunks to be sent and read, the endpoints to be tried and the parts that
\* may still go down.
Stage == IF executed < call THEN 2 ELSE IF proc = "handling" THEN 1 ELSE 0

Unsent(writes) == IF writes = <<>> THEN 0 ELSE writes[1].total - writes[1].off
Reading == [off |-> 0, header |-> 1, body |-> 2]
Stream(writes, wire, reader) == 3 * Unsent(writes) + 2 * Len(wire) + Reading[reader]

LinkLeft == CASE link = "connecting" -> 4 + Endpoints - attempt
              [] link = "up" -> 2
              [] OTHER -> 1
ServerLeft == [listening |-> 3, serving |-> 1, dead |-> 0][server]

Work ==
  Stream(cWrites, toServer, sReader) + Stream(sWrites, toClient, cReader)
  + LinkLeft + ServerLeft

\* Whatever is done while a call waits brings it nearer to its end, whoever does
\* it: no retry, re-read or second execution, and no two threads that keep each
\* other busy for ever.
EveryStepNearer ==
  [][(gui = "waiting" /\ gui' = "waiting") =>
       \/ Stage' < Stage
       \/ Stage' = Stage /\ Work' < Work /\ Work' >= 0]_vars

\* Every call returns, or the client's own codec knows that it will not: a GUI
\* thread that blocks for ever in wait_pop_back does so with is_alive_ lowered, so
\* the isAlive() that no client code calls would tell.
AnsweredOrDead == (gui = "waiting") ~> (gui = "idle" \/ ~cAlive)

\* "Our connection to client is die, terminate RobotServer!", says
\* RobotServer::isAlive(): a server that has lost its client terminates.
DeadClientEndsServer == (~sAlive) ~> (server = "dead")

=============================================================================
