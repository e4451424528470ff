# Verification of the robot container client and server

TLA+ modules, TLC configurations and TLAPS proofs for the program in this
repository: a Qt5 client that drives the docker engine of a robot through a small
server, over one TCP connection. Paths below are relative to the root of the
repository; `impl.hpp` stands for
`include/utils/TDequeImpl/threadsafe_deque_impl.hpp`.

1. The system
2. The modules
3. The runs
4. The proofs
5. What the checks found
6. What is left out
7. Plan

## 1. The system

### Parts, their state and their operations

| Part | State | Operations |
| --- | --- | --- |
| `Encoder`, `Decoder`, `SerializedMessage` (`src/utils/NetCodec/encoder.cpp`, `decoder.cpp`, `src/utils/message.cpp`) | the two header tables; a header of six bytes and a buffer with its length | `encode`, `decodeHeader`, `decodeData`, `setDataLength`, the assignments that free and copy the buffer |
| `Codec`, `ClientCodec`, `ServerCodec` (`src/utils/NetCodec/codec.cpp`, `client_codec.cpp`, `server_codec.cpp`) | `enc_message_`, `dec_message_`, `is_alive_`, the socket, the reads and writes pending in the reactor | `connect`, `encode` (starts an `async_write`), `decodeHeader`, `decodeBody` (chained `async_read`s) |
| `ThreadsafeDeque` (`impl.hpp`) | `data_deque`, a mutex, a condition variable | `push_back`, `wait_pop_back`, `try_pop_back`, `empty` |
| `RoboClient`, `RoboClientCreator` (`src/client/client.cpp`) | a codec and a deque `ready_msgs_` | eight methods; each encodes a request and blocks in `wait_pop_back` |
| `RobotServer`, `RobotServerCreator` (`src/server/server.cpp`, `main.cpp`) | a codec, a deque, the process thread; `already_created_` | `do_accept`, `process`, `isAlive` (never called) |
| `RequestHandler` and eight executors (`src/server/message_handler.cpp`) | a docker engine handle, the `fastdds` child process | one `execute` for each command |
| `ServerWidget` (`src/client/gui/server_widget.cpp`) | the clients by name, three tables, a log, the page that is shown | `createServer`, `onServerClicked`, `onServerBackClicked`, three context menus |
| Dialogs (`src/client/gui/boxes`), main window | text fields; `tty_` of the create box | `getSettings`, `onTtyChoose`; modal: accepted or cancelled |

### How they interact

    GUI thread ──encode()──▶ client codec ═══TCP═══▶ server codec
        ▲                    (io thread)            (main thread)
        │                        │                       │ push_back()
    wait_pop_back() ◀─push_back()┘                       ▼
                                                    ThreadsafeDeque
                                                         │ wait_pop_back()
    server codec ◀──encode()── process thread ◀──────────┘
                                   │ handleRequest()
                                   ▼
                              docker engine, fastdds

The GUI thread and the client's io thread share the deque and the codec; so do the
server's main thread and its process thread. `encode()` runs on the GUI thread and
on the process thread, the completion handlers on the io threads. Nothing in a
message says which request it belongs to. No operation has a timeout.

A slot of `ServerWidget` makes one or two of these blocking calls, opens modal boxes
between them, and fills its tables from the answers. One client process keeps a
connection for each robot in its list; one server process serves one connection in
its life, and `do_accept` drops all the others.

### What is hard about it

* **Shared buffers.** `encode()` overwrites `enc_message_` while an `async_write` may
  still point into it, and one `dec_message_` serves every read.
* **Order.** The deque is last in, first out, and answers are matched to requests by
  their position alone.
* **Failure in the middle.** A connection that is refused by one endpoint and accepted
  by the next; a connection that breaks; an executor that aborts; a `createContainer`
  that fails with a `containerStart` that does not.
* **Liveness.** Both sides wait without a timeout, and nobody reads `is_alive_`.
* **Text protocol.** Fields are cut at spaces that they may contain, and a parser that
  skips blanks accepts some of what was cut wrongly.
* **Copies.** The tables show what the server knew when it answered; a menu is opened
  over a row of any age, and only some of the slots read the tables again.
* **Lives.** Servers and clients end and are started again, independently of each other,
  with connections that wait in a backlog or are half open in between.
* **Limits.** A 32-bit length to which the decoder adds one, and wraps at the longest; texts
  that end at a NUL.

Each hazard, at its line and with the properties that cover it, is in
`PROJECT.json`.

### What makes each part correct

* Codec of bytes: what goes in comes out, the reader cuts the stream where the writer
  did and never waits for more than was sent, the terminator has a byte of its own behind
  every body but the one whose length wraps, and the whole is a channel of messages.
* Session: one request is under way at most; no `encode()` meets an unfinished write; a
  method returns the answer to its own request; a request is executed at most once; the
  threads never all wait while a call does, each of their steps brings it nearer to its
  end, and a call that never returns leaves `is_alive_` lowered.
* Deque: each operation is atomic, each message is given exactly once, no wake-up is lost.
* Handlers: "Success" means what the caller asked for, if he gave a name; a name is spent
  once; every request is answered unless the server ends.
* GUI: a container that runs is shown, or the user was told of a failure; what a slot
  asks for is something the server can be asked for; the slots call one at a time and take
  each answer once; a slot that was begun ends while the connection holds.
* Servers over restarts: a connection that is served belongs to the server process that
  runs now; nobody forgets a call, sets it back or overtakes it; it is answered, or its
  codec notices that it will not be.

## 2. The modules

| Module | What it is |
| --- | --- |
| `Codec` | One endpoint: the actions that both codecs share. No specification of its own |
| `RobotSession` | Two instances of `Codec`, the connection, four threads, crashes |
| `RequestReply` | Abstract: what a `RoboClient` method promises its caller |
| `ThreadsafeDeque` | The deque with its mutex and condition variable, any number of threads |
| `LifoStore` | Abstract: an atomic last in, first out store |
| `Wire` | The bytes of one direction |
| `FifoChannel` | Abstract: what one direction promises, a channel of messages |
| `MessageHandler` | The executors, the docker engine, the requests that clients write |
| `ServerWidget` | The GUI of one robot with its dialogs, on top of `MessageHandler` |
| `RobotServerCreator` | Client processes, servers, connections, and their restarts |
| `MC*` | Model values for TLC (`RobotServerCreator` has its values in its `.cfg`) |
| `*Proofs`, `*ProgressProofs` | Theorems about the module they are named after; the second kind those about progress |

How they fit: `RobotSession` composes two codecs and uses the deque as a sequence whose
operations are atomic, which `ThreadsafeDeque` establishes by refining `LifoStore`, and
whose waiters are woken, which `NoLostWakeup` and `MessagesAreTaken` establish. It moves
frames as chunks; `Wire` looks at the bytes of a frame, takes from the session that no
`encode()` meets an unfinished write, and shows (`ImplementsFifo`) that the bytes are a
`FifoChannel` of messages. The session calls the handling of a request `ProcReply` or
`ProcCrash`; `MessageHandler` says what happens in between, and takes from the session that
one request is handled at a time. `MessageHandler` leaves open which calls the GUI makes;
`ServerWidget` EXTENDS it, adds the slots that make them, and shows (`ImplementsHandler`)
that they stay within what the handler's module takes for granted, so that every theorem
about `MessageHandler` is one about the GUI. `RequestReply` is where the two halves meet:
`RobotSession` implements it from below, with threads, frames and failures, `ServerWidget`
from above, with slots that call and executors that answer. `RobotServerCreator` shrinks
what `RobotSession` says of the inside of one connection to the phase of its call, and
looks at many of them.

### `Codec` and `RobotSession`

A serialized message is a header chunk and `len` body chunks. A chunk is what the
kernel takes or gives in one step, so that a write or a read of several chunks is
interleaved with everything else. `Encode` replaces `enc_message_` and queues a write
that remembers offset and length only: `SendChunk` sends what the buffer holds *now*,
as the pointers captured by `toVecOfConstBuf()` do. A write with bytes left goes to
the end of the queue, as a composed `async_write` does. `ReadHeader`, `ReadChunk` and
`Deliver` are the read chain; `whole` becomes FALSE in a message whose chunks were not
those of one frame in order.

`NobodyStuck` lists what may go on while a call waits (`ClientMayStep`, `ServerMayStep`):
these are the guards of the actions that the fairness is about. `Work` is how much is
left to do: chunks to be sent and read, endpoints to be tried, parts that may still go
down; it is counted within a `Stage` of the call.

| Action | Code |
| --- | --- |
| `GuiCall`, `GuiReturn` | every `RoboClient` method: `encode()`, then `wait_pop_back()` |
| `ConnectOk`, `ConnectRefused` | `ClientCodec::connect`, with the endpoints that `async_connect` tries in turn |
| `ClientSend`, `ClientWriteFail`, `ClientRead`, `ClientReadFail` | the handlers of `client_codec.cpp` |
| `Accept`, `AcceptWithoutDocker` | `do_accept`; `RequestHandler`'s constructor throws |
| `ServerSend`, `ServerWriteFail`, `ServerRead`, `ServerReadFail` | the handlers of `server_codec.cpp` |
| `ProcPop`, `ProcReply`, `ProcCrash` | `RobotServer::process`; an executor that aborts or throws |
| `LinkBreak` | the connection |

`id` of a message and `executed` are ghosts: they are read by properties only.
When the link is down, data that has arrived may still be read or the read may fail
first, whichever the kernel reports. `Accept` takes a connection that broke in the backlog
as well as one that is up: its reads then fail.

### `ThreadsafeDeque`

`pc` says where a thread is: outside, blocked on the mutex, inside the critical
section, between the push and its `notify_one()`, asleep, or woken and blocked on the
mutex again. `given` counts how often each message was given to a consumer; nothing but
`GivenOnce` reads it. A waiter may wake spuriously. `owner` is a set, so that a broken lock
would be a state and not a nonsense.

### `Wire`

Characters are numbers and 0 is NUL; a byte of `new char[n]` is `Uninitialized`. A
byte of the length field has `Radix` values, 256 in the code; the header's tables are
the code's. `Encode` puts the whole frame on the stream. A read takes what it asked for in
one step: that it may arrive in parts is in `Codec`. `Room` says whether the bytes that
are asked for fit into the buffer. They do not when the 1 that `decodeHeader()` adds has
wrapped around; `Overrun` is that read, and as what happens behind the buffer is undefined,
it is the last step of the reader. As a `FifoChannel`, the messages
under way are those that were sent and are not received, in the form in which they will
come out (`UnderWay`); `Encode` is `Send`, `ReadBody` is `Deliver`, and `ReadHeader`
changes nothing.

### `MessageHandler`

A request's data is the sequence of its words; a text field is one or more words, some of
which may be blank (`Blanks`: the empty word of an empty field, of a trailing space, or
between two spaces). An image and its JSON are one token, the last of a start request
(`Config`). `JsonParses` is what the parser accepts in front of it, blanks and nothing
else; with any other word `ParseThrows` ends the server. `LookupThrows` stands for what may
throw between the parser and the engine, as the launch directory is looked for. Every
engine call may be refused, be done, or be done with an error for an answer. The engine
(external) keeps images and containers by name; `by` and `started` in a container are the
requests that created and last started it. For a start without a name the engine makes one
up; no request can be about that container, and it is left out. `CreateContainer` and
`ContainerStart` are two steps of one executor, as containers may exit in between. The
client methods write the requests; which of them are called when is not restricted here,
except that a stop or a log is asked for a container that has been running once, as its id
comes from a list of running ones: `ServerWidget` shows that the GUI keeps to that.

| Action | Code |
| --- | --- |
| `StartContainer`, `BuildImage`, `DeleteImage`, `StopContainer`, `GetLog`, `GetExecutedContainers`, `GetContainersInfo`, `CreateDDSInstance` | the eight methods of `RoboClient` |
| `Receive` | `handleRequest`, `chooseExecutor` |
| `ParseThrows`, `LookupThrows` | `RoboContainerExec`, before the engine is called |
| `CreateContainer`, `ContainerStart` | `RoboContainerExec`, its two engine calls |
| the other steps of `Execute` | one `execute` each |
| `ContainerExits` | the engine (external) |

### `ServerWidget`

`gui` says which slot is under way and where in it the GUI thread stands: waiting for an
answer ("clicked", "building", ...), in an info box ("image box", "stopped box"), in the
create box, or "idle". `Call` is a `RoboClient` method of `MessageHandler`; `Returned` is
the end of its `wait_pop_back()`. `data` is what the answer lists. `link` is all that the
slots can tell of the connection: it is "up", or it is "lost", by a break, by a server that
drops it, or with a request that was written before it was up. The request that was on its
way may then still be served, the next one is made into the void ("silent"), and no answer
comes back: `Returned` needs a connection, and its wait has no end without one. `ran` and
`unsure` are ghosts.

| Action | Code (`src/client/gui/server_widget.cpp` unless named) |
| --- | --- |
| `CreateServer`, `ServerCreated` | `createServer` |
| `OnServerClicked`, `FillTables`, `ReadContainers`, `FillRunTable` | `onServerClicked`: images, then containers |
| `ClientParseThrows` | `getRoboContainersInfo` (`src/client/client.cpp`): the answer is cut at its first space and parsed |
| `OnServerBackClicked` | `onServerBackClicked` |
| `Build`, `ImageBuilt`, `ReadImages`, `FillNameTable` | `showContextBuild` |
| `OpenCreateBox`, `OnTtyChoose`, `CancelCreateBox`, `AcceptCreateBox`, `ContainerStarted` | `showContextName`, "create"; `ServerContainerCreateBox` |
| `Delete`, `ImageDeleted`, then `ReadImages`, `FillNameTable` | `showContextName`, "delete" |
| `Stop`, `ContainerStopped`, then `ReadContainers`, `FillRunTable` | `showContextRun`, "stop" |
| `TakeLog`, `LogTaken` | `showContextRun`, "log" |
| `Serve`, `Exit` | the executors and the engine, with what the answer lists |
| `ConnectionLost` | the error branches of `client_codec.cpp`, which tell no slot |

A slot reads a table again exactly where the code does: the images after a build or a
delete that was answered "Success", the containers after a start or a stop that was.
`tty_` is nondeterministic when the box opens, as no constructor initializes it. As a
caller of `RequestReply`, the GUI is idle where no method of `RoboClient` is under way
(`BetweenCalls`), a box that is open between two calls of a slot included.

### `RobotServerCreator`

A connection has a place ("connecting", "queued" in the backlog, "served", "dropped",
"gone" with its client) and its call a phase. A server process is told from the next
one by its number (`starts`, and `born` of what it serves). `Left` is how far a call is
from its answer or from the error of its codec, `Turns` its place in a backlog.

| Action | Code |
| --- | --- |
| `ServerStarts`, `ServerEnds` | `main` (`src/server/main.cpp`); a process that is stopped or aborts (external) |
| `Create`, `CreateThrows`, `Drop` | `do_accept` with `already_created_`; the constructor of `RequestHandler` |
| `Execute`, `Respond` | `RobotServer::process` |
| `CreateServer`, `CallAgain`, `Return` | `createServer` with `createRoboClient`; the other calls of a client in the list |
| `Connect`, `Refused`, `RequestLost`, `ReadFails` | the handlers of `client_codec.cpp` |
| `GuiRestarts` | a client process that ends, `resolve()` that throws included, and the next one |
| `LinkBreaks` | the connection (external) |

## 3. The runs

| Run | Bounds | Checks |
| --- | --- | --- |
| `session` | 3 calls, 2 endpoints, bodies of 0 and 2 chunks | `TypeOK`, `SingleSlot`, `BufferNotOverwritten`, `FramesWhole`, `OwnAnswer`, `LostRequestIsSilent`, `NobodyStuck`, `EveryStepNearer`, `ImplementsRequestReply`, `AnsweredOrDead` |
| `session_dead_client` | 1 call, 1 endpoint | `DeadClientEndsServer` is violated |
| `deque` | 2 producers, 3 consumers, 3 pushes, all operations, threads symmetric | `TypeOK`, `NoLostWakeup`, `GivenOnce`, `ImplementsLifoStore` |
| `deque_live` | 1 producer, 2 consumers, 3 pushes, no symmetry | `MessagesAreTaken` |
| `wire` | 2 messages, 2 values for a byte, texts of 0, 4, 14 and 15 characters and one with a NUL | `TypeOK`, `MessagesSurvive`, `BodyFits`, `InStep`, `NoReadStarves`, `ImplementsFifo`, `MessagesArrive` |
| `handler` | 3 requests, 2 words and the empty one; fields that are empty, of 1 word, of 2, and of 1 with a space behind it; 1 image | `TypeOK`, `SuccessIsOwnStart`, `NameIsSpent`, `OneWordFieldsAreRead`, `RequestIsAnswered` |
| `handler_failure` | 2 requests | `FailureMeansNotStarted` is violated |
| `handler_dds` | 2 requests | `DDSFailureIsReported` is violated |
| `widget` | 7 requests, 2 names, 1 image, a plain `index.txt` and one with a space in a target, a connection that may be lost | `WidgetTypeOK`, `HiddenRunsWereFailures`, `ImagesOutdatedByFailureOnly`, `ImplementsHandler`, `ImplementsRequestReply`, `SlotsReturn` |
| `widget_tty` | as `widget` | `TtyAsShown` is violated |
| `widget_list` | as `widget` | `RunTableShowsRunning` is violated |
| `creator` | 2 client processes, 1 robot, 2 starts of its server, 3 connections, 2 calls in each | `TypeOK`, `ServedBySrv`, `OneEntryInALife`, `NobodyStuck`, `NeverSetBack`, `AnsweredOrKnown` |

What they show that a test would hardly reach. *Session*: over all interleavings of four
threads and every moment at which a connection may break, an answer is never taken for
another request's, and the threads never come to wait for each other beside a call that
is under way. *Deque*: no order of pushes, pops and spurious wake-ups loses a message, gives
one twice, or loses a wake-up. *Wire*: the reader cuts the stream where the writer did, and
never waits for a byte that will not come; of all lengths that the field carries, the
longest and no other makes it read more than its buffer holds. *Handler*: "Success" is never
said of a container that an earlier request left, and a caller who gave a name gets what he
asked for, wherever there are spaces in the other fields. *Widget*: whatever is clicked over
tables of whatever age, a container that runs unseen was reported as a failure, or the
list of containers could not be had; no slot makes a call before it took the answer to the
last one; and what may leave a slot open is a server that died, a connection that was lost
and a target with a space, nothing else.
*Creator*: no restart of either side makes a new server process serve an old connection,
or loses a call that waits in a backlog without its codec being told.

Why the bounds are enough. *Session*: an answer could go astray between two calls, and a
third shows that the state after a call is the state before one; an empty body is read
without waiting for a byte, one of two chunks can be cut in the middle; with two endpoints
one refuses and the next accepts. *Deque*: a push can be overtaken by a second one before
its `notify_one()`, and a woken waiter by one that never slept, with one more asleep beside
them. *Wire*: with two values for a byte the field carries up to 15, whose increment wraps,
14 is the last length that does not, and 3 and 4 lie on both sides of a carry; two messages
show that the reader is in step for the second, and what a first one of the longest does to
it. *Handler*: one request creates, one retries, one stops or lists in between; a field of
two words shifts all that follow it, an empty one shifts nothing but is no name, and a
space behind the name leaves a blank in front of the JSON. *Widget*: blanks are left to
`handler` (`Blanks` is empty in its runs); one request puts the robot in the list, two fill
its tables, two start a container and read the table again, and two are left for one more
slot that reads; of two names one can be shown and the other run unseen. *Creator*: two
starts make a server process and its successor, three connections one that is served, one
beside it and one after it, and a second call meets a server that has ended since the
first; robots do not share state. The theorems of section 4 have none of these bounds.

`CHECK_DEADLOCK FALSE` stands in every configuration: a behaviour may end because its
bound is reached, because the server is dead, or because both sides wait, which is
what the liveness properties are about.

**Fairness.** `RobotSession`: weak fairness of both io threads (each runs
`io_context::run()` until its process ends), of a waiter whose deque is not empty, of the
connection attempt, and of the end of an execution, by an answer or by a crash. A write or
a read on a broken connection fails or completes. The user need not call and nothing need
break. `ThreadsafeDeque`: every thread inside the class goes on, and a free mutex that is
wanted is given to *some* thread; `std::mutex` promises no more. `Wire`: the reader runs.
`MessageHandler`: an executor ends, as every docker call returns. `ServerWidget`: while the
connection is up, a request arrives, its executor ends and the answer comes back; the GUI
thread goes on when the answer is there and when an info box has been closed. Nothing is
assumed of a connection that was lost, which may never be, and nobody has to click on
anything or to close the create box. `RobotServerCreator`: the accept loop, the process
thread and the io threads run, the kernel settles a connection attempt, and a GUI thread
takes an answer that is there; nobody has to start a server or a client, or to make a call.

## 4. The proofs

The theorems hold for every value of the constants under the assumptions that the modules
name: `SessionAssumption`, `DequeAssumption` (finitely many threads, producers apart from
consumers), `WireAssumption` (the base is above 1, and the length of a text fits into the
field), `HandlerAssumption` (a field has at least one word, an empty field the empty one;
blanks are words; words are no images), `IndexAssumption` (a line of `index.txt` has an
image and a target), `CreatorAssumption`.

**`RobotSessionProofs`**: `TypeCorrect`, `SingleSlotHolds`, `BufferNotOverwrittenHolds`,
`FramesWholeHolds`, `OwnAnswerHolds`, `LostRequestIsSilentHolds` and `Refinement` (the
session implements `RequestReply`). None of them is inductive. The invariant behind them
(`IInv`) is that there is one token, the call in progress, and that it is at one place:
moving to the server (`RequestMoving`), queued there, being handled, moving back, or queued
at the client, while all other places are empty (`Quiet`). While it moves, the stream
continues where the reader stands and the write continues where the stream ends
(`StreamContinues`), also while the connection waits in the backlog, so that the reader
that `Accept` starts finds it so. `Started` says which readers and threads exist, `Lost`
what is left after a request went down with a refused endpoint. One lemma per action, over
four lemmas about a stream.

**`RobotSessionProgressProofs`**: `NobodyStuckHolds` and `EveryStepNearerHolds`. Where
`RobotSessionProofs` says where the call may be, `Progress` says that it is all there: a
write under way has bytes left (`OpenWrites`), the chunks of a frame that its reader has not
taken are on the wire or being written (`Coming`, for a request while its connection is
tried or up, for an answer while it is not down), and an end that has stopped to read is
known (`EndKnown`). So a reader that waits for a chunk has one coming, and if it has none,
the message is in a deque, with an executor, or lost with `is_alive_` lowered. Each action
is then shown to lower `Work`, over lemmas about one send, one read and one failure of a
stream (`SendNearer`, `ReadNearer`, `StopNearer`, `FailNearer`), or to lower the `Stage`:
`Work` may start anew only as the request is taken and the answer written. Both together
are the safety half of `AnsweredOrDead`: as long as it is not answered there is a step, and
there is no infinite sequence of steps.

**`ThreadsafeDequeProofs`**: `TypeCorrect`, `NoLostWakeupHolds`, `Refinement` (the deque
implements `LifoStore`), `GivenOnceHolds`. `NoLostWakeup` counts waiters that are up and
producers about to notify; `Placed` ties the mutex to the program counters and is
needed to know that the thread that sleeps, pops or notifies is the one that holds the
lock. `GivenOnce` is then a property of the store: the deque holds increasing numbers
that nobody was given, and each number that it does not hold was given once (`Fresh`).

**`WireProofs`**: `HeaderRoundTrip`, for every base, every length below its fourth power
and every type and command that `encode()` accepts: what the decoder reads from the header
is what the encoder put there. `TypeCorrect`, `MessagesSurviveHolds`, `BodyFitsHolds` and
`InStepHolds` are about the stream, for any number of messages of every length that the
field carries. `BodyFits` is an equivalence: the buffer is too small for the longest body
and for no other. That messages survive is not inductive: nothing in it says what the bytes
still under way are. The invariant cuts them (`Framed`): there are places on the stream,
the first where the reader stands (six bytes back once the header is read), the last at the
end, such that the frame of each message that is not out yet lies between its place and the
next. `FrameAppended` and `FrameStays` are for `encode()`, `FramesNearer` for the two
reads. `BodyPending` says that the buffer is the one for the message that comes next. That
the text ends where the sender's did (`TerminatorEnds`) rests on the first NUL of a text,
which exists because the numbers are well-founded (`FirstNul`). `NoReadStarvesHolds`
follows from the same cut: the place after the reader's is a whole frame away
(`NextFrame`). `Refinement` (the stream implements `FifoChannel`) needs in addition that
the body that is read is, byte for byte, the oldest message under way (`MessageComesOut`);
the rest is about sequences that grow at one end and shrink at the other (`FromGrows`,
`FromShrinks`).

**`MessageHandlerProofs`**: `TypeCorrect`, `SuccessIsOwnStartHolds`, `NameIsSpentHolds`,
`OneWordFieldsAreReadHolds`. `StartWords` says where the words of the fields stand in a
request, over `StartLength`: every field has a word, so that the JSON is the fourth or a
later one. From it, `ParsedFields`: a word of the name that is no blank must be the third
of a request that is parsed, as it would otherwise stand in front of the JSON; then user
and directory are one word each, and name and directory are read as they were meant.
`OneWordsParse` is the converse for fields of one word (`WrittenIsRead`). The invariant
adds to the properties that a request is one that a client wrote (`RequestWritten`), that a
create without an error has left the container of this request to be started (`Starting`),
and that a name without a container was never answered "Success" (`AbsentIsUnspent`).

**`ServerWidgetProofs`**: `HandlerImplemented` (every behaviour of the GUI is one of
`MessageHandler`), `WidgetTypeCorrect`, `HiddenRunsWereFailuresHolds`,
`ImagesOutdatedByFailureOnlyHolds`, and `GuiSuccessIsOwnStart`, which carries
`SuccessIsOwnStart` over through the refinement, for any `Blanks`. The refinement needs
that each row of the run table has been running once, however old it is, which in turn
needs what an answer lists (`AnswersKnown`) and which answer each place of the GUI thread
waits for (`Asked`). `RunsKnown` is `HiddenRunsWereFailures` in the middle of a slot: it
may fail only from the moment a start was answered "Success" until the table is read. It is
kept by an engine step because a request that is under way is nobody's success yet
(`Unanswered`, `StartedRan`). `ImagesKnown` is the same for the table of images. The lemma
`ExecuteWrites` says what an executor's step may do to all of this, so that the GUI's proof
does not look into the executors again. `CallsImplemented` maps the GUI to a caller of
`RequestReply`: `Asked` says that a place between two calls has no request under way, so
that each step enters a call (`UserStepCalls`), leaves one (`GuiStepCalls`), executes one
or is none of the caller's. `RobotSession` implements the same module with the threads and
the connection in it: what the two take from each other is one abstract specification,
proved on both sides.

**`RobotServerCreatorProofs`**: `TypeCorrect`, `ServedBySrvHolds`, `OneEntryInALifeHolds`.
A server process takes one connection because `already_created_` is raised once a
connection was born in its life (`Lives`), hence no two connections share a life
(`Distinct`), and what got into a list was answered, hence born (`AnswersAreServed`).
`Addressed` ties a backlog to the robot it belongs to.

**`RobotServerCreatorProgressProofs`**: `NobodyStuckHolds` and `NeverSetBackHolds`. `Kept`
adds to `IInv` that a call that is waited for is in a connection of its own process, which
was opened and not left (`CallsOpen`, `ListKept`), that a connection that is queued has a
turn at a robot that runs (`BacklogKept`), and that one that was taken is queued nowhere
(`BornLeft`), so that nothing in a backlog is answered. The two acts of the accept loop
share one lemma (`NextAcceptKeeps`): the head leaves nearer to its end than it came, and
every other turn moves up by one. `AtTheEnd` is what `Connect` needs of a longer backlog,
`Closed` what an end of the server and a break have in common.

**Model-checked only**: the liveness properties (`AnsweredOrDead`, `MessagesAreTaken`,
`MessagesArrive`, `RequestIsAnswered`, `SlotsReturn`, `AnsweredOrKnown`). Fairness and
ENABLED are out of the prover's reach. For three of them the safety half is proved, that
somebody has a step to take and that the steps lead somewhere: `NobodyStuck` and
`EveryStepNearer` for `AnsweredOrDead`, `NoReadStarves` for `MessagesArrive`, `NobodyStuck`
and `NeverSetBack` for `AnsweredOrKnown`. What is left to TLC there is that the guards
named by those formulas are what enables the fair actions, that in `RobotServerCreator` a
fair action of the call's own is one that lowers `Left` or moves its turn (`NeverSetBack`
says only that none does the opposite), and the induction. Every safety property and every
refinement of a passing run is a theorem.

## 5. What the checks found

* `session_dead_client`: `isAlive()` is written to end a server that lost its client,
  but its call is commented out (`src/server/server.cpp:15`). The process thread waits
  for ever, and `do_accept` drops every later client.
* `handler_failure`: `containerStart(name)` follows a failed `createContainer`
  (`src/server/message_handler.cpp:299`). In the run, a first request creates the container
  of a name and fails to start it; a second one under that name cannot create it, starts the
  container of the first, and is answered "Failure".
* `handler_dds`: `RoboStartDDSExec` tests an `optional` that it has just assigned
  (`src/server/message_handler.cpp:67` and `:72`): neither a `fastdds` nor a `setenv` that
  failed reaches the answer. The run ends at the first of the two that TLC meets, a `setenv`
  or a `fastdds` that failed under a "Success"; both take the same branch.
* `widget_tty`: the create box comes up with "Enable" checked
  (`src/client/gui/boxes/server_container_create_box.cpp:41`), but `setChecked()` emits no
  `buttonClicked` and nothing initializes `tty_`
  (`include/client/gui/boxes/server_container_create_box.hpp:26`): a box that is accepted
  as it comes up sends whatever the memory held.
* `widget_list`: a `containerList()` that failed is answered like an engine without
  containers (`src/server/message_handler.cpp:329`), and the loop that fills the table of
  running containers (`src/client/gui/server_widget.cpp:168`) empties it.

Some properties that hold say what the program does rather than what one would wish:
`LostRequestIsSilent` (a client that connected on its second endpoint waits for a request
that was never sent), `NameIsSpent` (a failed start cannot be retried under its name),
`OneEntryInALife` (a second client, or the first one when it comes back, is never served
until the server is restarted), `BodyFits` (a body of 2^32 - 1 bytes overruns its buffer),
`SlotsReturn` (a connection that is lost leaves its slot open, a target with a space ends
the client), and `SuccessIsOwnStart`, which says nothing of the blank name: the user "a b",
the directory "c" and the name " " are read as the directory "b" and the name "c", and that
container is started and answered "Success". All are in the list of hazards.

## 6. What is left out

* Texts of 2^32 bytes and more (`WireAssumption`), whose length the cast to `uint32_t` would
  cut, and what follows a read that overran its buffer.
* The lookup of an executor for a command that its table does not have
  (`src/server/message_handler.cpp:45`): no `RoboClient` method writes such a command.
* The use of one socket by two threads at once (`encode()` on the process thread, the
  reads on the main thread), which asio does not promise to support: its effect is
  modelled as the interleaving of two independent directions.
* The JSON of answers and configurations, beyond where it is cut: duplicate images and
  invalid UTF-8 in `index.txt`. Names that the engine refuses are among the calls that it
  may refuse; a container without a name is left out, as no request can be about it.
* Image ids and image names are one value: the GUI takes the ids from the list.
* Other users of the docker engine, and files under `docker/run`.
* The move constructor of `SerializedMessage`, which every use elides.
* `closeConnection` and `~RoboClient`, reached only through a "Failure" that
  `createDDSInstance` never gets; `~ServerWidget`, as `main` never
  deletes the main window and the process ends with it: `GuiRestarts` is that end.
* The tables of several robots in one window. `ServerWidget` has the tables of one; the
  clients of several are in `RobotServerCreator` as connections.
* What is shown when a log is empty: `LogTaken` allows the new log and the old one.
* A composition of `RobotSession` and `ServerWidget` in one state space. They meet at
  `RequestReply`, which both are proved to implement; that an execution ends in an answer or
  in the end of the server, which the session takes for granted, is `RequestIsAnswered`.
* `src/test.cpp`, which no target builds, and the container files.

## 7. Plan

Done, in this order: `RobotSession` with `Codec` and `RequestReply`, its proofs,
`ThreadsafeDeque` with `LifoStore` and its proofs, `Wire` and the header theorem,
`MessageHandler` and its proofs, `ServerWidget` over `MessageHandler` with its refinement
and proofs, `RobotServerCreator` and its proofs, the proofs about the stream of `Wire`;
then progress: `NobodyStuck` and `EveryStepNearer` of the session, `NoReadStarves` and
`FifoChannel` of the wire, the GUI as a caller of `RequestReply`, `NobodyStuck` and
`NeverSetBack` of the servers, all with their proofs.

Left: the safety half of `MessagesAreTaken`, `RequestIsAnswered` and `SlotsReturn`, the
composition named in section 6, and several robots' tables in `ServerWidget`.
