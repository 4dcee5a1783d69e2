# Verification of asio-redis

TLA+ models of asio-redis, the TLC runs that check them on small instances, and
theorems about the two processors, their callback queue, the output buffer, the reply
parser, the query builder and the client that the TLA+ proof system checks for every value of
the constants. Paths are relative to the repository; `PROJECT.json` maps every definition that
models code to its lines.

## 1. The system

A `client` owns an event loop (an `asio::strand` on an `io_service` that one thread
runs), a manager of connections for the master and for each slave, and two
processors for each server. Application threads send queries through it; every
completion handler and every callback runs on the event loop's thread.

```
 application threads                         event loop thread
   client::async_send                          io_service::run
     | route: master or weighted pool            |
     v                                           |
   pipeline::push / serial::push                 v
     | callback queue, output buffer   <---   req_handler (write done)
     | __req_proc_manager, __req_poc   <---   resp_handler (bytes read) -> resp_proto -> callbacks
     v                                        __timeout_hendler, connection_handler, ...
   socket: async_write_some, async_read_some
```

| component | state | operations | what makes it correct |
|---|---|---|---|
| pipeline processor, `procs/pipeline` and `procs/proc_abstract` | callback queue, output buffer (main and frozen block), `_req_proc_running`, `_stop_in_progress`, `_error_status`, `_timer_is_started`, the promise of the destructor | `push` (any thread), write and read handlers, timer handler, `__socket_error_hendler`, `stop` | a callback gets the reply of its own query, once; one write at a time; the buffer below its limit; nobody waits for ever; nothing is left when the processor stops or loses its connection |
| serial processor, `procs/serial` | queue of queries, queue of the batch that was sent, the same flags | the same | the same, and one batch at a time |
| `threadsafe::queue` | linked list with a dummy node, two locks, a counter | `push`, `try_pop`, `empty` (any thread) | it is a FIFO queue; no node is used after it is freed |
| output buffer, `output_buff` on `buff_abstract` | one block being filled, one frozen while it is written | `add_query`, `check_overflow`, `get_buffer`, `sending_report`, `reset` | bytes leave in order, once; nothing is written past the allocation |
| reply parser, `resp_proto` on `input_buff` | bytes read, offset of the first unparsed one, an array in progress | `parse_one`, `manage_mem`, and the read before them | the replies come out whole and in order however the stream is cut |
| connection manager, `conn_manager` with `conn_queue` | a cache of sockets shared with the processors, attempts and their timers | `async_get` and its two handlers | a socket has one user; every request is answered once |
| weighted pool, `list_balancer` | units and a map from points of preference to units | `add_unit`, `clear`, `balanced_rand` | the map points into the list |
| client | managers, processors, pools, `_connected`, the event loop with `_worked_time` that keeps it running | constructors, `connect`, `disconnect`, `reconnect`, `async_send`, the disconnection handler, the destructor | a request to connect ends once; a connected client is complete; a write goes to no slave; the loop lives as long as the client, and the destructor returns |
| query builder, `query` and `query.cpp` | the text of a query, the places of its direct buffers, `_pcount` | a constructor for each kind of argument, three fast ones, `build_multibuffer` | the bytes are one array of bulk strings, the arguments |
| command types, `cmd_traits` | none | `only_master_t` | no command that writes may go to a slave |
| string and address helpers, examples, tests_lab | none that others rely on | | not modelled (section 8) |

The components meet in these places. `push` and the handlers share the callback queue
and the output buffer, partly under `_buff_mux`, partly not. `__req_proc_manager` runs
on whichever thread wins the exchange on `_req_proc_running`. The destructor waits for
a promise that the read handler or the error handler sets. A socket belongs to the cache
of its manager and, through a shared pointer, to a processor or a timer handler; the
pointer's count decides whether it is free. The chain of connections of a client goes on
inside the callbacks of `async_get`, on the application's thread when the socket comes
from the cache and on the event loop otherwise. A query is built by the caller; from then
on it is bytes, which the server has to read as what was meant, and the type of its command,
which decides between the master and a slave.

What is hard: the unlocked flags read by one thread just before another changes them; a
handler that was queued before the error it reports; a write of a part; two handlers that
report the same lost connection; cancelling a timer that has already expired; a stream
that is cut anywhere; memory that is recycled. `PROJECT.json` lists these hazards at their
lines.

## 2. Modules

| module | what it is |
|---|---|
| `CallbackService` | abstract: what a processor promises the callers of `push` |
| `Pipeline` | the pipeline processor, one action for each access to shared state |
| `PipelineInvariant` | its inductive invariant, the strengthening for the refinement, and those for the ends of a processor |
| `PipelineProofs`, `PipelineEnds` | theorems and proofs: safety; implementation, timer and end |
| `SequenceFacts` | lemmas on sequences and numbers used in all the proofs |
| `Serial` | the serial processor, at the same granularity |
| `SerialInvariant`, `SerialProofs` | its inductive invariant; theorems and proofs |
| `FifoQueue` | abstract: a queue with indivisible operations |
| `TwoLockQueue` | `threadsafe::queue`, one action for each access to memory, and its inductive invariant |
| `TwoLockQueueProofs` | theorems and proofs |
| `BuffAbstract` | `buff_abstract` as functions on a record |
| `OutputBuffer` | `output_buff`, byte by byte, and its inductive invariant |
| `OutputBufferProofs` | theorems and proofs |
| `RespFormat` | the bytes of the protocol that both sides write |
| `RespProto` | `resp_proto` and `input_buff`, byte by byte |
| `RespInvariant`, `RespProofs` | the grammar of replies and the inductive invariant of the parser; theorems and proofs about the parser and the queries |
| `QueryBuilder` | `query` and its build functions, as functions on a record; the texts that arguments stand for |
| `CmdTraits` | the command types and where they may be sent |
| `ListBalancer` | the weighted pool as functions on a record |
| `ConnManager` | connection attempts, their timers, the caches |
| `Client` | the client, on `ConnManager`, `ListBalancer` and `CmdTraits` |
| `ClientInvariant`, `ClientProofs` | its inductive invariant; theorems and proofs |
| `MC...` | the instances that are checked; `serial` checks `SerialInvariant` as it is. `MCRespProto` composes `QueryBuilder` with `RespProto` |

`Pipeline` and `Serial` implement `CallbackService`; `TwoLockQueue` implements
`FifoQueue`. The layers are cut where one promises what the next assumes: `Pipeline` and
`Serial` use a callback queue whose operations are indivisible (`TwoLockQueue` shows it)
and replies that arrive whole or not at all (`RespProto`), and count queries where
`OutputBuffer` counts bytes; `Client` sees a processor as its socket. The repository has
one implementation of each side of the protocol, so that what `QueryBuilder` writes is read
by `RespProto`: a query is an array of bulk strings, as a reply may be.

Operators named `Xxx_Yyy`, just before `Xxx`, are what `Xxx` would be with a plausible
mistake. They are used by nothing in the models: `PROJECT.json` pairs each with the
property that exposes it.

### Pipeline and Serial

A thread is where its `pc` says: `idle`, or before the next access to shared state. The
labels follow `push` and `__req_proc_manager` with `__req_poc`
(`lock wait relock push_cb add_query cas check unset timer_check timer_start get_buffer write`)
and, for the event loop's thread, the handlers
(`sent req_done error drain parse callback cb_done tail disarm cancel`). What the code does
under `_buff_mux` without any other thread being able to see it is one step; a read or
write of an atomic, of the plain flag `_timer_is_started`, or of the callback queue, which
has locks of its own, is a step by itself. `ioq` is the list of completion handlers ready
to run, in the order they were posted. `owner` is the thread in the destructor; it runs
when no `push` is in progress, which is what holding the last reference means.

A query is its own reply, so that "the right reply" is all there is to compare. The kernel
takes any part of a buffer (`WriteDone`), the server answers in order (`Reply`), a read
returns any number of replies or a part of one (`ReadDone`). When `CanBreak` holds the
connection may break at any time; outstanding operations then end with an error. The
timer may expire whenever it waits; its handler throws, nothing catches it
(`client.cpp:126`), and the model stops with `status = "timeout"`. `Next` lets the
environment do all this without restriction.

In `Serial` a query taken from `_query_queue` is in `q_tmp` until it is put in
`_sended_queries`. `_req_proc_running` stays set during a batch, so that the other handlers
cannot overlap it; the steps nobody else can see are joined. The labels are
`enter lock wait cas check unset take put notify write` and, for the loop,
`error drain parse callback tail release`. The names of the queries do not matter: a thread
pushes the first that is left.

### TwoLockQueue

Locks, the data of nodes, `next`, `_head`, `_tail` and `_size` are accessed one by one.
Nodes come from a small heap and are reused as soon as they are deleted, which makes a
dangling pointer visible. A push takes effect when it counts its node, a `try_pop` when it
moves `_head`, one that fails when it reads `_tail`.

### OutputBuffer, BuffAbstract

A byte carries the number of its place in the stream, modulo `Labels`. `owed` lists the
bytes added that the kernel has not taken yet; it is a history variable. `size_t`
arithmetic is modulo `SizeT`.

### RespProto

Memory is an array of bytes; what is above `_top_offset` is what earlier replies left, or
junk. A read adds any number of bytes up to what was released. The parser's functions
return what the code leaves in its reference parameters, with its early returns. They are
functions of the memory and of how many bytes of it have been received, and may look at any
byte of it. A stream is its bytes, what they should be read as, and the places where the
parts of each reply begin (`stream.at`); the parser does not see the latter two. `_init_array`,
`_fill_array` and `_read_data` call each other for an array in an array. As the prover takes
no recursive operators, the call of `_init_array` for a record is the constant `NestedArray`,
and every cfg gives it `InitArray`: TLC runs the recursion as the code has it, and the proofs
are about streams on which the call is not made, whatever it would do.

`RespInvariant` says what a well-formed stream is, without the parser's help: lines of a mark,
some text without `\r`, and `\r\n`; bulk strings of the length their line says, in which any
byte may occur; the null bulk string and the empty array; and arrays of 1 to 999 flat replies
(`WellFormed`). TLC confirms, as an assumption of `MCRespProto`, that the streams of the
server in the runs are well-formed.

### QueryBuilder, CmdTraits

The text of a query is a sequence of bytes, with the thirteen that the general constructor
reserves for the header. `AddArgument` has a case for each overload of `_build_RESP_next`;
the direct data of an argument stays outside the text, at a remembered place, until
`build_multibuffer` puts the pieces in order. Texts end at their first zero byte, as the
code passes them on with `c_str()`; direct data may hold any byte. `AllParts` says, apart from
the bytes, which texts a list of arguments stands for; TLC confirms it for the queries of the
runs, as the assumption `TextsAreAskedFor` of `MCRespProto`. `CmdTraits` has the
structs of `cmd_traits.hpp`, in sets for each section of the file; what a command does to
the data is Redis's documentation, not the repository's.

### ConnManager, Client

An attempt is a socket with two handlers on the loop, that of `async_connect` and that of
the timer. `use_count` is who holds the socket: the cache, a timer handler that has not
run, a processor (`held`). `waiter` is what the attempt's callback will do: the request it
serves and the step of the chain. `chain` says which step each thread is at. `Steps` lists
the order in which the nested callbacks make the processors. `answers` collects what each
request was confirmed with; a second confirmation sets a promise twice, and the exception
ends the process.

`app.goal` says what the application is doing besides connecting; `disconnect`, `reconnect`
and the destructor clear the pointers one by one. `worked_time` is the timer that has
always an operation pending, so that `io_service::run` does not return; it returns
(`LoopReturns`) when there is no timer, no attempt and no read of a pipeline left. The
destructor (`Disconnect("destroy")`, `Clear`, `Join`) cancels the timer, and waits for the
worker.

## 3. Runs

`violation` runs show where the code does not do what the repository says.

| run | what it asks | expected |
|---|---|---|
| `pipeline_service` | connection up, two threads, four queries of which one is pushed by a callback, room for two in the buffer: the inductive invariant and the safety properties of the pipeline, and `CallbackService` | pass |
| `pipeline_live` | connection that may break, two threads, two queries and room for both: `CallbackService`, what a lost connection leaves behind, and the liveness that does hold | pass |
| `pipeline_lost_wakeup` | is every query answered? | violation |
| `pipeline_late_answer` | does a callback get the reply of its own query when the connection breaks? | violation |
| `serial` | the serial processor, with a connection that may break, two threads, four queries of which one is pushed by a callback, batches of two: its safety, its liveness and `CallbackService` | pass |
| `queue_fifo` | three threads, four nodes, two values: a FIFO queue | pass |
| `output_buffer` | queries of two sizes, with and without a line end, until the record of reserved memory wraps around | pass |
| `parser_replies` | streams of up to eleven replies, and queries as the query builder makes them, cut in every way; the inductive invariant of the parser | pass |
| `query_fast_set` | is a query with a key and a value read as one query? | violation |
| `parser_cut_array` | is a well-formed stream ever refused? | violation |
| `client_connect` | connect, break, disconnect, reconnect and destroy, with a bad address and a slow server; routing of every command | pass |
| `client_timeout` | does a request have one result? | violation |

### The properties

Pipeline. `CallbacksMatchQueries`: until the first error the callback queue is the sequence
of the queries in the input buffer, on the wire, in the frozen and in the main block.
`OneWriter`: `_req_proc_running` is a token; its holder is one thread, one write or one
queued handler. `ServiceInv`: the inductive invariant of section 5, with `TypeOK`,
`NoSyncError` (the exception of `resp_handler` is never thrown) and `BufferWithinLimit` (also
when several threads are woken for room that one needs) among its parts. `WaiterHasCause`:
whoever waits for room waits for a write that will notify. `StopDrains`, `DisconnectDrains`,
`PromiseOnce`: the ends of a processor. `WireIsTimed`: although `_timer_is_started` is read
without a lock while the read handler clears it, the timer runs whenever the loop sleeps
with a query on the wire. `FrozenIsAnswered`, `BrokenIsNoticed`: liveness.
`ImplementsService`: `CallbackService`, which says among other things that a callback gets the
reply of its own query (`OwnAnswer`), once.

Serial. `OneBatch`, `SendedMatchesWire`, `WaiterHasCause`, `OwnAnswer`, `SendedDrains`,
`SendedIsAnswered`, `ImplementsService`, and `IInv`, the inductive invariant of section 5. Its
`TypeOK` has the limits as the code keeps them, one above the numbers of
`serial.hpp:45-46`. On a connection that breaks the serial processor implements
`CallbackService` up to one step, `LatePush`: a push that tested `_stop_in_progress` before
the connection was lost (section 6).

TwoLockQueue. `ListIsSound` (`TypeOK`, `ChainIsList`, `NoUseAfterFree` and `NoLeak`),
`SizeCountsItems`, `ImplementsFifo`.

OutputBuffer. `BytesInOrder`, `MemoryMatchesRecord`, `NoOverrun`, and `IInv` of section 5.
`NoOverrun` names the exceptions the code has, which come from the two bytes of a line end
that `check_overflow` is not asked about.

RespProto. `RepliesInOrder`, `NothingHeldBack`, `OverflowNeedsLongReply`, and
`RefusedBetweenRecords`, which says that the failure of `parser_cut_array` is the only one,
and `ParserInv`, the inductive invariant of section 5 with `TypeOK` among its parts.
They hold for the queries of the builder too: they come out as one array of the arguments,
and none is refused but where an array would be.

Client. `SocketsNotShared` (with `TypeOK`), `TimerGuardsAttempt`, `RequestIsPending`, and, as
long as no timer has run out, `ConfirmedOnceInTime`, `ConnectedIsComplete` and
`QueryFindsProcessor`: a query object, whatever its command and its buffer, finds a processor or
causes an exception, the latter exactly if it may only go to a master that there is not, as
`client.hpp:58-59` says, or if there is no server at all; one that writes goes to no slave; and a
query given as a string finds the master's pipeline if there is a master. Two cases that
documents and code see differently are outside it: a string without a master, and where a custom
command goes (section 6). `LoopOutlivesClient`: `run` does not return before the
destructor. `DestructorReturns`: it does afterwards, unless the timer's handler was already in
the queue when the destructor cancelled it, or an attempt had timed out.
`late` delimits the finding of `client_timeout`: after a second confirmation the process is
gone, and after a first one by the timer the chain of a late success goes on all the same.

### Bounds

*Pipeline, Serial.* Two application threads and the loop are the fewest for a race between
two pushes and one with a handler; a thread that pushes again stands for a third. Four
queries with `MaxBuff = 3` (a limit that admits two, `io_buffers.cpp:96`) fill the buffer
and make a thread wait; with the frozen block taken at different points a query is in every
place of the data path at once. Liveness runs have two queries, for the state space without
symmetry. `MaxQueue = 0` and `MaxBatch = 1` put one query above each limit within reach.
Every query is pushed at most once, which bounds everything else. Application threads and
queries that no callback pushes are interchangeable, so `pipeline_service` and
`pipeline_late_answer`, which check safety only, use symmetry; runs with liveness properties
do not. `Serial` takes the queries in a fixed order instead, which is sound with liveness
and removes most of the states.

*TwoLockQueue.* Four nodes for three threads: one list node, the dummy, and nodes between
allocation and linking or unlinking and deletion; `CallPush` needs a free one. With the
heap exhausted pops free nodes again; deadlock is checked.

*OutputBuffer.* `MaxBuff = 8`, `BasicBlock = 2` and queries of 1 and 3 bytes reach every
filling of the block, including the last byte; `SizeT = 64` lets the record of reserved
memory, which roughly doubles, wrap around. `Labels = 5` tells apart more bytes than a
query has. (The code: 10 MB, 1 KB, 2^64.)

*RespProto, QueryBuilder.* Streams of one to eleven replies: every kind, the empty and null
forms, bulk strings that contain line ends and marks, arrays of 1, 3 and 19 records, at every
cut into reads of at most `ReadSize = 6`. `MaxBuff = 80` makes a stream of several replies
pass the half of the buffer at which `manage_mem` moves data, the long ones more than once,
and the array of nineteen overflow it. `Junk` holds a byte that is no mark, one that is part
of a line end, and a mark. A stream never holds an array within an array (section 6). Queries
have one to ten parts, so that the header grows by a digit: a text cut at a zero byte, a
negative number, vectors of eight and nine texts, and two direct buffers one after the other,
one of them empty and one with a zero byte and a line end; in one query of ten parts the last
two are direct.

*Client.* A master alone, a master with two slaves (first and last of each pool), slaves
alone, and no server at all; one address is bad and one server slow. `Slow` limits the
servers whose timer may run out. Two requests are the first connect and a reconnect from the
cache. `MaxSockets = 8` is more than the attempts of two requests need, so that the bound
never stops one; TLC confirms that no state asks for a ninth. Two reductions: the handler of
a timer that was cancelled runs before anything that completes later, because the loop keeps
the order in which handlers are posted; and `_worked_time` expires only while the
application is between two calls, because nothing but the destructor looks at it.

`CHECK_DEADLOCK FALSE` is given where the system may come to rest: a processor whose
queries are all answered, one that was destroyed, or one that ended in an exception; a
stream that was read to its end; an output buffer after an exception; a client whose
application has used up its requests.

## 4. Fairness

`FairSpec` of `Pipeline` and `Serial` assumes weak fairness of each thread inside `push`
(the scheduler), of the loop (`io_service::run` takes the next handler), of the destructor
once it has begun, of the kernel taking and reporting bytes, of the server answering and of
a broken connection failing a read. A read that returns part of a reply again and again
would starve the parser, so that reads with at least one whole reply are strongly fair: a
reply has a finite length. Nobody is obliged to push, to destroy the processor, to break
the connection or to let a timer expire. All threads compete for `_buff_mux`; weak fairness
is enough for the properties checked, because no thread holds it for ever and the pushes
are finitely many.

`FairSpec` of `Client` assumes weak fairness of a thread that is in a chain, of `Clear` and
`Join` once the application disconnects or destroys, of the event loop (handlers, `reset_timer`
once the timer has expired, the return of `run`), and of each attempt, which the network or its
timer ends. The application need not call, a connection need not break, and `_worked_time` need
not expire. `TwoLockQueue`, `OutputBuffer` and `RespProto` are checked for safety only.

## 5. What is proved

| module | theorems |
|---|---|
| `PipelineProofs` | `Invariance` (`IInv`), `TypeCorrect`, `SingleWriter` (`OneWriter`), `CallbackOrder` (`CallbacksMatchQueries`), `RightReply` (`OwnAnswer` until the first error), `NeverOutOfSync` (`NoSyncError`), `RoomKept` (`BufferWithinLimit`), `StopWaitsForAll` (`StopDrains`), `NobodyWaitsInVain` (`WaiterHasCause`) |
| `PipelineEnds` | `ServiceInvariance` (`ServiceInv`); on a connection that does not break, `Implementation` (`ImplementsService`); `EndInvariance` (`EndOK`), `WireTimed` (`WireIsTimed`); with room for every query, `RoomyInvariance` (`RoomyInv`), `LostLeavesNothing` (`DisconnectDrains`), `OnePromise` (`PromiseOnce`), `RightReplyAlways` (`OwnAnswer`), `RoomyImplementation` (`ImplementsService`) |
| `SerialProofs` | `Invariance` (`IInv`), `TypeCorrect`, `SingleBatch` (`OneBatch`), `SendedInOrder` (`SendedMatchesWire`), `RightReply` (`OwnAnswer`), `NobodyWaitsInVain` (`WaiterHasCause`), `ErrorAnswersAll` (`SendedDrains`), `Implementation` (`ImplementsService`) |
| `TwoLockQueueProofs` | `Invariance` (`IInv`), `ListSound` (`ListIsSound`), `SizeCounts` (`SizeCountsItems`), `Implementation` (`ImplementsFifo`) |
| `OutputBufferProofs` | `Invariance` (`IInv`), `TypeCorrect`, `StreamInOrder` (`BytesInOrder`), `RecordIsTrue` (`MemoryMatchesRecord`), `OneByteAtMost` (`NoOverrun`) |
| `RespProofs` | on well-formed streams: `Invariance` (`ParserInv`), `TypeCorrect` (`TypeOK`), `InOrder` (`RepliesInOrder`), `NoneHeldBack` (`NothingHeldBack`), `RefusedOnlyBetweenRecords` (`RefusedBetweenRecords`), `OverflowOnlyForLongReply` (`OverflowNeedsLongReply`); without arrays, `FlatNeverRefused` (`NeverRefused`). On queries: `QueryIsWellFormed`, `FastQueryIsWellFormed` (their bytes are one well-formed array of the texts asked for) |
| `ClientProofs` | `Invariance` (`IInv`), `EachItsSocket` (`SocketsNotShared`), `TimerOfAttempt` (`TimerGuardsAttempt`), `NoneForgotten` (`RequestIsPending`), `OneConfirmation` (`ConfirmedOnceInTime`), `CompleteWhenConnected` (`ConnectedIsComplete`), `EachQueryItsProcessor` (`QueryFindsProcessor`), `DocumentsContradicted`, `LoopLives` (`LoopOutlivesClient`) |

They hold for any sets of threads, queries, values, nodes, servers and streams, any lists of
arguments, any limits, and whether or not the connection may break, except where the table says
otherwise. What they assume of the constants is what the modules name, and TLC evaluates it in
every run:

- the event loop is not an application thread; `NoThread`, `NoQuery`, `NoNode` and `NoSocket`
  are none of the things they stand beside;
- limits are natural numbers, and positive where the code's are;
- `BlockAssumption` (`BuffAbstract`): two basic blocks fit in the limit, and `size_t` holds
  twice the limit. The code has 1 KB, 10 MB and 2^64;
- `ReadAssumption` (`RespProto`): a read is not longer than the limit, and memory holds bytes;
- `CallAssumption` (`Client`): the preferences of servers are 1 to 10. The code throws for
  others, before the client has any state.

None of the properties is inductive by itself. What follows says what each strengthening
adds, and why it is needed.

### Pipeline

`IInv` is the conjunction of

- `TypeOK` and `ArgOK`: a thread inside `push` has a query, and a callback is in hand
  exactly while it is called;
- `OneWriter`: the holder of `_req_proc_running`. `get_buffer` takes no part of the mutex,
  so that this, not the mutex, keeps the frozen block from changing under a write;
- `BytesOK`: the bytes a finished write will report are part of the frozen block until its
  handler runs. Without it `sending_report` could drop queries that were not sent;
- `MutexOK`: the threads between the test for room and the end of `add_query` hold the
  mutex, hence there is at most one;
- `OrderOK`: the callback queue is `Flow`, the concatenation of what is in the input
  buffer, on the way back, on the wire, in the rest of the frozen block and in the main
  block, or is one query ahead of it while a thread is between `_cb_queue.push` and
  `add_query`. Each step moves a piece of `Flow` from one part to the next; a lemma for each
  (`AddQueryFlow`, `GetBufferFlow`, `ReqSentFlow`, `WriteDoneFlow`, `ReplyFlow`,
  `ReadDoneFlow`, `ParseFlow`) says that the concatenation does not change, or grows at the
  end, or loses its head;
- `NoSyncError`: by `OrderOK`, a reply in the input buffer is the head of the callback
  queue, which is therefore not empty (`ReplyHasCallback`). A thread that has pushed its
  callback and not yet its query only makes the queue longer;
- `RoomOK`: the room a thread was admitted for is still there when it adds its query, as
  others that add need the mutex and `get_buffer` only makes room;
- `StopOK`: when the destructor runs nobody is between the entry and the exit of `push`
  that could add a callback, so that an empty queue stays empty.

`WaiterHasCause` is inductive beside it: the steps that make room either notify or are
`get_buffer`, which leaves a write whose handler will notify (lemma `WaitStep`).

*Implementation.* `UniqueOK` says that a query is in one place (a thread's hand, the queue,
the callback being called, or finished), and `NoBreakOK` that a connection that cannot break
reports no error. The mapping puts the callback in hand before the queue: `ParseReply`, which
moves it from one to the other, is a stutter, `PushCallback` is `Accept`, `PushIgnored` is
`Refuse`, `Callback` is `Answer`, `Stop` is `Close`, and of a connection that breaks
`SocketError` is `Close` and `Drain` is `FailAll`. `ServiceStep` says so on condition that
nothing is accepted or answered after an error. `Implementation` meets it with the assumption
`~CanBreak`, `RoomyImplementation` with room for every query; `pipeline_late_answer` shows that
without either it does not hold.

*The timer and the end.* `EndOK` adds `ReaderOK` (there is one read: outstanding, in the queue
of handlers, or being handled), `WriteLeft` (a write that has not succeeded has a part of the
frozen block before it), `LastReplyOK` (after the last reply of a processor that stops nothing
is left that could report an error), `ClosedOK` (an error has stopped the processor and closed
the socket before the callbacks are drained), and `TimedOK`: a write that put queries on
the wire arms the timer when it is reported, and a read handler that has decided to cancel the
timer does so before such a write is reported. This is why the flag that two threads use
without a lock is harmless: the loop runs one handler at a time, so that the cancellation
cannot come after the next `async_wait`.

What a lost connection leaves behind depends on room. `Cardinality(Query) < MaxBuff` says that
the buffer has room for all the queries there are, so that nobody ever waits. Then `RoomyInv`
is inductive beside `IInv` and `EndOK`: nobody waits (`NobodyWaits`), after the error nobody is
between the test and `add_query`, nothing is left in the queue and no callback is being called
(`LostOK`). From it follow that the queue is empty when the error handler ends, that no reply
goes to the wrong callback, that the promise of the destructor is set once, and
`RoomyImplementation`. Without that room TLC finds each of them violated on the instance of
`pipeline_late_answer`, by a thread that was waiting when the connection was lost: the
hypothesis is the boundary of the finding of section 6, not a convenience of the proof.

### Serial

`IInv` adds to `SendedMatchesWire`, `OwnAnswer`, `WaiterHasCause` and `SendedDrains`

- `HandsOK`: who has a query in hand (a pushing thread, the thread that moves one from
  `_query_queue` to `_sended_queries`, the loop in a callback);
- `BatchOK`: the batch is a token. One thread, one operation or one handler has it, and a push
  from a callback is part of the batch that is being answered. `OneBatch` follows from it;
- `MultibufOK`: what the kernel has not taken belongs to a batch that is being built or
  written, or whose write failed, and the batch has at most one query above the limit;
- `DrainOK`, `StopOK`: the error handler has the mutex while it drains, and nobody waits then;
  only an error sets `_stop_in_progress` between a push's test and the queue;
- `CallbackOK`: the reply in hand is that of the callback in hand;
- `UniqueOK`: a query is with the thread that pushes it, once in the line of accepted ones, or
  finished.

Unlike the pipeline, the serial processor has one operation outstanding at most, so that no
reply is on its way when another operation reports an error, and a query pushed late lands in
`_query_queue`, not beside the callbacks: `RightReply` and `Implementation` need no assumption
on the connection. What a breaking connection costs is the step `LatePush` of the mapped
specification (section 6).

### TwoLockQueue

`IInv` adds to `ListIsSound` where the locks are held (`LocksOK`); that a node in a thread's
hands is no one else's and not in the list (`HandsOK`); that the nodes of the list are
allocated and distinct (`ChainOK`); that the part of a push already written is still there
(`PushOK`); and, for `try_pop`, that the tail it has seen follows counted nodes only, so that
a thread past the comparison finds a node to take (`PopOK`), although `_tail` is read and
`_head` moved under different locks; and by how much `_size` lags behind (`SizeOK`). The
proof has lemmas for the chain growing at one end and shrinking at the other. `Implementation`
is by cases: the push takes effect in `PushSize`, the pop in `PopHead`, the failing one in
`GetTail`, and all other steps are stutters.

### OutputBuffer

`IInv` adds `OffsetsOK`, by which the differences of `size_t` never wrap around, and
`FrozenOK`, which says that a write in progress was given all of the frozen block that is
left. The record of reserved memory does wrap around, and the proofs go through: a block that is
recycled is used only up to what was really allocated. `OneByteAtMost` is the exact extent
of the overrun of section 6: one byte, and only for a query with a line end.

### RespProto

The theorems are about every set of well-formed streams: replies in any number, of any length,
with any bytes in a bulk string, in arrays of up to 999 records; for every size of read, limit
and block, and whatever fresh memory holds. What they exclude is what the code gets wrong or
what no document promises (section 6): arrays in arrays, arrays of a thousand records or more,
an empty simple string, negative integers and null arrays.

*The readers.* For each kind of reply a lemma says what its reader finds in memory whose first
bytes are those of the stream and whose others are anything (`Received`): the whole reply if
its last byte has been received, and otherwise that it is not complete, with the cursor where
it was (`SimpleRead`, `IntegerRead`, `BulkRead`, `NullBulkRead`, together `FlatRead`). It is for
these that a line must have some text: then the readers' least sizes (`ShortestReply`) never
hold back a reply that is there. A reader takes the first `\r` it finds (`LineFound`); if the
line's own has not been received it may find one above the bytes received, and `BulkRead` has
to show that the length is then found too long for the bytes there are.
`HeaderRead` has no such second test, and `IsHeader` therefore limits the size to three digits:
with four bytes received, the least for an array, the whole number is there. The place of the
parser may then be up to two bytes past `_top_offset`, which `TypeOK` allows.

*Arrays.* `Found(v, k)` is an array of which k records are known. `FillStep` says that the loop
of `_fill_array` takes it from `Found(v, k)` to `Found(v, k + 1)` or stops there, by the end of
the bytes or, at the byte after the last one received, by the exception; `FillAllArray` follows
the loop to its end, by the least record at which it stops. This uses that the records already
found are not read again (each has a type), which is why an empty array is not a record.

*The invariant.* `ParserInv` has

- `BytesKept`: the stream is what was parsed and given up (`base` bytes), what is in the buffer,
  and what is on the wire. It does not hold by construction: `manage_mem` moves overlapping
  bytes, and drops all of them when it believes that everything was parsed;
- `PlaceOK`: the parser is where the current reply begins, or behind k records of it that
  `_respond` holds (`AtReply`, `AtRecord`); when it waits, what begins there has not been
  received whole. The latter is what `NothingHeldBack` needs;
- `DeliveredOK` and `EndOK`: what was returned are the first replies, and with the last of them
  the buffer and the wire are empty;
- `RoomOK`: the current reply begins in the first half of the buffer or of the bytes in it,
  which is what the conditions of `manage_mem` leave. `OverflowNeedsLongReply` follows when
  `release` throws.

`ParsesReply` turns the lemmas on readers into what one call of `parse_one` does on a state of the
invariant (`Parses`): the whole reply, not yet, or stopped in an array. `DeliverStep` then
follows the three ways of `manage_mem`, `StopStep` an array that is to be resumed. That
`parse_one` stops in an array with an exception only if the bytes end there is part of
`Stopped`; `FlatNeverRefused` follows as an array is the only way to it.

### QueryBuilder

A query is right if whoever reads arrays of bulk strings reads in its bytes the texts that were
asked for. `IsQueryOf(bytes, texts)` says so in the grammar of `RespInvariant`, which knows
nothing of the builder: some places make of the bytes a stream (`WellFormed`) of one array, of
bulk strings with these texts. `InOrder` then says that this library's own parser reads them,
however they are cut.

*What holds while a query is built* (`Building`). Behind the thirteen reserved bytes the text has
a body, and the places of direct data, thirteen less than those remembered, lie in it in order
(`Fits`). What would be sent of the body, `Sent(body, ext)`, is the texts so far, one bulk string
after the other (`Encodes`), although for direct data the text holds only the header and the
line end. `TextBuilt` and `DirectBuilt` add a text: bytes after the body leave the places where
they are (`FitsMore`, `SentMore`), and data remembered two bytes before the end is sent there
(`SentDirect`). `VectorBuilt`, `ArgumentBuilt` and `ArgumentsBuilt` follow the recursion of the
overloads.

*The header.* `DecimalFacts` shows that the digits `Decimal` writes have the value of the number,
by the parser's own way of computing it. `HeaderLength` is that `pref_len` counts them right, at
9 and 10, 99 and 100 too; `HeaderWritten`, that the zero byte of `sprintf` falls on a `$`, which
is written again. The rest of the room is cut off in front, and the places move by as much
(`PlacesTrimmed`), after which the pieces are cut from the text where they were before
(`SentMoved`). `EncodedQuery` puts the header and the bulk strings together.

*Limits.* At least one text, as a query has a command; at most 999, because the grammar of arrays ends
there. Texts and direct data have any length; the code formats it with `%d`. The fast
constructor for two texts is not in `FastQueryIsWellFormed`, and cannot be (`query_fast_set`).

The recursive functions of the model are defined with CHOOSE; `Recursion` shows that such a
function exists, `Induct` is induction over its domain. Both are proved for sets and functions,
as lemmas with an operator for a parameter are of no use to the provers.

### Client

`IInv` has the types of the parts, that the cache has a socket once and none that is being
connected (`CacheOK`), that a processor has its socket for itself (`HeldOK`), that attempts,
timers and chains belong to a request that was made and a step there is (`AttemptOK`,
`ChainOK`), that the application asks for nothing before the last request was answered
(`AskedOK`), that it clears the pointers in order (`AppOK`) and when the loop may end
(`LoopOK`). With these, `SocketsNotShared`, `TimerGuardsAttempt`, `RequestIsPending` and
`LoopOutlivesClient` hold whatever timers do.

The rest holds until a timer runs out (`InTimeOK`). `OneWorker` says that one thread or one
attempt works for a request that is not answered, and none for one that is. As the application
makes no request before the last was answered, all the work there is belongs to the last
request, and only one thread or attempt does it (`Lone` in `ClientProofs`): nobody else can
install a processor meanwhile. Hence `BuiltOK`: where the chain is at step k there is a
processor for every step before k and no other. At the end of the chain this is
`ConnectedIsComplete`; with `MapsOK`, by which a map never points further than its pool will
be long, and `MasterOK`, by which only a client with a master has the master's processors, it is
`QueryFindsProcessor`. From the same (`RoutesFacts`) follows `DocumentsContradicted`, which says
what the code does in the two cases of section 6. `ConfirmedOnceInTime` is part of `IInv`, as the
steps that confirm end the work. `client_timeout` shows that after a timer `OneWorker` is
lost: the attempt goes on for a request that was answered.

### What is only model-checked

- Everything under fairness, for which the prover has no backend: `FrozenIsAnswered`,
  `BrokenIsNoticed`, `SendedIsAnswered`, `DestructorReturns`.
- That a query of a thousand texts or more is read as it was built: the parser's grammar ends
  at 999 records (section 6). The run has queries of up to ten.
- The streams that `WellFormed` excludes. `parser_replies` has none of them either.

The inductive invariants of `Pipeline` (`ServiceInv`), `Serial`, `OutputBuffer` and `RespProto`
(`ParserInv`) are also invariants of the runs. Those of `TwoLockQueue` and `Client`, `EndOK` and `RoomyInv` are not, as
their proofs make a run of them redundant.

## 6. Findings

Shown by a run:

- **Lost wakeup** (`pipeline_lost_wakeup`, `proc_abstract.cpp:42-46`). A thread finds
  nothing to send; before it stores `false`, another adds a query and fails the exchange.
  Nobody sends the query until another one is pushed.
- **Reply to the wrong callback** (`pipeline_late_answer`, `pipeline.cpp:37-43`). A thread
  waits for room when the connection is lost. It is notified, does not look at
  `_stop_in_progress` again, and adds its callback to the drained queue. A read that had
  completed before then gives it the reply of an older query.
- **Array cut between records** (`parser_cut_array`, `proto.cpp:312`). The parser looks at a
  byte that has not been received, and throws on the io thread if it is no mark.
- **Fast query of three parts** (`query_fast_set`, `query.cpp:85`). The format counts two parts
  and lacks the `$` before the value's length. `query<cmd::set>(key, value)`, the form the
  header offers for the most common use, is a query of two parts followed by bytes that are
  no query.
- **Second confirmation** (`client_timeout`, `conn_pool.cpp:50-58`). The timeout handler
  confirms and cancels the attempt, whose handler confirms again; for a future that throws
  on the io thread.

Against a document, for every state of a client and not in some schedule, and therefore proved
(`DocumentsContradicted` in `ClientProofs`) and no run of their own; `QueryFindsProcessor` leaves
these two cases out:

- **A query as a string, without a master** (`client.cpp:104`). `client.hpp:58-59` says of the
  overload for slaves only: "Request that can be executed only on the master server cause an
  exception of the client connected in this way.." Queries that are objects do throw;
  `async_send` of a string goes through the null `_master_pipeline`.
- **Custom commands** (`cmd_traits.hpp:511`). The comment above, `cmd_traits.hpp:508-510`, says
  "Slave by default in "client::send" function. Use "client::send_master" if needed." `custom`
  has the default of `only_master_t`, which sends it to the master, and without one it throws
  although there are slaves.

Reached by the models, or read while writing them, where no comment, document or test says
what is meant:

- `io_buffers.cpp:73`: a write's handler that runs after the error handler reset the buffer
  frees `_frozen_data` a second time (`status = "aborted"` in `Pipeline`). The read error is
  posted before the write completes.
- `pipeline.cpp:61`: a write's handler that runs after its reply was handled, or after the
  connection was closed, arms the timer; with nothing to stop it the timer throws.
- `proc_abstract.cpp:32`: a timer that expires while a reply is in the queue of handlers
  throws although the server answered in time.
- `serial.hpp:20`: `push` tests `_stop_in_progress` before it takes the mutex; a query added
  after the error drained the queues is never answered.
- `serial.cpp:104`: `stop` looks at the two queues one after the other, and at neither
  while a query is in `q_tmp`; the destructor may close the socket under it.
- `serial.cpp:47`: a batch takes one query more than `max_query_in_multibuff`;
  `serial.hpp:34`: a queue that is full admits one more.
- `serial.cpp:70`: the timer of a serial processor is armed by every read and never
  cancelled, so that an idle processor times out.
- `proto.cpp:301`: nothing sets the type of an array, so that an array whose records hold a
  nested array is resumed wrongly; `proto.cpp:183`: negative integers are parsed with the
  sign as a digit; `proto.cpp:264`: a null array asks for a huge vector.
- `proto.cpp:260-266`: the search for the end of an array's size looks at the byte after the
  last one received. If a read ends behind the third digit of four, and an earlier reply left
  `\r` there, an array of 1000 records is taken for one of 100; the parser goes on in the
  middle of the size line and throws there. Sizes of up to three digits are safe, because the
  parser waits for four bytes, and the search for the length of a bulk string because a test
  follows that such a length fails. The proof of `HeaderRead` found this.
- `proto.cpp:326`: an empty simple string, `+\r\n`, has three bytes, and the parser waits for
  four: it is returned with the next reply's first byte.
- `io_buffers.cpp:85`: a line end adds two bytes that `check_overflow` was not asked about:
  one byte past the allocation, or an exception on the application's thread with the
  callback already queued; `buff_abstract.hpp:81`: the record of reserved memory doubles
  with every block; `io_buffers.cpp:96`: a query as long as the limit waits for ever.
- `conn_queue.hpp:40`: sockets that a destroyed processor closed are free, so that a
  reconnect hands out dead connections.
- `client.cpp:280`: `_connected` becomes true at the end of a chain although a processor
  made earlier has already lost its connection.
- `list_balanser.hpp:84`: the map keeps its size when the list is cleared and grows with
  every reconnect.
- `client.cpp:171`: when `_worked_time` has just expired, its handler is in the queue without
  an error; the destructor's `cancel` does not reach it, the handler sets the timer again, and
  the destructor waits for ever. `DestructorReturns` names this case, and TLC finds it when the
  exception is taken away.
- `client.cpp:17-22`, `:33-39`: the constructors that take a strand start no worker, and the
  destructor joins a thread that is not joinable, which throws. None of the constructors stores
  `dh_` in `_disc_handler`.
- `query.cpp:59-88` and `query.hpp:161-198`: texts are cut at their first zero byte, while
  direct data is not; `query.hpp:232`: a direct value of 10^7 bytes or more makes `snprintf`
  write one byte past `pref`.
- `cmd_traits.hpp:488`: `key::wait` has the name `TYPE`, below the comment `// WAIT numslaves
  timeout`; names are not modelled. The names of `cmd::cluster` are vectors, from which no query can be built. `auth` and `readonly`
  reach the master only. `is_blocking` and `params_count` are read by nothing, so that
  `blpop` shares its connection with the other queries.

## 7. How the runs are kept honest

Each property of a passing run is paired with a mutant of a definition that the run then
finds violated. All the actions, and every disjunct of each next-state relation, are taken
by some run. The bounds are such that the exceptions written into the properties do occur:
the overrun by one byte, the exception for a line end and the wrap-around in
`output_buffer`; a refused cut and an overflow in `parser_replies`; a thread waiting for
room in `pipeline_service` and `serial`; a push after the error in `serial`; an attempt that
times out, and a timer's handler queued before the destructor, in `client_connect`.

## 8. What is not modelled

- String and address helpers, the profiler, the examples, `tests_lab.hpp`, which is not
  part of the library.
- `resp_proto::parse_string` and `try_bulk_parse`, `conn_manager::get`, `debug_get` and
  `clear_cache`: nothing in the library calls them.
- The client's constructors that take a strand, `set_opts`, `future_send`; the destruction of
  a processor that has queries in a client that is destroyed (`Pipeline` and `Serial` have it);
  overlapping calls of the application on one client (a data race on its shared pointers,
  `client.cpp:133`); `rand()`, which is any choice, and so the weights beyond the map they
  make.
- In the query builder, `output_adapter::sending_report` and `new_data`, which nothing calls,
  and the widths of the numbers it formats: `%d` of a text of 2^31 bytes, and the room for the
  header of a direct value (section 6); counts of ten thousand and more. In
  the table of commands, the names, and the traits that
  nothing reads.
- Processors are destroyed by a thread that is not the event loop's; a destruction from a
  callback would wait for its own thread (`proc_abstract.cpp:57`).
- Memory that handlers find after the destructor has run.
- The contents of errors, and logging.

## 9. Plan

Done, in this order: `CallbackService` and `Pipeline` with its proofs; `Serial`;
`TwoLockQueue`; `RespProto`; `OutputBuffer`; `ConnManager`, `ListBalancer` and `Client`;
`QueryBuilder` and `CmdTraits`; the client's event loop and destructor; the proofs of `Serial`,
`TwoLockQueue`, the ends of the pipeline, `OutputBuffer`, `Client`, `RespProto` and
`QueryBuilder`.

Left:

1. arrays in arrays, if a document is found that promises them: the type that
   `_fill_array` looks for has to be set first (section 6);
2. the weighted pool (`ListBalancer`): that `add_unit` keeps the map inside the list, for pools
   that are not cleared.
