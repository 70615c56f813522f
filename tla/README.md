# sheep in TLA+

sheep is a header-only C++20 framework for network servers: coroutines run on a
pool of threads, each with its own io_uring, and are handed to the threads
through a lock-free queue; an asynchronous logger uses the same queue, and there
are parsers for HTTP. This directory holds TLA+ modules of it, TLC
configurations that check them on small instances, and proofs, checked by TLAPS,
that hold for every number of threads, sessions, descriptors, records and
coroutines and every size of the queues.

Paths below are relative to the repository; `include/mpmc_queue.hpp:249` means
line 249 of that file.

## The system

| Part | State | Operations | Talks to |
|------|-------|------------|----------|
| `MPMCQueue`, `Slot` (`include/mpmc_queue.hpp`) | `head_`, `tail_`, a turn and storage per slot, all but the storage atomic | `emplace`, `emplace_with`, `bulk_push`, `try_emplace`, `pop`, `consume`, `try_pop`, `bulk_pop`, `try_consume_all`, `size`, destructor | called by any thread; no locks |
| `thread_pool` (`include/thread_pool.hpp`) | the session queue, `idle_mutex_`, `avaliable_cv_`, `request_stop_`, a set of suspended coroutines per thread | `submit`, the loop of the work threads, `stop_work_thread` | takes sessions from the queue, resumes coroutines, waits in `io_service` |
| `io_service`, `io_service_pool` (`include/io_service.hpp`, `include/io_service_pool.hpp`) | one ring per work thread | prepare an operation, submit and wait, resume the coroutines of the completions | the kernel; a `resume_handle` inside each coroutine frame |
| `Server` (`include/server.hpp`), `Socket`, `Address` | the listening socket | `serve`: accept, make the session coroutine, submit it | `thread_pool` |
| `Connection`, `Buffer` (`include/net/connection.hpp`, `include/buffer.hpp`) | a socket, two buffers, a pointer to the ring | `recv`, `send`, destructor | `io_service` |
| `task`, `sync_wait` (`include/task.hpp`, `include/sync_wait.hpp`) | the coroutine's promise; an event with a mutex | continue the awaiting coroutine; block a thread until a coroutine ends | all coroutines |
| `LoggerImpl`, `Record` (`include/log/*.hpp`) | a queue of records, `m_buf`, `m_outputs`, the background thread | `log`, `poll`, `setLogFile`, start and stop | the queue |
| the echo server's session (`examples/echo_server.cpp`) | a connection | receive a line, swap the buffers, send it back | `Connection` |
| HTTP parsers (`include/http/*.hpp`) | a state and positions in the input | `parse` | none |
| `async_file`, `timeout_duration` | a descriptor, a cached `statx` | `open`, `read`, `write`, `size` | `io_service` |

What is hard about it:

- **Queue.** Threads meet in a slot only through its turn. The turn is checked
  first and the position claimed later by a compare-and-swap, or the other way
  round; a slot is reused lap after lap; the counters and turns overflow.
- **Pool.** `submit` and `stop_work_thread` notify a condition variable whose
  predicate reads state not guarded by its mutex. Coroutines move from the
  acceptor's thread to a worker, and their completions refer to their frames.
- **Descriptors and buffers.** The acceptor opens descriptors while workers
  close them, each twice; a failed `recv` leaves a buffer with a size of 2^64 - 1.
- **Coroutines.** Whoever completes a coroutine's I/O runs the rest of the chain
  of tasks on its own thread, up to an event on the stack of another thread,
  which destroys it, and the frames, as soon as it sees it set.
- **Logger.** `m_buf` and `m_outputs` have no lock: they rely on one poller,
  which a change of the files can break, since `closeLogFiles` polls too.
- **Parsers and files.** Sequential, but with boundary cases (zero lengths,
  lengths longer than the input) and cached state across an `await`.

What makes each part correct: the queue delivers every element once, in order,
to one consumer, and never lets two threads into one slot; the pool starts every
session once, keeps its I/O on one ring, resumes nothing that has been
destroyed, and neither loses nor forgets sessions; a connection's I/O acts on
its own socket, its client gets back what it sent, and its socket is closed in
the end; `sync_wait` returns what the task ended with and leaves nobody with a
frame or an event that is gone; the logger, unless its files are changed while it
polls, writes every record to each of its files in order and loses none. The
parsers must stay inside their input.

`PROJECT.json` lists the hazards line by line with the properties that cover
them.

## Modules

```
TicketFifo <--- implemented by --- MPMCQueue <--- steps used by --- ThreadPool
    ^                                  |                               |
    | steps used by             MPMCQueue_proofs <- theorems used by - ThreadPool_proofs
  Logger - Logger_proofs

AsyncIo <--- implemented by --- IoService <--- extended by --- AsyncFile - AsyncFile_proofs

SyncCall <--- implemented by --- Coroutines - Coroutines_proofs

Connection - Connection_proofs

HttpText - RequestParser, ResponseParser, UriParser - HttpParsers - HttpParsers_proofs - HttpMessages_proofs
```

**TicketFifo** is what the queue promises: a bounded buffer with numbered
places, reserved in order by producers and by consumers, filled once and
emptied once. Because an element is named by its place, "the consumer of place
*i* got element *i*" says FIFO order and exactly-once delivery at once.

**MPMCQueue** is the queue. Each atomic load, store, fetch-and-add and
compare-and-swap is one action, and so is each access to the slot's storage
between them. The functions share actions where their code is the same: the
actions `FetchAddHead`, `AwaitWriteTurn`, `Construct`, `StoreReadTurn` are
`emplace`, `emplace_with` (one element) and `bulk_push` (several);
`LoadHead`, `CheckWriteTurn`, `CasHead`, `ReloadHead` are `try_emplace` up to
its claim; `FetchAddTail`, `AwaitReadTurn`, `Take`, `StoreWriteTurn` are `pop`
and `consume`; `LoadTail`, `CheckReadTurn`, `CasTail` with `ReloadTail` are
`try_pop`, and with `RefreshTail` they are `bulk_pop` and `try_consume_all`,
which differ from `try_pop` in what they do with the reloaded `tail_`.
`Destruct` is the destructor. `head` and `tail` are kept unreduced; every
comparison and every slot and turn computation goes through `Word`, the value
modulo 2^64, so that the overflow is in the model while an element keeps a
unique name. A spinning `while` is an action that is enabled when the loop
would end.

**ThreadPool** composes the acceptor, the workers and the rings with the
queue's own actions (`Q == INSTANCE MPMCQueue`), so that a worker can be
anywhere inside `try_pop` while the acceptor is anywhere inside `emplace`. The
predicate of the condition variable is three steps (two counter loads in
either order, then `request_stop_`), waiting on it is atomic with releasing
the mutex, and wake-ups may be spurious. A session is a coroutine with up to
`MaxIo` suspensions; `Run` is one resume. `SubmitAndWait`, `WaitReturns`,
`Reap` and `Sweep` are the body of the worker's inner loop.

**Connection** follows descriptors and buffers through the echo server's
sessions: the kernel's table, the number each connection holds, the socket each
operation acts on, the read and the write buffer, and what the clients have
received. A session is three actions, each up to the next awaited operation:
`Start`, `AfterRecv` (the result of `recv` becomes the buffer's size and is
looked at; the buffers are swapped for `send`) and `AfterSend`. A worker's
phases are those of ThreadPool's loop, without the queue and the condition
variable. `CloseConnection` and `CloseSocket` are the two closes of one
destruction. A buffer is its size, as a `size_t` modulo `SizeMax + 1`, and whose
line it holds.

**Logger** has the logging threads, the background thread and the owner that
starts, stops and destroys, and sets and adds files at any time. Its queue is
TicketFifo, which the queue implements, rather than the queue itself: `Claim` and
`Consume` are one turn of `try_consume_all`, `GiveUp` is its return, `WriteFile`
and `Clear` are `writeFile`. `outputs` is a sequence, as `m_outputs` is: a file
that is added twice is in it twice and gets every write twice. `setLogFile` is
`SetLogFile`, which looks at `m_buf` and `m_outputs` as `closeLogFiles` does and
goes on to a poll on the owner's thread or not, `ClearOutputs` and `PushOutput`. A
step of a change that meets a poll of the background thread is a data race in the
code, since neither has a lock, and sets `raced`. After a race the model has the
same steps, of both threads, and each `push_back` to `m_buf` and each write may be
lost besides.

**AsyncIo** is what an `io_service` promises coroutines: an awaited operation
completes once, and its coroutine is resumed once for it, with its result.

**IoService** is one ring and its thread. `sq` holds the entries prepared,
`inflight` what the kernel has taken, `cq` the completions not yet marked as
seen, of which the first `reaped` are handled (`cqe_num`), and `backlog` the
completions the kernel keeps when `cq` is full. An entry is the pointer to the
`resume_handle` of a coroutine, with the number of the operation. `Run` is one
resume of a coroutine, up to its end or to the next awaited operation, which
goes through `get_sqe`. The thread's `SubmitAndWait`, `WaitReturns`, `Reap`,
`ReapEnds`, `Advance` are the common body of `wait_io_and_resume_coroutine`,
`run_task` and `run_single_coro`; `until` is the coroutine the last two loop
for, and `CallConsume` enters the same body for `wait_consume`, which does not
wait. A call of the kernel moves its backlog first and takes all entries or, as
long as a backlog remains, may refuse them; after that a second `get_sqe` can
fail too, and `NullEntry` is the step in which the program goes wrong.

**AsyncFile** adds an `async_file` that the coroutines of one ring share:
`statx` is the structure that `size` allocates, zeroed, when it starts the
`statx` operation, and that the kernel fills in when it completes it; `kind` is
the operation each coroutine awaits, `told` what `size` answered last.
`open`, `read` and `write` are operations of the ring like any other. A step of
AsyncFile is a step of IoService with what `size` does in it (`FileStart`,
`FileReap`, `FileComplete`), so that IoService's properties are checked on the
composition.

**SyncCall** is what `sync_wait` promises: a blocking call that returns once,
after its body has ended, with what the body ended with.

**Coroutines** has the frames of a chain of tasks, the threads that run them
and the `sync_wait_event`. Frame 0 is the coroutine of `make_sync_wait_task`,
frame *f* + 1 a task that frame *f* awaits; `parent` is `continue_`, `outcome`
the value or the exception in the promise. `Await` is symmetric transfer into a
task, `EndTask` the final suspension that goes on with the continuation,
`Park` and `Resume` a task that waits for something outside and is resumed by
another thread, even before the thread that parked it is back in `sync_wait`.
`SetDone`, `SetNotify`, `SetUnlock` are `sync_wait_event::set`; `WaitLock`,
`CheckDone` with a release of the lock in the same step, and `SpuriousWakeup`
are `wait`; `TakeResult` and `Leave` destroy frame and event.

**RequestParser**, **ResponseParser** and **UriParser** are the loops of
`parse`, an iteration a step. A state whose branches look only at the character
is a set of rows (state, characters, next state, what is done with the view
that ends here) of `Rules`; `Follow` takes one of them. The other states are
actions: the end of the headers, bodies, multipart boundaries, chunks, ports,
the query string. A character that no row and no action takes is `Error`
(`Reject`). Texts are sequences of symbols (**HttpText**): a character, or a
word such as `Content-Length`. A `string_view` is a pair of positions.
**HttpParsers** generates texts from messages and says what the parsers make of
them: the message as it is, each beginning of it (what a server has read so
far), each text with one symbol changed or missing. `ReadsRequest`,
`ReadsResponse` and `ReadsUri` are what a well-formed message must be like for the
code to read it as it was written; the messages of the runs include others.

**MPMCQueue_proofs** (with the refinement of TicketFifo), **ThreadPool_proofs**,
**Connection_proofs**, **Logger_proofs**, **Coroutines_proofs**,
**AsyncFile_proofs** (the ring and the file), **HttpParsers_proofs** (any text)
and **HttpMessages_proofs** (texts of messages) hold the inductive invariants and
the theorems. The **MC** modules (`MCMPMCQueue`, `MCThreadPool`, ...), one per
system that runs, add symmetry sets and messages for TLC.

The definitions under "Mutants" in each module are wrong variants of actions.
No specification uses them; substituting one for its original must break one
named property, which shows that the property depends on that code.

## Runs

| Run | Configuration | Shows |
|-----|---------------|-------|
| `queue` | three threads, capacity 2, 2^3 counter values, positions 5 to 9, bulks of 2 | all safety properties of the queue, the inductive invariant, and that the queue implements TicketFifo |
| `waiters` | the same queue from position 0 to 3, fair | waiting `pop` and `emplace` are served, `bulk_pop` and `try_consume_all` return |
| `try_returns` | two threads, fair | **violated**: `try_pop` can loop for ever |
| `pool` | two workers, two sessions of two operations, capacity 2 | sessions are started once, on one ring, and resumed only while they live; what the pool leaves behind are sessions it never took or that ended in their first resume; the pool uses the queue as the queue's specification allows |
| `pool_live` | one worker, three sessions, fair | finished sessions are destroyed, a heard notification is served, workers exit |
| `pool_wakeup` | one worker, one session, fair | **violated**: a submitted session can stay in the queue for ever |
| `connection` | two workers, three clients, two descriptor numbers, buffers of two bytes | destroyed connections are closed; the double close is the only way to lose a socket; clients get parts of what their session has read, and of another's only by way of the double close |
| `own_line` | the same | **violated**: a client can get the line of another |
| `logger` | two threads, three records, capacity 2, two files, two outputs, fair | nobody polls beside or in place of the background thread unless files were changed during its poll, and the destructor never does; it leaves queue and `m_buf` empty; without such a race files in order, nothing lost at destruction, what is logged on a full queue gets written |
| `async_file` | three coroutines of two operations, one submission entry, two completion entries, fair | every coroutine is resumed once per operation with its result (AsyncIo), also through a full queue unless the kernel has a backlog; the thread waits only for what it has submitted; one `statx` at a time, which nobody knows the result of yet |
| `coroutines` | a waiting thread and two that resume, tasks three deep, five awaits, fair | no frame and no event is touched after its end; `sync_wait` is a blocking call of the task (SyncCall) |
| `http_parsers` | 14 requests, 18 responses and 50 URIs, all their beginnings, all changes of one symbol; of these messages 7, 12 and 18 are misread | the messages that come back field by field are those that `ReadsRequest`, `ReadsResponse` and `ReadsUri` describe and no others; the beginning of a request that is read is no error; whatever is accepted is covered by the returned views and the separators, but for the ends of parts |

Why the bounds are enough. In the queue, two slots and five positions give every
slot two laps and one slot three; positions 5 to 9 of counters that overflow at
8 put the overflow in the middle; three threads are two in contention and a
third that moves the counter under them. Capacity 2 is the smallest the code
works with. In the pool, two sessions fill the queue of two and two workers
compete for them; two operations per session let a coroutine be suspended again
after a completion; the sleep, the wake-up and the stop are all reachable with
one worker. In Connection three clients on two numbers force a number to be used
three times over; buffers of two bytes let a line be sent in part, and with
`SizeMax` 3 the size that -1 becomes is above the capacity, as 2^64 - 1 is. In
Coroutines three tasks are a first, a last and one between, and with five awaits
each of them can be suspended and resumed elsewhere, awaited again or made anew;
two resuming threads can hand the chain to each other around the waiting one. In
Logger three records on two places make `log` wait and a place be used again; two
outputs are enough for a file that is added twice, for two files, and for none
while they are changed. In AsyncFile three
coroutines overflow both queues at once: one entry makes `get_sqe` submit by
itself, two completions leave a third in the backlog. For the parsers each part
of a message is present in one message and absent in another, and the data
contain what a part could be mistaken for (line breaks, dashes, colons,
hexadecimal digits), and there is a message for each condition of `ReadsRequest`,
`ReadsResponse` and `ReadsUri` that breaks it; `Wrap` stands for 2^64 and only has
to be above the length of any text. `Last`, `NSessions`, `NRecords`, `MaxOutputs`,
`NConns`, `MaxIo`, `MaxOps`, `MaxDepth` and `MaxAwaits` are bounds of the checking,
named in the modules; the theorems hold for all values of these, of the sets of
threads, workers, executors, coroutines, files and numbers, and of the sizes of
queues and buffers, that satisfy the assumptions below.

Deadlock checking is off in all runs: a queue nobody calls, a destroyed queue,
a destroyed pool, a server without clients and a `sync_wait` that has returned
do stop.

## Fairness

The code's spin loops yield and its threads are ordinary kernel threads, so a
thread that is inside an operation keeps running: weak fairness of `Continue`
in MPMCQueue, of `WorkerStep` and `AcceptorStep` in ThreadPool, of `Publish`,
`Poll`, `CheckRunning`, `ClearOutputs`, `PushOutput` and `Join` in Logger. Nobody
has to call the queue, open a connection, log, change files, or stop anything.
ThreadPool also assumes that a submitted
operation completes: with a client that never sends and never closes, the
worker is in `io_uring_submit_and_wait` and so are its other duties. Spurious
wake-ups are possible and never relied on. In AsyncFile `FairFileSpec` says that
the thread goes on waiting while a coroutine is suspended, as the loop of
`start_work_thread` does, and again that operations complete; signals may end
a wait. In Coroutines threads inside the library keep running; nobody has to
resume a parked task. There spurious wake-ups come to an end: a waiting thread
that is woken for ever could always have the mutex when the thread in `set`
looks, and neither the code nor POSIX orders their attempts. No strong fairness
is used.

`pool_live` has one worker because with two of them the endless loop of
`try_pop` (below) also defeats the exit of the workers.

## What is proved

TLAPS checks the theorems for all values of the constants that satisfy the named
assumption of the module; TLC evaluates that assumption in every run.

| Theorem | Statement | In words |
|---------|-----------|----------|
| *MPMCQueue_proofs* | | |
| `Invariance` | `Spec => []IInv` | the inductive invariant of the queue |
| `TypeCorrect` | `Spec => []TypeOK` | types |
| `Exclusion` | `Spec => []SlotExclusive` | one thread in a slot |
| `Access` | `Spec => []AccessesLive` | no read of a missing element, no overwriting of one |
| `Order` | `Spec => []InOrder` | first in, first out, once |
| `Destruction` | `Spec => []DestructorFrees` | the destructor destroys what is left, once |
| `Refinement` | `Spec => ImplementsFifo` | the queue is a TicketFifo |
| *ThreadPool_proofs* | | |
| `PoolUsesQueue` | `Spec => UsesQueue` | the pool uses the queue as the queue allows |
| `PoolInvariance` | `Spec => [](PoolInv /\ Q!IInv)` | the inductive invariant of pool and queue |
| `PoolTypes` | `Spec => []TypeOK` | types |
| `Private` | `Spec => []RingsPrivate` | a session's I/O is on its worker's ring only |
| `Once` | `Spec => []StartedOnce` | a session is started once |
| `Live` | `Spec => []CompletionsLive` | no completion of a destroyed coroutine, no wait for nothing |
| `Left` | `Spec => []LeftBehind` | what a destroyed pool leaves |
| *Connection_proofs* | | |
| `ConnInvariance` | `Spec => []ConnInv` | the inductive invariant |
| `ConnTypes` | `Spec => []TypeOK` | types |
| `Closed` | `Spec => []DestroyedMeansClosed` | a destroyed connection's socket is closed |
| `Lost` | `Spec => []LostToDoubleClose` | only a double close takes a socket away |
| `Echoes` | `Spec => []EchoesWhatItRead` | only a double close sends a line to the wrong client |
| *Logger_proofs* | | |
| `LogInvariance` | `Spec => []LogInv` | the inductive invariant |
| `LogTypesHold` | `Spec => []TypeOK` | types |
| `Alone` | `Spec => []SecondPoller` | nobody polls beside or instead of the background thread, unless files were changed during its poll, and the destructor never does |
| `InOrder` | `Spec => []WrittenInOrder` | without a race: files in order, each record as often as the file was added, none between them |
| `AllWritten` | `Spec => []NothingLost` | the destructor leaves queue and `m_buf` empty; without a race every record is in a file |
| `KeepsTheContract` | `Spec => Queue!Spec` | the logger's queue is a TicketFifo |
| *Coroutines_proofs* | | |
| `CallInvariance` | `Spec => []CallInv` | the inductive invariant |
| `CallTypes` | `Spec => []TypeOK` | types |
| `NothingDangles` | `Spec => []FramesLive` | no destroyed frame or event is touched |
| `BlockingCall` | `Spec => CallOfBody!Spec` | `sync_wait` is SyncCall, liveness apart |
| *AsyncFile_proofs* | | |
| `IoInvariance` | `Spec => []IoInv` | the inductive invariant of the ring |
| `IoTypesHold` | `Spec => []TypeOK` | types |
| `OnePlaceEach` | `Spec => []OneOperationEach` | what is under way is what is awaited |
| `BlocksOnKernel` | `Spec => []WaitsForKernel` | the thread waits only for what it submitted |
| `RingImplementsIo` | `Spec => ImplementsAsyncIo` | the ring is an AsyncIo |
| `FileUsesRing` | `FileSpec => Spec` | a file uses the ring as IoService allows |
| `FileInvariance` | `FileSpec => []FileInv` | the inductive invariant of the file |
| `FileTypesHold` | `FileSpec => []FileTypeOK` | types |
| `OneStatxOnly` | `FileSpec => []OneStatx` | one `statx` at a time |
| *HttpParsers_proofs* | | |
| `ParsersInvariance` | `Spec => []ParsersInv` | the inductive invariants of the three parsers |
| `ParsersTypes` | `Spec => []TypeOK` | types; the position stays in the text |
| `MessagesTile` | `Spec => []ViewsTile` | the views of an accepted text lie behind each other with only separators between, but for the ends of parts; bodies are as long as announced |
| *HttpMessages_proofs* | | |
| `WholeUrisAreParsed` | `Spec => [](parser = "uri" /\ ReadsUri(msg) => WholeIsParsed)` | a URI that `ReadsUri` allows is accepted, and the result is what its text was made from |

### Assumptions

`QueueAssumption`: the capacity is above one, 2^64 is a multiple of it (the
constructor asserts a power of two), and fewer positions are handed out while
the behaviour lasts than the counters have values. The last is the usual
exclusion of ABA: a thread suspended between its load of `tail_` and its
compare-and-swap while exactly 2^64 operations go by would be fooled. `First`
is arbitrary, so that the overflow may come anywhere in the behaviour.
`PoolAssumption` says the same of the pool's queue, of which it uses one position
per session, and that there is a worker. `ConnectionAssumption` excludes
descriptor 0 and asks for a `size_t` above the size of a buffer.
`LoggerAssumption` asks for a capacity above one and a place for an output.
`IoAssumption` asks for queues with at least one entry, `CoroutineAssumption` for a task, `ParsersAssumption` for
texts of the symbols of HttpText and for requests that a `size_t` can count.
`UrisAssumption` says only what makes the parts of a URI parts (`UriFits`): a
port is digits, and a path begins with a slash and has no `?` or `#`. Which of
these URIs are read is `ReadsUri`, the hypothesis of `WholeUrisAreParsed`: it is
narrower than RFC 3986 where the code is.
Otherwise they say
that sets are finite, that threads of different kinds differ and that `None` is
none of the values it is told apart from.

### The arguments

None of the properties is inductive by itself. In each case a stronger invariant
says where everything is that the property is about, in every state between two
steps; there is one lemma per step.

**The queue.** That a consumer finds its element depends on what every earlier
position of the slot has been through. `IInv` gives each position a life
(claimed, built, published, taken, freed) in terms of the threads at work on it,
and says that a slot *serves* exactly one position: its turn is that position's
write turn until it is published and its read turn after, its storage holds that
position's element from construction to removal, all earlier positions of the
slot are freed and no later one has been started (`SlotsServe`). `Claims` says
that no two threads hold the same position, `Stages` that what a thread saw of a
turn still holds or its compare-and-swap must fail, `Delivered` what consumers
got. The arithmetic lemmas (`DivMod` to `TurnTells`) show that within the window
of positions in use the turn of a slot tells its positions apart, also across the
overflow, where the turn goes back to 0. Then `Holder` shows that the thread
which has seen its turn holds the position its slot serves, which is exclusion;
and there is one lemma per kind of step, of which `StoreWriteTurnStep` (the slot
moves on to the next lap) is the heart. For the refinement the same facts give
that each step of the queue is one step of TicketFifo or none: a claim is
`Reserve` or `Request`, `Construct` is `Put`, `Take` is `Get`.

**The pool** first uses the queue as the queue allows: `submit` is only called
while the pool lives, and `head` stays within the positions of the sessions
(`PoolUsesQueue`). So the queue's theorems hold in the pool (`SameQueue` shows
that the two instances of MPMCQueue are the same formulas), and `Access` and `Order` give
the one fact that joins both: the session a worker takes out is the one at its
position, and nobody else's. `PoolInv` then says who has a session at each
moment: the queue until its element is taken, one worker that carries it from
there to its first resume (`Carried`), and from then on the list and the ring of
that worker (`Ledger`), and what each place of the work loop implies for the
list (`Phases`: only suspended sessions outside the sweep, nothing unsubmitted
while waiting). `StartedOnce`, `RingsPrivate`, `CompletionsLive` and
`LeftBehind` are read off.

**Connections.** The double close makes the obvious invariant, that a
connection's number is its socket's, false. The invariant is relative to the
history: `ClosedTwice(c)` says that another connection with the same number is
gone, which never ceases to hold (`TwiceStays`), and every fact about a socket, an
operation, a buffer or a message of `c` holds unless `ClosedTwice(c)`
(`LostToDoubleClose`, `Lines`, `Sent`). `Sockets` holds without exception, since a
close can only remove from the kernel's table, and yields
`DestroyedMeansClosed`.

**The logger.** `WrittenInOrder` speaks of files, but a record claimed from the
queue is for a while in none. `Appended` is the number of records in files and
`m_buf`, one behind `out` while a record is being consumed; `InFiles` says that
the writes to each file, and `m_buf` behind them, are in order and that all places
below `Appended` are in one of them, `InQueue` that the places from there to `in`
are in the queue or being written. `Modes` says where owner and background thread
can be together: the destructor polls only after `join`, and `setLogFile` polls
only if `m_buf` is not empty. `Taken` says that `m_buf` is empty outside polls, so
that in this case the background thread is in one, and there is a race. `InFiles`
is part of the invariant only as long as there is none; then there is one poller
and `Appended` is well defined. In the last `poll` no thread logs, so `out` reaches
`in` and, race or not, nothing is left in the queue or in `m_buf`.

**Coroutines.** `sync_wait` goes through six phases. While the task runs
(`Running(f)`), the frames outside the innermost frame `f` are a chain of awaiting
parents (`Chain`), and either one thread runs `f` (`RunBy`) or `f` is parked and
none does (`ParkedAt`). A final `co_await` moves `f` outwards, an await inwards, by
whichever thread. When the outermost frame has ended (`Ended`) exactly one
thread is in `set`, and it is the mutex that keeps the waiting thread, which
destroys the event, out of it until `unlock`.

**The ring.** `OneOperationEach` is the heart of the inductive invariant: the
submission queue, the kernel, the completions not handled yet and the backlog
share out the operations of the suspended coroutines, each in one place. To show
that each step keeps it the sequences are turned into the sets of their elements
(`ElementsOf`, `Split`, `RestOfConcat`), with one lemma for each of the calls
that move entries. `Passes` says where the loop over completions is. With it
each step is one of AsyncIo or none under the mapping `Status`: submission,
the kernel's completion into queue or backlog, the move out of the backlog, and
the late advance are invisible to coroutines. The file's invariant `OneLookup`
says that whoever awaits a `statx` is the only one and that the structure it
writes to is there and zeroed until the kernel has completed it.

**The parsers.** `ViewsTile` speaks of accepted texts only, so the invariant has
to say for each state where in the text it is read: how far the position is from
the end of the last finished view, and which characters lie between. One part of
it per part of the message: `StatusLine`, `ResponseHeaders`, `ResponseBody`;
`RequestLine`, `RequestHeaders`, `RequestContent`, `RequestParts`; `SchemeFacts`,
`UserFacts`, `HostFacts`, `RestFacts`. There is one lemma for each kind of row of
`Rules` and for each action, and one that says what the invariant implies of an
accepted text. The text is any sequence of symbols, not only one made from a
message.

- Sequences of headers, chunks and parts: `HeadersRun`, `ChunksRun` and `PartsRun`
  say that the finished ones lie behind each other, `HeaderOpen`, `ChunkOpen` and
  `PartOpen` which of that holds already of the last one, whose line break or data
  is being read.
- Numbers: `NumberIs` shows that a chunk's size, read from hexadecimal digits, is
  not below zero, from the definition of the digits' value as a recursive function
  (`PositionalIs`). A Content-Length may be anything. The countdown of the body
  runs modulo `Wrap`; since the text is shorter than that, it reaches zero exactly
  when the body is as long as the header says, and never without the header
  (`RequestContent`).
- Parts of a multipart body end where the boundary is; what the four places
  before it hold is not known, and `RequestParts` does not say. From the two
  comparisons of `PartBody` it follows that the data end four places before the
  boundary. That the boundary does not begin before the data is `MultipartFacts`: a
  line feed is the last character before the data, and a boundary, which was read
  from a header's value, has none (`NoFeed`).
- A response's content: `ContentFacts` says that `loc.length` is the last
  Content-Length from the header to the content.
- In a URI a name before `:` is a user or, once a port has been read, a host
  (`PortOrPassword` swaps the views): `HostStarts` and `UserIs` say what may lie
  before a host in both readings. When the text ends inside the scheme or the
  authority, the rest of it is taken for the path, which then does not begin with a
  slash (`Rootless`); when it ends inside the path and a `?` or `#` was its last
  character, the rest from the path's slash on is taken for a query string,
  which `parse_queries` refuses because of the slash. These are the two kinds of
  text whose views could overlap.

**URIs of any length.** `WholeIsParsed` compares the views with the parts that the
text was put together from. First, where each part lies in the text: `Laid` and
`LiesAll` show that the *i*th of a sequence of texts lies in their concatenation
behind the lengths of the ones before, and `UriIsLaid` gives the positions of the
parts of a URI, queries included (`UserOff` to `ValueOff`). Both are inductions over
the length of the sequence, through the least length for which the claim fails,
since the library's induction theorems cannot be used. Then `UriWay`
says for each state where the parser is, which parts it has finished and that each
view made so far is the place of its part; a name before `:` is for a while taken for
a host, and the query string is read a second time for its pairs. `UriRowIsOne` shows
that at most one row of `Rules` fits a state and a character, so that each step is
known from the symbol at the position, and there is one lemma per state
(`SchemeStep` to `QueryValueStep`). Every one of them leads to another place on the
way, so a well-formed URI is never refused, and the end of the way is `Completed`
with all parts taken (`WholeUriIsParsed`).

### Only model-checked

- All liveness, which is outside the prover's reach: `WaitersServed`,
  `DrainsReturn`, the properties of `pool_live`, `RecordsWritten`, `Resumed`, and
  the part of `ImplementsCall` that says that the call returns.
- `WholeIsParsed` for responses and requests, that what `ReadsUri` leaves out is
  misread, and `CutIsIncomplete`. The argument for URIs would serve for the
  messages that are read, with a lemma for each of their states.
- The three violated properties, of which TLC shows a counterexample.

## Disagreements between the code and its documentation

- `try_pop` (`include/mpmc_queue.hpp:344`) and `try_emplace` (`:305`) drop the
  counter they reload, so that a call can loop for ever on a position another
  thread took. The comment at `include/mpmc_queue.hpp:427` explains why the
  position must be updated, and `try_consume_all` and `bulk_pop` do it. Run
  `try_returns`.
- `submit` (`include/thread_pool.hpp:36`) notifies without `idle_mutex_`. A
  worker between its look at the queue and its wait misses the notification.
  `README.md:16` says that idle threads fetch coroutines by themselves. Run
  `pool_wakeup`. The same holds for the notification of `stop_work_thread`
  (`:114`), after which `join` waits for ever; `WorkersExit` is stated for the
  workers that are not in that gap.
- `~Connection` (`include/net/connection.hpp:38`) and `~Socket`
  (`include/net/socket.hpp:28`) close the same number one after the other, and
  a connection accepted in between loses its socket, and when the number is
  given out once more, its session sends to the wrong client, where
  `README.md:108` shows a client that gets its own line back. Run `own_line`.

Three more, which no run shows as violated because the models contain what the
code does:

- The comment at `include/http/request_parser.hpp:386` says that a part's body
  ends with `"\r\n--${boundary_string}"`. The code compares the boundary only;
  the four characters before it may be anything, and are cut off the data
  (`PartTiles` in `ViewsTile`). When the boundary follows the part's headers with
  less than four characters between, the data end before they begin: an empty
  part whose line break has lost its carriage return is accepted with the data
  `string_view{p, p - 1}`, whose size is 2^64 - 1 (`:388`).
- A request is complete as soon as the text read so far ends with its headers
  (`include/http/request_parser.hpp:252`), also if a body is due;
  `CutIsIncomplete` has that case as its exception.
- After the status line of a response, any character that is neither a carriage
  return nor a letter or digit is passed over without an error
  (`include/http/response_parser.hpp:179`, which has no `else`): the first header
  may begin behind the line break (`first` in `ResponseTiles`). Also a response
  without a body but with headers is never complete, since the state after
  the empty line waits for one more character (`:267`).

The parsers read less than HTTP and URIs allow. No document of the repository says
otherwise; `WholeIsParsed` says that the messages that do come back as they were
written are exactly those of `ReadsRequest`, `ReadsResponse` and `ReadsUri`, and
the run has a message of each of these kinds, which they refuse or misread:

- requests: a header with an empty value; a body after GET; a body without a
  Content-Length, or with one in other letter case; a part without headers; a part
  whose data hold the boundary before a line break, also without the two dashes.
- responses: headers and no body; a body that ends with the connection; a reason
  phrase of less than two characters; a header with an empty value; characters
  above 127; a first header whose name begins with a mark; a coding before
  `chunked`.
- URIs: no host or no path; an empty name or value in the query; marks at the
  beginning of a user's name or a host, and the delimiters that RFC 3986 allows in a
  user's name, a password and a query's value.

## What is not modelled

- A queue of capacity 1: `turn * 2 + 2` of one lap is the write turn of the
  next and the code works, but the wrap of the turns is a different one there
  and no user of the queue asks for it. Nor a wrong capacity (the assertion is
  compiled out of release builds).
- The memory orders weaker than the code's acquire and release pairs: the
  actions interleave. The relaxed loads of `size` are two separate steps.
- What `bulk_pop` and `try_consume_all` return, exceptions out of element
  constructors and functors, the allocator.
- In ThreadPool: `session.coro == nullptr`, which `submit` never gets, the
  capacity 1024 (two here), and interrupted waits. `request_stop_` is an
  ordinary bool; the model reads and writes it atomically.
- In Connection: descriptor 0 (`accept` returns it only with standard input
  closed), what the bytes are, `Buffer::write` and `clear` on a used buffer
  (the echo session does neither), moved connections.
- In Logger: levels, formatting, the length of records, several loggers (which
  share the functor of the first, `include/log/logger.hpp:113`), the flush
  threshold (every `poll` of the code flushes), files that are never closed and
  the truncation of files that are opened. After a race the model loses what is
  appended or written; that the program may as well crash, or write to a file that
  is closed, is not in it.
- In AsyncFile: the descriptor and the data. `size` passes the file's
  `open_options` as the flags of `statx`, where all but `O_RDONLY` mean
  something else or nothing: the model lets `statx` fail.
- In Coroutines: awaiting an empty task, `detach`, which ThreadPool's sessions
  do, `reset`, which nothing calls, and `operator==(task&&)`
  (`include/task.hpp:117`), which assigns and was probably meant to be `=`.
  References in a result; `sync_wait` of several threads at once, which share
  nothing.
- In IoService: the arguments of the operations, the setup of the ring and its
  failure, completions without a `resume_handle` (no operation of the class
  makes one), a coroutine that drives its own ring.
- In the parsers: lower-case methods and header names are not told apart from
  other letters; `_`, `~`, `+` in URIs; numbers that overflow an `int`. Messages
  with a chunked request, a quoted boundary or a last delimiter without a line break
  are not among those the texts are made from. The
  Request is assumed value-initialised, since `is_multipart` and `content_size`
  have no initialiser, and is parsed into once: a second `parse` appends to its
  headers. A multipart Content-Type without `boundary=`, of which
  `find_boundary` returns all from the ninth character on, since it does not ask
  whether `find` found anything (`include/http/request_parser.hpp:428`), is not
  modelled.
  A response's content view may end beyond the text
  (`include/http/response_parser.hpp:268`) when the body is not all there.
- The address conversions, the timeout's conversion, `main.cpp` and the build
  file have no state worth a model. `io_service_pool` is a vector of rings, and
  its loop up to the number of threads is not modelled.

## Plan

Done: TicketFifo, MPMCQueue with its proofs and refinement, ThreadPool,
Connection with its buffers, Logger with file changes, AsyncIo, IoService and
AsyncFile, SyncCall and Coroutines, the parsers; the safety properties of all of
them are proved, except the cases named above. Next, in this order:

1. **Parsers**: responses and requests of any length (`WholeIsParsed`); a second
   `parse` into the same Request.
2. **Queue**: constructors and functors that throw after the claim.
