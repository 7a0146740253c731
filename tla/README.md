# DCBC in TLA+

DCBC encrypts a file with AES-CBC in chunks that can be encrypted in parallel.
Every chunk gets a salt (its initialization vector) computed from its own
contents and the salt of the chunk before it, so only the short salt
computation is sequential.  The repository holds four programs that do this, or
what they are compared with; this directory holds TLA+ models of them, the
configurations that check the models with TLC, and proofs checked by TLAPS.

Paths below are relative to `src/`.

## The system

| Component | State | Operations | Interacts through |
|---|---|---|---|
| `local/parallel` handler pool (`ChunkHandler`, `TaskContext`, `JobContext`) | task table with two cursors (`pendingTask`, `loadedTasks`), pages in slots (`i_pages`, `pagesProgress`), one counter per page, pool of parked handlers, four mutexes, a barrier per handler | `runTask`, `handle`, `_encrypt`, `_decrypt` | shared memory |
| `local/parallel` `dcbc()` | the job context it builds; phase of the job | map the first pages, start and join handlers, save and load salts | `runTask`, `join`, files |
| `local/parallel` `SaltsIndex` | per chunk: value, `isReadyMutex` | `set` unlocks, `isReady` locks, `get` | called by handlers |
| salts file | 4-byte count, 16 bytes per salt | written after encryption, read before decryption | file |
| `distributed/parallel` `JobManager` | workers, mapped page, `pageProgress`, `progress`, two condition variables | `HandleConnection`, `Encrypt`, `Decrypt` | calls to `WorkerManager`, counters shared with `WorkerHandler` threads |
| `distributed/parallel` `WorkerManager` | connection to a worker, map from chunk ids to handlers, next worker | `EncryptChunk`, `DecryptChunk`, `SetPreviousSalt` | messages on port 8080; called by handlers of the previous worker |
| `distributed/parallel` `WorkerHandler` | a thread per chunk, its connection | answers the chunk handler it accepted | messages on port 5050 |
| `distributed/parallel` `SaltsIndex` | per chunk: value, `isRequested` | `set`, `get`, `request`, `isRequested` | called by handlers |
| `distributed/parallel` worker (`main`, `ChunkHandler`) | a thread per chunk: buffer, salt, cipher file | `encrypt`, `decrypt` | messages |
| `Connection`, `Socket` | a socket and a write mutex | `Send`, `SendMany`, `Recv`, `Accept`, `Connect` | TCP |
| `distributed/sequential` | the same cluster without salts: the master encrypts, workers store chunks | `SaveCipher`, `GetChunk` | messages |
| `local/seq` | none | one AES-CBC call | files |

What makes them correct, and hard:

- **Handler pool.** A task is processed once and by one handler; the page of a
  task stays mapped until the task is done; handlers that wait for the salt
  before theirs never wait in a cycle; every chunk gets processed and the pool
  stops.  Three places hand out tasks, pages are replaced while other handlers
  run, `pagesProgress` is read under no lock, and a handler decides to park
  under one mutex and parks under another.
- **Salt chain.** The salt of a chunk is computed from its contents and the
  salt before it, set once, and used for that chunk alone.
- **Cluster.** A chunk is read from the page it is in, goes to a chunk handler,
  and the salts pass from handler to handler whatever connection each has got;
  the page is unmapped when all of it was sent.  The master's main thread, one
  thread per chunk in the master and one per chunk in the workers share counters
  with and without locks, and any waiting `WorkerHandler` accepts any
  connection.
- **Independent chunks.** Decryption, and both jobs of `distributed/sequential`,
  move chunks that do not depend on each other: every place gets one chunk, no
  chunk goes to two places, the job ends when all are counted.  Connections are
  mixed up there as well, one file position and one sum of sizes are shared by
  all handlers, and the second job runs in a new master that must find workers
  by ids it reads with one byte too many.
- **Messages.** A message is several writes on a connection that two threads
  share, and a stream that arrives in pieces.
- **Salts file and chunk ids.** Conversions through signed bytes.

`PROJECT.json` lists every component, and every hazard at its line.

## Modules

| Module | Models |
|---|---|
| `DcbcSalts` | salts as values: the sequence of what they were computed from |
| `DcbcChain` | abstract: publish salts in order, encrypt each chunk once with its salt, finish when all are encrypted |
| `DcbcBytes` | numbers kept in signed chars: the count in the salts file, chunk ids |
| `LocalPool` | `local/parallel`: `dcbc()`, `ChunkHandler`, `SaltsIndex` |
| `ClusterEncrypt` | `distributed/parallel`, encryption: `JobManager`, `WorkerManager`, `WorkerHandler`, `SaltsIndex`, worker `ChunkHandler` |
| `ChunkTransfer` | abstract: each place gets one chunk once, no chunk goes to two, finish when all have theirs |
| `ClusterJob` | what the masters of both distributed programs do alike for a job of independent chunks |
| `ClusterDecrypt` | `distributed/parallel`, decryption; extends `ClusterJob` |
| `SeqCluster` | `distributed/sequential`: encryption, restart, decryption; extends `ClusterJob` |
| `MessageQueue` | abstract: messages arrive whole, once and in order |
| `Wire`, `MCWire` | `Connection`: `Send`, `SendMany`, `Recv` over a stream; what three threads send |
| `LocalPoolProofs`, `LocalPoolPageProofs`, `LocalPoolChainProofs`, `DcbcBytesProofs`, `ClusterDecryptProofs`, `SeqClusterProofs`, `ClusterEncryptProofs`, `WireProofs` | theorems |

`LocalPool` and `ClusterEncrypt` implement `DcbcChain`; `ClusterDecrypt`, and
`SeqCluster` twice (once for each job), implement `ChunkTransfer`; `Wire`
implements `MessageQueue`, which is what the modules of the clusters take
connections to be.  `ClusterDecrypt` starts from any state of the cipher files
that `ClusterEncrypt` may leave: each file holds the chunk of some handler.

### LocalPool

Every handler has a `pc` that names its next step.  The steps are the stretches
of `ChunkHandler::handle` between which another thread can see a difference:

- `ReceiveTask`, `HashChunk`, `SetSalt`, `EncryptChunk` / `DecryptChunk`,
  `CountChunk` process a task.  `SetSalt` is `isReady` of the predecessor
  (which blocks), `get`, `generateSalt` and `set`.  `BadAccess` is the step
  instead, when the task or its page is not there.
- `CheckMorePages`, `MapPage`, `LockTasks`, `AddTask` (one iteration of the
  loop), `LockAvailable`, `LockPending`, `DispatchParked`, `EndDispatch`,
  `CountPage` replace a page.  `pagesProgress` is read twice and written in a
  third step, as in the code.
- `TakeTask`, `NothingLoaded` then `Park`, or `NoTaskLeft`, `LockPool`,
  `StopParked`, `Exit` choose what to do next.

`dcbc()` is `LoadInitialPages` (no handler runs before it: each waits at its
barrier), one `StartHandler` per handler, and `Finish`.  The barrier of a
handler is a mutex another thread unlocks; like the program on Linux, the model
uses it as a binary semaphore.  The pages' own mutex guards a decrement and a
comparison, which are one step.  `tasksRW`, `availableChunkHandlersRW` and
`pendingTaskRW` are held across steps and are variables.

Memory that is not there (a task that was never written, a page that is not
mapped, a write past the task table) sets `fault`, after which nothing more is
promised or done: what the build does then is not the program's to say.

A page's contents are the number of the chunk in the file, so reading the wrong
page or the wrong place in it gives a wrong number.

### ClusterEncrypt

Chunk `c` has a `WorkerHandler` in the master and a `ChunkHandler` in a worker;
`peer[h]` is the chunk handler that `WorkerHandler` `h` has accepted, which need
not be `h`'s own.  The main thread is `mPc`; `mWait` is its wait on a condition
variable: it tests the predicate, blocks, and tests again when notified, and a
notification between test and block is lost, because `notify_all` is called
without the waiter's mutex.  `*pageProgress += 1` is a read and a write, because
the main thread resets it without the mutex.  `get` and `request`, and `set` and
`isRequested`, are steps of their own.  The constructor of `WorkerHandler` starts
its thread before it sets `next` and `whConn`.  Connections are reliable and
ordered; `Accept` takes the oldest waiting connection and sends the output
directory.  `fault` says how memory was lost: a `NULL` connection, a handler that
was looked up and not found, a map looked up during an insertion, a page that is
no longer mapped.  A worker starts a
thread for each message it gets, so the message itself is not in the model.

A handler is in its worker's map under an id that ends in one char (`ChunkId`).
`InsertHandler` does nothing when the id is there (`SameId`), `Found` is what
`find()` returns for the id of the chunk after: that chunk's handler, an older one
of the same id, or nothing, as when the char is 0, where `c_str()` cuts it off.
`cipher` is the file that has a chunk's name, so `EncryptAndWrite` changes it for
all chunks of one id on one worker.

### ClusterJob, SeqCluster, ClusterDecrypt

`ClusterJob` has the main thread (`main`: its step, the index of its loop, the
count of chunks), the ids under which workers registered, the `.maps` file, a
`WorkerHandler` and a `ChunkHandler` per chunk, the backlog of connections, and
`progress`.  Its actions are `ConnectWorker`, `CreateHandler` and
`ConstructAndSend` (the constructor of `WorkerHandler` starts the thread before
it sets `whConn` to `NULL`), `TestFails` and `Block` (the wait, with its lost
notification), `Accept`, `CountChunk`, `NotifyAll` (the count is tested after its
mutex is released) and `Connect`.  A worker's id is the worker and the byte after
it, because the id is built with one byte more than was received; the constant
`Junk` is what that byte may be, and an id that is not found sets `fault`.

`SeqCluster` adds what is said on the connection when pieces of the cipher text
are saved (`RequestPiece`, `SendPiece`, `SavePiece`, `PieceSaved`) and fetched
(`SendFile`, `ReadSize`, `StorePiece`; `+=` under no lock is a read and a write),
the files on the workers by their names, and `Restart`: a new master and workers,
which connect in any order, with the files of the first job.  `FETCH_CHUNKS` is
the 16 chunks `Decrypt` takes every file to have.

`ClusterDecrypt` adds `DecryptChunk` (the id and the salt in one message),
`SendClearText`, and the output file: `Seek` takes `outputFileMutex` and moves the
position, `Write` writes there and releases it.  The count of chunks is what
`LoadedCount` makes of `SavedCount`.  Clear text is a chunk and whether it is
intact, that is, whether the salt was that of the chunk in the cipher file.
`DeleteClearText` is the `delete` of a pointer nothing has set, with both
outcomes.

### Wire

A cell is a byte.  `WriteLength`, `WriteMore` and `WriteLast` are the writes of one
message, the first takes `writeMutex` and the last gives it back; `ReadLength`
reads what has arrived, up to the digits of the length, once, and takes what has
not arrived from `Junk`, because the buffer was never filled; `atoi` makes a length
of that, which may be negative (`"badLength"`, a buffer that cannot be allocated),
zero (a message of nothing) or any other.  `ReadBody` reads any part of the rest
until it has it all.  `Exit` ends the sending process between any two writes (a
master returns from `main` while handlers run); a length that is read after that is
all junk, and in the middle of a message `Spin` is the loop that never ends.
`cut` remembers that a length was used of which not all had arrived.  From then on
`Recv` reads messages where there are none, and `MessageQueue` promises no more than
that what it has returned stays (`Break`); `MAX_RECEIVED` bounds how many it goes on
to return.

## Runs

| Run | Instance | Shows |
|---|---|---|
| `LocalFit` | 3 handlers, 3 pages of 2 chunks, all loaded at the start, encryption | `TypeOK`, `NoFault`; refines `DcbcChain` with every chunk read from its own place; `dcbc()` returns |
| `LocalOneHandler` | 1 handler, 7 pages through 2 slots, decryption | every chunk is decrypted from its own place with its own salt; `dcbc()` returns |
| `LocalPaging` | 3 handlers, 3 pages through 2 slots, encryption, mappings may fail | `ExclusiveTask`, `HandoffSafe`, `PageStable`, refines `DcbcChain`; every task handed over and every chunk gets processed, unless memory is lost; complete when `dcbc()` returns |
| `LocalLostHandler` | 2 handlers, 2 pages through 1 slot | violates `PoolEmptied` |
| `LocalDuplicatePage` | 2 handlers, 4 pages of 1 chunk through 2 slots | violates `LoadsNewPage` |
| `ClusterPages` | 1 or 2 workers, 3 chunks in pages of 2, a char of 4 values | `PageStaysMapped`, `MessagesMatch`, `NextExists`, `SaltsComplete`, `KeepsOwnConnection`, refines `DcbcChain`; every dispatched chunk is sent |
| `ClusterAnyHandler` | 1 or 2 workers, 2 chunks in one page | violates `CorrectFiles` |
| `ClusterLostRequest` | 1 or 2 workers, 2 chunks in one page | violates `RequestIsAnswered` |
| `ClusterUnsentPage` | 1 or 2 workers, 2 pages of 1 chunk | violates `FinalPageSent` |
| `SeqCluster` | 2 workers, files of 0 to 3 chunks, 2 fetched | refines `ChunkTransfer` as saved and as fetched; `LookupFails`, `SizeInRange`; who waits is woken |
| `ClusterDecrypt` | 2 workers, 0 to 4 chunks, a char of 8 values, two values of junk | refines `ChunkTransfer`; `CountLoaded`, `OwnPlaceIntact`, `LookupFails`; who waits is woken |
| `Wire` | 3 senders, 4 messages of 1 to 10 cells, lengths of 2 digits | refines `MessageQueue` until a length is cut; `SpinsOnTruncated`; messages arrive |

The bounds.  Paging needs more pages than slots, and the races of the pool need
two handlers that end pages while a third parks or exits: three handlers and
three pages of two chunks have all of it (one slot is enough for the lost
handler).  The constants of `LocalFit` are such that no page is ever replaced and
there are no more handlers than chunks; there the pool is free of the defects
below, so termination and the absence of faults can be asked.  In the cluster three
chunks give a first, a middle and a last link of the chain, two pages, a final page
that is not full, and one more
handler than a page has chunks; a single worker follows itself, so that a handler
looks up the map that main inserts into.  For independent chunks two workers give a
restart in another order, three chunks a round robin that comes back to the first
worker, and a file of fewer chunks than are fetched one that is too short.  A char
of 8 values makes the count of 4 chunks come back negative, as 128 chunks do with
256 values; two values of junk let an id differ from the one that was saved.  A char
of 4 values (`ClusterPages`) tells 3 chunks apart and has the id 0 at chunk 2, as 256
values have it at chunk 254.  In `Wire` two digits make a length with and without leading zeros, and a message of
11 cells can be cut in every place; the junk is a digit, a sign and another
character, so a cut length comes out right, too short, too long, negative or zero.
Two more messages after a cut (`MAX_RECEIVED`) are enough to return a wrong one.

Symmetry is not used: handlers are started and parked in the order of their
numbers, and chunks are ordered.

Fairness.  Every thread is weakly fair, the main thread and each handler for
itself: the operating system runs a thread that is not blocked.  In `SeqCluster`
nothing makes a second job start, in `Wire` nothing makes a process exit.  No fairness is
assumed between threads that want the same mutex or connection.  Weak fairness
is enough for what is asked, which is that threads that are enabled for good run.

Deadlock is checked where the job must end (`LocalFit`, `LocalOneHandler`); the
other runs reach states in which the program really stops: the lost handler
below, and in the cluster a wait that never ends or the handlers' loops, which
wait for messages when everything is done.

`WaiterWoken` asks what can be asked of the waits: a main thread that has blocked
while chunks are not counted is woken.  One that was about to block when the
last chunk was counted is not.

## What the code does otherwise than it says

- **A handler is left in the pool** (`LocalLostHandler`).  "Empty the waiting
  chunk handlers pool" (`ChunkHandler.cpp:141`): a handler that found nothing
  loaded has released `pendingTaskRW` but has not parked yet when the last
  handler empties the pool.  `dcbc()` does not return.
- **A page is loaded twice** (`LocalDuplicatePage`).  "Load new page"
  (`ChunkHandler.cpp:70`): `pagesProgress` is read under no lock.
- **Chunk handlers are mixed up** (`ClusterAnyHandler`).  "Pass Worker Handler's
  Connection to ChunkHandler" (`worker/main.cpp:44`): any handler may accept it.
  The salt chain does not suffer (`ImplementsChain` follows the accepting
  handler), but the cipher file is named after another chunk.
- **A request for a salt is lost** (`ClusterLostRequest`).  "Respond to a
  GET_PREV_SALT_FLAG request" (`comm-flags.h:7`): `set` and `isRequested` fall
  between `get` and `request`.
- **The final page is unmapped before it is sent** (`ClusterUnsentPage`).  "Wait
  for & unmap the final page" (`JobManager.cpp:123`): with one chunk in the final
  page `pageProgress` still counts the page before.

More goes wrong in the models, without a run of its own.
In the pool the handler that is to empty it locks `availableChunkHandlersRW` while
it holds `pendingTaskRW` (119, 142), and the loader of a page locks them in the
opposite order (96-97): with three handlers and two pages of three chunks both wait
for ever, and no page need be loaded twice for that.  In the master a handler whose
constructor has overwritten the connection it had accepted reads from `NULL`
(`NullConnection`), or is sent its salt through it (`AnswerNullNext`).  At the other
end of a connection `Recv` does not wait for the length: what it returns after it
has read the beginning of one, or at the end of the file, is no message anybody has
sent (`Break`).  And two more ways the master's waits fail:
`pageProgress` is reset in every iteration, so chunks sent before the last
iteration of a page are not counted and the wait for the page never ends; and
when `chunkCount` is not a multiple of `pageSize` the chunks of the final page alone
never end the wait for it, which the count of the page before may end too early
instead.  `LocalPool` with a partial last page never
processes its chunks (the comment at `dcbc.cpp:97` knows).

"We know that this->next exists" (`WorkerHandler.cpp:131`) holds but for one chunk
while ids tell the chunks apart, though it looks doubtful.  The exception is chunk
254: its id ends in the char 0, which `c_str()` cuts off on the way to `find()`, so the
lookup returns `end()` and the code dereferences it (`AnswerNoNext`, which
`ClusterPages` reaches at chunk 2 of its narrow char).  From chunk 256 on `find()`
may return an older handler of the same id.  For the others: although handlers
accept each other's connections and may ask for a salt before they are in the map, the salt before theirs cannot
be set by then: it needs every handler before it to have a connection of its own,
and the handler not yet in the map holds one of theirs (`NextExists`).

## Proofs

Eight modules of theorems, for every value of the constants that satisfies the
`ASSUME`s of the modules they extend.

**`LocalPoolProofs`**, for every number of handlers, page size, number of slots
and chunks, for both operations and with or without failing mappings:

- `TypeCorrect`: `Spec => []TypeOK`.
- `TasksAreExclusive`: `Spec => []ExclusiveTask`.
- `HandoffIsSafe`: `Spec => HandoffSafe`.

The argument is one inductive invariant, `IInv`:

- `TypeOK`;
- `TaskLoaded`: a handler that works on a page has a task that was written, so
  the slot and the counter it follows exist;
- `FillBound`: while a page is being added, the tasks it has added end at
  `loadedTasks`, so the counter's name is in the table;
- `PoolInv`: a parked handler is in the pool once and waits at a locked barrier
  (`PoolWaits`), an open barrier belongs to a handler that is at it
  (`OpenAtBarrier`), handlers `dcbc()` has not started have no task
  (`NotStarted`), every task that is owned is below `pendingTask`, or below what
  `dcbc()` has started (`HandedOut`), and `ExclusiveTask`.

`ExclusiveTask` is not inductive by itself: that a task about to be handed out is
owned by nobody is `HandedOut`, and that the handler it goes to has none is
`PoolWaits`.  `TypeOK` needs `TaskLoaded` and `FillBound`, because counters and
slots are indexed by what tasks say.  There is one lemma per group of actions
that preserves one part, and `NextInv` puts them together.  A frame lemma for
each part (it does not change when the variables it reads do not) keeps the steps
short.

**`LocalPoolPageProofs`**, under the same assumptions:

- `DoneIsComplete`: `Spec => []CompleteWhenDone`.
- `PagesAreStable`: `Spec => PageStable`.

`DoneIsComplete` rests on `DoneInv`: a task that was handed out and is not written
has a handler that works on it (`Tracked`), handlers only leave when nothing is
left to hand out (`NoneLeft`), `dcbc()` joins only handlers it has started
(`AllStarted`), and `Salted` and `Unfinished` say how far a chunk is.
`PagesAreStable` rests on `PageInv`, in three parts.  `TableInv`: the task table is
filled from the front, in groups of `PAGE_SIZE` tasks that share a counter, and
only the handler that holds `tasksRW` has a group that is not whole.
`CountExact`: the counter of a group is the number of its chunks that have not
been counted (the cardinality of a set, which a step takes one element from).
`SlotInv`: at most one group with chunks to count uses a slot, and a handler that
replaces a page is the only one at its slot.  So the handler that counts the last
chunk of a page is the only one left that could read it.

**`LocalPoolChainProofs`**:

- `EncryptionImplementsChain`: `Spec => ImplementsChain` for encryption, the
  refinement of `DcbcChain`, with paging and failing mappings.
- `OutputIsCorrect`, `EncryptionImplementsExactChain`: `Spec => []CorrectOutput` and
  `Spec => ImplementsExactChain` when `POOL_SIZE = 1 \/ MAX_PAGES >= totalPages`.
- `NoMemoryFault`: `Spec => []NoFault` when, besides, mappings do not fail while
  pages are replaced and there are no more handlers than chunks in the pages.

The three hypotheses are not for the proof's sake: `LocalDuplicatePage` shows a
page loaded twice with two handlers and replaced pages, a mapping that fails
leaves tasks without a page, and `StartHandler` hands out tasks without looking
how many there are.  `LocalFit` and `LocalOneHandler` satisfy them.
`ChainInv` says what a handler has read (`HashRead`, `SaltRead`), that salts are
published in order (`Published`), and that the pages read never pass the end of the
file (`RangeInv`, by counting the handlers that have read `pagesProgress` and not
added to it).  `OrderInv` adds that every slot holds the page its group belongs
to, `FaultInv` that no task is handed out before it is loaded.

**`DcbcBytesProofs`**, for every width of a char:

- `CountSurvives`: a count below half of what a char holds is loaded as it was
  saved, by both programs (128 chunks are the first that are not).
- `LoadsNoMore`: no count is loaded larger than it was saved into the `int` of
  `JobManager::Decrypt` (`LoadedCount`).
- `CountTurnsHuge`: the `unsigned int` of `loadSalts` (`LoadedUnsigned`) is close to
  its largest value for every count from half of what a char holds up to all of it.
- `IdsDistinct`: chunks less than a char's values apart have different ids.

**`ClusterDecryptProofs`**, for every number of workers and chunks, any junk and
any mixture of cipher files:

- `TypeCorrect`: `Spec => []TypeOK`.
- `CountIsLoaded`: `Spec => []CountLoaded`.
- `OwnPlaceIsIntact`: `Spec => []OwnPlaceIntact`.
- `RefinesTransfer`: `Spec => ImplementsTransfer`, the refinement of
  `ChunkTransfer` whose places are those of the output file.
- `LookupFailsOnJunk`: `Spec => []LookupFails`.

The inductive invariant `IInv` has six parts:

- `Types`: `TypeOK` without the bounds on what is counted;
- `Dispatched`: main's place in its loop, and that what runs was dispatched, with
  its own salt; it uses `LoadsNoMore`, without which main could read past the
  salts and the `.maps` file;
- `Connections`: every chunk handler is in the backlog once or has been accepted
  by one handler;
- `Messages`: a chunk handler sends one message, and its clear text in it;
- `Output`: a place is written by its handler alone, with the clear text of the
  chunk handler it has accepted, and the handler between `Seek` and `Write` holds
  the mutex and the position is still its own;
- `Counts`: `progress` is the number of places written, but for those about to be
  counted.

That no chunk is written to two places needs `Connections` and `Output` together
(no two handlers accept one chunk handler, no two files hold one chunk); that the
file is complete when it is closed needs `Counts`: a set of `chunkCount` places
among `chunkCount` is all of them.  `TypeOK`'s bound on `progress` is `Counts` as
well.  `LookupFailsOnJunk` has an invariant of its own, `Identified` (workers
connect once, all before the loop starts, and main does not move when it fails),
and the pigeonhole: `min_workers` different workers of `min_workers` are all of
them, so the one that is looked up is connected, under another junk.

**`SeqClusterProofs`**, for every number of workers, file size, number of fetched
chunks and any junk, through encryption, restart and decryption:

- `TypeCorrect`: `Spec => []TypeOK`.
- `SizeStaysInRange`: `Spec => []SizeInRange`.
- `LookupFailsOnJunk`: `Spec => []LookupFails`.
- `SaveImplementsTransfer`, `FetchImplementsTransfer`: `Spec => ImplementsSave` and
  `Spec => ImplementsFetch`, the refinements of `ChunkTransfer` by the two jobs, when
  `MAX_CHUNKS <= CHAR`.

The hypothesis is that a char can number the chunks.  Beyond it two chunks have the
same id (`DcbcBytesProofs`: ids differ *within* a char's values), so the same file
when they are on one worker, and the second piece overwrites the first.  The other
three theorems, and the invariant `IInv` behind them, do without it:

- `Types`: `TypeOK` without the bounds on what is counted;
- `MainInv`: where main is tells who has started, and which worker a chunk was
  assigned to (by round robin, or by its line of `.maps`);
- `MapsInv`: once it is written the `.maps` file has a line for every chunk of the
  file and no more;
- `Connections`: a chunk handler is in the backlog once or has been accepted by one
  handler, and the two are at one of six points of their conversation (`Talk`); a
  chunk handler that is done has a piece in its file;
- `Buffer`: a handler's place holds what the chunk handler it has accepted has sent,
  and in the second job every file that `.maps` tells has a piece, which the restart
  takes from `Counts`;
- `Counts`: `progress` is the number of handlers that are done, but for those about
  to be counted; when main finds the job done these are all handlers, and, because no
  two accept one chunk handler, all chunk handlers as well (`CountedChunks`);
- `Sizes`: `fullClearTextSize`, and what a handler has read of it, is at most the
  number of places that are filled, and not zero when there is one.

The refinements add `Named`: in the first job a file under the name of a chunk is on
the chunk's worker and holds the piece of the handler that accepted the chunk's
handler; in the second it is one that `.maps` tells, and no two of these hold the
same piece.  `Named` goes through the restart because the handlers' peers are
different (`RestartNamed`).

**`ClusterEncryptProofs`**, for every number of workers and page size, and as many
chunks as their ids tell apart (`FewChunks`: `chunkCount < CHAR`, 255 chunks;
the one whose id is 0 is among them):

- `TypeCorrect`: `Spec => []TypeOK`.
- `MessagesAlwaysMatch`: `Spec => []MessagesMatch`.
- `KeepsOwn`: `Spec => []KeepsOwnConnection`.
- `PageStays`: `Spec => []PageStaysMapped`.
- `NextAlwaysExists`: `Spec => []NextExists`.
- `SaltsAreComplete`: `Spec => []SaltsComplete`.
- `ClusterImplementsChain`: `Spec => ImplementsChain`, the refinement of
  `DcbcChain` that follows the accepting handlers.

A step is first put down to one thread (`Steps`), and a lemma for each kind of
thread says what it leaves alone.  The inductive invariant `Inv` is, besides the
types:

- `MainInv`: where main is tells which handlers and chunk handlers have started,
  which are in the maps, and how the workers are linked;
- `Connections`: a chunk handler waits in the backlog once or has been accepted by
  one handler, and one that nobody has accepted has neither sent nor received;
- `Talks`: a handler and the chunk handler it has accepted are at one of ten points
  of their conversation, each with the one or two messages that are under way; up
  to the eighth the handler's salt is not set, after it the salt is the chunk
  handler's;
- `RequestInv`: a salt that was requested and is not yet passed on is awaited by
  the handler after, with nothing under way on its connection.  This is why
  `AnswerNext`, which writes to another handler's connection, does not disturb
  that handler's talk;
- `SaltInv`, `OrderInv`, `ChunkInv`: salts are set in the order of the chunks, a
  chunk handler has read the chunk of the handler that accepted it, and its salt is
  the reference one; cipher files hold what was hashed;
- `CountInv`: `progress` is the number of handlers that have read `SIGNAL_DONE`;
- `PageInv`: which chunks the mapped page has, every chunk of the pages before has
  been sent, and `pageProgress`, as well as what a handler that is about to
  increment it has read, is at most the number of chunks of the mapped page that
  have been sent, or has passed `pageSize`, or is the full count of the page before,
  which main has not reset yet.

`PageStaysMapped` needs the exceptions in `PageInv`: the count can be too large, left
over from the page before, but main does not wait for a page before it has reset the
count; and it can be too large because an increment that began before the reset
ends after it, but then it is past `pageSize`, which the wait does not accept
(it tests for equality).  Otherwise `pageSize` counted chunks among the
`pageSize` chunks of a page are all of them.  `FinalPageSent` fails in the second
exception.  `NextExists` is the counting argument above, by the pigeonhole
principle.  Only there, in `AnswerNext` and in the file a chunk handler writes, do ids
matter: with `FewChunks` a handler that is found is that of the chunk after, and files
of different chunks have different names.  The refinement needs that `peer` is
injective and that the salt of the handler before is its chunk handler's.

**`WireProofs`**, for every set of senders, every sequence of messages of each,
messages of any number of parts of any length, and any number of digits that is
enough for their lengths (the code has 10 digits, and no message is longer than a
chunk of 128 MiB and its flag):

- `RoundTrip`: `atoi(lengthStr(n)) = n`, the length is read as it was written.
- `TypeCorrect`: `Spec => []TypeOK`.
- `SpinsOnlyOnTruncated`: `Spec => []SpinsOnTruncated`.
- `ImplementsMessageQueue`: `Spec => ImplementsQueue`, the refinement of
  `MessageQueue`.

`ImplementsMessageQueue` promises whole messages up to the first cut length, and
`SpinsOnlyOnTruncated` excuses the loop after one.  The types, and that what was
returned stays, hold for good.

The inductive invariant `IInv` is, besides the types, and the last two as long as no
length was cut:

- `TodoIsLast`: what a sender has left is the end of what it had;
- `HolderWrites`: who has written a part of a message and not all holds the
  mutex, and its message is the last that was begun;
- `Returned`: what `Recv` has returned is the first of what was sent, and what it
  holds is the beginning of the next;
- `Layout`: there are places for the messages, one after the other, such that every
  cell of the stream is the cell of the message at that place, the message `Recv`
  is at begins before the stream by what `Recv` has read of it, and the stream ends
  before the end of the last message by what its sender has still to write.

`Layout` is what makes it inductive: nothing else relates the cells that wait in
the stream to the messages they belong to.  A read moves all places back, a first
write adds one, and `WritesAreCells` says that the other writes go on where the
one before ended.  At the end of the stream in the middle of a message the last
message must be missing cells, so its sender holds the mutex.

The digits, their value and the parts joined are recursive functions, and no
induction theorem can be cited for them.  The proofs take the set of arguments for
which a statement fails and its least element instead, which exists because `<`
is well founded (`LeastElement`).

Out of the prover's reach, and only model-checked: everything under fairness
(`Terminates`, `HandedOverIsDone`, `EveryChunkDone`, `DispatchedIsSent`,
`WaiterWoken`, `AllDelivered`).

## Not modelled

- Bytes: AES, the hashes, the contents of a chunk beyond its number, and the
  trailing bytes that the integer division of sizes drops.
- Failing calls of the operating system other than `mmap` in `local/parallel`,
  and the crash of a process in the middle of a job: nothing in the code reacts to
  one but `Recv`, and what `Recv` does is in `Wire`.
- Spurious wake-ups of condition variables, which would hide the lost
  notifications.
- The exit of a master while its handlers still run, in the modules of the
  clusters: their handlers have nothing left to do then but to wait.
- A byte after a worker's id that is a newline, which would split a line of
  `.maps`; digits of a length that is cut that make more than an `int` holds.
- Chunks of another size than the 128 MiB that workers decrypt, and files of more
  than 256 chunks in `ClusterDecrypt`; the header of the salts file in
  `LocalPool`.
- Workers on one file system: in `SeqCluster` each has its own files.
- Messages of `SendMany` on a connection that is shared: `DecryptChunk` has its
  connection to itself, `MCWire` adds one to the others.
- The reset messages (`RESET_FLAG`, `SIGNAL_RESET_DONE_FLAG`) and `UseSalt`, which
  nobody sends.
- Arguments, timing logs, directories; `main.cpp` of `local/parallel` and of the
  masters, which call one function and return.
- `local/seq`, one call of the library.

## What could come next

Every property of a passing run that is not about fairness is a theorem.  What is
left are the hazards that `PROJECT.json` lists without a property, most of them at the level of
bytes or of the containers of the C++ library.
