------------------------------ MODULE LocalPool ------------------------------
(***************************************************************************)
(* local/parallel: dcbc() loads the first pages of the file, starts a pool *)
(* of chunk handlers and joins them; every handler thread runs             *)
(* ChunkHandler::handle, which processes tasks, replaces a page by the     *)
(* next one when its last chunk is done, parks itself when no task is      *)
(* loaded and empties the pool when no task is left.                       *)
(*                                                                         *)
(* A handler's pc names what it does next.  Mutexes that are held across   *)
(* several steps are variables; a critical section no other thread can     *)
(* see the middle of is one step.  Mapping, writing a task and dispatching *)
(* are separate steps because other threads run in between.                *)
(***************************************************************************)
EXTENDS DcbcSalts, SequencesExt

CONSTANTS
  POOL_SIZE,   \* number of handlers
  PAGE_SIZE,   \* chunks per page
  MAX_PAGES,   \* pages mapped at the same time
  chunkCount,  \* whole chunks of the file
  op,          \* "E" or "D"
  MapMayFail   \* whether mmap may return MAP_FAILED

ASSUME ConstantsAssumption ==
  /\ POOL_SIZE \in Nat \ {0}
  /\ PAGE_SIZE \in Nat \ {0}
  /\ MAX_PAGES \in Nat \ {0}
  /\ chunkCount \in Nat
  /\ op \in {"E", "D"}
  /\ MapMayFail \in BOOLEAN

VARIABLES
  pc, currentTask, threadBarrier,   \* of each handler; threadBarrier: locked?
  hash, filled,                     \* locals of _encrypt and of the page loader
  tasks, loadedTasks, pendingTask,  \* the task table and its two cursors
  remainingPageChunks,              \* one counter per loaded page, named by its first task
  i_pages, pagesProgress,           \* page mapped in each slot, next page to map
  availableChunkHandlers,           \* parked handlers, last in first out
  tasksRW, availableChunkHandlersRW, pendingTaskRW,  \* holders of the mutexes
  salts, isReadyLocked,             \* the SaltsIndex: value and isReadyMutex per chunk
  output,                           \* what each chunk of the output buffer holds
  mainPc, started, saltsFile,       \* dcbc(): phase, handlers started, file written
  fault                             \* memory was accessed that is not there

handlerVars == <<pc, currentTask, threadBarrier, hash, filled>>
taskVars == <<tasks, loadedTasks, remainingPageChunks>>
pageVars == <<i_pages, pagesProgress>>
lockVars == <<tasksRW, availableChunkHandlersRW, pendingTaskRW>>
dataVars == <<salts, isReadyLocked, output>>
mainVars == <<mainPc, started, saltsFile>>
vars == <<handlerVars, taskVars, pendingTask, pageVars, availableChunkHandlers,
          lockVars, dataVars, mainVars, fault>>

Handlers == 0 .. POOL_SIZE - 1
Chunks == 0 .. chunkCount - 1
totalPages == chunkCount \div PAGE_SIZE

\* Mutant: the number of first pages is not limited by the size of the file.
effectivePagesUnlimited == MAX_PAGES

effectivePages == IF totalPages < MAX_PAGES THEN totalPages ELSE MAX_PAGES
Slots == 0 .. effectivePages - 1
NoOne == -1
NoTask == [pageSlot |-> -1, localChunk |-> -1, counter |-> -1]
NoOutput == [chunk |-> -1, salt |-> NoSalt]
Unmapped == -1
MapFailed == -2

-----------------------------------------------------------------------------
\* The memory a task reads: its chunk of the page now in its slot.

Task(h) == tasks[currentTask[h]]
Page(h) == i_pages[Task(h).pageSlot]
Readable(h) == /\ currentTask[h] \in Chunks
               /\ Task(h) # NoTask
               /\ Page(h) >= 0

\* Mutant: the place in the page is computed from the index in the file.
ChunkReadGlobal(h) == Page(h) * PAGE_SIZE + currentTask[h]

ChunkRead(h) == Page(h) * PAGE_SIZE + Task(h).localChunk

At(h, label) == ~fault /\ pc[h] = label
Goto(h, label) == pc' = [pc EXCEPT ![h] = label]

\* runTask: hands a task to a handler and unlocks its barrier.
RunTask(h, t) == /\ currentTask' = [currentTask EXCEPT ![h] = t]
                 /\ threadBarrier' = [threadBarrier EXCEPT ![h] = FALSE]

Fault == /\ fault' = TRUE
         /\ UNCHANGED <<handlerVars, taskVars, pendingTask, pageVars, lockVars,
                        availableChunkHandlers, dataVars, mainVars>>

-----------------------------------------------------------------------------
\* dcbc()

Init ==
  /\ pc = [h \in Handlers |-> "barrier"]
  /\ currentTask = [h \in Handlers |-> -1]
  /\ threadBarrier = [h \in Handlers |-> TRUE]
  /\ hash = [h \in Handlers |-> -1]
  /\ filled = [h \in Handlers |-> 0]
  /\ tasks = [t \in Chunks |-> NoTask]
  /\ loadedTasks = 0
  /\ pendingTask = 0
  /\ remainingPageChunks = [t \in Chunks |-> 0]
  /\ i_pages = [s \in Slots |-> Unmapped]
  /\ pagesProgress = effectivePages
  /\ availableChunkHandlers = <<>>
  /\ tasksRW = NoOne /\ availableChunkHandlersRW = NoOne /\ pendingTaskRW = NoOne
  /\ salts = [i \in Chunks |-> IF op = "E" THEN NoSalt ELSE ReferenceSalt(i)]
  /\ isReadyLocked = [i \in Chunks |-> op = "E"]
  /\ output = [i \in Chunks |-> NoOutput]
  /\ mainPc = "load" /\ started = 0 /\ saltsFile = <<>>
  /\ fault = FALSE

\* Maps page s into slot s and fills in its tasks; no handler runs yet.
LoadInitialPages ==
  /\ mainPc = "load"
  /\ i_pages' = [s \in Slots |-> s]
  /\ tasks' = [t \in Chunks |->
                 IF t < effectivePages * PAGE_SIZE
                 THEN [pageSlot |-> t \div PAGE_SIZE, localChunk |-> t % PAGE_SIZE,
                       counter |-> t - (t % PAGE_SIZE)]
                 ELSE NoTask]
  /\ loadedTasks' = effectivePages * PAGE_SIZE
  /\ remainingPageChunks' =
       [t \in Chunks |-> IF tasks'[t] # NoTask /\ tasks'[t].counter = t
                         THEN PAGE_SIZE ELSE 0]
  /\ pendingTask' = POOL_SIZE
  /\ mainPc' = "start"
  /\ UNCHANGED <<handlerVars, pagesProgress, availableChunkHandlers, lockVars,
                 dataVars, started, saltsFile, fault>>

\* A first page that cannot be mapped ends the process.
MapInitialPageFails ==
  /\ mainPc = "load" /\ MapMayFail /\ effectivePages > 0
  /\ mainPc' = "exit"
  /\ UNCHANGED <<handlerVars, taskVars, pendingTask, pageVars, lockVars,
                 availableChunkHandlers, dataVars, started, saltsFile, fault>>

StartHandler ==
  /\ mainPc = "start" /\ ~fault
  /\ RunTask(started, started)
  /\ started' = started + 1
  /\ mainPc' = IF started' = POOL_SIZE THEN "join" ELSE "start"
  /\ UNCHANGED <<pc, hash, filled, taskVars, pendingTask, pageVars, lockVars,
                 availableChunkHandlers, dataVars, saltsFile, fault>>

\* saveSalts skips the entries that were never set.
PersistedSalts == [i \in {j \in Chunks : salts[j] # NoSalt} |-> salts[i]]

\* join() on every handler, then saveSalts.
Finish ==
  /\ mainPc = "join" /\ ~fault
  /\ \A h \in Handlers : pc[h] = "exited"
  /\ mainPc' = "done"
  /\ saltsFile' = IF op = "E" THEN PersistedSalts ELSE saltsFile
  /\ UNCHANGED <<handlerVars, taskVars, pendingTask, pageVars, lockVars,
                 availableChunkHandlers, dataVars, started, fault>>

-----------------------------------------------------------------------------
\* ChunkHandler::handle: taking a task and processing its chunk

\* Locks the barrier; a negative task is the order to stop.
ReceiveTask(h) ==
  /\ At(h, "barrier") /\ ~threadBarrier[h]
  /\ threadBarrier' = [threadBarrier EXCEPT ![h] = TRUE]
  /\ Goto(h, IF currentTask[h] < 0 THEN "exited"
             ELSE IF op = "E" THEN "hash" ELSE "decrypt")
  /\ UNCHANGED <<currentTask, hash, filled, taskVars, pendingTask, pageVars, lockVars,
                 availableChunkHandlers, dataVars, mainVars, fault>>

\* Mutant: a chunk whose page could not be mapped is skipped.
BadAccessSkipped(h) ==
  /\ At(h, "hash") \/ At(h, "encrypt") \/ At(h, "decrypt")
  /\ ~Readable(h)
  /\ Goto(h, "count")
  /\ UNCHANGED <<currentTask, threadBarrier, hash, filled, taskVars, pendingTask, pageVars,
                 lockVars, availableChunkHandlers, dataVars, mainVars, fault>>

\* The task or the page it reads is not there.
BadAccess(h) ==
  /\ At(h, "hash") \/ At(h, "encrypt") \/ At(h, "decrypt")
  /\ ~Readable(h)
  /\ Fault

HashChunk(h) ==
  /\ At(h, "hash") /\ Readable(h)
  /\ hash' = [hash EXCEPT ![h] = ChunkRead(h)]
  /\ Goto(h, "salt")
  /\ UNCHANGED <<currentTask, threadBarrier, filled, taskVars, pendingTask, pageVars,
                 lockVars, availableChunkHandlers, dataVars, mainVars, fault>>

\* Mutants: the predecessor is not waited for; the chunk waits for itself.
IsReadyAlways(i) == TRUE
IsReadyOwn(i) == ~isReadyLocked[i + 1]

\* isReady(i) blocks until set(i) has unlocked the entry, and locks it again.
\* Chunk 0 has no predecessor to wait for.
IsReady(i) == i >= 0 => ~isReadyLocked[i]
PreviousSalt(i) == IF i < 0 THEN IV ELSE salts[i]

SetSalt(h) ==
  LET t == currentTask[h]
  IN  /\ At(h, "salt") /\ IsReady(t - 1)
      /\ salts' = [salts EXCEPT ![t] = Combine(hash[h], PreviousSalt(t - 1))]
      /\ isReadyLocked' = [i \in Chunks |-> CASE i = t -> FALSE
                                              [] i = t - 1 -> TRUE
                                              [] OTHER -> isReadyLocked[i]]
      /\ Goto(h, "encrypt")
      /\ UNCHANGED <<currentTask, threadBarrier, hash, filled, taskVars, pendingTask,
                     pageVars, lockVars, availableChunkHandlers, output, mainVars, fault>>

\* AES-CBC over the chunk with its salt, into the chunk's place in the output.
WriteOutput(h) ==
  /\ Readable(h)
  /\ output' = [output EXCEPT ![currentTask[h]] =
                  [chunk |-> ChunkRead(h), salt |-> salts[currentTask[h]]]]
  /\ Goto(h, "count")
  /\ UNCHANGED <<currentTask, threadBarrier, hash, filled, taskVars, pendingTask, pageVars,
                 lockVars, availableChunkHandlers, salts, isReadyLocked, mainVars, fault>>

EncryptChunk(h) == At(h, "encrypt") /\ WriteOutput(h)
DecryptChunk(h) == At(h, "decrypt") /\ WriteOutput(h)

-----------------------------------------------------------------------------
\* ChunkHandler::handle: the last chunk of a page unloads it and loads another

\* Mutant: one chunk early.
LastOfPageEarly(counter) == remainingPageChunks[counter] = 2

LastOfPage(counter) == remainingPageChunks[counter] = 1

CountChunk(h) ==
  LET counter == Task(h).counter
  IN  /\ At(h, "count")
      /\ remainingPageChunks' = [remainingPageChunks EXCEPT ![counter] = @ - 1]
      /\ IF LastOfPage(counter)
         THEN /\ i_pages' = [i_pages EXCEPT ![Task(h).pageSlot] = Unmapped]
              /\ Goto(h, "morePages")
         ELSE Goto(h, "next") /\ UNCHANGED i_pages
      /\ UNCHANGED <<currentTask, threadBarrier, hash, filled, tasks, loadedTasks,
                     pendingTask, pagesProgress, lockVars, availableChunkHandlers,
                     dataVars, mainVars, fault>>

\* Mutant: the last page is never loaded.
CheckMorePagesButLast(h) ==
  /\ At(h, "morePages")
  /\ Goto(h, IF pagesProgress < totalPages - 1 THEN "map" ELSE "next")
  /\ UNCHANGED <<currentTask, threadBarrier, hash, filled, taskVars, pendingTask, pageVars,
                 lockVars, availableChunkHandlers, dataVars, mainVars, fault>>

\* pagesProgress is read here and again when mapping, under no lock.
CheckMorePages(h) ==
  /\ At(h, "morePages")
  /\ Goto(h, IF pagesProgress < totalPages THEN "map" ELSE "next")
  /\ UNCHANGED <<currentTask, threadBarrier, hash, filled, taskVars, pendingTask, pageVars,
                 lockVars, availableChunkHandlers, dataVars, mainVars, fault>>

\* A failed mapping is only reported.
MapPage(h) ==
  /\ At(h, "map")
  /\ \E page \in {pagesProgress} \cup (IF MapMayFail THEN {MapFailed} ELSE {}) :
       i_pages' = [i_pages EXCEPT ![Task(h).pageSlot] = page]
  /\ Goto(h, "lockTasks")
  /\ UNCHANGED <<currentTask, threadBarrier, hash, filled, taskVars, pendingTask,
                 pagesProgress, lockVars, availableChunkHandlers, dataVars, mainVars, fault>>

LockTasks(h) ==
  /\ At(h, "lockTasks") /\ tasksRW = NoOne
  /\ tasksRW' = h
  /\ filled' = [filled EXCEPT ![h] = 0]
  /\ Goto(h, "addTask")
  /\ UNCHANGED <<currentTask, threadBarrier, hash, taskVars, pendingTask, pageVars,
                 availableChunkHandlersRW, pendingTaskRW, availableChunkHandlers,
                 dataVars, mainVars, fault>>

\* The task table has chunkCount entries.
TableFull == loadedTasks >= chunkCount

\* One iteration of the loop: the task of chunk number filled of the new page.
\* Its counter, named by the page's first task, is created with the page.
AddTask(h) ==
  LET first == loadedTasks - filled[h]
  IN  /\ At(h, "addTask") /\ ~TableFull /\ pendingTaskRW = NoOne
      /\ tasks' = [tasks EXCEPT ![loadedTasks] =
                     [pageSlot |-> Task(h).pageSlot, localChunk |-> filled[h],
                      counter |-> first]]
      /\ remainingPageChunks' =
           [remainingPageChunks EXCEPT ![first] = IF filled[h] = 0 THEN PAGE_SIZE ELSE @]
      /\ loadedTasks' = loadedTasks + 1
      /\ filled' = [filled EXCEPT ![h] = @ + 1]
      /\ IF filled'[h] = PAGE_SIZE
         THEN tasksRW' = NoOne /\ Goto(h, "lockAvailable")
         ELSE UNCHANGED <<tasksRW, pc>>
      /\ UNCHANGED <<currentTask, threadBarrier, hash, pendingTask, pageVars,
                     availableChunkHandlersRW, pendingTaskRW, availableChunkHandlers,
                     dataVars, mainVars, fault>>

\* A write past the end of the task table.
TaskTableOverflow(h) == At(h, "addTask") /\ TableFull /\ Fault

\* The loader holds both mutexes while it hands the new tasks to parked handlers.
LockAvailable(h) ==
  /\ At(h, "lockAvailable") /\ availableChunkHandlersRW = NoOne
  /\ availableChunkHandlersRW' = h
  /\ Goto(h, "lockPending")
  /\ UNCHANGED <<currentTask, threadBarrier, hash, filled, taskVars, pendingTask, pageVars,
                 tasksRW, pendingTaskRW, availableChunkHandlers, dataVars, mainVars, fault>>

LockPending(h) ==
  /\ At(h, "lockPending") /\ pendingTaskRW = NoOne
  /\ pendingTaskRW' = h
  /\ Goto(h, "dispatch")
  /\ UNCHANGED <<currentTask, threadBarrier, hash, filled, taskVars, pendingTask, pageVars,
                 tasksRW, availableChunkHandlersRW, availableChunkHandlers, dataVars,
                 mainVars, fault>>

MoreToDispatch == availableChunkHandlers # <<>> /\ pendingTask < loadedTasks

\* Mutants: the handler stays in the pool; the task stays pending.
DispatchParkedKept(h) ==
  /\ At(h, "dispatch") /\ MoreToDispatch
  /\ RunTask(Last(availableChunkHandlers), pendingTask)
  /\ pendingTask' = pendingTask + 1
  /\ UNCHANGED <<pc, hash, filled, taskVars, pageVars, lockVars, availableChunkHandlers,
                 dataVars, mainVars, fault>>
DispatchParkedPending(h) ==
  /\ At(h, "dispatch") /\ MoreToDispatch
  /\ RunTask(Last(availableChunkHandlers), pendingTask)
  /\ availableChunkHandlers' = Front(availableChunkHandlers)
  /\ UNCHANGED <<pc, hash, filled, taskVars, pendingTask, pageVars, lockVars, dataVars,
                 mainVars, fault>>

DispatchParked(h) ==
  /\ At(h, "dispatch") /\ MoreToDispatch
  /\ RunTask(Last(availableChunkHandlers), pendingTask)
  /\ availableChunkHandlers' = Front(availableChunkHandlers)
  /\ pendingTask' = pendingTask + 1
  /\ UNCHANGED <<pc, hash, filled, taskVars, pageVars, lockVars, dataVars, mainVars, fault>>

EndDispatch(h) ==
  /\ At(h, "dispatch") /\ ~MoreToDispatch
  /\ pendingTaskRW' = NoOne /\ availableChunkHandlersRW' = NoOne
  /\ Goto(h, "countPage")
  /\ UNCHANGED <<currentTask, threadBarrier, hash, filled, taskVars, pendingTask, pageVars,
                 tasksRW, availableChunkHandlers, dataVars, mainVars, fault>>

CountPage(h) ==
  /\ At(h, "countPage")
  /\ pagesProgress' = pagesProgress + 1
  /\ Goto(h, "next")
  /\ UNCHANGED <<currentTask, threadBarrier, hash, filled, taskVars, pendingTask, i_pages,
                 lockVars, availableChunkHandlers, dataVars, mainVars, fault>>

-----------------------------------------------------------------------------
\* ChunkHandler::handle: what to do next

TakeTask(h) ==
  /\ At(h, "next") /\ pendingTaskRW = NoOne
  /\ pendingTask < chunkCount /\ pendingTask < loadedTasks
  /\ RunTask(h, pendingTask)
  /\ pendingTask' = pendingTask + 1
  /\ Goto(h, "barrier")
  /\ UNCHANGED <<hash, filled, taskVars, pageVars, lockVars, availableChunkHandlers,
                 dataVars, mainVars, fault>>

\* No task is loaded; pendingTaskRW is released before the handler parks.
NothingLoaded(h) ==
  /\ At(h, "next") /\ pendingTaskRW = NoOne
  /\ pendingTask < chunkCount /\ pendingTask >= loadedTasks
  /\ Goto(h, "park")
  /\ UNCHANGED <<currentTask, threadBarrier, hash, filled, taskVars, pendingTask, pageVars,
                 lockVars, availableChunkHandlers, dataVars, mainVars, fault>>

Park(h) ==
  /\ At(h, "park") /\ availableChunkHandlersRW = NoOne
  /\ availableChunkHandlers' = Append(availableChunkHandlers, h)
  /\ Goto(h, "barrier")
  /\ UNCHANGED <<currentTask, threadBarrier, hash, filled, taskVars, pendingTask, pageVars,
                 lockVars, dataVars, mainVars, fault>>

\* No task is left: the handler keeps pendingTaskRW while it stops the parked ones.
NoTaskLeft(h) ==
  /\ At(h, "next") /\ pendingTaskRW = NoOne
  /\ pendingTask >= chunkCount
  /\ pendingTaskRW' = h
  /\ Goto(h, "lockPool")
  /\ UNCHANGED <<currentTask, threadBarrier, hash, filled, taskVars, pendingTask, pageVars,
                 tasksRW, availableChunkHandlersRW, availableChunkHandlers, dataVars,
                 mainVars, fault>>

LockPool(h) ==
  /\ At(h, "lockPool") /\ availableChunkHandlersRW = NoOne
  /\ availableChunkHandlersRW' = h
  /\ Goto(h, "drain")
  /\ UNCHANGED <<currentTask, threadBarrier, hash, filled, taskVars, pendingTask, pageVars,
                 tasksRW, pendingTaskRW, availableChunkHandlers, dataVars, mainVars, fault>>

StopParked(h) ==
  /\ At(h, "drain") /\ availableChunkHandlers # <<>>
  /\ RunTask(Last(availableChunkHandlers), -1)
  /\ availableChunkHandlers' = Front(availableChunkHandlers)
  /\ UNCHANGED <<pc, hash, filled, taskVars, pendingTask, pageVars, lockVars, dataVars,
                 mainVars, fault>>

\* Mutant: pendingTaskRW is not released.
ExitLocked(h) ==
  /\ At(h, "drain") /\ availableChunkHandlers = <<>>
  /\ availableChunkHandlersRW' = NoOne
  /\ Goto(h, "exited")
  /\ UNCHANGED <<currentTask, threadBarrier, hash, filled, taskVars, pendingTask, pageVars,
                 tasksRW, pendingTaskRW, availableChunkHandlers, dataVars, mainVars, fault>>

Exit(h) ==
  /\ At(h, "drain") /\ availableChunkHandlers = <<>>
  /\ availableChunkHandlersRW' = NoOne /\ pendingTaskRW' = NoOne
  /\ Goto(h, "exited")
  /\ UNCHANGED <<currentTask, threadBarrier, hash, filled, taskVars, pendingTask, pageVars,
                 tasksRW, availableChunkHandlers, dataVars, mainVars, fault>>

-----------------------------------------------------------------------------
ProcessTask(h) == \/ ReceiveTask(h) \/ BadAccess(h) \/ HashChunk(h) \/ SetSalt(h)
                  \/ EncryptChunk(h) \/ DecryptChunk(h) \/ CountChunk(h)
LoadPage(h) == \/ CheckMorePages(h) \/ MapPage(h) \/ LockTasks(h) \/ AddTask(h)
               \/ TaskTableOverflow(h) \/ LockAvailable(h) \/ LockPending(h)
               \/ DispatchParked(h) \/ EndDispatch(h) \/ CountPage(h)
ChooseNext(h) == \/ TakeTask(h) \/ NothingLoaded(h) \/ Park(h) \/ NoTaskLeft(h)
                 \/ LockPool(h) \/ StopParked(h) \/ Exit(h)
Handle(h) == ProcessTask(h) \/ LoadPage(h) \/ ChooseNext(h)
Main == LoadInitialPages \/ MapInitialPageFails \/ StartHandler \/ Finish

\* The process has ended, or has lost its memory and promises nothing more.
Stopped == (mainPc \in {"done", "exit"} \/ fault) /\ UNCHANGED vars

Next == Main \/ (\E h \in Handlers : Handle(h)) \/ Stopped

Spec == Init /\ [][Next]_vars

\* Every thread keeps running when it is not blocked.
Fairness == WF_vars(Main) /\ \A h \in Handlers : WF_vars(Handle(h))
FairSpec == Spec /\ Fairness

-----------------------------------------------------------------------------
\* Properties

Labels == {"barrier", "hash", "salt", "encrypt", "decrypt", "count", "morePages", "map",
           "lockTasks", "addTask", "lockAvailable", "lockPending", "dispatch", "countPage",
           "next", "park", "lockPool", "drain", "exited"}
TaskContext == [pageSlot : Slots, localChunk : 0 .. PAGE_SIZE - 1, counter : Chunks]

\* Every variable has its type; the task cursors stay within the table.
HandlerTypes ==
  /\ pc \in [Handlers -> Labels]
  /\ currentTask \in [Handlers -> Int]
  /\ threadBarrier \in [Handlers -> BOOLEAN]
  /\ hash \in [Handlers -> Int]
  /\ filled \in [Handlers -> 0 .. PAGE_SIZE]
TaskTypes ==
  /\ tasks \in [Chunks -> TaskContext \cup {NoTask}]
  /\ loadedTasks \in 0 .. chunkCount
  /\ pendingTask \in Nat
  /\ remainingPageChunks \in [Chunks -> Int]
PageTypes ==
  /\ i_pages \in [Slots -> Int]
  /\ pagesProgress \in Nat
PoolTypes ==
  /\ availableChunkHandlers \in Seq(Handlers)
  /\ tasksRW \in Handlers \cup {NoOne}
  /\ availableChunkHandlersRW \in Handlers \cup {NoOne}
  /\ pendingTaskRW \in Handlers \cup {NoOne}
DataTypes ==
  /\ salts \in [Chunks -> Seq(Int)]
  /\ isReadyLocked \in [Chunks -> BOOLEAN]
  /\ output \in [Chunks -> [chunk : Int, salt : Seq(Int)]]
MainTypes ==
  /\ mainPc \in {"load", "start", "join", "done", "exit"}
  /\ started \in 0 .. POOL_SIZE
  /\ DOMAIN saltsFile \subseteq Chunks
  /\ saltsFile \in [DOMAIN saltsFile -> Seq(Int)]
  /\ fault \in BOOLEAN
TypeOK == HandlerTypes /\ TaskTypes /\ PageTypes /\ PoolTypes /\ DataTypes /\ MainTypes

Processing == {"hash", "salt", "encrypt", "decrypt", "count"}

\* h has been handed a task that it has not counted yet.
Owns(h) == \/ pc[h] \in Processing
           \/ pc[h] = "barrier" /\ ~threadBarrier[h] /\ currentTask[h] >= 0

\* No two handlers are ever handed the same task, although three places hand
\* tasks out: dcbc(), the page loader and the handler itself.
ExclusiveTask ==
  \A g, h \in Handlers : g # h /\ Owns(g) /\ Owns(h) => currentTask[g] # currentTask[h]

\* runTask never overwrites a task another runTask has handed over: the handler
\* it is called for is waiting at its barrier or choosing its own next task.
HandoffSafe ==
  [][\A h \in Handlers : currentTask'[h] # currentTask[h] =>
       threadBarrier[h] /\ pc[h] \in {"barrier", "next"}]_vars

\* The page of a loaded task stays in its slot until the chunk is in the output:
\* the handler that counts a page down to 0 is the last one to read it, and the
\* page it loads next replaces no page that is still in use.
PageStable ==
  [][\A t \in Chunks : tasks[t] # NoTask /\ output[t] = NoOutput =>
       i_pages'[tasks[t].pageSlot] = i_pages[tasks[t].pageSlot]]_vars

\* No memory is accessed that is not there.
NoFault == ~fault

\* Each chunk of the output is that chunk of the file, with the salt the
\* chain of all chunks before it gives.
CorrectOutput ==
  \A t \in Chunks : output[t] # NoOutput =>
                      output[t] = [chunk |-> t, salt |-> ReferenceSalt(t)]

\* When dcbc() returns every chunk has been processed and, after an encryption,
\* the salts file has a salt for each of them.
CompleteWhenDone ==
  mainPc = "done" => /\ \A t \in Chunks : output[t] # NoOutput
                     /\ op = "E" => DOMAIN saltsFile = Chunks

\* Salts are chained in order and every chunk is encrypted from what was hashed.
AnyChain == INSTANCE DcbcChain WITH Contents <- [i \in Chunks |-> Chunks],
                                    finished <- mainPc = "done"
ImplementsChain == AnyChain!Spec

\* The same, with every chunk read from its own place in the file.
ExactChain == INSTANCE DcbcChain WITH Contents <- [i \in Chunks |-> {i}],
                                      finished <- mainPc = "done"
ImplementsExactChain == ExactChain!Spec

\* A task that was handed over is processed: the handlers wait for salts in the
\* order the tasks were handed over, so they never wait for each other in a cycle.
HandedOverIsDone ==
  \A t \in Chunks : (\E h \in Handlers : Owns(h) /\ currentTask[h] = t)
                      ~> (output[t] # NoOutput \/ fault)

\* Every chunk of the file gets processed, unless the process ends before it starts:
\* handlers that wait for tasks never all wait while a chunk is still to be loaded.
EveryChunkDone ==
  <>(fault \/ mainPc = "exit" \/ \A t \in Chunks : output[t] # NoOutput)

\* "Load new page" (ChunkHandler.cpp:70): no two slots hold the same page.
LoadsNewPage ==
  \A r, s \in Slots : r # s /\ i_pages[r] >= 0 => i_pages[r] # i_pages[s]

\* "Empty the waiting chunk handlers pool" (ChunkHandler.cpp:141): when every
\* handler has exited or waits for a task, none is left in the pool.
WaitsForTask(h) == pc[h] = "barrier" /\ threadBarrier[h]
PoolEmptied ==
  started = POOL_SIZE /\ (\A h \in Handlers : pc[h] = "exited" \/ WaitsForTask(h))
    => availableChunkHandlers = <<>>

\* dcbc() returns.
Terminates == <>(mainPc = "done")
==============================================================================
