------------------------- MODULE LocalPoolPageProofs -------------------------
(***************************************************************************)
(* Theorems about what LocalPool does with its tasks and pages, for every  *)
(* size of the pool, the pages and the file: when dcbc() returns every     *)
(* chunk is in the output, and no page is replaced while a chunk of it is  *)
(* still to be written, although several handlers replace pages at once.   *)
(***************************************************************************)
EXTENDS LocalPoolProofs, FiniteSetTheorems

-----------------------------------------------------------------------------
\* Which step moves a handler from which label to which.

LEMMA OnlyOwnMove ==
  ASSUME TypeOK, [Next]_vars, NEW g \in Handlers, pc'[g] # pc[g]
  PROVE  Handle(g)
<1>1. CASE Main \/ Stopped \/ UNCHANGED vars
  BY <1>1 DEF Main, LoadInitialPages, MapInitialPageFails, StartHandler, Finish, Stopped,
     vars, handlerVars
<1>2. ASSUME NEW h \in Handlers, NEW label, Goto(h, label), h # g
      PROVE  pc'[g] = pc[g]
  BY <1>2 DEF Goto, TypeOK, HandlerTypes
<1>3. ASSUME NEW h \in Handlers, h # g, ProcessTask(h)
      PROVE  pc'[g] = pc[g]
  BY <1>2, <1>3 DEF ProcessTask, ReceiveTask, BadAccess, Fault, HashChunk, SetSalt, EncryptChunk,
     DecryptChunk, WriteOutput, CountChunk, handlerVars
<1>4. ASSUME NEW h \in Handlers, h # g, LoadPage(h)
      PROVE  pc'[g] = pc[g]
  BY <1>2, <1>4 DEF LoadPage, CheckMorePages, MapPage, LockTasks, AddTask, TaskTableOverflow,
     Fault, LockAvailable, LockPending, DispatchParked, EndDispatch, CountPage, handlerVars
<1>5. ASSUME NEW h \in Handlers, h # g, ChooseNext(h)
      PROVE  pc'[g] = pc[g]
  BY <1>2, <1>5 DEF ChooseNext, TakeTask, NothingLoaded, Park, NoTaskLeft, LockPool, StopParked,
     Exit, handlerVars
<1> QED
  BY <1>1, <1>3, <1>4, <1>5 DEF Next, Handle

Wrote(h) == EncryptChunk(h) \/ DecryptChunk(h)

ProcessMove(g) ==
  \/ ReceiveTask(g) /\ pc[g] = "barrier" /\ pc'[g] \in {"hash", "decrypt", "exited"}
  \/ HashChunk(g) /\ pc[g] = "hash" /\ pc'[g] = "salt"
  \/ SetSalt(g) /\ pc[g] = "salt" /\ pc'[g] = "encrypt"
  \/ Wrote(g) /\ pc[g] \in {"encrypt", "decrypt"} /\ pc'[g] = "count"
  \/ CountChunk(g) /\ pc[g] = "count" /\ LastOfPage(Task(g).counter) /\ pc'[g] = "morePages"
  \/ CountChunk(g) /\ pc[g] = "count" /\ ~LastOfPage(Task(g).counter) /\ pc'[g] = "next"

LoadMove(g) ==
  \/ CheckMorePages(g) /\ pc[g] = "morePages" /\ pc'[g] \in {"map", "next"}
  \/ MapPage(g) /\ pc[g] = "map" /\ pc'[g] = "lockTasks"
  \/ LockTasks(g) /\ pc[g] = "lockTasks" /\ pc'[g] = "addTask"
  \/ AddTask(g) /\ pc[g] = "addTask" /\ pc'[g] = "lockAvailable"
  \/ LockAvailable(g) /\ pc[g] = "lockAvailable" /\ pc'[g] = "lockPending"
  \/ LockPending(g) /\ pc[g] = "lockPending" /\ pc'[g] = "dispatch"
  \/ EndDispatch(g) /\ pc[g] = "dispatch" /\ pc'[g] = "countPage"
  \/ CountPage(g) /\ pc[g] = "countPage" /\ pc'[g] = "next"

ChooseMove(g) ==
  \/ TakeTask(g) /\ pc[g] = "next" /\ pc'[g] = "barrier"
  \/ NothingLoaded(g) /\ pc[g] = "next" /\ pc'[g] = "park"
  \/ Park(g) /\ pc[g] = "park" /\ pc'[g] = "barrier"
  \/ NoTaskLeft(g) /\ pc[g] = "next" /\ pc'[g] = "lockPool"
  \/ LockPool(g) /\ pc[g] = "lockPool" /\ pc'[g] = "drain"
  \/ Exit(g) /\ pc[g] = "drain" /\ pc'[g] = "exited"

Move(g) == ProcessMove(g) \/ LoadMove(g) \/ ChooseMove(g)

LEMMA Moves ==
  ASSUME TypeOK, [Next]_vars, NEW g \in Handlers, pc'[g] # pc[g]
  PROVE  Move(g)
<1>1. ASSUME NEW label, Goto(g, label)
      PROVE  pc'[g] = label
  BY <1>1 DEF Goto, TypeOK, HandlerTypes
<1>2. CASE ProcessTask(g)
  <2>1. ~BadAccess(g)
    BY DEF BadAccess, Fault, handlerVars
  <2>2. CASE ReceiveTask(g)
    BY <1>1, <2>2 DEF ReceiveTask, At, Move, ProcessMove
  <2>3. CASE HashChunk(g)
    BY <1>1, <2>3 DEF HashChunk, At, Move, ProcessMove
  <2>4. CASE SetSalt(g)
    BY <1>1, <2>4 DEF SetSalt, At, Move, ProcessMove
  <2>5. CASE Wrote(g)
    BY <1>1, <2>5 DEF Wrote, EncryptChunk, DecryptChunk, WriteOutput, At, Move, ProcessMove
  <2>6. CASE CountChunk(g)
    BY <1>1, <2>6 DEF CountChunk, At, Move, ProcessMove
  <2> QED
    BY <1>2, <2>1, <2>2, <2>3, <2>4, <2>5, <2>6 DEF ProcessTask, Wrote
<1>3. CASE LoadPage(g)
  <2>1. ~TaskTableOverflow(g) /\ ~DispatchParked(g)
    BY DEF TaskTableOverflow, Fault, handlerVars, DispatchParked
  <2>2. CheckMorePages(g) => Move(g)
    BY <1>1 DEF CheckMorePages, At, Move, LoadMove
  <2>3. MapPage(g) => Move(g)
    BY <1>1 DEF MapPage, At, Move, LoadMove
  <2>4. LockTasks(g) => Move(g)
    BY <1>1 DEF LockTasks, At, Move, LoadMove
  <2>5. AddTask(g) => Move(g)
    BY <1>1 DEF AddTask, At, Move, LoadMove
  <2>6. LockAvailable(g) => Move(g)
    BY <1>1 DEF LockAvailable, At, Move, LoadMove
  <2>7. LockPending(g) => Move(g)
    BY <1>1 DEF LockPending, At, Move, LoadMove
  <2>8. EndDispatch(g) => Move(g)
    BY <1>1 DEF EndDispatch, At, Move, LoadMove
  <2>9. CountPage(g) => Move(g)
    BY <1>1 DEF CountPage, At, Move, LoadMove
  <2> QED
    BY <1>3, <2>1, <2>2, <2>3, <2>4, <2>5, <2>6, <2>7, <2>8, <2>9 DEF LoadPage
<1>4. CASE ChooseNext(g)
  <2>1. ~StopParked(g)
    BY DEF StopParked
  <2>2. TakeTask(g) => Move(g)
    BY <1>1 DEF TakeTask, At, Move, ChooseMove
  <2>3. NothingLoaded(g) => Move(g)
    BY <1>1 DEF NothingLoaded, At, Move, ChooseMove
  <2>4. Park(g) => Move(g)
    BY <1>1 DEF Park, At, Move, ChooseMove
  <2>5. NoTaskLeft(g) => Move(g)
    BY <1>1 DEF NoTaskLeft, At, Move, ChooseMove
  <2>6. LockPool(g) => Move(g)
    BY <1>1 DEF LockPool, At, Move, ChooseMove
  <2>7. Exit(g) => Move(g)
    BY <1>1 DEF Exit, At, Move, ChooseMove
  <2> QED
    BY <1>4, <2>1, <2>2, <2>3, <2>4, <2>5, <2>6, <2>7 DEF ChooseNext
<1> QED
  BY <1>2, <1>3, <1>4, OnlyOwnMove DEF Handle

-----------------------------------------------------------------------------
\* Handing tasks out.

\* dcbc() or a handler has handed task t out.
Handed(t) == t < pendingTask /\ (mainPc = "start" => t < started \/ t >= POOL_SIZE)

\* A handler's task changes at its barrier or when it takes the next one.
LEMMA TaskKept ==
  ASSUME IInv, [Next]_vars, NEW g \in Handlers, ~WaitsForTask(g), pc[g] # "next"
  PROVE  /\ currentTask'[g] = currentTask[g]
         /\ threadBarrier'[g] = threadBarrier[g] \/ ReceiveTask(g)
<1>1. HandlerTypes
  BY DEF IInv, TypeOK
<1>2. ASSUME NEW h \in Handlers, NEW t, RunTask(h, t), h # g
      PROVE  currentTask'[g] = currentTask[g] /\ threadBarrier'[g] = threadBarrier[g]
  BY <1>1, <1>2 DEF RunTask, HandlerTypes
<1>3. CASE StartHandler
  BY <1>2, <1>3, RunTaskTarget DEF StartHandler
<1>4. ASSUME NEW h \in Handlers, DispatchParked(h) \/ StopParked(h)
      PROVE  currentTask'[g] = currentTask[g] /\ threadBarrier'[g] = threadBarrier[g]
  BY <1>2, <1>4, RunTaskTarget DEF DispatchParked, StopParked, MoreToDispatch
<1>5. ASSUME NEW h \in Handlers, TakeTask(h)
      PROVE  currentTask'[g] = currentTask[g] /\ threadBarrier'[g] = threadBarrier[g]
  BY <1>2, <1>5 DEF TakeTask, At
<1>6. ASSUME NEW h \in Handlers, ReceiveTask(h)
      PROVE  currentTask'[g] = currentTask[g] /\ (threadBarrier'[g] = threadBarrier[g] \/ h = g)
  BY <1>1, <1>6 DEF ReceiveTask, HandlerTypes
<1> QED
  BY <1>3, <1>4, <1>5, <1>6, Steps DEF IInv, IdleStep, PrivateStep, LoadInitialPages,
     MapInitialPageFails, Finish, Park, handlerVars

\* An owner keeps its task until it has counted it.
LEMMA OwnerKept ==
  ASSUME IInv, [Next]_vars, NEW g \in Handlers, Owns(g), ~CountChunk(g)
  PROVE  Owns(g)' /\ currentTask'[g] = currentTask[g]
<1>1. HandlerTypes
  BY DEF IInv, TypeOK
<1>2. ~WaitsForTask(g) /\ pc[g] # "next"
  BY DEF Owns, WaitsForTask, Processing
<1>3. currentTask'[g] = currentTask[g] /\ (threadBarrier'[g] = threadBarrier[g] \/ ReceiveTask(g))
  BY <1>2, TaskKept
<1>4. CASE pc'[g] = pc[g]
  <2>1. ~ReceiveTask(g) \/ threadBarrier'[g] = threadBarrier[g]
    BY <1>1, <1>4 DEF ReceiveTask, At, Goto, HandlerTypes
  <2> QED
    BY <1>3, <1>4, <2>1 DEF Owns
<1>5. CASE pc'[g] # pc[g]
  <2>1. Move(g)
    BY <1>5, Moves DEF IInv
  <2>2. CASE ReceiveTask(g) /\ pc[g] = "barrier"
    <3>1. ~ currentTask[g] < 0
      BY <1>1, <2>2, SMT DEF Owns, Processing, HandlerTypes
    <3>2. pc'[g] \in Processing
      BY <1>1, <2>2, <3>1 DEF ReceiveTask, Goto, HandlerTypes, Processing
    <3> QED
      BY <1>3, <3>2 DEF Owns
  <2> QED
    BY <1>3, <2>1, <2>2 DEF Owns, Processing, Move, ProcessMove, LoadMove, ChooseMove
<1> QED
  BY <1>4, <1>5

LEMMA OwnerHanded ==
  ASSUME IInv, NEW g \in Handlers, Owns(g)
  PROVE  Handed(currentTask[g])
  BY DEF IInv, PoolInv, HandedOut, Handed

\* What is handed out was not handed out before.
LEMMA NewTask ==
  ASSUME IInv, [Next]_vars, NEW n \in Handlers, NewOwner(n)
  PROVE  ~Handed(currentTask'[n]) /\ currentTask'[n] \in Nat
<1>1. TaskTypes /\ MainTypes /\ NotStarted
  BY DEF IInv, TypeOK, PoolInv
<1>2. CASE StartHandler /\ currentTask'[n] = started
  <2>1. mainPc = "start" /\ started \in Nat /\ started < POOL_SIZE
    BY <1>1, <1>2 DEF StartHandler, NotStarted, MainTypes
  <2>2. ~(started < started) /\ ~(started >= POOL_SIZE)
    BY <2>1, ConstantsAssumption, SMT
  <2> QED
    BY <1>2, <2>1, <2>2 DEF Handed
<1>3. CASE currentTask'[n] = pendingTask
  <2>1. pendingTask \in Nat /\ ~(pendingTask < pendingTask)
    BY <1>1, SMT DEF TaskTypes
  <2> QED
    BY <1>3, <2>1 DEF Handed
<1> QED
  BY <1>2, <1>3 DEF NewOwner

\* Nothing is handed out before the first pages are loaded.
BeforeStart ==
  mainPc \in {"load", "exit"} =>
    pendingTask = 0 /\ loadedTasks = 0 /\ \A h \in Handlers : WaitsForTask(h)

LEMMA HandedStep ==
  ASSUME IInv, BeforeStart, [Next]_vars, NEW t \in Chunks
  PROVE  /\ Handed(t) => Handed(t)'
         /\ Handed(t)' => \/ Handed(t)
                          \/ \E n \in Handlers : Owns(n)' /\ pc'[n] = "barrier" /\ currentTask'[n] = t
<1> USE ConstantsAssumption
<1>1. TypeOK /\ HandlerTypes /\ TaskTypes /\ MainTypes /\ NotStarted /\ t \in Nat
  BY SMT DEF IInv, TypeOK, PoolInv, Chunks
<1>2. ASSUME NEW n \in Handlers, RunTask(n, t), pc'[n] = "barrier"
      PROVE  Owns(n)' /\ currentTask'[n] = t
  <2>1. currentTask'[n] = t /\ ~threadBarrier'[n] /\ t >= 0
    BY <1>1, <1>2, SMT DEF RunTask, HandlerTypes
  <2> QED
    BY <1>2, <2>1 DEF Owns
<1>3. CASE UNCHANGED <<pendingTask, mainPc, started>>
  BY <1>3 DEF Handed
<1>4. CASE LoadInitialPages
  <2>1. pendingTask = 0 /\ pendingTask' = POOL_SIZE /\ mainPc' = "start" /\ started' = 0
    BY <1>1, <1>4 DEF LoadInitialPages, BeforeStart, NotStarted
  <2> QED
    BY <1>1, <2>1, SMT DEF Handed
<1>5. CASE MapInitialPageFails
  <2>1. pendingTask = 0 /\ pendingTask' = 0
    BY <1>5 DEF MapInitialPageFails, BeforeStart
  <2> QED
    BY <1>1, <2>1, SMT DEF Handed
<1>6. CASE StartHandler
  <2>1. started \in Nat /\ mainPc = "start" /\ started' = started + 1 /\ pendingTask' = pendingTask
        /\ mainPc' = (IF started' = POOL_SIZE THEN "join" ELSE "start") /\ started < POOL_SIZE
    BY <1>1, <1>6 DEF StartHandler, NotStarted, MainTypes
  <2>2. Handed(t) => Handed(t)'
    BY <1>1, <2>1, SMT DEF Handed, TaskTypes
  <2>3. Handed(t)' /\ ~Handed(t) => t = started
    BY <1>1, <2>1, SMT DEF Handed, TaskTypes
  <2>4. ASSUME t = started
        PROVE  t \in Handlers /\ Owns(t)' /\ pc'[t] = "barrier" /\ currentTask'[t] = t
    <3>1. t \in Handlers /\ pc'[t] = "barrier"
      BY <1>6, <2>4, RunTaskTarget DEF StartHandler, WaitsForTask
    <3>2. RunTask(t, t)
      BY <1>6, <2>4 DEF StartHandler
    <3> QED
      BY <1>2, <3>1, <3>2
  <2> QED
    BY <2>2, <2>3, <2>4
<1>7. ASSUME NEW n \in Handlers, RunTask(n, pendingTask), pc'[n] = "barrier",
             pendingTask' = pendingTask + 1, UNCHANGED <<mainPc, started>>
      PROVE  /\ Handed(t) => Handed(t)'
             /\ Handed(t)' /\ ~Handed(t) =>
                  Owns(n)' /\ pc'[n] = "barrier" /\ currentTask'[n] = t
  <2>1. Handed(t) => Handed(t)'
    BY <1>1, <1>7, SMT DEF Handed, TaskTypes
  <2>2. Handed(t)' /\ ~Handed(t) => t = pendingTask
    BY <1>1, <1>7, SMT DEF Handed, TaskTypes
  <2> QED
    BY <1>2, <1>7, <2>1, <2>2
<1>8. ASSUME NEW h \in Handlers, DispatchParked(h)
      PROVE  \E n \in Handlers : RunTask(n, pendingTask) /\ pc'[n] = "barrier"
                /\ pendingTask' = pendingTask + 1 /\ UNCHANGED <<mainPc, started>>
  BY <1>8, RunTaskTarget DEF DispatchParked, MoreToDispatch, WaitsForTask, mainVars
<1>9. ASSUME NEW h \in Handlers, TakeTask(h)
      PROVE  RunTask(h, pendingTask) /\ pc'[h] = "barrier"
                /\ pendingTask' = pendingTask + 1 /\ UNCHANGED <<mainPc, started>>
  BY <1>1, <1>9 DEF TakeTask, Goto, HandlerTypes, mainVars
<1>10. CASE Finish
  <2>1. mainPc = "join" /\ mainPc' = "done" /\ UNCHANGED <<pendingTask, started>>
    BY <1>10 DEF Finish
  <2> QED
    BY <2>1 DEF Handed
<1> QED
  BY <1>1, <1>3, <1>4, <1>5, <1>6, <1>7, <1>8, <1>9, <1>10, Steps DEF IdleStep, PrivateStep,
     ReceiveTask, Park, StopParked, mainVars

-----------------------------------------------------------------------------
\* Every task that is handed out is processed once.

\* A task that is handed out is owned by a handler until it is in the output.
Tracked ==
  \A t \in Chunks : Handed(t) =>
    output[t] # NoOutput \/ \E h \in Handlers : Owns(h) /\ currentTask[h] = t /\ pc[h] # "count"
NotHanded == \A t \in Chunks : ~Handed(t) => output[t] = NoOutput

\* The owner of a task writes it once, just before it counts it.
Unfinished ==
  \A h \in Handlers :
    /\ Owns(h) /\ pc[h] # "count" /\ currentTask[h] \in Chunks => output[currentTask[h]] = NoOutput
    /\ pc[h] = "count" => output[currentTask[h]] # NoOutput

OwnedNatural == \A h \in Handlers : Owns(h) => currentTask[h] \in Nat
OutputLoaded == \A t \in Chunks : output[t] # NoOutput => tasks[t] # NoTask

\* A handler ends, or is told to, when no task is left.
Ending == {"lockPool", "drain", "exited"}
NoneLeft ==
  \A h \in Handlers : pc[h] \in Ending \/ (~threadBarrier[h] /\ currentTask[h] < 0)
                        => pendingTask >= chunkCount
AllStarted == mainPc \in {"join", "done"} => started = POOL_SIZE

\* An encryption writes a chunk with a salt that was set.
Salted ==
  op = "E" =>
    /\ \A h \in Handlers : pc[h] # "decrypt" /\ (pc[h] = "encrypt" => salts[currentTask[h]] # NoSalt)
    /\ \A t \in Chunks : output[t] # NoOutput => salts[t] # NoSalt

DoneInv == /\ BeforeStart /\ OwnedNatural /\ Tracked /\ NotHanded /\ Unfinished /\ OutputLoaded
           /\ NoneLeft /\ AllStarted /\ Salted /\ CompleteWhenDone

\* What the step that writes a chunk does.
LEMMA Writes ==
  ASSUME TypeOK, NEW h \in Handlers, Wrote(h)
  PROVE  /\ pc[h] \in {"encrypt", "decrypt"} /\ pc'[h] = "count" /\ Owns(h)
         /\ currentTask[h] \in Chunks /\ Task(h) \in TaskContext /\ Page(h) \in Nat
         /\ output' = [output EXCEPT ![currentTask[h]] =
                         [chunk |-> ChunkRead(h), salt |-> salts[currentTask[h]]]]
         /\ output'[currentTask[h]] # NoOutput
         /\ UNCHANGED <<currentTask, threadBarrier, tasks, loadedTasks, pendingTask, i_pages, salts,
                        isReadyLocked, mainPc, started, hash, remainingPageChunks, tasksRW, filled>>
<1> USE ConstantsAssumption
<1>1. pc[h] \in {"encrypt", "decrypt"} /\ WriteOutput(h)
  BY DEF Wrote, EncryptChunk, DecryptChunk, At
<1>2. pc'[h] = "count" /\ Owns(h)
  BY <1>1 DEF WriteOutput, Goto, TypeOK, HandlerTypes, Owns, Processing
<1>3. currentTask[h] \in Chunks /\ Task(h) \in TaskContext
  BY <1>1 DEF WriteOutput, Readable, Task, TypeOK, TaskTypes
<1>4. Page(h) \in Nat /\ Task(h).localChunk \in Nat
  <2>1. Page(h) \in Int /\ Task(h).localChunk \in 0 .. PAGE_SIZE - 1
    BY <1>3 DEF Page, TaskContext, TypeOK, PageTypes
  <2>2. Page(h) >= 0
    BY <1>1 DEF WriteOutput, Readable
  <2> QED
    BY <2>1, <2>2, SMT
<1>5. ChunkRead(h) \in Nat
  BY <1>4, SMT DEF ChunkRead
<1>6. output' = [output EXCEPT ![currentTask[h]] =
                   [chunk |-> ChunkRead(h), salt |-> salts[currentTask[h]]]]
  BY <1>1 DEF WriteOutput
<1>7. output'[currentTask[h]].chunk = ChunkRead(h)
  BY <1>3, <1>6 DEF TypeOK, DataTypes
<1>8. ChunkRead(h) # -1
  BY <1>5, SMT
<1>9. output'[currentTask[h]] # NoOutput
  BY <1>7, <1>8 DEF NoOutput
<1>10. UNCHANGED <<currentTask, threadBarrier, tasks, loadedTasks, pendingTask, i_pages, salts,
                   isReadyLocked, mainPc, started, hash, remainingPageChunks, tasksRW, filled>>
  BY <1>1 DEF WriteOutput, taskVars, pageVars, mainVars, lockVars
<1> QED
  BY <1>1, <1>2, <1>3, <1>4, <1>6, <1>9, <1>10

LEMMA OutputStep ==
  ASSUME TypeOK, [Next]_vars, NEW t \in Chunks, output'[t] # output[t]
  PROVE  \E h \in Handlers : Wrote(h) /\ currentTask[h] = t
<1>1. PICK h \in Handlers : Wrote(h) \/ SetSalt(h)
  BY DataFrame DEF dataVars, Wrote
<1>2. Wrote(h)
  BY <1>1 DEF SetSalt
<1>3. output' = [output EXCEPT ![currentTask[h]] =
                   [chunk |-> ChunkRead(h), salt |-> salts[currentTask[h]]]]
  BY <1>2, Writes
<1>4. currentTask[h] = t
  BY <1>3 DEF TypeOK, DataTypes
<1> QED
  BY <1>2, <1>4

LEMMA OutputKept ==
  ASSUME TypeOK, [Next]_vars, NEW t \in Chunks, output[t] # NoOutput
  PROVE  output'[t] # NoOutput
  BY OutputStep, Writes

LEMMA OwnedNaturalStep ==
  ASSUME IInv, DoneInv, [Next]_vars
  PROVE  OwnedNatural'
<1>1. ASSUME NEW g \in Handlers, Owns(g)'
      PROVE  currentTask'[g] \in Nat
  <2>1. CASE Owns(g) /\ currentTask'[g] = currentTask[g]
    BY <2>1 DEF DoneInv, OwnedNatural
  <2>2. CASE NewOwner(g)
    BY <2>2, NewTask
  <2> QED
    BY <1>1, <2>1, <2>2, OwnerStep DEF NewOwner
<1> QED
  BY <1>1 DEF OwnedNatural

LEMMA TrackedStep ==
  ASSUME IInv, DoneInv, [Next]_vars
  PROVE  Tracked'
<1> SUFFICES ASSUME NEW t \in Chunks, Handed(t)'
             PROVE  \/ output'[t] # NoOutput
                    \/ \E h \in Handlers : Owns(h)' /\ currentTask'[h] = t /\ pc'[h] # "count"
  BY DEF Tracked
<1>1. TypeOK /\ BeforeStart /\ Tracked
  BY DEF IInv, DoneInv
<1>2. CASE output[t] # NoOutput
  BY <1>1, <1>2, OutputKept
<1>3. ASSUME NEW h \in Handlers, Owns(h), currentTask[h] = t, pc[h] # "count"
      PROVE  \/ output'[t] # NoOutput
             \/ Owns(h)' /\ currentTask'[h] = t /\ pc'[h] # "count"
  <2>1. ~CountChunk(h)
    BY <1>3 DEF CountChunk, At
  <2>2. Owns(h)' /\ currentTask'[h] = t
    BY <1>3, <2>1, OwnerKept
  <2>3. pc'[h] = "count" => Wrote(h)
    BY <1>1, <1>3, Moves DEF Move, ProcessMove, LoadMove, ChooseMove
  <2> QED
    BY <1>1, <1>3, <2>2, <2>3, Writes
<1>4. Handed(t) => output[t] # NoOutput \/ \E h \in Handlers : Owns(h) /\ currentTask[h] = t /\ pc[h] # "count"
  BY <1>1 DEF Tracked
<1>5. CASE Handed(t)
  BY <1>2, <1>3, <1>4, <1>5
<1>6. CASE ~Handed(t)
  BY <1>1, <1>6, HandedStep
<1> QED
  BY <1>5, <1>6

LEMMA NotHandedStep ==
  ASSUME IInv, DoneInv, [Next]_vars
  PROVE  NotHanded'
<1> SUFFICES ASSUME NEW t \in Chunks, ~Handed(t)'
             PROVE  output'[t] = NoOutput
  BY DEF NotHanded
<1>1. TypeOK /\ BeforeStart /\ NotHanded
  BY DEF IInv, DoneInv
<1>2. ~Handed(t) /\ output[t] = NoOutput
  BY <1>1, HandedStep DEF NotHanded
<1>3. ASSUME NEW h \in Handlers, Wrote(h), currentTask[h] = t
      PROVE  FALSE
  BY <1>1, <1>2, <1>3, Writes, OwnerHanded
<1> QED
  BY <1>1, <1>2, <1>3, OutputStep

LEMMA UnfinishedStep ==
  ASSUME IInv, DoneInv, [Next]_vars
  PROVE  Unfinished'
<1> SUFFICES ASSUME NEW g \in Handlers
             PROVE  /\ Owns(g)' /\ pc'[g] # "count" /\ currentTask'[g] \in Chunks
                         => output'[currentTask'[g]] = NoOutput
                    /\ pc'[g] = "count" => output'[currentTask'[g]] # NoOutput
  BY DEF Unfinished
<1>1. TypeOK /\ BeforeStart /\ NotHanded /\ Unfinished /\ ExclusiveTask /\ TaskLoaded
  BY DEF IInv, DoneInv, PoolInv
<1>2. ASSUME Owns(g)', pc'[g] # "count", currentTask'[g] \in Chunks
      PROVE  output'[currentTask'[g]] = NoOutput
  <2>1. CASE Owns(g) /\ currentTask'[g] = currentTask[g]
    <3>1. pc[g] # "count"
      <4>1. ASSUME pc[g] = "count"
            PROVE  pc'[g] \in {"morePages", "next"}
        BY <1>1, <1>2, <4>1, Moves DEF Move, ProcessMove, LoadMove, ChooseMove
      <4> QED
        BY <1>2, <4>1 DEF Owns, Processing
    <3>2. output[currentTask[g]] = NoOutput
      BY <1>1, <1>2, <2>1, <3>1 DEF Unfinished
    <3>3. ASSUME NEW h \in Handlers, Wrote(h), currentTask[h] = currentTask[g]
          PROVE  FALSE
      <4>1. Owns(h) /\ pc'[h] = "count"
        BY <1>1, <3>3, Writes
      <4> QED
        BY <1>1, <1>2, <2>1, <3>3, <4>1 DEF ExclusiveTask
    <3> QED
      BY <1>1, <1>2, <2>1, <3>2, <3>3, OutputStep
  <2>2. CASE NewOwner(g)
    <3>1. ~Handed(currentTask'[g])
      BY <2>2, NewTask
    <3>2. output[currentTask'[g]] = NoOutput
      BY <1>1, <1>2, <3>1 DEF NotHanded
    <3>3. ASSUME NEW h \in Handlers, Wrote(h), currentTask[h] = currentTask'[g]
          PROVE  FALSE
      BY <1>1, <3>1, <3>3, Writes, OwnerHanded
    <3> QED
      BY <1>1, <1>2, <3>2, <3>3, OutputStep
  <2> QED
    BY <1>2, <2>1, <2>2, OwnerStep DEF NewOwner
<1>3. ASSUME pc'[g] = "count"
      PROVE  output'[currentTask'[g]] # NoOutput
  <2>1. CASE Wrote(g)
    BY <1>1, <2>1, Writes
  <2>2. CASE pc[g] = "count"
    <3>1. currentTask[g] \in Chunks /\ output[currentTask[g]] # NoOutput
      BY <1>1, <2>2 DEF Unfinished, TaskLoaded, ReadTask
    <3>2. currentTask'[g] = currentTask[g]
      BY <2>2, TaskKept DEF WaitsForTask
    <3> QED
      BY <1>1, <3>1, <3>2, OutputKept
  <2> QED
    BY <1>1, <1>3, <2>1, <2>2, Moves DEF Move, ProcessMove, LoadMove, ChooseMove
<1> QED
  BY <1>2, <1>3

\* What adding a task does to the table.
LEMMA AddsTask ==
  ASSUME IInv, NEW h \in Handlers, AddTask(h)
  PROVE  /\ pc[h] = "addTask" /\ loadedTasks \in Chunks /\ loadedTasks' = loadedTasks + 1
         /\ filled[h] \in 0 .. PAGE_SIZE - 1 /\ filled'[h] = filled[h] + 1
         /\ currentTask[h] \in Chunks /\ Task(h) \in TaskContext
         /\ tasks'[loadedTasks] = [pageSlot |-> Task(h).pageSlot, localChunk |-> filled[h],
                                   counter |-> loadedTasks - filled[h]]
         /\ tasks'[loadedTasks] # NoTask
         /\ \A t \in Chunks : t # loadedTasks => tasks'[t] = tasks[t]
         /\ UNCHANGED <<currentTask, threadBarrier, pendingTask, i_pages, pagesProgress,
                        output, salts, isReadyLocked, mainPc, started, hash>>
<1> USE ConstantsAssumption DEF IInv, TypeOK
<1>1. pc[h] = "addTask" /\ ~TableFull
  BY DEF AddTask, At
<1>2. loadedTasks \in Chunks
  BY <1>1, SMT DEF TableFull, TaskTypes, Chunks
<1>3. filled[h] \in 0 .. PAGE_SIZE - 1
  BY <1>1, SMT DEF FillBound, HandlerTypes
<1>4. filled'[h] = filled[h] + 1
  BY DEF AddTask, HandlerTypes
<1>5. currentTask[h] \in Chunks /\ Task(h) \in TaskContext
  BY <1>1 DEF TaskLoaded, ReadTask, Task
<1>6. /\ tasks'[loadedTasks] = [pageSlot |-> Task(h).pageSlot, localChunk |-> filled[h],
                                counter |-> loadedTasks - filled[h]]
      /\ \A t \in Chunks : t # loadedTasks => tasks'[t] = tasks[t]
      /\ loadedTasks' = loadedTasks + 1
  BY <1>2 DEF AddTask, TaskTypes
<1>7. tasks'[loadedTasks] # NoTask
  <2>1. tasks'[loadedTasks].localChunk = filled[h] /\ filled[h] # -1
    BY <1>3, <1>6, SMT
  <2> QED
    BY <2>1 DEF NoTask
<1>8. UNCHANGED <<currentTask, threadBarrier, pendingTask, i_pages, pagesProgress,
                  output, salts, isReadyLocked, mainPc, started, hash>>
  BY DEF AddTask, pageVars, dataVars, mainVars
<1> QED
  BY <1>1, <1>2, <1>3, <1>4, <1>5, <1>6, <1>7, <1>8

LEMMA OutputLoadedStep ==
  ASSUME IInv, DoneInv, [Next]_vars
  PROVE  OutputLoaded'
<1> SUFFICES ASSUME NEW t \in Chunks, output'[t] # NoOutput
             PROVE  tasks'[t] # NoTask
  BY DEF OutputLoaded
<1>1. TypeOK /\ OutputLoaded
  BY DEF IInv, DoneInv
<1>2. CASE LoadInitialPages
  <2>1. pendingTask = 0 /\ output' = output
    BY <1>2 DEF LoadInitialPages, DoneInv, BeforeStart, dataVars
  <2>2. ~Handed(t)
    BY <2>1, ConstantsAssumption, SMT DEF Handed, Chunks
  <2> QED
    BY <2>1, <2>2 DEF DoneInv, NotHanded
<1>3. tasks[t] # NoTask
  <2>1. CASE output[t] # NoOutput
    BY <1>1, <2>1 DEF OutputLoaded
  <2>2. ASSUME NEW h \in Handlers, Wrote(h), currentTask[h] = t
        PROVE  tasks[t] # NoTask
    BY <2>2 DEF Wrote, EncryptChunk, DecryptChunk, WriteOutput, Readable, Task
  <2> QED
    BY <1>1, <2>1, <2>2, OutputStep
<1>4. ASSUME NEW h \in Handlers, AddTask(h)
      PROVE  tasks'[t] # NoTask
  BY <1>3, <1>4, AddsTask
<1> QED
  BY <1>2, <1>3, <1>4, TaskFrame DEF CountChunk, DispatchParked, TakeTask, taskVars

\* pendingTask never goes back.
LEMMA PendingGrows ==
  ASSUME IInv, BeforeStart, [Next]_vars
  PROVE  pendingTask' >= pendingTask
<1> USE ConstantsAssumption
<1>1. pendingTask \in Nat
  BY DEF IInv, TypeOK, TaskTypes
<1>2. CASE UNCHANGED pendingTask
  BY <1>1, <1>2, SMT
<1>3. CASE LoadInitialPages
  <2>1. pendingTask = 0 /\ pendingTask' = POOL_SIZE
    BY <1>3 DEF LoadInitialPages, BeforeStart
  <2> QED
    BY <2>1, SMT
<1>4. CASE pendingTask' = pendingTask + 1
  BY <1>1, <1>4, SMT
<1> QED
  BY <1>2, <1>3, <1>4, TaskFrame DEF CountChunk, AddTask, DispatchParked, TakeTask

LEMMA NoneLeftStep ==
  ASSUME IInv, DoneInv, [Next]_vars
  PROVE  NoneLeft'
<1> USE ConstantsAssumption
<1>1. TypeOK /\ HandlerTypes /\ TaskTypes /\ MainTypes /\ NoneLeft /\ BeforeStart
  BY DEF IInv, TypeOK, DoneInv
<1>2. pendingTask >= chunkCount => pendingTask' >= chunkCount
  <2>1. pendingTask' >= pendingTask /\ pendingTask \in Nat /\ pendingTask' \in Nat
    BY <1>1, PendingGrows, TaskStep DEF TaskTypes
  <2> QED
    BY <2>1, SMT
<1>3. ASSUME NEW g \in Handlers, pc'[g] \in Ending
      PROVE  pendingTask >= chunkCount
  <2>1. CASE pc[g] \in Ending
    BY <1>1, <2>1 DEF NoneLeft
  <2>2. CASE NoTaskLeft(g)
    BY <2>2 DEF NoTaskLeft
  <2>3. CASE ReceiveTask(g) /\ pc'[g] = "exited"
    <3>1. ~threadBarrier[g] /\ currentTask[g] < 0
      BY <1>1, <2>3 DEF ReceiveTask, Goto, HandlerTypes
    <3> QED
      BY <1>1, <3>1 DEF NoneLeft
  <2> QED
    BY <1>1, <1>3, <2>1, <2>2, <2>3, Moves DEF Ending, Move, ProcessMove, LoadMove, ChooseMove
<1>4. ASSUME NEW g \in Handlers, ~threadBarrier'[g], currentTask'[g] < 0
      PROVE  pendingTask >= chunkCount
  <2>1. CASE threadBarrier'[g] = threadBarrier[g] /\ currentTask'[g] = currentTask[g]
    BY <1>1, <1>4, <2>1 DEF NoneLeft
  <2>2. ASSUME NEW n \in Handlers, NEW k \in Nat, RunTask(n, k)
        PROVE  threadBarrier'[g] = threadBarrier[g] /\ currentTask'[g] = currentTask[g]
    <3>1. n # g
      <4>1. ASSUME n = g
            PROVE  currentTask'[g] = k
        BY <1>1, <2>2, <4>1 DEF RunTask, HandlerTypes
      <4>2. ~ k < 0
        BY SMT
      <4> QED
        BY <1>4, <4>1, <4>2
    <3> QED
      BY <1>1, <2>2, <3>1 DEF RunTask, HandlerTypes
  <2>3. CASE StartHandler
    BY <1>1, <2>1, <2>2, <2>3, RunTaskTarget DEF StartHandler, MainTypes
  <2>4. ASSUME NEW h \in Handlers, DispatchParked(h)
        PROVE  pendingTask >= chunkCount
    BY <1>1, <2>1, <2>2, <2>4, RunTaskTarget DEF DispatchParked, MoreToDispatch, TaskTypes
  <2>5. ASSUME NEW h \in Handlers, TakeTask(h)
        PROVE  pendingTask >= chunkCount
    BY <1>1, <2>1, <2>2, <2>5 DEF TakeTask, TaskTypes
  <2>6. ASSUME NEW h \in Handlers, StopParked(h)
        PROVE  pendingTask >= chunkCount
    BY <1>1, <2>6 DEF StopParked, At, NoneLeft, Ending
  <2>7. ASSUME NEW h \in Handlers, ReceiveTask(h)
        PROVE  threadBarrier'[g] = threadBarrier[g] /\ currentTask'[g] = currentTask[g]
    BY <1>1, <1>4, <2>7 DEF ReceiveTask, HandlerTypes
  <2> QED
    BY <1>1, <2>1, <2>3, <2>4, <2>5, <2>6, <2>7, Steps DEF IdleStep, PrivateStep,
       LoadInitialPages, MapInitialPageFails, Finish, Park, handlerVars
<1> QED
  BY <1>2, <1>3, <1>4 DEF NoneLeft

\* What setting a salt does to the salts index.
LEMMA SetsSalt ==
  ASSUME IInv, NEW h \in Handlers, SetSalt(h)
  PROVE  /\ pc[h] = "salt" /\ Owns(h) /\ IsReady(currentTask[h] - 1)
         /\ currentTask[h] \in Chunks /\ Task(h) \in TaskContext /\ hash[h] \in Int
         /\ PreviousSalt(currentTask[h] - 1) \in Seq(Int)
         /\ salts' = [salts EXCEPT ![currentTask[h]] =
                        Append(PreviousSalt(currentTask[h] - 1), hash[h])]
         /\ salts'[currentTask[h]] = Append(PreviousSalt(currentTask[h] - 1), hash[h])
         /\ salts'[currentTask[h]] # NoSalt
         /\ UNCHANGED <<currentTask, threadBarrier, hash, tasks, pendingTask, i_pages, output,
                        mainPc, started>>
<1>1. pc[h] = "salt" /\ IsReady(currentTask[h] - 1)
  BY DEF SetSalt, At
<1>2. currentTask[h] \in Chunks /\ hash[h] \in Int /\ Owns(h) /\ Task(h) \in TaskContext
  BY <1>1 DEF IInv, TaskLoaded, ReadTask, TypeOK, HandlerTypes, Owns, Processing, Task
<1>3. PreviousSalt(currentTask[h] - 1) \in Seq(Int)
  <2>1. IV \in Seq(Int)
    BY DEF IV
  <2>2. ~ currentTask[h] - 1 < 0 => currentTask[h] - 1 \in Chunks
    BY <1>2, ConstantsAssumption, SMT DEF Chunks
  <2> QED
    BY <2>1, <2>2 DEF PreviousSalt, IInv, TypeOK, DataTypes
<1>4. salts' = [salts EXCEPT ![currentTask[h]] = Append(PreviousSalt(currentTask[h] - 1), hash[h])]
  BY DEF SetSalt, Combine
<1>5. salts'[currentTask[h]] = Append(PreviousSalt(currentTask[h] - 1), hash[h])
  BY <1>2, <1>4 DEF IInv, TypeOK, DataTypes
<1>6. Append(PreviousSalt(currentTask[h] - 1), hash[h]) # <<>>
  BY <1>2, <1>3
<1>7. UNCHANGED <<currentTask, threadBarrier, hash, tasks, pendingTask, i_pages, output,
                  mainPc, started>>
  BY DEF SetSalt, taskVars, pageVars, mainVars
<1> QED
  BY <1>1, <1>2, <1>3, <1>4, <1>5, <1>6, <1>7 DEF NoSalt

\* A salt that is set stays set.
LEMMA SaltKept ==
  ASSUME IInv, [Next]_vars, NEW t \in Chunks, salts[t] # NoSalt
  PROVE  salts'[t] # NoSalt
<1>1. CASE UNCHANGED salts
  BY <1>1
<1>2. ASSUME NEW h \in Handlers, SetSalt(h)
      PROVE  salts'[t] # NoSalt
  BY <1>2, SetsSalt DEF IInv, TypeOK, DataTypes
<1> QED
  BY <1>1, <1>2, DataFrame DEF dataVars, EncryptChunk, DecryptChunk, WriteOutput

LEMMA SaltedStep ==
  ASSUME IInv, DoneInv, [Next]_vars
  PROVE  Salted'
<1> SUFFICES ASSUME op = "E"
             PROVE  /\ \A h \in Handlers : pc'[h] # "decrypt"
                         /\ (pc'[h] = "encrypt" => salts'[currentTask'[h]] # NoSalt)
                    /\ \A t \in Chunks : output'[t] # NoOutput => salts'[t] # NoSalt
  BY DEF Salted
<1>1. TypeOK /\ Salted /\ TaskLoaded
  BY DEF IInv, DoneInv
<1>2. ASSUME NEW g \in Handlers, pc'[g] = "decrypt"
      PROVE  FALSE
  <2>1. ASSUME ReceiveTask(g)
        PROVE  pc'[g] # "decrypt"
    BY <1>1, <2>1 DEF ReceiveTask, Goto, TypeOK, HandlerTypes
  <2> QED
    BY <1>1, <1>2, <2>1, Moves DEF Salted, Move, ProcessMove, LoadMove, ChooseMove
<1>3. ASSUME NEW g \in Handlers, pc'[g] = "encrypt"
      PROVE  salts'[currentTask'[g]] # NoSalt
  <2>1. CASE pc[g] = "encrypt"
    <3>1. currentTask[g] \in Chunks /\ salts[currentTask[g]] # NoSalt
      BY <1>1, <2>1 DEF TaskLoaded, ReadTask, Salted
    <3>2. currentTask'[g] = currentTask[g]
      BY <2>1, TaskKept DEF WaitsForTask
    <3> QED
      BY <3>1, <3>2, SaltKept
  <2>2. CASE SetSalt(g)
    BY <2>2, SetsSalt
  <2> QED
    BY <1>1, <1>3, <2>1, <2>2, Moves DEF Move, ProcessMove, LoadMove, ChooseMove
<1>4. ASSUME NEW t \in Chunks, output'[t] # NoOutput
      PROVE  salts'[t] # NoSalt
  <2>1. CASE output[t] # NoOutput
    BY <1>1, <2>1, SaltKept DEF Salted
  <2>2. ASSUME NEW h \in Handlers, Wrote(h), currentTask[h] = t
        PROVE  salts'[t] # NoSalt
    <3>1. pc[h] = "encrypt" /\ salts' = salts
      BY <1>1, <2>2, Writes DEF Salted
    <3> QED
      BY <1>1, <2>2, <3>1 DEF Salted
  <2> QED
    BY <1>1, <1>4, <2>1, <2>2, OutputStep
<1> QED
  BY <1>2, <1>3, <1>4

LEMMA AllStartedStep ==
  ASSUME IInv, DoneInv, [Next]_vars
  PROVE  AllStarted'
<1>1. AllStarted
  BY DEF DoneInv
<1>2. CASE StartHandler
  <2>1. mainPc' \in {"join", "done"} => started' = POOL_SIZE
    BY <1>2, Zenon DEF StartHandler
  <2> QED
    BY <2>1 DEF AllStarted
<1>3. CASE LoadInitialPages \/ MapInitialPageFails \/ Finish
  BY <1>1, <1>3 DEF LoadInitialPages, MapInitialPageFails, Finish, AllStarted
<1>4. CASE UNCHANGED mainVars
  BY <1>1, <1>4 DEF AllStarted, mainVars
<1> QED
  BY <1>2, <1>3, <1>4, MainFrame DEF Main, BadAccess, TaskTableOverflow, Fault

LEMMA BeforeStartStep ==
  ASSUME IInv, DoneInv, [Next]_vars
  PROVE  BeforeStart'
<1> SUFFICES ASSUME mainPc' \in {"load", "exit"}
             PROVE  pendingTask' = 0 /\ loadedTasks' = 0 /\ \A h \in Handlers : WaitsForTask(h)'
  BY DEF BeforeStart
<1>1. mainPc \in {"load", "exit"} /\ ~LoadInitialPages /\ ~StartHandler
  BY MainFrame DEF Main, LoadInitialPages, MapInitialPageFails, StartHandler, Finish, BadAccess,
     TaskTableOverflow, Fault, mainVars
<1>2. pendingTask = 0 /\ loadedTasks = 0 /\ \A h \in Handlers : WaitsForTask(h)
  BY <1>1 DEF DoneInv, BeforeStart
<1>3. ASSUME NEW h \in Handlers
      PROVE  ~AddTask(h) /\ ~DispatchParked(h) /\ ~TakeTask(h) /\ ~StopParked(h)
  BY <1>2 DEF AddTask, DispatchParked, TakeTask, StopParked, At, WaitsForTask
<1>4. \A h \in Handlers : WaitsForTask(h)'
  BY <1>1, <1>2, <1>3, KeepsWaiting
<1>5. pendingTask' = 0 /\ loadedTasks' = 0
  BY <1>1, <1>2, <1>3, TaskFrame DEF CountChunk, taskVars
<1> QED
  BY <1>4, <1>5

LEMMA CompleteStep ==
  ASSUME IInv, DoneInv, [Next]_vars
  PROVE  CompleteWhenDone'
<1> SUFFICES ASSUME mainPc' = "done"
             PROVE  /\ \A t \in Chunks : output'[t] # NoOutput
                    /\ op = "E" => DOMAIN saltsFile' = Chunks
  BY DEF CompleteWhenDone
<1>1. TypeOK /\ TaskTypes /\ chunkCount \in Nat
  BY ConstantsAssumption DEF IInv, TypeOK
<1>2. CASE Finish
  <2>1. mainPc = "join" /\ started = POOL_SIZE /\ 0 \in Handlers
    BY <1>2, ConstantsAssumption, SMT DEF Finish, DoneInv, AllStarted, Handlers
  <2>2. pendingTask >= chunkCount
    BY <1>2, <2>1 DEF Finish, DoneInv, NoneLeft, Ending
  <2>3. ASSUME NEW t \in Chunks
        PROVE  output[t] # NoOutput
    <3>1. Handed(t)
      BY <1>1, <2>1, <2>2, SMT DEF Handed, Chunks, TaskTypes
    <3>2. \A h \in Handlers : ~Owns(h)
      BY <1>2 DEF Finish, Owns, Processing
    <3> QED
      BY <3>1, <3>2 DEF DoneInv, Tracked
  <2>4. output' = output /\ (op = "E" => saltsFile' = PersistedSalts)
    BY <1>2 DEF Finish, dataVars
  <2>5. op = "E" => DOMAIN PersistedSalts = Chunks
    BY <2>3 DEF PersistedSalts, DoneInv, Salted
  <2> QED
    BY <2>3, <2>4, <2>5
<1>3. CASE mainPc = "done" /\ UNCHANGED saltsFile
  BY <1>1, <1>3, OutputKept DEF DoneInv, CompleteWhenDone
<1> QED
  BY <1>2, <1>3, MainFrame DEF Main, LoadInitialPages, MapInitialPageFails, StartHandler,
     BadAccess, TaskTableOverflow, Fault, mainVars

LEMMA InitDone == Init => DoneInv
<1> SUFFICES ASSUME Init
             PROVE  DoneInv
  OBVIOUS
<1> USE ConstantsAssumption DEF Init
<1>1. \A h \in Handlers : WaitsForTask(h) /\ ~Owns(h)
  BY DEF WaitsForTask, Owns, Processing
<1>2. \A t \in Chunks : ~Handed(t)
  BY SMT DEF Handed, Chunks
<1>3. Unfinished /\ Salted /\ NotHanded /\ OutputLoaded
  BY <1>1 DEF Unfinished, Salted, NotHanded, OutputLoaded
<1>4. NoneLeft /\ AllStarted /\ CompleteWhenDone
  BY DEF NoneLeft, Ending, AllStarted, CompleteWhenDone
<1> QED
  BY <1>1, <1>2, <1>3, <1>4 DEF DoneInv, BeforeStart, OwnedNatural, Tracked

LEMMA NextDone == IInv /\ DoneInv /\ [Next]_vars => DoneInv'
  BY BeforeStartStep, OwnedNaturalStep, TrackedStep, NotHandedStep, UnfinishedStep,
     OutputLoadedStep, NoneLeftStep, AllStartedStep, SaltedStep, CompleteStep DEF DoneInv

LEMMA DoneInvariance == Spec => [](IInv /\ DoneInv)
<1>1. IInv /\ DoneInv /\ [Next]_vars => (IInv /\ DoneInv)'
  BY NextInv, NextDone
<1> QED
  BY <1>1, InitInv, InitDone, PTL DEF Spec

\* When dcbc() returns every chunk has been written and, after an encryption,
\* the salts file has an entry for each: a handler only ends when no task is
\* left to hand out, and every task that was handed out has an owner until its
\* chunk is written.
THEOREM DoneIsComplete == Spec => []CompleteWhenDone
<1>1. DoneInv => CompleteWhenDone
  BY DEF DoneInv
<1> QED
  BY <1>1, DoneInvariance, PTL

-----------------------------------------------------------------------------
\* The task table: groups of PAGE_SIZE tasks, one per page that was loaded.

\* The first task of a page names the page's counter.
Start(c) == tasks[c] # NoTask /\ tasks[c].counter = c

\* The number of tasks of the pages that are loaded completely.
Base == loadedTasks - (IF tasksRW = NoOne THEN 0 ELSE filled[tasksRW])

TablePrefix == \A t \in Chunks : tasks[t] # NoTask <=> t < loadedTasks
LoaderLocked == \A h \in Handlers : tasksRW = h <=> pc[h] = "addTask"
Groups ==
  \A t \in Chunks : tasks[t] # NoTask =>
    LET c == tasks[t].counter
    IN  /\ c <= t /\ t < c + PAGE_SIZE /\ tasks[t].localChunk = t - c
        /\ Start(c) /\ tasks[c].pageSlot = tasks[t].pageSlot
GroupsApart == \A c, d \in Chunks : Start(c) /\ Start(d) /\ c < d => c + PAGE_SIZE <= d
GroupsWhole == \A c \in Chunks : Start(c) => c + PAGE_SIZE <= Base \/ c = Base
GroupBeingFilled ==
  Base < loadedTasks => Start(Base) /\ tasks[Base].pageSlot = Task(tasksRW).pageSlot

TableInv == /\ TablePrefix /\ LoaderLocked /\ Groups /\ GroupsApart /\ GroupsWhole
            /\ GroupBeingFilled

\* While a handler fills a page, Base is the first task of that page.
LEMMA BaseOfLoader ==
  ASSUME IInv, LoaderLocked
  PROVE  /\ Base \in Int /\ Base <= loadedTasks
         /\ \A h \in Handlers : pc[h] = "addTask" =>
              /\ tasksRW = h /\ Base = loadedTasks - filled[h] /\ Base \in Chunks \cup {loadedTasks}
              /\ loadedTasks < Base + PAGE_SIZE
         /\ tasksRW = NoOne => Base = loadedTasks
         /\ Base < loadedTasks => tasksRW \in Handlers /\ pc[tasksRW] = "addTask"
<1> USE ConstantsAssumption
<1>1. loadedTasks \in 0 .. chunkCount /\ tasksRW \in Handlers \cup {NoOne}
      /\ filled \in [Handlers -> 0 .. PAGE_SIZE] /\ FillBound
  BY DEF IInv, TypeOK, TaskTypes, PoolTypes, HandlerTypes
<1>2. NoOne \notin Handlers
  BY SMT DEF NoOne, Handlers
<1>3. CASE tasksRW = NoOne
  <2>1. Base = loadedTasks
    BY <1>1, <1>3, SMT DEF Base
  <2> QED
    BY <1>1, <1>2, <1>3, <2>1, SMT DEF LoaderLocked
<1>4. ASSUME tasksRW \in Handlers
      PROVE  /\ pc[tasksRW] = "addTask" /\ Base = loadedTasks - filled[tasksRW]
             /\ Base \in Nat /\ Base <= loadedTasks /\ loadedTasks < Base + PAGE_SIZE
             /\ \A h \in Handlers : pc[h] = "addTask" => tasksRW = h
  <2>1. pc[tasksRW] = "addTask" /\ \A h \in Handlers : pc[h] = "addTask" => tasksRW = h
    BY <1>4 DEF LoaderLocked
  <2>2. Base = loadedTasks - filled[tasksRW]
    BY <1>2, <1>4 DEF Base
  <2>3. filled[tasksRW] \in Nat /\ filled[tasksRW] < PAGE_SIZE /\ filled[tasksRW] <= loadedTasks
    BY <1>1, <1>4, <2>1, SMT DEF FillBound
  <2> QED
    BY <1>1, <2>1, <2>2, <2>3, SMT
<1>5. Base \in Nat /\ Base <= loadedTasks => Base \in Chunks \cup {loadedTasks}
  BY <1>1, SMT DEF Chunks
<1> QED
  BY <1>1, <1>2, <1>3, <1>4, <1>5, SMT

\* Only three steps build the table.
LEMMA TableFrame ==
  ASSUME [Next]_vars
  PROVE  \/ UNCHANGED <<tasks, loadedTasks, tasksRW, filled>>
         \/ LoadInitialPages
         \/ \E h \in Handlers : AddTask(h) \/ LockTasks(h)
<1>1. ASSUME NEW h \in Handlers, CountChunk(h)
      PROVE  UNCHANGED <<tasks, loadedTasks, tasksRW, filled>>
  BY <1>1 DEF CountChunk, lockVars
<1>2. ASSUME NEW h \in Handlers, DispatchParked(h) \/ TakeTask(h)
      PROVE  UNCHANGED <<tasks, loadedTasks, tasksRW, filled>>
  BY <1>2 DEF DispatchParked, TakeTask, lockVars, taskVars
<1>3. ASSUME NEW h \in Handlers, LockAvailable(h) \/ LockPending(h) \/ EndDispatch(h)
                                 \/ NoTaskLeft(h) \/ LockPool(h) \/ Exit(h)
      PROVE  UNCHANGED <<tasks, loadedTasks, tasksRW, filled>>
  BY <1>3 DEF LockAvailable, LockPending, EndDispatch, NoTaskLeft, LockPool, Exit, taskVars
<1>4. UNCHANGED <<tasks, loadedTasks>> \/ LoadInitialPages
      \/ \E h \in Handlers : AddTask(h) \/ LockTasks(h)
  BY <1>1, <1>2, TaskFrame DEF taskVars
<1>5. UNCHANGED tasksRW \/ \E h \in Handlers : AddTask(h) \/ LockTasks(h)
  BY <1>3, LockFrame DEF lockVars
<1> QED
  BY <1>4, <1>5, FilledFrame

LEMMA LoaderLockedStep ==
  ASSUME IInv, LoaderLocked, [Next]_vars
  PROVE  LoaderLocked'
<1>1. TypeOK /\ HandlerTypes /\ NoOne \notin Handlers
  BY ConstantsAssumption, SMT DEF IInv, TypeOK, NoOne, Handlers
<1>2. ASSUME NEW h \in Handlers, LockTasks(h)
      PROVE  LoaderLocked'
  BY <1>1, <1>2 DEF LockTasks, Goto, HandlerTypes, LoaderLocked
<1>3. ASSUME NEW h \in Handlers, AddTask(h)
      PROVE  LoaderLocked'
  <2>1. tasksRW = h /\ pc[h] = "addTask"
    BY <1>3 DEF AddTask, At, LoaderLocked
  <2>2. CASE UNCHANGED <<tasksRW, pc>>
    BY <2>2 DEF LoaderLocked
  <2>3. CASE tasksRW' = NoOne /\ Goto(h, "lockAvailable")
    BY <1>1, <2>1, <2>3 DEF Goto, HandlerTypes, LoaderLocked
  <2> QED
    BY <1>3, <2>2, <2>3, Zenon DEF AddTask
<1>4. ASSUME ~\E h \in Handlers : LockTasks(h) \/ AddTask(h)
      PROVE  LoaderLocked'
  <2>1. UNCHANGED tasksRW
    BY <1>4, LockFrame DEF lockVars, LockAvailable, LockPending, EndDispatch, NoTaskLeft,
       LockPool, Exit
  <2>2. \A g \in Handlers : pc'[g] = "addTask" <=> pc[g] = "addTask"
    BY <1>1, <1>4, Moves DEF Move, ProcessMove, LoadMove, ChooseMove
  <2> QED
    BY <2>1, <2>2 DEF LoaderLocked
<1> QED
  BY <1>2, <1>3, <1>4

\* Base moves when the first pages are loaded and when a page is full.
LEMMA BaseStep ==
  ASSUME IInv, BeforeStart, LoaderLocked, [Next]_vars
  PROVE  /\ LoadInitialPages => Base' = effectivePages * PAGE_SIZE /\ Base' = loadedTasks'
         /\ \A h \in Handlers : AddTask(h) =>
              \/ Base' = Base /\ tasksRW' = h /\ filled[h] + 1 < PAGE_SIZE /\ pc' = pc
              \/ /\ Base' = Base + PAGE_SIZE /\ Base' = loadedTasks'
                 /\ tasksRW' = NoOne /\ pc'[h] = "lockAvailable"
         /\ \A h \in Handlers : LockTasks(h) => Base' = Base /\ Base' = loadedTasks' /\ tasksRW' = h
         /\ LoadInitialPages \/ (\E h \in Handlers : AddTask(h)) \/ Base' = Base
<1> USE ConstantsAssumption
<1>1. TypeOK /\ HandlerTypes /\ TaskTypes /\ PoolTypes
  BY DEF IInv, TypeOK
<1>2. NoOne \notin Handlers
  BY SMT DEF NoOne, Handlers
<1>3. ASSUME LoadInitialPages
      PROVE  Base' = effectivePages * PAGE_SIZE /\ Base' = loadedTasks'
  <2>1. \A h \in Handlers : pc[h] # "addTask"
    BY <1>3 DEF LoadInitialPages, BeforeStart, WaitsForTask
  <2>2. tasksRW = NoOne
    BY <1>1, <2>1 DEF LoaderLocked, PoolTypes
  <2>3. tasksRW' = NoOne /\ loadedTasks' = effectivePages * PAGE_SIZE
    BY <1>3, <2>2 DEF LoadInitialPages, lockVars
  <2>4. effectivePages * PAGE_SIZE \in Int
    BY EffectivePages, SMT
  <2> QED
    BY <2>3, <2>4, SMT DEF Base
<1>4. ASSUME NEW h \in Handlers, AddTask(h)
      PROVE  \/ Base' = Base /\ tasksRW' = h /\ filled[h] + 1 < PAGE_SIZE /\ pc' = pc
             \/ /\ Base' = Base + PAGE_SIZE /\ Base' = loadedTasks'
                /\ tasksRW' = NoOne /\ pc'[h] = "lockAvailable"
  <2>1. /\ loadedTasks \in Nat /\ loadedTasks' = loadedTasks + 1
        /\ filled[h] \in 0 .. PAGE_SIZE - 1 /\ filled'[h] = filled[h] + 1 /\ pc[h] = "addTask"
    <3>1. loadedTasks \in Nat
      BY <1>1, SMT DEF TaskTypes
    <3> QED
      BY <1>4, <3>1, AddsTask
  <2>2. tasksRW = h /\ Base = loadedTasks - filled[h]
    BY <2>1, BaseOfLoader
  <2>3. CASE filled'[h] = PAGE_SIZE /\ tasksRW' = NoOne /\ Goto(h, "lockAvailable")
    <3>1. Base' = loadedTasks' - 0
      BY <2>3 DEF Base
    <3>2. pc'[h] = "lockAvailable"
      BY <1>1, <2>3 DEF Goto, HandlerTypes
    <3>3. Base' = Base + PAGE_SIZE /\ Base' = loadedTasks'
      BY <2>1, <2>2, <2>3, <3>1, SMT
    <3> QED
      BY <2>3, <3>2, <3>3
  <2>4. CASE filled'[h] # PAGE_SIZE /\ UNCHANGED <<tasksRW, pc>>
    <3>1. Base' = loadedTasks' - filled'[h]
      BY <1>2, <2>2, <2>4 DEF Base
    <3>2. Base' = Base /\ filled[h] + 1 < PAGE_SIZE
      BY <2>1, <2>2, <2>4, <3>1, SMT
    <3> QED
      BY <2>2, <2>4, <3>2
  <2> QED
    BY <1>4, <2>3, <2>4, Zenon DEF AddTask
<1>5. ASSUME NEW h \in Handlers, LockTasks(h)
      PROVE  Base' = Base /\ Base' = loadedTasks' /\ tasksRW' = h
  <2>1. tasksRW = NoOne /\ tasksRW' = h /\ loadedTasks' = loadedTasks /\ filled'[h] = 0
    BY <1>1, <1>5 DEF LockTasks, HandlerTypes, taskVars
  <2>2. Base = loadedTasks - 0 /\ Base' = loadedTasks - 0
    BY <1>2, <2>1 DEF Base
  <2> QED
    BY <1>1, <2>1, <2>2, SMT DEF TaskTypes
<1>6. UNCHANGED <<tasks, loadedTasks, tasksRW, filled>> => Base' = Base
  BY DEF Base
<1> QED
  BY <1>3, <1>4, <1>5, <1>6, TableFrame

\* A loaded task never changes.
LEMMA LoadedKept ==
  ASSUME IInv, BeforeStart, TablePrefix, [Next]_vars, NEW t \in Chunks, tasks[t] # NoTask
  PROVE  tasks'[t] = tasks[t] /\ ~LoadInitialPages
<1>1. t < loadedTasks /\ t \in Nat /\ loadedTasks \in Nat
  BY ConstantsAssumption, SMT DEF TablePrefix, IInv, TypeOK, TaskTypes, Chunks
<1>2. ~LoadInitialPages
  <2>1. LoadInitialPages => loadedTasks = 0
    BY DEF LoadInitialPages, BeforeStart
  <2> QED
    BY <1>1, <2>1, SMT
<1>3. t # loadedTasks
  BY <1>1, SMT
<1>4. \A h \in Handlers : LockTasks(h) => tasks' = tasks
  BY DEF LockTasks, taskVars
<1> QED
  BY <1>2, <1>3, <1>4, AddsTask, TableFrame

\* The first pages, as dcbc() loads them.
LEMMA MultipleOf ==
  ASSUME NEW t \in Nat, NEW d \in Nat \ {0}
  PROVE  /\ t - (t % d) = d * (t \div d)
         /\ t - (t % d) \in Nat /\ t - (t % d) <= t /\ t < t - (t % d) + d
         /\ t % d = t - (t - (t % d))
<1>1. t % d \in 0 .. d - 1 /\ t \div d \in Nat
  BY Division
<1>2. t = d * (t \div d) + (t % d)
  BY SMT
<1>3. d * (t \div d) \in Nat
  BY <1>1, SMT
<1> QED
  BY <1>1, <1>2, <1>3, SMT

LEMMA MultipleExact ==
  ASSUME NEW q \in Nat, NEW d \in Nat \ {0}
  PROVE  (d * q) % d = 0 /\ (d * q) \div d = q
  BY SMT

LEMMA MultiplesApart ==
  ASSUME NEW q \in Nat, NEW r \in Nat, NEW d \in Nat \ {0}, d * q < d * r
  PROVE  d * q + d <= d * r /\ q < r
<1>1. q < r
  BY SMT
<1>2. q + 1 <= r
  BY <1>1, SMT
<1>3. d * (q + 1) <= d * r
  BY <1>2, SMT
<1>4. d * (q + 1) = d * q + d
  BY SMT
<1> QED
  BY <1>1, <1>3, <1>4

\* Loading the first pages builds whole groups.
LEMMA FirstTable ==
  ASSUME IInv, LoadInitialPages, NEW t \in Chunks, tasks'[t] # NoTask
  PROVE  /\ t < effectivePages * PAGE_SIZE
         /\ tasks'[t] = [pageSlot |-> t \div PAGE_SIZE, localChunk |-> t % PAGE_SIZE,
                         counter |-> t - (t % PAGE_SIZE)]
         /\ t - (t % PAGE_SIZE) \in Chunks /\ t - (t % PAGE_SIZE) <= t
         /\ t < t - (t % PAGE_SIZE) + PAGE_SIZE
         /\ t - (t % PAGE_SIZE) = PAGE_SIZE * (t \div PAGE_SIZE)
         /\ t - (t % PAGE_SIZE) + PAGE_SIZE <= effectivePages * PAGE_SIZE
<1> USE ConstantsAssumption
<1>1. t \in Nat /\ t < chunkCount
  BY SMT DEF Chunks
<1>2. /\ t < effectivePages * PAGE_SIZE
      /\ tasks'[t] = [pageSlot |-> t \div PAGE_SIZE, localChunk |-> t % PAGE_SIZE,
                      counter |-> t - (t % PAGE_SIZE)]
  BY DEF LoadInitialPages
<1>3. /\ t - (t % PAGE_SIZE) \in Nat /\ t - (t % PAGE_SIZE) <= t
      /\ t < t - (t % PAGE_SIZE) + PAGE_SIZE
      /\ t - (t % PAGE_SIZE) = PAGE_SIZE * (t \div PAGE_SIZE) /\ t \div PAGE_SIZE \in Nat
  BY <1>1, MultipleOf, Division
<1>4. t - (t % PAGE_SIZE) \in Chunks
  BY <1>1, <1>3, SMT DEF Chunks
<1>5. PAGE_SIZE * (t \div PAGE_SIZE) < PAGE_SIZE * effectivePages
  BY <1>1, <1>2, <1>3, EffectivePages, SMT
<1>6. PAGE_SIZE * (t \div PAGE_SIZE) + PAGE_SIZE <= PAGE_SIZE * effectivePages
  BY <1>3, <1>5, EffectivePages, MultiplesApart
<1>7. PAGE_SIZE * effectivePages = effectivePages * PAGE_SIZE
  BY EffectivePages, SMT
<1> QED
  BY <1>2, <1>3, <1>4, <1>6, <1>7

LEMMA FirstTableStarts ==
  ASSUME IInv, LoadInitialPages, NEW t \in Chunks, tasks'[t] # NoTask
  PROVE  LET c == t - (t % PAGE_SIZE)
         IN  /\ tasks'[c] # NoTask /\ tasks'[c].counter = c
             /\ tasks'[c].pageSlot = t \div PAGE_SIZE
<1> USE ConstantsAssumption
<1> DEFINE c == t - (t % PAGE_SIZE)
           q == t \div PAGE_SIZE
<1>1. t \in Nat /\ q \in Nat
  <2>1. t \in Nat
    BY SMT DEF Chunks
  <2> QED
    BY <2>1, Division
<1>2. c \in Chunks /\ c = PAGE_SIZE * q /\ c < effectivePages * PAGE_SIZE
  <2>1. c \in Chunks /\ c <= t /\ t < effectivePages * PAGE_SIZE /\ c = PAGE_SIZE * q
    BY FirstTable
  <2>2. effectivePages * PAGE_SIZE \in Int /\ c \in Int
    BY <2>1, EffectivePages, SMT DEF Chunks
  <2> QED
    BY <1>1, <2>1, <2>2, SMT
<1>3. c % PAGE_SIZE = 0 /\ c \div PAGE_SIZE = q
  BY <1>1, <1>2, MultipleExact
<1>4. tasks'[c] = [pageSlot |-> c \div PAGE_SIZE, localChunk |-> c % PAGE_SIZE,
                   counter |-> c - (c % PAGE_SIZE)]
  BY <1>2 DEF LoadInitialPages
<1>5. c - (c % PAGE_SIZE) = c
  BY <1>2, <1>3, SMT DEF Chunks
<1>6. tasks'[c].localChunk = 0 /\ tasks'[c].counter = c /\ tasks'[c].pageSlot = q
  BY <1>3, <1>4, <1>5
<1>7. tasks'[c] # NoTask
  <2>1. 0 # -1
    BY SMT
  <2> QED
    BY <1>6, <2>1 DEF NoTask
<1> QED
  BY <1>6, <1>7

LEMMA TableInvFirst ==
  ASSUME IInv, DoneInv, TableInv, LoadInitialPages, [Next]_vars
  PROVE  TableInv'
<1> USE ConstantsAssumption
<1>1. Base' = effectivePages * PAGE_SIZE /\ Base' = loadedTasks'
  BY BaseStep DEF DoneInv, TableInv
<1>2. effectivePages * PAGE_SIZE \in Nat
  BY EffectivePages, SMT
<1>3. TablePrefix'
  <2>1. ASSUME NEW t \in Chunks, t < effectivePages * PAGE_SIZE
        PROVE  tasks'[t] # NoTask
    <3>1. tasks'[t].localChunk = t % PAGE_SIZE
      BY <2>1 DEF LoadInitialPages
    <3>2. t % PAGE_SIZE # -1
      <4>1. t \in Nat
        BY SMT DEF Chunks
      <4>2. t % PAGE_SIZE \in 0 .. PAGE_SIZE - 1
        BY <4>1, Division
      <4> QED
        BY <4>2, SMT
    <3> QED
      BY <3>1, <3>2 DEF NoTask
  <2> QED
    BY <1>1, <2>1, FirstTable DEF TablePrefix
<1>4. LoaderLocked'
  BY LoaderLockedStep DEF TableInv
<1>5. Groups'
  <2>1. ASSUME NEW t \in Chunks, tasks'[t] # NoTask, NEW c, c = t - (t % PAGE_SIZE)
        PROVE  /\ tasks'[t].counter = c /\ c <= t /\ t < c + PAGE_SIZE
               /\ tasks'[t].localChunk = t - c
               /\ tasks'[c] # NoTask /\ tasks'[c].counter = c
               /\ tasks'[c].pageSlot = tasks'[t].pageSlot
    <3>1. t \in Nat
      BY SMT DEF Chunks
    <3>2. t % PAGE_SIZE = t - c
      BY <2>1, <3>1, MultipleOf
    <3>3. tasks'[t] = [pageSlot |-> t \div PAGE_SIZE, localChunk |-> t % PAGE_SIZE, counter |-> c]
          /\ c <= t /\ t < c + PAGE_SIZE
      BY <2>1, FirstTable
    <3>4. tasks'[c] # NoTask /\ tasks'[c].counter = c /\ tasks'[c].pageSlot = t \div PAGE_SIZE
      BY <2>1, FirstTableStarts
    <3> QED
      BY <3>2, <3>3, <3>4
  <2> QED
    BY <2>1 DEF Groups, Start
<1>6. \A c \in Chunks : Start(c)' => /\ c = PAGE_SIZE * (c \div PAGE_SIZE) /\ c \div PAGE_SIZE \in Nat
                                     /\ c + PAGE_SIZE <= effectivePages * PAGE_SIZE
  <2> SUFFICES ASSUME NEW c \in Chunks, tasks'[c] # NoTask, tasks'[c].counter = c
               PROVE  /\ c = PAGE_SIZE * (c \div PAGE_SIZE) /\ c \div PAGE_SIZE \in Nat
                      /\ c + PAGE_SIZE <= effectivePages * PAGE_SIZE
    BY DEF Start
  <2>1. c \in Nat
    BY SMT DEF Chunks
  <2>2. c \div PAGE_SIZE \in Nat
    BY <2>1, Division
  <2>3. tasks'[c] = [pageSlot |-> c \div PAGE_SIZE, localChunk |-> c % PAGE_SIZE,
                     counter |-> c - (c % PAGE_SIZE)]
    BY FirstTable
  <2>4. c = c - (c % PAGE_SIZE)
    BY <2>3
  <2> QED
    BY <2>2, <2>4, FirstTable
<1>7. GroupsApart'
  <2>1. ASSUME NEW c \in Chunks, NEW d \in Chunks, Start(c)', Start(d)', c < d
        PROVE  c + PAGE_SIZE <= d
    <3>1. /\ c = PAGE_SIZE * (c \div PAGE_SIZE) /\ c \div PAGE_SIZE \in Nat
          /\ d = PAGE_SIZE * (d \div PAGE_SIZE) /\ d \div PAGE_SIZE \in Nat
      BY <1>6, <2>1
    <3>2. PAGE_SIZE * (c \div PAGE_SIZE) < PAGE_SIZE * (d \div PAGE_SIZE)
      BY <2>1, <3>1
    <3>3. PAGE_SIZE * (c \div PAGE_SIZE) + PAGE_SIZE <= PAGE_SIZE * (d \div PAGE_SIZE)
      BY <3>1, <3>2, MultiplesApart
    <3> QED
      BY <3>1, <3>3
  <2> QED
    BY <2>1 DEF GroupsApart
<1>8. GroupsWhole'
  BY <1>1, <1>6 DEF GroupsWhole
<1>9. GroupBeingFilled'
  BY <1>1, <1>2, SMT DEF GroupBeingFilled
<1> QED
  BY <1>3, <1>4, <1>5, <1>7, <1>8, <1>9 DEF TableInv

\* A handler that processes a chunk or loads a page keeps its task context.
Loading == {"morePages", "map", "lockTasks", "addTask"}

LEMMA ContextKept ==
  ASSUME IInv, BeforeStart, TablePrefix, [Next]_vars,
         NEW h \in Handlers, pc[h] \in ReadTask
  PROVE  /\ currentTask[h] \in Chunks /\ Task(h) \in TaskContext /\ Task(h) # NoTask
         /\ currentTask'[h] = currentTask[h] /\ Task(h)' = Task(h)
<1>1. currentTask[h] \in Chunks /\ Task(h) \in TaskContext
  BY DEF IInv, TaskLoaded, Task
<1>2. Task(h) # NoTask
  <2>1. Task(h).localChunk # -1
    BY <1>1, ConstantsAssumption, SMT DEF TaskContext
  <2> QED
    BY <2>1 DEF NoTask
<1>3. currentTask'[h] = currentTask[h]
  BY TaskKept DEF ReadTask, WaitsForTask
<1>4. tasks'[currentTask[h]] = tasks[currentTask[h]]
  BY <1>1, <1>2, LoadedKept DEF Task
<1>5. Task(h)' = Task(h)
  BY <1>3, <1>4 DEF Task
<1> QED
  BY <1>1, <1>2, <1>3, <1>5

\* The task that is added starts a group or continues the one being filled.
LEMMA AddedStart ==
  ASSUME IInv, DoneInv, TableInv, [Next]_vars, NEW h \in Handlers, AddTask(h), NEW c \in Chunks
  PROVE  Start(c)' <=> Start(c) \/ (c = loadedTasks /\ c = Base)
<1>1. /\ pc[h] = "addTask" /\ loadedTasks \in Chunks /\ tasks'[loadedTasks] # NoTask
      /\ tasks'[loadedTasks].counter = loadedTasks - filled[h]
      /\ \A t \in Chunks : t # loadedTasks => tasks'[t] = tasks[t]
  <2>1. tasks'[loadedTasks] = [pageSlot |-> Task(h).pageSlot, localChunk |-> filled[h],
                               counter |-> loadedTasks - filled[h]]
    BY AddsTask
  <2>2. tasks'[loadedTasks].counter = loadedTasks - filled[h]
    BY <2>1
  <2> QED
    BY <2>2, AddsTask
<1>2. Base = loadedTasks - filled[h]
  BY <1>1, BaseOfLoader DEF TableInv
<1>3. tasks[loadedTasks] = NoTask
  <2>1. ~(loadedTasks < loadedTasks)
    BY <1>1, ConstantsAssumption, SMT DEF Chunks
  <2> QED
    BY <1>1, <2>1 DEF TableInv, TablePrefix
<1>4. CASE c # loadedTasks
  BY <1>1, <1>4 DEF Start
<1>5. CASE c = loadedTasks
  BY <1>1, <1>2, <1>3, <1>5 DEF Start
<1> QED
  BY <1>4, <1>5

LEMMA TableInvAdd ==
  ASSUME IInv, DoneInv, TableInv, [Next]_vars, NEW h \in Handlers, AddTask(h)
  PROVE  TableInv'
<1> USE ConstantsAssumption
<1> DEFINE n == loadedTasks
<1>1. /\ pc[h] = "addTask" /\ n \in Chunks /\ n \in Nat /\ loadedTasks' = n + 1
      /\ filled[h] \in 0 .. PAGE_SIZE - 1 /\ Task(h) \in TaskContext /\ currentTask[h] \in Chunks
      /\ tasks'[n] = [pageSlot |-> Task(h).pageSlot, localChunk |-> filled[h],
                      counter |-> n - filled[h]]
      /\ tasks'[n] # NoTask
      /\ \A t \in Chunks : t # n => tasks'[t] = tasks[t]
  <2>1. n \in Chunks => n \in Nat
    BY SMT DEF Chunks
  <2> QED
    BY <2>1, AddsTask
<1>2. tasksRW = h /\ Base = n - filled[h] /\ Base \in Chunks
  <2>1. tasksRW = h /\ Base = n - filled[h] /\ Base \in Chunks \cup {n}
    BY <1>1, BaseOfLoader DEF TableInv
  <2> QED
    BY <1>1, <2>1
<1>3. \/ Base' = Base /\ tasksRW' = h
      \/ Base' = Base + PAGE_SIZE /\ Base' = loadedTasks'
  BY BaseStep DEF DoneInv, TableInv
<1>4. TablePrefix'
  <2>1. ASSUME NEW t \in Chunks
        PROVE  tasks'[t] # NoTask <=> t < n + 1
    <3>1. CASE t = n
      <4>1. n < n + 1
        BY <1>1, SMT
      <4> QED
        BY <1>1, <3>1, <4>1
    <3>2. CASE t # n
      <4>1. tasks[t] # NoTask <=> t < n
        BY DEF TableInv, TablePrefix
      <4>2. t < n <=> t < n + 1
        BY <1>1, <3>2, SMT DEF Chunks
      <4> QED
        BY <1>1, <3>2, <4>1, <4>2
    <3> QED
      BY <3>1, <3>2
  <2> QED
    BY <1>1, <2>1 DEF TablePrefix
<1>5. LoaderLocked'
  BY LoaderLockedStep DEF TableInv
<1>6. \A c \in Chunks : Start(c)' <=> Start(c) \/ (c = n /\ c = Base)
  BY AddedStart
<1>7. ASSUME NEW c \in Chunks, Start(c)
      PROVE  c < n /\ c # n /\ tasks'[c] = tasks[c]
  <2>1. c < n
    BY <1>7 DEF Start, TableInv, TablePrefix
  <2>2. c # n
    BY <1>1, <2>1, SMT
  <2> QED
    BY <1>1, <2>1, <2>2
<1>8. /\ tasks'[Base] # NoTask /\ tasks'[Base].counter = Base
      /\ tasks'[Base].pageSlot = Task(h).pageSlot
  <2>1. CASE Base = n
    BY <1>1, <1>2, <2>1
  <2>2. CASE Base # n
    <3>1. Base < n
      BY <1>1, <1>2, <2>2, SMT
    <3>2. Start(Base) /\ tasks[Base].pageSlot = Task(h).pageSlot
      BY <1>2, <3>1 DEF TableInv, GroupBeingFilled
    <3>3. tasks'[Base] = tasks[Base]
      BY <1>2, <1>7, <3>2
    <3> QED
      BY <3>2, <3>3 DEF Start
  <2> QED
    BY <2>1, <2>2
<1>9. Groups'
  <2>1. ASSUME NEW t \in Chunks, tasks'[t] # NoTask, NEW c, c = tasks'[t].counter
        PROVE  /\ c <= t /\ t < c + PAGE_SIZE /\ tasks'[t].localChunk = t - c
               /\ tasks'[c] # NoTask /\ tasks'[c].counter = c
               /\ tasks'[c].pageSlot = tasks'[t].pageSlot
    <3>1. CASE t = n
      <4>1. c = Base
        BY <1>1, <1>2, <2>1, <3>1
      <4>2. Base <= n /\ n < Base + PAGE_SIZE /\ filled[h] = n - Base
        BY <1>1, <1>2, SMT
      <4> QED
        BY <1>1, <1>8, <3>1, <4>1, <4>2
    <3>2. CASE t # n
      <4>1. tasks'[t] = tasks[t] /\ tasks[t] # NoTask
        BY <1>1, <2>1, <3>2
      <4>2. /\ c <= t /\ t < c + PAGE_SIZE /\ tasks[t].localChunk = t - c
            /\ Start(c) /\ tasks[c].pageSlot = tasks[t].pageSlot
        BY <2>1, <4>1 DEF TableInv, Groups
      <4>3. c \in Chunks
        BY <2>1, <4>1 DEF IInv, TypeOK, TaskTypes, TaskContext
      <4>4. tasks'[c] = tasks[c]
        BY <1>7, <4>2, <4>3
      <4> QED
        BY <4>1, <4>2, <4>4 DEF Start
    <3> QED
      BY <3>1, <3>2
  <2> QED
    BY <2>1 DEF Groups, Start
<1>10. GroupsApart'
  <2>1. ASSUME NEW c \in Chunks, NEW d \in Chunks, Start(c)', Start(d)', c < d
        PROVE  c + PAGE_SIZE <= d
    <3>1. CASE Start(c) /\ Start(d)
      BY <2>1, <3>1 DEF TableInv, GroupsApart
    <3>2. CASE Start(c) /\ d = n /\ d = Base
      <4>1. c # Base
        BY <1>7, <3>2
      <4> QED
        BY <3>2, <4>1 DEF TableInv, GroupsWhole
    <3>3. CASE c = n
      <4>1. d <= n
        <5>1. Start(d) => d < n
          BY <1>7
        <5> QED
          BY <1>1, <1>6, <2>1, <5>1, SMT DEF Chunks
      <4> QED
        BY <1>1, <2>1, <3>3, <4>1, SMT DEF Chunks
    <3> QED
      BY <1>6, <2>1, <3>1, <3>2, <3>3
  <2> QED
    BY <2>1 DEF GroupsApart
<1>11. GroupsWhole'
  <2>1. ASSUME NEW c \in Chunks, Start(c)'
        PROVE  c + PAGE_SIZE <= Base' \/ c = Base'
    <3>1. c + PAGE_SIZE <= Base \/ c = Base
      BY <1>6, <2>1 DEF TableInv, GroupsWhole
    <3> QED
      BY <1>2, <1>3, <3>1, SMT DEF Chunks
  <2> QED
    BY <2>1 DEF GroupsWhole
<1>12. GroupBeingFilled'
  <2>1. CASE Base' = loadedTasks'
    BY <1>1, <2>1, SMT DEF GroupBeingFilled
  <2>2. CASE Base' = Base /\ tasksRW' = h
    <3>1. Task(h)' = Task(h)
      BY <1>1, ContextKept DEF DoneInv, TableInv, ReadTask
    <3>2. Task(tasksRW)' = Task(h)
      BY <2>2, <3>1 DEF Task
    <3> QED
      BY <1>8, <2>2, <3>2 DEF GroupBeingFilled, Start
  <2> QED
    BY <1>3, <2>1, <2>2
<1> QED
  BY <1>4, <1>5, <1>9, <1>10, <1>11, <1>12 DEF TableInv

LEMMA TableInvStep ==
  ASSUME IInv, DoneInv, TableInv, [Next]_vars
  PROVE  TableInv'
<1>1. CASE LoadInitialPages
  BY <1>1, TableInvFirst
<1>2. ASSUME NEW h \in Handlers, AddTask(h)
      PROVE  TableInv'
  BY <1>2, TableInvAdd
<1>3. ASSUME ~LoadInitialPages, ~\E h \in Handlers : AddTask(h)
      PROVE  TableInv'
  <2>1. UNCHANGED <<tasks, loadedTasks>> /\ Base' = Base
    <3>1. \A h \in Handlers : LockTasks(h) => UNCHANGED <<tasks, loadedTasks>>
      BY DEF LockTasks, taskVars
    <3> QED
      BY <1>3, <3>1, TableFrame, BaseStep DEF DoneInv, TableInv
  <2>2. LoaderLocked'
    BY LoaderLockedStep DEF TableInv
  <2>3. TablePrefix' /\ Groups' /\ GroupsApart' /\ GroupsWhole'
    BY <2>1 DEF TableInv, TablePrefix, Groups, GroupsApart, GroupsWhole, Start
  <2>4. GroupBeingFilled'
    <3>1. ASSUME Base < loadedTasks
          PROVE  Task(tasksRW)' = Task(tasksRW)
      <4>1. tasksRW \in Handlers /\ pc[tasksRW] = "addTask" /\ tasksRW # NoOne
        BY <3>1, BaseOfLoader, ConstantsAssumption, SMT DEF TableInv, NoOne, Handlers
      <4>2. tasksRW' = tasksRW
        BY <1>3, <4>1, TableFrame DEF LockTasks
      <4>3. PICK g \in Handlers : g = tasksRW
        BY <4>1
      <4>4. Task(g)' = Task(g)
        BY <4>1, <4>3, ContextKept DEF DoneInv, TableInv, ReadTask
      <4> QED
        BY <4>2, <4>3, <4>4 DEF Task
    <3> QED
      BY <2>1, <3>1 DEF TableInv, GroupBeingFilled, Start
  <2> QED
    BY <2>2, <2>3, <2>4 DEF TableInv
<1> QED
  BY <1>1, <1>2, <1>3

LEMMA InitTable == Init => TableInv
<1> SUFFICES ASSUME Init
             PROVE  TableInv
  OBVIOUS
<1> USE ConstantsAssumption DEF Init
<1>1. Base = 0
  <2>1. Base = 0 - 0
    BY DEF Base
  <2> QED
    BY <2>1, SMT
<1>2. TablePrefix
  BY SMT DEF TablePrefix, Chunks
<1>3. LoaderLocked
  BY SMT DEF LoaderLocked, NoOne, Handlers
<1>4. Groups /\ GroupsApart /\ GroupsWhole
  BY DEF Groups, GroupsApart, GroupsWhole, Start
<1>5. GroupBeingFilled
  BY <1>1, SMT DEF GroupBeingFilled
<1> QED
  BY <1>2, <1>3, <1>4, <1>5 DEF TableInv

-----------------------------------------------------------------------------
\* The counter of a page is the number of its chunks that are not done.

AtCount(u) == \E h \in Handlers : pc[h] = "count" /\ currentTask[h] = u
Counted(u) == u \in Chunks /\ output[u] # NoOutput /\ ~AtCount(u)
Uncounted(c) == {u \in c .. c + PAGE_SIZE - 1 : ~Counted(u)}
CountExact == \A c \in Chunks : Start(c) => remainingPageChunks[c] = Cardinality(Uncounted(c))

LEMMA UncountedFinite ==
  ASSUME NEW c \in Chunks
  PROVE  /\ IsFiniteSet(Uncounted(c)) /\ Cardinality(Uncounted(c)) \in Nat
         /\ IsFiniteSet(c .. c + PAGE_SIZE - 1)
         /\ Cardinality(c .. c + PAGE_SIZE - 1) = PAGE_SIZE
<1> USE ConstantsAssumption
<1>1. c \in Int /\ c + PAGE_SIZE - 1 \in Int /\ ~(c > c + PAGE_SIZE - 1)
      /\ c + PAGE_SIZE - 1 - c + 1 = PAGE_SIZE
  BY SMT DEF Chunks
<1>2. /\ IsFiniteSet(c .. c + PAGE_SIZE - 1)
      /\ Cardinality(c .. c + PAGE_SIZE - 1) = PAGE_SIZE
  BY <1>1, FS_Interval
<1>3. Uncounted(c) \in SUBSET (c .. c + PAGE_SIZE - 1)
  BY DEF Uncounted
<1>4. IsFiniteSet(Uncounted(c))
  BY <1>2, <1>3, FS_Subset
<1> QED
  BY <1>2, <1>4, FS_CardinalityType

\* Counting a chunk is the only step that makes it counted.
LEMMA CountedStep ==
  ASSUME IInv, DoneInv, [Next]_vars, NEW u
  PROVE  Counted(u)' <=> Counted(u) \/ \E h \in Handlers : CountChunk(h) /\ currentTask[h] = u
<1> USE DEF Move, ProcessMove, LoadMove, ChooseMove
<1>1. TypeOK /\ ExclusiveTask /\ Unfinished /\ TaskLoaded
  BY DEF IInv, DoneInv, PoolInv
<1>2. ASSUME NEW h \in Handlers, pc[h] = "count"
      PROVE  /\ currentTask[h] \in Chunks /\ output[currentTask[h]] # NoOutput
             /\ output'[currentTask[h]] # NoOutput /\ currentTask'[h] = currentTask[h] /\ Owns(h)
  <2>1. currentTask[h] \in Chunks /\ output[currentTask[h]] # NoOutput
    BY <1>1, <1>2 DEF TaskLoaded, ReadTask, Unfinished
  <2>2. currentTask'[h] = currentTask[h]
    BY <1>2, TaskKept DEF WaitsForTask
  <2> QED
    BY <1>1, <1>2, <2>1, <2>2, OutputKept DEF Owns, Processing
<1>3. ASSUME NEW h \in Handlers, CountChunk(h), currentTask[h] = u
      PROVE  Counted(u)'
  <2>1. pc[h] = "count" /\ UNCHANGED <<currentTask, output>>
    BY <1>3 DEF CountChunk, At, dataVars
  <2>2. pc'[h] # "count"
    BY <1>1, <1>3 DEF CountChunk, Goto, TypeOK, HandlerTypes
  <2>3. ASSUME NEW g \in Handlers, pc'[g] = "count", currentTask[g] = u
        PROVE  FALSE
    <3>1. g # h /\ pc'[g] = pc[g]
      BY <1>1, <1>3, <2>2, <2>3 DEF CountChunk, Goto, TypeOK, HandlerTypes
    <3> QED
      BY <1>1, <1>2, <1>3, <2>1, <2>3, <3>1 DEF ExclusiveTask
  <2> QED
    BY <1>2, <1>3, <2>1, <2>3 DEF Counted, AtCount
<1>4. ASSUME Counted(u)
      PROVE  Counted(u)'
  <2>1. ASSUME NEW g \in Handlers, pc'[g] = "count", currentTask'[g] = u
        PROVE  FALSE
    <3>1. CASE Wrote(g)
      <4>1. Owns(g) /\ pc[g] # "count" /\ currentTask'[g] = currentTask[g]
        BY <1>1, <3>1, Writes
      <4> QED
        BY <1>1, <1>4, <2>1, <4>1 DEF Unfinished, Counted
    <3>2. CASE pc[g] = "count"
      BY <1>2, <1>4, <2>1, <3>2 DEF Counted, AtCount
    <3> QED
      BY <1>1, <2>1, <3>1, <3>2, Moves
  <2> QED
    BY <1>1, <1>4, <2>1, OutputKept DEF Counted, AtCount
<1>5. ASSUME Counted(u)', ~Counted(u)
      PROVE  \E h \in Handlers : CountChunk(h) /\ currentTask[h] = u
  <2>1. u \in Chunks /\ output'[u] # NoOutput /\ ~AtCount(u)'
    BY <1>5 DEF Counted
  <2>2. ASSUME NEW h \in Handlers, Wrote(h), currentTask[h] = u
        PROVE  FALSE
    BY <1>1, <2>1, <2>2, Writes DEF AtCount
  <2>3. output[u] # NoOutput
    BY <1>1, <2>1, <2>2, OutputStep
  <2>4. PICK h \in Handlers : pc[h] = "count" /\ currentTask[h] = u
    BY <1>5, <2>1, <2>3 DEF Counted, AtCount
  <2>5. pc'[h] # "count"
    BY <1>2, <2>1, <2>4 DEF AtCount
  <2> QED
    BY <1>1, <2>4, <2>5, Moves
<1> QED
  BY <1>3, <1>4, <1>5

\* A loaded task belongs to one group, the one of its own counter.
LEMMA GroupOf ==
  ASSUME IInv, TableInv, NEW u \in Chunks, tasks[u] # NoTask
  PROVE  LET c == tasks[u].counter
         IN  /\ c \in Chunks /\ Start(c) /\ u \in c .. c + PAGE_SIZE - 1
             /\ tasks[c].pageSlot = tasks[u].pageSlot
             /\ \A d \in Chunks : Start(d) /\ u \in d .. d + PAGE_SIZE - 1 => d = c
<1> USE ConstantsAssumption
<1> DEFINE c == tasks[u].counter
<1>1. /\ c \in Chunks /\ c <= u /\ u < c + PAGE_SIZE /\ Start(c)
      /\ tasks[c].pageSlot = tasks[u].pageSlot
  BY DEF TableInv, Groups, IInv, TypeOK, TaskTypes, TaskContext
<1>2. u \in c .. c + PAGE_SIZE - 1
  <2> HIDE DEF c
  <2> QED
    BY <1>1, SMT DEF Chunks
<1>3. ASSUME NEW d \in Chunks, Start(d), u \in d .. d + PAGE_SIZE - 1
      PROVE  d = c
  <2>1. (c < d => c + PAGE_SIZE <= d) /\ (d < c => d + PAGE_SIZE <= c)
    BY <1>1, <1>3 DEF TableInv, GroupsApart
  <2> HIDE DEF c
  <2> QED
    BY <1>1, <1>3, <2>1, SMT DEF Chunks
<1> QED
  BY <1>1, <1>2, <1>3

\* Nothing that is not loaded is counted.
LEMMA UnloadedUncounted ==
  ASSUME DoneInv, NEW u, u \in Chunks => tasks[u] = NoTask
  PROVE  ~Counted(u)
  BY DEF DoneInv, OutputLoaded, Counted

LEMMA AllUncounted ==
  ASSUME NEW c \in Chunks, \A u \in c .. c + PAGE_SIZE - 1 : ~Counted(u)
  PROVE  Cardinality(Uncounted(c)) = PAGE_SIZE
<1>1. Uncounted(c) = c .. c + PAGE_SIZE - 1
  BY DEF Uncounted
<1> QED
  BY <1>1, UncountedFinite

\* The chunk that a handler counts is the one that is no longer uncounted.
LEMMA CountsChunk ==
  ASSUME IInv, DoneInv, TableInv, [Next]_vars, NEW h \in Handlers, CountChunk(h)
  PROVE  LET u == currentTask[h]
             c == Task(h).counter
         IN  /\ u \in Chunks /\ tasks[u] # NoTask /\ ~Counted(u) /\ output[u] # NoOutput
             /\ c \in Chunks /\ Start(c) /\ u \in Uncounted(c)
             /\ tasks[c].pageSlot = Task(h).pageSlot
             /\ \A d : Uncounted(d)' = Uncounted(d) \ {u}
             /\ \A d \in Chunks : Start(d) /\ d # c => u \notin Uncounted(d)
<1> DEFINE u == currentTask[h]
           c == Task(h).counter
<1>1. pc[h] = "count"
  BY DEF CountChunk, At
<1>2. u \in Chunks /\ tasks[u] # NoTask /\ output[u] # NoOutput /\ ~Counted(u)
  <2>1. u \in Chunks /\ Task(h) # NoTask
    BY <1>1, ContextKept DEF DoneInv, TableInv, ReadTask
  <2>2. output[u] # NoOutput
    BY <1>1 DEF DoneInv, Unfinished
  <2> QED
    BY <1>1, <2>1, <2>2 DEF Task, Counted, AtCount
<1>3. /\ c \in Chunks /\ Start(c) /\ u \in c .. c + PAGE_SIZE - 1
      /\ tasks[c].pageSlot = Task(h).pageSlot
      /\ \A d \in Chunks : Start(d) /\ u \in d .. d + PAGE_SIZE - 1 => d = c
  BY <1>2, GroupOf DEF Task
<1>4. u \in Uncounted(c) /\ \A d \in Chunks : Start(d) /\ d # c => u \notin Uncounted(d)
  BY <1>2, <1>3 DEF Uncounted
<1>5. \A k \in Handlers : CountChunk(k) => currentTask[k] = u
  <2>1. ASSUME NEW k \in Handlers, CountChunk(k), k # h
        PROVE  FALSE
    <3>1. pc'[k] = pc[k] /\ pc[k] = "count"
      BY <2>1 DEF CountChunk, At, Goto, IInv, TypeOK, HandlerTypes
    <3>2. pc'[k] # "count"
      BY <2>1 DEF CountChunk, Goto, IInv, TypeOK, HandlerTypes
    <3> QED
      BY <3>1, <3>2
  <2> QED
    BY <2>1
<1>6. \A w : Counted(w)' <=> Counted(w) \/ w = u
  BY <1>5, CountedStep
<1>7. ASSUME NEW d
      PROVE  Uncounted(d)' = Uncounted(d) \ {u}
  BY <1>6 DEF Uncounted
<1> QED
  BY <1>2, <1>3, <1>4, <1>7

\* Only a chunk that is being counted leaves the uncounted ones.
LEMMA UncountedStep ==
  ASSUME IInv, DoneInv, [Next]_vars, ~\E h \in Handlers : CountChunk(h), NEW c
  PROVE  Uncounted(c)' = Uncounted(c)
  BY CountedStep DEF Uncounted

LEMMA CountExactStep ==
  ASSUME IInv, DoneInv, TableInv, CountExact, [Next]_vars
  PROVE  CountExact'
<1> USE ConstantsAssumption
<1> SUFFICES ASSUME NEW c \in Chunks, Start(c)'
             PROVE  remainingPageChunks'[c] = Cardinality(Uncounted(c)')
  BY DEF CountExact
<1>1. TypeOK /\ TaskTypes
  BY DEF IInv, TypeOK
<1>2. CASE LoadInitialPages
  <2>1. loadedTasks = 0 /\ \A h \in Handlers : ~CountChunk(h)
    BY <1>2 DEF LoadInitialPages, DoneInv, BeforeStart, CountChunk, At, WaitsForTask
  <2>2. \A u \in Chunks : tasks[u] = NoTask
    <3>1. \A u \in Chunks : ~(u < 0)
      BY SMT DEF Chunks
    <3> QED
      BY <2>1, <3>1 DEF TableInv, TablePrefix
  <2>3. Cardinality(Uncounted(c)) = PAGE_SIZE
    BY <2>2, UnloadedUncounted, AllUncounted
  <2>4. Uncounted(c)' = Uncounted(c)
    BY <2>1, UncountedStep
  <2>5. remainingPageChunks'[c] = PAGE_SIZE
    BY <1>2 DEF LoadInitialPages, Start
  <2> QED
    BY <2>3, <2>4, <2>5
<1>3. ASSUME NEW h \in Handlers, AddTask(h)
      PROVE  remainingPageChunks'[c] = Cardinality(Uncounted(c)')
  <2>1. /\ loadedTasks \in Chunks /\ filled[h] \in Nat /\ Base = loadedTasks - filled[h]
        /\ Base \in Chunks /\ loadedTasks \in Nat
    <3>1. loadedTasks \in Chunks /\ filled[h] \in 0 .. PAGE_SIZE - 1 /\ pc[h] = "addTask"
      BY <1>3, AddsTask
    <3>2. Base = loadedTasks - filled[h] /\ Base \in Chunks \cup {loadedTasks}
      BY <3>1, BaseOfLoader DEF TableInv
    <3> QED
      BY <3>1, <3>2, SMT DEF Chunks
  <2>2. \A k \in Handlers : ~CountChunk(k)
    <3>1. \A k \in Handlers : CountChunk(k) => loadedTasks' = loadedTasks
      BY DEF CountChunk
    <3>2. loadedTasks' = loadedTasks + 1
      BY <1>3 DEF AddTask
    <3> QED
      BY <2>1, <3>1, <3>2, SMT
  <2>3. Uncounted(c)' = Uncounted(c)
    BY <2>2, UncountedStep
  <2>4. remainingPageChunks' =
          [remainingPageChunks EXCEPT ![Base] =
             IF filled[h] = 0 THEN PAGE_SIZE ELSE remainingPageChunks[Base]]
    BY <1>3, <2>1 DEF AddTask
  <2>5. CASE Start(c)
    <3>1. c # Base \/ filled[h] # 0
      <4>1. c < loadedTasks
        BY <2>5 DEF Start, TableInv, TablePrefix
      <4> QED
        BY <2>1, <4>1, SMT DEF Chunks
    <3>2. remainingPageChunks'[c] = remainingPageChunks[c]
      BY <1>1, <2>4, <3>1 DEF TaskTypes
    <3> QED
      BY <2>3, <2>5, <3>2 DEF CountExact
  <2>6. CASE c = loadedTasks /\ c = Base
    <3>1. filled[h] = 0
      BY <2>1, <2>6, SMT
    <3>2. remainingPageChunks'[c] = PAGE_SIZE
      BY <1>1, <2>4, <2>6, <3>1 DEF TaskTypes
    <3>3. ASSUME NEW u \in c .. c + PAGE_SIZE - 1
          PROVE  ~Counted(u)
      <4>1. ~(u < loadedTasks)
        BY <2>1, <2>6, SMT
      <4> QED
        BY <4>1, UnloadedUncounted DEF TableInv, TablePrefix
    <3> QED
      BY <2>3, <3>2, <3>3, AllUncounted
  <2> QED
    BY <1>3, <2>5, <2>6, AddedStart
<1>4. ASSUME NEW h \in Handlers, CountChunk(h)
      PROVE  remainingPageChunks'[c] = Cardinality(Uncounted(c)')
  <2> DEFINE u == currentTask[h]
             d == Task(h).counter
  <2>1. /\ d \in Chunks /\ Start(d) /\ u \in Uncounted(d) /\ Uncounted(c)' = Uncounted(c) \ {u}
        /\ \A e \in Chunks : Start(e) /\ e # d => u \notin Uncounted(e)
    BY <1>4, CountsChunk
  <2>2. Start(c) /\ remainingPageChunks' = [remainingPageChunks EXCEPT ![d] = remainingPageChunks[d] - 1]
    BY <1>4 DEF CountChunk, Start
  <2>3. Cardinality(Uncounted(c) \ {u}) =
          IF u \in Uncounted(c) THEN Cardinality(Uncounted(c)) - 1 ELSE Cardinality(Uncounted(c))
    BY UncountedFinite, FS_RemoveElement
  <2>4. remainingPageChunks[c] = Cardinality(Uncounted(c))
    BY <2>2 DEF CountExact
  <2> HIDE DEF u, d
  <2>5. CASE c = d
    BY <1>1, <2>1, <2>2, <2>3, <2>4, <2>5 DEF TaskTypes
  <2>6. CASE c # d
    BY <1>1, <2>1, <2>2, <2>3, <2>4, <2>6 DEF TaskTypes
  <2> QED
    BY <2>5, <2>6
<1>5. ASSUME ~LoadInitialPages, ~\E h \in Handlers : AddTask(h) \/ CountChunk(h)
      PROVE  remainingPageChunks'[c] = Cardinality(Uncounted(c)')
  <2>1. UNCHANGED <<tasks, remainingPageChunks>>
    BY <1>5, TaskFrame DEF DispatchParked, TakeTask, taskVars
  <2>2. Uncounted(c)' = Uncounted(c)
    BY <1>5, UncountedStep
  <2> QED
    BY <2>1, <2>2 DEF CountExact, Start
<1> QED
  BY <1>2, <1>3, <1>4, <1>5

-----------------------------------------------------------------------------
\* A slot holds one page that is in use, or one handler that replaces it.

Open(c) == Start(c) /\ Uncounted(c) # {}

OneOpenPage ==
  \A c, d \in Chunks : Open(c) /\ Open(d) /\ tasks[c].pageSlot = tasks[d].pageSlot => c = d

\* In the slot of a loader only the page it is filling is in use.
LoaderSlot ==
  \A h \in Handlers : pc[h] \in Loading =>
    \A c \in Chunks : Open(c) /\ tasks[c].pageSlot = Task(h).pageSlot =>
                        pc[h] = "addTask" /\ c = Base /\ Base < loadedTasks
LoadersApart ==
  \A g, h \in Handlers : g # h /\ pc[g] \in Loading /\ pc[h] \in Loading =>
                           Task(g).pageSlot # Task(h).pageSlot

SlotInv == OneOpenPage /\ LoaderSlot /\ LoadersApart
PageInv == TableInv /\ CountExact /\ SlotInv

\* The last chunk of a page is the only one that is still to be counted.
LEMMA LastChunk ==
  ASSUME IInv, DoneInv, PageInv, [Next]_vars, NEW h \in Handlers, CountChunk(h),
         LastOfPage(Task(h).counter)
  PROVE  Uncounted(Task(h).counter) = {currentTask[h]}
<1> DEFINE c == Task(h).counter
<1>1. c \in Chunks /\ Start(c) /\ currentTask[h] \in Uncounted(c)
  BY CountsChunk DEF PageInv
<1>2. IsFiniteSet(Uncounted(c)) /\ Cardinality(Uncounted(c)) = 1
  BY <1>1, UncountedFinite DEF LastOfPage, PageInv, CountExact
<1>3. \E x : Uncounted(c) = {x}
  BY <1>2, FS_Singleton
<1> QED
  BY <1>1, <1>3

\* A page becomes used when its first task is added, by the loader of its slot,
\* and stays used until its last chunk is counted.
LEMMA OpenStep ==
  ASSUME IInv, DoneInv, PageInv, [Next]_vars, ~LoadInitialPages, NEW c \in Chunks, Open(c)'
  PROVE  \/ Open(c) /\ tasks'[c] = tasks[c]
         \/ \E h \in Handlers : /\ AddTask(h) /\ c = loadedTasks /\ c = Base
                                /\ tasks'[c].pageSlot = Task(h).pageSlot
<1>1. TableInv /\ Start(c)' /\ Uncounted(c)' # {}
  BY DEF PageInv, Open
<1>2. Uncounted(c) # {}
  BY <1>1, CountsChunk, UncountedStep
<1>3. CASE Start(c)
  BY <1>1, <1>2, <1>3, LoadedKept DEF Open, Start, DoneInv, TableInv
<1>4. ASSUME NEW h \in Handlers, AddTask(h), ~Start(c)
      PROVE  c = loadedTasks /\ c = Base /\ tasks'[c].pageSlot = Task(h).pageSlot
  <2>1. c = loadedTasks /\ c = Base
    BY <1>1, <1>4, AddedStart
  <2>2. tasks'[loadedTasks] = [pageSlot |-> Task(h).pageSlot, localChunk |-> filled[h],
                               counter |-> loadedTasks - filled[h]]
    BY <1>4, AddsTask
  <2> QED
    BY <2>1, <2>2
<1>5. Start(c) \/ \E h \in Handlers : AddTask(h)
  <2>1. \A h \in Handlers : LockTasks(h) => tasks' = tasks
    BY DEF LockTasks, taskVars
  <2> QED
    BY <1>1, <2>1, TableFrame DEF Start
<1> QED
  BY <1>3, <1>4, <1>5

\* While a handler adds tasks the last chunk of the page it fills is not done.
LEMMA FillingOpen ==
  ASSUME IInv, DoneInv, PageInv, NEW h \in Handlers, pc[h] = "addTask", Base < loadedTasks
  PROVE  loadedTasks \in Uncounted(Base) /\ Base \in Chunks /\ Start(Base)
         /\ tasks[Base].pageSlot = Task(h).pageSlot /\ ~(loadedTasks < loadedTasks)
<1> USE ConstantsAssumption
<1>1. loadedTasks \in Nat
  BY SMT DEF IInv, TypeOK, TaskTypes
<1>2. tasksRW = h /\ Base \in Chunks \cup {loadedTasks} /\ loadedTasks < Base + PAGE_SIZE
  BY BaseOfLoader DEF PageInv, TableInv
<1>3. ~(loadedTasks < loadedTasks) /\ Base # loadedTasks
  BY <1>1, SMT
<1>4. Base \in Chunks /\ loadedTasks \in Base .. Base + PAGE_SIZE - 1
  BY <1>1, <1>2, <1>3, SMT DEF Chunks
<1>5. ~Counted(loadedTasks)
  BY <1>3, UnloadedUncounted DEF PageInv, TableInv, TablePrefix
<1>6. loadedTasks \in Uncounted(Base)
  BY <1>4, <1>5 DEF Uncounted
<1>7. Start(Base) /\ tasks[Base].pageSlot = Task(h).pageSlot
  BY <1>2 DEF PageInv, TableInv, GroupBeingFilled
<1> QED
  BY <1>3, <1>4, <1>6, <1>7

\* A handler that counts a chunk of a page does so in no loader's slot.
LEMMA LastNotLoading ==
  ASSUME IInv, DoneInv, PageInv, [Next]_vars, NEW g \in Handlers, CountChunk(g),
         LastOfPage(Task(g).counter), NEW h \in Handlers, pc[h] \in Loading
  PROVE  Task(g).pageSlot # Task(h).pageSlot
<1> SUFFICES ASSUME Task(g).pageSlot = Task(h).pageSlot
             PROVE  FALSE
  OBVIOUS
<1> DEFINE c == Task(g).counter
<1>1. /\ c \in Chunks /\ Start(c) /\ tasks[c].pageSlot = Task(g).pageSlot
      /\ currentTask[g] \in Chunks /\ tasks[currentTask[g]] # NoTask
      /\ Uncounted(c) = {currentTask[g]}
  BY CountsChunk, LastChunk DEF PageInv
<1>2. Open(c)
  BY <1>1 DEF Open
<1>3. pc[h] = "addTask" /\ c = Base /\ Base < loadedTasks
  BY <1>1, <1>2 DEF PageInv, SlotInv, LoaderSlot
<1>4. loadedTasks \in Uncounted(c) /\ ~(loadedTasks < loadedTasks)
  BY <1>3, FillingOpen
<1>5. loadedTasks = currentTask[g]
  BY <1>1, <1>4
<1> QED
  BY <1>1, <1>4, <1>5 DEF PageInv, TableInv, TablePrefix

\* A handler becomes a loader by counting the last chunk of a page.
LEMMA LoaderStep ==
  ASSUME IInv, DoneInv, PageInv, [Next]_vars, NEW h \in Handlers, pc'[h] \in Loading
  PROVE  /\ \/ pc[h] \in Loading
            \/ CountChunk(h) /\ LastOfPage(Task(h).counter) /\ pc'[h] = "morePages"
         /\ pc'[h] = "addTask" => pc[h] = "addTask" \/ LockTasks(h)
         /\ Task(h)' = Task(h)
<1> USE DEF Loading
<1>1. CASE pc'[h] = pc[h]
  BY <1>1, ContextKept DEF ReadTask, PageInv, TableInv, DoneInv
<1>2. CASE pc'[h] # pc[h]
  <2>1. \/ CountChunk(h) /\ LastOfPage(Task(h).counter) /\ pc[h] = "count" /\ pc'[h] = "morePages"
        \/ pc[h] = "morePages" /\ pc'[h] = "map"
        \/ pc[h] = "map" /\ pc'[h] = "lockTasks"
        \/ LockTasks(h) /\ pc[h] = "lockTasks"
    BY <1>2, Moves DEF IInv, Move, ProcessMove, LoadMove, ChooseMove
  <2> QED
    BY <2>1, ContextKept DEF ReadTask, PageInv, TableInv, DoneInv
<1> QED
  BY <1>1, <1>2

LEMMA OneOpenPageStep ==
  ASSUME IInv, DoneInv, PageInv, [Next]_vars
  PROVE  OneOpenPage'
<1> SUFFICES ASSUME NEW c \in Chunks, NEW d \in Chunks, Open(c)', Open(d)',
                    tasks'[c].pageSlot = tasks'[d].pageSlot
             PROVE  c = d
  BY DEF OneOpenPage
<1>1. CASE LoadInitialPages
  <2>1. ASSUME NEW e \in Chunks, Open(e)'
        PROVE  e = PAGE_SIZE * tasks'[e].pageSlot
    <3>1. tasks'[e] # NoTask /\ tasks'[e].counter = e
      BY <2>1 DEF Open, Start
    <3>2. tasks'[e] = [pageSlot |-> e \div PAGE_SIZE, localChunk |-> e % PAGE_SIZE,
                       counter |-> e - (e % PAGE_SIZE)]
          /\ e - (e % PAGE_SIZE) = PAGE_SIZE * (e \div PAGE_SIZE)
      BY <1>1, <3>1, FirstTable
    <3> QED
      BY <3>1, <3>2
  <2> QED
    BY <2>1
<1>2. ASSUME NEW h \in Handlers, AddTask(h), NEW a \in Chunks, NEW b \in Chunks,
             a = loadedTasks, a = Base, tasks'[a].pageSlot = Task(h).pageSlot,
             Open(b), tasks'[b] = tasks[b], tasks'[a].pageSlot = tasks'[b].pageSlot
      PROVE  FALSE
  <2>1. pc[h] \in Loading
    BY <1>2 DEF AddTask, At, Loading
  <2>2. Base < loadedTasks
    BY <1>2, <2>1 DEF PageInv, SlotInv, LoaderSlot
  <2> QED
    BY <1>2, <2>2, ConstantsAssumption, SMT DEF Chunks
<1>3. CASE ~LoadInitialPages
  BY <1>2, <1>3, OpenStep DEF PageInv, SlotInv, OneOpenPage
<1> QED
  BY <1>1, <1>3

LEMMA LoaderSlotStep ==
  ASSUME IInv, DoneInv, PageInv, [Next]_vars
  PROVE  LoaderSlot'
<1> SUFFICES ASSUME NEW h \in Handlers, pc'[h] \in Loading, NEW c \in Chunks, Open(c)',
                    tasks'[c].pageSlot = Task(h)'.pageSlot
             PROVE  pc'[h] = "addTask" /\ c = Base' /\ Base' < loadedTasks'
  BY DEF LoaderSlot
<1>1. ~LoadInitialPages
  <2>1. LoadInitialPages => pc'[h] = pc[h] /\ WaitsForTask(h)
    BY DEF LoadInitialPages, handlerVars, DoneInv, BeforeStart
  <2> QED
    BY <2>1 DEF Loading, WaitsForTask
<1>2. Task(h)' = Task(h) /\ (pc[h] \in Loading \/ (CountChunk(h) /\ LastOfPage(Task(h).counter)))
  BY LoaderStep
<1>3. CASE CountChunk(h) /\ LastOfPage(Task(h).counter)
  <2>1. /\ Task(h).counter \in Chunks /\ Start(Task(h).counter)
        /\ tasks[Task(h).counter].pageSlot = Task(h).pageSlot
        /\ Uncounted(Task(h).counter) = {currentTask[h]}
        /\ Uncounted(c)' = Uncounted(c) \ {currentTask[h]}
    BY <1>3, CountsChunk, LastChunk DEF PageInv
  <2>2. Open(c) /\ tasks'[c] = tasks[c]
    <3>1. ~\E g \in Handlers : AddTask(g)
      <4>1. \A g \in Handlers : AddTask(g) => loadedTasks' = loadedTasks + 1 /\ loadedTasks \in Chunks
        BY AddsTask
      <4>2. loadedTasks' = loadedTasks
        BY <1>3 DEF CountChunk
      <4> QED
        BY <4>1, <4>2, ConstantsAssumption, SMT DEF Chunks
    <3> QED
      BY <1>1, <3>1, OpenStep
  <2>3. c = Task(h).counter
    BY <1>2, <2>1, <2>2 DEF PageInv, SlotInv, OneOpenPage, Open
  <2>4. Uncounted(c)' = {}
    BY <2>1, <2>3
  <2> QED
    BY <2>4 DEF Open
<1>4. CASE pc[h] \in Loading
  <2>1. CASE Open(c) /\ tasks'[c] = tasks[c]
    <3>1. pc[h] = "addTask" /\ c = Base /\ Base < loadedTasks
      BY <1>2, <1>4, <2>1 DEF PageInv, SlotInv, LoaderSlot
    <3>2. pc'[h] = "addTask"
      <4>1. pc'[h] # pc[h] => pc'[h] = "lockAvailable"
        BY <3>1, Moves DEF IInv, Move, ProcessMove, LoadMove, ChooseMove
      <4> QED
        BY <3>1, <4>1 DEF Loading
    <3>3. \A g \in Handlers : AddTask(g) => g = h
      <4>1. \A g \in Handlers : AddTask(g) => pc[g] = "addTask"
        BY AddsTask
      <4> QED
        BY <3>1, <4>1 DEF PageInv, TableInv, LoaderLocked
    <3>4. Base' = Base
      <4>1. ~AddTask(h) => Base' = Base
        BY <1>1, <3>3, BaseStep DEF DoneInv, PageInv, TableInv
      <4>2. AddTask(h) => Base' = Base
        BY <3>2, BaseStep DEF DoneInv, PageInv, TableInv
      <4> QED
        BY <4>1, <4>2
    <3>5. loadedTasks' = loadedTasks \/ loadedTasks' = loadedTasks + 1
      BY <1>1, TaskFrame DEF taskVars, CountChunk, AddTask, DispatchParked, TakeTask
    <3>6. Base' < loadedTasks'
      BY <3>1, <3>4, <3>5, BaseOfLoader, SMT DEF PageInv, TableInv, IInv, TypeOK, TaskTypes
    <3> QED
      BY <3>1, <3>2, <3>4, <3>6
  <2>2. ASSUME NEW g \in Handlers, AddTask(g), c = loadedTasks, c = Base,
               tasks'[c].pageSlot = Task(g).pageSlot
        PROVE  pc'[h] = "addTask" /\ c = Base' /\ Base' < loadedTasks'
    <3>1. pc[g] = "addTask" /\ loadedTasks \in Chunks /\ loadedTasks' = loadedTasks + 1
      BY <2>2, AddsTask
    <3>2. g = h
      BY <1>2, <1>4, <2>2, <3>1 DEF PageInv, SlotInv, LoadersApart, Loading
    <3>3. Base' = Base /\ pc' = pc
      BY <2>2, <3>2, BaseStep DEF DoneInv, PageInv, TableInv, Loading
    <3>4. loadedTasks < loadedTasks'
      BY <3>1, ConstantsAssumption, SMT DEF Chunks
    <3>5. c = Base' /\ pc'[h] = "addTask"
      BY <2>2, <3>1, <3>2, <3>3, Zenon
    <3>6. Base' < loadedTasks'
      BY <2>2, <3>4, <3>5, Zenon
    <3> QED
      BY <3>5, <3>6
  <2> QED
    BY <1>1, <2>1, <2>2, OpenStep
<1> QED
  BY <1>2, <1>3, <1>4

LEMMA LoadersApartStep ==
  ASSUME IInv, DoneInv, PageInv, [Next]_vars
  PROVE  LoadersApart'
<1> SUFFICES ASSUME NEW g \in Handlers, NEW h \in Handlers, g # h,
                    pc'[g] \in Loading, pc'[h] \in Loading
             PROVE  Task(g).pageSlot # Task(h).pageSlot
  BY LoaderStep DEF LoadersApart
<1>1. CASE pc[g] \in Loading /\ pc[h] \in Loading
  BY <1>1 DEF PageInv, SlotInv, LoadersApart
<1>2. ASSUME NEW k \in Handlers, CountChunk(k), NEW l \in Handlers, l # k
      PROVE  pc'[l] = pc[l]
  BY <1>2 DEF CountChunk, Goto, IInv, TypeOK, HandlerTypes
<1>3. CASE CountChunk(g) /\ LastOfPage(Task(g).counter)
  BY <1>2, <1>3, LastNotLoading
<1>4. CASE CountChunk(h) /\ LastOfPage(Task(h).counter)
  BY <1>2, <1>4, LastNotLoading
<1> QED
  BY <1>1, <1>3, <1>4, LoaderStep

LEMMA InitPage == Init => PageInv
<1> SUFFICES ASSUME Init
             PROVE  PageInv
  OBVIOUS
<1>1. \A c \in Chunks : ~Start(c)
  BY DEF Init, Start
<1>2. \A h \in Handlers : pc[h] \notin Loading
  BY DEF Init, Loading
<1> QED
  BY <1>1, <1>2, InitTable DEF PageInv, CountExact, SlotInv, OneOpenPage, Open, LoaderSlot, LoadersApart

LEMMA NextPage == IInv /\ DoneInv /\ PageInv /\ [Next]_vars => PageInv'
  BY TableInvStep, CountExactStep, OneOpenPageStep, LoaderSlotStep, LoadersApartStep
     DEF PageInv, SlotInv

LEMMA PageInvariance == Spec => [](IInv /\ DoneInv /\ PageInv)
<1>1. IInv /\ DoneInv /\ PageInv /\ [Next]_vars => (IInv /\ DoneInv /\ PageInv)'
  BY NextInv, NextDone, NextPage
<1> QED
  BY <1>1, InitInv, InitDone, InitPage, PTL DEF Spec

\* The step lemma of PageStable.
LEMMA PageOfTaskKept ==
  ASSUME IInv, DoneInv, PageInv, [Next]_vars, NEW t \in Chunks,
         tasks[t] # NoTask, output[t] = NoOutput
  PROVE  i_pages'[tasks[t].pageSlot] = i_pages[tasks[t].pageSlot]
<1> DEFINE c == tasks[t].counter
           s == tasks[t].pageSlot
<1>1. c \in Chunks /\ Start(c) /\ t \in Uncounted(c) /\ Open(c) /\ tasks[c].pageSlot = s
  BY GroupOf DEF PageInv, Uncounted, Counted, Open
<1>2. ~LoadInitialPages
  BY LoadedKept DEF DoneInv, PageInv, TableInv
<1>3. s \in Slots /\ i_pages \in [Slots -> Int]
  BY DEF IInv, TypeOK, TaskTypes, TaskContext, PageTypes
<1>4. ASSUME NEW h \in Handlers, CountChunk(h)
      PROVE  i_pages'[s] = i_pages[s]
  <2>1. ASSUME LastOfPage(Task(h).counter), Task(h).pageSlot = s
        PROVE  FALSE
    <3>1. /\ Task(h).counter \in Chunks /\ Start(Task(h).counter)
          /\ tasks[Task(h).counter].pageSlot = s /\ Uncounted(Task(h).counter) = {currentTask[h]}
          /\ output[currentTask[h]] # NoOutput
      BY <1>4, <2>1, CountsChunk, LastChunk DEF PageInv
    <3>2. Open(Task(h).counter)
      BY <3>1 DEF Open
    <3>3. Task(h).counter = c
      BY <1>1, <3>1, <3>2 DEF PageInv, SlotInv, OneOpenPage
    <3>4. t = currentTask[h]
      BY <1>1, <3>1, <3>3
    <3> QED
      BY <3>1, <3>4
  <2>2. CASE i_pages' = [i_pages EXCEPT ![Task(h).pageSlot] = Unmapped] /\ LastOfPage(Task(h).counter)
    BY <1>3, <2>1, <2>2
  <2> QED
    BY <1>4, <2>2, Zenon DEF CountChunk
<1>5. ASSUME NEW h \in Handlers, MapPage(h)
      PROVE  i_pages'[s] = i_pages[s]
  <2>1. pc[h] = "map"
    BY <1>5 DEF MapPage, At
  <2>2. Task(h).pageSlot # s
    BY <1>1, <2>1 DEF PageInv, SlotInv, LoaderSlot, Loading
  <2>3. \E page : i_pages' = [i_pages EXCEPT ![Task(h).pageSlot] = page]
    BY <1>5, Zenon DEF MapPage
  <2> QED
    BY <1>3, <2>2, <2>3
<1>6. ASSUME NEW h \in Handlers, CountPage(h)
      PROVE  i_pages'[s] = i_pages[s]
  BY <1>6 DEF CountPage
<1> QED
  BY <1>2, <1>4, <1>5, <1>6, PageFrame DEF pageVars

\* No page is replaced while a chunk of it is still to be written, for any number
\* of handlers that load pages at once: the handler that counts a page down to 0
\* counts its last chunk, and the slot it then loads belongs to it alone.
THEOREM PagesAreStable == Spec => PageStable
<1>1. ASSUME IInv, DoneInv, PageInv, [Next]_vars
      PROVE  [\A t \in Chunks : tasks[t] # NoTask /\ output[t] = NoOutput =>
                i_pages'[tasks[t].pageSlot] = i_pages[tasks[t].pageSlot]]_vars
  BY <1>1, PageOfTaskKept
<1> QED
  BY <1>1, PageInvariance, PTL DEF Spec, PageStable

=============================================================================
