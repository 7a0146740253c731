--------------------------- MODULE LocalPoolProofs ---------------------------
(***************************************************************************)
(* Theorems about LocalPool, for every size of the pool, the pages and the *)
(* file.                                                                   *)
(***************************************************************************)
EXTENDS LocalPool, SequenceTheorems, TLAPS

-----------------------------------------------------------------------------
\* The first pages lie within the file.

LEMMA EffectivePages ==
  /\ totalPages \in Nat /\ effectivePages \in Nat
  /\ effectivePages * PAGE_SIZE <= chunkCount
<1>1. totalPages \in Nat /\ totalPages * PAGE_SIZE <= chunkCount
  BY ConstantsAssumption, SMT DEF totalPages
<1>2. effectivePages \in Nat /\ effectivePages <= totalPages
  BY <1>1, ConstantsAssumption, SMT DEF effectivePages
<1>3. effectivePages * PAGE_SIZE <= totalPages * PAGE_SIZE
  BY <1>1, <1>2, ConstantsAssumption, SMT
<1> QED
  BY <1>1, <1>2, <1>3, ConstantsAssumption, SMT

-----------------------------------------------------------------------------
\* The inductive invariant.

\* A handler that has read its task goes on with it until the next page is loaded.
ReadTask == {"salt", "encrypt", "count", "morePages", "map", "lockTasks", "addTask"}
TaskLoaded ==
  \A h \in Handlers : pc[h] \in ReadTask =>
    currentTask[h] \in Chunks /\ tasks[currentTask[h]] \in TaskContext

\* The loader is within the page it fills.
FillBound == \A h \in Handlers : pc[h] = "addTask" => filled[h] < PAGE_SIZE /\ filled[h] <= loadedTasks

\* A barrier is open only while its handler is at it.
OpenAtBarrier == \A h \in Handlers : ~threadBarrier[h] => pc[h] = "barrier"

\* The pool holds handlers that wait for a task, each of them once.
PoolWaits ==
  /\ \A k \in 1 .. Len(availableChunkHandlers) : WaitsForTask(availableChunkHandlers[k])
  /\ \A k, l \in 1 .. Len(availableChunkHandlers) :
       availableChunkHandlers[k] = availableChunkHandlers[l] => k = l

\* Handlers that dcbc() has not started wait outside the pool.
NotStarted ==
  /\ mainPc = "load" => started = 0
  /\ mainPc \in {"load", "start"} =>
       /\ started < POOL_SIZE
       /\ \A h \in started .. POOL_SIZE - 1 :
            /\ WaitsForTask(h)
            /\ \A k \in 1 .. Len(availableChunkHandlers) : availableChunkHandlers[k] # h

\* Tasks are handed out in order; the first POOL_SIZE by dcbc().
HandedOut ==
  /\ mainPc = "start" => pendingTask >= POOL_SIZE
  /\ \A h \in Handlers : Owns(h) =>
       /\ currentTask[h] < pendingTask
       /\ mainPc = "start" => currentTask[h] < started \/ currentTask[h] >= POOL_SIZE

PoolInv == /\ OpenAtBarrier /\ PoolWaits /\ NotStarted /\ HandedOut /\ ExclusiveTask
IInv == TypeOK /\ TaskLoaded /\ FillBound /\ PoolInv

-----------------------------------------------------------------------------
\* Taking the last element of a sequence.
LEMMA LengthButOne ==
  ASSUME NEW n \in Nat \ {0}, NEW m, m = IF 1 <= n - 1 THEN n - 1 - 1 + 1 ELSE 0
  PROVE  m = n - 1
  BY SMT

LEMMA FrontLast ==
  ASSUME NEW S, NEW s \in Seq(S), s # <<>>
  PROVE  /\ Len(s) \in Nat \ {0}
         /\ Last(s) = s[Len(s)] /\ Last(s) \in S
         /\ Front(s) \in Seq(S) /\ Len(Front(s)) = Len(s) - 1
         /\ \A k \in 1 .. Len(s) - 1 : Front(s)[k] = s[k]
<1>1. Len(s) \in Nat \ {0} /\ \A k \in 1 .. Len(s) : s[k] \in S
  OBVIOUS
<1>2. Last(s) = s[Len(s)] /\ Last(s) \in S
  BY <1>1, SMT DEF Last
<1>3. /\ Front(s) \in Seq(S)
      /\ Len(Front(s)) = IF 1 <= Len(s) - 1 THEN Len(s) - 1 - 1 + 1 ELSE 0
      /\ \A k \in 1 .. Len(s) - 1 - 1 + 1 : Front(s)[k] = s[1 + k - 1]
  BY <1>1, SubSeqProperties, SMT DEF Front
<1>4. Len(Front(s)) = Len(s) - 1
  BY <1>1, <1>3, LengthButOne
<1>5. ASSUME NEW k \in 1 .. Len(s) - 1
      PROVE  Front(s)[k] = s[k]
  <2>1. k \in 1 .. Len(s) - 1 - 1 + 1 /\ 1 + k - 1 = k
    BY <1>1, SMT
  <2> QED
    BY <2>1, <1>3
<1> QED
  BY <1>1, <1>2, <1>3, <1>4, <1>5

-----------------------------------------------------------------------------
\* Which steps change what.

\* A step of handler h that hands out no task and does not park.
PrivateStep(h) ==
  /\ UNCHANGED <<currentTask, threadBarrier, availableChunkHandlers, pendingTask, mainVars>>
  /\ pc[h] # "barrier"
  /\ \E label \in Labels \ {"barrier"} :
       /\ pc' = [pc EXCEPT ![h] = label]
       /\ label \in Processing => pc[h] \in Processing
       /\ label \in ReadTask => \/ pc[h] \in ReadTask
                                \/ currentTask[h] \in Chunks /\ Task(h) \in TaskContext
       /\ label = "addTask" => pc[h] = "addTask" \/ LockTasks(h)

IdleStep == UNCHANGED <<pc, currentTask, threadBarrier, availableChunkHandlers, pendingTask,
                        mainVars>>

LEMMA PrivateSteps ==
  ASSUME NEW h \in Handlers, TypeOK,
         \/ HashChunk(h) \/ SetSalt(h) \/ EncryptChunk(h) \/ DecryptChunk(h) \/ CountChunk(h)
         \/ CheckMorePages(h) \/ MapPage(h) \/ LockTasks(h) \/ LockAvailable(h)
         \/ LockPending(h) \/ EndDispatch(h) \/ CountPage(h) \/ NothingLoaded(h)
         \/ NoTaskLeft(h) \/ LockPool(h) \/ Exit(h)
  PROVE  PrivateStep(h)
<1> USE DEF PrivateStep, At, Goto, Labels, Processing, ReadTask
<1>1. HashChunk(h) => PrivateStep(h)
  BY DEF HashChunk, Readable, Task, TypeOK, TaskTypes
<1>2. SetSalt(h) => PrivateStep(h)
  BY DEF SetSalt
<1>3. EncryptChunk(h) => PrivateStep(h)
  BY DEF EncryptChunk, WriteOutput
<1>4. DecryptChunk(h) => PrivateStep(h)
  BY DEF DecryptChunk, WriteOutput, Readable, Task, TypeOK, TaskTypes
<1>5. CountChunk(h) => PrivateStep(h)
  BY DEF CountChunk
<1>6. CheckMorePages(h) => PrivateStep(h)
  BY DEF CheckMorePages
<1>7. MapPage(h) => PrivateStep(h)
  BY DEF MapPage
<1>8. LockTasks(h) => PrivateStep(h)
  BY DEF LockTasks
<1>9. LockAvailable(h) => PrivateStep(h)
  BY DEF LockAvailable
<1>10. LockPending(h) => PrivateStep(h)
  BY DEF LockPending
<1>11. EndDispatch(h) => PrivateStep(h)
  BY DEF EndDispatch
<1>12. CountPage(h) => PrivateStep(h)
  BY DEF CountPage
<1>13. NothingLoaded(h) => PrivateStep(h)
  BY DEF NothingLoaded
<1>14. NoTaskLeft(h) => PrivateStep(h)
  BY DEF NoTaskLeft
<1>15. LockPool(h) => PrivateStep(h)
  BY DEF LockPool
<1>16. Exit(h) => PrivateStep(h)
  BY DEF Exit
<1> QED
  BY <1>1, <1>2, <1>3, <1>4, <1>5, <1>6, <1>7, <1>8, <1>9, <1>10, <1>11, <1>12, <1>13, <1>14, <1>15, <1>16

LEMMA AddTaskStep ==
  ASSUME NEW h \in Handlers, TypeOK, AddTask(h)
  PROVE  PrivateStep(h) \/ IdleStep
  BY DEF AddTask, PrivateStep, IdleStep, At, Goto, Labels, Processing, ReadTask

-----------------------------------------------------------------------------
\* Which steps change the data, the pages, the tasks and the mutexes.

LEMMA DataFrame ==
  ASSUME [Next]_vars
  PROVE  \/ UNCHANGED dataVars
         \/ \E h \in Handlers : SetSalt(h) \/ EncryptChunk(h) \/ DecryptChunk(h)
<1>1. CASE Main \/ Stopped \/ UNCHANGED vars
  BY <1>1 DEF Main, LoadInitialPages, MapInitialPageFails, StartHandler, Finish, Stopped,
       vars
<1>2. ASSUME NEW h \in Handlers, ProcessTask(h)
      PROVE  UNCHANGED dataVars \/ SetSalt(h) \/ EncryptChunk(h) \/ DecryptChunk(h)
  BY <1>2 DEF ProcessTask, ReceiveTask, BadAccess, HashChunk, CountChunk, Fault
<1>3. ASSUME NEW h \in Handlers, LoadPage(h)
      PROVE  UNCHANGED dataVars
  BY <1>3 DEF LoadPage, CheckMorePages, MapPage, LockTasks, AddTask, TaskTableOverflow,
       LockAvailable, LockPending, DispatchParked, EndDispatch, CountPage, Fault
<1>4. ASSUME NEW h \in Handlers, ChooseNext(h)
      PROVE  UNCHANGED dataVars
  BY <1>4 DEF ChooseNext, TakeTask, NothingLoaded, Park, NoTaskLeft, LockPool, StopParked,
       Exit
<1> QED
  BY <1>1, <1>2, <1>3, <1>4 DEF Next, Handle

LEMMA PageFrame ==
  ASSUME [Next]_vars
  PROVE  \/ UNCHANGED pageVars
         \/ LoadInitialPages
         \/ \E h \in Handlers : CountChunk(h) \/ MapPage(h) \/ CountPage(h)
<1>1. CASE Main \/ Stopped \/ UNCHANGED vars
  BY <1>1 DEF Main, LoadInitialPages, MapInitialPageFails, StartHandler, Finish, Stopped,
       vars
<1>2. ASSUME NEW h \in Handlers, ProcessTask(h)
      PROVE  UNCHANGED pageVars \/ CountChunk(h)
  BY <1>2 DEF ProcessTask, ReceiveTask, BadAccess, HashChunk, SetSalt, EncryptChunk,
       DecryptChunk, Fault, WriteOutput
<1>3. ASSUME NEW h \in Handlers, LoadPage(h)
      PROVE  UNCHANGED pageVars \/ MapPage(h) \/ CountPage(h)
  BY <1>3 DEF LoadPage, CheckMorePages, LockTasks, AddTask, TaskTableOverflow, LockAvailable,
       LockPending, DispatchParked, EndDispatch, Fault
<1>4. ASSUME NEW h \in Handlers, ChooseNext(h)
      PROVE  UNCHANGED pageVars
  BY <1>4 DEF ChooseNext, TakeTask, NothingLoaded, Park, NoTaskLeft, LockPool, StopParked,
       Exit
<1> QED
  BY <1>1, <1>2, <1>3, <1>4 DEF Next, Handle

LEMMA TaskFrame ==
  ASSUME [Next]_vars
  PROVE  \/ UNCHANGED <<taskVars, pendingTask>>
         \/ LoadInitialPages
         \/ \E h \in Handlers : \/ CountChunk(h) \/ AddTask(h) \/ DispatchParked(h)
                                  \/ TakeTask(h)
<1>1. CASE Main \/ Stopped \/ UNCHANGED vars
  BY <1>1 DEF Main, LoadInitialPages, MapInitialPageFails, StartHandler, Finish, Stopped,
       vars
<1>2. ASSUME NEW h \in Handlers, ProcessTask(h)
      PROVE  UNCHANGED <<taskVars, pendingTask>> \/ CountChunk(h)
  BY <1>2 DEF ProcessTask, ReceiveTask, BadAccess, HashChunk, SetSalt, EncryptChunk,
       DecryptChunk, Fault, WriteOutput
<1>3. ASSUME NEW h \in Handlers, LoadPage(h)
      PROVE  UNCHANGED <<taskVars, pendingTask>> \/ AddTask(h) \/ DispatchParked(h)
  BY <1>3 DEF LoadPage, CheckMorePages, MapPage, LockTasks, TaskTableOverflow, LockAvailable,
       LockPending, EndDispatch, CountPage, Fault
<1>4. ASSUME NEW h \in Handlers, ChooseNext(h)
      PROVE  UNCHANGED <<taskVars, pendingTask>> \/ TakeTask(h)
  BY <1>4 DEF ChooseNext, NothingLoaded, Park, NoTaskLeft, LockPool, StopParked, Exit
<1> QED
  BY <1>1, <1>2, <1>3, <1>4 DEF Next, Handle

LEMMA LockFrame ==
  ASSUME [Next]_vars
  PROVE  \/ UNCHANGED lockVars
         \/ \E h \in Handlers : \/ LockTasks(h) \/ AddTask(h) \/ LockAvailable(h)
                                  \/ LockPending(h) \/ EndDispatch(h) \/ NoTaskLeft(h) \/ LockPool(h) \/ Exit(h)
<1>1. CASE Main \/ Stopped \/ UNCHANGED vars
  BY <1>1 DEF Main, LoadInitialPages, MapInitialPageFails, StartHandler, Finish, Stopped,
       vars
<1>2. ASSUME NEW h \in Handlers, ProcessTask(h)
      PROVE  UNCHANGED lockVars
  BY <1>2 DEF ProcessTask, ReceiveTask, BadAccess, HashChunk, SetSalt, EncryptChunk,
       DecryptChunk, CountChunk, Fault, WriteOutput
<1>3. ASSUME NEW h \in Handlers, LoadPage(h)
      PROVE  UNCHANGED lockVars \/ LockTasks(h) \/ AddTask(h) \/ LockAvailable(h)
              \/ LockPending(h) \/ EndDispatch(h)
  BY <1>3 DEF LoadPage, CheckMorePages, MapPage, TaskTableOverflow, DispatchParked, CountPage,
       Fault
<1>4. ASSUME NEW h \in Handlers, ChooseNext(h)
      PROVE  UNCHANGED lockVars \/ NoTaskLeft(h) \/ LockPool(h) \/ Exit(h)
  BY <1>4 DEF ChooseNext, TakeTask, NothingLoaded, Park, StopParked
<1> QED
  BY <1>1, <1>2, <1>3, <1>4 DEF Next, Handle

LEMMA PoolFrame ==
  ASSUME [Next]_vars
  PROVE  \/ UNCHANGED availableChunkHandlers
         \/ \E h \in Handlers : DispatchParked(h) \/ Park(h) \/ StopParked(h)
<1>1. CASE Main \/ Stopped \/ UNCHANGED vars
  BY <1>1 DEF Main, LoadInitialPages, MapInitialPageFails, StartHandler, Finish, Stopped,
       vars
<1>2. ASSUME NEW h \in Handlers, ProcessTask(h)
      PROVE  UNCHANGED availableChunkHandlers
  BY <1>2 DEF ProcessTask, ReceiveTask, BadAccess, HashChunk, SetSalt, EncryptChunk,
       DecryptChunk, CountChunk, Fault, WriteOutput
<1>3. ASSUME NEW h \in Handlers, LoadPage(h)
      PROVE  UNCHANGED availableChunkHandlers \/ DispatchParked(h)
  BY <1>3 DEF LoadPage, CheckMorePages, MapPage, LockTasks, AddTask, TaskTableOverflow,
       LockAvailable, LockPending, EndDispatch, CountPage, Fault
<1>4. ASSUME NEW h \in Handlers, ChooseNext(h)
      PROVE  UNCHANGED availableChunkHandlers \/ Park(h) \/ StopParked(h)
  BY <1>4 DEF ChooseNext, TakeTask, NothingLoaded, NoTaskLeft, LockPool, Exit
<1> QED
  BY <1>1, <1>2, <1>3, <1>4 DEF Next, Handle

LEMMA MainFrame ==
  ASSUME [Next]_vars
  PROVE  \/ UNCHANGED <<mainVars, fault>>
         \/ Main
         \/ \E h \in Handlers : BadAccess(h) \/ TaskTableOverflow(h)
<1>1. CASE Stopped \/ UNCHANGED vars
  BY <1>1 DEF Stopped, vars
<1>2. ASSUME NEW h \in Handlers, ProcessTask(h)
      PROVE  UNCHANGED <<mainVars, fault>> \/ BadAccess(h)
  BY <1>2 DEF ProcessTask, ReceiveTask, HashChunk, SetSalt, EncryptChunk, DecryptChunk,
       CountChunk, WriteOutput
<1>3. ASSUME NEW h \in Handlers, LoadPage(h)
      PROVE  UNCHANGED <<mainVars, fault>> \/ TaskTableOverflow(h)
  BY <1>3 DEF LoadPage, CheckMorePages, MapPage, LockTasks, AddTask, LockAvailable,
       LockPending, DispatchParked, EndDispatch, CountPage
<1>4. ASSUME NEW h \in Handlers, ChooseNext(h)
      PROVE  UNCHANGED <<mainVars, fault>>
  BY <1>4 DEF ChooseNext, TakeTask, NothingLoaded, Park, NoTaskLeft, LockPool, StopParked,
       Exit
<1> QED
  BY <1>1, <1>2, <1>3, <1>4 DEF Next, Handle

LEMMA HashFrame ==
  ASSUME [Next]_vars
  PROVE  \/ UNCHANGED hash
         \/ \E h \in Handlers : HashChunk(h)
<1>1. CASE Main \/ Stopped \/ UNCHANGED vars
  BY <1>1 DEF Main, LoadInitialPages, MapInitialPageFails, StartHandler, Finish, Stopped,
       handlerVars, vars
<1>2. ASSUME NEW h \in Handlers, ProcessTask(h)
      PROVE  UNCHANGED hash \/ HashChunk(h)
  BY <1>2 DEF ProcessTask, ReceiveTask, BadAccess, SetSalt, EncryptChunk, DecryptChunk,
       CountChunk, Fault, WriteOutput, handlerVars
<1>3. ASSUME NEW h \in Handlers, LoadPage(h)
      PROVE  UNCHANGED hash
  BY <1>3 DEF LoadPage, CheckMorePages, MapPage, LockTasks, AddTask, TaskTableOverflow,
       LockAvailable, LockPending, DispatchParked, EndDispatch, CountPage, Fault,
       handlerVars
<1>4. ASSUME NEW h \in Handlers, ChooseNext(h)
      PROVE  UNCHANGED hash
  BY <1>4 DEF ChooseNext, TakeTask, NothingLoaded, Park, NoTaskLeft, LockPool, StopParked,
       Exit, handlerVars
<1> QED
  BY <1>1, <1>2, <1>3, <1>4 DEF Next, Handle

LEMMA FilledFrame ==
  ASSUME [Next]_vars
  PROVE  \/ UNCHANGED filled
         \/ \E h \in Handlers : LockTasks(h) \/ AddTask(h)
<1>1. CASE Main \/ Stopped \/ UNCHANGED vars
  BY <1>1 DEF Main, LoadInitialPages, MapInitialPageFails, StartHandler, Finish, Stopped,
       handlerVars, vars
<1>2. ASSUME NEW h \in Handlers, ProcessTask(h)
      PROVE  UNCHANGED filled
  BY <1>2 DEF ProcessTask, ReceiveTask, BadAccess, HashChunk, SetSalt, EncryptChunk,
       DecryptChunk, CountChunk, Fault, WriteOutput, handlerVars
<1>3. ASSUME NEW h \in Handlers, LoadPage(h)
      PROVE  UNCHANGED filled \/ LockTasks(h) \/ AddTask(h)
  BY <1>3 DEF LoadPage, CheckMorePages, MapPage, TaskTableOverflow, LockAvailable, LockPending,
       DispatchParked, EndDispatch, CountPage, Fault, handlerVars
<1>4. ASSUME NEW h \in Handlers, ChooseNext(h)
      PROVE  UNCHANGED filled
  BY <1>4 DEF ChooseNext, TakeTask, NothingLoaded, Park, NoTaskLeft, LockPool, StopParked,
       Exit, handlerVars
<1> QED
  BY <1>1, <1>2, <1>3, <1>4 DEF Next, Handle

-----------------------------------------------------------------------------
\* Type correctness is inductive, with what the loader knows.

LEMMA SaltsOfChunks ==
  ASSUME NEW c \in Int, NEW previous \in Seq(Int)
  PROVE  Combine(c, previous) \in Seq(Int)
  BY DEF Combine

LEMMA DataStep ==
  ASSUME IInv, [Next]_vars
  PROVE  DataTypes'
<1>1. CASE UNCHANGED dataVars
  BY <1>1 DEF IInv, TypeOK, DataTypes, dataVars
<1>2. ASSUME NEW h \in Handlers, SetSalt(h)
      PROVE  DataTypes'
  <2> DEFINE t == currentTask[h]
  <2>1. t \in Chunks /\ hash[h] \in Int
    BY <1>2 DEF IInv, TaskLoaded, ReadTask, SetSalt, At, TypeOK, HandlerTypes
  <2>2. PreviousSalt(t - 1) \in Seq(Int)
    <3>1. IV \in Seq(Int)
      BY DEF IV
    <3>2. ~ t - 1 < 0 => t - 1 \in Chunks
      BY <2>1, ConstantsAssumption, SMT DEF Chunks
    <3> QED
      BY <3>1, <3>2 DEF PreviousSalt, IInv, TypeOK, DataTypes
  <2>3. Combine(hash[h], PreviousSalt(t - 1)) \in Seq(Int)
    BY <2>1, <2>2, SaltsOfChunks
  <2>4. salts' \in [Chunks -> Seq(Int)]
    BY <1>2, <2>3 DEF SetSalt, IInv, TypeOK, DataTypes
  <2>5. isReadyLocked' \in [Chunks -> BOOLEAN] /\ output' = output
    BY <1>2 DEF SetSalt, IInv, TypeOK, DataTypes
  <2> QED
    BY <2>4, <2>5 DEF IInv, TypeOK, DataTypes
<1>3. ASSUME NEW h \in Handlers, EncryptChunk(h) \/ DecryptChunk(h)
      PROVE  DataTypes'
  <2>1. currentTask[h] \in Chunks
    BY <1>3 DEF EncryptChunk, DecryptChunk, WriteOutput, Readable
  <2>2. ChunkRead(h) \in Int
    <3>1. Task(h) \in TaskContext
      BY <1>3, <2>1 DEF EncryptChunk, DecryptChunk, WriteOutput, Readable, Task, IInv, TypeOK, TaskTypes
    <3>2. Page(h) \in Int /\ Task(h).localChunk \in Int
      BY <3>1 DEF TaskContext, Page, IInv, TypeOK, PageTypes
    <3> QED
      BY <3>2, ConstantsAssumption, SMT DEF ChunkRead
  <2>3. [chunk |-> ChunkRead(h), salt |-> salts[currentTask[h]]] \in [chunk : Int, salt : Seq(Int)]
    BY <2>1, <2>2 DEF IInv, TypeOK, DataTypes
  <2> QED
    BY <1>3, <2>3 DEF EncryptChunk, DecryptChunk, WriteOutput, IInv, TypeOK, DataTypes
<1> QED
  BY <1>1, <1>2, <1>3, DataFrame

LEMMA PageStep ==
  ASSUME IInv, [Next]_vars
  PROVE  PageTypes'
<1> USE DEF IInv, TypeOK, PageTypes
<1>1. CASE UNCHANGED pageVars
  BY <1>1 DEF pageVars
<1>2. CASE LoadInitialPages
  BY <1>2, EffectivePages, SMT DEF LoadInitialPages, Slots
<1>3. ASSUME NEW h \in Handlers, CountChunk(h)
      PROVE  PageTypes'
  BY <1>3 DEF CountChunk, Unmapped
<1>4. ASSUME NEW h \in Handlers, MapPage(h)
      PROVE  PageTypes'
  <2>1. PICK page \in Int : i_pages' = [i_pages EXCEPT ![Task(h).pageSlot] = page]
    <3>1. MapFailed \in Int /\ pagesProgress \in Int
      BY DEF MapFailed
    <3> QED
      BY <1>4, <3>1, Zenon DEF MapPage
  <2> QED
    BY <1>4, <2>1 DEF MapPage
<1>5. ASSUME NEW h \in Handlers, CountPage(h)
      PROVE  PageTypes'
  BY <1>5 DEF CountPage
<1> QED
  BY <1>1, <1>2, <1>3, <1>4, <1>5, PageFrame

LEMMA PoolStep ==
  ASSUME IInv, [Next]_vars
  PROVE  PoolTypes'
<1> USE DEF IInv, TypeOK, PoolTypes
<1>1. lockVars' = lockVars => UNCHANGED <<tasksRW, availableChunkHandlersRW, pendingTaskRW>>
  BY DEF lockVars
<1>2. tasksRW' \in Handlers \cup {NoOne} /\ availableChunkHandlersRW' \in Handlers \cup {NoOne}
        /\ pendingTaskRW' \in Handlers \cup {NoOne}
  BY <1>1, LockFrame DEF LockTasks, AddTask, LockAvailable, LockPending, EndDispatch, NoTaskLeft,
       LockPool, Exit
<1>3. ASSUME NEW h \in Handlers, DispatchParked(h) \/ StopParked(h)
      PROVE  availableChunkHandlers' \in Seq(Handlers)
  BY <1>3, FrontLast DEF DispatchParked, StopParked, MoreToDispatch
<1>4. ASSUME NEW h \in Handlers, Park(h)
      PROVE  availableChunkHandlers' \in Seq(Handlers)
  BY <1>4 DEF Park
<1> QED
  BY <1>2, <1>3, <1>4, PoolFrame

LEMMA Division ==
  ASSUME NEW t \in Nat, NEW d \in Nat \ {0}
  PROVE  /\ t \div d \in Nat /\ t % d \in 0 .. d - 1
         /\ (t \div d) * d <= t
<1>1. t \div d \in Nat
  BY SMT
<1>2. t % d \in 0 .. d - 1
  BY SMT
<1>3. (t \div d) * d <= t
  BY SMT
<1> QED
  BY <1>1, <1>2, <1>3

LEMMA LessFactor ==
  ASSUME NEW q \in Nat, NEW e \in Nat, NEW d \in Nat \ {0}, q * d < e * d
  PROVE  q < e
  BY SMT

LEMMA TaskStep ==
  ASSUME IInv, [Next]_vars
  PROVE  TaskTypes'
<1> USE ConstantsAssumption DEF IInv, TypeOK, TaskTypes
<1>1. CASE UNCHANGED <<taskVars, pendingTask>>
  BY <1>1 DEF taskVars
<1>2. CASE LoadInitialPages
  <2>1. ASSUME NEW t \in Chunks, t < effectivePages * PAGE_SIZE
        PROVE  [pageSlot |-> t \div PAGE_SIZE, localChunk |-> t % PAGE_SIZE,
                counter |-> t - (t % PAGE_SIZE)] \in TaskContext
    <3>1. t \div PAGE_SIZE \in Nat /\ t % PAGE_SIZE \in 0 .. PAGE_SIZE - 1
          /\ (t \div PAGE_SIZE) * PAGE_SIZE <= t
      <4>1. t \in Nat
        BY ConstantsAssumption, SMT DEF Chunks
      <4> QED
        BY <4>1, Division
    <3>2. t - (t % PAGE_SIZE) \in Chunks
      BY <2>1, <3>1, SMT DEF Chunks
    <3>3. t \div PAGE_SIZE \in Slots
      <4>1. t \in Nat
        BY ConstantsAssumption, SMT DEF Chunks
      <4>2. (t \div PAGE_SIZE) * PAGE_SIZE < effectivePages * PAGE_SIZE
        BY <2>1, <3>1, <4>1, EffectivePages, SMT
      <4>3. t \div PAGE_SIZE < effectivePages
        BY <3>1, <4>2, EffectivePages, LessFactor
      <4> QED
        BY <3>1, <4>3, EffectivePages, SMT DEF Slots
    <3> QED
      BY <3>1, <3>2, <3>3 DEF TaskContext
  <2>2. tasks' \in [Chunks -> TaskContext \cup {NoTask}]
    BY <1>2, <2>1 DEF LoadInitialPages
  <2>3. remainingPageChunks' \in [Chunks -> Int]
    BY <1>2 DEF LoadInitialPages
  <2>4. loadedTasks' \in 0 .. chunkCount /\ pendingTask' \in Nat
    BY <1>2, EffectivePages, SMT DEF LoadInitialPages
  <2> QED
    BY <2>2, <2>3, <2>4
<1>3. ASSUME NEW h \in Handlers, CountChunk(h)
      PROVE  TaskTypes'
  <2>1. Task(h).counter \in Chunks
    BY <1>3 DEF CountChunk, At, TaskLoaded, ReadTask, Task, TaskContext
  <2>2. remainingPageChunks[Task(h).counter] - 1 \in Int
    BY <2>1, SMT
  <2>3. remainingPageChunks' \in [Chunks -> Int]
    BY <1>3, <2>2 DEF CountChunk
  <2> QED
    BY <1>3, <2>3 DEF CountChunk
<1>4. ASSUME NEW h \in Handlers, AddTask(h)
      PROVE  TaskTypes'
  <2>1. Task(h) \in TaskContext /\ filled[h] \in 0 .. PAGE_SIZE - 1 /\ filled[h] <= loadedTasks
    BY <1>4 DEF AddTask, At, TaskLoaded, ReadTask, FillBound, HandlerTypes, Task
  <2>2. loadedTasks < chunkCount
    BY <1>4, SMT DEF AddTask, TableFull
  <2>3. loadedTasks - filled[h] \in Chunks
    BY <2>1, <2>2, SMT DEF Chunks
  <2>4. [pageSlot |-> Task(h).pageSlot, localChunk |-> filled[h],
         counter |-> loadedTasks - filled[h]] \in TaskContext
    BY <2>1, <2>3 DEF TaskContext
  <2>5. tasks' \in [Chunks -> TaskContext \cup {NoTask}]
    BY <1>4, <2>4 DEF AddTask
  <2>6. remainingPageChunks' \in [Chunks -> Int]
    <3>1. remainingPageChunks' =
            [remainingPageChunks EXCEPT ![loadedTasks - filled[h]] =
               IF filled[h] = 0 THEN PAGE_SIZE ELSE remainingPageChunks[loadedTasks - filled[h]]]
      BY <1>4 DEF AddTask
    <3>2. PAGE_SIZE \in Int /\ remainingPageChunks[loadedTasks - filled[h]] \in Int
      BY <2>3
    <3> QED
      BY <3>1, <3>2
  <2>7. loadedTasks' \in 0 .. chunkCount /\ pendingTask' = pendingTask
    BY <1>4, <2>2, SMT DEF AddTask
  <2> QED
    BY <2>5, <2>6, <2>7
<1>5. ASSUME NEW h \in Handlers, DispatchParked(h) \/ TakeTask(h)
      PROVE  TaskTypes'
  BY <1>5 DEF DispatchParked, TakeTask, taskVars
<1> QED
  BY <1>1, <1>2, <1>3, <1>4, <1>5, TaskFrame

LEMMA MainStep ==
  ASSUME IInv, [Next]_vars
  PROVE  MainTypes'
<1> USE ConstantsAssumption DEF IInv, TypeOK, MainTypes
<1>1. CASE UNCHANGED <<mainVars, fault>>
  BY <1>1 DEF mainVars
<1>2. CASE LoadInitialPages \/ MapInitialPageFails
  BY <1>2 DEF LoadInitialPages, MapInitialPageFails
<1>3. CASE StartHandler
  <2>1. started < POOL_SIZE
    BY <1>3 DEF StartHandler, PoolInv, NotStarted
  <2>2. started' \in 0 .. POOL_SIZE
    BY <1>3, <2>1, SMT DEF StartHandler
  <2> QED
    BY <1>3, <2>2 DEF StartHandler
<1>4. CASE Finish
  <2>1. DOMAIN PersistedSalts \subseteq Chunks /\ PersistedSalts \in [DOMAIN PersistedSalts -> Seq(Int)]
    BY DEF PersistedSalts, DataTypes
  <2> QED
    BY <1>4, <2>1 DEF Finish
<1>5. ASSUME NEW h \in Handlers, BadAccess(h) \/ TaskTableOverflow(h)
      PROVE  MainTypes'
  BY <1>5 DEF BadAccess, TaskTableOverflow, Fault, mainVars
<1> QED
  BY <1>1, <1>2, <1>3, <1>4, <1>5, MainFrame DEF Main

-----------------------------------------------------------------------------
\* The handlers.

\* Every step of the pool is one of these.
LEMMA Steps ==
  ASSUME TypeOK, [Next]_vars
  PROVE  \/ IdleStep /\ UNCHANGED <<hash, filled>>
         \/ LoadInitialPages \/ MapInitialPageFails \/ StartHandler \/ Finish
         \/ \E h \in Handlers : \/ PrivateStep(h) \/ ReceiveTask(h) \/ DispatchParked(h)
                                \/ TakeTask(h) \/ Park(h) \/ StopParked(h)
                                \/ AddTask(h) /\ IdleStep
<1>1. CASE Main
  BY <1>1 DEF Main
<1>2. CASE Stopped \/ UNCHANGED vars
  BY <1>2 DEF Stopped, vars, IdleStep, handlerVars, mainVars
<1>3. ASSUME NEW h \in Handlers, BadAccess(h) \/ TaskTableOverflow(h)
      PROVE  IdleStep /\ UNCHANGED <<hash, filled>>
  BY <1>3 DEF BadAccess, TaskTableOverflow, Fault, IdleStep, handlerVars
<1>4. ASSUME NEW h \in Handlers, AddTask(h)
      PROVE  PrivateStep(h) \/ IdleStep
  BY <1>4, AddTaskStep
<1> QED
  BY <1>1, <1>2, <1>3, <1>4, PrivateSteps DEF Next, Handle, ProcessTask, LoadPage, ChooseNext

\* RunTask is called for a handler that waits at its barrier or for itself.
LEMMA RunTaskTarget ==
  ASSUME IInv
  PROVE  /\ availableChunkHandlers # <<>> =>
              /\ Last(availableChunkHandlers) \in Handlers
              /\ WaitsForTask(Last(availableChunkHandlers))
         /\ StartHandler => started \in Handlers /\ WaitsForTask(started)
<1> USE ConstantsAssumption DEF IInv, TypeOK
<1>1. ASSUME availableChunkHandlers # <<>>
      PROVE  /\ Last(availableChunkHandlers) \in Handlers
             /\ WaitsForTask(Last(availableChunkHandlers))
  <2>1. /\ Len(availableChunkHandlers) \in Nat \ {0}
        /\ Last(availableChunkHandlers) = availableChunkHandlers[Len(availableChunkHandlers)]
        /\ Last(availableChunkHandlers) \in Handlers
    BY <1>1, FrontLast DEF PoolTypes
  <2>2. Len(availableChunkHandlers) \in 1 .. Len(availableChunkHandlers)
    BY <2>1, SMT
  <2> QED
    BY <2>1, <2>2 DEF PoolInv, PoolWaits
<1>2. ASSUME StartHandler
      PROVE  started \in Handlers /\ WaitsForTask(started)
  <2>1. started \in Nat /\ started < POOL_SIZE
    BY <1>2 DEF StartHandler, PoolInv, NotStarted, MainTypes
  <2>2. started \in Handlers /\ started \in started .. POOL_SIZE - 1
    BY <2>1, SMT DEF Handlers
  <2> QED
    BY <1>2, <2>2 DEF StartHandler, PoolInv, NotStarted
<1> QED
  BY <1>1, <1>2

LEMMA HandlerStep ==
  ASSUME IInv, [Next]_vars
  PROVE  HandlerTypes'
<1> USE ConstantsAssumption DEF IInv, TypeOK, HandlerTypes
<1>1. pc' \in [Handlers -> Labels]
  <2>1. CASE UNCHANGED pc
    BY <2>1
  <2>2. ASSUME NEW h \in Handlers, PrivateStep(h)
        PROVE  pc' \in [Handlers -> Labels]
    BY <2>2 DEF PrivateStep
  <2>3. ASSUME NEW h \in Handlers, ReceiveTask(h) \/ TakeTask(h) \/ Park(h)
        PROVE  pc' \in [Handlers -> Labels]
    BY <2>3 DEF ReceiveTask, TakeTask, Park, Goto, Labels
  <2> QED
    BY <2>1, <2>2, <2>3, Steps DEF IdleStep, LoadInitialPages, MapInitialPageFails, StartHandler,
       Finish, DispatchParked, StopParked, handlerVars
<1>2. currentTask' \in [Handlers -> Int] /\ threadBarrier' \in [Handlers -> BOOLEAN]
  <2>1. ASSUME NEW t \in Int, NEW h, RunTask(h, t)
        PROVE  currentTask' \in [Handlers -> Int] /\ threadBarrier' \in [Handlers -> BOOLEAN]
    BY <2>1 DEF RunTask
  <2>2. pendingTask \in Int /\ -1 \in Int /\ started \in Int
    BY DEF TaskTypes, MainTypes
  <2>3. CASE UNCHANGED <<currentTask, threadBarrier>>
    BY <2>3
  <2>4. ASSUME NEW h \in Handlers, ReceiveTask(h)
        PROVE  currentTask' \in [Handlers -> Int] /\ threadBarrier' \in [Handlers -> BOOLEAN]
    BY <2>4 DEF ReceiveTask
  <2> QED
    BY <2>1, <2>2, <2>3, <2>4, Steps DEF IdleStep, PrivateStep, LoadInitialPages,
       MapInitialPageFails, StartHandler, Finish, DispatchParked, TakeTask, Park, StopParked,
       handlerVars
<1>3. hash' \in [Handlers -> Int]
  <2>1. ASSUME NEW h \in Handlers, HashChunk(h)
        PROVE  hash' \in [Handlers -> Int]
    <3>1. Task(h) \in TaskContext
      BY <2>1 DEF HashChunk, Readable, Task, TaskTypes
    <3>2. Page(h) \in Int /\ Task(h).localChunk \in Int
      BY <3>1 DEF TaskContext, Page, PageTypes
    <3>3. ChunkRead(h) \in Int
      BY <3>2, SMT DEF ChunkRead
    <3> QED
      BY <2>1, <3>3 DEF HashChunk
  <2>2. UNCHANGED hash \/ \E h \in Handlers : HashChunk(h)
    BY HashFrame
  <2> QED
    BY <2>1, <2>2
<1>4. filled' \in [Handlers -> 0 .. PAGE_SIZE]
  <2>1. ASSUME NEW h \in Handlers, LockTasks(h)
        PROVE  filled' \in [Handlers -> 0 .. PAGE_SIZE]
    <3>1. 0 \in 0 .. PAGE_SIZE
      BY SMT
    <3> QED
      BY <2>1, <3>1 DEF LockTasks
  <2>2. ASSUME NEW h \in Handlers, AddTask(h)
        PROVE  filled' \in [Handlers -> 0 .. PAGE_SIZE]
    <3>1. filled[h] + 1 \in 0 .. PAGE_SIZE
      BY <2>2, SMT DEF AddTask, At, FillBound
    <3>2. filled' = [filled EXCEPT ![h] = filled[h] + 1]
      BY <2>2 DEF AddTask
    <3> QED
      BY <3>1, <3>2
  <2> QED
    BY <2>1, <2>2, FilledFrame
<1> QED
  BY <1>1, <1>2, <1>3, <1>4

LEMMA TaskLoadedStep ==
  ASSUME IInv, [Next]_vars
  PROVE  TaskLoaded'
<1> USE ConstantsAssumption
<1>1. TypeOK /\ TaskTypes' /\ TaskLoaded
  BY TaskStep DEF IInv
<1>2. CASE LoadInitialPages
  <2>1. \A h \in Handlers : h \in started .. POOL_SIZE - 1
    BY <1>2, SMT DEF LoadInitialPages, IInv, PoolInv, NotStarted, Handlers
  <2>2. \A h \in Handlers : pc'[h] = "barrier"
    BY <1>2, <2>1 DEF LoadInitialPages, IInv, PoolInv, NotStarted, WaitsForTask, handlerVars
  <2> QED
    BY <2>2 DEF TaskLoaded, ReadTask
<1>3. CASE ~LoadInitialPages
  <2>1. \A t \in Chunks : tasks[t] \in TaskContext => tasks'[t] \in TaskContext
    <3>1. ASSUME NEW h \in Handlers, AddTask(h)
          PROVE  \A t \in Chunks : tasks[t] \in TaskContext => tasks'[t] \in TaskContext
      <4>1. loadedTasks \in Chunks
        BY <1>1, <3>1, SMT DEF AddTask, TableFull, TypeOK, TaskTypes, Chunks
      <4>2. tasks'[loadedTasks] # NoTask
        <5>1. tasks'[loadedTasks].localChunk = filled[h]
          BY <1>1, <3>1, <4>1 DEF AddTask, TypeOK, TaskTypes
        <5>2. filled[h] # -1
          BY <1>1, SMT DEF TypeOK, HandlerTypes
        <5> QED
          BY <5>1, <5>2 DEF NoTask
      <4>3. tasks'[loadedTasks] \in TaskContext
        BY <1>1, <4>1, <4>2 DEF TaskTypes
      <4>4. \A t \in Chunks : t # loadedTasks => tasks'[t] = tasks[t]
        BY <1>1, <3>1 DEF AddTask, TypeOK, TaskTypes
      <4> QED
        BY <4>3, <4>4
    <3>2. CASE UNCHANGED tasks
      BY <3>2
    <3> QED
      BY <1>3, <3>1, <3>2, TaskFrame DEF CountChunk, DispatchParked, TakeTask, taskVars
  <2>2. ASSUME NEW g \in Handlers, pc'[g] \in ReadTask
        PROVE  /\ currentTask'[g] = currentTask[g]
               /\ currentTask[g] \in Chunks /\ tasks[currentTask[g]] \in TaskContext
    <3>1. ASSUME NEW h \in Handlers, NEW t, RunTask(h, t), pc'[h] \notin ReadTask,
                 \A k \in Handlers : pc'[k] \in ReadTask => pc'[k] = pc[k]
          PROVE  currentTask'[g] = currentTask[g] /\ pc[g] \in ReadTask
      BY <1>1, <2>2, <3>1 DEF RunTask, TypeOK, HandlerTypes
    <3>2. ASSUME NEW h \in Handlers, PrivateStep(h)
          PROVE  currentTask'[g] = currentTask[g]
                 /\ \/ pc[g] \in ReadTask
                    \/ currentTask[g] \in Chunks /\ Task(g) \in TaskContext
      <4>1. PICK label \in Labels :
              /\ pc' = [pc EXCEPT ![h] = label] /\ currentTask' = currentTask
              /\ label \in ReadTask => \/ pc[h] \in ReadTask
                                       \/ currentTask[h] \in Chunks /\ Task(h) \in TaskContext
        BY <3>2 DEF PrivateStep
      <4>2. CASE g = h
        <5>1. label \in ReadTask
          BY <1>1, <2>2, <4>1, <4>2 DEF TypeOK, HandlerTypes
        <5> QED
          BY <4>1, <4>2, <5>1, SMT DEF Task
      <4>3. CASE g # h
        <5>1. pc'[g] = pc[g]
          BY <1>1, <4>1, <4>3 DEF TypeOK, HandlerTypes
        <5> QED
          BY <2>2, <4>1, <5>1, SMT
      <4> QED
        BY <4>2, <4>3
    <3>3. ASSUME NEW h \in Handlers, ReceiveTask(h) \/ Park(h)
          PROVE  currentTask'[g] = currentTask[g] /\ pc[g] \in ReadTask
      BY <1>1, <2>2, <3>3 DEF ReceiveTask, Park, Goto, ReadTask, TypeOK, HandlerTypes
    <3>4. CASE IdleStep \/ MapInitialPageFails \/ Finish
      BY <1>1, <2>2, <3>4 DEF IdleStep, MapInitialPageFails, Finish, handlerVars, TaskLoaded
    <3>5. CASE StartHandler
      BY <1>1, <2>2, <3>1, <3>5, RunTaskTarget DEF StartHandler, WaitsForTask, ReadTask, TaskLoaded
    <3>6. ASSUME NEW h \in Handlers, DispatchParked(h) \/ StopParked(h)
          PROVE  currentTask'[g] = currentTask[g] /\ pc[g] \in ReadTask
      BY <1>1, <2>2, <3>1, <3>6, RunTaskTarget DEF DispatchParked, StopParked, MoreToDispatch,
           WaitsForTask, ReadTask
    <3>7. ASSUME NEW h \in Handlers, TakeTask(h)
          PROVE  currentTask'[g] = currentTask[g] /\ pc[g] \in ReadTask
      BY <1>1, <2>2, <3>7 DEF TakeTask, RunTask, Goto, ReadTask, TypeOK, HandlerTypes
    <3> QED
      BY <1>1, <1>3, <3>2, <3>3, <3>4, <3>5, <3>6, <3>7, Steps DEF TaskLoaded, Task
  <2> QED
    BY <2>1, <2>2 DEF TaskLoaded
<1> QED
  BY <1>2, <1>3

LEMMA FillBoundStep ==
  ASSUME IInv, [Next]_vars
  PROVE  FillBound'
<1> USE ConstantsAssumption
<1>1. TypeOK /\ FillBound
  BY DEF IInv
<1> SUFFICES ASSUME NEW g \in Handlers, pc'[g] = "addTask"
             PROVE  filled'[g] < PAGE_SIZE /\ filled'[g] <= loadedTasks'
  BY DEF FillBound
<1>2. ASSUME NEW h \in Handlers, LockTasks(h)
      PROVE  filled'[g] < PAGE_SIZE /\ filled'[g] <= loadedTasks'
  <2>1. CASE g = h
    BY <1>1, <1>2, <2>1, SMT DEF LockTasks, taskVars, TypeOK, HandlerTypes, TaskTypes
  <2>2. CASE g # h
    BY <1>1, <1>2, <2>2 DEF LockTasks, Goto, taskVars, TypeOK, HandlerTypes, FillBound
  <2> QED
    BY <2>1, <2>2
<1>3. ASSUME NEW h \in Handlers, AddTask(h)
      PROVE  filled'[g] < PAGE_SIZE /\ filled'[g] <= loadedTasks'
  <2>1. loadedTasks' = loadedTasks + 1 /\ filled' = [filled EXCEPT ![h] = filled[h] + 1]
    BY <1>3 DEF AddTask
  <2>2. filled'[h] = PAGE_SIZE => pc'[h] = "lockAvailable"
    BY <1>1, <1>3 DEF AddTask, Goto, TypeOK, HandlerTypes
  <2>3. pc[h] = "addTask" /\ (g # h => pc[g] = "addTask")
    BY <1>1, <1>3 DEF AddTask, At, Goto, TypeOK, HandlerTypes
  <2>4. CASE g = h
    <3>1. filled'[h] = filled[h] + 1 /\ filled[h] < PAGE_SIZE /\ filled[h] <= loadedTasks
      BY <1>1, <2>1, <2>3 DEF FillBound, TypeOK, HandlerTypes
    <3>2. filled'[h] # PAGE_SIZE
      BY <2>2, <2>4
    <3> QED
      BY <1>1, <2>1, <2>4, <3>1, <3>2, SMT DEF TypeOK, HandlerTypes, TaskTypes
  <2>5. CASE g # h
    <3>1. filled'[g] = filled[g] /\ filled[g] < PAGE_SIZE /\ filled[g] <= loadedTasks
      BY <1>1, <2>1, <2>3, <2>5 DEF FillBound, TypeOK, HandlerTypes
    <3> QED
      BY <1>1, <2>1, <3>1, SMT DEF TypeOK, HandlerTypes, TaskTypes
  <2> QED
    BY <2>4, <2>5
<1>4. CASE LoadInitialPages
  <2>1. g \in started .. POOL_SIZE - 1
    BY <1>4, SMT DEF LoadInitialPages, IInv, PoolInv, NotStarted, Handlers
  <2> QED
    BY <1>4, <2>1 DEF LoadInitialPages, IInv, PoolInv, NotStarted, WaitsForTask, handlerVars
<1>5. CASE /\ ~LoadInitialPages
           /\ \A h \in Handlers : ~LockTasks(h) /\ ~AddTask(h)
  <2>1. filled' = filled /\ loadedTasks' = loadedTasks
    BY <1>5, FilledFrame, TaskFrame DEF CountChunk, DispatchParked, TakeTask, taskVars
  <2>2. pc[g] = "addTask"
    BY <1>1, <1>5, Steps DEF IdleStep, PrivateStep, MapInitialPageFails, StartHandler, Finish,
         ReceiveTask, DispatchParked, TakeTask, Park, StopParked, handlerVars, Goto, TypeOK, HandlerTypes
  <2> QED
    BY <1>1, <2>1, <2>2 DEF FillBound
<1> QED
  BY <1>2, <1>3, <1>4, <1>5

-----------------------------------------------------------------------------
\* Handing out tasks.

LEMMA OpenAtBarrierStep ==
  ASSUME IInv, [Next]_vars
  PROVE  OpenAtBarrier'
<1>1. HandlerTypes /\ OpenAtBarrier
  BY DEF IInv, TypeOK, PoolInv
<1>2. ASSUME NEW h \in Handlers, NEW t, RunTask(h, t), pc'[h] = "barrier",
             \A g \in Handlers : g # h => pc'[g] = pc[g]
      PROVE  OpenAtBarrier'
  BY <1>1, <1>2 DEF RunTask, OpenAtBarrier, HandlerTypes
<1>3. ASSUME NEW h \in Handlers, PrivateStep(h)
      PROVE  OpenAtBarrier'
  BY <1>1, <1>3 DEF PrivateStep, OpenAtBarrier, HandlerTypes
<1>4. ASSUME NEW h \in Handlers, ReceiveTask(h) \/ Park(h)
      PROVE  OpenAtBarrier'
  BY <1>1, <1>4 DEF ReceiveTask, Park, Goto, OpenAtBarrier, HandlerTypes
<1>5. CASE IdleStep \/ LoadInitialPages \/ MapInitialPageFails \/ Finish
  BY <1>1, <1>5 DEF IdleStep, LoadInitialPages, MapInitialPageFails, Finish, handlerVars, OpenAtBarrier
<1>6. CASE StartHandler
  BY <1>2, <1>6, RunTaskTarget DEF StartHandler, WaitsForTask
<1>7. ASSUME NEW h \in Handlers, DispatchParked(h) \/ StopParked(h)
      PROVE  OpenAtBarrier'
  BY <1>2, <1>7, RunTaskTarget DEF DispatchParked, StopParked, MoreToDispatch, WaitsForTask
<1>8. ASSUME NEW h \in Handlers, TakeTask(h)
      PROVE  OpenAtBarrier'
  BY <1>1, <1>2, <1>8 DEF TakeTask, Goto, HandlerTypes
<1> QED
  BY <1>3, <1>4, <1>5, <1>6, <1>7, <1>8, Steps DEF IInv

\* A handler other than the target of a RunTask, the receiver of a task and the
\* one that takes a private step keeps waiting; the pool's handlers are none of them.
LEMMA KeepsWaiting ==
  ASSUME IInv, [Next]_vars, NEW g \in Handlers, WaitsForTask(g), ~WaitsForTask(g)'
  PROVE  \/ StartHandler /\ g = started
         \/ /\ \E h \in Handlers : DispatchParked(h) \/ StopParked(h)
            /\ availableChunkHandlers # <<>> /\ g = Last(availableChunkHandlers)
<1>1. HandlerTypes /\ OpenAtBarrier
  BY DEF IInv, TypeOK, PoolInv
<1>2. ASSUME NEW h \in Handlers, NEW t, RunTask(h, t), UNCHANGED pc
      PROVE  g = h
  BY <1>1, <1>2 DEF RunTask, WaitsForTask, HandlerTypes
<1>3. ASSUME NEW h \in Handlers, PrivateStep(h)
      PROVE  FALSE
  BY <1>1, <1>3 DEF PrivateStep, WaitsForTask, HandlerTypes
<1>4. ASSUME NEW h \in Handlers, ReceiveTask(h) \/ Park(h)
      PROVE  FALSE
  BY <1>1, <1>4 DEF ReceiveTask, Park, At, Goto, WaitsForTask, HandlerTypes
<1>5. CASE IdleStep \/ LoadInitialPages \/ MapInitialPageFails \/ Finish
  BY <1>5 DEF IdleStep, LoadInitialPages, MapInitialPageFails, Finish, handlerVars, WaitsForTask
<1>6. CASE StartHandler
  BY <1>2, <1>6, RunTaskTarget DEF StartHandler
<1>7. ASSUME NEW h \in Handlers, DispatchParked(h) \/ StopParked(h)
      PROVE  availableChunkHandlers # <<>> /\ g = Last(availableChunkHandlers)
  BY <1>2, <1>7, RunTaskTarget DEF DispatchParked, StopParked, MoreToDispatch
<1>8. ASSUME NEW h \in Handlers, TakeTask(h)
      PROVE  FALSE
  BY <1>1, <1>8 DEF TakeTask, At, Goto, RunTask, WaitsForTask, HandlerTypes
<1> QED
  BY <1>3, <1>4, <1>5, <1>6, <1>7, <1>8, Steps DEF IInv

LEMMA PoolWaitsStep ==
  ASSUME IInv, [Next]_vars
  PROVE  PoolWaits'
<1> DEFINE pool == availableChunkHandlers
<1>1. pool \in Seq(Handlers) /\ PoolWaits /\ HandlerTypes
  BY DEF IInv, TypeOK, PoolInv, PoolTypes
<1>2. CASE UNCHANGED availableChunkHandlers /\ ~StartHandler
             /\ \A h \in Handlers : ~DispatchParked(h) /\ ~StopParked(h)
  <2>1. ASSUME NEW k \in 1 .. Len(pool)
        PROVE  WaitsForTask(pool[k])'
    BY <1>1, <1>2, <2>1, KeepsWaiting DEF PoolWaits
  <2> QED
    BY <1>1, <1>2, <2>1 DEF PoolWaits
<1>3. CASE StartHandler
  <2>1. ASSUME NEW k \in 1 .. Len(pool)
        PROVE  WaitsForTask(pool[k])'
    <3>1. pool[k] \in Handlers /\ WaitsForTask(pool[k])
      BY <1>1, <2>1 DEF PoolWaits
    <3>2. started \in started .. POOL_SIZE - 1 /\ mainPc = "start"
      BY <1>3, ConstantsAssumption, SMT DEF StartHandler, IInv, PoolInv, NotStarted, TypeOK, MainTypes
    <3>3. pool[k] # started
      BY <2>1, <3>2 DEF IInv, PoolInv, NotStarted
    <3>4. pc'[pool[k]] = pc[pool[k]] /\ threadBarrier'[pool[k]] = threadBarrier[pool[k]]
      BY <1>1, <1>3, <3>1, <3>3 DEF StartHandler, RunTask, HandlerTypes
    <3>5. pool' = pool
      BY <1>3 DEF StartHandler
    <3> QED
      BY <3>1, <3>4, <3>5 DEF WaitsForTask
  <2> QED
    BY <1>1, <1>3, <2>1 DEF PoolWaits, StartHandler
<1>4. ASSUME NEW h \in Handlers, DispatchParked(h) \/ StopParked(h)
      PROVE  PoolWaits'
  <2>1. pool # <<>> /\ pool' = Front(pool)
    BY <1>4 DEF DispatchParked, StopParked, MoreToDispatch
  <2>2. /\ Len(pool) \in Nat \ {0} /\ Last(pool) = pool[Len(pool)]
        /\ Len(Front(pool)) = Len(pool) - 1
        /\ \A k \in 1 .. Len(pool) - 1 : Front(pool)[k] = pool[k]
    BY <1>1, <2>1, FrontLast
  <2>3. ASSUME NEW k \in 1 .. Len(pool')
        PROVE  k \in 1 .. Len(pool) /\ k # Len(pool) /\ pool'[k] = pool[k]
    BY <2>1, <2>2, <2>3, SMT
  <2>4. ASSUME NEW k \in 1 .. Len(pool')
        PROVE  WaitsForTask(pool[k])'
    <3>1. pool[k] \in Handlers /\ WaitsForTask(pool[k])
      BY <1>1, <2>3, <2>4 DEF PoolWaits
    <3>2. pool[k] # Last(pool)
      <4>1. Len(pool) \in 1 .. Len(pool)
        BY <2>2, SMT
      <4>2. pool[k] = pool[Len(pool)] => k = Len(pool)
        BY <1>1, <2>3, <2>4, <4>1 DEF PoolWaits
      <4> QED
        BY <2>2, <2>3, <2>4, <4>2
    <3>3. ~StartHandler
      BY <2>1, <2>2, SMT DEF StartHandler
    <3> QED
      <4>1. PICK g \in Handlers : g = pool[k]
        BY <3>1
      <4>2. WaitsForTask(g)'
        BY <3>1, <3>2, <3>3, <4>1, KeepsWaiting
      <4> QED
        BY <2>3, <2>4, <4>1, <4>2 DEF WaitsForTask
  <2> QED
    BY <1>1, <2>3, <2>4 DEF PoolWaits
<1>5. ASSUME NEW h \in Handlers, Park(h)
      PROVE  PoolWaits'
  <2>1. pool' = Append(pool, h) /\ UNCHANGED threadBarrier /\ pc[h] = "park"
        /\ pc' = [pc EXCEPT ![h] = "barrier"]
    BY <1>5 DEF Park, At, Goto
  <2>2. /\ Len(pool') = Len(pool) + 1 /\ Len(pool) \in Nat
        /\ \A k \in 1 .. Len(pool) : pool'[k] = pool[k]
        /\ pool'[Len(pool) + 1] = h
    BY <1>1, <2>1
  <2>3. WaitsForTask(h)'
    BY <1>1, <2>1 DEF WaitsForTask, IInv, PoolInv, OpenAtBarrier, HandlerTypes
  <2>4. ASSUME NEW k \in 1 .. Len(pool)
        PROVE  WaitsForTask(pool[k])' /\ pool[k] # h
    <3>1. PICK g \in Handlers : g = pool[k]
      BY <1>1, <2>4
    <3>2. pc[g] = "barrier" /\ threadBarrier[g] = TRUE
      BY <1>1, <2>4, <3>1 DEF PoolWaits, WaitsForTask, HandlerTypes
    <3>3. g # h
      BY <2>1, <3>2
    <3>4. pc'[g] = "barrier" /\ threadBarrier'[g] = TRUE
      BY <1>1, <2>1, <3>2, <3>3 DEF HandlerTypes
    <3> QED
      BY <2>2, <2>4, <3>1, <3>3, <3>4 DEF WaitsForTask
  <2>5. \A k \in 1 .. Len(pool') : k \in 1 .. Len(pool) \/ k = Len(pool) + 1
    BY <2>2, SMT
  <2> QED
    BY <1>1, <2>2, <2>3, <2>4, <2>5 DEF PoolWaits
<1> QED
  BY <1>2, <1>3, <1>4, <1>5, PoolFrame

LEMMA NotStartedStep ==
  ASSUME IInv, [Next]_vars
  PROVE  NotStarted'
<1> DEFINE pool == availableChunkHandlers
<1> USE ConstantsAssumption
<1>1. pool \in Seq(Handlers) /\ NotStarted /\ MainTypes
  BY DEF IInv, TypeOK, PoolInv, PoolTypes
<1>2. ASSUME mainPc' \in {"load", "start"}
      PROVE  /\ mainPc \in {"load", "start"}
             /\ started' \in {started, started + 1} /\ started' < POOL_SIZE
             /\ StartHandler => started' = started + 1
  <2>1. CASE UNCHANGED mainVars
    <3>1. ~StartHandler
      BY <1>1, <2>1, SMT DEF StartHandler, mainVars, MainTypes
    <3> QED
      BY <1>1, <1>2, <2>1, <3>1 DEF mainVars, NotStarted
  <2>2. CASE LoadInitialPages
    BY <1>1, <1>2, <2>2 DEF LoadInitialPages, StartHandler, NotStarted
  <2>3. CASE StartHandler
    <3>1. started' # POOL_SIZE /\ started' = started + 1 /\ started \in Nat /\ started < POOL_SIZE
      BY <1>1, <1>2, <2>3 DEF StartHandler, NotStarted, MainTypes
    <3>2. started + 1 < POOL_SIZE
      BY <3>1, SMT
    <3> QED
      BY <2>3, <3>1, <3>2 DEF StartHandler
  <2> QED
    BY <1>2, <2>1, <2>2, <2>3, MainFrame DEF Main, MapInitialPageFails, Finish, BadAccess,
       TaskTableOverflow, Fault
<1>3. ASSUME mainPc' \in {"load", "start"}, NEW g \in started' .. POOL_SIZE - 1
      PROVE  WaitsForTask(g)' /\ \A k \in 1 .. Len(pool') : pool'[k] # g
  <2>1. /\ g \in Handlers /\ g \in started .. POOL_SIZE - 1
        /\ StartHandler => g # started
    BY <1>1, <1>2, <1>3, SMT DEF Handlers, MainTypes
  <2>2. WaitsForTask(g) /\ \A k \in 1 .. Len(pool) : pool[k] # g
    BY <1>1, <1>2, <1>3, <2>1 DEF NotStarted
  <2>3. pool # <<>> => g # Last(pool)
    <3>1. ASSUME pool # <<>>
          PROVE  g # Last(pool)
      <4>1. Len(pool) \in Nat \ {0} /\ Last(pool) = pool[Len(pool)]
        BY <1>1, <3>1, FrontLast
      <4>2. Len(pool) \in 1 .. Len(pool)
        BY <4>1, SMT
      <4> QED
        BY <2>2, <4>1, <4>2
    <3> QED
      BY <3>1
  <2>4. WaitsForTask(g)'
    BY <2>1, <2>2, <2>3, KeepsWaiting
  <2>5. CASE UNCHANGED pool
    BY <2>2, <2>4, <2>5
  <2>6. ASSUME NEW h \in Handlers, DispatchParked(h) \/ StopParked(h)
        PROVE  \A k \in 1 .. Len(pool') : pool'[k] # g
    <3>1. pool # <<>> /\ pool' = Front(pool)
      BY <2>6 DEF DispatchParked, StopParked, MoreToDispatch
    <3>2. /\ Len(pool) \in Nat \ {0} /\ Len(Front(pool)) = Len(pool) - 1
          /\ \A k \in 1 .. Len(pool) - 1 : Front(pool)[k] = pool[k]
      BY <1>1, <3>1, FrontLast
    <3>3. ASSUME NEW k \in 1 .. Len(pool')
          PROVE  k \in 1 .. Len(pool) /\ pool'[k] = pool[k]
      BY <3>1, <3>2, <3>3, SMT
    <3> QED
      BY <2>2, <3>3
  <2>7. ASSUME NEW h \in Handlers, Park(h)
        PROVE  \A k \in 1 .. Len(pool') : pool'[k] # g
    <3>1. pool' = Append(pool, h) /\ g # h
      BY <2>2, <2>7 DEF Park, At, WaitsForTask
    <3>2. /\ Len(pool') = Len(pool) + 1 /\ Len(pool) \in Nat
          /\ \A k \in 1 .. Len(pool) : pool'[k] = pool[k]
          /\ pool'[Len(pool) + 1] = h
      BY <1>1, <3>1
    <3>3. \A k \in 1 .. Len(pool') : k \in 1 .. Len(pool) \/ k = Len(pool) + 1
      BY <3>2, SMT
    <3> QED
      BY <2>2, <3>1, <3>2, <3>3
  <2> QED
    BY <2>4, <2>5, <2>6, <2>7, PoolFrame
<1>4. mainPc' = "load" => started' = 0
  BY <1>1, MainFrame DEF NotStarted, mainVars, Main, LoadInitialPages, MapInitialPageFails,
     StartHandler, Finish, BadAccess, TaskTableOverflow, Fault
<1> QED
  BY <1>2, <1>3, <1>4 DEF NotStarted

\* A step makes at most one handler the owner of a task.
NewOwner(n) ==
  /\ \A g \in Handlers : g # n /\ Owns(g)' => Owns(g) /\ currentTask'[g] = currentTask[g]
  /\ \/ StartHandler /\ n = started /\ currentTask'[n] = started
     \/ /\ currentTask'[n] = pendingTask /\ pendingTask' = pendingTask + 1
        /\ UNCHANGED <<mainPc, started>>

LEMMA OwnerStep ==
  ASSUME IInv, [Next]_vars
  PROVE  \/ \A g \in Handlers : Owns(g)' => Owns(g) /\ currentTask'[g] = currentTask[g]
         \/ \E n \in Handlers : NewOwner(n)
<1>1. HandlerTypes /\ OpenAtBarrier
  BY DEF IInv, TypeOK, PoolInv
<1>2. ASSUME NEW h \in Handlers, NEW t, RunTask(h, t), UNCHANGED pc
      PROVE  /\ currentTask'[h] = t
             /\ \A g \in Handlers : g # h /\ Owns(g)' => Owns(g) /\ currentTask'[g] = currentTask[g]
  BY <1>1, <1>2 DEF RunTask, Owns, HandlerTypes
<1>3. ASSUME NEW h \in Handlers, PrivateStep(h), NEW g \in Handlers, Owns(g)'
      PROVE  Owns(g) /\ currentTask'[g] = currentTask[g]
  BY <1>1, <1>3 DEF PrivateStep, Owns, HandlerTypes
<1>4. ASSUME NEW h \in Handlers, ReceiveTask(h) \/ Park(h), NEW g \in Handlers, Owns(g)'
      PROVE  Owns(g) /\ currentTask'[g] = currentTask[g]
  <2>1. CASE g # h
    BY <1>1, <1>4, <2>1 DEF ReceiveTask, Park, Goto, Owns, HandlerTypes
  <2>2. CASE g = h /\ ReceiveTask(h)
    <3>1. pc[h] = "barrier" /\ ~threadBarrier[h] /\ currentTask' = currentTask /\ currentTask[h] \in Int
      BY <1>1, <2>2 DEF ReceiveTask, At, HandlerTypes
    <3>2. ~ currentTask[h] < 0
      BY <1>1, <1>4, <2>2 DEF ReceiveTask, Goto, Owns, Processing, HandlerTypes
    <3>3. currentTask[h] >= 0
      BY <3>1, <3>2, SMT
    <3> QED
      BY <2>2, <3>1, <3>3 DEF Owns
  <2>3. CASE g = h /\ Park(h)
    BY <1>1, <1>4, <2>3 DEF Park, At, Goto, Owns, OpenAtBarrier, Processing, HandlerTypes
  <2> QED
    BY <1>4, <2>1, <2>2, <2>3
<1>5. CASE IdleStep \/ LoadInitialPages \/ MapInitialPageFails \/ Finish
  BY <1>5 DEF IdleStep, LoadInitialPages, MapInitialPageFails, Finish, handlerVars, Owns
<1>6. CASE StartHandler
  <2>1. started \in Handlers /\ NewOwner(started)
    BY <1>2, <1>6, RunTaskTarget DEF StartHandler, NewOwner
  <2> QED
    BY <2>1
<1>7. ASSUME NEW h \in Handlers, DispatchParked(h)
      PROVE  \E n \in Handlers : NewOwner(n)
  <2>1. Last(availableChunkHandlers) \in Handlers
    BY <1>7, RunTaskTarget DEF DispatchParked, MoreToDispatch
  <2>2. NewOwner(Last(availableChunkHandlers))
    BY <1>2, <1>7, <2>1 DEF DispatchParked, NewOwner, mainVars
  <2> QED
    BY <2>1, <2>2
<1>8. ASSUME NEW h \in Handlers, StopParked(h), NEW g \in Handlers, Owns(g)'
      PROVE  Owns(g) /\ currentTask'[g] = currentTask[g]
  <2>1. PICK n \in Handlers : n = Last(availableChunkHandlers) /\ WaitsForTask(n)
    BY <1>8, RunTaskTarget DEF StopParked
  <2>2. RunTask(n, -1) /\ UNCHANGED pc
    BY <1>8, <2>1 DEF StopParked
  <2>3. g # n
    <3>1. currentTask'[n] = -1 /\ pc'[n] = "barrier"
      BY <1>1, <2>1, <2>2 DEF RunTask, WaitsForTask, HandlerTypes
    <3>2. ~Owns(n)'
      BY <3>1, SMT DEF Owns, Processing
    <3> QED
      BY <1>8, <3>2
  <2> QED
    BY <1>2, <1>8, <2>2, <2>3
<1>9. ASSUME NEW h \in Handlers, TakeTask(h)
      PROVE  NewOwner(h)
  <2>1. currentTask'[h] = pendingTask /\ pendingTask' = pendingTask + 1 /\ UNCHANGED mainVars
    BY <1>1, <1>9 DEF TakeTask, RunTask, HandlerTypes
  <2>2. ASSUME NEW g \in Handlers, g # h, Owns(g)'
        PROVE  Owns(g) /\ currentTask'[g] = currentTask[g]
    BY <1>1, <1>9, <2>2 DEF TakeTask, RunTask, Goto, Owns, HandlerTypes
  <2> QED
    BY <2>1, <2>2 DEF NewOwner, mainVars
<1> QED
  BY <1>3, <1>4, <1>5, <1>6, <1>7, <1>8, <1>9, Steps DEF IInv

LEMMA HandedOutStep ==
  ASSUME IInv, [Next]_vars
  PROVE  HandedOut'
<1> USE ConstantsAssumption
<1>1. HandedOut /\ HandlerTypes /\ TaskTypes /\ MainTypes /\ NotStarted
  BY DEF IInv, TypeOK, PoolInv
<1>2. pendingTask' \in Nat /\ (pendingTask' >= pendingTask \/ LoadInitialPages)
  <2>1. CASE pendingTask' = pendingTask \/ pendingTask' = pendingTask + 1
    BY <1>1, <2>1, SMT DEF TaskTypes
  <2>2. CASE LoadInitialPages
    BY <2>2 DEF LoadInitialPages
  <2> QED
    BY <2>1, <2>2, TaskFrame DEF CountChunk, AddTask, DispatchParked, TakeTask
<1>3. mainPc' = "start" => \/ mainPc = "start" /\ started' \in {started, started + 1}
                           \/ LoadInitialPages
  BY MainFrame DEF mainVars, Main, MapInitialPageFails, StartHandler, Finish, BadAccess,
     TaskTableOverflow, Fault
<1>4. mainPc' = "start" => pendingTask' >= POOL_SIZE
  <2>1. CASE LoadInitialPages
    BY <2>1, SMT DEF LoadInitialPages
  <2>2. CASE ~LoadInitialPages
    BY <1>1, <1>2, <1>3, <2>2, SMT DEF HandedOut, TaskTypes
  <2> QED
    BY <2>1, <2>2
<1>5. CASE LoadInitialPages
  <2>1. ASSUME NEW g \in Handlers
        PROVE  ~Owns(g)'
    <3>1. g \in started .. POOL_SIZE - 1
      BY <1>1, <1>5, SMT DEF LoadInitialPages, NotStarted, Handlers
    <3>2. pc'[g] = "barrier" /\ threadBarrier'[g]
      BY <1>1, <1>5, <3>1 DEF LoadInitialPages, NotStarted, WaitsForTask, handlerVars
    <3> QED
      BY <3>2 DEF Owns, Processing
  <2> QED
    BY <1>4, <2>1 DEF HandedOut
<1>6. ASSUME ~LoadInitialPages, NEW g \in Handlers, Owns(g), currentTask'[g] = currentTask[g]
      PROVE  /\ currentTask'[g] < pendingTask'
             /\ mainPc' = "start" => currentTask'[g] < started' \/ currentTask'[g] >= POOL_SIZE
  <2>1. currentTask[g] \in Int /\ currentTask[g] < pendingTask
    BY <1>1, <1>6 DEF HandedOut, HandlerTypes
  <2>2. currentTask'[g] < pendingTask'
    BY <1>1, <1>2, <1>6, <2>1, SMT DEF TaskTypes
  <2>3. ASSUME mainPc' = "start"
        PROVE  currentTask'[g] < started' \/ currentTask'[g] >= POOL_SIZE
    <3>1. currentTask[g] < started \/ currentTask[g] >= POOL_SIZE
      BY <1>1, <1>3, <1>6, <2>3 DEF HandedOut
    <3>2. started' = started \/ started' = started + 1
      BY <1>3, <1>6, <2>3
    <3> QED
      BY <1>1, <1>6, <2>1, <3>1, <3>2, SMT DEF MainTypes
  <2> QED
    BY <2>2, <2>3
<1>7. ASSUME ~LoadInitialPages, NEW n \in Handlers, NewOwner(n)
      PROVE  /\ currentTask'[n] < pendingTask'
             /\ mainPc' = "start" => currentTask'[n] < started' \/ currentTask'[n] >= POOL_SIZE
  <2>1. CASE StartHandler /\ n = started /\ currentTask'[n] = started
    <3>1. started' = started + 1 /\ pendingTask' = pendingTask /\ mainPc = "start"
      BY <2>1 DEF StartHandler
    <3>2. pendingTask >= POOL_SIZE /\ started < POOL_SIZE
      BY <1>1, <3>1 DEF HandedOut, NotStarted
    <3> QED
      BY <1>1, <2>1, <3>1, <3>2, SMT DEF TaskTypes, MainTypes
  <2>2. CASE /\ currentTask'[n] = pendingTask /\ pendingTask' = pendingTask + 1
             /\ UNCHANGED <<mainPc, started>>
    BY <1>1, <2>2, SMT DEF HandedOut, TaskTypes
  <2> QED
    BY <1>7, <2>1, <2>2 DEF NewOwner
<1>8. ASSUME ~LoadInitialPages, NEW g \in Handlers, Owns(g)'
      PROVE  /\ currentTask'[g] < pendingTask'
             /\ mainPc' = "start" => currentTask'[g] < started' \/ currentTask'[g] >= POOL_SIZE
  BY <1>6, <1>7, <1>8, OwnerStep DEF NewOwner
<1> QED
  BY <1>4, <1>5, <1>8 DEF HandedOut

LEMMA ExclusiveTaskStep ==
  ASSUME IInv, [Next]_vars
  PROVE  ExclusiveTask'
<1> USE ConstantsAssumption
<1>1. HandedOut /\ ExclusiveTask /\ HandlerTypes /\ TaskTypes /\ MainTypes
  BY DEF IInv, TypeOK, PoolInv
<1>2. CASE \A g \in Handlers : Owns(g)' => Owns(g) /\ currentTask'[g] = currentTask[g]
  BY <1>1, <1>2 DEF ExclusiveTask
<1>3. ASSUME NEW n \in Handlers, NewOwner(n)
      PROVE  ExclusiveTask'
  <2>1. ASSUME NEW g \in Handlers, g # n, Owns(g)'
        PROVE  currentTask'[g] # currentTask'[n]
    <3>1. Owns(g) /\ currentTask'[g] = currentTask[g] /\ currentTask[g] \in Int
      BY <1>1, <1>3, <2>1 DEF NewOwner, HandlerTypes
    <3>2. CASE StartHandler /\ currentTask'[n] = started
      <4>1. currentTask[g] < started \/ currentTask[g] >= POOL_SIZE
        BY <1>1, <3>1, <3>2 DEF HandedOut, StartHandler
      <4>2. started < POOL_SIZE
        BY <3>2 DEF IInv, PoolInv, NotStarted, StartHandler
      <4> QED
        BY <1>1, <3>1, <3>2, <4>1, <4>2, SMT DEF MainTypes
    <3>3. CASE currentTask'[n] = pendingTask
      <4>1. currentTask[g] < pendingTask
        BY <1>1, <3>1 DEF HandedOut
      <4> QED
        BY <1>1, <3>1, <3>3, <4>1, SMT DEF TaskTypes
    <3> QED
      BY <1>3, <3>2, <3>3 DEF NewOwner
  <2> QED
    BY <1>1, <1>3, <2>1 DEF ExclusiveTask, NewOwner
<1> QED
  BY <1>2, <1>3, OwnerStep

-----------------------------------------------------------------------------
\* The theorems.

LEMMA InitInv == Init => IInv
<1> SUFFICES ASSUME Init
             PROVE  IInv
  OBVIOUS
<1> USE ConstantsAssumption DEF Init
<1>1. HandlerTypes
  <2>1. 0 \in 0 .. PAGE_SIZE /\ -1 \in Int
    BY SMT
  <2> QED
    BY <2>1 DEF HandlerTypes, Labels
<1>2. TaskTypes
  BY DEF TaskTypes
<1>3. PageTypes
  BY EffectivePages DEF PageTypes, Unmapped
<1>4. PoolTypes
  BY DEF PoolTypes
<1>5. DataTypes
  <2>1. NoSalt \in Seq(Int) /\ \A i \in Chunks : ReferenceSalt(i) \in Seq(Int)
    <3>1. ASSUME NEW i \in Chunks
          PROVE  ReferenceSalt(i) \in Seq(Int)
      <4>1. i + 2 \in Nat
        BY SMT DEF Chunks
      <4>2. \A k \in 1 .. i + 2 : k - 2 \in Int
        BY SMT
      <4> QED
        BY <4>1, <4>2 DEF ReferenceSalt
    <3> QED
      BY <3>1 DEF NoSalt
  <2>2. NoOutput \in [chunk : Int, salt : Seq(Int)]
    BY <2>1 DEF NoOutput
  <2> QED
    BY <2>1, <2>2 DEF DataTypes
<1>6. MainTypes
  <2>1. saltsFile = <<>> => DOMAIN saltsFile = {} /\ saltsFile \in [{} -> Seq(Int)]
    OBVIOUS
  <2>2. DOMAIN saltsFile \subseteq Chunks /\ saltsFile \in [DOMAIN saltsFile -> Seq(Int)]
    BY <2>1
  <2>3. started \in 0 .. POOL_SIZE
    BY SMT
  <2> QED
    BY <2>2, <2>3 DEF MainTypes
<1>7. TaskLoaded /\ FillBound /\ OpenAtBarrier
  BY DEF TaskLoaded, FillBound, OpenAtBarrier, ReadTask
<1>8. Len(availableChunkHandlers) = 0 /\ 1 .. 0 = {}
  BY SMT
<1>9. PoolWaits
  BY <1>8 DEF PoolWaits
<1>10. NotStarted
  <2>1. started .. POOL_SIZE - 1 = Handlers /\ started < POOL_SIZE
    BY SMT DEF Handlers
  <2> QED
    BY <1>8, <2>1 DEF NotStarted, WaitsForTask
<1>11. \A h \in Handlers : ~Owns(h)
  BY DEF Owns, Processing
<1> QED
  BY <1>1, <1>2, <1>3, <1>4, <1>5, <1>6, <1>7, <1>9, <1>10, <1>11
     DEF IInv, TypeOK, PoolInv, HandedOut, ExclusiveTask

LEMMA NextInv == IInv /\ [Next]_vars => IInv'
  BY HandlerStep, TaskStep, PageStep, PoolStep, DataStep, MainStep, TaskLoadedStep, FillBoundStep,
     OpenAtBarrierStep, PoolWaitsStep, NotStartedStep, HandedOutStep, ExclusiveTaskStep
     DEF IInv, TypeOK, PoolInv

LEMMA Invariance == Spec => []IInv
  BY InitInv, NextInv, PTL DEF Spec

\* Every reachable state of the pool is well typed; the task cursors of the code
\* stay within the task table and the salts index whatever the sizes are.
THEOREM TypeCorrect == Spec => []TypeOK
<1>1. IInv => TypeOK
  BY DEF IInv
<1> QED
  BY <1>1, Invariance, PTL

\* No task is ever processed by two handlers, for any number of handlers, pages
\* and chunks: whoever hands a task out (dcbc(), the page loader, the handler
\* itself) advances pendingTask past it.
THEOREM TasksAreExclusive == Spec => []ExclusiveTask
<1>1. IInv => ExclusiveTask
  BY DEF IInv, PoolInv
<1> QED
  BY <1>1, Invariance, PTL

\* runTask is only ever called for a handler that waits at a locked barrier or
\* for the caller itself, so it overwrites no task and reaches no handler that
\* has exited and been deleted by dcbc().
THEOREM HandoffIsSafe == Spec => HandoffSafe
<1>1. ASSUME IInv, [Next]_vars
      PROVE  [\A h \in Handlers : currentTask'[h] # currentTask[h] =>
                threadBarrier[h] /\ pc[h] \in {"barrier", "next"}]_vars
  <2>1. HandlerTypes /\ OpenAtBarrier
    BY <1>1 DEF IInv, TypeOK, PoolInv
  <2>2. ASSUME NEW g \in Handlers, currentTask'[g] # currentTask[g]
        PROVE  threadBarrier[g] /\ pc[g] \in {"barrier", "next"}
    <3>1. ASSUME NEW h \in Handlers, NEW t, RunTask(h, t), WaitsForTask(h)
          PROVE  threadBarrier[g] /\ pc[g] \in {"barrier", "next"}
      BY <2>1, <2>2, <3>1 DEF RunTask, WaitsForTask, HandlerTypes
    <3>2. CASE UNCHANGED currentTask
      BY <2>2, <3>2
    <3>3. CASE StartHandler
      BY <1>1, <3>1, <3>3, RunTaskTarget DEF StartHandler
    <3>4. ASSUME NEW h \in Handlers, DispatchParked(h) \/ StopParked(h)
          PROVE  threadBarrier[g] /\ pc[g] \in {"barrier", "next"}
      BY <1>1, <3>1, <3>4, RunTaskTarget DEF DispatchParked, StopParked, MoreToDispatch
    <3>5. ASSUME NEW h \in Handlers, TakeTask(h)
          PROVE  threadBarrier[g] /\ pc[g] \in {"barrier", "next"}
      BY <2>1, <2>2, <3>5 DEF TakeTask, RunTask, At, OpenAtBarrier, HandlerTypes
    <3> QED
      BY <1>1, <3>2, <3>3, <3>4, <3>5, Steps DEF IInv, IdleStep, PrivateStep, LoadInitialPages,
         MapInitialPageFails, Finish, ReceiveTask, Park, handlerVars
  <2> QED
    BY <2>2
<1> QED
  BY <1>1, Invariance, PTL DEF Spec, HandoffSafe
==============================================================================
