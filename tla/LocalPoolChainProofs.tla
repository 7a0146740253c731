------------------------- MODULE LocalPoolChainProofs -------------------------
(***************************************************************************)
(* Theorems about the salts and the output of LocalPool, for every size of *)
(* the pool, the pages and the file: an encryption implements DcbcChain;   *)
(* where only one handler loads pages, or none does, the output is that of *)
(* the sequential program and no memory is accessed that is not there.     *)
(***************************************************************************)
EXTENDS LocalPoolPageProofs

-----------------------------------------------------------------------------
\* How many pages are loaded.

\* The handlers that have filled a page and not counted it in pagesProgress.
Finishing == {h \in Handlers : pc[h] \in {"lockAvailable", "lockPending", "dispatch", "countPage"}}

\* pagesProgress counts the pages that are loaded completely, except those whose
\* loader has yet to count them.
LoadedCount ==
  IF mainPc \in {"load", "exit"}
  THEN pagesProgress = effectivePages
  ELSE Base = PAGE_SIZE * (pagesProgress + Cardinality(Finishing))

LEMMA FinishingFinite ==
  /\ IsFiniteSet(Handlers)
  /\ \A S \in SUBSET Handlers : IsFiniteSet(S) /\ Cardinality(S) \in Nat
<1>1. POOL_SIZE - 1 \in Int
  BY ConstantsAssumption, SMT
<1>2. IsFiniteSet(Handlers)
  BY <1>1, FS_Interval DEF Handlers
<1> QED
  BY <1>2, FS_Subset, FS_CardinalityType

LEMMA FinishingStep ==
  ASSUME IInv, [Next]_vars
  PROVE  /\ \A h \in Handlers : CountPage(h) =>
              h \in Finishing /\ Finishing' = Finishing \ {h}
         /\ \A h \in Handlers : AddTask(h) =>
              \/ pc' = pc /\ Finishing' = Finishing
              \/ pc'[h] = "lockAvailable" /\ h \notin Finishing /\ Finishing' = Finishing \cup {h}
         /\ (\E h \in Handlers : CountPage(h) \/ AddTask(h)) \/ Finishing' = Finishing
<1>1. TypeOK /\ HandlerTypes
  BY DEF IInv, TypeOK
<1>2. ASSUME NEW h \in Handlers, CountPage(h)
      PROVE  h \in Finishing /\ Finishing' = Finishing \ {h}
  BY <1>1, <1>2 DEF CountPage, At, Goto, Finishing, HandlerTypes
<1>3. ASSUME NEW h \in Handlers, AddTask(h)
      PROVE  \/ pc' = pc /\ Finishing' = Finishing
             \/ pc'[h] = "lockAvailable" /\ h \notin Finishing /\ Finishing' = Finishing \cup {h}
  <2>1. pc[h] = "addTask"
    BY <1>3 DEF AddTask, At
  <2>2. CASE pc' = pc
    BY <2>2 DEF Finishing
  <2>3. CASE Goto(h, "lockAvailable")
    BY <1>1, <2>1, <2>3 DEF Goto, Finishing, HandlerTypes
  <2> QED
    BY <1>3, <2>2, <2>3, Zenon DEF AddTask
<1>4. ASSUME ~\E h \in Handlers : CountPage(h) \/ AddTask(h)
      PROVE  Finishing' = Finishing
  <2>1. ASSUME NEW g \in Handlers
        PROVE  g \in Finishing' <=> g \in Finishing
    BY <1>1, <1>4, Moves DEF Finishing, Move, ProcessMove, LoadMove, ChooseMove
  <2> QED
    BY <2>1 DEF Finishing
<1> QED
  BY <1>2, <1>3, <1>4

LEMMA LoadedCountStep ==
  ASSUME IInv, DoneInv, PageInv, LoadedCount, [Next]_vars
  PROVE  LoadedCount'
<1> USE ConstantsAssumption
<1>1. TypeOK /\ HandlerTypes /\ pagesProgress \in Nat /\ BeforeStart /\ LoaderLocked
  BY DEF IInv, TypeOK, PageTypes, DoneInv, PageInv, TableInv
<1>2. Cardinality(Finishing) \in Nat /\ IsFiniteSet(Finishing)
  BY FinishingFinite DEF Finishing
<1>3. CASE LoadInitialPages
  <2>1. mainPc = "load" /\ mainPc' = "start" /\ pagesProgress' = pagesProgress
    BY <1>3 DEF LoadInitialPages
  <2>2. Finishing' = {}
    <3>1. \A h \in Handlers : pc[h] = "barrier" /\ pc' = pc
      BY <1>1, <1>3 DEF LoadInitialPages, BeforeStart, WaitsForTask, handlerVars
    <3> QED
      BY <3>1 DEF Finishing
  <2>3. Base' = effectivePages * PAGE_SIZE /\ Cardinality(Finishing)' = 0
    BY <1>1, <1>3, <2>2, BaseStep, FS_EmptySet
  <2>4. effectivePages * PAGE_SIZE = PAGE_SIZE * (effectivePages + 0)
    BY EffectivePages, SMT
  <2> QED
    BY <2>1, <2>3, <2>4 DEF LoadedCount
<1>4. ASSUME NEW h \in Handlers, AddTask(h)
      PROVE  LoadedCount'
  <2>1. pc[h] = "addTask" /\ mainPc' = mainPc /\ pagesProgress' = pagesProgress
    BY <1>4, AddsTask
  <2>2. mainPc \notin {"load", "exit"}
    BY <1>1, <2>1 DEF BeforeStart, WaitsForTask
  <2>3. CASE Base' = Base /\ pc' = pc
    BY <2>1, <2>2, <2>3 DEF LoadedCount, Finishing
  <2>4. CASE Base' = Base + PAGE_SIZE /\ pc'[h] = "lockAvailable"
    <3>1. Finishing' = Finishing \cup {h} /\ h \notin Finishing
      BY <1>4, <2>1, <2>4, FinishingStep
    <3>2. Cardinality(Finishing)' = Cardinality(Finishing) + 1
      BY <1>2, <3>1, FS_AddElement
    <3>3. Base = PAGE_SIZE * (pagesProgress + Cardinality(Finishing))
      BY <2>2 DEF LoadedCount
    <3>4. ASSUME NEW p \in Nat, NEW c \in Nat
          PROVE  PAGE_SIZE * (p + c) + PAGE_SIZE = PAGE_SIZE * (p + (c + 1))
      BY SMT
    <3>5. Base' = PAGE_SIZE * (pagesProgress + (Cardinality(Finishing) + 1))
      BY <1>1, <1>2, <2>4, <3>3, <3>4
    <3> QED
      BY <2>1, <2>2, <3>2, <3>5 DEF LoadedCount
  <2> QED
    BY <1>1, <1>4, <2>3, <2>4, BaseStep
<1>5. ASSUME NEW h \in Handlers, CountPage(h)
      PROVE  LoadedCount'
  <2>1. pc[h] = "countPage" /\ mainPc' = mainPc /\ pagesProgress' = pagesProgress + 1
    BY <1>5 DEF CountPage, At, mainVars
  <2>2. mainPc \notin {"load", "exit"}
    BY <1>1, <2>1 DEF BeforeStart, WaitsForTask
  <2>3. Finishing' = Finishing \ {h} /\ h \in Finishing
    BY <1>5, FinishingStep
  <2>4. Cardinality(Finishing)' = Cardinality(Finishing) - 1
    BY <1>2, <2>3, FS_RemoveElement
  <2>5. Base' = Base
    <3>1. ~AddTask(h) /\ ~LoadInitialPages /\ \A g \in Handlers : ~AddTask(g)
      <4>1. \A g \in Handlers : AddTask(g) => pagesProgress' = pagesProgress
        BY AddsTask
      <4>2. LoadInitialPages => pagesProgress' = pagesProgress
        BY DEF LoadInitialPages
      <4>3. pagesProgress + 1 # pagesProgress
        BY <1>1, SMT
      <4> QED
        BY <2>1, <4>1, <4>2, <4>3
    <3> QED
      BY <1>1, <3>1, BaseStep
  <2>6. Base = PAGE_SIZE * (pagesProgress + Cardinality(Finishing))
    BY <2>2 DEF LoadedCount
  <2>7. pagesProgress + Cardinality(Finishing) = (pagesProgress + 1) + (Cardinality(Finishing) - 1)
    BY <1>1, <1>2, SMT
  <2> QED
    BY <2>1, <2>2, <2>4, <2>5, <2>6, <2>7 DEF LoadedCount
<1>6. ASSUME ~LoadInitialPages, ~\E h \in Handlers : CountPage(h) \/ AddTask(h)
      PROVE  LoadedCount'
  <2>1. Base' = Base /\ Finishing' = Finishing
    BY <1>1, <1>6, BaseStep, FinishingStep
  <2>2. pagesProgress' = pagesProgress
    BY <1>6, PageFrame DEF pageVars, CountChunk, MapPage
  <2>3. mainPc' \in {"load", "exit"} <=> mainPc \in {"load", "exit"}
    BY <1>6, MainFrame DEF Main, MapInitialPageFails, StartHandler, Finish, BadAccess,
       TaskTableOverflow, Fault, mainVars
  <2> QED
    BY <2>1, <2>2, <2>3 DEF LoadedCount
<1> QED
  BY <1>3, <1>4, <1>5, <1>6

\* Only pages of the file are counted.
LEMMA ProgressBound ==
  ASSUME IInv, DoneInv, PageInv, LoadedCount
  PROVE  /\ pagesProgress <= totalPages
         /\ mainPc \notin {"load", "exit"} =>
              PAGE_SIZE * pagesProgress <= Base /\ Base <= chunkCount
<1> USE ConstantsAssumption
<1>1. pagesProgress \in Nat /\ loadedTasks \in 0 .. chunkCount
  BY DEF IInv, TypeOK, PageTypes, TaskTypes
<1>2. Base \in Int /\ Base <= loadedTasks
  BY BaseOfLoader DEF PageInv, TableInv
<1>3. Cardinality(Finishing) \in Nat
  BY FinishingFinite DEF Finishing
<1>4. CASE mainPc \in {"load", "exit"}
  BY <1>4, EffectivePages, SMT DEF LoadedCount, effectivePages
<1>5. CASE mainPc \notin {"load", "exit"}
  <2>1. Base = PAGE_SIZE * (pagesProgress + Cardinality(Finishing))
    BY <1>5 DEF LoadedCount
  <2>2. ASSUME NEW p \in Nat, NEW c \in Nat
        PROVE  PAGE_SIZE * p <= PAGE_SIZE * (p + c)
    <3>1. PAGE_SIZE * (p + c) = PAGE_SIZE * p + PAGE_SIZE * c /\ PAGE_SIZE * c >= 0
      BY SMT
    <3> QED
      BY <3>1, SMT
  <2>3. PAGE_SIZE * pagesProgress <= Base
    BY <1>1, <1>3, <2>1, <2>2
  <2>4. Base <= chunkCount
    BY <1>1, <1>2, SMT
  <2>5. PAGE_SIZE * pagesProgress <= chunkCount
    BY <1>1, <1>2, <2>3, <2>4, SMT
  <2>6. pagesProgress <= totalPages
    BY <1>1, <2>5, SMT DEF totalPages
  <2> QED
    BY <2>3, <2>4, <2>6
<1> QED
  BY <1>4, <1>5

-----------------------------------------------------------------------------
\* Which page is in the slot of a chunk that is still to be written.

\* It is a page of the file; the one behind the last whole page only backs the
\* chunks that are left over.
PagesRange ==
  \A t \in Chunks : tasks[t] # NoTask /\ output[t] = NoOutput =>
    /\ i_pages[tasks[t].pageSlot] <= totalPages
    /\ i_pages[tasks[t].pageSlot] = totalPages => tasks[t].counter >= PAGE_SIZE * totalPages
Mapped == {"lockTasks", "addTask"}
LoaderPage ==
  \A h \in Handlers : pc[h] \in Mapped =>
    Page(h) <= totalPages /\ (Page(h) = totalPages => pagesProgress >= totalPages)

RangeInv == LoadedCount /\ PagesRange /\ LoaderPage

LEMMA ProgressGrows ==
  ASSUME IInv, [Next]_vars
  PROVE  pagesProgress \in Nat /\ pagesProgress' \in Nat /\ pagesProgress' >= pagesProgress
<1>1. pagesProgress \in Nat
  BY DEF IInv, TypeOK, PageTypes
<1>2. pagesProgress' = pagesProgress \/ pagesProgress' = pagesProgress + 1
  BY PageFrame DEF pageVars, LoadInitialPages, CountChunk, MapPage, CountPage
<1> QED
  BY <1>1, <1>2, SMT

\* The handler that maps a page is the only one that changes the slot until the
\* page is filled in.
LEMMA LoaderPageKept ==
  ASSUME IInv, DoneInv, PageInv, [Next]_vars, NEW h \in Handlers, pc[h] \in Mapped
  PROVE  /\ i_pages'[Task(h).pageSlot] = Page(h)
         /\ Task(h) \in TaskContext /\ Task(h)' = Task(h)
<1>1. TypeOK /\ Task(h) \in TaskContext /\ Task(h)' = Task(h)
  BY ContextKept DEF IInv, DoneInv, PageInv, TableInv, Mapped, ReadTask
<1>2. ~LoadInitialPages
  BY DEF LoadInitialPages, DoneInv, BeforeStart, WaitsForTask, Mapped
<1>3. i_pages \in [Slots -> Int] /\ Task(h).pageSlot \in Slots
  BY <1>1 DEF TypeOK, PageTypes, TaskContext
<1>4. ASSUME NEW g \in Handlers, CountChunk(g)
      PROVE  i_pages'[Task(h).pageSlot] = Page(h)
  <2>1. CASE LastOfPage(Task(g).counter) /\ i_pages' = [i_pages EXCEPT ![Task(g).pageSlot] = Unmapped]
    <3>1. Task(g).pageSlot # Task(h).pageSlot
      BY <1>4, <2>1, LastNotLoading DEF Mapped, Loading
    <3> QED
      BY <1>3, <2>1, <3>1 DEF Page
  <2> QED
    BY <1>4, <2>1, Zenon DEF CountChunk, Page
<1>5. ASSUME NEW g \in Handlers, MapPage(g)
      PROVE  i_pages'[Task(h).pageSlot] = Page(h)
  <2>1. pc[g] = "map"
    BY <1>5 DEF MapPage, At
  <2>2. Task(g).pageSlot # Task(h).pageSlot
    BY <2>1 DEF PageInv, SlotInv, LoadersApart, Loading, Mapped
  <2>3. \E page : i_pages' = [i_pages EXCEPT ![Task(g).pageSlot] = page]
    BY <1>5, Zenon DEF MapPage
  <2> QED
    BY <1>3, <2>2, <2>3 DEF Page
<1> QED
  BY <1>1, <1>2, <1>4, <1>5, PageFrame DEF pageVars, CountPage, Page

\* What mapping a page puts into the slot.
LEMMA MapsPage ==
  ASSUME IInv, DoneInv, PageInv, [Next]_vars, NEW h \in Handlers, MapPage(h)
  PROVE  /\ pc[h] = "map" /\ pc'[h] = "lockTasks" /\ Task(h) \in TaskContext
         /\ Task(h)' = Task(h)
         /\ \/ i_pages'[Task(h).pageSlot] = pagesProgress
            \/ i_pages'[Task(h).pageSlot] = MapFailed /\ MapMayFail
         /\ \A s \in Slots : s # Task(h).pageSlot => i_pages'[s] = i_pages[s]
         /\ UNCHANGED <<currentTask, tasks, pagesProgress, mainPc, Base, hash, output, salts>>
<1>1. pc[h] = "map" /\ pc'[h] = "lockTasks"
  BY DEF MapPage, At, Goto, IInv, TypeOK, HandlerTypes
<1>2. Task(h) \in TaskContext /\ Task(h)' = Task(h)
  BY <1>1, ContextKept DEF DoneInv, PageInv, TableInv, ReadTask
<1>3. PICK page \in {pagesProgress} \cup (IF MapMayFail THEN {MapFailed} ELSE {}) :
        i_pages' = [i_pages EXCEPT ![Task(h).pageSlot] = page]
  BY Zenon DEF MapPage
<1>4. i_pages \in [Slots -> Int] /\ Task(h).pageSlot \in Slots
  BY <1>2 DEF IInv, TypeOK, PageTypes, TaskContext
<1>5. UNCHANGED <<currentTask, tasks, pagesProgress, mainPc, Base, hash, output, salts>>
  BY DEF MapPage, Base, taskVars, lockVars, mainVars, dataVars
<1> QED
  BY <1>1, <1>2, <1>3, <1>4, <1>5

LEMMA LoaderPageStep ==
  ASSUME IInv, DoneInv, PageInv, RangeInv, [Next]_vars
  PROVE  LoaderPage'
<1> SUFFICES ASSUME NEW h \in Handlers, pc'[h] \in Mapped
             PROVE  Page(h)' <= totalPages /\ (Page(h)' = totalPages => pagesProgress' >= totalPages)
  BY DEF LoaderPage
<1>1. totalPages \in Nat /\ pagesProgress \in Nat /\ pagesProgress <= totalPages
      /\ pagesProgress' \in Nat /\ pagesProgress' >= pagesProgress
  BY EffectivePages, ProgressBound, ProgressGrows DEF RangeInv
<1>2. CASE MapPage(h)
  <2>1. Page(h)' = pagesProgress \/ Page(h)' = MapFailed
    BY <1>2, MapsPage DEF Page
  <2> QED
    BY <1>1, <2>1, SMT DEF MapFailed
<1>3. CASE pc[h] \in Mapped
  <2>1. Page(h)' = Page(h)
    BY <1>3, LoaderPageKept DEF Page
  <2>2. Page(h) <= totalPages /\ (Page(h) = totalPages => pagesProgress >= totalPages)
    BY <1>3 DEF RangeInv, LoaderPage
  <2>3. pagesProgress >= totalPages => pagesProgress' >= totalPages
    BY <1>1, SMT
  <2> QED
    BY <2>1, <2>2, <2>3
<1>4. pc[h] \in Mapped \/ MapPage(h)
  <2>1. LockTasks(h) => pc[h] = "lockTasks"
    BY DEF LockTasks, At
  <2> QED
    BY <2>1, Moves DEF IInv, Mapped, Move, ProcessMove, LoadMove, ChooseMove
<1> QED
  BY <1>2, <1>3, <1>4

\* A task that appears in the table after the first pages are loaded.
LEMMA AddedTask ==
  ASSUME IInv, DoneInv, PageInv, [Next]_vars, ~LoadInitialPages,
         NEW t \in Chunks, tasks[t] = NoTask, tasks'[t] # NoTask
  PROVE  \E h \in Handlers : /\ pc[h] = "addTask" /\ AddTask(h)
                             /\ tasks'[t].pageSlot = Task(h).pageSlot
                             /\ tasks'[t].counter = Base /\ i_pages' = i_pages
<1>1. PICK h \in Handlers : AddTask(h)
  BY TableFrame DEF LockTasks, taskVars
<1>2. t = loadedTasks
  BY <1>1, AddsTask
<1>3. tasks'[t] = [pageSlot |-> Task(h).pageSlot, localChunk |-> filled[h],
                   counter |-> loadedTasks - filled[h]]
  BY <1>1, <1>2, AddsTask
<1>4. pc[h] = "addTask" /\ i_pages' = i_pages /\ Base = loadedTasks - filled[h]
  BY <1>1, AddsTask, BaseOfLoader DEF PageInv, TableInv
<1> QED
  BY <1>1, <1>3, <1>4

LEMMA PagesRangeStep ==
  ASSUME IInv, DoneInv, PageInv, RangeInv, [Next]_vars
  PROVE  PagesRange'
<1> USE ConstantsAssumption
<1> SUFFICES ASSUME NEW t \in Chunks, tasks'[t] # NoTask, output'[t] = NoOutput
             PROVE  /\ i_pages'[tasks'[t].pageSlot] <= totalPages
                    /\ i_pages'[tasks'[t].pageSlot] = totalPages =>
                         tasks'[t].counter >= PAGE_SIZE * totalPages
  BY DEF PagesRange
<1>1. TypeOK /\ output[t] = NoOutput
  BY OutputKept DEF IInv
<1>2. CASE LoadInitialPages
  <2>1. tasks'[t] = [pageSlot |-> t \div PAGE_SIZE, localChunk |-> t % PAGE_SIZE,
                     counter |-> t - (t % PAGE_SIZE)]
        /\ PAGE_SIZE * (t \div PAGE_SIZE) < effectivePages * PAGE_SIZE
    <3>1. t < effectivePages * PAGE_SIZE /\ t - (t % PAGE_SIZE) <= t
          /\ t - (t % PAGE_SIZE) = PAGE_SIZE * (t \div PAGE_SIZE)
          /\ t - (t % PAGE_SIZE) \in Chunks
      BY <1>2, FirstTable
    <3>2. effectivePages * PAGE_SIZE \in Int
      BY EffectivePages, SMT
    <3>3. PAGE_SIZE * (t \div PAGE_SIZE) < effectivePages * PAGE_SIZE
      BY <3>1, <3>2, SMT DEF Chunks
    <3> QED
      BY <1>2, <3>3, FirstTable
  <2>2. t \div PAGE_SIZE \in Nat
    <3>1. t \in Nat
      BY SMT DEF Chunks
    <3> QED
      BY <3>1, Division
  <2>3. ASSUME NEW q \in Nat, PAGE_SIZE * q < effectivePages * PAGE_SIZE
        PROVE  q \in Slots /\ q <= totalPages /\ q # totalPages
    <3>1. PAGE_SIZE * q < PAGE_SIZE * effectivePages
      BY <2>3, EffectivePages, SMT
    <3>2. q < effectivePages
      BY <3>1, EffectivePages, MultiplesApart
    <3>3. effectivePages <= totalPages
      BY EffectivePages, SMT DEF effectivePages
    <3> QED
      BY <3>2, <3>3, EffectivePages, SMT DEF Slots
  <2>4. t \div PAGE_SIZE \in Slots /\ t \div PAGE_SIZE <= totalPages /\ t \div PAGE_SIZE # totalPages
    BY <2>1, <2>2, <2>3
  <2>5. i_pages' = [s \in Slots |-> s]
    BY <1>2 DEF LoadInitialPages
  <2>6. i_pages'[tasks'[t].pageSlot] = t \div PAGE_SIZE
    BY <2>1, <2>4, <2>5
  <2> QED
    BY <2>4, <2>6
<1>3. CASE tasks[t] # NoTask
  <2>1. tasks'[t] = tasks[t]
    BY <1>3, LoadedKept DEF DoneInv, PageInv, TableInv
  <2>2. i_pages'[tasks[t].pageSlot] = i_pages[tasks[t].pageSlot]
    BY <1>1, <1>3, PageOfTaskKept
  <2> QED
    BY <1>1, <1>3, <2>1, <2>2 DEF RangeInv, PagesRange
<1>4. CASE tasks[t] = NoTask /\ ~LoadInitialPages
  <2>1. PICK h \in Handlers : /\ pc[h] = "addTask"
                              /\ tasks'[t].pageSlot = Task(h).pageSlot
                              /\ tasks'[t].counter = Base /\ i_pages' = i_pages
    BY <1>4, AddedTask
  <2>2. Page(h) <= totalPages /\ (Page(h) = totalPages => pagesProgress >= totalPages)
    BY <2>1 DEF RangeInv, LoaderPage, Mapped
  <2>3. mainPc \notin {"load", "exit"}
    BY <2>1 DEF DoneInv, BeforeStart, WaitsForTask
  <2>4. PAGE_SIZE * pagesProgress <= Base /\ pagesProgress <= totalPages
    BY <2>3, ProgressBound DEF RangeInv
  <2>5. pagesProgress >= totalPages => pagesProgress = totalPages
    BY <2>4, EffectivePages, ProgressGrows, SMT
  <2>6. Base \in Int
    BY BaseOfLoader DEF PageInv, TableInv
  <2>7. PAGE_SIZE * pagesProgress \in Int
    BY ProgressGrows, SMT
  <2>8. Page(h) = totalPages => Base >= PAGE_SIZE * totalPages
    BY <2>2, <2>4, <2>5, <2>6, <2>7, SMT
  <2> QED
    BY <2>1, <2>2, <2>8 DEF Page
<1> QED
  BY <1>2, <1>3, <1>4

\* A chunk that can be read is a chunk of the file.
LEMMA ReadsFile ==
  ASSUME IInv, DoneInv, PageInv, PagesRange, NEW h \in Handlers,
         currentTask[h] \in Chunks, Task(h) # NoTask, output[currentTask[h]] = NoOutput,
         Page(h) >= 0
  PROVE  ChunkRead(h) \in Chunks
<1> USE ConstantsAssumption
<1> DEFINE t == currentTask[h]
           c == tasks[t].counter
<1>1. t \in Chunks /\ tasks[t] # NoTask /\ tasks[t] \in TaskContext
  BY DEF Task, IInv, TypeOK, TaskTypes
<1>2. c \in Chunks /\ c <= t /\ t < c + PAGE_SIZE /\ tasks[t].localChunk = t - c
  BY <1>1 DEF PageInv, TableInv, Groups, TaskContext
<1>3. Page(h) \in Int /\ Page(h) = i_pages[tasks[t].pageSlot]
  BY <1>1 DEF Page, Task, TaskContext, IInv, TypeOK, PageTypes
<1>4. Page(h) <= totalPages /\ (Page(h) = totalPages => c >= PAGE_SIZE * totalPages)
  BY <1>1, <1>3 DEF PagesRange
<1>5. ChunkRead(h) = Page(h) * PAGE_SIZE + (t - c)
  BY <1>2 DEF ChunkRead, Task
<1>6. ASSUME NEW p \in Nat, NEW u \in Nat, NEW d \in Nat, p <= totalPages, u < chunkCount,
             d <= u, u < d + PAGE_SIZE, p = totalPages => d >= PAGE_SIZE * totalPages
      PROVE  p * PAGE_SIZE + (u - d) \in Chunks
  <2>1. p * PAGE_SIZE \in Nat /\ PAGE_SIZE * totalPages = totalPages * PAGE_SIZE
        /\ totalPages * PAGE_SIZE \in Nat
    BY EffectivePages, SMT
  <2>2. CASE p = totalPages
    BY <1>6, <2>1, <2>2, SMT DEF Chunks
  <2>3. CASE p < totalPages
    <3>1. totalPages * PAGE_SIZE <= chunkCount
      BY EffectivePages, SMT DEF totalPages
    <3>2. (p + 1) * PAGE_SIZE <= totalPages * PAGE_SIZE
      BY <2>3, EffectivePages, SMT
    <3>3. (p + 1) * PAGE_SIZE = p * PAGE_SIZE + PAGE_SIZE
      BY SMT
    <3> QED
      BY <1>6, <2>1, <3>1, <3>2, <3>3, SMT DEF Chunks
  <2> QED
    BY <1>6, <2>2, <2>3, EffectivePages, SMT
<1>7. Page(h) \in Nat /\ t \in Nat /\ c \in Nat /\ t < chunkCount
  BY <1>1, <1>2, <1>3, SMT DEF Chunks
<1> HIDE DEF t, c
<1> QED
  BY <1>2, <1>4, <1>5, <1>6, <1>7

-----------------------------------------------------------------------------
\* Every chunk is encrypted with a salt that was computed from what is encrypted.

HashRead ==
  \A h \in Handlers : pc[h] = "salt" =>
    hash[h] = ChunkRead(h) /\ hash[h] \in Chunks

\* The last element of a salt is what was hashed for it.
LastHash(s) == s[Len(s)]
SaltRead ==
  op = "E" => \A h \in Handlers : pc[h] = "encrypt" =>
    salts[currentTask[h]] # NoSalt /\ LastHash(salts[currentTask[h]]) = ChunkRead(h)

\* A salt that the next chunk may use is set; it is set once, by the task's owner.
Published ==
  op = "E" =>
    /\ \A i \in Chunks : ~isReadyLocked[i] => salts[i] # NoSalt
    /\ \A h \in Handlers : Owns(h) /\ pc[h] \notin {"encrypt", "count"} /\ currentTask[h] \in Chunks
                             => salts[currentTask[h]] = NoSalt
    /\ \A t \in Chunks : ~Handed(t) => salts[t] = NoSalt

ChainInv == RangeInv /\ HashRead /\ SaltRead /\ Published

LEMMA SaltStep ==
  ASSUME IInv, [Next]_vars, NEW t \in Chunks, salts'[t] # salts[t]
  PROVE  \E h \in Handlers : SetSalt(h) /\ currentTask[h] = t
<1>1. PICK h \in Handlers : SetSalt(h)
  BY DataFrame DEF dataVars, EncryptChunk, DecryptChunk, WriteOutput
<1>2. salts' = [salts EXCEPT ![currentTask[h]] = Append(PreviousSalt(currentTask[h] - 1), hash[h])]
  BY <1>1, SetsSalt
<1> QED
  BY <1>1, <1>2 DEF IInv, TypeOK, DataTypes

\* The owner of a task reads the same chunk until it has written it.
LEMMA ReadKept ==
  ASSUME IInv, DoneInv, PageInv, [Next]_vars, NEW h \in Handlers, pc[h] \in {"salt", "encrypt"}
  PROVE  /\ ChunkRead(h)' = ChunkRead(h) /\ currentTask[h] \in Chunks
         /\ currentTask'[h] = currentTask[h] /\ Task(h) # NoTask
         /\ output[currentTask[h]] = NoOutput /\ Owns(h)
<1>1. /\ currentTask[h] \in Chunks /\ Task(h) # NoTask /\ currentTask'[h] = currentTask[h]
      /\ Task(h)' = Task(h)
  BY ContextKept DEF DoneInv, PageInv, TableInv, ReadTask
<1>2. Owns(h) /\ output[currentTask[h]] = NoOutput
  BY <1>1 DEF Owns, Processing, DoneInv, Unfinished
<1>3. i_pages'[Task(h).pageSlot] = i_pages[Task(h).pageSlot]
  BY <1>1, <1>2, PageOfTaskKept DEF Task
<1>4. Page(h)' = Page(h)
  BY <1>1, <1>3 DEF Page
<1>5. ChunkRead(h)' = ChunkRead(h)
  BY <1>1, <1>4 DEF ChunkRead
<1> QED
  BY <1>1, <1>2, <1>5

\* What hashing a chunk reads.
LEMMA Hashes ==
  ASSUME IInv, DoneInv, PageInv, RangeInv, [Next]_vars, NEW h \in Handlers, HashChunk(h)
  PROVE  /\ hash'[h] = ChunkRead(h) /\ ChunkRead(h) \in Chunks /\ ChunkRead(h)' = ChunkRead(h)
         /\ pc[h] = "hash" /\ currentTask[h] \in Chunks /\ currentTask' = currentTask
         /\ Task(h) # NoTask /\ output[currentTask[h]] = NoOutput
<1>1. /\ pc[h] = "hash" /\ currentTask[h] \in Chunks /\ Task(h) # NoTask /\ Page(h) >= 0
      /\ UNCHANGED <<currentTask, tasks, i_pages>> /\ hash'[h] = ChunkRead(h)
  BY DEF HashChunk, At, Readable, taskVars, pageVars, IInv, TypeOK, HandlerTypes
<1>2. output[currentTask[h]] = NoOutput
  BY <1>1 DEF Owns, Processing, DoneInv, Unfinished
<1>3. ChunkRead(h)' = ChunkRead(h)
  BY <1>1 DEF ChunkRead, Page, Task
<1> QED
  BY <1>1, <1>2, <1>3, ReadsFile DEF RangeInv

LEMMA HashReadStep ==
  ASSUME IInv, DoneInv, PageInv, ChainInv, [Next]_vars
  PROVE  HashRead'
<1> SUFFICES ASSUME NEW h \in Handlers, pc'[h] = "salt"
             PROVE  hash'[h] = ChunkRead(h)' /\ hash'[h] \in Chunks
  BY DEF HashRead
<1>1. CASE HashChunk(h)
  BY <1>1, Hashes DEF ChainInv
<1>2. CASE pc[h] = "salt"
  <2>1. hash[h] = ChunkRead(h) /\ hash[h] \in Chunks /\ ChunkRead(h)' = ChunkRead(h)
    BY <1>2, ReadKept DEF ChainInv, HashRead
  <2>2. ASSUME NEW g \in Handlers, HashChunk(g)
        PROVE  hash'[h] = hash[h]
    <3>1. g # h
      BY <1>2, <2>2 DEF HashChunk, At
    <3> QED
      BY <2>2, <3>1 DEF HashChunk, IInv, TypeOK, HandlerTypes
  <2> QED
    BY <2>1, <2>2, HashFrame
<1> QED
  BY <1>1, <1>2, Moves DEF IInv, Move, ProcessMove, LoadMove, ChooseMove

\* Only its owner sets the salt of a task.
LEMMA OwnSalt ==
  ASSUME IInv, [Next]_vars, NEW g \in Handlers, Owns(g), currentTask[g] \in Chunks,
         ~SetSalt(g)
  PROVE  salts'[currentTask[g]] = salts[currentTask[g]]
<1>1. ASSUME NEW h \in Handlers, SetSalt(h), currentTask[h] = currentTask[g]
      PROVE  FALSE
  <2>1. Owns(h)
    BY <1>1, SetsSalt
  <2> QED
    BY <1>1, <2>1 DEF IInv, PoolInv, ExclusiveTask
<1> QED
  BY <1>1, SaltStep

LEMMA AppendLast ==
  ASSUME NEW s \in Seq(Int), NEW c \in Int
  PROVE  LastHash(Append(s, c)) = c
<1>1. Len(s) \in Nat /\ Len(Append(s, c)) = Len(s) + 1 /\ Append(s, c)[Len(s) + 1] = c
  OBVIOUS
<1> QED
  BY <1>1 DEF LastHash

LEMMA SaltReadStep ==
  ASSUME IInv, DoneInv, PageInv, ChainInv, [Next]_vars
  PROVE  SaltRead'
<1> SUFFICES ASSUME op = "E", NEW h \in Handlers, pc'[h] = "encrypt"
             PROVE  /\ salts'[currentTask'[h]] # NoSalt
                    /\ LastHash(salts'[currentTask'[h]]) = ChunkRead(h)'
  BY DEF SaltRead, LastHash
<1>1. CASE SetSalt(h)
  <2>1. /\ pc[h] = "salt" /\ hash[h] \in Int /\ PreviousSalt(currentTask[h] - 1) \in Seq(Int)
        /\ salts'[currentTask[h]] = Append(PreviousSalt(currentTask[h] - 1), hash[h])
        /\ salts'[currentTask[h]] # NoSalt
    BY <1>1, SetsSalt
  <2>2. ChunkRead(h)' = ChunkRead(h) /\ currentTask'[h] = currentTask[h] /\ hash[h] = ChunkRead(h)
    BY <2>1, ReadKept DEF ChainInv, HashRead
  <2>3. LastHash(Append(PreviousSalt(currentTask[h] - 1), hash[h])) = hash[h]
    BY <2>1, AppendLast
  <2> QED
    BY <2>1, <2>2, <2>3
<1>2. CASE pc[h] = "encrypt"
  <2>1. /\ ChunkRead(h)' = ChunkRead(h) /\ currentTask[h] \in Chunks
        /\ currentTask'[h] = currentTask[h] /\ Owns(h)
    BY <1>2, ReadKept
  <2>2. ~SetSalt(h)
    BY <1>2 DEF SetSalt, At
  <2>3. salts'[currentTask[h]] = salts[currentTask[h]]
    BY <2>1, <2>2, OwnSalt
  <2> QED
    BY <1>2, <2>1, <2>3 DEF ChainInv, SaltRead
<1> QED
  BY <1>1, <1>2, Moves DEF IInv, Move, ProcessMove, LoadMove, ChooseMove

LEMMA PublishedStep ==
  ASSUME IInv, DoneInv, PageInv, ChainInv, [Next]_vars
  PROVE  Published'
<1> SUFFICES ASSUME op = "E"
             PROVE  /\ \A i \in Chunks : ~isReadyLocked'[i] => salts'[i] # NoSalt
                    /\ \A h \in Handlers : Owns(h)' /\ pc'[h] \notin {"encrypt", "count"}
                                           /\ currentTask'[h] \in Chunks
                                             => salts'[currentTask'[h]] = NoSalt
                    /\ \A t \in Chunks : ~Handed(t)' => salts'[t] = NoSalt
  BY DEF Published
<1>1. TypeOK /\ BeforeStart /\ Published
  BY DEF IInv, DoneInv, ChainInv
<1>2. ASSUME NEW i \in Chunks, ~isReadyLocked'[i]
      PROVE  salts'[i] # NoSalt
  <2>1. CASE ~isReadyLocked[i]
    BY <1>1, <2>1, SaltKept DEF Published
  <2>2. ASSUME NEW h \in Handlers, SetSalt(h), isReadyLocked[i]
        PROVE  salts'[i] # NoSalt
    <3>1. isReadyLocked' = [j \in Chunks |-> CASE j = currentTask[h] -> FALSE
                                               [] j = currentTask[h] - 1 -> TRUE
                                               [] OTHER -> isReadyLocked[j]]
      BY <2>2 DEF SetSalt
    <3>2. i = currentTask[h]
      BY <1>2, <2>2, <3>1
    <3> QED
      BY <2>2, <3>2, SetsSalt
  <2> QED
    BY <1>2, <2>1, <2>2, DataFrame DEF dataVars, EncryptChunk, DecryptChunk, WriteOutput
<1>3. ASSUME NEW g \in Handlers, Owns(g)', pc'[g] \notin {"encrypt", "count"},
             currentTask'[g] \in Chunks
      PROVE  salts'[currentTask'[g]] = NoSalt
  <2>1. CASE Owns(g) /\ currentTask'[g] = currentTask[g]
    <3>1. pc[g] \notin {"encrypt", "count"} /\ ~SetSalt(g)
      <4>1. pc[g] \in {"encrypt", "count"} /\ pc'[g] # pc[g] => pc'[g] \in {"count", "morePages", "next"}
        BY <1>1, Moves DEF Move, ProcessMove, LoadMove, ChooseMove
      <4>2. SetSalt(g) => pc'[g] = "encrypt"
        BY <1>1 DEF SetSalt, Goto, TypeOK, HandlerTypes
      <4> QED
        BY <1>3, <4>1, <4>2 DEF Owns, Processing
    <3>2. salts'[currentTask[g]] = salts[currentTask[g]]
      BY <1>3, <2>1, <3>1, OwnSalt
    <3> QED
      BY <1>1, <1>3, <2>1, <3>1, <3>2 DEF Published
  <2>2. CASE NewOwner(g)
    <3>1. ~Handed(currentTask'[g])
      BY <2>2, NewTask
    <3>2. salts[currentTask'[g]] = NoSalt
      BY <1>1, <1>3, <3>1 DEF Published
    <3>3. ASSUME NEW h \in Handlers, SetSalt(h), currentTask[h] = currentTask'[g]
          PROVE  FALSE
      BY <3>1, <3>3, SetsSalt, OwnerHanded
    <3> QED
      BY <1>3, <3>2, <3>3, SaltStep
  <2> QED
    BY <1>3, <2>1, <2>2, OwnerStep DEF NewOwner
<1>4. ASSUME NEW t \in Chunks, ~Handed(t)'
      PROVE  salts'[t] = NoSalt
  <2>1. ~Handed(t) /\ salts[t] = NoSalt
    BY <1>1, <1>4, HandedStep DEF Published
  <2>2. ASSUME NEW h \in Handlers, SetSalt(h), currentTask[h] = t
        PROVE  FALSE
    BY <2>1, <2>2, SetsSalt, OwnerHanded
  <2> QED
    BY <2>1, <2>2, SaltStep
<1> QED
  BY <1>2, <1>3, <1>4

LEMMA InitChain == Init => ChainInv
<1> SUFFICES ASSUME Init
             PROVE  ChainInv
  OBVIOUS
<1> USE DEF Init
<1>1. LoadedCount /\ PagesRange /\ LoaderPage
  BY DEF LoadedCount, PagesRange, LoaderPage, Mapped
<1>2. HashRead /\ SaltRead
  BY DEF HashRead, SaltRead
<1>3. Published
  BY DEF Published
<1> QED
  BY <1>1, <1>2, <1>3 DEF ChainInv, RangeInv

LEMMA NextChain == IInv /\ DoneInv /\ PageInv /\ ChainInv /\ [Next]_vars => ChainInv'
  BY LoadedCountStep, PagesRangeStep, LoaderPageStep, HashReadStep, SaltReadStep, PublishedStep
     DEF ChainInv, RangeInv

LEMMA ChainInvariance == Spec => [](IInv /\ DoneInv /\ PageInv /\ ChainInv)
<1>1. IInv /\ DoneInv /\ PageInv /\ ChainInv /\ [Next]_vars => (IInv /\ DoneInv /\ PageInv /\ ChainInv)'
  BY NextInv, NextDone, NextPage, NextChain
<1> QED
  BY <1>1, InitInv, InitDone, InitPage, InitChain, PTL DEF Spec

-----------------------------------------------------------------------------
\* An encryption implements DcbcChain.

finished == mainPc = "done"

\* A salt is published after its predecessor's and never before.
LEMMA PublishesNext ==
  ASSUME IInv, DoneInv, PageInv, ChainInv, op = "E", [Next]_vars, NEW h \in Handlers, SetSalt(h)
  PROVE  LET t == currentTask[h]
         IN  /\ t \in Chunks /\ hash[h] = ChunkRead(h) /\ hash[h] \in Chunks
             /\ salts[t] = NoSalt /\ (t > 0 => salts[t - 1] # NoSalt)
             /\ salts' = [salts EXCEPT ![t] = Combine(hash[h], IF t = 0 THEN IV ELSE salts[t - 1])]
             /\ UNCHANGED <<output, finished>>
<1> USE ConstantsAssumption
<1> DEFINE t == currentTask[h]
<1>1. /\ pc[h] = "salt" /\ Owns(h) /\ t \in Chunks /\ IsReady(t - 1)
      /\ salts' = [salts EXCEPT ![t] = Append(PreviousSalt(t - 1), hash[h])]
      /\ UNCHANGED <<output, finished>>
  BY SetsSalt DEF finished
<1>2. hash[h] = ChunkRead(h) /\ hash[h] \in Chunks /\ salts[t] = NoSalt
  BY <1>1 DEF ChainInv, HashRead, Published
<1>3. t > 0 => t - 1 \in Chunks /\ t - 1 >= 0
  BY <1>1, SMT DEF Chunks
<1>4. t > 0 => salts[t - 1] # NoSalt
  BY <1>1, <1>3 DEF IsReady, ChainInv, Published
<1>5. t - 1 < 0 <=> t = 0
  BY <1>1, SMT DEF Chunks
<1>6. PreviousSalt(t - 1) = IF t = 0 THEN IV ELSE salts[t - 1]
  BY <1>5 DEF PreviousSalt
<1> QED
  BY <1>1, <1>2, <1>4, <1>6 DEF Combine

\* A chunk is written once, from what its salt was computed from.
LEMMA WritesSalted ==
  ASSUME IInv, DoneInv, PageInv, ChainInv, [Next]_vars, NEW h \in Handlers, Wrote(h)
  PROVE  LET t == currentTask[h]
         IN  /\ t \in Chunks /\ ChunkRead(h) \in Chunks /\ output[t] = NoOutput
             /\ op = "E" => salts[t] # NoSalt /\ LastHash(salts[t]) = ChunkRead(h)
             /\ output' = [output EXCEPT ![t] = [chunk |-> ChunkRead(h), salt |-> salts[t]]]
             /\ UNCHANGED <<salts, finished>>
<1> DEFINE t == currentTask[h]
<1>1. /\ pc[h] \in {"encrypt", "decrypt"} /\ t \in Chunks /\ Task(h) \in TaskContext /\ Owns(h)
      /\ output' = [output EXCEPT ![t] = [chunk |-> ChunkRead(h), salt |-> salts[t]]]
      /\ UNCHANGED <<salts, finished>>
  BY Writes DEF finished, IInv
<1>2. Task(h) # NoTask /\ Page(h) >= 0
  BY <1>1 DEF Wrote, EncryptChunk, DecryptChunk, WriteOutput, Readable
<1>3. output[t] = NoOutput
  BY <1>1 DEF DoneInv, Unfinished
<1>4. ChunkRead(h) \in Chunks
  BY <1>1, <1>2, <1>3, ReadsFile DEF ChainInv, RangeInv
<1>5. op = "E" => salts[t] # NoSalt /\ LastHash(salts[t]) = ChunkRead(h)
  BY <1>1 DEF DoneInv, Salted, ChainInv, SaltRead
<1> QED
  BY <1>1, <1>3, <1>4, <1>5

\* The other steps change no salt and no output.
LEMMA ChainFrame ==
  ASSUME IInv, [Next]_vars
  PROVE  \/ UNCHANGED <<salts, output, finished>>
         \/ Finish /\ UNCHANGED <<salts, output>>
         \/ \E h \in Handlers : SetSalt(h) \/ Wrote(h)
<1>1. UNCHANGED dataVars \/ \E h \in Handlers : SetSalt(h) \/ Wrote(h)
  BY DataFrame DEF Wrote
<1>2. Finish \/ finished' = finished
  BY MainFrame DEF Main, LoadInitialPages, MapInitialPageFails, StartHandler, BadAccess,
     TaskTableOverflow, Fault, mainVars, finished
<1> QED
  BY <1>1, <1>2 DEF dataVars

\* dcbc() returns when every chunk is written.
LEMMA Finishes ==
  ASSUME IInv, DoneInv, [Next]_vars, Finish
  PROVE  /\ \A t \in Chunks : output[t] # NoOutput
         /\ ~finished /\ finished' = TRUE /\ UNCHANGED <<salts, output>>
<1>1. mainPc = "join" /\ mainPc' = "done" /\ UNCHANGED <<salts, output>>
  BY DEF Finish, dataVars
<1>2. \A t \in Chunks : output'[t] # NoOutput
  BY <1>1, CompleteStep DEF CompleteWhenDone
<1> QED
  BY <1>1, <1>2 DEF finished

\* The operators of the instance are those of this module.
LEMMA SameData ==
  /\ AnyChain!Chunks = Chunks /\ AnyChain!NoSalt = NoSalt /\ AnyChain!NoOutput = NoOutput
  /\ AnyChain!IV = IV /\ \A c, s : AnyChain!Combine(c, s) = Combine(c, s)
  BY DEF AnyChain!Chunks, Chunks, AnyChain!NoSalt, NoSalt, AnyChain!NoOutput, NoOutput,
     AnyChain!IV, IV, AnyChain!Combine, Combine

LEMMA ChainStep ==
  ASSUME IInv, DoneInv, PageInv, ChainInv, op = "E", [Next]_vars
  PROVE  [AnyChain!Next]_<<salts, output, mainPc = "done">>
<1>1. ASSUME NEW h \in Handlers, SetSalt(h)
      PROVE  AnyChain!Publish(currentTask[h], hash[h])
  BY <1>1, PublishesNext, SameData DEF AnyChain!Publish, finished
<1>2. ASSUME NEW h \in Handlers, Wrote(h)
      PROVE  AnyChain!Encrypt(currentTask[h], ChunkRead(h))
  BY <1>2, WritesSalted, SameData DEF AnyChain!Encrypt, finished, LastHash
<1>3. Finish => AnyChain!Finish
  BY Finishes, SameData DEF AnyChain!Finish, finished
<1>4. \A h \in Handlers : SetSalt(h) => currentTask[h] \in AnyChain!Chunks /\ hash[h] \in Chunks
  BY PublishesNext, SameData
<1>5. \A h \in Handlers : Wrote(h) => currentTask[h] \in AnyChain!Chunks /\ ChunkRead(h) \in Chunks
  BY WritesSalted, SameData
<1> QED
  BY <1>1, <1>2, <1>3, <1>4, <1>5, SameData, ChainFrame DEF AnyChain!Next, finished

\* Salts are chained in order and every chunk is encrypted from what was hashed,
\* whatever page a handler found in its slot.
THEOREM EncryptionImplementsChain ==
  ASSUME op = "E"
  PROVE  Spec => ImplementsChain
<1>1. Init => AnyChain!Init
  <2> SUFFICES ASSUME Init
               PROVE  AnyChain!Init
    OBVIOUS
  <2>1. salts = [i \in Chunks |-> NoSalt] /\ output = [i \in Chunks |-> NoOutput] /\ mainPc # "done"
    BY DEF Init
  <2> QED
    BY <2>1, SameData DEF AnyChain!Init
<1>2. IInv /\ DoneInv /\ PageInv /\ ChainInv /\ [Next]_vars
        => [AnyChain!Next]_<<salts, output, mainPc = "done">>
  BY ChainStep
<1> QED
  BY <1>1, <1>2, ChainInvariance, PTL DEF Spec, ImplementsChain, AnyChain!Spec

-----------------------------------------------------------------------------
\* Where one handler runs, or every page is mapped at the start, a page number
\* is never read by two loaders and every chunk comes from its own place.

Orderly == POOL_SIZE = 1 \/ MAX_PAGES >= totalPages

\* The only page that is missing is one that could not be mapped.
Missing(page) == page = MapFailed /\ MapMayFail /\ MAX_PAGES < totalPages
ExactPage ==
  \A t \in Chunks : tasks[t] # NoTask /\ output[t] = NoOutput =>
    \/ Missing(i_pages[tasks[t].pageSlot])
    \/ PAGE_SIZE * i_pages[tasks[t].pageSlot] = tasks[t].counter

\* The loader is the only handler and loads a page of the file.
ExactLoader ==
  /\ MAX_PAGES >= totalPages => pagesProgress = totalPages
  /\ \A h \in Handlers :
       /\ pc[h] \in {"map", "lockTasks", "addTask"} => pagesProgress < totalPages
       /\ pc[h] \in Mapped => Page(h) = pagesProgress \/ Missing(Page(h))
       /\ h \in Finishing => MAX_PAGES < totalPages

ExactInv == Orderly => ExactPage /\ ExactLoader

\* Who is not alone loads nothing.
LEMMA OneLoader ==
  ASSUME Orderly, ExactLoader, NEW g \in Handlers, NEW h \in Handlers,
         pc[g] \in {"map", "lockTasks", "addTask"} \/ g \in Finishing
  PROVE  g = h /\ POOL_SIZE = 1 /\ MAX_PAGES < totalPages
<1>1. MAX_PAGES < totalPages
  <2>1. totalPages \in Nat /\ MAX_PAGES \in Nat
    BY EffectivePages, ConstantsAssumption
  <2>2. CASE g \in Finishing
    BY <2>2 DEF ExactLoader
  <2>3. CASE pc[g] \in {"map", "lockTasks", "addTask"}
    <3>1. pagesProgress < totalPages /\ (MAX_PAGES >= totalPages => pagesProgress = totalPages)
      BY <2>3 DEF ExactLoader
    <3> QED
      BY <2>1, <3>1, SMT
  <2> QED
    BY <2>2, <2>3
<1>2. POOL_SIZE = 1
  <2>1. ~(MAX_PAGES >= totalPages)
    BY <1>1, EffectivePages, ConstantsAssumption, SMT
  <2> QED
    BY <2>1 DEF Orderly
<1>3. g = h
  BY <1>2, SMT DEF Handlers
<1> QED
  BY <1>1, <1>2, <1>3

\* While the only handler loads a page, every page before it is counted.
LEMMA LoaderBase ==
  ASSUME IInv, DoneInv, PageInv, LoadedCount, Orderly, ExactLoader,
         NEW h \in Handlers, pc[h] \in {"map", "lockTasks", "addTask"}
  PROVE  Base = PAGE_SIZE * pagesProgress
<1>1. \A g \in Handlers : g = h
  BY OneLoader
<1>2. Finishing = {}
  BY <1>1 DEF Finishing
<1>3. Cardinality(Finishing) = 0
  BY <1>2, FS_EmptySet
<1>4. mainPc \notin {"load", "exit"}
  BY DEF DoneInv, BeforeStart, WaitsForTask
<1>5. Base = PAGE_SIZE * (pagesProgress + 0)
  BY <1>3, <1>4 DEF LoadedCount
<1> QED
  BY <1>5, ProgressGrows, SMT DEF IInv, TypeOK, PageTypes

LEMMA ExactPageStep ==
  ASSUME IInv, DoneInv, PageInv, RangeInv, Orderly, ExactPage, ExactLoader, [Next]_vars
  PROVE  ExactPage'
<1> USE ConstantsAssumption
<1> SUFFICES ASSUME NEW t \in Chunks, tasks'[t] # NoTask, output'[t] = NoOutput
             PROVE  \/ Missing(i_pages'[tasks'[t].pageSlot])
                    \/ PAGE_SIZE * i_pages'[tasks'[t].pageSlot] = tasks'[t].counter
  BY DEF ExactPage, Missing
<1>1. TypeOK /\ output[t] = NoOutput
  BY OutputKept DEF IInv
<1>2. CASE LoadInitialPages
  <2>1. tasks'[t] = [pageSlot |-> t \div PAGE_SIZE, localChunk |-> t % PAGE_SIZE,
                     counter |-> t - (t % PAGE_SIZE)]
        /\ t - (t % PAGE_SIZE) = PAGE_SIZE * (t \div PAGE_SIZE)
    BY <1>2, FirstTable
  <2>2. tasks'[t] \in TaskContext
    BY <1>2, TaskStep DEF TaskTypes
  <2>3. t \div PAGE_SIZE \in Slots
    BY <2>1, <2>2 DEF TaskContext
  <2>4. i_pages' = [s \in Slots |-> s]
    BY <1>2 DEF LoadInitialPages
  <2>5. i_pages'[tasks'[t].pageSlot] = t \div PAGE_SIZE
    BY <2>1, <2>3, <2>4
  <2> QED
    BY <2>1, <2>5
<1>3. CASE tasks[t] # NoTask
  <2>1. tasks'[t] = tasks[t]
    BY <1>3, LoadedKept DEF DoneInv, PageInv, TableInv
  <2>2. i_pages'[tasks[t].pageSlot] = i_pages[tasks[t].pageSlot]
    BY <1>1, <1>3, PageOfTaskKept
  <2> QED
    BY <1>1, <1>3, <2>1, <2>2 DEF ExactPage
<1>4. CASE tasks[t] = NoTask /\ ~LoadInitialPages
  <2>1. PICK h \in Handlers : /\ pc[h] = "addTask"
                              /\ tasks'[t].pageSlot = Task(h).pageSlot
                              /\ tasks'[t].counter = Base /\ i_pages' = i_pages
    BY <1>4, AddedTask
  <2>2. Base = PAGE_SIZE * pagesProgress
    BY <2>1, LoaderBase DEF RangeInv
  <2>3. Page(h) = pagesProgress \/ Missing(Page(h))
    BY <2>1 DEF ExactLoader, Mapped
  <2> QED
    BY <2>1, <2>2, <2>3 DEF Page
<1> QED
  BY <1>2, <1>3, <1>4

LEMMA ExactLoaderStep ==
  ASSUME IInv, DoneInv, PageInv, RangeInv, Orderly, ExactLoader, [Next]_vars
  PROVE  ExactLoader'
<1> USE ConstantsAssumption
<1>1. TypeOK /\ HandlerTypes /\ pagesProgress \in Nat /\ totalPages \in Nat
  BY EffectivePages DEF IInv, TypeOK, PageTypes
<1>2. \A h \in Handlers : CountPage(h) => h \in Finishing
  BY FinishingStep
<1>3. MAX_PAGES >= totalPages => pagesProgress' = totalPages
  <2> SUFFICES ASSUME MAX_PAGES >= totalPages
               PROVE  pagesProgress' = totalPages
    OBVIOUS
  <2>1. \A h \in Handlers : h \notin Finishing
    <3>1. ~(MAX_PAGES < totalPages)
      BY <1>1, SMT
    <3> QED
      BY <3>1 DEF ExactLoader
  <2>2. pagesProgress' = pagesProgress
    BY <1>2, <2>1, PageFrame DEF pageVars, LoadInitialPages, CountChunk, MapPage
  <2> QED
    BY <2>2 DEF ExactLoader
<1>4. ASSUME NEW h \in Handlers, pc'[h] \in {"map", "lockTasks", "addTask"}
      PROVE  pagesProgress' < totalPages
  <2>1. \/ pc[h] \in {"map", "lockTasks", "addTask"}
        \/ CheckMorePages(h) /\ pc'[h] = "map" /\ pc[h] = "morePages"
    BY <1>1, <1>4, Moves DEF Move, ProcessMove, LoadMove, ChooseMove
  <2>2. pagesProgress < totalPages /\ h \notin Finishing
    <3>1. CASE CheckMorePages(h) /\ pc'[h] = "map" /\ pc[h] = "morePages"
      BY <1>1, <3>1 DEF CheckMorePages, Goto, HandlerTypes, Finishing
    <3>2. CASE pc[h] \in {"map", "lockTasks", "addTask"}
      BY <3>2 DEF ExactLoader, Finishing
    <3> QED
      BY <2>1, <3>1, <3>2
  <2>3. \A g \in Handlers : ~CountPage(g)
    BY <1>2, <2>2, OneLoader
  <2>4. pagesProgress' = pagesProgress
    BY <2>3, PageFrame DEF pageVars, LoadInitialPages, CountChunk, MapPage
  <2> QED
    BY <2>2, <2>4
<1>5. ASSUME NEW h \in Handlers, pc'[h] \in Mapped
      PROVE  Page(h)' = pagesProgress' \/ Missing(Page(h)')
  <2>1. CASE MapPage(h)
    <3>1. /\ pagesProgress' = pagesProgress
          /\ Page(h)' = pagesProgress \/ (Page(h)' = MapFailed /\ MapMayFail)
      BY <2>1, MapsPage DEF Page
    <3>2. MAX_PAGES < totalPages
      BY <2>1, OneLoader DEF MapPage, At
    <3> QED
      BY <3>1, <3>2 DEF Missing
  <2>2. CASE pc[h] \in Mapped
    <3>1. Page(h)' = Page(h)
      BY <2>2, LoaderPageKept DEF Page
    <3>2. \A g \in Handlers : ~CountPage(g)
      <4>1. h \notin Finishing
        BY <2>2 DEF Finishing, Mapped
      <4> QED
        BY <1>2, <2>2, <4>1, OneLoader DEF Mapped
    <3>3. pagesProgress' = pagesProgress
      BY <3>2, PageFrame DEF pageVars, LoadInitialPages, CountChunk, MapPage
    <3>4. Page(h) = pagesProgress \/ Missing(Page(h))
      BY <2>2 DEF ExactLoader
    <3> QED
      BY <3>1, <3>3, <3>4
  <2> QED
    <3>1. LockTasks(h) => pc[h] = "lockTasks"
      BY DEF LockTasks, At
    <3> QED
      BY <1>1, <1>5, <2>1, <2>2, <3>1, Moves DEF Mapped, Move, ProcessMove, LoadMove, ChooseMove
<1>6. ASSUME NEW h \in Handlers, h \in Finishing'
      PROVE  MAX_PAGES < totalPages
  <2>1. h \in Finishing \/ pc[h] = "addTask"
    <3>1. ASSUME AddTask(h)
          PROVE  pc[h] = "addTask"
      BY <3>1, AddsTask
    <3>2. ASSUME NEW g \in Handlers, AddTask(g), g # h
          PROVE  h \in Finishing
      BY <1>6, <3>2, FinishingStep
    <3> QED
      BY <1>6, <3>1, <3>2, FinishingStep
  <2> QED
    BY <2>1, OneLoader
<1> QED
  BY <1>3, <1>4, <1>5, <1>6 DEF ExactLoader, Missing

-----------------------------------------------------------------------------
\* The chain of the chunks in their order is the reference salt.

LEMMA Reference ==
  ASSUME NEW t \in Nat
  PROVE  /\ ReferenceSalt(t) \in Seq(Int) /\ Len(ReferenceSalt(t)) = t + 2
         /\ ReferenceSalt(t) # NoSalt
         /\ \A k \in 1 .. t + 2 : ReferenceSalt(t)[k] = k - 2
<1>1. t + 2 \in Nat /\ \A k \in 1 .. t + 2 : k - 2 \in Int
  BY SMT
<1>2. ReferenceSalt(t) \in Seq(Int) /\ Len(ReferenceSalt(t)) = t + 2
  BY <1>1, SMT DEF ReferenceSalt
<1>3. ReferenceSalt(t) # <<>>
  <2>1. t + 2 # 0
    BY SMT
  <2> QED
    BY <1>2, <2>1
<1> QED
  BY <1>2, <1>3 DEF ReferenceSalt, NoSalt

LEMMA NextReference ==
  ASSUME NEW t \in Nat
  PROVE  Combine(t, IF t = 0 THEN IV ELSE ReferenceSalt(t - 1)) = ReferenceSalt(t)
<1>1. CASE t = 0
  <2>1. Append(IV, 0) \in Seq(Int) /\ Len(Append(IV, 0)) = 2
        /\ Append(IV, 0)[1] = -1 /\ Append(IV, 0)[2] = 0
    BY SMT DEF IV
  <2>2. ReferenceSalt(0) \in Seq(Int) /\ Len(ReferenceSalt(0)) = 2
        /\ ReferenceSalt(0)[1] = -1 /\ ReferenceSalt(0)[2] = 0
    <3>1. /\ ReferenceSalt(0) \in Seq(Int) /\ Len(ReferenceSalt(0)) = 0 + 2
          /\ \A k \in 1 .. 0 + 2 : ReferenceSalt(0)[k] = k - 2
      BY Reference
    <3>2. 1 \in 1 .. 0 + 2 /\ 2 \in 1 .. 0 + 2 /\ 0 + 2 = 2 /\ 1 - 2 = -1 /\ 2 - 2 = 0
      BY SMT
    <3>3. ReferenceSalt(0)[1] = 1 - 2 /\ ReferenceSalt(0)[2] = 2 - 2
      BY <3>1, <3>2
    <3> QED
      BY <3>1, <3>2, <3>3
  <2>3. \A k \in 1 .. 2 : Append(IV, 0)[k] = ReferenceSalt(0)[k]
    <3>1. \A k \in 1 .. 2 : k = 1 \/ k = 2
      BY SMT
    <3> QED
      BY <2>1, <2>2, <3>1
  <2>4. Append(IV, 0) = ReferenceSalt(0)
    BY <2>1, <2>2, <2>3, SeqEqual
  <2> QED
    BY <1>1, <2>4 DEF Combine
<1>2. CASE t # 0
  <2> DEFINE s == ReferenceSalt(t - 1)
             r == ReferenceSalt(t)
  <2>1. t - 1 \in Nat /\ (t - 1) + 2 = t + 1
    BY <1>2, SMT
  <2>2. s \in Seq(Int) /\ Len(s) = t + 1 /\ \A k \in 1 .. t + 1 : s[k] = k - 2
    BY <2>1, Reference
  <2>3. r \in Seq(Int) /\ Len(r) = t + 2 /\ \A k \in 1 .. t + 2 : r[k] = k - 2
    BY Reference
  <2> HIDE DEF s, r
  <2>4. Append(s, t) \in Seq(Int) /\ Len(Append(s, t)) = t + 2
    BY <2>2, SMT
  <2>5. ASSUME NEW k \in 1 .. t + 2
        PROVE  Append(s, t)[k] = k - 2
    <3>1. CASE k \in 1 .. t + 1
      BY <2>2, <3>1, SMT
    <3>2. CASE k = t + 2
      BY <2>2, <3>2, SMT
    <3>3. k \in 1 .. t + 1 \/ k = t + 2
      BY SMT
    <3> QED
      BY <3>1, <3>2, <3>3
  <2>6. \A k \in 1 .. t + 2 : Append(s, t)[k] = r[k]
    BY <2>3, <2>5
  <2>7. Append(s, t) = r
    BY <2>3, <2>4, <2>6, SeqEqual
  <2> QED
    BY <1>2, <2>7 DEF Combine, s, r
<1> QED
  BY <1>1, <1>2

\* Which salts there are.
ExactSalts ==
  /\ \A t \in Chunks : salts[t] \in {NoSalt, ReferenceSalt(t)}
  /\ op = "D" => /\ \A t \in Chunks : salts[t] = ReferenceSalt(t)
                 /\ \A h \in Handlers : pc[h] \notin {"hash", "salt", "encrypt"}

\* What is read as a chunk is that chunk.
LEMMA ReadsExact ==
  ASSUME IInv, DoneInv, PageInv, ExactPage, NEW h \in Handlers,
         currentTask[h] \in Chunks, Task(h) # NoTask, output[currentTask[h]] = NoOutput,
         ChunkRead(h) \in Chunks
  PROVE  ChunkRead(h) = currentTask[h]
<1> USE ConstantsAssumption
<1> DEFINE t == currentTask[h]
           c == tasks[t].counter
           p == Page(h)
<1>1. t \in Chunks /\ tasks[t] # NoTask /\ tasks[t] \in TaskContext
  BY DEF Task, IInv, TypeOK, TaskTypes
<1>2. c \in Chunks /\ c <= t /\ t < c + PAGE_SIZE /\ tasks[t].localChunk = t - c
  BY <1>1 DEF PageInv, TableInv, Groups, TaskContext
<1>3. p \in Int /\ p = i_pages[tasks[t].pageSlot]
  BY <1>1 DEF Page, Task, TaskContext, IInv, TypeOK, PageTypes
<1>4. Missing(p) \/ PAGE_SIZE * p = c
  BY <1>1, <1>3 DEF ExactPage
<1>5. ChunkRead(h) = p * PAGE_SIZE + (t - c)
  BY <1>2 DEF ChunkRead, Task
<1>6. c \in Nat /\ t \in Nat
  BY <1>1, <1>2, SMT DEF Chunks
<1> HIDE DEF t, c, p
<1>7. CASE Missing(p)
  <2>1. p = -2
    BY <1>7 DEF Missing, MapFailed
  <2>2. p * PAGE_SIZE + (t - c) < 0
    BY <1>2, <1>6, <2>1, SMT
  <2>3. ChunkRead(h) >= 0
    BY SMT DEF Chunks
  <2>4. ~(ChunkRead(h) >= 0)
    BY <1>3, <1>5, <1>6, <2>2, SMT
  <2> QED
    BY <2>3, <2>4
<1>8. CASE PAGE_SIZE * p = c
  <2>1. p * PAGE_SIZE + (t - c) = t
    BY <1>3, <1>6, <1>8, SMT
  <2> QED
    BY <1>5, <2>1 DEF t
<1> QED
  BY <1>4, <1>7, <1>8

LEMMA ExactSaltsStep ==
  ASSUME IInv, DoneInv, PageInv, ChainInv, ExactPage, ExactSalts, [Next]_vars
  PROVE  ExactSalts'
<1> USE ConstantsAssumption
<1>1. TypeOK /\ HandlerTypes
  BY DEF IInv, TypeOK
<1>2. op = "D" => \A h \in Handlers : ~SetSalt(h) /\ pc'[h] \notin {"hash", "salt", "encrypt"}
  <2> SUFFICES ASSUME op = "D", NEW h \in Handlers
               PROVE  ~SetSalt(h) /\ pc'[h] \notin {"hash", "salt", "encrypt"}
    OBVIOUS
  <2>1. pc[h] \notin {"hash", "salt", "encrypt"}
    BY DEF ExactSalts
  <2>2. ASSUME ReceiveTask(h)
        PROVE  pc'[h] # "hash"
    BY <1>1, <2>2 DEF ReceiveTask, Goto, HandlerTypes
  <2> QED
    BY <1>1, <2>1, <2>2, Moves DEF SetSalt, At, Move, ProcessMove, LoadMove, ChooseMove
<1>3. ASSUME NEW h \in Handlers, SetSalt(h), NEW t \in Chunks
      PROVE  salts'[t] \in {NoSalt, ReferenceSalt(t)}
  <2> DEFINE u == currentTask[h]
  <2>1. op = "E"
    BY <1>2, <1>3
  <2>2. /\ u \in Chunks /\ hash[h] = ChunkRead(h) /\ hash[h] \in Chunks
        /\ (u > 0 => salts[u - 1] # NoSalt)
        /\ salts' = [salts EXCEPT ![u] = Combine(hash[h], IF u = 0 THEN IV ELSE salts[u - 1])]
    BY <1>3, <2>1, PublishesNext
  <2>3. hash[h] = u
    <3>1. pc[h] = "salt"
      BY <1>3 DEF SetSalt, At
    <3> QED
      BY <2>2, <3>1, ReadKept, ReadsExact
  <2>4. u # 0 => u - 1 \in Chunks /\ u > 0
    BY <2>2, SMT DEF Chunks
  <2>5. u # 0 => salts[u - 1] = ReferenceSalt(u - 1)
    BY <2>2, <2>4 DEF ExactSalts
  <2>6. u \in Nat
    BY <2>2, SMT DEF Chunks
  <2>7. Combine(hash[h], IF u = 0 THEN IV ELSE salts[u - 1]) = ReferenceSalt(u)
    BY <2>3, <2>5, <2>6, NextReference
  <2> QED
    BY <1>1, <2>2, <2>7 DEF ExactSalts, TypeOK, DataTypes
<1>4. CASE UNCHANGED salts
  BY <1>2, <1>4 DEF ExactSalts
<1>5. (\E h \in Handlers : SetSalt(h)) \/ UNCHANGED salts
  BY DataFrame DEF dataVars, EncryptChunk, DecryptChunk, WriteOutput
<1> QED
  BY <1>2, <1>3, <1>4, <1>5 DEF ExactSalts

\* The output of each chunk is that chunk with its reference salt.
LEMMA WritesExact ==
  ASSUME IInv, DoneInv, PageInv, ChainInv, ExactPage, ExactSalts, [Next]_vars,
         NEW h \in Handlers, Wrote(h)
  PROVE  ChunkRead(h) = currentTask[h] /\ salts[currentTask[h]] = ReferenceSalt(currentTask[h])
<1> DEFINE t == currentTask[h]
<1>1. /\ t \in Chunks /\ ChunkRead(h) \in Chunks /\ output[t] = NoOutput
      /\ op = "E" => salts[t] # NoSalt
  BY WritesSalted
<1>2. Task(h) # NoTask
  BY DEF Wrote, EncryptChunk, DecryptChunk, WriteOutput, Readable
<1>3. salts[t] = ReferenceSalt(t)
  BY <1>1, ConstantsAssumption DEF ExactSalts
<1> QED
  BY <1>1, <1>2, <1>3, ReadsExact

LEMMA CorrectOutputStep ==
  ASSUME IInv, DoneInv, PageInv, ChainInv, ExactPage, ExactSalts, CorrectOutput, [Next]_vars
  PROVE  CorrectOutput'
<1> SUFFICES ASSUME NEW t \in Chunks, output'[t] # NoOutput
             PROVE  output'[t] = [chunk |-> t, salt |-> ReferenceSalt(t)]
  BY DEF CorrectOutput
<1>1. CASE output'[t] = output[t]
  BY <1>1 DEF CorrectOutput
<1>2. ASSUME NEW h \in Handlers, Wrote(h), currentTask[h] = t
      PROVE  output'[t] = [chunk |-> t, salt |-> ReferenceSalt(t)]
  <2>1. output' = [output EXCEPT ![t] = [chunk |-> ChunkRead(h), salt |-> salts[t]]]
    BY <1>2, WritesSalted
  <2>2. output'[t] = [chunk |-> ChunkRead(h), salt |-> salts[t]]
    BY <2>1 DEF IInv, TypeOK, DataTypes
  <2> QED
    BY <1>2, <2>2, WritesExact
<1> QED
  BY <1>1, <1>2, OutputStep DEF IInv

OrderInv == Orderly => ExactPage /\ ExactLoader /\ ExactSalts /\ CorrectOutput

LEMMA InitOrder == Init => OrderInv
<1> SUFFICES ASSUME Init, Orderly
             PROVE  ExactPage /\ ExactLoader /\ ExactSalts /\ CorrectOutput
  BY DEF OrderInv
<1> USE DEF Init
<1>1. MAX_PAGES >= totalPages => pagesProgress = totalPages
  BY EffectivePages, ConstantsAssumption, SMT DEF effectivePages
<1>2. ExactPage /\ ExactLoader
  BY <1>1 DEF ExactPage, ExactLoader, Mapped, Finishing
<1>3. ExactSalts /\ CorrectOutput
  BY DEF ExactSalts, CorrectOutput
<1> QED
  BY <1>2, <1>3

LEMMA NextOrder ==
  IInv /\ DoneInv /\ PageInv /\ ChainInv /\ OrderInv /\ [Next]_vars => OrderInv'
  BY ExactPageStep, ExactLoaderStep, ExactSaltsStep, CorrectOutputStep DEF OrderInv, ChainInv, Orderly

LEMMA OrderInvariance == Spec => [](IInv /\ DoneInv /\ PageInv /\ ChainInv /\ OrderInv)
<1>1. IInv /\ DoneInv /\ PageInv /\ ChainInv /\ OrderInv /\ [Next]_vars
        => (IInv /\ DoneInv /\ PageInv /\ ChainInv /\ OrderInv)'
  BY NextInv, NextDone, NextPage, NextChain, NextOrder
<1> QED
  BY <1>1, InitInv, InitDone, InitPage, InitChain, InitOrder, PTL DEF Spec

\* Where one handler runs, or every page is mapped at the start, each chunk of the
\* output is that chunk of the file, with the salt that the chain of all chunks
\* before it gives, for an encryption and a decryption.
THEOREM OutputIsCorrect ==
  ASSUME POOL_SIZE = 1 \/ MAX_PAGES >= totalPages
  PROVE  Spec => []CorrectOutput
<1>1. OrderInv => CorrectOutput
  BY DEF OrderInv, Orderly
<1> QED
  BY <1>1, OrderInvariance, PTL

-----------------------------------------------------------------------------
\* The chain whose chunks are read from their own places.

LEMMA SameExactData ==
  /\ ExactChain!Chunks = Chunks /\ ExactChain!NoSalt = NoSalt /\ ExactChain!NoOutput = NoOutput
  /\ ExactChain!IV = IV /\ \A c, s : ExactChain!Combine(c, s) = Combine(c, s)
  BY DEF ExactChain!Chunks, Chunks, ExactChain!NoSalt, NoSalt, ExactChain!NoOutput, NoOutput,
     ExactChain!IV, IV, ExactChain!Combine, Combine

LEMMA ExactChainStep ==
  ASSUME IInv, DoneInv, PageInv, ChainInv, OrderInv, Orderly, op = "E", [Next]_vars
  PROVE  [ExactChain!Next]_<<salts, output, mainPc = "done">>
<1>1. ASSUME NEW h \in Handlers, SetSalt(h)
      PROVE  /\ ExactChain!Publish(currentTask[h], currentTask[h])
             /\ currentTask[h] \in ExactChain!Chunks
  <2>1. pc[h] = "salt" /\ currentTask[h] \in Chunks /\ hash[h] = ChunkRead(h) /\ hash[h] \in Chunks
    BY <1>1, PublishesNext DEF SetSalt, At
  <2>2. hash[h] = currentTask[h]
    BY <2>1, ReadKept, ReadsExact DEF OrderInv
  <2> QED
    BY <1>1, <2>2, PublishesNext, SameExactData DEF ExactChain!Publish, finished
<1>2. ASSUME NEW h \in Handlers, Wrote(h)
      PROVE  /\ ExactChain!Encrypt(currentTask[h], currentTask[h])
             /\ currentTask[h] \in ExactChain!Chunks
  <2>1. ChunkRead(h) = currentTask[h]
    BY <1>2, WritesExact DEF OrderInv
  <2> QED
    BY <1>2, <2>1, WritesSalted, SameExactData DEF ExactChain!Encrypt, finished, LastHash
<1>3. Finish => ExactChain!Finish
  BY Finishes, SameExactData DEF ExactChain!Finish, finished
<1> QED
  BY <1>1, <1>2, <1>3, SameExactData, ChainFrame DEF ExactChain!Next, finished

\* Where one handler runs, or every page is mapped at the start, every chunk is
\* hashed and encrypted from its own place in the file.
THEOREM EncryptionImplementsExactChain ==
  ASSUME op = "E", POOL_SIZE = 1 \/ MAX_PAGES >= totalPages
  PROVE  Spec => ImplementsExactChain
<1>1. Init => ExactChain!Init
  <2> SUFFICES ASSUME Init
               PROVE  ExactChain!Init
    OBVIOUS
  <2>1. salts = [i \in Chunks |-> NoSalt] /\ output = [i \in Chunks |-> NoOutput] /\ mainPc # "done"
    BY DEF Init
  <2> QED
    BY <2>1, SameExactData DEF ExactChain!Init
<1>2. IInv /\ DoneInv /\ PageInv /\ ChainInv /\ OrderInv /\ [Next]_vars
        => [ExactChain!Next]_<<salts, output, mainPc = "done">>
  BY ExactChainStep DEF Orderly
<1> QED
  BY <1>1, <1>2, OrderInvariance, PTL DEF Spec, ImplementsExactChain, ExactChain!Spec

-----------------------------------------------------------------------------
\* Which inputs a process reads without a fault.

\* The whole pages of the file hold a task for every handler that dcbc() starts,
\* and no page that is loaded later can be missing.
Provided ==
  /\ Orderly
  /\ MAX_PAGES >= totalPages \/ ~MapMayFail
  /\ POOL_SIZE <= PAGE_SIZE * totalPages

\* Tasks are handed out when they are loaded.
HandedLoaded == mainPc \notin {"load", "exit"} => pendingTask <= loadedTasks
FaultInv == Provided => HandedLoaded /\ NoFault

LEMMA FirstHanded ==
  ASSUME Provided
  PROVE  POOL_SIZE <= effectivePages * PAGE_SIZE
<1> USE ConstantsAssumption
<1>1. totalPages \in Nat /\ effectivePages \in Nat
  BY EffectivePages
<1>2. CASE MAX_PAGES >= totalPages
  <2>1. effectivePages = totalPages
    BY <1>1, <1>2, SMT DEF effectivePages
  <2>2. totalPages * PAGE_SIZE = PAGE_SIZE * totalPages
    BY <1>1, SMT
  <2> QED
    BY <2>1, <2>2 DEF Provided
<1>3. CASE POOL_SIZE = 1
  <2>1. totalPages # 0
    <3>1. PAGE_SIZE * 0 = 0 /\ ~(POOL_SIZE <= 0)
      BY SMT
    <3> QED
      BY <3>1 DEF Provided
  <2>2. effectivePages >= 1
    BY <1>1, <2>1, SMT DEF effectivePages
  <2> QED
    BY <1>1, <1>3, <2>2, SMT
<1> QED
  BY <1>2, <1>3 DEF Provided, Orderly

LEMMA HandedLoadedStep ==
  ASSUME IInv, DoneInv, Provided, HandedLoaded, [Next]_vars
  PROVE  HandedLoaded'
<1> USE ConstantsAssumption
<1>1. TaskTypes /\ pendingTask \in Nat /\ loadedTasks \in Nat
  BY SMT DEF IInv, TypeOK, TaskTypes
<1>2. CASE LoadInitialPages
  BY <1>2, FirstHanded DEF LoadInitialPages, HandedLoaded
<1>3. ASSUME ~LoadInitialPages
      PROVE  mainPc' \in {"load", "exit"} <=> mainPc \in {"load", "exit"}
  BY <1>3, MainFrame DEF Main, MapInitialPageFails, StartHandler, Finish, BadAccess,
     TaskTableOverflow, Fault, mainVars
<1>4. \/ LoadInitialPages
      \/ UNCHANGED <<pendingTask, loadedTasks>>
      \/ pendingTask' = pendingTask /\ loadedTasks' = loadedTasks + 1
      \/ pendingTask' = pendingTask + 1 /\ loadedTasks' = loadedTasks /\ pendingTask < loadedTasks
  BY TaskFrame DEF taskVars, CountChunk, AddTask, DispatchParked, MoreToDispatch, TakeTask
<1>5. CASE UNCHANGED <<pendingTask, loadedTasks>> /\ ~LoadInitialPages
  BY <1>3, <1>5 DEF HandedLoaded
<1>6. CASE pendingTask' = pendingTask /\ loadedTasks' = loadedTasks + 1 /\ ~LoadInitialPages
  BY <1>1, <1>3, <1>6, SMT DEF HandedLoaded
<1>7. CASE pendingTask' = pendingTask + 1 /\ loadedTasks' = loadedTasks /\ pendingTask < loadedTasks
           /\ ~LoadInitialPages
  BY <1>1, <1>3, <1>7, SMT DEF HandedLoaded
<1> QED
  BY <1>2, <1>4, <1>5, <1>6, <1>7

\* A handler that has received a task can read it.
LEMMA CanRead ==
  ASSUME IInv, DoneInv, PageInv, ExactPage, Provided, HandedLoaded,
         NEW h \in Handlers, pc[h] \in {"hash", "encrypt", "decrypt"}
  PROVE  Readable(h)
<1> USE ConstantsAssumption
<1> DEFINE t == currentTask[h]
<1>1. Owns(h) /\ mainPc \notin {"load", "exit"}
  BY DEF Owns, Processing, DoneInv, BeforeStart, WaitsForTask
<1>2. t \in Nat /\ t < pendingTask /\ pendingTask <= loadedTasks
  BY <1>1 DEF DoneInv, OwnedNatural, IInv, PoolInv, HandedOut, HandedLoaded
<1>3. t \in Chunks /\ t < loadedTasks
  BY <1>2, SMT DEF IInv, TypeOK, TaskTypes, Chunks
<1>4. tasks[t] # NoTask /\ tasks[t] \in TaskContext
  BY <1>3 DEF PageInv, TableInv, TablePrefix, IInv, TypeOK, TaskTypes
<1>5. output[t] = NoOutput
  BY <1>1, <1>3 DEF DoneInv, Unfinished
<1>6. ~Missing(Page(h))
  <2>1. MAX_PAGES < totalPages => ~(MAX_PAGES >= totalPages)
    BY EffectivePages, SMT
  <2> QED
    BY <2>1 DEF Missing, Provided
<1>7. PAGE_SIZE * Page(h) = tasks[t].counter
  BY <1>3, <1>4, <1>5, <1>6 DEF ExactPage, Page, Task
<1>8. tasks[t].counter \in Nat /\ Page(h) \in Int
  <2>1. tasks[t].counter \in Chunks /\ Page(h) \in Int
    BY <1>4 DEF TaskContext, Page, Task, IInv, TypeOK, PageTypes
  <2> QED
    BY <2>1, SMT DEF Chunks
<1>9. Page(h) >= 0
  BY <1>7, <1>8, SMT
<1> QED
  BY <1>3, <1>4, <1>9 DEF Readable, Task

\* The loader does not write past the task table.
LEMMA TableHasRoom ==
  ASSUME IInv, DoneInv, PageInv, LoadedCount, ExactLoader, Provided,
         NEW h \in Handlers, pc[h] = "addTask"
  PROVE  ~TableFull
<1> USE ConstantsAssumption
<1>1. Base = PAGE_SIZE * pagesProgress
  BY LoaderBase DEF Provided
<1>2. loadedTasks < Base + PAGE_SIZE /\ Base \in Int /\ loadedTasks \in Int
  BY BaseOfLoader, SMT DEF PageInv, TableInv, IInv, TypeOK, TaskTypes
<1>3. pagesProgress \in Nat /\ totalPages \in Nat /\ pagesProgress < totalPages
  BY EffectivePages DEF ExactLoader, IInv, TypeOK, PageTypes
<1>4. PAGE_SIZE * pagesProgress + PAGE_SIZE <= PAGE_SIZE * totalPages
  <2>1. PAGE_SIZE * pagesProgress < PAGE_SIZE * totalPages
    BY <1>3, SMT
  <2> QED
    BY <1>3, <2>1, MultiplesApart
<1>5. PAGE_SIZE * totalPages <= chunkCount
  BY SMT DEF totalPages
<1>6. PAGE_SIZE * pagesProgress \in Int /\ PAGE_SIZE * totalPages \in Int
  BY <1>3, SMT
<1> QED
  BY <1>1, <1>2, <1>4, <1>5, <1>6, SMT DEF TableFull

LEMMA NextFault ==
  ASSUME IInv, DoneInv, PageInv, ChainInv, OrderInv, FaultInv, [Next]_vars
  PROVE  FaultInv'
<1> SUFFICES ASSUME Provided, HandedLoaded, NoFault
             PROVE  HandedLoaded' /\ NoFault'
  BY DEF FaultInv, Provided, Orderly
<1>1. ExactPage /\ ExactLoader /\ LoadedCount
  BY DEF OrderInv, Provided, ChainInv, RangeInv
<1>2. \A h \in Handlers : ~BadAccess(h)
  BY <1>1, CanRead DEF BadAccess, At
<1>3. \A h \in Handlers : ~TaskTableOverflow(h)
  BY <1>1, TableHasRoom DEF TaskTableOverflow, At
<1>4. fault' = fault
  BY <1>2, <1>3, MainFrame DEF Main, LoadInitialPages, MapInitialPageFails, StartHandler, Finish
<1> QED
  BY <1>4, HandedLoadedStep DEF NoFault

\* Where one handler runs, or every page is mapped at the start, a file whose whole
\* pages have a chunk for every handler is processed without a memory fault,
\* unless a page that is loaded later cannot be mapped.
THEOREM NoMemoryFault ==
  ASSUME POOL_SIZE = 1 \/ MAX_PAGES >= totalPages,
         MAX_PAGES >= totalPages \/ ~MapMayFail,
         POOL_SIZE <= PAGE_SIZE * totalPages
  PROVE  Spec => []NoFault
<1>1. Init => FaultInv
  BY DEF Init, FaultInv, HandedLoaded, NoFault
<1>2. FaultInv => NoFault
  BY DEF FaultInv, Provided, Orderly
<1> QED
  BY <1>1, <1>2, NextFault, OrderInvariance, PTL DEF Spec

===============================================================================
