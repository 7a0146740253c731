------------------------ MODULE ClusterEncryptProofs ------------------------
(***************************************************************************)
(* Proofs about ClusterEncrypt, for every number of workers, every page    *)
(* size and as many chunks as their ids tell apart (FewChunks).            *)
(*                                                                         *)
(* Inv is where the main thread is and what it has started (MainInv), who  *)
(* has accepted whom (Connections), what a handler and the chunk handler   *)
(* it has accepted are saying to each other (Talks), the salts asked for   *)
(* (RequestInv), the salts and their order (SaltInv, OrderInv), the page   *)
(* that is mapped and its count (PageInv), what a chunk handler has read   *)
(* (ChunkInv) and the count of what is done (CountInv).                    *)
(***************************************************************************)
EXTENDS ClusterEncrypt, DcbcBytesProofs, FiniteSetTheorems, SequenceTheorems, TLAPS

\* No two chunks have the same id.
FewChunks == chunkCount < CHAR

Creating == {"create", "construct", "insert", "send"}
Waiting == {"page", "final", "all"}

\* The handlers that main has started.
Started(h) == h < i \/ (h = i /\ mPc \in {"construct", "insert", "send"})

Types ==
  /\ FewChunks
  /\ TypeOK
  /\ seenProgress \in [Chunks -> Nat]
  /\ toMaster \in [Chunks -> {toMaster[c] : c \in Chunks}]
  /\ toWorker \in [Chunks -> {toWorker[c] : c \in Chunks}]

MainInv ==
  /\ mPc \in Creating \cup {"page"} => i < chunkCount
  /\ mPc \in {"final", "all", "done"} => i = chunkCount
  /\ mWait # "no" => mPc \in Waiting
  /\ mPc = "connect" <=> workers < min_workers
  /\ mPc = "connect" => i = 0
  /\ \A w \in 0 .. workers - 1 : next[w] = IF w = workers - 1 THEN 0 ELSE w + 1
  /\ workerHandlers = {h \in Chunks : h < i \/ (h = i /\ mPc = "send")}
  /\ \A h \in Chunks : whPc[h] # "none" <=> Started(h)
  /\ \A c \in Chunks : chPc[c] # "none" <=> c < i

Accepted(c) == \E h \in Chunks : peer[h] = c

Connections ==
  /\ \A h \in Chunks : peer[h] = NoOne <=> whPc[h] \in {"none", "accept"}
  /\ \A g, h \in Chunks : peer[g] = peer[h] /\ peer[g] # NoOne => g = h
  /\ \A c \in Chunks : chPc[c] \in {"none", "connect"} => ~Accepted(c)
  /\ \A j, k \in 1 .. Len(backlog) : backlog[j] = backlog[k] => j = k
  /\ \A k \in 1 .. Len(backlog) : chPc[backlog[k]] = "outputDir" /\ ~Accepted(backlog[k])
  /\ \A c \in Chunks : ~Accepted(c) => /\ chPc[c] \in {"none", "connect", "outputDir"}
                                       /\ toMaster[c] = <<>> /\ toWorker[c] = <<>>
  /\ KeepsOwnConnection

Message(flag, data) == [flag |-> flag, data |-> data]
PreviousSalt(h) == IF h = 0 THEN IV ELSE value[h - 1]
Counting == {"readProgress", "writeProgress", "testPage", "recv"}

\* What h and the chunk handler c it has accepted are at.
Greeted(h, c) ==
  /\ whPc[h] = "recv" /\ chPc[c] = "outputDir"
  /\ toMaster[c] = <<>> /\ toWorker[c] = <<Message("SET_OUTPUT_DIR", <<>>)>>
AsksChunk(h, c) ==
  /\ whPc[h] = "recv" /\ chPc[c] = "chunk"
  /\ toMaster[c] = <<Message("GET_CHUNK", <<>>)>> /\ toWorker[c] = <<>>
GivenChunk(h, c) ==
  /\ whPc[h] \in Counting /\ chPc[c] = "chunk"
  /\ toMaster[c] = <<>> /\ toWorker[c] = <<Message("ENCRYPT_CHUNK", toWorker[c][1].data)>>
  /\ toWorker[c][1].data \in Int
AsksSalt(h, c) ==
  /\ whPc[h] \in Counting /\ chPc[c] = "prevSalt"
  /\ toMaster[c] = <<Message("GET_PREV_SALT", <<>>)>> /\ toWorker[c] = <<>>
Missed(h, c) ==
  /\ whPc[h] = "request" /\ chPc[c] = "prevSalt"
  /\ toMaster[c] = <<>> /\ toWorker[c] = <<>>
  /\ h > 0
AwaitsSalt(h, c) ==
  /\ whPc[h] = "recv" /\ chPc[c] = "prevSalt"
  /\ toMaster[c] = <<>> /\ toWorker[c] = <<>>
  /\ h > 0 /\ isRequested[h - 1]
GivenSalt(h, c) ==
  /\ whPc[h] = "recv" /\ chPc[c] = "prevSalt"
  /\ toMaster[c] = <<>> /\ toWorker[c] = <<Message("GET_PREV_SALT_RESP", PreviousSalt(h))>>
  /\ PreviousSalt(h) # NoSalt
SendsSalt(h, c) ==
  /\ whPc[h] = "recv" /\ toWorker[c] = <<>>
  /\ \/ /\ chPc[c] = "encrypt"
        /\ toMaster[c] = <<Message("SET_SALT", chSalt[c])>>
     \/ /\ chPc[c] = "finished"
        /\ toMaster[c] = <<Message("SET_SALT", chSalt[c]), Message("SIGNAL_DONE", <<>>)>>
Encrypts(h, c) ==
  /\ whPc[h] \in {"isRequested", "recv"} /\ toWorker[c] = <<>>
  /\ \/ chPc[c] = "encrypt" /\ toMaster[c] = <<>>
     \/ chPc[c] = "finished" /\ toMaster[c] = <<Message("SIGNAL_DONE", <<>>)>>
Counted(h, c) ==
  /\ whPc[h] \in {"testAll", "recv"} /\ chPc[c] = "finished"
  /\ toMaster[c] = <<>> /\ toWorker[c] = <<>>

Before(h, c) == \/ Greeted(h, c) \/ AsksChunk(h, c) \/ GivenChunk(h, c) \/ AsksSalt(h, c)
                \/ Missed(h, c) \/ AwaitsSalt(h, c) \/ GivenSalt(h, c) \/ SendsSalt(h, c)
After(h, c) == Encrypts(h, c) \/ Counted(h, c)

Talk(h, c) == \/ Before(h, c) /\ value[h] = NoSalt
              \/ After(h, c) /\ value[h] = chSalt[c]
Talks == \A h \in Chunks : IF peer[h] = NoOne THEN value[h] = NoSalt ELSE Talk(h, peer[h])

\* A salt that was requested is awaited until it is set and looked for.
RequestInv ==
  \A h \in Chunks : isRequested[h] =>
    /\ h + 1 \in Chunks /\ peer[h + 1] # NoOne
    /\ (value[h] = NoSalt \/ whPc[h] = "isRequested") => AwaitsSalt(h + 1, peer[h + 1])

SaltInv ==
  /\ \A c \in Chunks : chSalt[c] # NoSalt <=> chPc[c] \in {"encrypt", "finished"}
  /\ \A c \in Chunks : cipher[c] = IF chPc[c] = "finished"
                                   THEN [chunk |-> chunkRead[c], salt |-> chSalt[c]]
                                   ELSE NoOutput
  /\ \A h \in Chunks : peer[h] # NoOne /\ chSalt[peer[h]] # NoSalt /\ h > 0 => value[h - 1] # NoSalt

\* The chunk of h has been sent and counted.
Written(h) ==
  /\ whPc[h] \in {"testPage", "recv", "request", "isRequested", "testAll"}
  /\ ~Unsent(h)
WrittenOfPage == {h \in Chunks : base * pageSize <= h /\ Written(h)}

\* Main has not reset pageProgress since it replaced the page.
FirstOfPage ==
  /\ base > 0
  /\ \/ mPc \in Creating /\ i = base * pageSize
     \/ mPc \in {"loop", "final"} /\ i = base * pageSize + 1

MappedInv ==
  CASE mPc = "connect" -> base = 0
    [] mPc \in Creating -> base * pageSize <= i /\ i < (base + 1) * pageSize
    [] mPc = "page" -> i = (base + 1) * pageSize
    [] OTHER -> \/ i = 0 /\ base = 0
                \/ base * pageSize < i /\ i <= (base + 1) * pageSize

PageInv ==
  /\ base = Unmapped <=> mPc \in {"all", "done"}
  /\ base # Unmapped =>
       /\ MappedInv
       /\ \A h \in Chunks : h < base * pageSize => Written(h)
       /\ \/ pageProgress <= Cardinality(WrittenOfPage)
          \/ pageProgress > pageSize
          \/ pageProgress = pageSize /\ FirstOfPage
       /\ \A h \in Chunks : whPc[h] = "writeProgress" =>
            seenProgress[h] <= Cardinality(WrittenOfPage) \/ seenProgress[h] >= pageSize

CountedSet == {h \in Chunks : peer[h] # NoOne /\ Counted(h, peer[h])}
CountInv == progress = Cardinality(CountedSet)

ChunkInv ==
  \A h \in Chunks : peer[h] # NoOne =>
    /\ GivenChunk(h, peer[h]) => toWorker[peer[h]][1].data = h
    /\ chPc[peer[h]] \in {"prevSalt", "encrypt", "finished"} => chunkRead[peer[h]] = h
    /\ chSalt[peer[h]] \in {NoSalt, ReferenceSalt(h)}


-----------------------------------------------------------------------------
\* Which step changes what.

LEMMA OneMessage ==
  ASSUME NEW m, NEW n
  PROVE  /\ Append(<<>>, m) = <<m>> /\ Append(<<m>>, n) = <<m, n>>
         /\ Head(<<m>>) = m /\ Tail(<<m>>) = <<>> /\ <<m>> # <<>>
         /\ Head(<<m, n>>) = m /\ Tail(<<m, n>>) = <<n>> /\ <<m, n>> # <<>>
<1> DEFINE S == {m, n}
<1>1. <<m>> \in Seq(S) /\ <<m, n>> \in Seq(S) /\ Len(<<m>>) = 1 /\ Len(<<m, n>>) = 2
  OBVIOUS
<1>2. Append(<<m>>, n) \in Seq(S) /\ Len(Append(<<m>>, n)) = 2
  BY <1>1, AppendProperties
<1>3. Append(<<m>>, n)[1] = m /\ Append(<<m>>, n)[2] = n
  BY <1>1, AppendProperties
<1>4. Append(<<m>>, n) = <<m, n>>
  <2>1. \A k \in 1 .. 2 : Append(<<m>>, n)[k] = <<m, n>>[k]
    BY <1>3
  <2> QED
    BY <1>1, <1>2, <2>1, SeqEqual
<1> QED
  BY <1>4

\* All but fault is as it was.
Nothing == UNCHANGED <<min_workers, mainVars, base, countVars, workerHandlers, indexVars, whPc,
                       whConn, peer, chVars, netVars>>

LEMMA NothingHappens ==
  ASSUME NEW h, \/ UNCHANGED vars
                \/ /\ \/ NullConnection(h) \/ SendUnmapped(h) \/ AnswerNullNext(h)
                      \/ AnswerNoNext(h) \/ MapRace(h)
                   /\ UNCHANGED min_workers
  PROVE  Nothing
  BY DEF vars, NullConnection, SendUnmapped, AnswerNullNext, AnswerNoNext, MapRace, Fault, Nothing

MainStep ==
  /\ \/ ConnectWorker \/ StartIteration \/ EndLoop \/ TestFails \/ Block
     \/ MapPage \/ UnmapFinalPage \/ PersistSalts
     \/ CreateHandler \/ ConstructHandler \/ InsertHandler \/ SendEncryptChunk
HandlerStep(h) ==
  \/ Accept(h) \/ SendChunk(h) \/ ReadPageProgress(h) \/ WritePageProgress(h) \/ NotifyPage(h)
  \/ AnswerPreviousSalt(h) \/ MissPreviousSalt(h) \/ Request(h)
  \/ SetSalt(h) \/ NotRequested(h) \/ AnswerNext(h) \/ CountChunk(h) \/ NotifyAll(h)
ChunkStep(c) ==
  \/ Connect(c) \/ RequestChunk(c) \/ RequestPreviousSalt(c)
  \/ CombineSalt(c) \/ EncryptAndWrite(c)

LEMMA Steps ==
  ASSUME [Next]_vars
  PROVE  /\ min_workers' = min_workers
         /\ Nothing \/ MainStep \/ \E h \in Chunks : HandlerStep(h) \/ ChunkStep(h)
<1>1. CASE UNCHANGED vars
  BY <1>1, NothingHappens DEF vars, Nothing
<1>2. CASE JobManager
  BY <1>2 DEF JobManager, MainStep
<1>3. ASSUME NEW h \in Chunks, WorkerHandler(h)
      PROVE  min_workers' = min_workers /\ (Nothing \/ HandlerStep(h))
  BY <1>3, NothingHappens DEF WorkerHandler, HandlerStep
<1>4. ASSUME NEW h \in Chunks, ChunkHandler(h)
      PROVE  min_workers' = min_workers /\ ChunkStep(h)
  BY <1>4 DEF ChunkHandler, ChunkStep
<1> QED
  BY <1>1, <1>2, <1>3, <1>4 DEF Next

\* Main touches no handler but the one it creates, and no chunk handler but the
\* one it sends for.
LEMMA MainFrame ==
  ASSUME MainStep
  PROVE  /\ UNCHANGED <<indexVars, netVars, peer, chunkRead, chSalt, cipher, fault, progress,
                        seenProgress, pageCountMutex>>
         /\ CreateHandler \/ UNCHANGED whPc
         /\ SendEncryptChunk \/ UNCHANGED <<chPc, i>>
         /\ InsertHandler \/ UNCHANGED workerHandlers
         /\ ConstructHandler \/ UNCHANGED whConn
         /\ StartIteration \/ UNCHANGED pageProgress
         /\ MapPage \/ UnmapFinalPage \/ UNCHANGED base
         /\ PersistSalts \/ UNCHANGED saltsFile
         /\ ConnectWorker \/ UNCHANGED <<workers, next>>
  BY DEF MainStep, ConnectWorker, StartIteration, EndLoop, TestFails, Block, MapPage, UnmapFinalPage,
     PersistSalts, CreateHandler, ConstructHandler, InsertHandler, SendEncryptChunk, mainVars,
     countVars, indexVars, chVars, netVars

LEMMA HandlerFrame ==
  ASSUME NEW h \in Chunks, HandlerStep(h)
  PROVE  /\ UNCHANGED <<mPc, i, workers, next, saltsFile, base, workerHandlers, chVars, fault>>
         /\ Accept(h) \/ UNCHANGED <<peer, whConn, backlog>>
         /\ SetSalt(h) \/ UNCHANGED value
         /\ Request(h) \/ UNCHANGED isRequested
         /\ CountChunk(h) \/ UNCHANGED progress
         /\ WritePageProgress(h) \/ UNCHANGED pageProgress
         /\ ReadPageProgress(h) \/ UNCHANGED seenProgress
         /\ AnswerPreviousSalt(h) \/ \E label : Goto(h, label)
         /\ NotifyPage(h) \/ NotifyAll(h) \/ UNCHANGED mWait
         /\ UNCHANGED toMaster \/ \E flag : Gets(h, flag)
         /\ Accept(h) \/ SendChunk(h) \/ AnswerPreviousSalt(h) \/ AnswerNext(h) \/ UNCHANGED toWorker
<1>1. Accept(h) \/ SendChunk(h) \/ ReadPageProgress(h) \/ WritePageProgress(h) \/ NotifyPage(h) =>
      /\ UNCHANGED <<mPc, i, workers, next, saltsFile, base, workerHandlers, chVars, fault>>
      /\ Accept(h) \/ UNCHANGED <<peer, whConn, backlog>>
      /\ UNCHANGED <<value, isRequested, progress>>
      /\ WritePageProgress(h) \/ UNCHANGED pageProgress
      /\ ReadPageProgress(h) \/ UNCHANGED seenProgress
      /\ \E label : Goto(h, label)
      /\ NotifyPage(h) \/ UNCHANGED mWait
      /\ UNCHANGED toMaster \/ \E flag : Gets(h, flag)
      /\ Accept(h) \/ SendChunk(h) \/ UNCHANGED toWorker
  BY DEF Accept, SendChunk, ReadPageProgress, WritePageProgress, NotifyPage, mainVars, countVars,
     indexVars, netVars
<1>2. AnswerPreviousSalt(h) \/ MissPreviousSalt(h) \/ Request(h) \/ NotRequested(h) =>
      /\ UNCHANGED <<mPc, i, workers, next, saltsFile, base, workerHandlers, chVars, fault>>
      /\ UNCHANGED <<peer, whConn, backlog, value, progress, pageProgress, seenProgress, mWait>>
      /\ Request(h) \/ UNCHANGED isRequested
      /\ AnswerPreviousSalt(h) \/ \E label : Goto(h, label)
      /\ UNCHANGED toMaster \/ \E flag : Gets(h, flag)
      /\ AnswerPreviousSalt(h) \/ UNCHANGED toWorker
  BY DEF AnswerPreviousSalt, MissPreviousSalt, Request, NotRequested, mainVars, countVars,
     indexVars, netVars
<1>3. SetSalt(h) \/ AnswerNext(h) \/ CountChunk(h) \/ NotifyAll(h) =>
      /\ UNCHANGED <<mPc, i, workers, next, saltsFile, base, workerHandlers, chVars, fault>>
      /\ UNCHANGED <<peer, whConn, backlog, isRequested, pageProgress, seenProgress>>
      /\ SetSalt(h) \/ UNCHANGED value
      /\ CountChunk(h) \/ UNCHANGED progress
      /\ \E label : Goto(h, label)
      /\ NotifyAll(h) \/ UNCHANGED mWait
      /\ UNCHANGED toMaster \/ \E flag : Gets(h, flag)
      /\ UNCHANGED toWorker \/ AnswerNext(h)
  BY DEF SetSalt, AnswerNext, CountChunk, NotifyAll, mainVars, countVars, indexVars, netVars
<1> QED
  BY <1>1, <1>2, <1>3 DEF HandlerStep

LEMMA ChunkFrame ==
  ASSUME NEW c \in Chunks, ChunkStep(c)
  PROVE  /\ UNCHANGED <<mainVars, base, countVars, workerHandlers, indexVars, whPc, whConn, peer,
                        fault>>
         /\ \E label : ChunkGoto(c, label)
         /\ Connect(c) \/ UNCHANGED backlog
         /\ RequestPreviousSalt(c) \/ UNCHANGED chunkRead
         /\ CombineSalt(c) \/ UNCHANGED chSalt
         /\ EncryptAndWrite(c) \/ UNCHANGED cipher
         /\ UNCHANGED toMaster \/ \E flag, data : Send(c, flag, data)
         /\ UNCHANGED toWorker \/ Consume(c)
  BY DEF ChunkStep, Connect, RequestChunk, RequestPreviousSalt, CombineSalt, EncryptAndWrite,
     netVars, chVars

\* Only main, h itself, the chunk handler h has accepted and the handler before it
\* change anything of h's talk.
Still(h, c) ==
  /\ peer'[h] = peer[h] /\ whPc'[h] = whPc[h] /\ value'[h] = value[h]
  /\ chPc'[c] = chPc[c] /\ chSalt'[c] = chSalt[c] /\ chunkRead'[c] = chunkRead[c]
  /\ toMaster'[c] = toMaster[c] /\ toWorker'[c] = toWorker[c]

LEMMA Neighbours ==
  ASSUME NEW h \in Chunks, h - 1 \in Chunks \/ h + 1 \in Chunks
  PROVE  h \in Int /\ h # h + 1 /\ h # h - 1 /\ (h - 1) + 1 = h /\ (h + 1) - 1 = h
  BY DEF Chunks

\* The handler that answers the request of h is the one before it.
AnsweredBy(g, h) == AnswerNext(g) /\ g + 1 = h

LEMMA SameIdIsSame ==
  ASSUME FewChunks, NEW c \in 0 .. chunkCount, NEW d \in 0 .. chunkCount, ChunkId(c) = ChunkId(d)
  PROVE  c = d
<1>1. c \in Nat /\ d \in Nat /\ c < CHAR /\ d < CHAR /\ CHAR \in Nat
  BY CharAssumption, ClusterAssumption DEF FewChunks
<1>2. c - d < CHAR /\ d - c < CHAR /\ (c < d \/ d < c \/ c = d)
  BY <1>1
<1> QED
  BY <1>1, <1>2, IdsDistinct

LEMMA FoundIsNext ==
  ASSUME Types, NEW h \in Chunks, NEW g \in Found(h)
  PROVE  g = h + 1 /\ g \in Chunks
<1>1. g \in Chunks /\ ChunkId(g) = ChunkId(h + 1)
  BY DEF Found, Types, TypeOK
<1>2. g \in 0 .. chunkCount /\ h + 1 \in 0 .. chunkCount
  BY <1>1, ClusterAssumption DEF Chunks
<1> QED
  BY <1>1, <1>2, SameIdIsSame DEF Types

\* The handler that is found is the one of the next chunk.
LEMMA AnswersNext ==
  ASSUME Types, NEW g \in Chunks, AnswerNext(g)
  PROVE  g + 1 \in Chunks /\ Answer(g + 1, "GET_PREV_SALT_RESP", value[g])
<1>1. PICK f \in Found(g) : Answer(f, "GET_PREV_SALT_RESP", value[g])
  BY DEF AnswerNext
<1> QED
  BY <1>1, FoundIsNext

LEMMA OtherHandler ==
  ASSUME Types, Connections, NEW g \in Chunks, HandlerStep(g),
         NEW h \in Chunks, g # h, ~AnsweredBy(g, h)
  PROVE  /\ peer'[h] = peer[h] /\ whPc'[h] = whPc[h] /\ value'[h] = value[h]
         /\ whConn'[h] = whConn[h] /\ seenProgress'[h] = seenProgress[h]
         /\ \A c \in Chunks : c = peer[h] => Still(h, c)
<1>1. /\ whPc \in [Chunks -> Labels] /\ peer \in [Chunks -> Chunks \cup {NoOne}]
      /\ whConn \in [Chunks -> BOOLEAN] /\ value \in [Chunks -> Seq(Int)]
      /\ seenProgress \in [Chunks -> Nat]
      /\ toMaster \in [Chunks -> {toMaster[c] : c \in Chunks}]
      /\ toWorker \in [Chunks -> {toWorker[c] : c \in Chunks}]
  BY DEF Types, TypeOK
<1>2. whPc'[h] = whPc[h]
  <2>1. CASE AnswerPreviousSalt(g)
    BY <2>1 DEF AnswerPreviousSalt
  <2>2. ASSUME NEW label, Goto(g, label)
        PROVE  whPc'[h] = whPc[h]
    BY <1>1, <2>2 DEF Goto
  <2> QED
    BY <2>1, <2>2, HandlerFrame
<1>3. /\ peer'[h] = peer[h] /\ whConn'[h] = whConn[h]
      /\ seenProgress'[h] = seenProgress[h] /\ value'[h] = value[h]
  <2>1. peer'[h] = peer[h] /\ whConn'[h] = whConn[h]
    <3>1. CASE Accept(g)
      BY <1>1, <3>1 DEF Accept
    <3>2. CASE UNCHANGED <<peer, whConn>>
      BY <3>2
    <3> QED
      BY <3>1, <3>2, HandlerFrame
  <2>2. seenProgress'[h] = seenProgress[h]
    BY <1>1, HandlerFrame DEF ReadPageProgress
  <2>3. value'[h] = value[h]
    BY <1>1, HandlerFrame DEF SetSalt
  <2> QED
    BY <2>1, <2>2, <2>3
<1>4. ASSUME NEW c \in Chunks, c = peer[h]
      PROVE  peer[g] # c /\ c # NoOne
  BY <1>4 DEF Connections, NoOne, Chunks
<1>5. ASSUME NEW c \in Chunks, c = peer[h]
      PROVE  toMaster'[c] = toMaster[c]
  <2>1. ASSUME NEW flag, Gets(g, flag)
        PROVE  toMaster'[c] = toMaster[c]
    BY <1>1, <1>4, <1>5, <2>1 DEF Gets
  <2> QED
    BY <2>1, HandlerFrame
<1>6. ASSUME NEW c \in Chunks, c = peer[h]
      PROVE  toWorker'[c] = toWorker[c]
  <2>1. CASE Accept(g)
    <3>1. Head(backlog) # c
      <4>1. backlog \in Seq(Chunks) /\ backlog # <<>>
        BY <2>1 DEF Accept, Types, TypeOK
      <4>2. 1 \in 1 .. Len(backlog) /\ Head(backlog) = backlog[1]
        BY <4>1
      <4>3. Accepted(c)
        BY <1>6 DEF Accepted
      <4> QED
        BY <4>2, <4>3 DEF Connections
    <3>2. peer'[g] # c
      BY <1>1, <2>1, <3>1 DEF Accept
    <3> QED
      BY <1>1, <2>1, <3>2 DEF Accept, Answer
  <2>2. CASE SendChunk(g) \/ AnswerPreviousSalt(g)
    <3>1. peer'[g] # c
      BY <1>4, <1>6, <2>2 DEF SendChunk, AnswerPreviousSalt
    <3> QED
      BY <1>1, <2>2, <3>1 DEF SendChunk, AnswerPreviousSalt, Answer
  <2>3. CASE AnswerNext(g)
    <3>1. UNCHANGED peer /\ g + 1 # h
      BY <2>3 DEF AnswerNext, AnsweredBy
    <3>2. g + 1 \in Chunks /\ Answer(g + 1, "GET_PREV_SALT_RESP", value[g])
      BY <2>3, AnswersNext
    <3>3. peer[g + 1] # c
      BY <1>4, <1>6, <3>1, <3>2 DEF Connections
    <3> QED
      BY <1>1, <3>1, <3>2, <3>3 DEF Answer
  <2> QED
    BY <2>1, <2>2, <2>3, HandlerFrame
<1> QED
  BY <1>2, <1>3, <1>5, <1>6, HandlerFrame DEF Still, chVars

LEMMA OtherChunk ==
  ASSUME Types, NEW g \in Chunks, ChunkStep(g), NEW h \in Chunks, NEW c \in Chunks, peer[h] = c, g # c
  PROVE  Still(h, c)
<1>1. /\ chPc \in [Chunks -> ChunkLabels] /\ chSalt \in [Chunks -> Seq(Int)]
      /\ chunkRead \in [Chunks -> Int]
      /\ toMaster \in [Chunks -> {toMaster[d] : d \in Chunks}]
      /\ toWorker \in [Chunks -> {toWorker[d] : d \in Chunks}]
  BY DEF Types, TypeOK
<1>2. chPc'[c] = chPc[c]
  <2>1. PICK label : ChunkGoto(g, label)
    BY ChunkFrame
  <2> QED
    BY <1>1, <2>1 DEF ChunkGoto
<1>3. chSalt'[c] = chSalt[c]
  BY <1>1, ChunkFrame DEF CombineSalt
<1>4. chunkRead'[c] = chunkRead[c]
  BY <1>1, ChunkFrame DEF RequestPreviousSalt
<1>5. toMaster'[c] = toMaster[c]
  <2>1. ASSUME NEW flag, NEW data, Send(g, flag, data)
        PROVE  toMaster'[c] = toMaster[c]
    BY <1>1, <2>1 DEF Send
  <2> QED
    BY <2>1, ChunkFrame
<1>6. toWorker'[c] = toWorker[c]
  BY <1>1, ChunkFrame DEF Consume
<1> QED
  BY <1>2, <1>3, <1>4, <1>5, <1>6, ChunkFrame DEF Still, indexVars

LEMMA MainStill ==
  ASSUME Types, MainInv, Connections, MainStep, NEW h \in Chunks, NEW c \in Chunks, peer[h] = c
  PROVE  Still(h, c)
<1>1. i \in Int /\ whPc \in [Chunks -> Labels] /\ chPc \in [Chunks -> ChunkLabels]
  <2>1. i \in 0 .. chunkCount
    BY DEF Types, TypeOK
  <2>2. whPc \in [Chunks -> Labels] /\ chPc \in [Chunks -> ChunkLabels]
    BY DEF Types, TypeOK
  <2> QED
    BY <2>1, <2>2, ClusterAssumption
<1>2. whPc[h] \notin {"none", "accept"} /\ chPc[c] # "none"
  BY DEF Connections, NoOne, Chunks, Accepted
<1>3. whPc'[h] = whPc[h]
  <2>1. CASE CreateHandler
    <3>1. h # i
      BY <1>1, <1>2, <2>1 DEF MainInv, CreateHandler, Main, Started
    <3> QED
      BY <1>1, <2>1, <3>1 DEF CreateHandler, Goto
  <2> QED
    BY <2>1, MainFrame
<1>4. chPc'[c] = chPc[c]
  <2>1. CASE SendEncryptChunk
    <3>1. c # i
      BY <1>1, <1>2, <2>1 DEF MainInv
    <3> QED
      BY <1>1, <2>1, <3>1 DEF SendEncryptChunk
  <2> QED
    BY <2>1, MainFrame
<1> QED
  BY <1>3, <1>4, MainFrame DEF Still, indexVars, netVars

-----------------------------------------------------------------------------
\* What handlers and chunk handlers read.

LEMMA ReadByHandler ==
  ASSUME NEW h \in Chunks, NEW c \in Chunks, Talk(h, c), whPc[h] = "recv", toMaster[c] # <<>>,
         NEW flag, flag = Head(toMaster[c]).flag
  PROVE  /\ flag = "GET_CHUNK" => AsksChunk(h, c) /\ Tail(toMaster[c]) = <<>>
         /\ flag = "GET_PREV_SALT" => AsksSalt(h, c) /\ Tail(toMaster[c]) = <<>>
         /\ flag = "SET_SALT" => /\ SendsSalt(h, c) /\ Head(toMaster[c]).data = chSalt[c]
                                 /\ Tail(toMaster[c]) = IF chPc[c] = "encrypt" THEN <<>>
                                                        ELSE <<Message("SIGNAL_DONE", <<>>)>>
         /\ flag = "SIGNAL_DONE" => /\ Encrypts(h, c) /\ chPc[c] = "finished"
                                    /\ Tail(toMaster[c]) = <<>>
         /\ flag \in {"GET_CHUNK", "GET_PREV_SALT", "SET_SALT"} <=> Before(h, c) /\ value[h] = NoSalt
<1>1. ASSUME NEW m, toMaster[c] = <<m>>
      PROVE  Head(toMaster[c]) = m /\ Tail(toMaster[c]) = <<>>
  BY <1>1, OneMessage
<1>2. ASSUME NEW m, NEW n, toMaster[c] = <<m, n>>
      PROVE  Head(toMaster[c]) = m /\ Tail(toMaster[c]) = <<n>>
  BY <1>2, OneMessage
<1>3. ASSUME NEW f, NEW d
      PROVE  Message(f, d).flag = f /\ Message(f, d).data = d
  BY DEF Message
<1>4. AsksChunk(h, c) => flag = "GET_CHUNK" /\ Tail(toMaster[c]) = <<>>
  BY <1>1, <1>3 DEF AsksChunk
<1>5. AsksSalt(h, c) => flag = "GET_PREV_SALT" /\ Tail(toMaster[c]) = <<>>
  BY <1>1, <1>3 DEF AsksSalt
<1>6. SendsSalt(h, c) => /\ flag = "SET_SALT" /\ Head(toMaster[c]).data = chSalt[c]
                         /\ Tail(toMaster[c]) = IF chPc[c] = "encrypt" THEN <<>>
                                                ELSE <<Message("SIGNAL_DONE", <<>>)>>
  <2> SUFFICES ASSUME SendsSalt(h, c)
               PROVE  /\ flag = "SET_SALT" /\ Head(toMaster[c]).data = chSalt[c]
                      /\ Tail(toMaster[c]) = IF chPc[c] = "encrypt" THEN <<>>
                                             ELSE <<Message("SIGNAL_DONE", <<>>)>>
    OBVIOUS
  <2>1. CASE chPc[c] = "encrypt"
    <3>1. toMaster[c] = <<Message("SET_SALT", chSalt[c])>>
      BY <2>1 DEF SendsSalt
    <3> QED
      BY <1>1, <1>3, <2>1, <3>1
  <2>2. CASE chPc[c] = "finished"
    <3>1. toMaster[c] = <<Message("SET_SALT", chSalt[c]), Message("SIGNAL_DONE", <<>>)>>
      BY <2>2 DEF SendsSalt
    <3> QED
      BY <1>2, <1>3, <2>2, <3>1
  <2> QED
    BY <2>1, <2>2 DEF SendsSalt
<1>7. Encrypts(h, c) => flag = "SIGNAL_DONE" /\ chPc[c] = "finished" /\ Tail(toMaster[c]) = <<>>
  BY <1>1, <1>3 DEF Encrypts
<1>8. AsksChunk(h, c) \/ AsksSalt(h, c) \/ SendsSalt(h, c) \/ Encrypts(h, c)
  BY DEF Talk, Before, After, Greeted, GivenChunk, Missed, AwaitsSalt, GivenSalt, Counted
<1>9. Encrypts(h, c) <=> ~(AsksChunk(h, c) \/ AsksSalt(h, c) \/ SendsSalt(h, c))
  BY <1>4, <1>5, <1>6, <1>7, <1>8
<1>10. Before(h, c) /\ value[h] = NoSalt <=> ~Encrypts(h, c)
  <2>1. Encrypts(h, c) => ~Before(h, c)
    BY <1>9 DEF Encrypts, Before, Greeted, AsksChunk, AsksSalt, GivenChunk, Missed, AwaitsSalt, GivenSalt
  <2>2. ~Encrypts(h, c) => ~After(h, c)
    BY DEF After, Counted
  <2> QED
    BY <2>1, <2>2 DEF Talk
<1> QED
  BY <1>4, <1>5, <1>6, <1>7, <1>8, <1>9, <1>10

LEMMA ReadByChunk ==
  ASSUME NEW h \in Chunks, NEW c \in Chunks, Talk(h, c), toWorker[c] # <<>>
  PROVE  /\ Len(toWorker[c]) = 1 /\ Tail(toWorker[c]) = <<>>
         /\ \/ Greeted(h, c) /\ Head(toWorker[c]).flag = "SET_OUTPUT_DIR"
            \/ /\ GivenChunk(h, c) /\ Head(toWorker[c]).flag = "ENCRYPT_CHUNK"
               /\ Head(toWorker[c]).data = toWorker[c][1].data
            \/ /\ GivenSalt(h, c) /\ Head(toWorker[c]).flag = "GET_PREV_SALT_RESP"
               /\ Head(toWorker[c]).data = PreviousSalt(h)
         /\ value[h] = NoSalt
<1>1. ASSUME NEW m, toWorker[c] = <<m>>
      PROVE  Head(toWorker[c]) = m /\ Tail(toWorker[c]) = <<>> /\ Len(toWorker[c]) = 1
  BY <1>1, OneMessage
<1>2. ASSUME NEW f, NEW d
      PROVE  Message(f, d).flag = f /\ Message(f, d).data = d
  BY DEF Message
<1>3. Greeted(h, c) => /\ Len(toWorker[c]) = 1 /\ Tail(toWorker[c]) = <<>>
                       /\ Head(toWorker[c]).flag = "SET_OUTPUT_DIR"
  BY <1>1, <1>2 DEF Greeted
<1>4. GivenChunk(h, c) => /\ Len(toWorker[c]) = 1 /\ Tail(toWorker[c]) = <<>>
                          /\ Head(toWorker[c]).flag = "ENCRYPT_CHUNK"
                          /\ Head(toWorker[c]).data = toWorker[c][1].data
  <2> SUFFICES ASSUME GivenChunk(h, c)
               PROVE  /\ Len(toWorker[c]) = 1 /\ Tail(toWorker[c]) = <<>>
                      /\ Head(toWorker[c]).flag = "ENCRYPT_CHUNK"
                      /\ Head(toWorker[c]).data = toWorker[c][1].data
    OBVIOUS
  <2>1. PICK x : toWorker[c] = <<Message("ENCRYPT_CHUNK", x)>> /\ x = toWorker[c][1].data
    BY DEF GivenChunk
  <2>2. Head(toWorker[c]) = Message("ENCRYPT_CHUNK", x)
    BY <1>1, <2>1
  <2> QED
    BY <1>1, <1>2, <2>1, <2>2
<1>5. GivenSalt(h, c) => /\ Len(toWorker[c]) = 1 /\ Tail(toWorker[c]) = <<>>
                         /\ Head(toWorker[c]).flag = "GET_PREV_SALT_RESP"
                         /\ Head(toWorker[c]).data = PreviousSalt(h)
  BY <1>1, <1>2 DEF GivenSalt
<1>6. ~After(h, c)
  BY DEF After, Encrypts, Counted
<1>7. Greeted(h, c) \/ GivenChunk(h, c) \/ GivenSalt(h, c)
  BY <1>6 DEF Talk, Before, AsksChunk, AsksSalt, Missed, AwaitsSalt, SendsSalt
<1> QED
  BY <1>3, <1>4, <1>5, <1>6, <1>7 DEF Talk

-----------------------------------------------------------------------------
\* The talk goes on.

LEMMA StillTalk ==
  ASSUME NEW h \in Chunks, NEW c \in Chunks, Talk(h, c), Still(h, c),
         h > 0 => (value[h - 1] # NoSalt => value'[h - 1] = value[h - 1]),
         h > 0 => (isRequested[h - 1] => isRequested'[h - 1])
  PROVE  Talk(h, c)'
<1>1. /\ Greeted(h, c) => Greeted(h, c)'
      /\ AsksChunk(h, c) => AsksChunk(h, c)'
      /\ GivenChunk(h, c) => GivenChunk(h, c)'
      /\ AsksSalt(h, c) => AsksSalt(h, c)'
      /\ Missed(h, c) => Missed(h, c)'
      /\ AwaitsSalt(h, c) => AwaitsSalt(h, c)'
      /\ SendsSalt(h, c) => SendsSalt(h, c)'
      /\ Encrypts(h, c) => Encrypts(h, c)'
      /\ Counted(h, c) => Counted(h, c)'
  BY DEF Still, Greeted, AsksChunk, GivenChunk, AsksSalt, Missed, AwaitsSalt, SendsSalt, Encrypts, Counted
<1>2. GivenSalt(h, c) => GivenSalt(h, c)'
  <2> SUFFICES ASSUME GivenSalt(h, c)
               PROVE  GivenSalt(h, c)'
    OBVIOUS
  <2>1. PreviousSalt(h)' = PreviousSalt(h)
    BY DEF GivenSalt, PreviousSalt, Chunks
  <2> QED
    BY <2>1 DEF GivenSalt, Still
<1> QED
  BY <1>1, <1>2 DEF Talk, Before, After, Still

LEMMA ChunkTalk ==
  ASSUME Types, Talks, NEW h \in Chunks, NEW c \in Chunks, peer[h] = c, ChunkStep(c)
  PROVE  Talk(h, c)'
<1>1. /\ chPc \in [Chunks -> ChunkLabels] /\ chSalt \in [Chunks -> Seq(Int)]
      /\ toMaster \in [Chunks -> {toMaster[d] : d \in Chunks}]
      /\ toWorker \in [Chunks -> {toWorker[d] : d \in Chunks}]
  BY DEF Types, TypeOK
<1>2. Talk(h, c)
  BY DEF Talks, NoOne, Chunks
<1>3. ~Connect(c)
  BY <1>2 DEF Connect, ChunkAt, Talk, Before, After, Greeted, AsksChunk, GivenChunk, AsksSalt, Missed,
     AwaitsSalt, GivenSalt, SendsSalt, Encrypts, Counted
<1>4. UNCHANGED <<value, whPc, isRequested, peer>>
  BY ChunkFrame DEF indexVars
<1>5. ASSUME NEW label, ChunkGoto(c, label)
      PROVE  chPc'[c] = label
  BY <1>1, <1>5 DEF ChunkGoto
<1>6. ASSUME NEW flag, NEW data, Send(c, flag, data)
      PROVE  toMaster'[c] = Append(toMaster[c], Message(flag, data))
  BY <1>1, <1>6 DEF Send, Message
<1>7. Consume(c) => toWorker'[c] = Tail(toWorker[c])
  BY <1>1 DEF Consume
<1>8. CASE RequestChunk(c)
  <2>1. Greeted(h, c) /\ Tail(toWorker[c]) = <<>> /\ value[h] = NoSalt
    BY <1>2, <1>8, ReadByChunk DEF RequestChunk, ChunkAt, HasReceived, Greeted, GivenChunk, GivenSalt
  <2>2. chPc'[c] = "chunk" /\ toWorker'[c] = <<>>
    BY <1>5, <1>7, <1>8, <2>1 DEF RequestChunk
  <2>3. toMaster'[c] = <<Message("GET_CHUNK", <<>>)>>
    BY <1>6, <1>8, <2>1, OneMessage DEF RequestChunk, Greeted
  <2>4. AsksChunk(h, c)'
    BY <1>4, <2>1, <2>2, <2>3 DEF AsksChunk, Greeted, Message
  <2> QED
    BY <1>4, <2>1, <2>4 DEF Talk, Before
<1>9. CASE RequestPreviousSalt(c)
  <2>1. GivenChunk(h, c) /\ Tail(toWorker[c]) = <<>> /\ value[h] = NoSalt
    BY <1>2, <1>9, ReadByChunk DEF RequestPreviousSalt, ChunkAt, HasReceived, Greeted, GivenChunk, GivenSalt
  <2>2. chPc'[c] = "prevSalt" /\ toWorker'[c] = <<>>
    BY <1>5, <1>7, <1>9, <2>1 DEF RequestPreviousSalt
  <2>3. toMaster'[c] = <<Message("GET_PREV_SALT", <<>>)>>
    BY <1>6, <1>9, <2>1, OneMessage DEF RequestPreviousSalt, GivenChunk
  <2>4. AsksSalt(h, c)'
    BY <1>4, <2>1, <2>2, <2>3 DEF AsksSalt, GivenChunk, Message
  <2> QED
    BY <1>4, <2>1, <2>4 DEF Talk, Before
<1>10. CASE CombineSalt(c)
  <2>1. GivenSalt(h, c) /\ Tail(toWorker[c]) = <<>> /\ value[h] = NoSalt
    BY <1>2, <1>10, ReadByChunk DEF CombineSalt, ChunkAt, HasReceived, Greeted, GivenChunk, GivenSalt
  <2>2. chPc'[c] = "encrypt" /\ toWorker'[c] = <<>>
    BY <1>5, <1>7, <1>10, <2>1 DEF CombineSalt
  <2>3. toMaster'[c] = <<Message("SET_SALT", chSalt'[c])>>
    BY <1>6, <1>10, <2>1, OneMessage DEF CombineSalt, GivenSalt
  <2>4. SendsSalt(h, c)'
    BY <1>4, <2>1, <2>2, <2>3 DEF SendsSalt, GivenSalt, Message
  <2> QED
    BY <1>4, <2>1, <2>4 DEF Talk, Before
<1>11. CASE EncryptAndWrite(c)
  <2>1. chPc[c] = "encrypt" /\ chPc'[c] = "finished" /\ UNCHANGED <<toWorker, chSalt>>
    BY <1>5, <1>11 DEF EncryptAndWrite, ChunkAt
  <2>2. toMaster'[c] = Append(toMaster[c], Message("SIGNAL_DONE", <<>>))
    BY <1>6, <1>11 DEF EncryptAndWrite
  <2>3. \/ SendsSalt(h, c) /\ value[h] = NoSalt
        \/ Encrypts(h, c) /\ value[h] = chSalt[c]
    BY <1>2, <2>1 DEF Talk, Before, After, Greeted, AsksChunk, GivenChunk, AsksSalt, Missed,
       AwaitsSalt, GivenSalt, Counted
  <2>4. ASSUME SendsSalt(h, c)
        PROVE  SendsSalt(h, c)'
    <3>1. toMaster[c] = <<Message("SET_SALT", chSalt[c])>>
      BY <2>1, <2>4 DEF SendsSalt
    <3>2. toMaster'[c] = <<Message("SET_SALT", chSalt[c]), Message("SIGNAL_DONE", <<>>)>>
      <4> DEFINE m == Message("SET_SALT", chSalt[c])
                 n == Message("SIGNAL_DONE", <<>>)
      <4>1. toMaster[c] = <<m>> /\ toMaster'[c] = Append(toMaster[c], n)
        BY <2>2, <3>1
      <4> HIDE DEF m, n
      <4>2. toMaster'[c] = <<m, n>>
        BY <4>1, OneMessage
      <4> QED
        BY <4>2 DEF m, n
    <3>3. toMaster'[c] = <<Message("SET_SALT", chSalt'[c]), Message("SIGNAL_DONE", <<>>)'>>
      BY <2>1, <3>2 DEF Message
    <3>4. whPc'[h] = "recv" /\ toWorker'[c] = <<>>
      BY <1>4, <2>1, <2>4 DEF SendsSalt
    <3> QED
      BY <2>1, <3>3, <3>4 DEF SendsSalt, Message
  <2>5. Encrypts(h, c) => Encrypts(h, c)'
    <3>1. Encrypts(h, c) => toMaster'[c] = <<Message("SIGNAL_DONE", <<>>)>>
      BY <2>1, <2>2, OneMessage DEF Encrypts
    <3> QED
      BY <1>4, <2>1, <3>1 DEF Encrypts, Message
  <2> QED
    BY <1>4, <2>1, <2>3, <2>4, <2>5 DEF Talk, Before, After
<1> QED
  BY <1>3, <1>8, <1>9, <1>10, <1>11 DEF ChunkStep

\* The salt before h's, once it is set, and a request for it, stay.
KeptBefore(h) ==
  h > 0 => /\ value[h - 1] # NoSalt => value'[h - 1] = value[h - 1]
           /\ isRequested[h - 1] => isRequested'[h - 1]

LEMMA HandlerTalk ==
  ASSUME Types, Connections, Talks, NEW h \in Chunks, NEW c \in Chunks, peer[h] = c,
         HandlerStep(h), KeptBefore(h)
  PROVE  peer'[h] = c /\ Talk(h, c)'
<1>1. /\ whPc \in [Chunks -> Labels] /\ value \in [Chunks -> Seq(Int)]
      /\ isRequested \in [Chunks -> BOOLEAN]
      /\ toMaster \in [Chunks -> {toMaster[d] : d \in Chunks}]
      /\ toWorker \in [Chunks -> {toWorker[d] : d \in Chunks}]
  BY DEF Types, TypeOK
<1>2. Talk(h, c)
  BY DEF Talks, NoOne, Chunks
<1>3. ~Accept(h)
  BY DEF Connections, Accept, At, NoOne, Chunks
<1>4. UNCHANGED <<peer, chPc, chSalt>>
  BY <1>3, HandlerFrame DEF chVars
<1>5. ASSUME NEW label, Goto(h, label)
      PROVE  whPc'[h] = label
  BY <1>1, <1>5 DEF Goto
<1>6. ASSUME NEW flag, Gets(h, flag)
      PROVE  /\ toMaster'[c] = Tail(toMaster[c]) /\ whPc[h] = "recv" /\ toMaster[c] # <<>>
             /\ flag = Head(toMaster[c]).flag
  BY <1>1, <1>6 DEF Gets, At
<1>7. ASSUME NEW flag, NEW data, Answer(h, flag, data)
      PROVE  toWorker'[c] = Append(toWorker[c], Message(flag, data))
  BY <1>1, <1>4, <1>7 DEF Answer, Message
<1>8. CASE SendChunk(h)
  <2>1. AsksChunk(h, c) /\ Tail(toMaster[c]) = <<>> /\ value[h] = NoSalt
    BY <1>2, <1>6, <1>8, ReadByHandler DEF SendChunk
  <2> DEFINE x == base * pageSize + (h % pageSize)
  <2>2. x \in Int
    <3>1. base \in Int
      <4>1. base \in 0 .. chunkCount \/ base = Unmapped
        BY DEF Types, TypeOK
      <4> QED
        BY <4>1 DEF Unmapped
    <3>2. pageSize \in Nat \ {0} /\ h \in Int
      BY ClusterAssumption DEF Chunks
    <3>3. (h % pageSize) \in Int
      BY <3>2
    <3>4. base * pageSize \in Int
      BY <3>1, <3>2
    <3> QED
      BY <3>3, <3>4
  <2> HIDE DEF x
  <2>3. toWorker'[c] = <<Message("ENCRYPT_CHUNK", x)>>
    BY <1>7, <1>8, <2>1, OneMessage DEF SendChunk, AsksChunk, x
  <2>4. toWorker'[c][1].data = x
    BY <2>3 DEF Message
  <2>5. toWorker'[c] = <<Message("ENCRYPT_CHUNK", toWorker[c][1].data)'>>
    BY <2>3, <2>4 DEF Message
  <2>6. whPc'[h] = "readProgress" /\ toMaster'[c] = <<>> /\ UNCHANGED value
    BY <1>5, <1>6, <1>8, <2>1 DEF SendChunk, indexVars
  <2>7. GivenChunk(h, c)'
    BY <1>4, <2>1, <2>2, <2>4, <2>5, <2>6 DEF GivenChunk, AsksChunk, Counting, Message
  <2> QED
    BY <1>4, <2>1, <2>6, <2>7 DEF Talk, Before
<1>9. CASE ReadPageProgress(h) \/ WritePageProgress(h) \/ NotifyPage(h)
  <2>1. /\ whPc[h] \in {"readProgress", "writeProgress", "testPage"} /\ whPc'[h] \in Counting
        /\ UNCHANGED <<toMaster, toWorker, value>>
    BY <1>5, <1>9 DEF ReadPageProgress, WritePageProgress, NotifyPage, At, Counting, netVars, indexVars
  <2>2. (GivenChunk(h, c) \/ AsksSalt(h, c)) /\ value[h] = NoSalt
    BY <1>2, <2>1 DEF Talk, Before, After, Greeted, AsksChunk, Missed, AwaitsSalt, GivenSalt, SendsSalt,
       Encrypts, Counted
  <2>3. (GivenChunk(h, c) \/ AsksSalt(h, c))'
    BY <1>4, <2>1, <2>2 DEF GivenChunk, AsksSalt, Message
  <2> QED
    BY <1>4, <2>1, <2>2, <2>3 DEF Talk, Before
<1>10. CASE AnswerPreviousSalt(h)
  <2>1. AsksSalt(h, c) /\ Tail(toMaster[c]) = <<>> /\ value[h] = NoSalt
    BY <1>2, <1>6, <1>10, ReadByHandler DEF AnswerPreviousSalt
  <2>2. toWorker'[c] = <<Message("GET_PREV_SALT_RESP", PreviousSalt(h))>>
    BY <1>7, <1>10, <2>1, OneMessage DEF AnswerPreviousSalt, AsksSalt, PreviousSalt
  <2>3. whPc'[h] = "recv" /\ toMaster'[c] = <<>> /\ UNCHANGED value
    BY <1>6, <1>10, <2>1 DEF AnswerPreviousSalt, indexVars
  <2>4. PreviousSalt(h) # NoSalt /\ PreviousSalt(h)' = PreviousSalt(h)
    BY <1>10, <2>3 DEF AnswerPreviousSalt, PreviousSalt, Chunks, IV, NoSalt
  <2>5. GivenSalt(h, c)'
    BY <1>4, <2>1, <2>2, <2>3, <2>4 DEF GivenSalt, AsksSalt, Message
  <2> QED
    BY <1>4, <2>1, <2>3, <2>5 DEF Talk, Before
<1>11. CASE MissPreviousSalt(h)
  <2>1. AsksSalt(h, c) /\ Tail(toMaster[c]) = <<>> /\ value[h] = NoSalt /\ h > 0
    BY <1>2, <1>6, <1>11, ReadByHandler DEF MissPreviousSalt
  <2>2. whPc'[h] = "request" /\ toMaster'[c] = <<>> /\ UNCHANGED <<value, toWorker>>
    BY <1>5, <1>6, <1>11, <2>1 DEF MissPreviousSalt, indexVars
  <2>3. Missed(h, c)'
    BY <1>4, <2>1, <2>2 DEF Missed, AsksSalt
  <2> QED
    BY <1>4, <2>1, <2>2, <2>3 DEF Talk, Before
<1>12. CASE Request(h)
  <2>1. Missed(h, c) /\ value[h] = NoSalt
    BY <1>2, <1>12 DEF Request, At, Talk, Before, After, Greeted, AsksChunk, AsksSalt, GivenChunk,
       AwaitsSalt, GivenSalt, SendsSalt, Encrypts, Counted, Counting
  <2>2. whPc'[h] = "recv" /\ UNCHANGED <<value, toMaster, toWorker>>
    BY <1>5, <1>12 DEF Request, netVars
  <2>3. h - 1 \in Chunks
    BY <2>1, ClusterAssumption DEF Missed, Chunks
  <2>4. isRequested'[h - 1]
    BY <1>1, <1>12, <2>3 DEF Request
  <2>5. AwaitsSalt(h, c)'
    BY <1>4, <2>1, <2>2, <2>4 DEF AwaitsSalt, Missed
  <2> QED
    BY <1>4, <2>1, <2>2, <2>5 DEF Talk, Before
<1>13. CASE SetSalt(h)
  <2>1. /\ SendsSalt(h, c) /\ Head(toMaster[c]).data = chSalt[c] /\ value[h] = NoSalt
        /\ Tail(toMaster[c]) = IF chPc[c] = "encrypt" THEN <<>>
                               ELSE <<Message("SIGNAL_DONE", <<>>)>>
    BY <1>2, <1>6, <1>13, ReadByHandler DEF SetSalt
  <2>2. /\ whPc'[h] = "isRequested" /\ toMaster'[c] = Tail(toMaster[c]) /\ UNCHANGED toWorker
        /\ value'[h] = chSalt[c]
    BY <1>1, <1>5, <1>6, <1>13, <2>1 DEF SetSalt
  <2>3. Encrypts(h, c)'
    BY <1>4, <2>1, <2>2 DEF Encrypts, SendsSalt, Message
  <2> QED
    BY <1>4, <2>2, <2>3 DEF Talk, After
<1>14. CASE NotRequested(h) \/ AnswerNext(h)
  <2>1. Encrypts(h, c) /\ value[h] = chSalt[c]
    BY <1>2, <1>14 DEF NotRequested, AnswerNext, At, Talk, Before, After, Greeted, AsksChunk, AsksSalt, GivenChunk,
       Missed, AwaitsSalt, GivenSalt, SendsSalt, Counted, Counting
  <2>2. whPc'[h] = "recv" /\ UNCHANGED <<value, toMaster>>
    BY <1>5, <1>14 DEF NotRequested, AnswerNext, netVars, indexVars
  <2>3. toWorker'[c] = toWorker[c]
    <3>1. CASE NotRequested(h)
      BY <3>1 DEF NotRequested, netVars
    <3>2. CASE AnswerNext(h)
      <4>1. h + 1 \in Chunks /\ h + 1 # h /\ Answer(h + 1, "GET_PREV_SALT_RESP", value[h])
        BY <3>2, AnswersNext DEF Chunks
      <4>2. peer'[h + 1] # c
        BY <1>4, <4>1 DEF Connections, NoOne, Chunks
      <4> QED
        BY <1>1, <4>1, <4>2 DEF Answer
    <3> QED
      BY <1>14, <3>1, <3>2
  <2>4. Encrypts(h, c)'
    BY <1>4, <2>1, <2>2, <2>3 DEF Encrypts, Message
  <2> QED
    BY <1>4, <2>1, <2>2, <2>4 DEF Talk, After
<1>15. CASE CountChunk(h)
  <2>1. Encrypts(h, c) /\ chPc[c] = "finished" /\ Tail(toMaster[c]) = <<>> /\ value[h] = chSalt[c]
    BY <1>2, <1>6, <1>15, ReadByHandler DEF CountChunk, Talk, SendsSalt, AsksChunk, AsksSalt
  <2>2. whPc'[h] = "testAll" /\ toMaster'[c] = <<>> /\ UNCHANGED <<value, toWorker>>
    BY <1>5, <1>6, <1>15, <2>1 DEF CountChunk, indexVars
  <2>3. Counted(h, c)'
    BY <1>4, <2>1, <2>2 DEF Counted, Encrypts
  <2> QED
    BY <1>4, <2>1, <2>2, <2>3 DEF Talk, After
<1>16. CASE NotifyAll(h)
  <2>1. Counted(h, c) /\ value[h] = chSalt[c]
    BY <1>2, <1>16 DEF NotifyAll, At, Talk, Before, After, Greeted, AsksChunk, AsksSalt, GivenChunk,
       Missed, AwaitsSalt, GivenSalt, SendsSalt, Encrypts, Counting
  <2>2. whPc'[h] = "recv" /\ UNCHANGED <<value, toMaster, toWorker>>
    BY <1>5, <1>16 DEF NotifyAll, netVars, indexVars
  <2>3. Counted(h, c)'
    BY <1>4, <2>1, <2>2 DEF Counted
  <2> QED
    BY <1>4, <2>1, <2>2, <2>3 DEF Talk, After
<1> QED
  BY <1>3, <1>4, <1>8, <1>9, <1>10, <1>11, <1>12, <1>13, <1>14, <1>15, <1>16 DEF HandlerStep

-----------------------------------------------------------------------------
\* Accepting.

LEMMA Accepting ==
  ASSUME Types, Connections, NEW h \in Chunks, Accept(h)
  PROVE  /\ Head(backlog) \in Chunks /\ chPc[Head(backlog)] = "outputDir"
         /\ ~Accepted(Head(backlog))
         /\ whPc[h] = "accept" /\ peer[h] = NoOne
         /\ peer' = [peer EXCEPT ![h] = Head(backlog)] /\ whPc'[h] = "recv" /\ whConn'[h]
         /\ backlog' = Tail(backlog)
         /\ \A k \in 1 .. Len(Tail(backlog)) :
              /\ k \in 1 .. Len(backlog) /\ k + 1 \in 1 .. Len(backlog)
              /\ Tail(backlog)[k] = backlog[k + 1] /\ backlog[k + 1] # Head(backlog)
<1>1. backlog \in Seq(Chunks) /\ backlog # <<>>
  BY DEF Accept, Types, TypeOK
<1>2. 1 \in 1 .. Len(backlog) /\ Head(backlog) = backlog[1] /\ backlog[1] \in Chunks /\ Len(backlog) \in Nat
  BY <1>1
<1>3. /\ whPc[h] = "accept" /\ peer' = [peer EXCEPT ![h] = Head(backlog)] /\ whPc'[h] = "recv"
      /\ backlog' = Tail(backlog) /\ whConn'[h]
  <2>1. whPc \in [Chunks -> Labels] /\ whConn \in [Chunks -> BOOLEAN]
    BY DEF Types, TypeOK
  <2> QED
    BY <2>1 DEF Accept, At, Goto
<1>4. ASSUME NEW k \in 1 .. Len(Tail(backlog))
      PROVE  /\ k \in 1 .. Len(backlog) /\ k + 1 \in 1 .. Len(backlog)
             /\ Tail(backlog)[k] = backlog[k + 1] /\ backlog[k + 1] # Head(backlog)
  <2>1. Len(Tail(backlog)) = Len(backlog) - 1 /\ Tail(backlog)[k] = backlog[k + 1]
    BY <1>1, HeadTailProperties
  <2>2. k \in 1 .. Len(backlog) /\ k + 1 \in 1 .. Len(backlog) /\ k + 1 # 1
    BY <1>2, <2>1
  <2>3. backlog[k + 1] # backlog[1]
    BY <1>2, <2>2 DEF Connections
  <2> QED
    BY <1>2, <2>1, <2>2, <2>3
<1> QED
  BY <1>2, <1>3, <1>4 DEF Connections

\* A handler keeps the chunk handler it has accepted.
LEMMA PeerKept ==
  ASSUME Types, Connections, [Next]_vars, NEW h \in Chunks
  PROVE  \/ peer'[h] = peer[h] /\ ~Accept(h)
         \/ peer[h] = NoOne /\ Accept(h) /\ peer'[h] = Head(backlog)
<1>1. peer \in [Chunks -> Chunks \cup {NoOne}]
  BY DEF Types, TypeOK
<1>2. CASE Accept(h)
  BY <1>1, <1>2, Accepting
<1>3. CASE ~Accept(h)
  <2>1. ASSUME NEW g \in Chunks, HandlerStep(g)
        PROVE  peer'[h] = peer[h]
    <3>1. CASE Accept(g)
      BY <1>1, <1>3, <3>1, Accepting
    <3> QED
      BY <2>1, <3>1, HandlerFrame
  <2> QED
    BY <1>3, <2>1, Steps, MainFrame, ChunkFrame DEF Nothing
<1> QED
  BY <1>2, <1>3

LEMMA AcceptedKept ==
  ASSUME Types, Connections, [Next]_vars, NEW c \in Chunks
  PROVE  /\ Accepted(c) => Accepted(c)'
         /\ Accepted(c)' => Accepted(c) \/ \E h \in Chunks : Accept(h) /\ Head(backlog) = c
  BY PeerKept DEF Accepted, NoOne, Chunks

\* Nobody writes to a connection that is not accepted.
LEMMA Unaccepted ==
  ASSUME Types, Connections, NEW g \in Chunks, HandlerStep(g), NEW c \in Chunks,
         ~Accepted(c), ~Accepted(c)'
  PROVE  toMaster'[c] = toMaster[c] /\ toWorker'[c] = toWorker[c]
<1>1. /\ toMaster \in [Chunks -> {toMaster[d] : d \in Chunks}]
      /\ toWorker \in [Chunks -> {toWorker[d] : d \in Chunks}]
  BY DEF Types, TypeOK
<1>2. \A h \in Chunks : peer[h] # c /\ peer'[h] # c
  BY DEF Accepted
<1>3. toMaster'[c] = toMaster[c]
  <2>1. ASSUME NEW flag, Gets(g, flag)
        PROVE  toMaster'[c] = toMaster[c]
    BY <1>1, <1>2, <2>1 DEF Gets
  <2> QED
    BY <2>1, HandlerFrame
<1>4. toWorker'[c] = toWorker[c]
  <2>1. CASE Accept(g)
    BY <1>1, <1>2, <2>1 DEF Accept, Answer
  <2>2. CASE SendChunk(g)
    BY <1>1, <1>2, <2>2 DEF SendChunk, Answer
  <2>3. CASE AnswerPreviousSalt(g)
    BY <1>1, <1>2, <2>3 DEF AnswerPreviousSalt, Answer
  <2>4. CASE AnswerNext(g)
    <3>1. g + 1 \in Chunks /\ Answer(g + 1, "GET_PREV_SALT_RESP", value[g])
      BY <2>4, AnswersNext
    <3> QED
      BY <1>1, <1>2, <3>1 DEF Answer
  <2> QED
    BY <2>1, <2>2, <2>3, <2>4, HandlerFrame
<1> QED
  BY <1>3, <1>4

LEMMA ValueKept ==
  ASSUME Types, Connections, Talks, [Next]_vars, NEW g \in Chunks
  PROVE  /\ value'[g] = value[g] \/ (SetSalt(g) /\ value[g] = NoSalt)
         /\ SetSalt(g) => value[g] = NoSalt /\ SendsSalt(g, peer[g]) /\ peer[g] \in Chunks
         /\ isRequested[g] => isRequested'[g]
<1>1. /\ value \in [Chunks -> Seq(Int)] /\ isRequested \in [Chunks -> BOOLEAN]
      /\ peer \in [Chunks -> Chunks \cup {NoOne}]
  BY DEF Types, TypeOK
<1>2. ASSUME SetSalt(g)
      PROVE  value[g] = NoSalt /\ SendsSalt(g, peer[g]) /\ peer[g] \in Chunks
  <2>1. peer[g] \in Chunks /\ whPc[g] = "recv"
    BY <1>1, <1>2 DEF Connections, SetSalt, Gets, At
  <2>2. Talk(g, peer[g])
    BY <2>1 DEF Talks, NoOne, Chunks
  <2>3. toMaster[peer[g]] # <<>> /\ Head(toMaster[peer[g]]).flag = "SET_SALT"
    BY <1>2 DEF SetSalt, Gets
  <2> QED
    BY <2>1, <2>2, <2>3, ReadByHandler
<1>3. ASSUME NEW h \in Chunks, HandlerStep(h)
      PROVE  value'[g] = value[g] \/ SetSalt(g)
  BY <1>1, <1>3, HandlerFrame DEF SetSalt
<1>4. ASSUME NEW h \in Chunks, HandlerStep(h), isRequested[g]
      PROVE  isRequested'[g]
  BY <1>1, <1>4, HandlerFrame DEF Request
<1> QED
  BY <1>2, <1>3, <1>4, Steps, MainFrame, ChunkFrame DEF Nothing, indexVars

\* The handler before h answers a salt that h awaits.
LEMMA AnsweredTalk ==
  ASSUME Types, Connections, Talks, RequestInv, SaltInv, NEW g \in Chunks, NEW h \in Chunks,
         AnsweredBy(g, h), HandlerStep(g), NEW c \in Chunks, peer[h] = c
  PROVE  AwaitsSalt(h, c) /\ value[h] = NoSalt /\ GivenSalt(h, c)' /\ UNCHANGED <<value, peer, chPc>>
<1>1. /\ whPc \in [Chunks -> Labels] /\ value \in [Chunks -> Seq(Int)]
      /\ toWorker \in [Chunks -> {toWorker[d] : d \in Chunks}]
      /\ peer \in [Chunks -> Chunks \cup {NoOne}]
  BY DEF Types, TypeOK
<1>2. AnswerNext(g) /\ g + 1 = h /\ g # h /\ h > 0 /\ h - 1 = g /\ h # 0
  BY DEF AnsweredBy, Chunks
<1>3. UNCHANGED <<value, peer, chPc, toMaster>>
  BY <1>2 DEF AnswerNext, indexVars, chVars
<1>4. whPc[g] = "isRequested" /\ isRequested[g] /\ Goto(g, "recv")
  BY <1>2 DEF AnswerNext, At
<1>5. AwaitsSalt(h, c)
  BY <1>2, <1>4 DEF RequestInv
<1>6. value[g] # NoSalt
  <2>1. peer[g] \in Chunks /\ peer[g] # NoOne
    BY <1>1, <1>4 DEF Connections
  <2>2. Encrypts(g, peer[g]) /\ value[g] = chSalt[peer[g]]
    BY <1>4, <2>1 DEF Talks, Talk, Before, After, Greeted, AsksChunk, AsksSalt, GivenChunk,
       Missed, AwaitsSalt, GivenSalt, SendsSalt, Counted, Counting
  <2>3. chPc[peer[g]] \in {"encrypt", "finished"}
    BY <2>2 DEF Encrypts
  <2> QED
    BY <2>1, <2>2, <2>3 DEF SaltInv
<1>7. PreviousSalt(h) = value[g] /\ PreviousSalt(h)' = value[g]
  BY <1>2, <1>3 DEF PreviousSalt
<1>8. toWorker'[c] = Append(toWorker[c], Message("GET_PREV_SALT_RESP", value[g]))
  <2>1. Answer(h, "GET_PREV_SALT_RESP", value[g])
    BY <1>2, AnswersNext
  <2> QED
    BY <1>1, <1>3, <2>1 DEF Answer, Message
<1>9. toWorker'[c] = <<Message("GET_PREV_SALT_RESP", value[g])>>
  BY <1>5, <1>8, OneMessage DEF AwaitsSalt
<1>10. whPc'[h] = whPc[h]
  BY <1>1, <1>2, <1>4 DEF Goto
<1>11. GivenSalt(h, c)'
  BY <1>3, <1>5, <1>6, <1>7, <1>9, <1>10 DEF GivenSalt, AwaitsSalt, Message
<1>12. value[h] = NoSalt
  <2>1. Talk(h, c)
    BY DEF Talks, NoOne, Chunks
  <2> QED
    BY <1>5, <2>1 DEF AwaitsSalt, Talk, After, Encrypts, Counted
<1> QED
  BY <1>3, <1>5, <1>11, <1>12

LEMMA TalksStep ==
  ASSUME Types, MainInv, Connections, Talks, RequestInv, SaltInv, [Next]_vars
  PROVE  Talks'
<1> SUFFICES ASSUME NEW h \in Chunks
             PROVE  IF peer'[h] = NoOne THEN value'[h] = NoSalt ELSE Talk(h, peer[h])'
  BY DEF Talks, Chunks
<1>1. /\ peer \in [Chunks -> Chunks \cup {NoOne}] /\ whPc \in [Chunks -> Labels]
      /\ toWorker \in [Chunks -> {toWorker[d] : d \in Chunks}]
  BY DEF Types, TypeOK
<1>2. CASE peer[h] = NoOne
  <2>1. whPc[h] \in {"none", "accept"} /\ value[h] = NoSalt
    BY <1>2 DEF Connections, Talks
  <2>2. value'[h] = NoSalt
    BY <2>1, ValueKept DEF SetSalt, Gets, At
  <2>3. CASE Accept(h)
    <3>1. PICK c \in Chunks : /\ ~Accepted(c) /\ chPc[c] = "outputDir"
                              /\ peer'[h] = c /\ whPc'[h] = "recv"
      BY <1>1, <2>3, Accepting
    <3>2. toMaster[c] = <<>> /\ toWorker[c] = <<>>
      BY <3>1 DEF Connections
    <3>3. /\ UNCHANGED <<toMaster, chPc>>
          /\ toWorker' = [toWorker EXCEPT ![peer'[h]] = Append(@, Message("SET_OUTPUT_DIR", <<>>))]
      BY <2>3 DEF Accept, Answer, Message, chVars
    <3>4. toWorker'[c] = <<Message("SET_OUTPUT_DIR", <<>>)>>
      BY <1>1, <3>1, <3>2, <3>3, OneMessage
    <3>5. Greeted(h, c)'
      BY <3>1, <3>2, <3>3, <3>4 DEF Greeted, Message
    <3>6. Talk(h, c)'
      BY <2>2, <3>5 DEF Talk, Before
    <3>7. peer'[h] # NoOne
      BY <3>1 DEF NoOne, Chunks
    <3> QED
      BY <3>1, <3>6, <3>7
  <2>4. CASE ~Accept(h)
    BY <1>2, <2>2, <2>4, PeerKept
  <2> QED
    BY <2>3, <2>4
<1>3. CASE peer[h] # NoOne
  <2>1. PICK c \in Chunks : peer[h] = c /\ peer'[h] = c /\ Talk(h, c)
    BY <1>1, <1>3, PeerKept DEF Talks
  <2>2. KeptBefore(h)
    <3>1. h > 0 => h - 1 \in Chunks
      BY ClusterAssumption DEF Chunks
    <3> QED
      BY <3>1, ValueKept DEF KeptBefore
  <2>3. Still(h, c) => Talk(h, c)'
    BY <2>1, <2>2, StillTalk DEF KeptBefore
  <2>4. ASSUME Nothing
        PROVE  Talk(h, c)'
    BY <2>1, <2>3, <2>4 DEF Nothing, Still, indexVars, chVars, netVars
  <2>5. ASSUME MainStep
        PROVE  Talk(h, c)'
    BY <2>1, <2>3, <2>5, MainStill
  <2>6. ASSUME NEW g \in Chunks, HandlerStep(g)
        PROVE  Talk(h, c)'
    <3>1. CASE g = h
      BY <2>1, <2>2, <2>6, <3>1, HandlerTalk
    <3>2. CASE g # h /\ ~AnsweredBy(g, h)
      BY <2>1, <2>3, <2>6, <3>2, OtherHandler
    <3>3. CASE AnsweredBy(g, h)
      BY <2>1, <2>6, <3>3, AnsweredTalk DEF Talk, Before
    <3> QED
      BY <3>1, <3>2, <3>3
  <2>7. ASSUME NEW g \in Chunks, ChunkStep(g)
        PROVE  Talk(h, c)'
    <3>1. CASE g = c
      BY <2>1, <2>7, <3>1, ChunkTalk
    <3>2. CASE g # c
      BY <2>1, <2>3, <2>7, <3>2, OtherChunk
    <3> QED
      BY <3>1, <3>2
  <2>8. Talk(h, c)'
    BY <2>4, <2>5, <2>6, <2>7, Steps
  <2> QED
    BY <1>3, <2>1, <2>8
<1> QED
  BY <1>2, <1>3

\* In a step, what h and its chunk handler say stays, or one of them acts, or the
\* handler before h answers.
LEMMA PairSteps ==
  ASSUME Types, MainInv, Connections, [Next]_vars, NEW h \in Chunks, NEW c \in Chunks, peer[h] = c
  PROVE  /\ peer'[h] = c
         /\ \/ Still(h, c) \/ HandlerStep(h) \/ ChunkStep(c)
            \/ \E g \in Chunks : HandlerStep(g) /\ AnsweredBy(g, h)
<1>1. peer'[h] = c
  BY PeerKept DEF NoOne, Chunks
<1>2. Nothing => Still(h, c)
  BY DEF Nothing, Still, indexVars, chVars, netVars
<1>3. ASSUME NEW g \in Chunks, HandlerStep(g), g # h
      PROVE  Still(h, c) \/ AnsweredBy(g, h)
  BY <1>3, OtherHandler
<1>4. ASSUME NEW g \in Chunks, ChunkStep(g), g # c
      PROVE  Still(h, c)
  BY <1>4, OtherChunk
<1> QED
  BY <1>1, <1>2, <1>3, <1>4, MainStill, Steps

\* Which step a handler looks for a request after.
LEMMA ToIsRequested ==
  ASSUME Types, [Next]_vars, NEW h \in Chunks, whPc'[h] = "isRequested", whPc[h] # "isRequested"
  PROVE  SetSalt(h)
<1>1. whPc \in [Chunks -> Labels]
  BY DEF Types, TypeOK
<1>2. ASSUME NEW g, NEW label, Goto(g, label), g # h \/ label # "isRequested"
      PROVE  whPc'[h] # "isRequested"
  BY <1>1, <1>2 DEF Goto
<1>3. ~CreateHandler
  BY <1>2 DEF CreateHandler
<1>4. PICK g \in Chunks : HandlerStep(g)
  BY <1>3, Steps, MainFrame, ChunkFrame DEF Nothing
<1>5. SetSalt(g) /\ g = h
  BY <1>2, <1>4 DEF HandlerStep, Accept, SendChunk, ReadPageProgress, WritePageProgress,
     NotifyPage, AnswerPreviousSalt, MissPreviousSalt, Request, SetSalt, NotRequested, AnswerNext,
     CountChunk, NotifyAll
<1> QED
  BY <1>5

LEMMA RequestStep ==
  ASSUME Types, MainInv, Connections, Talks, RequestInv, SaltInv, [Next]_vars
  PROVE  RequestInv'
<1> SUFFICES ASSUME NEW h \in Chunks, isRequested'[h]
             PROVE  /\ h + 1 \in Chunks /\ peer'[h + 1] # NoOne
                    /\ (value'[h] = NoSalt \/ whPc'[h] = "isRequested") =>
                       AwaitsSalt(h + 1, peer[h + 1])'
  BY DEF RequestInv, Chunks
<1>1. /\ isRequested \in [Chunks -> BOOLEAN] /\ whPc \in [Chunks -> Labels]
      /\ value \in [Chunks -> Seq(Int)] /\ peer \in [Chunks -> Chunks \cup {NoOne}]
  BY DEF Types, TypeOK
<1>2. CASE ~isRequested[h]
  <2>1. PICK g \in Chunks : Request(g) /\ HandlerStep(g)
    BY <1>2, Steps, MainFrame, HandlerFrame, ChunkFrame DEF Nothing, indexVars
  <2>2. g - 1 = h /\ whPc[g] = "request"
    BY <1>1, <1>2, <2>1 DEF Request, At
  <2>3. h + 1 = g
    BY <2>2 DEF Chunks
  <2>4. PICK c \in Chunks : peer[g] = c /\ peer'[g] = c
    <3>1. peer[g] \in Chunks
      BY <1>1, <2>2 DEF Connections
    <3>2. peer[g] \in Chunks => peer'[g] = peer[g]
      BY PairSteps
    <3> QED
      BY <3>1, <3>2
  <2>5. KeptBefore(g)
    BY <2>2, ValueKept DEF KeptBefore
  <2>6. Talk(g, c)'
    BY <2>1, <2>4, <2>5, HandlerTalk
  <2>7. whPc'[g] = "recv" /\ UNCHANGED <<chPc, toWorker, toMaster>>
    BY <1>1, <2>1 DEF Request, Goto, chVars, netVars
  <2>8. Missed(g, c)
    BY <2>2, <2>4 DEF Talks, Talk, Before, After, Greeted, AsksChunk, AsksSalt, GivenChunk,
       AwaitsSalt, GivenSalt, SendsSalt, Encrypts, Counted, Counting, NoOne, Chunks
  <2>9. AwaitsSalt(g, c)'
    BY <1>2, <2>2, <2>7, <2>8 DEF AwaitsSalt, Missed
  <2>10. AwaitsSalt(g, peer[g])'
    BY <2>4, <2>9 DEF AwaitsSalt
  <2> QED
    BY <2>3, <2>4, <2>10 DEF NoOne, Chunks
<1>3. CASE isRequested[h]
  <2>1. h + 1 \in Chunks /\ peer[h + 1] # NoOne
    BY <1>3 DEF RequestInv
  <2>2. PICK g \in Chunks : g = h + 1
    BY <2>1
  <2>3. PICK c \in Chunks : peer[g] = c /\ peer'[g] = c
    BY <1>1, <2>1, <2>2, PairSteps
  <2>4. g > 0 /\ g - 1 = h /\ g # h
    BY <2>2 DEF Chunks
  <2>5. ASSUME value'[h] = NoSalt \/ whPc'[h] = "isRequested"
        PROVE  AwaitsSalt(g, c)'
    <3>1. value[h] = NoSalt \/ whPc[h] = "isRequested"
      <4>1. CASE value'[h] = NoSalt
        BY <4>1, ValueKept
      <4>2. CASE whPc'[h] = "isRequested" /\ value[h] # NoSalt
        BY <4>2, ToIsRequested, ValueKept
      <4> QED
        BY <2>5, <4>1, <4>2
    <3>2. AwaitsSalt(g, c)
      BY <1>3, <2>2, <2>3, <3>1 DEF RequestInv
    <3>3. ~HandlerStep(g) /\ ~ChunkStep(c)
      BY <2>3, <3>2 DEF AwaitsSalt, HandlerStep, Accept, SendChunk, ReadPageProgress, WritePageProgress,
         NotifyPage, AnswerPreviousSalt, MissPreviousSalt, Request, SetSalt, NotRequested, AnswerNext,
         CountChunk, NotifyAll, Gets, At, ChunkStep, Connect, RequestChunk, RequestPreviousSalt,
         CombineSalt, EncryptAndWrite, ChunkAt, HasReceived
    <3>4. ~\E d \in Chunks : HandlerStep(d) /\ AnsweredBy(d, g)
      <4>1. ASSUME HandlerStep(h), AnsweredBy(h, g)
            PROVE  FALSE
        <5>1. GivenSalt(g, c)' /\ UNCHANGED value
          BY <2>3, <4>1, AnsweredTalk
        <5>2. value'[h] # NoSalt
          BY <2>4, <5>1 DEF GivenSalt, PreviousSalt
        <5>3. whPc'[h] = "recv"
          BY <1>1, <4>1 DEF AnsweredBy, AnswerNext, Goto
        <5> QED
          BY <2>5, <5>2, <5>3
      <4> QED
        BY <2>2, <4>1 DEF AnsweredBy, Chunks
    <3>5. Still(g, c)
      BY <2>3, <3>3, <3>4, PairSteps
    <3> QED
      BY <2>4, <3>2, <3>5 DEF AwaitsSalt, Still
  <2>6. peer'[g] # NoOne
    BY <2>3 DEF NoOne, Chunks
  <2>7. AwaitsSalt(g, c)' => AwaitsSalt(g, peer[g])'
    BY <2>3 DEF AwaitsSalt
  <2> QED
    BY <2>1, <2>2, <2>5, <2>6, <2>7
<1> QED
  BY <1>2, <1>3

-----------------------------------------------------------------------------
\* Where main is, and what it has started.

LEMMA MainTypes ==
  ASSUME Types
  PROVE  /\ i \in Int /\ min_workers \in Nat /\ workers \in Nat /\ workers <= min_workers
         /\ chunkCount \in Nat /\ min_workers > 0 /\ i >= 0 /\ i <= chunkCount
<1>1. i \in 0 .. chunkCount /\ min_workers \in 1 .. MAX_WORKERS /\ workers \in 0 .. min_workers
  BY DEF Types, TypeOK
<1> QED
  BY <1>1, ClusterAssumption

LEMMA MainInvStep ==
  ASSUME Types, MainInv, Connections, [Next]_vars
  PROVE  MainInv'
<1>1. /\ whPc \in [Chunks -> Labels] /\ chPc \in [Chunks -> ChunkLabels]
      /\ next \in [Workers -> Workers \cup {NoOne}]
  BY DEF Types, TypeOK
<1>2. CASE Nothing
  BY <1>2 DEF Nothing, MainInv, mainVars, chVars, Started
<1>3. ASSUME NEW h \in Chunks, HandlerStep(h)
      PROVE  MainInv'
  <2>1. UNCHANGED <<mPc, i, workers, next, workerHandlers, chPc, min_workers>>
    BY <1>3, HandlerFrame, Steps DEF chVars
  <2>2. mWait' # "no" => mWait # "no"
    BY <1>3, HandlerFrame DEF NotifyPage, NotifyAll, Notify
  <2>3. ASSUME NEW g \in Chunks
        PROVE  whPc'[g] # "none" <=> whPc[g] # "none"
    <3>1. whPc[h] # "none"
      BY <1>3 DEF HandlerStep, Accept, SendChunk, ReadPageProgress, WritePageProgress, NotifyPage,
         AnswerPreviousSalt, MissPreviousSalt, Request, SetSalt, NotRequested, AnswerNext,
         CountChunk, NotifyAll, Gets, At
    <3>2. whPc'[h] # "none"
      <4>1. ASSUME NEW label, Goto(h, label), label # "none"
            PROVE  whPc'[h] # "none"
        BY <1>1, <4>1 DEF Goto
      <4> QED
        BY <1>3, <3>1, <4>1 DEF HandlerStep, Accept, SendChunk, ReadPageProgress, WritePageProgress,
           NotifyPage, AnswerPreviousSalt, MissPreviousSalt, Request, SetSalt, NotRequested,
           AnswerNext, CountChunk, NotifyAll
    <3>3. g # h => whPc'[g] = whPc[g]
      <4>1. ASSUME NEW label, Goto(h, label), g # h
            PROVE  whPc'[g] = whPc[g]
        BY <1>1, <4>1 DEF Goto
      <4> QED
        BY <1>3, <4>1, HandlerFrame DEF AnswerPreviousSalt
    <3> QED
      BY <3>1, <3>2, <3>3
  <2> QED
    BY <2>1, <2>2, <2>3 DEF MainInv, Started
<1>4. ASSUME NEW c \in Chunks, ChunkStep(c)
      PROVE  MainInv'
  <2>1. UNCHANGED <<mainVars, workerHandlers, whPc, min_workers>>
    BY <1>4, ChunkFrame, Steps
  <2>2. chPc[c] # "none" /\ \E label \in ChunkLabels \ {"none"} : ChunkGoto(c, label)
    BY <1>4 DEF ChunkStep, Connect, RequestChunk, RequestPreviousSalt, CombineSalt, EncryptAndWrite,
       ChunkAt, ChunkLabels
  <2>3. \A d \in Chunks : chPc'[d] # "none" <=> chPc[d] # "none"
    BY <1>1, <2>2 DEF ChunkGoto
  <2> QED
    BY <2>1, <2>3 DEF MainInv, mainVars, Started
<1>5. ASSUME MainStep, ~ConnectWorker, ~CreateHandler, ~ConstructHandler, ~InsertHandler, ~SendEncryptChunk
      PROVE  MainInv'
  <2>1. UNCHANGED <<i, workers, next, workerHandlers, whPc, chPc, min_workers>>
    BY <1>5, MainFrame, Steps
  <2>2. /\ mPc' \in Creating \cup {"page"} => i < chunkCount
        /\ mPc' \in {"final", "all", "done"} => i = chunkCount
        /\ mWait' # "no" => mPc' \in Waiting
        /\ mPc' = "connect" <=> mPc = "connect"
        /\ mPc' = "send" <=> mPc = "send"
        /\ mPc' \in {"construct", "insert", "send"} <=> mPc \in {"construct", "insert", "send"}
    BY <1>5 DEF MainInv, MainStep, StartIteration, EndLoop, TestFails, Block, MapPage, UnmapFinalPage,
       PersistSalts, Main, Predicate, Creating, Waiting
  <2> QED
    BY <2>1, <2>2 DEF MainInv, Started
<1>6. CASE ConnectWorker
  <2>1. /\ UNCHANGED <<mWait, i, workerHandlers, whPc, chPc, min_workers>> /\ workers' = workers + 1
        /\ mPc = "connect" /\ workers < min_workers
        /\ mPc' = IF workers' = min_workers THEN "loop" ELSE "connect"
    BY <1>6, Steps DEF ConnectWorker, chVars, Main
  <2>2. \A w \in 0 .. workers' - 1 : next'[w] = IF w = workers' - 1 THEN 0 ELSE w + 1
    <3> SUFFICES ASSUME NEW w \in 0 .. workers' - 1
                 PROVE  next'[w] = IF w = workers' - 1 THEN 0 ELSE w + 1
      OBVIOUS
    <3>1. w \in Workers /\ w \in Int
      BY <2>1, MainTypes DEF Workers
    <3>2. next'[w] = CASE w = workers -> 0 [] w = workers - 1 -> workers [] OTHER -> next[w]
      BY <1>6, <3>1, Steps DEF ConnectWorker, Workers
    <3>3. w < workers => next[w] = IF w = workers - 1 THEN 0 ELSE w + 1
      BY <3>1, MainTypes DEF MainInv, Workers
    <3> QED
      BY <2>1, <3>1, <3>2, <3>3, MainTypes
  <2>3. mPc' = "connect" <=> workers' < min_workers'
    BY <2>1, MainTypes
  <2> QED
    BY <2>1, <2>2, <2>3 DEF MainInv, Started, Creating, Waiting
<1>7. CASE CreateHandler
  <2>1. /\ UNCHANGED <<mWait, i, workers, next, workerHandlers, chPc, min_workers>>
        /\ mPc = "create" /\ mPc' = "construct" /\ Goto(i, "accept")
    BY <1>7, Steps DEF CreateHandler, chVars, Main
  <2>2. ASSUME NEW h \in Chunks
        PROVE  whPc'[h] # "none" <=> (whPc[h] # "none" \/ h = i)
    BY <1>1, <2>1 DEF Goto
  <2> QED
    BY <2>1, <2>2 DEF MainInv, Started, Creating, Waiting
<1>8. CASE ConstructHandler \/ InsertHandler
  <2>1. /\ UNCHANGED <<mWait, i, workers, next, whPc, chPc, min_workers>>
        /\ \/ mPc = "construct" /\ mPc' = "insert" /\ UNCHANGED workerHandlers
           \/ mPc = "insert" /\ mPc' = "send" /\ InsertHandler
    BY <1>8, Steps DEF ConstructHandler, InsertHandler, chVars, Main
  <2>2. i \in Chunks
    BY <2>1, MainTypes DEF MainInv, Creating, Chunks
  <2>3. mPc = "insert" => \A d \in workerHandlers : ~SameId(i, d)
    <3> SUFFICES ASSUME mPc = "insert", NEW d \in workerHandlers, SameId(i, d)
                 PROVE  FALSE
      OBVIOUS
    <3>1. d \in Chunks /\ d # i
      BY <2>2 DEF MainInv, Chunks
    <3>2. d \in 0 .. chunkCount /\ i \in 0 .. chunkCount /\ ChunkId(i) = ChunkId(d)
      BY <2>2, <3>1, ClusterAssumption DEF Chunks, SameId
    <3> QED
      BY <3>1, <3>2, SameIdIsSame DEF Types
  <2>4. InsertHandler => workerHandlers' = workerHandlers \cup {i}
    BY <2>3 DEF InsertHandler, Main
  <2> QED
    BY <2>1, <2>2, <2>4 DEF MainInv, Started, Creating, Waiting
<1>9. CASE SendEncryptChunk
  <2>1. /\ UNCHANGED <<mWait, workers, next, workerHandlers, whPc, min_workers>> /\ i' = i + 1
        /\ mPc = "send" /\ mPc' = "loop" /\ chPc' = [chPc EXCEPT ![i] = "connect"]
    BY <1>9, Steps DEF SendEncryptChunk, chVars, Main
  <2>2. \A h \in Chunks : h \in Int /\ (h < i' <=> h < i \/ h = i)
    BY <2>1, MainTypes DEF Chunks
  <2>3. ASSUME NEW c \in Chunks
        PROVE  chPc'[c] # "none" <=> c < i'
    BY <1>1, <2>1, <2>2 DEF MainInv
  <2>4. workerHandlers' = {h \in Chunks : h < i' \/ (h = i' /\ mPc' = "send")}
    BY <2>1, <2>2 DEF MainInv
  <2>5. \A h \in Chunks : whPc'[h] # "none" <=> Started(h)'
    BY <2>1, <2>2 DEF MainInv, Started
  <2> QED
    BY <2>1, <2>3, <2>4, <2>5 DEF MainInv, Creating, Waiting
<1> QED
  BY <1>2, <1>3, <1>4, <1>5, <1>6, <1>7, <1>8, <1>9, Steps

-----------------------------------------------------------------------------
\* Who has accepted whom.

\* A chunk handler starts once.
LEMMA ChunkStarts ==
  ASSUME Types, MainInv, [Next]_vars, NEW c \in Chunks
  PROVE  chPc'[c] \in {"none", "connect"} => chPc[c] \in {"none", "connect"}
<1>1. chPc \in [Chunks -> ChunkLabels]
  BY DEF Types, TypeOK
<1>2. CASE MainStep
  <2>1. SendEncryptChunk => chPc[i] = "none"
    BY MainTypes DEF MainInv, SendEncryptChunk, Main, Creating, Chunks
  <2> QED
    BY <1>1, <1>2, <2>1, MainFrame DEF SendEncryptChunk
<1>3. ASSUME NEW d \in Chunks, ChunkStep(d)
      PROVE  chPc'[c] = chPc[c] \/ chPc'[c] \notin {"none", "connect"}
  BY <1>1, <1>3 DEF ChunkStep, Connect, RequestChunk, RequestPreviousSalt, CombineSalt,
     EncryptAndWrite, ChunkGoto
<1> QED
  BY <1>2, <1>3, Steps, HandlerFrame DEF Nothing, chVars

\* No other chunk's file has the same name.
LEMMA WritesOwnFile ==
  ASSUME Types, NEW c \in Chunks, EncryptAndWrite(c)
  PROVE  cipher' = [cipher EXCEPT ![c] = [chunk |-> chunkRead[c], salt |-> chSalt[c]]]
<1>1. ASSUME NEW d \in Chunks
      PROVE  SameId(c, d) <=> d = c
  <2>1. c \in 0 .. chunkCount /\ d \in 0 .. chunkCount
    BY ClusterAssumption DEF Chunks
  <2> QED
    BY <2>1, SameIdIsSame DEF Types, SameId
<1>2. cipher = [d \in Chunks |-> cipher[d]]
  BY DEF Types, TypeOK
<1>3. cipher' = [d \in Chunks |-> IF d = c THEN [chunk |-> chunkRead[c], salt |-> chSalt[c]]
                                  ELSE cipher[d]]
  BY <1>1 DEF EncryptAndWrite
<1> QED
  BY <1>2, <1>3

LEMMA ChunkElsewhere ==
  ASSUME Types, NEW d \in Chunks, ChunkStep(d), NEW c \in Chunks, d # c
  PROVE  /\ chPc'[c] = chPc[c] /\ chSalt'[c] = chSalt[c] /\ chunkRead'[c] = chunkRead[c]
         /\ cipher'[c] = cipher[c] /\ toMaster'[c] = toMaster[c] /\ toWorker'[c] = toWorker[c]
<1>1. /\ chPc \in [Chunks -> ChunkLabels] /\ chSalt \in [Chunks -> Seq(Int)]
      /\ chunkRead \in [Chunks -> Int] /\ DOMAIN cipher = Chunks
      /\ toMaster \in [Chunks -> {toMaster[e] : e \in Chunks}]
      /\ toWorker \in [Chunks -> {toWorker[e] : e \in Chunks}]
  BY DEF Types, TypeOK
<1>2. chPc'[c] = chPc[c]
  BY <1>1, ChunkFrame DEF ChunkGoto
<1>3. chSalt'[c] = chSalt[c]
  BY <1>1, ChunkFrame DEF CombineSalt
<1>4. chunkRead'[c] = chunkRead[c]
  BY <1>1, ChunkFrame DEF RequestPreviousSalt
<1>5. toMaster'[c] = toMaster[c]
  <2>1. ASSUME NEW flag, NEW data, Send(d, flag, data)
        PROVE  toMaster'[c] = toMaster[c]
    BY <1>1, <2>1 DEF Send
  <2> QED
    BY <2>1, ChunkFrame
<1>6. toWorker'[c] = toWorker[c]
  BY <1>1, ChunkFrame DEF Consume
<1>7. cipher'[c] = cipher[c]
  BY <1>1, ChunkFrame, WritesOwnFile
<1> QED
  BY <1>2, <1>3, <1>4, <1>5, <1>6, <1>7

LEMMA ConnectionsStep ==
  ASSUME Types, MainInv, Connections, Talks, [Next]_vars
  PROVE  Connections'
<1>1. /\ whPc \in [Chunks -> Labels] /\ chPc \in [Chunks -> ChunkLabels]
      /\ peer \in [Chunks -> Chunks \cup {NoOne}] /\ whConn \in [Chunks -> BOOLEAN]
      /\ backlog \in Seq(Chunks)
  BY DEF Types, TypeOK
<1>2. ASSUME NEW h \in Chunks
      PROVE  peer'[h] = NoOne <=> whPc'[h] \in {"none", "accept"}
  <2>1. CASE peer[h] # NoOne
    <3>1. PICK c \in Chunks : peer[h] = c
      BY <1>1, <2>1
    <3>2. peer'[h] # NoOne
      BY <2>1, PeerKept
    <3>3. whPc[h] \notin {"none", "accept"}
      BY <2>1 DEF Connections
    <3>4. whPc'[h] \notin {"none", "accept"}
      <4>1. ASSUME NEW label, Goto(h, label), label \notin {"none", "accept"}
            PROVE  whPc'[h] \notin {"none", "accept"}
        BY <1>1, <4>1 DEF Goto
      <4>2. HandlerStep(h) => whPc'[h] \notin {"none", "accept"}
        BY <3>3, <4>1 DEF HandlerStep, Accept, SendChunk, ReadPageProgress, WritePageProgress,
           NotifyPage, AnswerPreviousSalt, MissPreviousSalt, Request, SetSalt, NotRequested,
           AnswerNext, CountChunk, NotifyAll
      <4>3. ChunkStep(peer[h]) => whPc'[h] = whPc[h]
        BY <3>1, ChunkFrame
      <4>4. ASSUME NEW g \in Chunks, AnsweredBy(g, h)
            PROVE  whPc'[h] = whPc[h]
        BY <1>1, <4>4, Neighbours DEF AnsweredBy, AnswerNext, Goto
      <4> QED
        BY <3>1, <3>3, <4>2, <4>3, <4>4, PairSteps DEF Still
    <3> QED
      BY <3>2, <3>4
  <2>2. CASE peer[h] = NoOne /\ Accept(h)
    BY <2>2, PeerKept, Accepting DEF NoOne, Chunks
  <2>3. CASE peer[h] = NoOne /\ ~Accept(h)
    <3>1. peer'[h] = NoOne /\ whPc[h] \in {"none", "accept"}
      BY <2>3, PeerKept DEF Connections
    <3>2. whPc'[h] \in {"none", "accept"}
      <4>1. CASE MainStep
        BY <1>1, <3>1, <4>1, MainFrame DEF CreateHandler, Goto
      <4>2. ~HandlerStep(h)
        BY <2>3, <3>1 DEF HandlerStep, SendChunk, ReadPageProgress, WritePageProgress,
           NotifyPage, AnswerPreviousSalt, MissPreviousSalt, Request, SetSalt, NotRequested,
           AnswerNext, CountChunk, NotifyAll, Gets, At
      <4>3. ASSUME NEW g \in Chunks, HandlerStep(g), g # h
            PROVE  whPc'[h] = whPc[h]
        <5>1. ASSUME NEW label, Goto(g, label)
              PROVE  whPc'[h] = whPc[h]
          BY <1>1, <4>3, <5>1 DEF Goto
        <5> QED
          BY <4>3, <5>1, HandlerFrame DEF AnswerPreviousSalt
      <4> QED
        BY <3>1, <4>1, <4>2, <4>3, Steps, ChunkFrame DEF Nothing
    <3> QED
      BY <3>1, <3>2
  <2> QED
    BY <2>1, <2>2, <2>3
<1>3. ASSUME NEW g \in Chunks, NEW h \in Chunks, peer'[g] = peer'[h], peer'[g] # NoOne
      PROVE  g = h
  <2>1. CASE Accept(g) /\ g # h
    <3>1. ~Accepted(Head(backlog)) /\ Head(backlog) \in Chunks /\ peer'[g] = Head(backlog)
      BY <1>1, <2>1, Accepting
    <3>2. peer'[h] = peer[h]
      BY <1>1, <2>1, Accepting
    <3> QED
      BY <1>3, <3>1, <3>2 DEF Accepted
  <2>2. CASE Accept(h) /\ g # h
    <3>1. ~Accepted(Head(backlog)) /\ Head(backlog) \in Chunks /\ peer'[h] = Head(backlog)
      BY <1>1, <2>2, Accepting
    <3>2. peer'[g] = peer[g]
      BY <1>1, <2>2, Accepting
    <3> QED
      BY <1>3, <3>1, <3>2 DEF Accepted
  <2>3. CASE ~Accept(g) /\ ~Accept(h)
    BY <1>3, <2>3, PeerKept DEF Connections
  <2> QED
    BY <2>1, <2>2, <2>3
<1>4. ASSUME NEW c \in Chunks
      PROVE  /\ chPc'[c] \in {"none", "connect"} => ~Accepted(c)'
             /\ ~Accepted(c)' => /\ chPc'[c] \in {"none", "connect", "outputDir"}
                                 /\ toMaster'[c] = <<>> /\ toWorker'[c] = <<>>
  <2>1. CASE Accepted(c)
    <3>1. chPc[c] \notin {"none", "connect"}
      BY <2>1 DEF Connections
    <3>2. chPc'[c] \notin {"none", "connect"}
      BY <3>1, ChunkStarts
    <3> QED
      BY <2>1, <3>2, AcceptedKept
  <2>2. CASE ~Accepted(c)
    <3>1. /\ chPc[c] \in {"none", "connect", "outputDir"} /\ toMaster[c] = <<>> /\ toWorker[c] = <<>>
      BY <2>2 DEF Connections
    <3>2. CASE Nothing
      BY <2>2, <3>1, <3>2, AcceptedKept DEF Nothing, netVars, chVars, Accepted
    <3>3. CASE MainStep
      <4>1. ~Accepted(c)' /\ UNCHANGED <<toMaster, toWorker>>
        BY <2>2, <3>3, MainFrame DEF Accepted, netVars
      <4>2. chPc'[c] \in {chPc[c], "connect"}
        BY <1>1, <3>3, MainFrame DEF SendEncryptChunk
      <4> QED
        BY <3>1, <4>1, <4>2
    <3>4. ASSUME NEW g \in Chunks, HandlerStep(g)
          PROVE  /\ chPc'[c] \in {"none", "connect"} => ~Accepted(c)'
                 /\ ~Accepted(c)' => /\ chPc'[c] \in {"none", "connect", "outputDir"}
                                     /\ toMaster'[c] = <<>> /\ toWorker'[c] = <<>>
      <4>1. chPc' = chPc
        BY <3>4, HandlerFrame DEF chVars
      <4>2. Accepted(c)' => chPc[c] = "outputDir"
        BY <2>2, AcceptedKept, Accepting
      <4> QED
        BY <2>2, <3>1, <3>4, <4>1, <4>2, Unaccepted
    <3>5. ASSUME NEW d \in Chunks, ChunkStep(d)
          PROVE  /\ ~Accepted(c)' /\ chPc'[c] \in {chPc[c], "outputDir"}
                 /\ toMaster'[c] = toMaster[c] /\ toWorker'[c] = toWorker[c]
      <4>1. ~Accepted(c)'
        BY <2>2, <3>5, ChunkFrame DEF Accepted
      <4>2. CASE d = c
        <5>1. Connect(c)
          BY <3>1, <3>5, <4>2 DEF ChunkStep, Connect, RequestChunk, RequestPreviousSalt, CombineSalt,
             EncryptAndWrite, ChunkAt, HasReceived
        <5> QED
          BY <1>1, <4>1, <5>1 DEF Connect, ChunkGoto
      <4>3. CASE d # c
        BY <1>1, <3>5, <4>1, <4>3, ChunkElsewhere
      <4> QED
        BY <4>2, <4>3
    <3> QED
      BY <3>1, <3>2, <3>3, <3>4, <3>5, Steps
  <2> QED
    BY <2>1, <2>2
<1>5. /\ \A j, k \in 1 .. Len(backlog') : backlog'[j] = backlog'[k] => j = k
      /\ \A k \in 1 .. Len(backlog') :
           \E c \in Chunks : backlog'[k] = c /\ chPc'[c] = "outputDir" /\ ~Accepted(c)'
  <2>1. ASSUME NEW c \in Chunks, NEW k \in 1 .. Len(backlog), backlog[k] = c
        PROVE  chPc'[c] = "outputDir" /\ (~Accepted(c)' \/ \E h \in Chunks : Accept(h) /\ Head(backlog) = c)
    <3>1. chPc[c] = "outputDir" /\ ~Accepted(c)
      BY <2>1 DEF Connections
    <3>2. toWorker[c] = <<>>
      BY <3>1 DEF Connections
    <3>3. chPc'[c] = "outputDir"
      <4>1. CASE MainStep
        BY <1>1, <3>1, <4>1, ChunkStarts, MainFrame DEF SendEncryptChunk, MainInv
      <4>2. ASSUME NEW d \in Chunks, ChunkStep(d)
            PROVE  chPc'[c] = chPc[c]
        <5>1. d # c
          BY <3>1, <3>2, <4>2 DEF ChunkStep, Connect, RequestChunk, RequestPreviousSalt, CombineSalt,
             EncryptAndWrite, ChunkAt, HasReceived
        <5> QED
          BY <4>2, <5>1, ChunkElsewhere
      <4> QED
        BY <3>1, <4>1, <4>2, Steps, HandlerFrame DEF Nothing, chVars
    <3> QED
      BY <3>1, <3>3, AcceptedKept
  <2>2. CASE \E h \in Chunks : Accept(h)
    <3>1. PICK h \in Chunks : Accept(h)
      BY <2>2
    <3>2. backlog' = Tail(backlog)
      BY <3>1, Accepting
    <3>3. \A k \in 1 .. Len(backlog') : /\ k \in 1 .. Len(backlog) /\ k + 1 \in 1 .. Len(backlog)
                                        /\ backlog'[k] = backlog[k + 1] /\ backlog[k + 1] # Head(backlog)
      BY <3>1, <3>2, Accepting
    <3>4. \A k \in 1 .. Len(backlog) : backlog[k] \in Chunks
      BY <1>1
    <3>5. ASSUME NEW k \in 1 .. Len(backlog')
          PROVE  \E c \in Chunks : backlog'[k] = c /\ chPc'[c] = "outputDir" /\ ~Accepted(c)'
      <4>1. PICK c \in Chunks : backlog'[k] = c /\ backlog[k + 1] = c /\ c # Head(backlog)
        BY <3>3, <3>4
      <4>2. chPc'[c] = "outputDir" /\ ~Accepted(c)'
        BY <2>1, <3>3, <4>1
      <4> QED
        BY <4>1, <4>2
    <3>6. ASSUME NEW j \in 1 .. Len(backlog'), NEW k \in 1 .. Len(backlog'), backlog'[j] = backlog'[k]
          PROVE  j = k
      <4>1. j + 1 = k + 1
        BY <3>3, <3>6 DEF Connections
      <4>2. j \in Int /\ k \in Int
        OBVIOUS
      <4> QED
        BY <4>1, <4>2
    <3> QED
      BY <3>5, <3>6
  <2>3. CASE \E c \in Chunks : Connect(c) /\ ~\E h \in Chunks : Accept(h)
    <3>1. PICK c \in Chunks : Connect(c) /\ ~\E h \in Chunks : Accept(h)
      BY <2>3
    <3>2. backlog' = Append(backlog, c) /\ chPc[c] = "connect" /\ chPc'[c] = "outputDir" /\ UNCHANGED peer
      BY <1>1, <3>1 DEF Connect, ChunkAt, ChunkGoto
    <3>3. /\ Len(backlog') = Len(backlog) + 1 /\ backlog'[Len(backlog) + 1] = c /\ Len(backlog) \in Nat
          /\ \A k \in 1 .. Len(backlog) : backlog'[k] = backlog[k] /\ backlog[k] \in Chunks
      BY <1>1, <3>2, AppendProperties
    <3>4. \A k \in 1 .. Len(backlog') : k \in 1 .. Len(backlog) \/ k = Len(backlog) + 1
      BY <3>3
    <3>5. \A k \in 1 .. Len(backlog) : backlog[k] # c
      BY <3>2 DEF Connections
    <3>6. ~Accepted(c)'
      BY <3>2 DEF Connections, Accepted
    <3>7. ASSUME NEW k \in 1 .. Len(backlog')
          PROVE  \E d \in Chunks : backlog'[k] = d /\ chPc'[d] = "outputDir" /\ ~Accepted(d)'
      <4>1. PICK d \in Chunks : backlog'[k] = d
        BY <3>3, <3>4
      <4>2. chPc'[d] = "outputDir" /\ ~Accepted(d)'
        BY <2>1, <3>1, <3>2, <3>3, <3>4, <3>6, <4>1 DEF Accepted
      <4> QED
        BY <4>1, <4>2
    <3>8. ASSUME NEW j \in 1 .. Len(backlog'), NEW k \in 1 .. Len(backlog'), backlog'[j] = backlog'[k]
          PROVE  j = k
      BY <3>3, <3>4, <3>5, <3>8 DEF Connections
    <3> QED
      BY <3>7, <3>8
  <2>4. CASE ~(\E h \in Chunks : Accept(h)) /\ ~(\E c \in Chunks : Connect(c))
    <3>1. backlog' = backlog
      BY <2>4, Steps, MainFrame, HandlerFrame, ChunkFrame DEF Nothing, netVars
    <3>2. ASSUME NEW k \in 1 .. Len(backlog')
          PROVE  \E c \in Chunks : backlog'[k] = c /\ chPc'[c] = "outputDir" /\ ~Accepted(c)'
      <4>1. PICK c \in Chunks : backlog'[k] = c /\ backlog[k] = c
        BY <1>1, <3>1, <3>2
      <4>2. chPc'[c] = "outputDir" /\ ~Accepted(c)'
        BY <2>1, <2>4, <3>1, <4>1
      <4> QED
        BY <4>1, <4>2
    <3> QED
      BY <3>1, <3>2 DEF Connections
  <2> QED
    BY <2>2, <2>3, <2>4
<1>6. KeepsOwnConnection'
  <2> SUFFICES ASSUME NEW h \in Chunks, peer'[h] = h
               PROVE  whConn'[h]
    BY DEF KeepsOwnConnection, Chunks
  <2>1. CASE Accept(h)
    BY <2>1, Accepting
  <2>2. CASE ~Accept(h)
    <3>1. peer[h] = h /\ whConn[h] /\ chPc[h] # "none"
      BY <2>2, PeerKept DEF Connections, KeepsOwnConnection, Accepted
    <3>2. CASE MainStep
      <4>1. ConstructHandler => h # i
        BY <3>1, MainTypes DEF MainInv, ConstructHandler, Main
      <4> QED
        BY <1>1, <3>1, <3>2, <4>1, MainFrame DEF ConstructHandler
    <3>3. ASSUME NEW g \in Chunks, HandlerStep(g)
          PROVE  whConn'[h] = whConn[h]
      BY <1>1, <2>2, <3>3, HandlerFrame DEF Accept
    <3> QED
      BY <3>1, <3>2, <3>3, Steps, ChunkFrame DEF Nothing
  <2> QED
    BY <2>1, <2>2
<1> QED
  <2>1. \A k \in 1 .. Len(backlog') :
          chPc'[backlog'[k]] = "outputDir" /\ ~\E h \in Chunks : peer'[h] = backlog'[k]
    BY <1>5 DEF Accepted, Chunks
  <2>2. Chunks' = Chunks /\ NoOne' = NoOne
    BY DEF Chunks, NoOne
  <2>3. \A c \in Chunks : Accepted(c)' <=> \E h \in Chunks : peer'[h] = c
    BY <2>2 DEF Accepted
  <2> QED
    BY <1>2, <1>3, <1>4, <1>5, <1>6, <2>1, <2>2, <2>3 DEF Connections, Accepted

-----------------------------------------------------------------------------
\* The salts, and the count of what is done.

\* What a chunk handler combines its salt from.
LEMMA Combines ==
  ASSUME Types, Connections, Talks, NEW c \in Chunks, CombineSalt(c)
  PROVE  \E h \in Chunks :
           /\ peer[h] = c /\ GivenSalt(h, c) /\ Received(c).data = PreviousSalt(h)
           /\ PreviousSalt(h) \in Seq(Int) /\ PreviousSalt(h) # NoSalt /\ chunkRead[c] \in Int
           /\ chSalt'[c] = Combine(chunkRead[c], PreviousSalt(h))
           /\ chSalt'[c] \in Seq(Int) /\ chSalt'[c] # NoSalt
<1>1. /\ chSalt \in [Chunks -> Seq(Int)] /\ value \in [Chunks -> Seq(Int)]
      /\ chunkRead \in [Chunks -> Int]
  BY DEF Types, TypeOK
<1>2. toWorker[c] # <<>> /\ chPc[c] = "prevSalt"
  BY DEF CombineSalt, HasReceived, ChunkAt
<1>3. PICK h \in Chunks : peer[h] = c
  BY <1>2 DEF Connections, Accepted
<1>4. GivenSalt(h, c) /\ Received(c).data = PreviousSalt(h)
  <2>1. Talk(h, c)
    BY <1>3 DEF Talks, NoOne, Chunks
  <2> QED
    BY <1>2, <2>1, ReadByChunk DEF Received, Greeted, GivenChunk
<1>5. PreviousSalt(h) \in Seq(Int) /\ PreviousSalt(h) # NoSalt
  <2>1. h > 0 => h - 1 \in Chunks
    BY ClusterAssumption DEF Chunks
  <2>2. IV \in Seq(Int)
    BY DEF IV
  <2>3. h # 0 => h > 0
    BY DEF Chunks
  <2> QED
    BY <1>1, <1>4, <2>1, <2>2, <2>3 DEF PreviousSalt, GivenSalt
<1>6. chSalt'[c] = Combine(chunkRead[c], PreviousSalt(h))
  BY <1>1, <1>4 DEF CombineSalt
<1>7. Append(PreviousSalt(h), chunkRead[c]) \in Seq(Int) /\ Append(PreviousSalt(h), chunkRead[c]) # <<>>
  <2>1. chunkRead[c] \in Int
    BY <1>1
  <2> QED
    BY <1>5, <2>1, AppendProperties
<1> QED
  BY <1>1, <1>3, <1>4, <1>5, <1>6, <1>7 DEF Combine, NoSalt

LEMMA SaltStep ==
  ASSUME Types, MainInv, Connections, Talks, SaltInv, [Next]_vars
  PROVE  SaltInv'
<1>1. /\ chSalt \in [Chunks -> Seq(Int)] /\ chPc \in [Chunks -> ChunkLabels]
      /\ chunkRead \in [Chunks -> Int] /\ DOMAIN cipher = Chunks
      /\ peer \in [Chunks -> Chunks \cup {NoOne}]
  BY DEF Types, TypeOK
<1>2. ASSUME NEW c \in Chunks
      PROVE  /\ chSalt'[c] # NoSalt <=> chPc'[c] \in {"encrypt", "finished"}
             /\ cipher'[c] = IF chPc'[c] = "finished"
                             THEN [chunk |-> chunkRead'[c], salt |-> chSalt'[c]]
                             ELSE NoOutput
  <2> DEFINE Goal == /\ chSalt'[c] # NoSalt <=> chPc'[c] \in {"encrypt", "finished"}
                     /\ cipher'[c] = IF chPc'[c] = "finished"
                                     THEN [chunk |-> chunkRead'[c], salt |-> chSalt'[c]]
                                     ELSE NoOutput
  <2>1. /\ chSalt[c] # NoSalt <=> chPc[c] \in {"encrypt", "finished"}
        /\ cipher[c] = IF chPc[c] = "finished"
                       THEN [chunk |-> chunkRead[c], salt |-> chSalt[c]]
                       ELSE NoOutput
    BY DEF SaltInv
  <2>2. UNCHANGED chVars => Goal
    BY <2>1 DEF chVars
  <2>3. CASE MainStep
    <3>1. CASE SendEncryptChunk
      <4>1. chPc[i] = "none" /\ chPc' = [chPc EXCEPT ![i] = "connect"]
        BY <3>1, MainTypes DEF MainInv, SendEncryptChunk, Main, Creating, Chunks
      <4>2. UNCHANGED <<chunkRead, chSalt, cipher>>
        BY <2>3, MainFrame
      <4> QED
        BY <1>1, <2>1, <4>1, <4>2
    <3>2. CASE ~SendEncryptChunk
      BY <2>2, <2>3, <3>2, MainFrame DEF chVars
    <3> QED
      BY <3>1, <3>2
  <2>4. ASSUME NEW d \in Chunks, ChunkStep(d), d # c
        PROVE  Goal
    BY <2>1, <2>4, ChunkElsewhere
  <2>5. CASE Connect(c) \/ RequestChunk(c)
    BY <1>1, <2>1, <2>5 DEF Connect, RequestChunk, ChunkGoto, ChunkAt
  <2>6. CASE RequestPreviousSalt(c)
    BY <1>1, <2>1, <2>6 DEF RequestPreviousSalt, ChunkGoto, ChunkAt
  <2>7. CASE CombineSalt(c)
    <3>1. chSalt'[c] # NoSalt
      BY <2>7, Combines
    <3>2. chPc'[c] = "encrypt" /\ UNCHANGED cipher /\ chPc[c] = "prevSalt"
      BY <1>1, <2>7 DEF CombineSalt, ChunkGoto, ChunkAt
    <3> QED
      BY <2>1, <3>1, <3>2
  <2>8. CASE EncryptAndWrite(c)
    <3>1. chPc[c] = "encrypt" /\ chPc'[c] = "finished" /\ UNCHANGED <<chSalt, chunkRead>>
      BY <1>1, <2>8 DEF EncryptAndWrite, ChunkGoto, ChunkAt
    <3>2. cipher'[c] = [chunk |-> chunkRead[c], salt |-> chSalt[c]]
      BY <1>1, <2>8, WritesOwnFile
    <3> QED
      BY <2>1, <3>1, <3>2
  <2>9. ASSUME NEW g \in Chunks, HandlerStep(g)
        PROVE  Goal
    BY <2>2, <2>9, HandlerFrame
  <2>10. Nothing => Goal
    BY <2>2 DEF Nothing
  <2> QED
    BY <2>3, <2>4, <2>5, <2>6, <2>7, <2>8, <2>9, <2>10, Steps DEF ChunkStep
<1>3. ASSUME NEW h \in Chunks, peer'[h] # NoOne, chSalt'[peer'[h]] # NoSalt, h > 0
      PROVE  value'[h - 1] # NoSalt
  <2>1. h - 1 \in Chunks
    BY <1>3, ClusterAssumption DEF Chunks
  <2>2. value[h - 1] # NoSalt => value'[h - 1] # NoSalt
    BY <2>1, ValueKept
  <2>3. CASE Accept(h)
    <3>1. PICK c \in Chunks : peer'[h] = c /\ chPc[c] = "outputDir"
      <4>1. peer'[h] = Head(backlog)
        BY <2>3, PeerKept
      <4> QED
        BY <2>3, <4>1, Accepting
    <3>2. HandlerStep(h) /\ UNCHANGED chVars
      BY <2>3 DEF HandlerStep, Accept
    <3>3. chSalt'[c] = NoSalt
      BY <3>1, <3>2 DEF SaltInv, chVars
    <3> QED
      BY <1>3, <3>1, <3>3
  <2>4. CASE ~Accept(h)
    <3>1. PICK c \in Chunks : peer[h] = c /\ peer'[h] = c
      BY <1>1, <1>3, <2>4, PeerKept
    <3>2. CASE chSalt[c] # NoSalt
      BY <1>3, <2>2, <3>1, <3>2 DEF SaltInv, NoOne, Chunks
    <3>3. CASE chSalt[c] = NoSalt
      <4>1. CombineSalt(c)
        <5>1. chSalt'[c] # chSalt[c]
          BY <1>3, <3>1, <3>3
        <5> QED
          BY <5>1, Steps, MainFrame, HandlerFrame, ChunkFrame, ChunkElsewhere DEF Nothing, chVars
      <4>2. PICK g \in Chunks : peer[g] = c /\ GivenSalt(g, c) /\ PreviousSalt(g) # NoSalt
        BY <4>1, Combines
      <4>3. g = h
        BY <3>1, <4>2 DEF Connections, NoOne, Chunks
      <4>4. value[h - 1] # NoSalt
        BY <1>3, <4>2, <4>3 DEF PreviousSalt
      <4> QED
        BY <2>2, <4>4
    <3> QED
      BY <3>2, <3>3
  <2> QED
    BY <2>3, <2>4
<1> QED
  BY <1>2, <1>3 DEF SaltInv, Chunks, NoOne, NoOutput, NoSalt

LEMMA CountedFinite ==
  ASSUME NEW S \in SUBSET Chunks
  PROVE  IsFiniteSet(S) /\ Cardinality(S) \in 0 .. chunkCount
<1>1. IsFiniteSet(Chunks) /\ Cardinality(Chunks) = chunkCount
  BY ClusterAssumption, FS_Interval DEF Chunks
<1>2. IsFiniteSet(S) /\ Cardinality(S) <= chunkCount
  BY <1>1, FS_Subset
<1>3. Cardinality(S) \in Nat
  BY <1>2, FS_CardinalityType
<1> QED
  BY <1>2, <1>3, ClusterAssumption

LEMMA CountedStep ==
  ASSUME Types, MainInv, Connections, Talks, RequestInv, SaltInv, [Next]_vars, NEW h \in Chunks
  PROVE  /\ h \in CountedSet' <=> h \in CountedSet \/ CountChunk(h)
         /\ CountChunk(h) => h \notin CountedSet
<1>1. /\ peer \in [Chunks -> Chunks \cup {NoOne}] /\ whPc \in [Chunks -> Labels]
      /\ chPc \in [Chunks -> ChunkLabels]
      /\ toMaster \in [Chunks -> {toMaster[e] : e \in Chunks}]
  BY DEF Types, TypeOK
<1>2. CASE peer[h] = NoOne
  <2>1. h \notin CountedSet
    BY <1>2 DEF CountedSet
  <2>2. ~CountChunk(h)
    BY <1>2 DEF CountChunk, Gets, At, Connections
  <2>3. CASE Accept(h)
    <3>1. PICK c \in Chunks : peer'[h] = c /\ chPc[c] = "outputDir"
      <4>1. peer'[h] = Head(backlog)
        BY <2>3, PeerKept
      <4> QED
        BY <2>3, <4>1, Accepting
    <3>2. chPc'[c] = "outputDir"
      BY <2>3, <3>1 DEF Accept, chVars
    <3> QED
      BY <2>1, <2>2, <3>1, <3>2 DEF CountedSet, Counted
  <2>4. CASE ~Accept(h)
    BY <1>2, <2>1, <2>2, <2>4, PeerKept DEF CountedSet
  <2> QED
    BY <2>3, <2>4
<1>3. ASSUME NEW c \in Chunks, peer[h] = c
      PROVE  /\ h \in CountedSet' <=> h \in CountedSet \/ CountChunk(h)
             /\ CountChunk(h) => h \notin CountedSet
  <2>1. peer'[h] = c /\ c # NoOne
    BY <1>3, PairSteps DEF NoOne, Chunks
  <2>2. /\ h \in CountedSet <=> Counted(h, c)
        /\ h \in CountedSet' <=> Counted(h, c)'
    BY <1>3, <2>1 DEF CountedSet, Counted, NoOne, Chunks
  <2>3. Talk(h, c)
    BY <1>3, <2>1 DEF Talks
  <2>4. CountChunk(h) => HandlerStep(h)
    BY DEF HandlerStep
  <2>5. ASSUME HandlerStep(h)
        PROVE  /\ Counted(h, c)' <=> Counted(h, c) \/ CountChunk(h)
               /\ CountChunk(h) => ~Counted(h, c)
    <3>1. UNCHANGED <<chPc, peer>>
      <4>1. ~Accept(h)
        BY <1>3, <2>1 DEF Connections, Accept, At
      <4> QED
        BY <2>5, <4>1, HandlerFrame DEF chVars
    <3>2. ASSUME NEW label, Goto(h, label)
          PROVE  whPc'[h] = label
      BY <1>1, <3>2 DEF Goto
    <3>3. CASE CountChunk(h)
      <4>1. toMaster[c] # <<>> /\ whPc[h] = "recv" /\ Head(toMaster[c]).flag = "SIGNAL_DONE"
        BY <1>3, <3>3 DEF CountChunk, Gets, At
      <4>2. Encrypts(h, c) /\ chPc[c] = "finished" /\ Tail(toMaster[c]) = <<>>
        BY <2>3, <4>1, ReadByHandler
      <4>3. toMaster'[c] = <<>> /\ whPc'[h] = "testAll" /\ UNCHANGED toWorker
        BY <1>1, <1>3, <3>2, <3>3, <4>2 DEF CountChunk, Gets
      <4> QED
        BY <3>1, <3>3, <4>1, <4>2, <4>3 DEF Counted, Encrypts
    <3>4. CASE SetSalt(h)
      BY <3>2, <3>4, <1>3 DEF SetSalt, Counted, Gets, CountChunk, Goto
    <3>5. CASE NotRequested(h) \/ AnswerNext(h)
      <4>1. whPc[h] = "isRequested" /\ UNCHANGED toMaster
        BY <3>5 DEF NotRequested, AnswerNext, At, netVars
      <4>2. Encrypts(h, c)
        BY <2>3, <4>1 DEF Talk, Before, After, Greeted, AsksChunk, AsksSalt, GivenChunk,
           Missed, AwaitsSalt, GivenSalt, SendsSalt, Counted, Counting
      <4>3. chPc[c] # "finished" \/ toMaster[c] # <<>>
        BY <4>2, OneMessage DEF Encrypts
      <4> QED
        BY <3>1, <4>1, <4>3 DEF Counted, CountChunk, Gets, At
    <3>6. CASE NotifyAll(h)
      <4>1. whPc[h] = "testAll" /\ whPc'[h] = "recv" /\ UNCHANGED <<toMaster, toWorker>>
        BY <3>2, <3>6 DEF NotifyAll, At, netVars
      <4> QED
        BY <3>1, <4>1 DEF Counted, CountChunk, Gets, At
    <3>7. CASE \/ SendChunk(h) \/ ReadPageProgress(h) \/ WritePageProgress(h) \/ NotifyPage(h)
               \/ AnswerPreviousSalt(h) \/ MissPreviousSalt(h) \/ Request(h)
      <4>1. ~CountChunk(h)
        BY <3>7 DEF SendChunk, ReadPageProgress, WritePageProgress, NotifyPage,
               AnswerPreviousSalt, MissPreviousSalt, Request, CountChunk, Gets, At
      <4>2. Before(h, c)
        <5>1. CASE SendChunk(h) \/ AnswerPreviousSalt(h) \/ MissPreviousSalt(h)
          BY <1>3, <2>3, <5>1, ReadByHandler DEF SendChunk, AnswerPreviousSalt, MissPreviousSalt, Gets, At
        <5>2. CASE whPc[h] \in {"readProgress", "writeProgress", "testPage", "request"}
          BY <2>3, <5>2 DEF Talk, After, Encrypts, Counted
        <5> QED
          BY <3>7, <5>1, <5>2 DEF ReadPageProgress, WritePageProgress, NotifyPage, Request, At
      <4>3. ~SendsSalt(h, c)
        <5>1. CASE SendChunk(h) \/ AnswerPreviousSalt(h) \/ MissPreviousSalt(h)
          BY <1>3, <2>3, <5>1, ReadByHandler DEF SendChunk, AnswerPreviousSalt, MissPreviousSalt, Gets, At,
             AsksChunk, AsksSalt, SendsSalt
        <5> QED
          BY <3>7, <5>1 DEF ReadPageProgress, WritePageProgress, NotifyPage, Request, At, SendsSalt
      <4> QED
        BY <3>1, <4>1, <4>2, <4>3 DEF Before, Counted, Greeted, AsksChunk, AsksSalt, GivenChunk,
           Missed, AwaitsSalt, GivenSalt
    <3>8. ~Accept(h)
      BY <1>3, <2>1 DEF Connections, Accept, At
    <3> QED
      BY <2>5, <3>3, <3>4, <3>5, <3>6, <3>7, <3>8 DEF HandlerStep
  <2>6. ASSUME ChunkStep(c), ~HandlerStep(h)
        PROVE  Counted(h, c)' <=> Counted(h, c)
    <3>1. ~Counted(h, c)
      BY <2>6 DEF Counted, ChunkStep, Connect, RequestChunk, RequestPreviousSalt, CombineSalt,
         EncryptAndWrite, ChunkAt
    <3>2. chPc'[c] # "finished" \/ EncryptAndWrite(c)
      BY <1>1, <2>6 DEF ChunkStep, Connect, RequestChunk, RequestPreviousSalt, CombineSalt, ChunkGoto
    <3>3. CASE EncryptAndWrite(c)
      <4>1. Talk(h, c)'
        BY <1>3, <2>6, ChunkTalk
      <4>2. toMaster'[c] = Append(toMaster[c], Message("SIGNAL_DONE", <<>>)) /\ chPc[c] = "encrypt"
        BY <1>1, <3>3 DEF EncryptAndWrite, Send, Message, ChunkAt
      <4>3. toMaster'[c] # <<>>
        <5>1. toMaster[c] = <<>> \/ \E m : toMaster[c] = <<m>>
          BY <2>3, <4>2 DEF Talk, Before, After, Greeted, AsksChunk, AsksSalt, GivenChunk,
             Missed, AwaitsSalt, GivenSalt, SendsSalt, Encrypts, Counted
        <5> QED
          BY <4>2, <5>1, OneMessage
      <4> QED
        BY <3>1, <4>3 DEF Counted
    <3> QED
      BY <3>1, <3>2, <3>3 DEF Counted
  <2>7. ASSUME NEW g \in Chunks, HandlerStep(g), AnsweredBy(g, h)
        PROVE  Counted(h, c)' <=> Counted(h, c)
    <3>1. AwaitsSalt(h, c) /\ chPc'[c] = chPc[c]
      BY <1>3, <2>7, AnsweredTalk
    <3> QED
      BY <3>1 DEF AwaitsSalt, Counted
  <2>8. Still(h, c) => (Counted(h, c)' <=> Counted(h, c))
    BY DEF Still, Counted
  <2> QED
    BY <1>3, <2>2, <2>4, <2>5, <2>6, <2>7, <2>8, PairSteps
<1> QED
  BY <1>1, <1>2, <1>3

LEMMA CountStep ==
  ASSUME Types, MainInv, Connections, Talks, RequestInv, SaltInv, CountInv, [Next]_vars
  PROVE  CountInv'
<1>1. CountedSet \subseteq Chunks /\ CountedSet' \subseteq Chunks
  BY DEF CountedSet, Chunks
<1>2. progress \in Int /\ IsFiniteSet(CountedSet)
  BY <1>1, CountedFinite DEF CountInv
<1>3. CASE \E h \in Chunks : CountChunk(h)
  <2>1. PICK h \in Chunks : CountChunk(h)
    BY <1>3
  <2>2. progress' = progress + 1 /\ \A g \in Chunks : g # h => ~CountChunk(g)
    <3>1. progress' = progress + 1 /\ whPc' = [whPc EXCEPT ![h] = "testAll"] /\ whPc[h] = "recv"
      BY <2>1 DEF CountChunk, Goto, Gets, At
    <3>2. whPc \in [Chunks -> Labels]
      BY DEF Types, TypeOK
    <3>3. ASSUME NEW g \in Chunks, g # h, CountChunk(g)
          PROVE  FALSE
      BY <3>1, <3>2, <3>3 DEF CountChunk, Goto, Gets, At
    <3> QED
      BY <3>1, <3>3
  <2>3. CountedSet' = CountedSet \cup {h} /\ h \notin CountedSet
    BY <1>1, <2>1, <2>2, CountedStep
  <2> QED
    BY <1>2, <2>2, <2>3, FS_AddElement DEF CountInv
<1>4. CASE ~\E h \in Chunks : CountChunk(h)
  <2>1. CountedSet' = CountedSet
    BY <1>1, <1>4, CountedStep
  <2>2. progress' = progress
    BY <1>4, Steps, MainFrame, HandlerFrame, ChunkFrame DEF Nothing, countVars
  <2> QED
    BY <2>1, <2>2 DEF CountInv
<1> QED
  BY <1>3, <1>4

-----------------------------------------------------------------------------
\* Types.

LEMMA Remainders ==
  ASSUME NEW n \in Nat, NEW d \in Nat \ {0}
  PROVE  n % d \in 0 .. d - 1 /\ n \div d \in 0 .. n /\ n = d * (n \div d) + (n % d)
<1>1. n % d \in 0 .. d - 1 /\ n \div d \in Nat /\ n = d * (n \div d) + (n % d)
  BY SMT
<1>2. ASSUME NEW q \in Nat
      PROVE  q <= d * q
  BY SMT
<1>3. n \div d <= d * (n \div d)
  BY <1>1, <1>2
<1>4. d * (n \div d) \in Nat /\ n % d \in Nat
  BY <1>1
<1> QED
  BY <1>1, <1>3, <1>4

LEMMA StaysFunction ==
  ASSUME NEW f, f \in [Chunks -> {f[d] : d \in Chunks}], NEW k, NEW v
  PROVE  [f EXCEPT ![k] = v] \in [Chunks -> {[f EXCEPT ![k] = v][d] : d \in Chunks}]
  OBVIOUS

LEMMA TypesStep ==
  ASSUME Types, MainInv, Connections, Talks, RequestInv, SaltInv, CountInv, [Next]_vars
  PROVE  Types'
<1>1. /\ whPc \in [Chunks -> Labels] /\ chPc \in [Chunks -> ChunkLabels]
      /\ chSalt \in [Chunks -> Seq(Int)] /\ chunkRead \in [Chunks -> Int]
      /\ value \in [Chunks -> Seq(Int)] /\ isRequested \in [Chunks -> BOOLEAN]
      /\ whConn \in [Chunks -> BOOLEAN] /\ peer \in [Chunks -> Chunks \cup {NoOne}]
      /\ seenProgress \in [Chunks -> Nat] /\ backlog \in Seq(Chunks)
      /\ toMaster \in [Chunks -> {toMaster[d] : d \in Chunks}]
      /\ toWorker \in [Chunks -> {toWorker[d] : d \in Chunks}]
      /\ cipher \in [Chunks -> [chunk : Int, salt : Seq(Int)]]
      /\ next \in [Workers -> Workers \cup {NoOne}]
  BY DEF Types, TypeOK
<1>2. i \in Chunks \/ mPc \notin Creating
  BY MainTypes DEF MainInv, Chunks
<1>3. /\ mPc' \in {"connect", "loop", "page", "create", "construct", "insert", "send", "final",
                   "all", "done"}
      /\ mWait' \in {"no", "test", "block", "wait"}
  <2>1. /\ mPc \in {"connect", "loop", "page", "create", "construct", "insert", "send", "final",
                   "all", "done"}
        /\ mWait \in {"no", "test", "block", "wait"}
    BY DEF Types, TypeOK
  <2>2. CASE MainStep
    BY <2>1, <2>2 DEF MainStep, ConnectWorker, StartIteration, EndLoop, TestFails, Block, MapPage,
       UnmapFinalPage, PersistSalts, CreateHandler, ConstructHandler, InsertHandler, SendEncryptChunk
  <2>3. ASSUME NEW h \in Chunks, HandlerStep(h)
        PROVE  mPc' = mPc /\ mWait' \in {mWait, "test"}
    BY <2>3, HandlerFrame DEF NotifyPage, NotifyAll, Notify
  <2> QED
    BY <2>1, <2>2, <2>3, Steps, ChunkFrame DEF Nothing, mainVars
<1>4. i' \in 0 .. chunkCount
  <2>1. SendEncryptChunk => i' = i + 1 /\ i < chunkCount
    BY DEF SendEncryptChunk, Main, MainInv, Creating
  <2>2. SendEncryptChunk \/ i' = i
    BY Steps, MainFrame, HandlerFrame, ChunkFrame DEF Nothing, mainVars
  <2> QED
    BY <2>1, <2>2, MainTypes
<1>5. min_workers' \in 1 .. MAX_WORKERS /\ min_workers' = min_workers
  BY Steps DEF Types, TypeOK
<1>6. workers' \in 0 .. min_workers' /\ next' \in [Workers -> Workers \cup {NoOne}]
  <2>1. CASE ConnectWorker
    <3>1. workers' = workers + 1 /\ workers < min_workers
      BY <2>1 DEF ConnectWorker
    <3>2. workers' \in 0 .. min_workers'
      BY <1>5, <3>1, MainTypes
    <3>3. 0 \in Workers /\ workers \in Workers
      BY <3>1, MainTypes DEF Workers
    <3>4. next' = [w \in Workers |-> CASE w = workers -> 0 [] w = workers - 1 -> workers [] OTHER -> next[w]]
      BY <2>1, <1>5 DEF ConnectWorker, Workers
    <3>5. ASSUME NEW w \in Workers
          PROVE  (CASE w = workers -> 0 [] w = workers - 1 -> workers [] OTHER -> next[w]) \in Workers \cup {NoOne}
      BY <1>1, <3>3
    <3> QED
      BY <3>2, <3>4, <3>5
  <2>2. ConnectWorker \/ UNCHANGED <<workers, next>>
    BY Steps, MainFrame, HandlerFrame, ChunkFrame DEF Nothing, mainVars
  <2>3. workers \in 0 .. min_workers
    BY DEF Types, TypeOK
  <2> QED
    BY <1>1, <1>5, <2>1, <2>2, <2>3
<1>7. base' \in 0 .. chunkCount \/ base' = Unmapped
  <2>1. base \in 0 .. chunkCount \/ base = Unmapped
    BY DEF Types, TypeOK
  <2>2. UnmapFinalPage => base' = Unmapped
    BY DEF UnmapFinalPage
  <2>3. MapPage => base' \in 0 .. chunkCount
    <3> SUFFICES ASSUME MapPage
                 PROVE  base' \in 0 .. chunkCount
      OBVIOUS
    <3>1. base' = i \div pageSize
      BY DEF MapPage
    <3>2. i \in Nat /\ chunkCount \in Nat /\ i <= chunkCount /\ pageSize \in Nat \ {0}
      BY MainTypes, ClusterAssumption
    <3>3. i \div pageSize \in 0 .. i
      BY <3>2, Remainders
    <3> DEFINE q == i \div pageSize
    <3>4. q \in 0 .. i
      BY <3>3
    <3> HIDE DEF q
    <3>5. q \in 0 .. chunkCount
      BY <3>2, <3>4
    <3> QED
      BY <3>1, <3>5 DEF q
  <2>4. MapPage \/ UnmapFinalPage \/ base' = base
    BY Steps, MainFrame, HandlerFrame, ChunkFrame DEF Nothing
  <2> QED
    BY <2>1, <2>2, <2>3, <2>4 DEF Unmapped
<1>8. pageProgress' \in Nat /\ seenProgress' \in [Chunks -> Nat]
  <2>1. pageProgress \in Nat
    BY DEF Types, TypeOK
  <2>2. CASE MainStep
    BY <1>1, <2>1, <2>2, MainFrame DEF StartIteration
  <2>3. ASSUME NEW h \in Chunks, HandlerStep(h)
        PROVE  pageProgress' \in Nat /\ seenProgress' \in [Chunks -> Nat]
    <3>1. pageProgress' \in Nat
      <4>1. seenProgress[h] \in Nat
        BY <1>1
      <4>2. WritePageProgress(h) => pageProgress' = seenProgress[h] + 1
        BY DEF WritePageProgress
      <4> QED
        BY <2>1, <2>3, <4>1, <4>2, HandlerFrame
    <3>2. seenProgress' \in [Chunks -> Nat]
      BY <1>1, <2>1, <2>3, HandlerFrame DEF ReadPageProgress
    <3> QED
      BY <3>1, <3>2
  <2> QED
    BY <1>1, <2>1, <2>2, <2>3, Steps, ChunkFrame DEF Nothing, countVars
<1>9. progress' \in 0 .. chunkCount
  <2>1. CountInv' /\ CountedSet' \in SUBSET Chunks
    BY CountStep DEF CountedSet, Chunks
  <2> QED
    BY <2>1, CountedFinite DEF CountInv
<1>10. workerHandlers' \subseteq Chunks
  BY MainInvStep DEF MainInv, Chunks
<1>11. value' \in [Chunks -> Seq(Int)]
  <2>1. ASSUME NEW h \in Chunks, SetSalt(h)
        PROVE  value' \in [Chunks -> Seq(Int)]
    <3>1. PICK c \in Chunks : c = peer[h]
      BY <2>1, ValueKept
    <3>2. SendsSalt(h, c)
      BY <2>1, <3>1, ValueKept
    <3>3. \E n : \/ toMaster[c] = <<Message("SET_SALT", chSalt[c])>>
                \/ toMaster[c] = <<Message("SET_SALT", chSalt[c]), n>>
      BY <3>2 DEF SendsSalt
    <3>4. Head(toMaster[c]).data = chSalt[c]
      BY <3>3, OneMessage DEF Message
    <3> QED
      BY <1>1, <2>1, <3>1, <3>4 DEF SetSalt
  <2> QED
    BY <1>1, <2>1, Steps, MainFrame, HandlerFrame, ChunkFrame DEF Nothing, indexVars
<1>12. isRequested' \in [Chunks -> BOOLEAN]
  <2>1. ASSUME NEW h \in Chunks, Request(h)
        PROVE  isRequested' \in [Chunks -> BOOLEAN]
    BY <1>1, <2>1 DEF Request
  <2> QED
    BY <1>1, <2>1, Steps, MainFrame, HandlerFrame, ChunkFrame DEF Nothing, indexVars
<1>13. whPc' \in [Chunks -> Labels]
  <2>1. CreateHandler => whPc' \in [Chunks -> Labels]
    BY <1>1 DEF CreateHandler, Goto, Labels
  <2>2. ASSUME NEW h \in Chunks, \/ Accept(h) \/ SendChunk(h) \/ ReadPageProgress(h)
                                \/ WritePageProgress(h) \/ NotifyPage(h) \/ AnswerPreviousSalt(h)
        PROVE  whPc' \in [Chunks -> Labels]
    BY <1>1, <2>2 DEF Accept, SendChunk, ReadPageProgress, WritePageProgress, NotifyPage,
       AnswerPreviousSalt, Goto, Labels
  <2>3. ASSUME NEW h \in Chunks, \/ MissPreviousSalt(h) \/ Request(h) \/ SetSalt(h)
                                \/ NotRequested(h) \/ AnswerNext(h) \/ CountChunk(h) \/ NotifyAll(h)
        PROVE  whPc' \in [Chunks -> Labels]
    BY <1>1, <2>3 DEF MissPreviousSalt, Request, SetSalt, NotRequested, AnswerNext, CountChunk,
       NotifyAll, Goto, Labels
  <2> QED
    BY <1>1, <2>1, <2>2, <2>3, Steps, MainFrame, ChunkFrame DEF Nothing, HandlerStep
<1>14. whConn' \in [Chunks -> BOOLEAN] /\ peer' \in [Chunks -> Chunks \cup {NoOne}]
  <2>1. ConstructHandler => whConn' \in [Chunks -> BOOLEAN]
    BY <1>1 DEF ConstructHandler
  <2>2. ASSUME NEW h \in Chunks, Accept(h)
        PROVE  whConn' \in [Chunks -> BOOLEAN] /\ peer' \in [Chunks -> Chunks \cup {NoOne}]
    BY <1>1, <2>2, Accepting DEF Accept
  <2> QED
    BY <1>1, <2>1, <2>2, Steps, MainFrame, HandlerFrame, ChunkFrame DEF Nothing
<1>15. chPc' \in [Chunks -> ChunkLabels]
  <2>1. SendEncryptChunk => chPc' \in [Chunks -> ChunkLabels]
    BY <1>1 DEF SendEncryptChunk, ChunkLabels
  <2>2. ASSUME NEW c \in Chunks, ChunkStep(c)
        PROVE  chPc' \in [Chunks -> ChunkLabels]
    BY <1>1, <2>2 DEF ChunkStep, Connect, RequestChunk, RequestPreviousSalt, CombineSalt,
       EncryptAndWrite, ChunkGoto, ChunkLabels
  <2> QED
    BY <1>1, <2>1, <2>2, Steps, MainFrame, HandlerFrame DEF Nothing, chVars
<1>16. chunkRead' \in [Chunks -> Int]
  <2>1. ASSUME NEW c \in Chunks, RequestPreviousSalt(c)
        PROVE  chunkRead' \in [Chunks -> Int]
    <3>1. chPc[c] = "chunk" /\ toWorker[c] # <<>>
      BY <2>1 DEF RequestPreviousSalt, ChunkAt, HasReceived
    <3>2. PICK h \in Chunks : peer[h] = c
      BY <3>1 DEF Connections, Accepted
    <3>3. Talk(h, c)
      BY <3>2 DEF Talks, NoOne, Chunks
    <3>4. Head(toWorker[c]).data \in Int
      BY <3>1, <3>3, ReadByChunk DEF Greeted, GivenSalt, GivenChunk
    <3> QED
      BY <1>1, <2>1, <3>4 DEF RequestPreviousSalt, Received
  <2> QED
    BY <1>1, <2>1, Steps, MainFrame, HandlerFrame, ChunkFrame DEF Nothing, chVars
<1>17. chSalt' \in [Chunks -> Seq(Int)]
  <2>1. ASSUME NEW c \in Chunks, CombineSalt(c)
        PROVE  chSalt' \in [Chunks -> Seq(Int)]
    <3>1. chSalt'[c] \in Seq(Int)
      BY <2>1, Combines
    <3>2. PICK salt : chSalt' = [chSalt EXCEPT ![c] = salt]
      BY <2>1 DEF CombineSalt
    <3> QED
      BY <1>1, <3>1, <3>2
  <2> QED
    BY <1>1, <2>1, Steps, MainFrame, HandlerFrame, ChunkFrame DEF Nothing, chVars
<1>18. cipher' \in [Chunks -> [chunk : Int, salt : Seq(Int)]]
  <2>1. ASSUME NEW c \in Chunks, EncryptAndWrite(c)
        PROVE  cipher' \in [Chunks -> [chunk : Int, salt : Seq(Int)]]
    <3>1. cipher' = [cipher EXCEPT ![c] = [chunk |-> chunkRead[c], salt |-> chSalt[c]]]
      BY <2>1, WritesOwnFile
    <3>2. cipher \in [Chunks -> [chunk : Int, salt : Seq(Int)]]
      BY <1>1
    <3>3. chunkRead[c] \in Int /\ chSalt[c] \in Seq(Int)
      BY <1>1
    <3> QED
      BY <3>1, <3>2, <3>3
  <2> QED
    BY <1>1, <2>1, Steps, MainFrame, HandlerFrame, ChunkFrame DEF Nothing, chVars
<1>19. backlog' \in Seq(Chunks)
  <2>1. ASSUME NEW h \in Chunks, Accept(h)
        PROVE  backlog' \in Seq(Chunks)
    BY <1>1, <2>1, HeadTailProperties DEF Accept
  <2>2. ASSUME NEW c \in Chunks, Connect(c)
        PROVE  backlog' \in Seq(Chunks)
    BY <1>1, <2>2, AppendProperties DEF Connect
  <2> QED
    BY <1>1, <2>1, <2>2, Steps, MainFrame, HandlerFrame, ChunkFrame DEF Nothing, netVars
<1>20. pageCountMutex' \in Chunks \cup {NoOne}
  <2>1. pageCountMutex \in Chunks \cup {NoOne}
    BY DEF Types, TypeOK
  <2>2. ASSUME NEW h \in Chunks, \/ Accept(h) \/ SendChunk(h) \/ ReadPageProgress(h)
                                \/ WritePageProgress(h) \/ NotifyPage(h) \/ AnswerPreviousSalt(h)
        PROVE  pageCountMutex' \in Chunks \cup {NoOne}
    BY <2>1, <2>2 DEF Accept, SendChunk, ReadPageProgress, WritePageProgress, NotifyPage,
       AnswerPreviousSalt, countVars
  <2>3. ASSUME NEW h \in Chunks, \/ MissPreviousSalt(h) \/ Request(h) \/ SetSalt(h)
                                \/ NotRequested(h) \/ AnswerNext(h) \/ CountChunk(h) \/ NotifyAll(h)
        PROVE  pageCountMutex' \in Chunks \cup {NoOne}
    BY <2>1, <2>3 DEF MissPreviousSalt, Request, SetSalt, NotRequested, AnswerNext, CountChunk,
       NotifyAll, countVars
  <2> QED
    BY <2>1, <2>2, <2>3, Steps, MainFrame, ChunkFrame DEF Nothing, HandlerStep, countVars
<1>21. fault' \in {"none", "nullConnection", "noNext", "mapRace", "unmapped"}
  <2>1. fault \in {"none", "nullConnection", "noNext", "mapRace", "unmapped"}
    BY DEF Types, TypeOK
  <2>2. CASE JobManager
    BY <2>1, <2>2, MainFrame DEF JobManager, MainStep
  <2>3. ASSUME NEW h \in Chunks, WorkerHandler(h)
        PROVE  fault' \in {"none", "nullConnection", "noNext", "mapRace", "unmapped"}
    <3>1. \/ HandlerStep(h) \/ NullConnection(h) \/ SendUnmapped(h) \/ AnswerNullNext(h)
          \/ AnswerNoNext(h) \/ MapRace(h)
      BY <2>3 DEF WorkerHandler, HandlerStep
    <3> QED
      BY <2>1, <3>1, HandlerFrame
         DEF NullConnection, SendUnmapped, AnswerNullNext, AnswerNoNext, MapRace, Fault
  <2>4. ASSUME NEW c \in Chunks, ChunkHandler(c)
        PROVE  fault' \in {"none", "nullConnection", "noNext", "mapRace", "unmapped"}
    BY <2>1, <2>4, ChunkFrame DEF ChunkHandler, ChunkStep
  <2> QED
    BY <2>1, <2>2, <2>3, <2>4 DEF Next, vars
<1>22. toMaster' \in [Chunks -> {toMaster'[d] : d \in Chunks}]
  <2>1. ASSUME NEW h \in Chunks, NEW flag, Gets(h, flag)
        PROVE  toMaster' \in [Chunks -> {toMaster'[d] : d \in Chunks}]
    BY <1>1, <2>1, StaysFunction DEF Gets
  <2>2. ASSUME NEW c \in Chunks, NEW flag, NEW data, Send(c, flag, data)
        PROVE  toMaster' \in [Chunks -> {toMaster'[d] : d \in Chunks}]
    BY <1>1, <2>2, StaysFunction DEF Send
  <2>3. toMaster' = toMaster => toMaster' \in [Chunks -> {toMaster'[d] : d \in Chunks}]
    BY <1>1
  <2> QED
    BY <2>1, <2>2, <2>3, Steps, MainFrame, HandlerFrame, ChunkFrame DEF Nothing, netVars
<1>23. toWorker' \in [Chunks -> {toWorker'[d] : d \in Chunks}]
  <2>1. ASSUME NEW h \in Chunks, NEW flag, NEW data, Answer(h, flag, data) \/ Answer(h + 1, flag, data)
        PROVE  toWorker' \in [Chunks -> {toWorker'[d] : d \in Chunks}]
    BY <1>1, <2>1, StaysFunction DEF Answer
  <2>2. ASSUME NEW c \in Chunks, Consume(c)
        PROVE  toWorker' \in [Chunks -> {toWorker'[d] : d \in Chunks}]
    BY <1>1, <2>2, StaysFunction DEF Consume
  <2>3. toWorker' = toWorker => toWorker' \in [Chunks -> {toWorker'[d] : d \in Chunks}]
    BY <1>1
  <2>4. ASSUME NEW h \in Chunks, HandlerStep(h)
        PROVE  toWorker' \in [Chunks -> {toWorker'[d] : d \in Chunks}]
    BY <2>1, <2>3, <2>4, HandlerFrame, AnswersNext DEF Accept, SendChunk, AnswerPreviousSalt
  <2> QED
    BY <2>2, <2>3, <2>4, Steps, MainFrame, ChunkFrame DEF Nothing, netVars
<1> QED
  <2>1. Workers' = Workers
    BY <1>5 DEF Workers
  <2> QED
    BY <1>3, <1>4, <1>5, <1>6, <1>7, <1>8, <1>9, <1>10, <1>11, <1>12, <1>13, <1>14, <1>15, <1>16,
       <1>17, <1>18, <1>19, <1>20, <1>21, <1>22, <1>23, <2>1
       DEF Types, TypeOK, FewChunks, Chunks, Labels, ChunkLabels, NoOne, Unmapped

-----------------------------------------------------------------------------
\* The page that is mapped.

LEMMA Multiples ==
  ASSUME NEW q \in Nat, NEW r \in Nat, NEW d \in Nat \ {0}
  PROVE  /\ q * d \in Nat /\ (q + 1) * d = q * d + d
         /\ (q * d) % d = 0 /\ (q * d) \div d = q
         /\ q < r => q * d + d <= r * d
<1>1. q * d \in Nat /\ (q + 1) * d = q * d + d /\ (q * d) % d = 0 /\ (q * d) \div d = q
  BY SMT
<1>2. ASSUME q < r
      PROVE  q * d + d <= r * d
  <2>1. r - (q + 1) \in Nat
    BY <1>2
  <2>2. (r - (q + 1)) * d >= 0
    BY <2>1, SMT
  <2>3. (r - (q + 1)) * d = r * d - (q * d + d)
    BY <2>1, SMT
  <2>4. r * d \in Nat
    BY SMT
  <2> QED
    BY <1>1, <2>2, <2>3, <2>4
<1> QED
  BY <1>1, <1>2

\* The page of a chunk is the one whose bounds the chunk lies in.
LEMMA PageOf ==
  ASSUME NEW q \in Nat, NEW t \in Nat, NEW d \in Nat \ {0}, q * d <= t, t < q * d + d
  PROVE  t \div d = q /\ t = q * d + (t % d)
<1>1. PICK r \in Nat : r = t \div d
  BY Remainders
<1>2. PICK m \in 0 .. d - 1 : m = t % d
  BY Remainders
<1>3. t = r * d + m
  <2>1. t = d * r + m
    BY <1>1, <1>2, Remainders
  <2> QED
    BY <2>1, SMT
<1>4. ~(q < r) /\ ~(r < q)
  <2>1. r * d \in Nat /\ q * d \in Nat
    BY Multiples
  <2>2. q < r => q * d + d <= r * d
    BY Multiples
  <2>3. r < q => r * d + d <= q * d
    BY Multiples
  <2> QED
    BY <1>3, <2>1, <2>2, <2>3
<1>5. r = q
  BY <1>4
<1> QED
  BY <1>1, <1>2, <1>3, <1>5

\* What main tests to see whether chunk t is the first of a page.
LEMMA FirstChunk ==
  ASSUME NEW q \in Nat, NEW t \in Nat, NEW d \in Nat \ {0}, q * d < t, t <= q * d + d
  PROVE  t % d = 0 <=> t = q * d + d
<1>1. (q + 1) * d = q * d + d /\ ((q + 1) * d) % d = 0 /\ q * d \in Nat
  <2>1. q + 1 \in Nat
    OBVIOUS
  <2> QED
    BY <2>1, Multiples
<1>2. t = q * d + d => t % d = 0
  BY <1>1
<1>3. t # q * d + d => t % d # 0
  <2>1. t # q * d + d => t < q * d + d
    BY <1>1
  <2>2. t % d \in 0 .. d - 1
    BY Remainders
  <2>3. ASSUME t < q * d + d
        PROVE  t = q * d + (t % d)
    <3>1. q * d <= t
      BY <1>1
    <3> QED
      BY <2>3, <3>1, PageOf
  <2>4. ASSUME t < q * d + d, t % d = 0
        PROVE  FALSE
    BY <1>1, <2>3, <2>4
  <2> QED
    BY <2>1, <2>4
<1> QED
  BY <1>2, <1>3

\* In terms of the talk: what has been sent, before a step and after it.
LEMMA WrittenIs ==
  ASSUME NEW h \in Chunks, NEW c \in Chunks, (peer[h] = c), Talk(h, c)
  PROVE  /\ Unsent(h) <=> \/ chPc[c] = "outputDir"
                          \/ chPc[c] = "chunk" /\ toWorker[c] = <<>>
         /\ Written(h) <=> ~Unsent(h) /\ whPc[h] \notin {"readProgress", "writeProgress"}
<1>1. whPc[h] \in {"testPage", "recv", "request", "isRequested", "testAll", "readProgress", "writeProgress"}
  BY DEF Talk, Before, After, Greeted, AsksChunk, AsksSalt, GivenChunk,
     Missed, AwaitsSalt, GivenSalt, SendsSalt, Encrypts, Counted, Counting
<1>2. ASSUME chPc[c] = "outputDir"
      PROVE  whPc[h] = "recv" /\ toWorker[c] = <<Message("SET_OUTPUT_DIR", <<>>)>>
  BY <1>2 DEF Talk, Before, After, Greeted, AsksChunk, AsksSalt, GivenChunk,
     Missed, AwaitsSalt, GivenSalt, SendsSalt, Encrypts, Counted
<1>3. ASSUME chPc[c] = "chunk"
      PROVE  \/ whPc[h] = "recv" /\ toWorker[c] = <<>>
             \/ \E d : toWorker[c] = <<Message("ENCRYPT_CHUNK", d)>>
  BY <1>3 DEF Talk, Before, After, Greeted, AsksChunk, AsksSalt, GivenChunk,
     Missed, AwaitsSalt, GivenSalt, SendsSalt, Encrypts, Counted
<1>4. \A flag, d : /\ Len(<<Message(flag, d)>>) = 1
                   /\ <<Message(flag, d)>>[1].flag = flag /\ <<Message(flag, d)>> # <<>>
  BY DEF Message
<1>5. Unsent(h) <=> chPc[c] = "outputDir" \/ (chPc[c] = "chunk" /\ toWorker[c] = <<>>)
  <2>1. chPc[c] = "outputDir" => Unsent(h)
    BY <1>2, <1>4 DEF Unsent
  <2>2. chPc[c] = "chunk" /\ toWorker[c] = <<>> => Unsent(h)
    BY <1>3, <1>4 DEF Unsent
  <2>3. ASSUME chPc[c] = "chunk", toWorker[c] # <<>>
        PROVE  ~Unsent(h)
    <3>1. PICK d : toWorker[c] = <<Message("ENCRYPT_CHUNK", d)>>
      BY <1>3, <2>3
    <3>2. 1 \in 1 .. Len(toWorker[c]) /\ toWorker[c][1].flag = "ENCRYPT_CHUNK"
      BY <3>1, <1>4
    <3> QED
      BY <1>1, <3>2 DEF Unsent
  <2> QED
    BY <1>1, <2>1, <2>2, <2>3 DEF Unsent
<1> QED
  BY <1>1, <1>5 DEF Written

LEMMA WrittenIsNext ==
  ASSUME NEW h \in Chunks, NEW c \in Chunks, (peer[h] = c)', Talk(h, c)'
  PROVE  /\ Unsent(h)' <=> \/ chPc'[c] = "outputDir"
                           \/ chPc'[c] = "chunk" /\ toWorker'[c] = <<>>
         /\ Written(h)' <=> ~Unsent(h)' /\ whPc'[h] \notin {"readProgress", "writeProgress"}
<1>1. whPc'[h] \in {"testPage", "recv", "request", "isRequested", "testAll", "readProgress", "writeProgress"}
  BY DEF Talk, Before, After, Greeted, AsksChunk, AsksSalt, GivenChunk,
     Missed, AwaitsSalt, GivenSalt, SendsSalt, Encrypts, Counted, Counting
<1>2. ASSUME chPc'[c] = "outputDir"
      PROVE  whPc'[h] = "recv" /\ toWorker'[c] = <<Message("SET_OUTPUT_DIR", <<>>)>>
  BY <1>2 DEF Talk, Before, After, Greeted, AsksChunk, AsksSalt, GivenChunk,
     Missed, AwaitsSalt, GivenSalt, SendsSalt, Encrypts, Counted
<1>3. ASSUME chPc'[c] = "chunk"
      PROVE  \/ whPc'[h] = "recv" /\ toWorker'[c] = <<>>
             \/ \E d : toWorker'[c] = <<Message("ENCRYPT_CHUNK", d)>>
  BY <1>3 DEF Talk, Before, After, Greeted, AsksChunk, AsksSalt, GivenChunk,
     Missed, AwaitsSalt, GivenSalt, SendsSalt, Encrypts, Counted
<1>4. \A flag, d : /\ Len(<<Message(flag, d)>>) = 1
                   /\ <<Message(flag, d)>>[1].flag = flag /\ <<Message(flag, d)>> # <<>>
  BY DEF Message
<1>5. Unsent(h)' <=> chPc'[c] = "outputDir" \/ (chPc'[c] = "chunk" /\ toWorker'[c] = <<>>)
  <2>1. chPc'[c] = "outputDir" => Unsent(h)'
    BY <1>2, <1>4 DEF Unsent
  <2>2. chPc'[c] = "chunk" /\ toWorker'[c] = <<>> => Unsent(h)'
    BY <1>3, <1>4 DEF Unsent
  <2>3. ASSUME chPc'[c] = "chunk", toWorker'[c] # <<>>
        PROVE  ~Unsent(h)'
    <3>1. PICK d : toWorker'[c] = <<Message("ENCRYPT_CHUNK", d)>>
      BY <1>3, <2>3
    <3>2. 1 \in 1 .. Len(toWorker'[c]) /\ toWorker'[c][1].flag = "ENCRYPT_CHUNK"
      BY <3>1, <1>4
    <3> QED
      BY <1>1, <3>2 DEF Unsent
  <2> QED
    BY <1>1, <2>1, <2>2, <2>3 DEF Unsent
<1> QED
  BY <1>1, <1>5 DEF Written

LEMMA WrittenStep ==
  ASSUME Types, MainInv, Connections, Talks, RequestInv, SaltInv, [Next]_vars, NEW h \in Chunks
  PROVE  /\ Written(h)' <=> Written(h) \/ WritePageProgress(h)
         /\ WritePageProgress(h) => ~Written(h)
<1>1. /\ peer \in [Chunks -> Chunks \cup {NoOne}] /\ whPc \in [Chunks -> Labels]
      /\ chPc \in [Chunks -> ChunkLabels]
      /\ toWorker \in [Chunks -> {toWorker[e] : e \in Chunks}]
  BY DEF Types, TypeOK
<1>2. WritePageProgress(h) => whPc[h] = "writeProgress" /\ whPc'[h] = "testPage" /\ ~Written(h)
  BY <1>1 DEF WritePageProgress, Goto, At, Written
<1>3. Talks'
  BY TalksStep
<1>4. CASE peer[h] = NoOne
  <2>1. ~Written(h) /\ ~WritePageProgress(h)
    BY <1>2, <1>4 DEF Connections, Written
  <2>2. CASE Accept(h)
    <3>1. PICK c \in Chunks : peer'[h] = c /\ chPc[c] = "outputDir"
      <4>1. peer'[h] = Head(backlog)
        BY <2>2, PeerKept
      <4> QED
        BY <2>2, <4>1, Accepting
    <3>2. chPc'[c] = "outputDir"
      BY <2>2, <3>1 DEF Accept, chVars
    <3>3. Talk(h, c)'
      BY <1>3, <3>1 DEF Talks, NoOne, Chunks
    <3> QED
      BY <2>1, <3>1, <3>2, <3>3, WrittenIsNext
  <2>3. CASE ~Accept(h)
    <3>1. peer'[h] = NoOne
      BY <1>4, <2>3, PeerKept
    <3>2. whPc'[h] \in {"none", "accept"}
      BY <3>1, ConnectionsStep DEF Connections, NoOne, Chunks
    <3> QED
      BY <2>1, <3>2 DEF Written
  <2> QED
    BY <2>2, <2>3
<1>5. ASSUME NEW c \in Chunks, peer[h] = c
      PROVE  Written(h)' <=> Written(h) \/ WritePageProgress(h)
  <2>1. peer'[h] = c /\ c # NoOne
    BY <1>5, PairSteps DEF NoOne, Chunks
  <2>2. Talk(h, c) /\ Talk(h, c)'
    <3>1. Talk(h, c)
      BY <1>5, <2>1 DEF Talks
    <3>2. Talk(h, c)'
      BY <1>3, <2>1 DEF Talks, NoOne, Chunks
    <3> QED
      BY <3>1, <3>2
  <2> DEFINE Sending == {"readProgress", "writeProgress"}
  <2>3. /\ Unsent(h) <=> chPc[c] = "outputDir" \/ (chPc[c] = "chunk" /\ toWorker[c] = <<>>)
        /\ Written(h) <=> ~Unsent(h) /\ whPc[h] \notin Sending
    BY <1>5, <2>2, WrittenIs
  <2>4. /\ Unsent(h)' <=> chPc'[c] = "outputDir" \/ (chPc'[c] = "chunk" /\ toWorker'[c] = <<>>)
        /\ Written(h)' <=> ~Unsent(h)' /\ whPc'[h] \notin Sending
    BY <2>1, <2>2, WrittenIsNext
  <2>5. ASSUME HandlerStep(h)
        PROVE  Written(h)' <=> Written(h) \/ WritePageProgress(h)
    <3>1. chPc'[c] = chPc[c]
      BY <2>5, HandlerFrame DEF chVars
    <3>2. ASSUME NEW label, Goto(h, label)
          PROVE  whPc'[h] = label
      BY <1>1, <3>2 DEF Goto
    <3>3. ~Accept(h)
      BY <1>5, <2>1 DEF Connections, Accept, At
    <3>4. CASE SendChunk(h)
      <4>1. AsksChunk(h, c)
        BY <1>5, <2>2, <3>4, ReadByHandler DEF SendChunk, Gets, At
      <4>2. whPc'[h] = "readProgress" /\ whPc[h] = "recv"
        BY <3>2, <3>4 DEF SendChunk, Gets, At
      <4> QED
        BY <2>3, <2>4, <4>1, <4>2, <1>2 DEF AsksChunk
    <3>5. CASE ReadPageProgress(h)
      BY <2>3, <2>4, <3>2, <3>5, <1>2 DEF ReadPageProgress, At
    <3>6. CASE WritePageProgress(h)
      <4>1. whPc[h] = "writeProgress" /\ whPc'[h] = "testPage" /\ toWorker' = toWorker
        BY <1>2, <3>6 DEF WritePageProgress, netVars
      <4>2. GivenChunk(h, c) \/ AsksSalt(h, c)
        BY <2>2, <4>1 DEF Talk, Before, After, Greeted, AsksChunk,
           Missed, AwaitsSalt, GivenSalt, SendsSalt, Encrypts, Counted
      <4>3. toWorker[c] # <<>> \/ chPc[c] = "prevSalt"
        BY <4>2, OneMessage DEF GivenChunk, AsksSalt
      <4>4. chPc[c] # "outputDir"
        BY <4>2 DEF GivenChunk, AsksSalt
      <4> QED
        BY <2>4, <3>1, <3>6, <4>1, <4>3, <4>4
    <3>7. CASE NotifyPage(h) \/ Request(h) \/ NotRequested(h) \/ NotifyAll(h)
      <4>1. whPc[h] \notin Sending /\ whPc'[h] = "recv" /\ toWorker' = toWorker /\ ~WritePageProgress(h)
        BY <1>2, <3>2, <3>7 DEF NotifyPage, Request, NotRequested, NotifyAll, At, netVars
      <4> QED
        BY <2>3, <2>4, <3>1, <4>1
    <3>8. CASE AnswerPreviousSalt(h) \/ MissPreviousSalt(h) \/ SetSalt(h) \/ CountChunk(h)
      <4>1. chPc[c] \notin {"outputDir", "chunk"} /\ whPc[h] = "recv"
        <5>1. whPc[h] = "recv" /\ toMaster[c] # <<>>
          BY <1>5, <3>8 DEF AnswerPreviousSalt, MissPreviousSalt, SetSalt, CountChunk, Gets, At
        <5>2. Head(toMaster[c]).flag \in {"GET_PREV_SALT", "SET_SALT", "SIGNAL_DONE"}
          BY <1>5, <3>8 DEF AnswerPreviousSalt, MissPreviousSalt, SetSalt, CountChunk, Gets
        <5>3. AsksSalt(h, c) \/ SendsSalt(h, c) \/ Encrypts(h, c)
          BY <2>2, <5>1, <5>2, ReadByHandler
        <5> QED
          BY <5>1, <5>3 DEF AsksSalt, SendsSalt, Encrypts
      <4>2. whPc'[h] \notin Sending
        BY <3>2, <3>8, <4>1 DEF AnswerPreviousSalt, MissPreviousSalt, SetSalt, CountChunk
      <4> QED
        BY <2>3, <2>4, <3>1, <4>1, <4>2, <1>2
    <3>9. CASE AnswerNext(h)
      <4>1. whPc[h] = "isRequested" /\ whPc'[h] = "recv"
        BY <3>2, <3>9 DEF AnswerNext, At
      <4>2. Encrypts(h, c)
        BY <2>2, <4>1 DEF Talk, Before, After, Greeted, AsksChunk, AsksSalt, GivenChunk,
           Missed, AwaitsSalt, GivenSalt, SendsSalt, Counted, Counting
      <4>3. chPc[c] \notin {"outputDir", "chunk"}
        BY <4>2 DEF Encrypts
      <4> QED
        BY <2>3, <2>4, <3>1, <4>1, <4>3, <1>2
    <3> QED
      BY <2>5, <3>3, <3>4, <3>5, <3>6, <3>7, <3>8, <3>9 DEF HandlerStep
  <2>6. ASSUME ChunkStep(c), ~HandlerStep(h)
        PROVE  Written(h)' <=> Written(h) \/ WritePageProgress(h)
    <3>1. whPc'[h] = whPc[h] /\ ~WritePageProgress(h)
      BY <2>6, ChunkFrame DEF HandlerStep
    <3>2. CASE Connect(c)
      BY <1>5, <3>2 DEF Connections, Accepted, Connect, ChunkAt
    <3>3. CASE RequestChunk(c)
      <4>1. toWorker[c] # <<>> /\ chPc[c] = "outputDir" /\ chPc'[c] = "chunk"
        BY <1>1, <3>3 DEF RequestChunk, HasReceived, ChunkAt, ChunkGoto
      <4>2. toWorker'[c] = <<>>
        <5>1. Tail(toWorker[c]) = <<>>
          BY <2>2, <4>1, ReadByChunk
        <5> QED
          BY <1>1, <3>3, <5>1 DEF RequestChunk, Consume
      <4> QED
        BY <2>3, <2>4, <3>1, <4>1, <4>2
    <3>4. CASE RequestPreviousSalt(c)
      <4>1. toWorker[c] # <<>> /\ chPc[c] = "chunk" /\ chPc'[c] = "prevSalt"
        BY <1>1, <3>4 DEF RequestPreviousSalt, HasReceived, ChunkAt, ChunkGoto
      <4> QED
        BY <2>3, <2>4, <3>1, <4>1
    <3>5. CASE CombineSalt(c) \/ EncryptAndWrite(c)
      <4>1. chPc[c] \notin {"outputDir", "chunk"} /\ chPc'[c] \notin {"outputDir", "chunk"}
        BY <1>1, <3>5 DEF CombineSalt, EncryptAndWrite, ChunkAt, ChunkGoto
      <4> QED
        BY <2>3, <2>4, <3>1, <4>1
    <3> QED
      BY <2>6, <3>2, <3>3, <3>4, <3>5 DEF ChunkStep
  <2>7. ASSUME NEW g \in Chunks, HandlerStep(g), AnsweredBy(g, h)
        PROVE  Written(h)' <=> Written(h) \/ WritePageProgress(h)
    <3>1. AwaitsSalt(h, c) /\ GivenSalt(h, c)'
      BY <1>5, <2>7, AnsweredTalk
    <3> QED
      BY <2>3, <2>4, <3>1, <1>2 DEF AwaitsSalt, GivenSalt
  <2>8. ASSUME Still(h, c)
        PROVE  Written(h)' <=> Written(h) \/ WritePageProgress(h)
    <3>1. ~WritePageProgress(h)
      BY <1>2, <2>8 DEF Still
    <3> QED
      BY <2>3, <2>4, <2>8, <3>1 DEF Still
  <2> QED
    BY <1>5, <2>5, <2>6, <2>7, <2>8, PairSteps
<1> QED
  BY <1>1, <1>2, <1>4, <1>5

\* Which step a handler adds to the count of the page after.
LEMMA ToWriting ==
  ASSUME Types, [Next]_vars, NEW h \in Chunks, whPc'[h] = "writeProgress", whPc[h] # "writeProgress"
  PROVE  ReadPageProgress(h)
<1>1. whPc \in [Chunks -> Labels]
  BY DEF Types, TypeOK
<1>2. ASSUME NEW g, NEW label, Goto(g, label), g # h \/ label # "writeProgress"
      PROVE  whPc'[h] # "writeProgress"
  BY <1>1, <1>2 DEF Goto
<1>3. ~CreateHandler
  BY <1>2 DEF CreateHandler
<1>4. PICK g \in Chunks : HandlerStep(g)
  BY <1>3, Steps, MainFrame, ChunkFrame DEF Nothing
<1>5. ReadPageProgress(g) /\ g = h
  BY <1>2, <1>4 DEF HandlerStep, Accept, SendChunk, ReadPageProgress, WritePageProgress,
     NotifyPage, AnswerPreviousSalt, MissPreviousSalt, Request, SetSalt, NotRequested, AnswerNext,
     CountChunk, NotifyAll
<1> QED
  BY <1>5

\* The chunks of the mapped page that have been sent and counted grow by one chunk
\* with every increment of the count, and only so.
LEMMA WrittenOfPageStep ==
  ASSUME Types, MainInv, Connections, Talks, RequestInv, SaltInv, PageInv, [Next]_vars,
         base # Unmapped, base' = base
  PROVE  /\ Cardinality(WrittenOfPage) \in Nat /\ Cardinality(WrittenOfPage') \in Nat
         /\ \/ /\ WrittenOfPage' = WrittenOfPage
               /\ \A g \in Chunks : ~WritePageProgress(g)
            \/ /\ Cardinality(WrittenOfPage') = Cardinality(WrittenOfPage) + 1
               /\ \E g \in Chunks : WritePageProgress(g)
<1>1. WrittenOfPage \in SUBSET Chunks /\ WrittenOfPage' \in SUBSET Chunks
  BY DEF WrittenOfPage, Chunks
<1>2. /\ Cardinality(WrittenOfPage) \in Nat /\ Cardinality(WrittenOfPage') \in Nat
      /\ IsFiniteSet(WrittenOfPage)
  BY <1>1, CountedFinite, ClusterAssumption
<1>3. CASE \A g \in Chunks : ~WritePageProgress(g)
  <2>1. WrittenOfPage' = {h \in Chunks : base * pageSize <= h /\ Written(h)'}
    BY DEF WrittenOfPage, Chunks
  <2>2. WrittenOfPage' = WrittenOfPage
    BY <1>3, <2>1, WrittenStep DEF WrittenOfPage
  <2> QED
    BY <1>2, <1>3, <2>2
<1>4. CASE \E g \in Chunks : WritePageProgress(g)
  <2>1. PICK g \in Chunks : WritePageProgress(g)
    BY <1>4
  <2>2. ASSUME NEW f \in Chunks, WritePageProgress(f)
        PROVE  f = g
    <3>1. whPc \in [Chunks -> Labels]
      BY DEF Types, TypeOK
    <3> QED
      BY <2>1, <2>2, <3>1 DEF WritePageProgress, Goto, At
  <2>3. base * pageSize <= g
    <3>1. base \in Nat
      BY DEF Types, TypeOK
    <3>2. base * pageSize \in Nat
      BY <3>1, ClusterAssumption, Multiples
    <3>3. ~(g < base * pageSize)
      BY <2>1, WrittenStep DEF PageInv
    <3> QED
      BY <3>2, <3>3 DEF Chunks
  <2>4. WrittenOfPage' = {h \in Chunks : base * pageSize <= h /\ Written(h)'}
    BY DEF WrittenOfPage, Chunks
  <2>5. \A h \in Chunks : Written(h)' <=> Written(h) \/ h = g
    BY <2>1, <2>2, WrittenStep
  <2>6. ~Written(g)
    BY <2>1, WrittenStep
  <2>7. WrittenOfPage' = WrittenOfPage \cup {g} /\ g \notin WrittenOfPage
    BY <2>3, <2>4, <2>5, <2>6 DEF WrittenOfPage
  <2> QED
    BY <1>2, <1>4, <2>7, FS_AddElement
<1> QED
  BY <1>3, <1>4

\* When the whole page has been counted, the whole page has been sent.
LEMMA PageSent ==
  ASSUME Types, MainInv, Connections, PageInv, mPc = "page", pageProgress = pageSize
  PROVE  /\ base \in Nat /\ i = base * pageSize + pageSize
         /\ \A h \in Chunks : h < i => Written(h)
         /\ \A h \in Chunks : Written(h) => h < i
<1>1. base # Unmapped /\ base \in Nat
  BY DEF PageInv, Types, TypeOK
<1>2. base * pageSize \in Nat /\ (base + 1) * pageSize = base * pageSize + pageSize
  BY <1>1, ClusterAssumption, Multiples
<1>3. i = base * pageSize + pageSize
  BY <1>1, <1>2 DEF PageInv, MappedInv, Creating
<1>4. ASSUME NEW h \in Chunks, Written(h)
      PROVE  h < i
  BY <1>4 DEF Written, MainInv, Started
<1>5. Cardinality(WrittenOfPage) \in Nat
  <2>1. WrittenOfPage \in SUBSET Chunks
    BY DEF WrittenOfPage
  <2> QED
    BY <2>1, CountedFinite, ClusterAssumption
<1>6. pageSize <= Cardinality(WrittenOfPage)
  BY <1>1, <1>5, ClusterAssumption DEF PageInv, FirstOfPage, Creating
<1> DEFINE page == base * pageSize .. base * pageSize + pageSize - 1
<1>7. IsFiniteSet(page) /\ Cardinality(page) = pageSize
  <2>1. base * pageSize + pageSize - 1 \in Int /\ ~(base * pageSize > base * pageSize + pageSize - 1)
    BY <1>2, ClusterAssumption
  <2>2. (base * pageSize + pageSize - 1) - base * pageSize + 1 = pageSize
    BY <1>2, ClusterAssumption
  <2> QED
    BY <1>2, <2>1, <2>2, FS_Interval
<1>8. WrittenOfPage \in SUBSET page
  BY <1>2, <1>3, <1>4, ClusterAssumption DEF WrittenOfPage, Chunks
<1>9. WrittenOfPage = page
  <2>1. Cardinality(WrittenOfPage) <= Cardinality(page)
    BY <1>7, <1>8, FS_Subset
  <2>2. Cardinality(page) = Cardinality(WrittenOfPage)
    BY <1>5, <1>6, <1>7, <2>1, ClusterAssumption
  <2> QED
    BY <1>7, <1>8, <2>2, FS_Subset
<1>10. ASSUME NEW h \in Chunks, h < i
       PROVE  Written(h)
  <2>1. CASE h < base * pageSize
    BY <1>1, <2>1 DEF PageInv
  <2>2. CASE ~(h < base * pageSize)
    <3>1. h \in page
      BY <1>2, <1>3, <1>10, <2>2, ClusterAssumption DEF Chunks
    <3> QED
      BY <1>9, <3>1 DEF WrittenOfPage
  <2> QED
    BY <2>1, <2>2
<1> QED
  BY <1>1, <1>3, <1>4, <1>10

LEMMA MapPageStep ==
  ASSUME Types, MainInv, Connections, Talks, RequestInv, SaltInv, PageInv, MapPage, [Next]_vars
  PROVE  PageInv'
<1>1. mPc = "page" /\ mPc' = "create" /\ pageProgress = pageSize /\ base' = i \div pageSize
      /\ UNCHANGED <<i, pageProgress, whPc>>
  BY DEF MapPage, Main, Predicate, countVars
<1>2. /\ base \in Nat /\ i = base * pageSize + pageSize
      /\ \A h \in Chunks : h < i => Written(h)
      /\ \A h \in Chunks : Written(h) => h < i
  BY <1>1, PageSent
<1>3. base' = base + 1 /\ base' * pageSize = i
  <2>1. (base + 1) * pageSize = i /\ ((base + 1) * pageSize) \div pageSize = base + 1
    <3>1. base + 1 \in Nat
      BY <1>2
    <3> QED
      BY <1>2, <3>1, ClusterAssumption, Multiples
  <2> QED
    BY <1>1, <2>1
<1>4. \A h \in Chunks : Written(h)' <=> Written(h)
  <2>1. ASSUME NEW h \in Chunks
        PROVE  ~WritePageProgress(h)
    BY <1>1 DEF WritePageProgress, mainVars
  <2> QED
    BY <2>1, WrittenStep
<1>5. MappedInv'
  <2>1. (base + 1) * pageSize = base * pageSize + pageSize
    BY <1>2, ClusterAssumption, Multiples
  <2>2. base' + 1 \in Nat /\ (base' + 1) * pageSize = base' * pageSize + pageSize
    BY <1>2, <1>3, ClusterAssumption, Multiples
  <2>3. i \in Nat
    BY MainTypes
  <2>4. base' * pageSize <= i' /\ i' < (base' + 1) * pageSize
    BY <1>1, <1>3, <2>2, <2>3, ClusterAssumption
  <2> QED
    BY <1>1, <2>4 DEF MappedInv, Creating
<1>6. WrittenOfPage' = {}
  <2>1. ASSUME NEW h \in Chunks, Written(h)'
        PROVE  ~(base' * pageSize <= h)
    <3>1. h < i
      BY <1>2, <1>4, <2>1
    <3> QED
      BY <1>3, <3>1, MainTypes DEF Chunks
  <2> QED
    BY <2>1 DEF WrittenOfPage, Chunks
<1>7. FirstOfPage'
  BY <1>1, <1>2, <1>3 DEF FirstOfPage, Creating
<1>8. \A h \in Chunks : whPc'[h] # "writeProgress"
  <2>1. ASSUME NEW h \in Chunks, whPc[h] = "writeProgress"
        PROVE  FALSE
    <3>1. h < i
      BY <1>1, <2>1 DEF MainInv, Started
    <3> QED
      BY <1>2, <2>1, <3>1 DEF Written
  <2> QED
    BY <1>1, <2>1
<1>9. \A h \in Chunks : h < base' * pageSize => Written(h)'
  BY <1>2, <1>3, <1>4
<1>10. base' # Unmapped /\ mPc' \notin {"all", "done"} /\ pageProgress' = pageSize
  BY <1>1, <1>2, <1>3 DEF Unmapped
<1> QED
  BY <1>5, <1>7, <1>8, <1>9, <1>10 DEF PageInv, Chunks, Unmapped

LEMMA MainPageStep ==
  ASSUME Types, MainInv, PageInv, MainStep, ~MapPage, base # Unmapped, base' # Unmapped
  PROVE  /\ base' = base /\ MappedInv' /\ (base' = Unmapped <=> mPc' \in {"all", "done"})
         /\ FirstOfPage /\ pageProgress' # 0 => FirstOfPage'
         /\ pageProgress' \in {0, pageProgress}
<1>1. ~UnmapFinalPage /\ base' = base /\ mPc \notin {"all", "done"}
  BY MainFrame DEF UnmapFinalPage, PageInv
<1>2. base \in Nat /\ MappedInv
  BY DEF PageInv, Types, TypeOK
<1>3. base * pageSize \in Nat /\ (base + 1) * pageSize = base * pageSize + pageSize
  BY <1>2, ClusterAssumption, Multiples
<1>4. i \in Nat
  BY MainTypes
<1>5. CASE ConnectWorker
  BY <1>1, <1>2, <1>5 DEF ConnectWorker, Main, MappedInv, MainInv, FirstOfPage, Creating, countVars
<1>6. CASE StartIteration
  <2>1. mPc = "loop" /\ pageProgress' = 0 /\ i' = i
    BY <1>6 DEF StartIteration, Main
  <2>2. (i = 0 /\ base = 0) \/ (base * pageSize < i /\ i <= base * pageSize + pageSize)
    BY <1>2, <1>3, <2>1 DEF MappedInv, Creating
  <2>3. CASE i > 0 /\ i % pageSize = 0
    <3>1. base * pageSize < i /\ i <= base * pageSize + pageSize
      BY <1>4, <2>2, <2>3
    <3>2. i = base * pageSize + pageSize
      BY <1>2, <1>4, <2>3, <3>1, ClusterAssumption, FirstChunk
    <3>3. mPc' = "page"
      BY <1>6, <2>3 DEF StartIteration
    <3> QED
      BY <1>1, <1>3, <2>1, <3>2, <3>3 DEF MappedInv, Creating
  <2>4. CASE ~(i > 0 /\ i % pageSize = 0)
    <3>1. mPc' = "create"
      BY <1>6, <2>4 DEF StartIteration
    <3>2. base * pageSize <= i /\ i < base * pageSize + pageSize
      <4>1. CASE i = 0
        BY <1>3, <1>4, <2>2, <4>1, ClusterAssumption
      <4>2. CASE i # 0
        <5>1. base * pageSize < i /\ i <= base * pageSize + pageSize
          BY <2>2, <4>2
        <5>2. i % pageSize # 0
          BY <1>4, <2>4, <4>2
        <5>3. i # base * pageSize + pageSize
          BY <1>2, <1>4, <5>1, <5>2, ClusterAssumption, FirstChunk
        <5> QED
          BY <1>3, <1>4, <5>1, <5>3, ClusterAssumption
      <4> QED
        BY <4>1, <4>2
    <3> QED
      BY <1>1, <1>3, <2>1, <3>1, <3>2 DEF MappedInv, Creating
  <2> QED
    BY <2>3, <2>4
<1>7. CASE EndLoop
  <2>1. mPc = "loop" /\ mPc' = "final" /\ i' = i /\ pageProgress' = pageProgress
    BY <1>7 DEF EndLoop, Main, countVars
  <2> QED
    BY <1>1, <1>2, <2>1 DEF MappedInv, FirstOfPage, Creating
<1>8. CASE TestFails \/ Block
  <2>1. mPc' = mPc /\ i' = i /\ pageProgress' = pageProgress
    BY <1>8 DEF TestFails, Block, countVars
  <2> QED
    BY <1>1, <1>2, <2>1 DEF MappedInv, FirstOfPage
<1>9. CASE PersistSalts
  BY <1>1, <1>9 DEF PersistSalts, Main
<1>10. CASE CreateHandler \/ ConstructHandler \/ InsertHandler
  <2>1. mPc \in Creating /\ mPc' \in Creating /\ i' = i /\ pageProgress' = pageProgress
    BY <1>10 DEF CreateHandler, ConstructHandler, InsertHandler, Main, Creating, countVars
  <2> QED
    BY <1>1, <1>2, <2>1 DEF MappedInv, FirstOfPage, Creating
<1>11. CASE SendEncryptChunk
  <2>1. mPc = "send" /\ mPc' = "loop" /\ i' = i + 1 /\ pageProgress' = pageProgress
    BY <1>11 DEF SendEncryptChunk, Main, countVars
  <2>2. base * pageSize <= i /\ i < base * pageSize + pageSize
    BY <1>2, <1>3, <2>1 DEF MappedInv, Creating
  <2>3. base * pageSize < i' /\ i' <= (base + 1) * pageSize
    BY <1>3, <1>4, <2>1, <2>2, ClusterAssumption
  <2>4. MappedInv'
    BY <1>1, <2>1, <2>3 DEF MappedInv, Creating
  <2>5. FirstOfPage => FirstOfPage'
    BY <1>1, <2>1 DEF FirstOfPage, Creating
  <2> QED
    BY <1>1, <2>1, <2>4, <2>5
<1> QED
  BY <1>1, <1>5, <1>6, <1>7, <1>8, <1>9, <1>10, <1>11 DEF MainStep

LEMMA PageStep ==
  ASSUME Types, MainInv, Connections, Talks, RequestInv, SaltInv, PageInv, [Next]_vars
  PROVE  PageInv'
<1>1. seenProgress \in [Chunks -> Nat] /\ whPc \in [Chunks -> Labels] /\ pageProgress \in Nat
  BY DEF Types, TypeOK
<1> DEFINE Fits(n, count) == n <= count \/ n >= pageSize
<1>2. CASE base = Unmapped
  <2>1. base' = Unmapped /\ mPc' \in {"all", "done"}
    <3>1. mPc \in {"all", "done"}
      BY <1>2 DEF PageInv
    <3>2. CASE MainStep
      BY <1>2, <3>1, <3>2 DEF MainStep, ConnectWorker, StartIteration, EndLoop, TestFails, Block, MapPage,
         UnmapFinalPage, PersistSalts, CreateHandler, ConstructHandler, InsertHandler,
         SendEncryptChunk, Main
    <3> QED
      BY <1>2, <3>1, <3>2, Steps, HandlerFrame, ChunkFrame DEF Nothing, mainVars
  <2> QED
    BY <2>1 DEF PageInv, Unmapped
<1>3. CASE MapPage
  BY <1>3, MapPageStep
<1>4. CASE UnmapFinalPage
  BY <1>4 DEF UnmapFinalPage, PageInv, Unmapped
<1>5. ASSUME base # Unmapped, ~MapPage, ~UnmapFinalPage
      PROVE  PageInv'
  <2>1. base' = base
    BY <1>5, Steps, MainFrame, HandlerFrame, ChunkFrame DEF Nothing
  <2> DEFINE before == Cardinality(WrittenOfPage)
             after == Cardinality(WrittenOfPage')
  <2>2. /\ before \in Nat /\ after \in Nat
        /\ \/ after = before /\ \A g \in Chunks : ~WritePageProgress(g)
           \/ after = before + 1 /\ \E g \in Chunks : WritePageProgress(g)
    BY <1>5, <2>1, WrittenOfPageStep
  <2>3. /\ base' = Unmapped <=> mPc' \in {"all", "done"}
        /\ MappedInv'
        /\ FirstOfPage /\ pageProgress' # 0 => FirstOfPage'
    <3>1. CASE MainStep
      BY <1>5, <2>1, <3>1, MainPageStep
    <3>2. CASE UNCHANGED <<mPc, i>>
      BY <1>5, <2>1, <3>2 DEF PageInv, MappedInv, FirstOfPage
    <3> QED
      BY <3>1, <3>2, Steps, HandlerFrame, ChunkFrame DEF Nothing, mainVars
  <2>4. \A h \in Chunks : h < base * pageSize => Written(h)'
    BY <1>5, WrittenStep DEF PageInv
  <2>5. /\ pageProgress <= before \/ pageProgress > pageSize \/ (pageProgress = pageSize /\ FirstOfPage)
        /\ \A h \in Chunks : whPc[h] = "writeProgress" => Fits(seenProgress[h], before)
    BY <1>5 DEF PageInv
  <2> HIDE DEF before, after
  <2>6. \/ pageProgress' <= after \/ pageProgress' > pageSize
        \/ pageProgress' = pageSize /\ FirstOfPage'
    <3>1. CASE MainStep
      <4>1. pageProgress' \in {0, pageProgress}
        BY <1>5, <2>1, <3>1, MainPageStep
      <4> QED
        BY <1>1, <2>2, <2>3, <2>5, <4>1, ClusterAssumption
    <3>2. CASE \E g \in Chunks : WritePageProgress(g)
      <4>1. PICK g \in Chunks : WritePageProgress(g)
        BY <3>2
      <4>2. pageProgress' = seenProgress[g] + 1 /\ whPc[g] = "writeProgress" /\ seenProgress[g] \in Nat
        BY <1>1, <4>1 DEF WritePageProgress, At
      <4>3. after = before + 1
        BY <2>2, <3>2
      <4> QED
        BY <2>2, <2>5, <4>2, <4>3, ClusterAssumption
    <3>3. CASE UNCHANGED pageProgress /\ ~\E g \in Chunks : WritePageProgress(g)
      BY <1>1, <2>2, <2>3, <2>5, <3>3, ClusterAssumption
    <3> QED
      BY <3>1, <3>2, <3>3, Steps, HandlerFrame, ChunkFrame DEF Nothing, countVars
  <2>7. ASSUME NEW h \in Chunks, whPc'[h] = "writeProgress"
        PROVE  Fits(seenProgress'[h], after)
    <3>1. CASE whPc[h] # "writeProgress"
      <4>1. ReadPageProgress(h)
        BY <2>7, <3>1, ToWriting
      <4>2. seenProgress'[h] = pageProgress
        BY <1>1, <4>1 DEF ReadPageProgress
      <4> QED
        BY <1>1, <2>2, <2>5, <4>2, ClusterAssumption
    <3>2. CASE whPc[h] = "writeProgress"
      <4>1. ~ReadPageProgress(h)
        BY <3>2 DEF ReadPageProgress, At
      <4>2. seenProgress'[h] = seenProgress[h] /\ seenProgress[h] \in Nat
        <5>1. ASSUME NEW g \in Chunks, ReadPageProgress(g), g # h
              PROVE  seenProgress'[h] = seenProgress[h]
          BY <1>1, <5>1 DEF ReadPageProgress
        <5> QED
          BY <1>1, <4>1, <5>1, Steps, MainFrame, HandlerFrame, ChunkFrame DEF Nothing, countVars
      <4> QED
        BY <2>2, <2>5, <3>2, <4>2, ClusterAssumption
    <3> QED
      BY <3>1, <3>2
  <2> USE DEF after
  <2> QED
    BY <2>1, <2>3, <2>4, <2>6, <2>7 DEF PageInv, Chunks, Unmapped
<1> QED
  BY <1>2, <1>3, <1>4, <1>5

\* A chunk that has not been sent is in the mapped page.
LEMMA UnsentIsMapped ==
  ASSUME Types, MainInv, Connections, PageInv, NEW h \in Chunks, Unsent(h), base # Unmapped
  PROVE  h \div pageSize = base /\ h = base * pageSize + (h % pageSize)
<1>1. base \in Nat /\ h \in Nat /\ i \in Nat
  BY MainTypes DEF Types, TypeOK, Chunks
<1>2. base * pageSize \in Nat /\ (base + 1) * pageSize = base * pageSize + pageSize
  BY <1>1, ClusterAssumption, Multiples
<1>3. base * pageSize <= h
  BY <1>1, <1>2 DEF PageInv, Written
<1>4. h < i \/ (h = i /\ mPc \in Creating)
  <2>1. whPc[h] # "none"
    BY DEF Unsent
  <2> QED
    BY <2>1 DEF MainInv, Started, Creating
<1>5. h < base * pageSize + pageSize
  <2>1. MappedInv
    BY DEF PageInv
  <2>2. mPc = "connect" => i = 0
    BY DEF MainInv
  <2>3. mPc \in Creating => i < base * pageSize + pageSize
    BY <1>2, <2>1 DEF MappedInv, Creating
  <2>4. mPc \notin Creating /\ mPc # "connect" => i <= base * pageSize + pageSize
    BY <1>1, <1>2, <2>1, ClusterAssumption DEF MappedInv
  <2> QED
    BY <1>1, <1>2, <1>4, <2>2, <2>3, <2>4, ClusterAssumption
<1> QED
  BY <1>1, <1>3, <1>5, ClusterAssumption, PageOf

-----------------------------------------------------------------------------
\* What every salt is computed from.

LEMMA Reference ==
  ASSUME NEW t \in Nat
  PROVE  /\ ReferenceSalt(t) \in Seq(Int) /\ Len(ReferenceSalt(t)) = t + 2
         /\ ReferenceSalt(t)[t + 2] = t /\ ReferenceSalt(t) # NoSalt
         /\ Combine(t, IF t = 0 THEN IV ELSE ReferenceSalt(t - 1)) = ReferenceSalt(t)
<1> DEFINE s == IF t = 0 THEN IV ELSE ReferenceSalt(t - 1)
           r == ReferenceSalt(t)
<1>1. r \in Seq(Int) /\ Len(r) = t + 2 /\ \A k \in 1 .. t + 2 : r[k] = k - 2
  BY SMT DEF ReferenceSalt
<1>2. s \in Seq(Int) /\ Len(s) = t + 1 /\ \A k \in 1 .. t + 1 : s[k] = k - 2
  <2>1. CASE t = 0
    BY <2>1, SMT DEF IV
  <2>2. CASE t # 0
    BY <2>2, SMT DEF ReferenceSalt
  <2> QED
    BY <2>1, <2>2
<1> HIDE DEF r, s
<1>3. Append(s, t) \in Seq(Int) /\ Len(Append(s, t)) = t + 2
  BY <1>2, AppendProperties
<1>4. \A k \in 1 .. t + 2 : Append(s, t)[k] = k - 2
  BY <1>2, AppendProperties
<1>5. Append(s, t) = r
  BY <1>1, <1>3, <1>4, SeqEqual
<1>6. Len(<<>>) = 0 /\ Len(r) # 0 /\ r[t + 2] = t
  BY <1>1
<1> QED
  BY <1>1, <1>5, <1>6 DEF Combine, NoSalt, r, s

\* What a chunk is sent: itself.
LEMMA SendsItself ==
  ASSUME Types, MainInv, Connections, Talks, PageInv, NEW h \in Chunks, SendChunk(h)
  PROVE  toWorker'[peer[h]] = <<Message("ENCRYPT_CHUNK", h)>>
<1>1. /\ peer \in [Chunks -> Chunks \cup {NoOne}]
      /\ toWorker \in [Chunks -> {toWorker[e] : e \in Chunks}]
  BY DEF Types, TypeOK
<1>2. whPc[h] = "recv" /\ base # Unmapped
  BY DEF SendChunk, Gets, At
<1>3. PICK c \in Chunks : peer[h] = c
  BY <1>1, <1>2 DEF Connections
<1>4. Talk(h, c)
  BY <1>3 DEF Talks, NoOne, Chunks
<1>5. AsksChunk(h, c)
  BY <1>2, <1>3, <1>4, ReadByHandler DEF SendChunk, Gets
<1>6. Unsent(h)
  BY <1>3, <1>4, <1>5, WrittenIs DEF AsksChunk
<1>7. base * pageSize + (h % pageSize) = h
  BY <1>2, <1>6, UnsentIsMapped
<1>8. toWorker' = [toWorker EXCEPT ![c] = Append(toWorker[c], Message("ENCRYPT_CHUNK", h))]
  BY <1>3, <1>7 DEF SendChunk, Answer, Message
<1>9. toWorker'[c] = Append(<<>>, Message("ENCRYPT_CHUNK", h))
  BY <1>1, <1>5, <1>8 DEF AsksChunk
<1> QED
  BY <1>3, <1>9, OneMessage

\* The salt that is combined for a chunk is its own.
LEMMA CombinesReference ==
  ASSUME Types, Connections, Talks, SaltInv, ChunkInv, NEW c \in Chunks, CombineSalt(c)
  PROVE  \E h \in Chunks :
           /\ peer[h] = c /\ PreviousSalt(h) # NoSalt /\ chunkRead[c] = h
           /\ h > 0 => h - 1 \in Chunks /\ peer[h - 1] # NoOne /\ value[h - 1] = chSalt[peer[h - 1]]
           /\ chSalt' = [chSalt EXCEPT ![c] = Combine(h, PreviousSalt(h))]
           /\ chSalt'[c] = ReferenceSalt(h)
<1>1. PICK h \in Chunks :
        /\ peer[h] = c /\ Received(c).data = PreviousSalt(h) /\ PreviousSalt(h) # NoSalt
        /\ chSalt'[c] = Combine(chunkRead[c], PreviousSalt(h))
  BY Combines
<1>2. chPc[c] = "prevSalt" /\ chSalt' = [chSalt EXCEPT ![c] = Combine(chunkRead[c], PreviousSalt(h))]
  BY <1>1 DEF CombineSalt, ChunkAt
<1>3. chunkRead[c] = h
  BY <1>1, <1>2 DEF ChunkInv, NoOne, Chunks
<1>4. ASSUME h > 0
      PROVE  /\ h - 1 \in Chunks /\ peer[h - 1] # NoOne /\ value[h - 1] = chSalt[peer[h - 1]]
             /\ value[h - 1] = ReferenceSalt(h - 1)
  <2>1. h - 1 \in Chunks
    BY <1>4, ClusterAssumption DEF Chunks
  <2>2. value[h - 1] # NoSalt
    BY <1>1, <1>4 DEF PreviousSalt, Chunks
  <2>3. peer[h - 1] # NoOne /\ Talk(h - 1, peer[h - 1])
    BY <2>1, <2>2 DEF Talks
  <2>4. value[h - 1] = chSalt[peer[h - 1]]
    BY <2>2, <2>3 DEF Talk
  <2>5. chSalt[peer[h - 1]] = ReferenceSalt(h - 1)
    BY <2>1, <2>2, <2>3, <2>4 DEF ChunkInv
  <2> QED
    BY <2>1, <2>3, <2>4, <2>5
<1>5. Combine(h, PreviousSalt(h)) = ReferenceSalt(h)
  <2>1. h \in Nat /\ (h # 0 => h > 0)
    BY DEF Chunks
  <2> QED
    BY <1>4, <2>1, Reference DEF PreviousSalt
<1> QED
  BY <1>1, <1>2, <1>3, <1>4, <1>5

LEMMA ChunkInvStep ==
  ASSUME Types, MainInv, Connections, Talks, RequestInv, SaltInv, PageInv, ChunkInv, [Next]_vars
  PROVE  ChunkInv'
<1>1. /\ peer \in [Chunks -> Chunks \cup {NoOne}] /\ chPc \in [Chunks -> ChunkLabels]
      /\ chunkRead \in [Chunks -> Int]
      /\ toWorker \in [Chunks -> {toWorker[e] : e \in Chunks}]
  BY DEF Types, TypeOK
<1> DEFINE Good(h, c) ==
      /\ GivenChunk(h, c) => toWorker[c][1].data = h
      /\ chPc[c] \in {"prevSalt", "encrypt", "finished"} => chunkRead[c] = h
      /\ chSalt[c] \in {NoSalt, ReferenceSalt(h)}
<1>2. ASSUME NEW h \in Chunks, NEW c \in Chunks, peer'[h] = c
      PROVE  Good(h, c)'
  <2>1. CASE peer[h] # c
    <3>1. Accept(h) /\ chPc[c] = "outputDir"
      <4>1. Accept(h) /\ peer'[h] = Head(backlog)
        BY <1>2, <2>1, PeerKept
      <4> QED
        BY <1>2, <4>1, Accepting
    <3>2. UNCHANGED chVars
      BY <3>1 DEF Accept
    <3>3. chSalt[c] = NoSalt
      BY <3>1 DEF SaltInv
    <3> QED
      BY <3>1, <3>2, <3>3 DEF chVars, GivenChunk
  <2>2. ASSUME peer[h] = c
        PROVE  Good(h, c)'
    <3>1. Talk(h, c) /\ Good(h, c)
      BY <2>2 DEF Talks, ChunkInv, NoOne, Chunks
    <3>2. CASE Still(h, c)
      BY <3>1, <3>2 DEF Still, GivenChunk
    <3>3. ASSUME NEW g \in Chunks, HandlerStep(g), AnsweredBy(g, h)
          PROVE  Good(h, c)'
      <4>1. GivenSalt(h, c)' /\ UNCHANGED chVars
        BY <2>2, <3>3, AnsweredTalk, HandlerFrame
      <4> QED
        BY <3>1, <4>1 DEF GivenSalt, GivenChunk, chVars
    <3>4. CASE HandlerStep(h)
      <4>1. UNCHANGED <<chPc, chunkRead, chSalt>>
        BY <3>4, HandlerFrame DEF chVars
      <4>2. ASSUME GivenChunk(h, c)'
            PROVE  toWorker'[c][1].data = h
        <5>1. chPc[c] = "chunk" /\ toWorker'[c] # <<>>
          BY <4>1, <4>2, OneMessage DEF GivenChunk
        <5>2. CASE SendChunk(h)
          <6>1. toWorker'[c] = <<Message("ENCRYPT_CHUNK", h)>>
            BY <2>2, <5>2, SendsItself
          <6> QED
            BY <6>1 DEF Message
        <5>3. CASE ~SendChunk(h)
          <6>1. ~Accept(h)
            BY <2>2 DEF Connections, Accept, At, NoOne, Chunks
          <6>2. ~AnswerPreviousSalt(h)
            <7>1. AnswerPreviousSalt(h) => AsksSalt(h, c)
              BY <2>2, <3>1, ReadByHandler DEF AnswerPreviousSalt, Gets, At
            <7> QED
              BY <5>1, <7>1 DEF AsksSalt
          <6>3. ~AnswerNext(h)
            BY <3>1, <5>1 DEF AnswerNext, At, Talk, Before, After, Greeted, AsksChunk, AsksSalt, GivenChunk,
               Missed, AwaitsSalt, GivenSalt, SendsSalt, Encrypts, Counted, Counting
          <6>4. toWorker'[c] = toWorker[c]
            BY <3>4, <5>3, <6>1, <6>2, <6>3, HandlerFrame
          <6>5. GivenChunk(h, c)
            BY <3>1, <5>1, <6>4 DEF Talk, Before, After, Greeted, AsksChunk, AsksSalt,
               Missed, AwaitsSalt, GivenSalt, SendsSalt, Encrypts, Counted
          <6> QED
            BY <3>1, <6>4, <6>5
        <5> QED
          BY <5>2, <5>3
      <4> QED
        BY <3>1, <4>1, <4>2
    <3>5. CASE Connect(c)
      BY <2>2, <3>5 DEF Connections, Accepted, Connect, ChunkAt
    <3>6. CASE RequestChunk(c)
      <4>1. toWorker[c] # <<>> /\ chPc'[c] = "chunk" /\ UNCHANGED <<chunkRead, chSalt>>
        BY <1>1, <3>6 DEF RequestChunk, HasReceived, ChunkGoto
      <4>2. toWorker'[c] = <<>>
        <5>1. Tail(toWorker[c]) = <<>>
          BY <3>1, <4>1, ReadByChunk
        <5> QED
          BY <1>1, <3>6, <5>1 DEF RequestChunk, Consume
      <4>3. ~GivenChunk(h, c)'
        BY <4>2, OneMessage DEF GivenChunk
      <4> QED
        BY <3>1, <4>1, <4>3
    <3>7. CASE RequestPreviousSalt(c)
      <4>1. toWorker[c] # <<>> /\ chPc[c] = "chunk" /\ chPc'[c] = "prevSalt" /\ UNCHANGED chSalt
            /\ chunkRead'[c] = Head(toWorker[c]).data
        BY <1>1, <3>7 DEF RequestPreviousSalt, HasReceived, ChunkAt, ChunkGoto, Received
      <4>2. chunkRead'[c] = h
        BY <3>1, <4>1, ReadByChunk DEF Greeted, GivenSalt
      <4> QED
        BY <3>1, <4>1, <4>2 DEF GivenChunk
    <3>8. CASE CombineSalt(c)
      <4>1. chPc[c] = "prevSalt" /\ chPc'[c] = "encrypt" /\ UNCHANGED chunkRead
        BY <1>1, <3>8 DEF CombineSalt, ChunkAt, ChunkGoto
      <4>2. PICK g \in Chunks : peer[g] = c /\ chSalt'[c] = ReferenceSalt(g)
        BY <3>8, CombinesReference
      <4>3. g = h
        BY <2>2, <4>2 DEF Connections, NoOne, Chunks
      <4> QED
        BY <3>1, <4>1, <4>2, <4>3 DEF GivenChunk
    <3>9. CASE EncryptAndWrite(c)
      <4>1. chPc[c] = "encrypt" /\ chPc'[c] = "finished" /\ UNCHANGED <<chunkRead, chSalt>>
        BY <1>1, <3>9 DEF EncryptAndWrite, ChunkAt, ChunkGoto
      <4> QED
        BY <3>1, <4>1 DEF GivenChunk
    <3> QED
      BY <2>2, <3>2, <3>3, <3>4, <3>5, <3>6, <3>7, <3>8, <3>9, PairSteps DEF ChunkStep
  <2> QED
    BY <2>1, <2>2
<1>3. ASSUME NEW h \in Chunks, peer'[h] # NoOne
      PROVE  peer'[h] \in Chunks
  <2>1. CASE Accept(h)
    BY <2>1, PeerKept, Accepting
  <2>2. CASE ~Accept(h)
    BY <1>1, <1>3, <2>2, PeerKept
  <2> QED
    BY <2>1, <2>2
<1>4. Chunks' = Chunks /\ NoOne' = NoOne /\ NoSalt' = NoSalt /\ \A h : ReferenceSalt(h)' = ReferenceSalt(h)
  BY DEF Chunks, NoOne, NoSalt, ReferenceSalt
<1> QED
  BY <1>2, <1>3, <1>4 DEF ChunkInv, GivenChunk

-----------------------------------------------------------------------------
\* The invariant.

\* Salts are set in the order of the chunks.
OrderInv == \A g, h \in Chunks : value[h] # NoSalt /\ g < h => value[g] # NoSalt

LEMMA OrderStep ==
  ASSUME Types, Connections, Talks, SaltInv, OrderInv, [Next]_vars
  PROVE  OrderInv'
<1>1. ASSUME NEW h \in Chunks, value'[h] # NoSalt, NEW g \in Chunks, g < h
      PROVE  value'[g] # NoSalt
  <2>1. value[g] # NoSalt => value'[g] # NoSalt
    BY ValueKept
  <2>2. CASE value[h] # NoSalt
    BY <1>1, <2>1, <2>2 DEF OrderInv
  <2>3. CASE value[h] = NoSalt
    <3>1. SetSalt(h) /\ SendsSalt(h, peer[h]) /\ peer[h] \in Chunks
      BY <1>1, <2>3, ValueKept
    <3>2. h > 0 /\ h - 1 \in Chunks /\ (g = h - 1 \/ g < h - 1)
      BY <1>1, ClusterAssumption DEF Chunks
    <3>3. chSalt[peer[h]] # NoSalt
      BY <3>1 DEF SaltInv, SendsSalt
    <3>4. value[h - 1] # NoSalt
      BY <3>1, <3>2, <3>3 DEF SaltInv, NoOne, Chunks
    <3>5. value[g] # NoSalt
      BY <3>2, <3>4 DEF OrderInv
    <3> QED
      BY <2>1, <3>5
  <2> QED
    BY <2>2, <2>3
<1> QED
  BY <1>1 DEF OrderInv, Chunks, NoSalt

Inv == Types /\ MainInv /\ Connections /\ Talks /\ RequestInv /\ SaltInv /\ OrderInv /\ CountInv
       /\ PageInv /\ ChunkInv

LEMMA InitTypes == FewChunks /\ Init => Types
<1> SUFFICES ASSUME FewChunks, Init
             PROVE  Types
  OBVIOUS
<1>1. chunkCount \in Nat /\ 0 \in 0 .. chunkCount
  BY ClusterAssumption
<1>2. NoSalt \in Seq(Int) /\ <<>> \in Seq(Chunks)
  BY DEF NoSalt
<1>3. min_workers \in 1 .. MAX_WORKERS /\ 0 \in 0 .. min_workers /\ 1 .. MAX_WORKERS \subseteq Int
  BY ClusterAssumption DEF Init
<1>4. cipher \in [Chunks -> [chunk : Int, salt : Seq(Int)]]
  BY <1>2 DEF Init, NoOutput
<1>5. toMaster \in [Chunks -> {toMaster[c] : c \in Chunks}] /\ toWorker \in [Chunks -> {toWorker[c] : c \in Chunks}]
  BY DEF Init
<1>6. /\ mPc \in {"connect", "loop", "page", "create", "construct", "insert", "send", "final",
                  "all", "done"}
      /\ mWait \in {"no", "test", "block", "wait"} /\ i \in 0 .. chunkCount
      /\ workers \in 0 .. min_workers /\ next \in [Workers -> Workers \cup {NoOne}]
      /\ base \in 0 .. chunkCount /\ pageProgress \in Nat /\ progress \in 0 .. chunkCount
      /\ workerHandlers \subseteq Chunks
  BY <1>1, <1>3 DEF Init
<1>7. /\ value \in [Chunks -> Seq(Int)] /\ isRequested \in [Chunks -> BOOLEAN]
      /\ whPc \in [Chunks -> Labels] /\ whConn \in [Chunks -> BOOLEAN]
      /\ peer \in [Chunks -> Chunks \cup {NoOne}] /\ seenProgress \in [Chunks -> Nat]
  BY <1>2 DEF Init, Labels
<1>8. /\ chPc \in [Chunks -> ChunkLabels] /\ chunkRead \in [Chunks -> Int]
      /\ chSalt \in [Chunks -> Seq(Int)] /\ backlog \in Seq(Chunks)
      /\ pageCountMutex \in Chunks \cup {NoOne}
      /\ fault \in {"none", "nullConnection", "noNext", "mapRace", "unmapped"}
  BY <1>2 DEF Init, ChunkLabels
<1> QED
  BY <1>3, <1>4, <1>5, <1>6, <1>7, <1>8 DEF Types, TypeOK

LEMMA InitInv == FewChunks /\ Init => Inv
<1> SUFFICES ASSUME FewChunks, Init
             PROVE  Inv
  OBVIOUS
<1>1. Types
  BY InitTypes
<1>2. /\ mPc = "connect" /\ mWait = "no" /\ i = 0 /\ workers = 0 /\ base = 0
      /\ pageProgress = 0 /\ progress = 0 /\ workerHandlers = {} /\ backlog = <<>>
      /\ min_workers \in 1 .. MAX_WORKERS
      /\ \A c \in Chunks :
           /\ value[c] = NoSalt /\ isRequested[c] = FALSE /\ whPc[c] = "none" /\ peer[c] = NoOne
           /\ chPc[c] = "none" /\ chSalt[c] = NoSalt /\ cipher[c] = NoOutput
           /\ toMaster[c] = <<>> /\ toWorker[c] = <<>>
  BY DEF Init
<1>3. \A c \in Chunks : c >= 0 /\ c # NoOne
  BY DEF Chunks, NoOne
<1>4. MainInv
  <2>1. workers < min_workers /\ ~\E w : w \in 0 .. workers - 1
    BY <1>2, ClusterAssumption
  <2>2. \A h \in Chunks : ~Started(h)
    BY <1>2, <1>3 DEF Started, Chunks
  <2>3. {h \in Chunks : h < i \/ (h = i /\ mPc = "send")} = {}
    BY <1>2, <1>3 DEF Chunks
  <2> QED
    BY <1>2, <1>3, <2>1, <2>2, <2>3 DEF MainInv, Creating, Chunks
<1>5. Connections
  BY <1>2, <1>3 DEF Connections, Accepted, KeepsOwnConnection
<1>6. Talks /\ RequestInv /\ OrderInv /\ ChunkInv
  BY <1>2 DEF Talks, RequestInv, OrderInv, ChunkInv
<1>7. SaltInv
  BY <1>2 DEF SaltInv
<1>8. CountInv
  <2>1. CountedSet = {}
    BY <1>2 DEF CountedSet
  <2> QED
    BY <1>2, <2>1, FS_EmptySet DEF CountInv
<1>9. PageInv
  <2>1. base * pageSize = 0 /\ base # Unmapped
    BY <1>2, ClusterAssumption DEF Unmapped
  <2>2. Cardinality(WrittenOfPage) \in Nat
    <3>1. WrittenOfPage \in SUBSET Chunks
      BY DEF WrittenOfPage
    <3> QED
      BY <3>1, CountedFinite, ClusterAssumption
  <2>3. MappedInv
    BY <1>2 DEF MappedInv, Creating
  <2>4. \A h \in Chunks : ~(h < base * pageSize)
    BY <1>3, <2>1 DEF Chunks
  <2> QED
    BY <1>2, <2>1, <2>2, <2>3, <2>4 DEF PageInv
<1> QED
  BY <1>1, <1>4, <1>5, <1>6, <1>7, <1>8, <1>9 DEF Inv

LEMMA NextInv == Inv /\ [Next]_vars => Inv'
<1> SUFFICES ASSUME Inv, [Next]_vars
             PROVE  Inv'
  OBVIOUS
<1> USE DEF Inv
<1>1. Types' /\ MainInv' /\ Connections'
  BY TypesStep, MainInvStep, ConnectionsStep
<1>2. Talks' /\ RequestInv' /\ SaltInv'
  BY TalksStep, RequestStep, SaltStep
<1>3. OrderInv' /\ CountInv'
  BY OrderStep, CountStep
<1>4. PageInv' /\ ChunkInv'
  BY PageStep, ChunkInvStep
<1> QED
  BY <1>1, <1>2, <1>3, <1>4

LEMMA Invariance == FewChunks => (Spec => []Inv)
  BY InitInv, NextInv, PTL DEF Spec

-----------------------------------------------------------------------------
\* Theorems.

\* Every variable has its type, and no counter passes what it counts: the main
\* thread dispatches no chunk that is not there (JobManager.cpp), and no chunk
\* handler is counted twice.
THEOREM TypeCorrect == FewChunks => (Spec => []TypeOK)
<1>1. Inv => TypeOK
  BY DEF Inv, Types
<1> QED
  BY <1>1, Invariance, PTL

\* A chunk handler, which looks at no flag, gets the message that it waits for and
\* no other, although an answer may come from the handler of another chunk.
THEOREM MessagesAlwaysMatch == FewChunks => (Spec => []MessagesMatch)
<1>1. ASSUME Inv, NEW c \in Chunks, HasReceived(c)
      PROVE  /\ chPc[c] \in DOMAIN Awaited
             /\ Received(c).flag = Awaited[chPc[c]]
             /\ Len(toWorker[c]) = 1
  <2>1. toWorker[c] # <<>>
    BY <1>1 DEF HasReceived
  <2>2. PICK h \in Chunks : peer[h] = c
    BY <1>1, <2>1 DEF Inv, Connections, Accepted
  <2>3. Talk(h, c)
    BY <1>1, <2>2 DEF Inv, Talks, NoOne, Chunks
  <2>4. /\ Len(toWorker[c]) = 1
        /\ \/ chPc[c] = "outputDir" /\ Received(c).flag = "SET_OUTPUT_DIR"
           \/ chPc[c] = "chunk" /\ Received(c).flag = "ENCRYPT_CHUNK"
           \/ chPc[c] = "prevSalt" /\ Received(c).flag = "GET_PREV_SALT_RESP"
    BY <2>1, <2>3, ReadByChunk DEF Greeted, GivenChunk, GivenSalt, Received
  <2> QED
    BY <2>4 DEF Awaited
<1>2. Inv => MessagesMatch
  BY <1>1 DEF MessagesMatch
<1> QED
  BY <1>2, Invariance, PTL

\* The constructor that runs on after it has started the handler's thread never
\* takes from it the connection of its own chunk.
THEOREM KeepsOwn == FewChunks => (Spec => []KeepsOwnConnection)
<1>1. Inv => KeepsOwnConnection
  BY DEF Inv, Connections
<1> QED
  BY <1>1, Invariance, PTL

\* The page that is mapped is the one of every chunk that has not been sent, although
\* the count that main waits for is reset while chunks are being sent and counted.
THEOREM PageStays == FewChunks => (Spec => []PageStaysMapped)
<1>1. ASSUME Inv, NEW h \in Chunks, Unsent(h)
      PROVE  base \in {h \div pageSize, Unmapped}
  BY <1>1, UnsentIsMapped DEF Inv
<1>2. Inv => PageStaysMapped
  BY <1>1 DEF PageStaysMapped
<1> QED
  BY <1>2, Invariance, PTL

LEMMA NextWorker ==
  ASSUME NEW h \in Nat, NEW m \in Nat \ {0}
  PROVE  h % m \in 0 .. m - 1 /\ (h + 1) % m = IF h % m = m - 1 THEN 0 ELSE (h % m) + 1
<1>1. PICK q \in Nat : q = h \div m
  BY Remainders
<1>2. PICK r \in 0 .. m - 1 : r = h % m
  BY Remainders
<1>3. h = q * m + r
  <2>1. h = m * q + r
    BY <1>1, <1>2, Remainders
  <2> QED
    BY <2>1, SMT
<1>4. q * m \in Nat /\ (q + 1) * m = q * m + m
  BY Multiples
<1>5. CASE r = m - 1
  <2>1. h + 1 = (q + 1) * m
    BY <1>3, <1>4, <1>5
  <2>2. q + 1 \in Nat
    OBVIOUS
  <2>3. ((q + 1) * m) % m = 0
    BY <2>2, Multiples
  <2> QED
    BY <1>2, <1>5, <2>1, <2>3
<1>6. CASE r # m - 1
  <2>1. h + 1 \in Nat /\ q * m <= h + 1 /\ h + 1 < q * m + m
    BY <1>3, <1>4, <1>6
  <2>2. h + 1 = q * m + ((h + 1) % m)
    BY <2>1, PageOf
  <2>3. (h + 1) % m \in 0 .. m - 1
    BY <2>1, Remainders
  <2>4. (h + 1) % m = r + 1
    BY <1>3, <1>4, <2>2, <2>3
  <2> QED
    BY <1>2, <1>6, <2>4
<1> QED
  BY <1>5, <1>6

\* Who looks for a request has set its salt, and every handler before it has.
LEMMA EarlierHavePeers ==
  ASSUME Inv, NEW h \in Chunks, whPc[h] = "isRequested", NEW g \in Chunks, g <= h
  PROVE  peer[g] # NoOne
<1>1. PICK c \in Chunks : peer[h] = c
  <2>1. peer \in [Chunks -> Chunks \cup {NoOne}]
    BY DEF Inv, Types, TypeOK
  <2>2. peer[h] # NoOne
    BY DEF Inv, Connections
  <2> QED
    BY <2>1, <2>2
<1>2. Encrypts(h, c) /\ value[h] = chSalt[c]
  <2>1. Talk(h, c)
    BY <1>1 DEF Inv, Talks, NoOne, Chunks
  <2> QED
    BY <2>1 DEF Talk, Before, After, Greeted, AsksChunk, AsksSalt, GivenChunk,
       Missed, AwaitsSalt, GivenSalt, SendsSalt, Counted, Counting
<1>3. value[h] # NoSalt
  BY <1>2 DEF Inv, SaltInv, Encrypts
<1>4. g = h \/ g < h
  BY DEF Chunks
<1>5. value[g] # NoSalt
  BY <1>3, <1>4 DEF Inv, OrderInv
<1> QED
  BY <1>5 DEF Inv, Talks

\* "We know that this->next exists" (WorkerHandler.cpp:131): the handler of the next
\* chunk is in the map of the next worker when a requested salt is to be sent to it,
\* and it is the one find() returns, unless its id has the char 0.
\* It has been created, as it has requested the salt; it has been inserted because
\* the handlers up to it have accepted as many chunk handlers, and one of these is
\* started only after the handler of its chunk has been inserted.
THEOREM NextAlwaysExists == FewChunks => (Spec => []NextExists)
<1>1. ASSUME Inv, NEW h \in Chunks, whPc[h] = "isRequested", isRequested[h]
      PROVE  Constructed(h) /\ Found(h) = {g \in {h + 1} : ChunkId(g) # 0}
  <2>1. h + 1 \in Chunks /\ peer[h + 1] # NoOne
    BY <1>1 DEF Inv, RequestInv
  <2>2. i \in Nat /\ h \in Nat /\ workers \in Nat /\ min_workers \in Nat \ {0} /\ workers <= min_workers
    BY <1>1, MainTypes DEF Inv, Chunks
  <2>3. ASSUME NEW g \in 0 .. h + 1
        PROVE  g \in Chunks /\ peer[g] \in 0 .. i - 1
    <3>1. g \in Chunks /\ (g <= h \/ g = h + 1)
      BY <2>1, <2>2, ClusterAssumption DEF Chunks
    <3>2. peer[g] # NoOne
      BY <1>1, <2>1, <3>1, EarlierHavePeers
    <3>3. peer[g] \in Chunks
      BY <1>1, <3>1, <3>2 DEF Inv, Types, TypeOK
    <3>4. chPc[peer[g]] # "none"
      BY <1>1, <3>1, <3>3 DEF Inv, Connections, Accepted
    <3>5. peer[g] < i
      BY <1>1, <3>3, <3>4 DEF Inv, MainInv
    <3> QED
      BY <2>2, <3>1, <3>3, <3>5 DEF Chunks
  <2>4. h + 2 <= i
    <3> SUFFICES ASSUME i < h + 2
                 PROVE  FALSE
      BY <2>2
    <3> DEFINE f == [g \in 0 .. h + 1 |-> peer[g]]
    <3>1. IsFiniteSet(0 .. h + 1) /\ Cardinality(0 .. h + 1) = h + 2
      <4>1. 0 \in Int /\ h + 1 \in Int /\ ~(0 > h + 1) /\ (h + 1) - 0 + 1 = h + 2
        BY <2>2
      <4> QED
        BY <4>1, FS_Interval
    <3>2. IsFiniteSet(0 .. i - 1) /\ Cardinality(0 .. i - 1) = i
      <4>1. 0 \in Int /\ i - 1 \in Int /\ (0 > i - 1 => i = 0) /\ (i - 1) - 0 + 1 = i
        BY <2>2
      <4> QED
        BY <4>1, FS_Interval
    <3>3. f \in [0 .. h + 1 -> 0 .. i - 1]
      BY <2>3
    <3>4. PICK a, b \in 0 .. h + 1 : a # b /\ f[a] = f[b]
      <4>1. Cardinality(0 .. i - 1) < Cardinality(0 .. h + 1)
        BY <3>1, <3>2
      <4> HIDE DEF f
      <4> QED
        BY <3>1, <3>2, <3>3, <4>1, FS_PigeonHole
    <3>5. peer[a] = peer[b] /\ peer[a] # NoOne /\ a \in Chunks /\ b \in Chunks
      BY <2>2, <2>3, <3>4 DEF NoOne
    <3> QED
      BY <1>1, <3>4, <3>5 DEF Inv, Connections
  <2>5. h + 1 \in workerHandlers /\ ~(mPc = "construct" /\ i = h)
    BY <1>1, <2>1, <2>2, <2>4 DEF Inv, MainInv
  <2>6. workers = min_workers
    BY <1>1, <2>2, <2>4 DEF Inv, MainInv
  <2>7. /\ WorkerOf(h) \in 0 .. min_workers - 1
        /\ WorkerOf(h + 1) = IF WorkerOf(h) = min_workers - 1 THEN 0 ELSE WorkerOf(h) + 1
    BY <2>2, NextWorker DEF WorkerOf
  <2>8. next[WorkerOf(h)] = WorkerOf(h + 1)
    BY <1>1, <2>6, <2>7 DEF Inv, MainInv
  <2>9. ChunkId(h + 1) # 0 => h + 1 \in Found(h)
    BY <2>5, <2>8 DEF Found
  <2>10. \A g \in Found(h) : g = h + 1 /\ ChunkId(g) # 0
    BY <1>1, FoundIsNext DEF Inv, Found
  <2> QED
    BY <2>5, <2>9, <2>10 DEF Constructed
<1>2. Inv => NextExists
  BY <1>1 DEF NextExists
<1> QED
  BY <1>2, Invariance, PTL

\* When as many chunks are counted as there are, every chunk is.
LEMMA AllCounted ==
  ASSUME Inv, progress = chunkCount, NEW h \in Chunks
  PROVE  /\ peer[h] \in Chunks /\ chPc[peer[h]] = "finished"
         /\ value[h] = ReferenceSalt(h) /\ value[h] # NoSalt
<1>1. IsFiniteSet(Chunks) /\ Cardinality(Chunks) = chunkCount
  BY ClusterAssumption, FS_Interval DEF Chunks
<1>2. CountedSet \in SUBSET Chunks
  BY DEF CountedSet
<1>3. Cardinality(Chunks) = Cardinality(CountedSet)
  BY <1>1 DEF Inv, CountInv
<1>4. CountedSet = Chunks
  BY <1>1, <1>2, <1>3, FS_Subset
<1>5. peer[h] # NoOne /\ Counted(h, peer[h])
  BY <1>4 DEF CountedSet
<1>6. PICK c \in Chunks : peer[h] = c
  BY <1>5 DEF Inv, Types, TypeOK
<1>7. chPc[c] = "finished" /\ chSalt[c] # NoSalt
  BY <1>5, <1>6 DEF Inv, SaltInv, Counted
<1>8. value[h] = chSalt[c]
  <2>1. Talk(h, c) /\ Counted(h, c)
    BY <1>5, <1>6 DEF Inv, Talks
  <2> QED
    BY <2>1, OneMessage DEF Talk, Before, Greeted, AsksChunk, AsksSalt, GivenChunk,
       Missed, AwaitsSalt, GivenSalt, SendsSalt, Counted
<1>9. chSalt[c] = ReferenceSalt(h)
  BY <1>5, <1>6, <1>7 DEF Inv, ChunkInv
<1> QED
  BY <1>6, <1>7, <1>8, <1>9

LEMMA DoneStep ==
  ASSUME [Next]_vars
  PROVE  \/ PersistSalts
         \/ /\ UNCHANGED saltsFile
            /\ mPc' = "done" <=> mPc = "done"
<1>1. CASE MainStep
  BY <1>1, MainFrame DEF MainStep, ConnectWorker, StartIteration, EndLoop, TestFails, Block, MapPage,
     UnmapFinalPage, CreateHandler, ConstructHandler, InsertHandler, SendEncryptChunk, Main
<1> QED
  BY <1>1, Steps, HandlerFrame, ChunkFrame DEF Nothing, mainVars

\* The salts file that is written has the salt of every chunk, chained to the one
\* before it: the salts the code would skip as NULL are none (JobManager.cpp).
THEOREM SaltsAreComplete == FewChunks => (Spec => []SaltsComplete)
<1>1. Init => SaltsComplete
  BY DEF Init, SaltsComplete
<1>2. ASSUME Inv, SaltsComplete, [Next]_vars
      PROVE  SaltsComplete'
  <2>1. CASE PersistSalts
    <3>1. mPc = "all" /\ progress = chunkCount
      BY <2>1 DEF PersistSalts, Main, Predicate
    <3>2. \A h \in Chunks : value[h] = ReferenceSalt(h) /\ value[h] # NoSalt
      BY <1>2, <3>1, AllCounted
    <3>3. {d \in Chunks : value[d] # NoSalt} = Chunks
      BY <3>2
    <3>4. saltsFile' = [c \in Chunks |-> value[c]]
      BY <2>1, <3>3 DEF PersistSalts
    <3>5. saltsFile' = [c \in Chunks |-> ReferenceSalt(c)]
      BY <3>2, <3>4
    <3> QED
      BY <3>5 DEF SaltsComplete, Chunks, ReferenceSalt
  <2>2. CASE UNCHANGED saltsFile /\ (mPc' = "done" <=> mPc = "done")
    BY <1>2, <2>2 DEF SaltsComplete, Chunks, ReferenceSalt
  <2> QED
    BY <1>2, <2>1, <2>2, DoneStep
<1>3. Inv /\ SaltsComplete /\ [Next]_vars => SaltsComplete'
  BY <1>2
<1> QED
  BY <1>1, <1>3, Invariance, PTL DEF Spec

-----------------------------------------------------------------------------
\* The refinement.

\* The operators of the instance are those of this module.
LEMMA SameData ==
  /\ Chain!Chunks = Chunks /\ Chain!NoSalt = NoSalt /\ Chain!NoOutput = NoOutput
  /\ Chain!IV = IV /\ \A c, s : Chain!Combine(c, s) = Combine(c, s)
  BY DEF Chain!Chunks, Chunks, Chain!NoSalt, NoSalt, Chain!NoOutput, NoOutput,
     Chain!IV, IV, Chain!Combine, Combine

salts == OfChunk(chSalt, NoSalt)
output == OfChunk(cipher, NoOutput)
finished == mPc = "done"

LEMMA ChainValues ==
  ASSUME NEW h \in Chunks
  PROVE  /\ salts[h] = IF peer[h] = NoOne THEN NoSalt ELSE chSalt[peer[h]]
         /\ output[h] = IF peer[h] = NoOne THEN NoOutput ELSE cipher[peer[h]]
         /\ salts'[h] = IF peer'[h] = NoOne THEN NoSalt ELSE chSalt'[peer'[h]]
         /\ output'[h] = IF peer'[h] = NoOne THEN NoOutput ELSE cipher'[peer'[h]]
  BY DEF salts, output, OfChunk, Chunks, NoOne, NoSalt, NoOutput

LEMMA ChainFunctions ==
  /\ salts = [h \in Chunks |-> salts[h]] /\ output = [h \in Chunks |-> output[h]]
  /\ salts' = [h \in Chunks |-> salts'[h]] /\ output' = [h \in Chunks |-> output'[h]]
  BY DEF salts, output, OfChunk, Chunks

LEMMA Publishes ==
  ASSUME Inv, NEW c \in Chunks, CombineSalt(c)
  PROVE  \E h \in Chunks : Chain!Publish(h, h)
<1>1. PICK h \in Chunks :
        /\ peer[h] = c /\ PreviousSalt(h) # NoSalt
        /\ h > 0 => h - 1 \in Chunks /\ peer[h - 1] # NoOne /\ value[h - 1] = chSalt[peer[h - 1]]
        /\ chSalt' = [chSalt EXCEPT ![c] = Combine(h, PreviousSalt(h))]
  BY CombinesReference DEF Inv
<1>2. chPc[c] = "prevSalt" /\ UNCHANGED <<peer, cipher, mPc>> /\ c # NoOne
  BY DEF CombineSalt, ChunkAt, mainVars, NoOne, Chunks
<1>3. DOMAIN chSalt = Chunks /\ chSalt[c] = NoSalt
  BY <1>2 DEF Inv, Types, TypeOK, SaltInv
<1>4. salts[h] = NoSalt /\ salts'[h] = Combine(h, PreviousSalt(h))
  BY <1>1, <1>2, <1>3, ChainValues
<1>5. ASSUME NEW g \in Chunks, g # h
      PROVE  salts'[g] = salts[g]
  <2>1. peer[g] = NoOne \/ peer[g] # c
    BY <1>1, <1>2, <1>5 DEF Inv, Connections
  <2>2. peer[g] = NoOne \/ peer[g] \in Chunks
    BY DEF Inv, Types, TypeOK
  <2> QED
    BY <1>1, <1>2, <1>3, <2>1, <2>2, ChainValues
<1>6. h > 0 => salts[h - 1] = value[h - 1]
  BY <1>1, ChainValues
<1>7. PreviousSalt(h) = IF h = 0 THEN IV ELSE salts[h - 1]
  BY <1>6 DEF PreviousSalt, Chunks
<1>8. h > 0 => salts[h - 1] # NoSalt
  BY <1>1, <1>6 DEF PreviousSalt, Chunks
<1>9. salts' = [salts EXCEPT ![h] = Combine(h, IF h = 0 THEN IV ELSE salts[h - 1])]
  BY <1>4, <1>5, <1>7, ChainFunctions
<1>10. output' = output
  <2>1. \A g \in Chunks : output'[g] = output[g]
    BY <1>2, ChainValues
  <2> QED
    BY <2>1, ChainFunctions
<1> QED
  BY <1>2, <1>4, <1>8, <1>9, <1>10, SameData DEF Chain!Publish, salts, output

LEMMA Encrypting ==
  ASSUME Inv, NEW c \in Chunks, EncryptAndWrite(c)
  PROVE  \E h \in Chunks : Chain!Encrypt(h, h)
<1>1. /\ chPc[c] = "encrypt" /\ UNCHANGED <<peer, chSalt, mPc>> /\ c # NoOne
      /\ cipher' = [cipher EXCEPT ![c] = [chunk |-> chunkRead[c], salt |-> chSalt[c]]]
  <2>1. Types
    BY DEF Inv
  <2>2. cipher' = [cipher EXCEPT ![c] = [chunk |-> chunkRead[c], salt |-> chSalt[c]]]
    BY <2>1, WritesOwnFile
  <2>3. chPc[c] = "encrypt" /\ UNCHANGED <<peer, chSalt>> /\ UNCHANGED mainVars
    BY DEF EncryptAndWrite, ChunkAt
  <2>4. mPc' = mPc
    BY <2>3 DEF mainVars
  <2>5. c # NoOne
    BY DEF NoOne, Chunks
  <2> QED
    BY <2>2, <2>3, <2>4, <2>5
<1>2. PICK h \in Chunks : peer[h] = c
  BY <1>1 DEF Inv, Connections, Accepted
<1>3. chunkRead[c] = h /\ chSalt[c] = ReferenceSalt(h) /\ chSalt[c] # NoSalt /\ cipher[c] = NoOutput
  BY <1>1, <1>2 DEF Inv, SaltInv, ChunkInv
<1>4. DOMAIN cipher = Chunks
  BY DEF Inv, Types, TypeOK
<1>5. /\ salts[h] = chSalt[c] /\ output[h] = NoOutput
      /\ output'[h] = [chunk |-> h, salt |-> salts[h]]
  BY <1>1, <1>2, <1>3, <1>4, ChainValues
<1>6. salts[h][Len(salts[h])] = h
  <2>1. h \in Nat
    BY DEF Chunks
  <2> QED
    BY <1>3, <1>5, <2>1, Reference
<1>7. ASSUME NEW g \in Chunks, g # h
      PROVE  output'[g] = output[g]
  <2>1. peer[g] = NoOne \/ peer[g] # c
    BY <1>1, <1>2, <1>7 DEF Inv, Connections
  <2>2. peer[g] = NoOne \/ peer[g] \in Chunks
    BY DEF Inv, Types, TypeOK
  <2> QED
    BY <1>1, <1>4, <2>1, <2>2, ChainValues
<1>8. output' = [output EXCEPT ![h] = [chunk |-> h, salt |-> salts[h]]]
  BY <1>5, <1>7, ChainFunctions
<1>9. salts' = salts
  <2>1. \A g \in Chunks : salts'[g] = salts[g]
    BY <1>1, ChainValues
  <2> QED
    BY <2>1, ChainFunctions
<1> QED
  BY <1>1, <1>3, <1>5, <1>6, <1>8, <1>9, SameData DEF Chain!Encrypt, salts, output

LEMMA Finishes ==
  ASSUME Inv, PersistSalts
  PROVE  Chain!Finish
<1>1. mPc = "all" /\ mPc' = "done" /\ progress = chunkCount /\ UNCHANGED <<peer, chSalt, cipher>>
  BY DEF PersistSalts, Main, Predicate, chVars
<1>2. ASSUME NEW h \in Chunks
      PROVE  output[h] # NoOutput
  <2>1. PICK c \in Chunks : peer[h] = c /\ chPc[c] = "finished"
    BY <1>1, AllCounted
  <2>2. cipher[c] = [chunk |-> h, salt |-> chSalt[c]]
    <3>1. cipher[c] = [chunk |-> chunkRead[c], salt |-> chSalt[c]]
      BY <2>1 DEF Inv, SaltInv
    <3>2. chunkRead[c] = h
      BY <2>1 DEF Inv, ChunkInv, NoOne, Chunks
    <3> QED
      BY <3>1, <3>2
  <2>3. output[h].chunk = h /\ h # -1
    BY <2>1, <2>2, ChainValues DEF NoOne, Chunks
  <2> QED
    BY <2>3 DEF NoOutput
<1>3. salts' = salts /\ output' = output
  <2>1. \A g \in Chunks : salts'[g] = salts[g] /\ output'[g] = output[g]
    BY <1>1, ChainValues
  <2> QED
    BY <2>1, ChainFunctions
<1> QED
  BY <1>1, <1>2, <1>3, SameData DEF Chain!Finish, salts, output

\* A handler that accepts a chunk handler gets nothing that has been hashed or written.
LEMMA AcceptsNothing ==
  ASSUME Inv, NEW h \in Chunks, Accept(h)
  PROVE  salts' = salts /\ output' = output
<1>1. PICK c \in Chunks : c = Head(backlog) /\ chPc[c] = "outputDir"
  BY Accepting DEF Inv
<1>2. peer' = [peer EXCEPT ![h] = c] /\ peer[h] = NoOne
  BY <1>1, Accepting DEF Inv
<1>3. UNCHANGED <<chSalt, cipher>> /\ c # NoOne
  BY DEF Accept, chVars, NoOne, Chunks
<1>4. chSalt[c] = NoSalt /\ cipher[c] = NoOutput /\ DOMAIN peer = Chunks
  BY <1>1 DEF Inv, SaltInv, Types, TypeOK
<1>5. ASSUME NEW g \in Chunks
      PROVE  salts'[g] = salts[g] /\ output'[g] = output[g]
  BY <1>2, <1>3, <1>4, ChainValues
<1> QED
  BY <1>5, ChainFunctions

LEMMA ChainStep ==
  ASSUME Inv, [Next]_vars
  PROVE  [Chain!Next]_<<salts, output, finished>>
<1>1. ASSUME NEW c \in Chunks, CombineSalt(c)
      PROVE  Chain!Next
  BY <1>1, Publishes, SameData DEF Chain!Next
<1>2. ASSUME NEW c \in Chunks, EncryptAndWrite(c)
      PROVE  Chain!Next
  BY <1>2, Encrypting, SameData DEF Chain!Next
<1>3. CASE PersistSalts
  BY <1>3, Finishes DEF Chain!Next
<1>4. ASSUME NEW h \in Chunks, Accept(h), ~PersistSalts
      PROVE  UNCHANGED <<salts, output, finished>>
  BY <1>4, AcceptsNothing, DoneStep DEF finished
<1>5. ASSUME UNCHANGED <<chSalt, cipher, peer>>, ~PersistSalts
      PROVE  UNCHANGED <<salts, output, finished>>
  <2>1. \A g \in Chunks : salts'[g] = salts[g] /\ output'[g] = output[g]
    BY <1>5, ChainValues
  <2>2. finished' = finished
    BY <1>5, DoneStep DEF finished
  <2> QED
    BY <2>1, <2>2, ChainFunctions
<1>6. \/ UNCHANGED <<chSalt, cipher, peer>>
      \/ \E c \in Chunks : Accept(c) \/ CombineSalt(c) \/ EncryptAndWrite(c)
  BY Steps, MainFrame, HandlerFrame, ChunkFrame DEF Nothing, chVars
<1> QED
  BY <1>1, <1>2, <1>3, <1>4, <1>5, <1>6

\* The distributed job chains every chunk's salt to the one before it and encrypts
\* every chunk with its own salt before it finishes, whichever chunk handler serves it.
THEOREM ClusterImplementsChain == FewChunks => (Spec => ImplementsChain)
<1>1. Init => Chain!Init
  <2> SUFFICES ASSUME Init
               PROVE  Chain!Init
    OBVIOUS
  <2>1. \A c \in Chunks : peer[c] = NoOne
    BY DEF Init
  <2>2. salts = [c \in Chunks |-> NoSalt] /\ output = [c \in Chunks |-> NoOutput] /\ ~finished
    BY <2>1 DEF Init, salts, output, finished, OfChunk
  <2> QED
    BY <2>2, SameData DEF Chain!Init, salts, output, finished
<1>2. Inv /\ [Next]_vars => [Chain!Next]_<<OfChunk(chSalt, NoSalt), OfChunk(cipher, NoOutput), mPc = "done">>
  BY ChainStep DEF salts, output, finished
<1> QED
  BY <1>1, <1>2, Invariance, PTL DEF Spec, ImplementsChain, Chain!Spec
=============================================================================
