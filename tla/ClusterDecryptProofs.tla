------------------------- MODULE ClusterDecryptProofs -------------------------
(***************************************************************************)
(* Theorems about ClusterDecrypt, for every number of workers and chunks   *)
(* and every width of a char.                                              *)
(***************************************************************************)
EXTENDS ClusterDecrypt, DcbcBytesProofs, FiniteSetTheorems

N == main.chunkCount
Saved == 0 .. savedCount - 1

-----------------------------------------------------------------------------
\* The inductive invariant.

\* TypeOK without the bounds on what is counted.
MainLabels == {"connect", "loop", "construct", "test", "block", "blocked", "closed", "done"}
Labels == {"none", "accept", "recv", "count", "notify", "write"}
ChunkLabels == {"none", "connect", "outputDir", "finished"}
MainState == [pc : MainLabels, i : Nat, chunkCount : Int]
HandlerState == [pc : Labels, conn : BOOLEAN, peer : Chunks \cup {NoOne}]
ChunkState == [pc : ChunkLabels, worker : Workers \cup {NoOne}]
Faults == {"none", "nullConnection", "unknownWorker", "badDelete"}
Content == [chunk : Chunks \cup {-1}, intact : BOOLEAN]

Types ==
  /\ main \in MainState
  /\ ids \in Seq([worker : Workers, junk : Junk])
  /\ wh \in [Chunks -> HandlerState]
  /\ ch \in [Chunks -> ChunkState]
  /\ backlog \in Seq(Chunks)
  /\ toMaster = [c \in Chunks |-> toMaster[c]]
  /\ toWorker = [c \in Chunks |-> toWorker[c]]
  /\ progress \in Nat
  /\ savedCount \in 0 .. MAX_CHUNKS
  /\ maps = [c \in Saved |-> [worker |-> c % min_workers, junk |-> 0]]
  /\ cipher \in [Saved -> Saved]
  /\ salts \in [Chunks -> Chunks \cup {NoOne}]
  /\ position \in 0 .. MAX_CHUNKS
  /\ outputFile \in [Chunks -> Content]
  /\ outputFileMutex \in Chunks \cup {NoOne}
  /\ fault \in Faults

\* What main has dispatched lies within the salts file.
Dispatched ==
  /\ N = LoadedCount(SavedCount(savedCount)) /\ N <= savedCount
  /\ Len(ids) <= min_workers
  /\ main.pc = "connect" => main.i = 0 /\ Len(ids) < min_workers
  /\ main.i <= N \/ main.i = 0
  /\ main.pc = "construct" => main.i < N
  /\ main.pc \in {"test", "block", "blocked", "closed", "done"} => main.i >= N
  /\ \A h \in Chunks : wh[h].pc # "none" => h < main.i \/ (h = main.i /\ main.pc = "construct")
  /\ \A c \in Chunks : ch[c].pc # "none" => c < main.i /\ salts[c] = c

\* Every chunk handler waits in the backlog, or has been accepted, by one handler.
Connections ==
  /\ \A c, d \in Saved : cipher[c] = cipher[d] => c = d
  /\ \A h \in Chunks : wh[h].peer = NoOne <=> wh[h].pc \in {"none", "accept"}
  /\ \A g, h \in Chunks : wh[g].peer = wh[h].peer /\ wh[g].peer # NoOne => g = h
  /\ \A h \in Chunks : wh[h].peer # NoOne => ch[wh[h].peer].pc \in {"outputDir", "finished"}
  /\ \A j, k \in 1 .. Len(backlog) : backlog[j] = backlog[k] => j = k
  /\ \A j \in 1 .. Len(backlog) :
       /\ ch[backlog[j]].pc = "outputDir" /\ toWorker[backlog[j]] = <<>>
       /\ \A h \in Chunks : wh[h].peer # backlog[j]

\* A chunk handler sends one message, and its clear text in it.
ClearText(c) == [flag |-> "SET_CHUNK", data |-> Decrypted(c)]
Messages ==
  /\ \A c \in Chunks : ch[c].pc \in {"none", "connect"} => toWorker[c] = <<>>
  /\ \A c \in Chunks : ch[c].pc # "finished" => toMaster[c] = <<>>
  /\ \A c \in Chunks : toMaster[c] # <<>> => toMaster[c] = <<ClearText(c)>>

\* A chunk is written once, by the handler that holds the file, at its place.
Written(h) == outputFile[h] # Nothing
Output ==
  /\ \A h \in Chunks : Written(h) =>
       /\ wh[h].pc \in {"recv", "count", "notify"}
       /\ ch[wh[h].peer].pc = "finished" /\ toMaster[wh[h].peer] = <<>>
       /\ outputFile[h] = Decrypted(wh[h].peer)
  /\ \A h \in Chunks : wh[h].pc \in {"count", "notify"} => Written(h)
  /\ \A h \in Chunks : wh[h].pc = "write" =>
       /\ outputFileMutex = h /\ position = h
       /\ ch[wh[h].peer].pc = "finished" /\ toMaster[wh[h].peer] # <<>>

\* progress counts what was written, but for what is about to be counted.
Counted == {h \in Chunks : Written(h) /\ wh[h].pc # "count"}
Counts == /\ progress = Cardinality(Counted)
          /\ main.pc \in {"closed", "done"} => AllDone

IInv == Types /\ Dispatched /\ Connections /\ Messages /\ Output /\ Counts

-----------------------------------------------------------------------------
\* What each kind of step leaves alone.

LEMMA Frames ==
  ASSUME Next
  PROVE  \/ \E w \in Workers, junk \in Junk : ConnectWorker(w, junk) /\ UNCHANGED <<salts, fileVars>>
         \/ CreateHandler /\ UNCHANGED <<salts, fileVars>>
         \/ DecryptChunk /\ UNCHANGED fileVars
         \/ (EndLoop \/ TestFails \/ Block \/ CloseOutput \/ DeleteClearText) /\ UNCHANGED <<salts, fileVars>>
         \/ fault' \in Faults /\ UNCHANGED <<main, ids, maps, progress, wh, ch, net, salts, fileVars>>
         \/ \E h \in Chunks :
              \/ (Accept(h) \/ CountChunk(h) \/ NotifyAll(h)) /\ UNCHANGED <<salts, fileVars>>
              \/ (Seek(h) \/ Write(h)) /\ UNCHANGED salts
              \/ (Connect(h) \/ SendClearText(h)) /\ UNCHANGED <<salts, fileVars>>
BY DEF Next, JobManager, WorkerHandler, ChunkHandler, JobManagerWait, HandlerStep, UnknownWorker,
     NullConnection, Fault, Faults

LEMMA Constant ==
  ASSUME Next, main \in MainState
  PROVE  UNCHANGED <<savedCount, cipher, maps>> /\ N' = N
<1>1. UNCHANGED <<savedCount, cipher>>
  BY DEF Next, JobManager, WorkerHandler, ChunkHandler
<1>2. UNCHANGED maps
  BY Frames DEF ConnectWorker, CreateHandler, DecryptChunk, EndLoop, TestFails, Block,
     CloseOutput, DeleteClearText, Accept, CountChunk, NotifyAll, Seek, Write, Connect,
     SendClearText, ConstructAndSend, Reply
<1>3. N' = N
  BY Frames DEF N, MainState, ConnectWorker, CreateHandler, DecryptChunk, EndLoop, TestFails, Block,
     CloseOutput, DeleteClearText, Accept, CountChunk, NotifyAll, Seek, Write, Connect,
     SendClearText, ConstructAndSend, Reply
<1> QED BY <1>1, <1>2, <1>3

\* A handler, or main, goes to another label.
Moves(h, label) ==
  /\ wh' \in [Chunks -> HandlerState]
  /\ wh'[h].pc = label /\ wh'[h].peer = wh[h].peer
  /\ \A g \in Chunks \ {h} : wh'[g] = wh[g]
MainMoves(label) == main' \in MainState /\ main'.pc = label /\ main'.i = main.i

LEMMA GotoMoves ==
  ASSUME Types, NEW h \in Chunks, NEW label \in Labels, Goto(h, label)
  PROVE  Moves(h, label)
BY DEF Types, Goto, Moves, HandlerState

LEMMA MainGoto ==
  ASSUME Types, NEW label \in MainLabels, main' = [main EXCEPT !.pc = label]
  PROVE  MainMoves(label)
BY DEF Types, MainMoves, MainState

LEMMA CurrentChunk ==
  ASSUME Types, Dispatched, main.i < N
  PROVE  main.i \in Saved /\ main.i \in Chunks /\ Saved \subseteq Chunks
BY JobAssumption DEF Types, Dispatched, MainState, N, Saved, Chunks

-----------------------------------------------------------------------------
\* The main thread's steps preserve the invariant.

\* Main goes to another label, and nothing else changes.
LEMMA MainStep ==
  ASSUME IInv, NEW label \in MainLabels, MainMoves(label), N' = N,
         UNCHANGED <<ids, maps, progress, wh, ch, net, savedCount, cipher, salts, fileVars, fault>>,
         main.pc \notin {"connect", "construct"}, label \notin {"connect", "construct", "loop"},
         main.i >= N, label \in {"closed", "done"} => AllDone
  PROVE  IInv'
<1>1. UNCHANGED <<ids, maps, progress, wh, ch, backlog, toMaster, toWorker, savedCount, cipher, salts,
                  position, outputFile, outputFileMutex, fault, Saved>>
  BY DEF net, fileVars, Saved
<1>2. Types'
  BY <1>1 DEF IInv, Types, MainMoves
<1>3. Dispatched'
  BY <1>1 DEF IInv, Dispatched, MainMoves
<1>4. Connections'
  BY <1>1 DEF IInv, Connections
<1>5. Messages'
  BY <1>1 DEF IInv, Messages, ClearText, Decrypted
<1>6. Output'
  BY <1>1 DEF IInv, Output, Written, Decrypted
<1>7. Counts'
  BY <1>1 DEF IInv, Counts, Counted, Written, MainMoves, AllDone, N
<1> QED BY <1>2, <1>3, <1>4, <1>5, <1>6, <1>7 DEF IInv

LEMMA ConnectWorkerStep ==
  ASSUME IInv, NEW w \in Workers, NEW junk \in Junk, ConnectWorker(w, junk), N' = N,
         UNCHANGED <<savedCount, cipher, salts, fileVars>>
  PROVE  IInv'
<1>1. UNCHANGED <<maps, progress, wh, ch, backlog, toMaster, toWorker, savedCount, cipher, salts,
                  position, outputFile, outputFileMutex, fault, Saved>>
  BY DEF ConnectWorker, net, fileVars, Saved
<1>2. /\ ids' \in Seq([worker : Workers, junk : Junk]) /\ Len(ids') = Len(ids) + 1
      /\ Len(ids) \in Nat
  BY DEF IInv, Types, ConnectWorker
<1>3. /\ main.pc = "connect" /\ main' \in MainState /\ main'.i = main.i
      /\ main'.pc = IF Len(ids') = min_workers THEN "loop" ELSE "connect"
  BY DEF IInv, Types, ConnectWorker, Main, MainState, MainLabels
<1>4. Types'
  BY <1>1, <1>2, <1>3 DEF IInv, Types
<1>5. Dispatched'
  BY <1>1, <1>2, <1>3, JobAssumption DEF IInv, Dispatched
<1>6. Connections'
  BY <1>1 DEF IInv, Connections
<1>7. Messages'
  BY <1>1 DEF IInv, Messages, ClearText, Decrypted
<1>8. Output'
  BY <1>1 DEF IInv, Output, Written, Decrypted
<1>9. Counts'
  BY <1>1, <1>3 DEF IInv, Counts, Counted, Written
<1> QED BY <1>4, <1>5, <1>6, <1>7, <1>8, <1>9 DEF IInv

\* The new handler has accepted nobody yet.
LEMMA CreateHandlerStep ==
  ASSUME IInv, CreateHandler, N' = N, UNCHANGED <<savedCount, cipher, salts, fileVars>>
  PROVE  IInv'
<1>1. UNCHANGED <<ids, maps, progress, ch, backlog, toMaster, toWorker, savedCount, cipher, salts,
                  position, outputFile, outputFileMutex, fault, Saved>>
  BY DEF CreateHandler, net, fileVars, Saved
<1>2. main.pc = "loop" /\ main.i < N /\ MainMoves("construct")
  BY MainGoto DEF IInv, CreateHandler, Main, MainLabels, N
<1>3. main.i \in Chunks
  BY <1>2, CurrentChunk DEF IInv
<1>4. Moves(main.i, "accept")
  BY <1>3, GotoMoves DEF IInv, CreateHandler, Labels
<1>5. wh[main.i].pc = "none" /\ wh[main.i].peer = NoOne
  BY <1>2, <1>3 DEF IInv, Dispatched, Connections, Types, MainState
<1>6. Types'
  BY <1>1, <1>2, <1>4 DEF IInv, Types, Moves, MainMoves
<1>7. Dispatched'
  BY <1>1, <1>2, <1>4 DEF IInv, Types, MainState, Dispatched, Moves, MainMoves, Chunks
<1>8. Connections'
  BY <1>1, <1>3, <1>4, <1>5 DEF IInv, Connections, Moves
<1>9. Messages'
  BY <1>1 DEF IInv, Messages, ClearText, Decrypted
<1>10. Output'
  BY <1>1, <1>3, <1>4, <1>5 DEF IInv, Output, Written, Decrypted, Moves
<1>11. Counted' = Counted
  BY <1>1, <1>3, <1>4, <1>5 DEF Counted, Written, Moves
<1>12. Counts'
  BY <1>1, <1>2, <1>11 DEF IInv, Counts, MainMoves
<1> QED BY <1>6, <1>7, <1>8, <1>9, <1>10, <1>12 DEF IInv

\* The new chunk handler has sent nothing, so its salt may still change.
LEMMA DecryptChunkStep ==
  ASSUME IInv, DecryptChunk, N' = N, UNCHANGED <<savedCount, cipher, fileVars>>
  PROVE  IInv'
<1>1. UNCHANGED <<ids, maps, progress, backlog, toMaster, toWorker, savedCount, cipher,
                  position, outputFile, outputFileMutex, fault, Saved>>
  BY DEF DecryptChunk, ConstructAndSend, net, fileVars, Saved
<1>2. /\ main.pc = "construct" /\ main.i < N /\ main.i \in Nat
      /\ main' \in MainState /\ main'.pc = "loop" /\ main'.i = main.i + 1
  <2>1. main.pc = "construct" /\ main' = [main EXCEPT !.pc = "loop", !.i = @ + 1]
    BY DEF DecryptChunk, ConstructAndSend, Main
  <2>2. main.i < N /\ main.i \in Nat
    BY <2>1 DEF IInv, Types, Dispatched, MainState
  <2>3. main' \in MainState /\ main'.pc = "loop" /\ main'.i = main.i + 1
    <3> DEFINE m == [main EXCEPT !.pc = "loop"]
    <3>1. m \in MainState /\ m.pc = "loop" /\ m.i = main.i
      BY DEF IInv, Types, MainState, MainLabels
    <3>2. main' = [m EXCEPT !.i = main.i + 1]
      BY <2>1
    <3> HIDE DEF m
    <3> QED BY <2>2, <3>1, <3>2 DEF MainState
  <2> QED BY <2>1, <2>2, <2>3
<1>3. main.i \in Saved /\ main.i \in Chunks
  BY <1>2, CurrentChunk DEF IInv
<1>4. Moves(main.i, wh[main.i].pc)
  BY <1>3 DEF IInv, Types, HandlerState, DecryptChunk, ConstructAndSend, Moves
<1>5. Line(main.i).worker \in Workers
  <2>1. main.i \in DOMAIN maps /\ maps[main.i].worker = main.i % min_workers
    BY <1>3 DEF IInv, Types
  <2>2. main.i % min_workers \in Workers
    BY <1>2, JobAssumption DEF Workers
  <2> QED BY <2>1, <2>2 DEF Line
<1>6. /\ ch' \in [Chunks -> ChunkState] /\ ch'[main.i].pc = "connect"
      /\ \A c \in Chunks \ {main.i} : ch'[c] = ch[c]
  BY <1>3, <1>5 DEF IInv, Types, DecryptChunk, ConstructAndSend, ChunkState, ChunkLabels
<1>7. /\ salts' \in [Chunks -> Chunks \cup {NoOne}] /\ salts'[main.i] = main.i
      /\ \A c \in Chunks \ {main.i} : salts'[c] = salts[c]
  BY <1>3 DEF IInv, Types, DecryptChunk
<1>8. ch[main.i].pc = "none" /\ toWorker[main.i] = <<>> /\ toMaster[main.i] = <<>>
  BY <1>2, <1>3 DEF IInv, Dispatched, Messages
<1>9. \A c \in Chunks \ {main.i} : Decrypted(c)' = Decrypted(c)
  BY <1>1, <1>7 DEF Decrypted
<1>10. \A h \in Chunks : wh[h].peer \in Chunks \cup {NoOne} /\ wh[h].peer # main.i
  <2>1. \A h \in Chunks : wh[h].peer \in Chunks \cup {NoOne}
    BY DEF IInv, Types, HandlerState
  <2>2. \A h \in Chunks : wh[h].peer # NoOne => ch[wh[h].peer].pc # "none"
    BY DEF IInv, Connections
  <2>3. main.i # NoOne
    BY <1>2 DEF NoOne
  <2> QED BY <1>8, <2>1, <2>2, <2>3
<1>11. \A h \in Chunks : wh'[h].pc = wh[h].pc /\ wh'[h].peer = wh[h].peer
  BY <1>3, <1>4 DEF Moves
<1>12. Types'
  BY <1>1, <1>2, <1>4, <1>6, <1>7 DEF IInv, Types, Moves
<1>13. Dispatched'
  <2>1. N \in Int /\ \A h \in Chunks : h \in Nat
    BY DEF IInv, Types, MainState, N, Chunks
  <2>2. \A h \in Chunks : wh'[h].pc # "none" => h < main'.i
    BY <1>2, <1>11, <2>1 DEF IInv, Dispatched
  <2>3. \A c \in Chunks : ch'[c].pc # "none" => c < main'.i /\ salts'[c] = c
    BY <1>2, <1>6, <1>7, <2>1 DEF IInv, Dispatched
  <2> QED BY <1>1, <1>2, <2>1, <2>2, <2>3 DEF IInv, Dispatched
<1>14. Connections'
  <2>1. \A j \in 1 .. Len(backlog) : backlog[j] \in Chunks \ {main.i}
    BY <1>8 DEF IInv, Types, Connections
  <2> QED BY <1>1, <1>6, <1>10, <1>11, <2>1 DEF IInv, Connections, NoOne, Chunks
<1>15. Messages'
  BY <1>1, <1>6, <1>8, <1>9 DEF IInv, Messages, ClearText
<1>16. \A h \in Chunks : Written(h) => wh[h].peer \in Chunks \ {main.i}
  BY <1>10 DEF IInv, Output, Connections
<1>17. Output'
  BY <1>1, <1>6, <1>8, <1>9, <1>10, <1>11, <1>16 DEF IInv, Output, Written, Connections
<1>18. Counted' = Counted
  BY <1>1, <1>11 DEF Counted, Written
<1>19. Counts'
  BY <1>1, <1>2, <1>18 DEF IInv, Counts
<1> QED BY <1>12, <1>13, <1>14, <1>15, <1>17, <1>19 DEF IInv

LEMMA FaultStep ==
  ASSUME IInv, fault' \in Faults, N' = N,
         UNCHANGED <<main, ids, maps, progress, wh, ch, net, savedCount, cipher, salts, fileVars>>
  PROVE  IInv'
<1>1. UNCHANGED <<main, ids, maps, progress, wh, ch, backlog, toMaster, toWorker, savedCount, cipher,
                  salts, position, outputFile, outputFileMutex, Saved>>
  BY DEF net, fileVars, Saved
<1> QED BY <1>1 DEF IInv, Types, Dispatched, Connections, Messages, ClearText, Decrypted, Output,
         Written, Counts, Counted, AllDone, N

-----------------------------------------------------------------------------
\* So do the handlers'.

\* The accepted chunk handler leaves the backlog, where it was only once.
LEMMA AcceptStep ==
  ASSUME IInv, NEW h \in Chunks, Accept(h), N' = N, UNCHANGED <<savedCount, cipher, salts, fileVars>>
  PROVE  IInv'
<1> DEFINE p == Head(backlog)
<1>1. UNCHANGED <<main, ids, maps, progress, ch, toMaster, savedCount, cipher, salts,
                  position, outputFile, outputFileMutex, fault, Saved>>
  BY DEF Accept, fileVars, Saved
<1>2. /\ Len(backlog) \in Nat \ {0} /\ p \in Chunks /\ p = backlog[1]
      /\ backlog' \in Seq(Chunks) /\ Len(backlog') = Len(backlog) - 1
      /\ \A j \in 1 .. Len(backlog') : backlog'[j] = backlog[j + 1]
  BY DEF IInv, Types, Accept
<1>3. /\ wh[h].pc = "accept" /\ wh[h].peer = NoOne
      /\ wh' \in [Chunks -> HandlerState] /\ wh'[h].pc = "recv" /\ wh'[h].peer = p
      /\ \A g \in Chunks \ {h} : wh'[g] = wh[g]
  BY <1>2 DEF IInv, Types, Connections, Accept, At, HandlerState, Labels
<1>4. ch[p].pc = "outputDir" /\ \A g \in Chunks : wh[g].peer # p
  BY <1>2 DEF IInv, Connections
<1>5. /\ toWorker' = [c \in Chunks |-> toWorker'[c]]
      /\ \A c \in Chunks \ {p} : toWorker'[c] = toWorker[c]
  BY <1>2, <1>3 DEF IInv, Types, Accept, Answer
<1>6. \A j \in 1 .. Len(backlog') : backlog'[j] # p
  BY <1>2 DEF IInv, Connections
<1>7. Types'
  BY <1>1, <1>2, <1>3, <1>5 DEF IInv, Types
<1>8. Dispatched'
  BY <1>1, <1>3 DEF IInv, Dispatched
<1>9. Connections'
  <2> HIDE DEF p
  <2>1. \A j, k \in 1 .. Len(backlog') : backlog'[j] = backlog'[k] => j = k
    BY <1>2 DEF IInv, Connections
  <2>2. \A j \in 1 .. Len(backlog') : backlog'[j] \in Chunks
    BY <1>2
  <2>3. \A j \in 1 .. Len(backlog') :
          /\ ch[backlog'[j]].pc = "outputDir" /\ toWorker[backlog'[j]] = <<>>
          /\ \A g \in Chunks : wh[g].peer # backlog'[j]
    BY <1>2 DEF IInv, Connections
  <2>4. \A j \in 1 .. Len(backlog') :
          /\ ch'[backlog'[j]].pc = "outputDir" /\ toWorker'[backlog'[j]] = <<>>
          /\ \A g \in Chunks : wh'[g].peer # backlog'[j]
    BY <1>1, <1>3, <1>5, <1>6, <2>2, <2>3
  <2>5. \A g \in Chunks : wh'[g].peer # NoOne => ch'[wh'[g].peer].pc \in {"outputDir", "finished"}
    BY <1>1, <1>3, <1>4 DEF IInv, Connections
  <2>6. \A g, k \in Chunks : wh'[g].peer = wh'[k].peer /\ wh'[g].peer # NoOne => g = k
    BY <1>3, <1>4 DEF IInv, Connections
  <2>7. \A g \in Chunks : wh'[g].peer = NoOne <=> wh'[g].pc \in {"none", "accept"}
    BY <1>2, <1>3 DEF IInv, Connections, NoOne, Chunks
  <2> QED BY <1>1, <2>1, <2>4, <2>5, <2>6, <2>7 DEF IInv, Connections
<1>10. Messages'
  BY <1>1, <1>4, <1>5 DEF IInv, Messages, ClearText, Decrypted
<1>11. Output'
  <2>1. \A g \in Chunks : Written(g)' = Written(g)
    BY <1>1 DEF Written
  <2>2. ~Written(h)
    BY <1>3 DEF IInv, Output
  <2>3. \A g \in Chunks \ {h} : (outputFile[g] = Decrypted(wh[g].peer))' <=> outputFile[g] = Decrypted(wh[g].peer)
    BY <1>1, <1>3 DEF Decrypted
  <2> QED BY <1>1, <1>3, <2>1, <2>2, <2>3 DEF IInv, Output
<1>12. Counted' = Counted
  BY <1>1, <1>3 DEF Counted, Written
<1>13. Counts'
  BY <1>1, <1>12 DEF IInv, Counts, AllDone
<1> QED BY <1>7, <1>8, <1>9, <1>10, <1>11, <1>13 DEF IInv

\* Only chunks of the job are counted; all of them when main finds the job done.
LEMMA CountedChunks ==
  ASSUME IInv
  PROVE  /\ Counted \subseteq 0 .. N - 1 /\ IsFiniteSet(Counted)
         /\ progress \in 0 .. MAX_CHUNKS
         /\ AllDone => Counted = 0 .. N - 1
<1>1. N \in Int /\ N <= MAX_CHUNKS /\ progress = Cardinality(Counted)
  BY JobAssumption DEF IInv, Types, Dispatched, Counts, MainState, N
<1>2. ASSUME NEW h \in Counted PROVE h \in 0 .. N - 1
  <2>1. h \in Chunks /\ wh[h].pc # "none"
    BY DEF IInv, Output, Counted
  <2>2. h < main.i \/ (h = main.i /\ main.i < N)
    BY <2>1 DEF IInv, Dispatched
  <2> QED BY <2>1, <2>2, <1>1 DEF IInv, Types, Dispatched, MainState, Chunks
<1>3. IsFiniteSet(0 .. N - 1) /\ Cardinality(0 .. N - 1) = IF 0 > N - 1 THEN 0 ELSE N
  BY <1>1, FS_Interval
<1>4. /\ IsFiniteSet(Counted) /\ Cardinality(Counted) <= Cardinality(0 .. N - 1)
      /\ Cardinality(0 .. N - 1) = Cardinality(Counted) => 0 .. N - 1 = Counted
  BY <1>2, <1>3, FS_Subset
<1>5. Cardinality(Counted) \in Nat
  BY <1>4, FS_CardinalityType
<1> QED BY <1>1, <1>2, <1>3, <1>4, <1>5, JobAssumption DEF AllDone, N

LEMMA CountChunkStep ==
  ASSUME IInv, NEW h \in Chunks, CountChunk(h), N' = N,
         UNCHANGED <<savedCount, cipher, salts, fileVars>>
  PROVE  IInv'
<1>1. UNCHANGED <<main, ids, maps, ch, backlog, toMaster, toWorker, savedCount, cipher, salts,
                  position, outputFile, outputFileMutex, fault, Saved>>
  BY DEF CountChunk, net, fileVars, Saved
<1>2. wh[h].pc = "count" /\ Written(h) /\ progress' = progress + 1
  BY DEF IInv, Output, CountChunk, At
<1>3. Moves(h, "notify")
  BY GotoMoves DEF IInv, CountChunk, Labels
<1>4. Types'
  BY <1>1, <1>2, <1>3 DEF IInv, Types, Moves
<1>5. Dispatched'
  BY <1>1, <1>2, <1>3 DEF IInv, Dispatched, Moves
<1>6. Connections'
  BY <1>1, <1>2, <1>3 DEF IInv, Connections, Moves
<1>7. Messages'
  BY <1>1 DEF IInv, Messages, ClearText, Decrypted
<1>8. Output'
  BY <1>1, <1>2, <1>3 DEF IInv, Output, Written, Decrypted, Moves
<1>9. h \notin Counted /\ Counted' = Counted \cup {h}
  BY <1>1, <1>2, <1>3 DEF Counted, Written, Moves
<1>10. progress' = Cardinality(Counted')
  BY <1>2, <1>9, CountedChunks, FS_AddElement DEF IInv, Counts
<1>11. ~AllDone
  <2>1. h < main.i \/ (h = main.i /\ main.i < N)
    BY <1>2 DEF IInv, Dispatched
  <2>2. h \in 0 .. N - 1
    BY <2>1 DEF IInv, Types, Dispatched, MainState, Chunks, N
  <2> QED BY <1>9, <2>2, CountedChunks
<1>12. Counts'
  BY <1>1, <1>10, <1>11 DEF IInv, Counts
<1> QED BY <1>4, <1>5, <1>6, <1>7, <1>8, <1>12 DEF IInv

LEMMA NotifyAllStep ==
  ASSUME IInv, NEW h \in Chunks, NotifyAll(h), N' = N,
         UNCHANGED <<savedCount, cipher, salts, fileVars>>
  PROVE  IInv'
<1>1. UNCHANGED <<ids, maps, progress, ch, backlog, toMaster, toWorker, savedCount, cipher, salts,
                  position, outputFile, outputFileMutex, fault, Saved>>
  BY DEF NotifyAll, net, fileVars, Saved
<1>2. wh[h].pc = "notify" /\ Moves(h, "recv")
  BY GotoMoves DEF IInv, NotifyAll, At, Labels
<1>3. main' = main \/ (main.pc = "blocked" /\ MainMoves("test"))
  BY MainGoto DEF IInv, NotifyAll, MainLabels
<1>4. Types'
  BY <1>1, <1>2, <1>3 DEF IInv, Types, Moves, MainMoves
<1>5. Dispatched'
  BY <1>1, <1>2, <1>3 DEF IInv, Dispatched, Moves, MainMoves
<1>6. Connections'
  BY <1>1, <1>2 DEF IInv, Connections, Moves
<1>7. Messages'
  BY <1>1 DEF IInv, Messages, ClearText, Decrypted
<1>8. Output'
  BY <1>1, <1>2 DEF IInv, Output, Written, Decrypted, Moves
<1>9. Counted' = Counted
  BY <1>1, <1>2 DEF Counted, Written, Moves
<1>10. Counts'
  BY <1>1, <1>3, <1>9 DEF IInv, Counts, AllDone, MainMoves, N
<1> QED BY <1>4, <1>5, <1>6, <1>7, <1>8, <1>10 DEF IInv

\* A handler that is past accept() has accepted a chunk handler.
LEMMA HasPeer ==
  ASSUME Types, Connections, NEW h \in Chunks, wh[h].pc \in {"recv", "count", "notify", "write"}
  PROVE  wh[h].peer \in Chunks
<1>1. wh[h].peer \in Chunks \cup {NoOne}
  BY DEF Types, HandlerState
<1>2. wh[h].peer # NoOne
  BY DEF Connections
<1> QED BY <1>1, <1>2

\* Nobody else is writing, and the handler has not written yet.
LEMMA SeekStep ==
  ASSUME IInv, NEW h \in Chunks, Seek(h), N' = N, UNCHANGED <<savedCount, cipher, salts>>
  PROVE  IInv'
<1>1. /\ UNCHANGED <<main, ids, maps, progress, ch, backlog, toMaster, toWorker, savedCount, cipher,
                     salts, outputFile, fault, Saved>>
      /\ outputFileMutex = NoOne /\ outputFileMutex' = h /\ position' = h
  BY DEF Seek, net, Saved
<1>2. wh[h].pc = "recv" /\ toMaster[wh[h].peer] # <<>> /\ Moves(h, "write")
  BY GotoMoves DEF IInv, Seek, Gets, At, Labels
<1>3. wh[h].peer \in Chunks /\ ~Written(h)
  <2>1. wh[h].peer \in Chunks
    BY <1>2, HasPeer DEF IInv
  <2>2. ~Written(h)
    BY <1>2 DEF IInv, Output
  <2> QED BY <2>1, <2>2
<1>4. ch[wh[h].peer].pc = "finished"
  BY <1>2, <1>3 DEF IInv, Messages
<1>5. \A g \in Chunks : wh[g].pc # "write" /\ h # NoOne
  BY <1>1 DEF IInv, Output, NoOne, Chunks
<1>6. Types'
  BY <1>1, <1>2, JobAssumption DEF IInv, Types, Moves, Chunks
<1>7. Dispatched'
  BY <1>1, <1>2 DEF IInv, Dispatched, Moves
<1>8. Connections'
  BY <1>1, <1>2 DEF IInv, Connections, Moves
<1>9. Messages'
  BY <1>1 DEF IInv, Messages, ClearText, Decrypted
<1>10. Output'
  BY <1>1, <1>2, <1>3, <1>4, <1>5 DEF IInv, Output, Written, Decrypted, Moves
<1>11. Counted' = Counted
  BY <1>1, <1>2 DEF Counted, Written, Moves
<1>12. Counts'
  BY <1>1, <1>11 DEF IInv, Counts, AllDone
<1> QED BY <1>6, <1>7, <1>8, <1>9, <1>10, <1>12 DEF IInv

\* What a handler writes: the clear text of the chunk handler it accepted, at its
\* own place, which was empty.
LEMMA Writes ==
  ASSUME IInv, NEW h \in Chunks, Write(h)
  PROVE  /\ wh[h].pc = "write" /\ wh[h].peer \in Saved /\ ~Written(h)
         /\ h \in 0 .. N - 1
         /\ Message(h) = ClearText(wh[h].peer)
         /\ Decrypted(wh[h].peer) \in Content /\ cipher[wh[h].peer] \in Saved
         /\ outputFile' = [outputFile EXCEPT ![h] = Decrypted(wh[h].peer)]
         /\ toMaster' = [toMaster EXCEPT ![wh[h].peer] = <<>>]
<1>1. /\ wh[h].pc = "write" /\ position = h /\ toMaster[wh[h].peer] # <<>>
      /\ ch[wh[h].peer].pc = "finished"
  BY DEF IInv, Output, Write, At
<1>2. wh[h].peer \in Chunks /\ ~Written(h)
  <2>1. wh[h].peer \in Chunks
    BY <1>1, HasPeer DEF IInv
  <2>2. ~Written(h)
    BY <1>1 DEF IInv, Output
  <2> QED BY <2>1, <2>2
<1>3. h < N /\ h \in Nat /\ wh[h].peer < main.i
  BY <1>1, <1>2 DEF IInv, Dispatched, Types, MainState, N, Chunks
<1>4. wh[h].peer \in Saved /\ Saved \subseteq Chunks
  BY <1>2, <1>3, JobAssumption DEF IInv, Dispatched, Types, MainState, N, Chunks, Saved
<1>5. toMaster[wh[h].peer] = <<ClearText(wh[h].peer)>>
  BY <1>1, <1>2 DEF IInv, Messages
<1>6. Message(h) = ClearText(wh[h].peer) /\ Tail(toMaster[wh[h].peer]) = <<>>
  BY <1>5 DEF Message
<1>7. cipher[wh[h].peer] \in Saved
  BY <1>4 DEF IInv, Types
<1>8. Decrypted(wh[h].peer) \in Content
  BY <1>4, <1>7 DEF Decrypted, Content
<1>9. outputFile' = [outputFile EXCEPT ![h] = Decrypted(wh[h].peer)]
  BY <1>1, <1>6 DEF Write, ClearText
<1>10. toMaster' = [toMaster EXCEPT ![wh[h].peer] = <<>>]
  BY <1>6 DEF Write, Read
<1> QED BY <1>1, <1>2, <1>3, <1>4, <1>6, <1>7, <1>8, <1>9, <1>10 DEF IInv, Types, MainState, N

LEMMA WriteStep ==
  ASSUME IInv, NEW h \in Chunks, Write(h), N' = N, UNCHANGED <<savedCount, cipher, salts>>
  PROVE  IInv'
<1> DEFINE p == wh[h].peer
<1>1. /\ UNCHANGED <<main, ids, maps, progress, ch, backlog, toWorker, savedCount, cipher, salts, fault, Saved>>
      /\ outputFileMutex' = NoOne /\ position' = h + 1
  BY DEF IInv, Output, Write, At, Saved
<1>2. wh[h].pc = "write" /\ ~Written(h) /\ Moves(h, "count")
  BY Writes, GotoMoves DEF IInv, Write, Labels
<1>3. /\ p \in Chunks /\ toMaster' = [c \in Chunks |-> toMaster'[c]] /\ toMaster'[p] = <<>>
      /\ \A c \in Chunks \ {p} : toMaster'[c] = toMaster[c]
  <2>1. p \in Saved /\ toMaster' = [toMaster EXCEPT ![p] = <<>>]
    BY Writes
  <2>2. p \in Chunks
    BY <2>1, JobAssumption DEF IInv, Types, Saved, Chunks
  <2>3. toMaster = [c \in Chunks |-> toMaster[c]]
    BY DEF IInv, Types
  <2> HIDE DEF p
  <2> QED BY <2>1, <2>2, <2>3
<1>4. /\ outputFile' \in [Chunks -> Content] /\ outputFile'[h] = Decrypted(p)
      /\ \A g \in Chunks \ {h} : outputFile'[g] = outputFile[g]
  BY Writes DEF IInv, Types
<1>5. Decrypted(p) # Nothing /\ ch[p].pc = "finished"
  BY Writes DEF IInv, Output, Decrypted, Nothing, Saved
<1>6. \A g \in Chunks : wh[g].pc = "write" => g = h
  BY Writes DEF IInv, Output
<1>7. Types'
  BY <1>1, <1>2, <1>3, <1>4, JobAssumption DEF IInv, Types, Moves, Chunks
<1>8. Dispatched'
  BY <1>1, <1>2 DEF IInv, Dispatched, Moves
<1>9. Connections'
  BY <1>1, <1>2 DEF IInv, Connections, Moves
<1>10. Messages'
  BY <1>1, <1>3, <1>5 DEF IInv, Messages, ClearText, Decrypted
<1>11. Output'
  <2>1. \A g \in Chunks \ {h} : Written(g)' <=> Written(g)
    BY <1>4 DEF Written
  <2>2. Written(h)' /\ wh'[h].pc = "count" /\ wh'[h].peer = p
    BY <1>2, <1>4, <1>5 DEF Written, Moves
  <2>3. \A g \in Chunks \ {h} : wh'[g] = wh[g]
    BY <1>2 DEF Moves
  <2>4. \A c \in Chunks : Decrypted(c)' = Decrypted(c)
    BY <1>1 DEF Decrypted
  <2>5. ASSUME NEW g \in Chunks, Written(g)'
        PROVE  /\ wh'[g].pc \in {"recv", "count", "notify"}
               /\ ch'[wh'[g].peer].pc = "finished" /\ toMaster'[wh'[g].peer] = <<>>
               /\ (outputFile[g] = Decrypted(wh[g].peer))'
    <3>1. CASE g = h
      BY <1>1, <1>3, <1>4, <1>5, <2>2, <3>1 DEF Decrypted
    <3>2. CASE g # h
      <4>1. Written(g) /\ wh'[g] = wh[g] /\ outputFile'[g] = outputFile[g]
        BY <1>4, <2>1, <2>3, <2>5, <3>2
      <4>2. /\ wh[g].pc \in {"recv", "count", "notify"}
            /\ ch[wh[g].peer].pc = "finished" /\ toMaster[wh[g].peer] = <<>>
            /\ outputFile[g] = Decrypted(wh[g].peer)
        BY <4>1 DEF IInv, Output
      <4>3. wh[g].peer \in Chunks
        BY <4>2, HasPeer DEF IInv
      <4> QED BY <1>1, <1>3, <4>1, <4>2, <4>3 DEF Decrypted
    <3> QED BY <3>1, <3>2
  <2>6. \A g \in Chunks : wh'[g].pc \in {"count", "notify"} => Written(g)'
    BY <2>1, <2>2, <2>3 DEF IInv, Output
  <2>7. \A g \in Chunks : wh'[g].pc # "write"
    BY <1>6, <2>2, <2>3
  <2> QED BY <2>5, <2>6, <2>7 DEF Output
<1>12. Counted' = Counted
  BY <1>2, <1>4 DEF Counted, Written, Moves
<1>13. Counts'
  BY <1>1, <1>12 DEF IInv, Counts, AllDone
<1> QED BY <1>7, <1>8, <1>9, <1>10, <1>11, <1>13 DEF IInv

LEMMA ConnectStep ==
  ASSUME IInv, NEW c \in Chunks, Connect(c), N' = N,
         UNCHANGED <<savedCount, cipher, salts, fileVars>>
  PROVE  IInv'
<1>1. UNCHANGED <<main, ids, maps, progress, wh, toMaster, toWorker, savedCount, cipher, salts,
                  position, outputFile, outputFileMutex, fault, Saved>>
  BY DEF Connect, fileVars, Saved
<1>2. /\ ch[c].pc = "connect"
      /\ ch' \in [Chunks -> ChunkState] /\ ch'[c].pc = "outputDir"
      /\ \A d \in Chunks \ {c} : ch'[d] = ch[d]
  BY DEF IInv, Types, Connect, ChunkAt, ChunkGoto, ChunkState, ChunkLabels
<1>3. /\ backlog' \in Seq(Chunks) /\ Len(backlog') = Len(backlog) + 1 /\ Len(backlog) \in Nat
      /\ backlog'[Len(backlog) + 1] = c
      /\ \A j \in 1 .. Len(backlog) : backlog'[j] = backlog[j]
  BY DEF IInv, Types, Connect
<1>4. toWorker[c] = <<>>
  BY <1>2 DEF IInv, Messages
<1>5. /\ \A h \in Chunks : wh[h].peer # c
      /\ \A j \in 1 .. Len(backlog) : backlog[j] \in Chunks \ {c}
  <2>1. \A j \in 1 .. Len(backlog) : backlog[j] \in Chunks
    BY DEF IInv, Types
  <2> QED BY <1>2, <2>1 DEF IInv, Connections, NoOne, Chunks
<1>6. Types'
  BY <1>1, <1>2, <1>3 DEF IInv, Types
<1>7. Dispatched'
  BY <1>1, <1>2 DEF IInv, Dispatched
<1>8. Connections'
  <2>1. \A j, k \in 1 .. Len(backlog') : backlog'[j] = backlog'[k] => j = k
    BY <1>3, <1>5 DEF IInv, Connections
  <2>2. \A j \in 1 .. Len(backlog') :
          /\ ch'[backlog'[j]].pc = "outputDir" /\ toWorker[backlog'[j]] = <<>>
          /\ \A h \in Chunks : wh[h].peer # backlog'[j]
    BY <1>2, <1>3, <1>4, <1>5 DEF IInv, Connections
  <2>3. \A h \in Chunks : wh[h].peer # NoOne => ch'[wh[h].peer].pc \in {"outputDir", "finished"}
    BY <1>2, <1>5 DEF IInv, Types, HandlerState, Connections
  <2> QED BY <1>1, <2>1, <2>2, <2>3 DEF IInv, Connections
<1>9. Messages'
  BY <1>1, <1>2 DEF IInv, Messages, ClearText, Decrypted
<1>10. Output'
  <2>1. \A h \in Chunks : wh[h].pc # "none" /\ wh[h].peer # NoOne => wh[h].peer \in Chunks \ {c}
    BY <1>5 DEF IInv, Types, HandlerState
  <2>2. \A h \in Chunks : Written(h) \/ wh[h].pc = "write" => wh[h].peer \in Chunks \ {c}
    BY <2>1 DEF IInv, Output, Connections
  <2> QED BY <1>1, <1>2, <2>2 DEF IInv, Output, Written, Decrypted
<1>11. Counts'
  BY <1>1 DEF IInv, Counts, Counted, Written, AllDone
<1> QED BY <1>6, <1>7, <1>8, <1>9, <1>10, <1>11 DEF IInv

LEMMA SendClearTextStep ==
  ASSUME IInv, NEW c \in Chunks, SendClearText(c), N' = N,
         UNCHANGED <<savedCount, cipher, salts, fileVars>>
  PROVE  IInv'
<1>1. UNCHANGED <<main, ids, maps, progress, wh, backlog, savedCount, cipher, salts,
                  position, outputFile, outputFileMutex, fault, Saved>>
  BY DEF SendClearText, Reply, fileVars, Saved
<1>2. /\ ch[c].pc = "outputDir" /\ toWorker[c] # <<>>
      /\ ch' \in [Chunks -> ChunkState] /\ ch'[c].pc = "finished"
      /\ \A d \in Chunks \ {c} : ch'[d] = ch[d]
  BY DEF IInv, Types, SendClearText, HasReceived, ChunkAt, Reply, ChunkGoto, ChunkState, ChunkLabels
<1>3. /\ toWorker' = [d \in Chunks |-> toWorker'[d]]
      /\ \A d \in Chunks \ {c} : toWorker'[d] = toWorker[d]
  BY DEF IInv, Types, SendClearText, Reply
<1>4. toMaster[c] = <<>>
  BY <1>2 DEF IInv, Messages
<1>5. toMaster' = [toMaster EXCEPT ![c] = <<ClearText(c)>>]
  BY <1>4 DEF SendClearText, Reply, Send, ClearText, Decrypted
<1>6. /\ toMaster' = [d \in Chunks |-> toMaster'[d]] /\ toMaster'[c] = <<ClearText(c)>>
      /\ \A d \in Chunks \ {c} : toMaster'[d] = toMaster[d]
  BY <1>5 DEF IInv, Types
<1>7. \A j \in 1 .. Len(backlog) : backlog[j] \in Chunks \ {c}
  BY <1>2 DEF IInv, Types, Connections
<1>8. Types'
  BY <1>1, <1>2, <1>3, <1>6 DEF IInv, Types
<1>9. Dispatched'
  BY <1>1, <1>2 DEF IInv, Dispatched
<1>10. \A h \in Chunks : wh[h].peer # NoOne => wh[h].peer \in Chunks
  BY DEF IInv, Types, HandlerState
<1>11. Connections'
  BY <1>1, <1>2, <1>3, <1>7, <1>10 DEF IInv, Connections
<1>12. Messages'
  BY <1>1, <1>2, <1>3, <1>6 DEF IInv, Messages, ClearText, Decrypted
<1>13. \A h \in Chunks : Written(h) \/ wh[h].pc = "write" => wh[h].peer \in Chunks \ {c}
  BY <1>2, <1>10 DEF IInv, Output, Connections
<1>14. Output'
  BY <1>1, <1>2, <1>6, <1>13 DEF IInv, Output, Written, Decrypted
<1>15. Counts'
  BY <1>1 DEF IInv, Counts, Counted, Written, AllDone
<1> QED BY <1>8, <1>9, <1>11, <1>12, <1>14, <1>15 DEF IInv

-----------------------------------------------------------------------------
\* The invariant holds.

LEMMA InitIInv == Init => IInv
<1> SUFFICES ASSUME Init PROVE IInv
  OBVIOUS
<1> USE DEF Init, JobInit, Started
<1>1. savedCount \in Nat /\ N = LoadedCount(SavedCount(savedCount))
  BY JobAssumption DEF N
<1>2. N \in Int /\ N <= savedCount
  BY <1>1, LoadsNoMore
<1>3. /\ wh = [c \in Chunks |-> [pc |-> "none", conn |-> FALSE, peer |-> NoOne]]
      /\ ch = [c \in Chunks |-> [pc |-> "none", worker |-> NoOne]]
      /\ outputFile = [c \in Chunks |-> Nothing]
  OBVIOUS
<1>4. Types
  <2>1. main \in MainState
    BY <1>2 DEF MainState, MainLabels, N
  <2>2. wh \in [Chunks -> HandlerState] /\ ch \in [Chunks -> ChunkState]
    BY <1>3 DEF HandlerState, ChunkState, Labels, ChunkLabels
  <2>3. outputFile \in [Chunks -> Content]
    BY <1>3 DEF Nothing, Content
  <2>4. toMaster = [c \in Chunks |-> toMaster[c]] /\ toWorker = [c \in Chunks |-> toWorker[c]]
    OBVIOUS
  <2>5. cipher \in [Saved -> Saved] /\ maps = [c \in Saved |-> [worker |-> c % min_workers, junk |-> 0]]
    BY DEF Saved
  <2>6. ids \in Seq([worker : Workers, junk : Junk]) /\ backlog \in Seq(Chunks)
    OBVIOUS
  <2>7. progress \in Nat /\ savedCount \in 0 .. MAX_CHUNKS /\ position \in 0 .. MAX_CHUNKS
    BY JobAssumption
  <2>8. /\ salts \in [Chunks -> Chunks \cup {NoOne}] /\ outputFileMutex \in Chunks \cup {NoOne}
        /\ fault \in Faults
    BY DEF Faults
  <2> USE <2>1, <2>2, <2>3, <2>4, <2>5, <2>6, <2>7, <2>8
  <2> HIDE DEF Init, JobInit, Started
  <2> QED BY DEF Types
<1>5. Dispatched
  BY <1>1, <1>2, <1>3, JobAssumption DEF Dispatched
<1>6. Connections
  BY <1>3 DEF Connections, Saved
<1>7. Messages
  BY DEF Messages
<1>8. Output
  BY <1>3 DEF Output, Written
<1>9. Counted = {}
  BY <1>3 DEF Counted, Written
<1>10. Counts
  BY <1>9, FS_EmptySet DEF Counts
<1> QED BY <1>4, <1>5, <1>6, <1>7, <1>8, <1>10 DEF IInv

LEMMA NextIInv == IInv /\ [Next]_vars => IInv'
<1> SUFFICES ASSUME IInv, [Next]_vars PROVE IInv'
  OBVIOUS
<1>1. CASE UNCHANGED vars
  BY <1>1, FaultStep DEF vars, jobVars, N, IInv, Types
<1>2. CASE Next
  <2>1. UNCHANGED <<savedCount, cipher, maps>> /\ N' = N
    BY <1>2, Constant DEF IInv, Types
  <2>2. CASE EndLoop /\ UNCHANGED <<salts, fileVars>>
    BY <2>1, <2>2, MainGoto, MainStep DEF EndLoop, LoopEnds, Main, IInv, MainLabels, N
  <2>3. CASE (TestFails \/ Block \/ CloseOutput) /\ UNCHANGED <<salts, fileVars>>
    BY <2>1, <2>3, MainGoto, MainStep DEF TestFails, Block, CloseOutput, Main, IInv, Dispatched, MainLabels
  <2>4. CASE DeleteClearText /\ UNCHANGED <<salts, fileVars>>
    <3>1. CASE fault' = "badDelete" /\ UNCHANGED main
      <4>1. fault' \in Faults
        BY <3>1 DEF Faults
      <4>2. UNCHANGED <<main, ids, maps, progress, wh, ch, net, savedCount, cipher, salts, fileVars>>
        BY <2>1, <2>4, <3>1 DEF DeleteClearText
      <4> QED BY <2>1, <4>1, <4>2, FaultStep
    <3>2. CASE main' = [main EXCEPT !.pc = "done"] /\ UNCHANGED fault
      BY <2>1, <2>4, <3>2, MainGoto, MainStep
      DEF DeleteClearText, Main, IInv, Dispatched, Counts, MainLabels
    <3> QED BY <2>4, <3>1, <3>2 DEF DeleteClearText
  <2>5. ASSUME NEW w \in Workers, NEW junk \in Junk, ConnectWorker(w, junk), UNCHANGED <<salts, fileVars>>
        PROVE  IInv'
    BY <2>1, <2>5, ConnectWorkerStep
  <2>6. CASE CreateHandler /\ UNCHANGED <<salts, fileVars>>
    BY <2>1, <2>6, CreateHandlerStep
  <2>7. CASE DecryptChunk /\ UNCHANGED fileVars
    BY <2>1, <2>7, DecryptChunkStep
  <2>8. CASE fault' \in Faults /\ UNCHANGED <<main, ids, maps, progress, wh, ch, net, salts, fileVars>>
    BY <2>1, <2>8, FaultStep
  <2>9. ASSUME NEW h \in Chunks,
               \/ (Accept(h) \/ CountChunk(h) \/ NotifyAll(h)) /\ UNCHANGED <<salts, fileVars>>
               \/ (Seek(h) \/ Write(h)) /\ UNCHANGED salts
        PROVE  IInv'
    BY <2>1, <2>9, AcceptStep, CountChunkStep, NotifyAllStep, SeekStep, WriteStep
  <2>10. ASSUME NEW c \in Chunks, (Connect(c) \/ SendClearText(c)) /\ UNCHANGED <<salts, fileVars>>
         PROVE  IInv'
    BY <2>1, <2>10, ConnectStep, SendClearTextStep
  <2> QED BY <1>2, <2>2, <2>3, <2>4, <2>5, <2>6, <2>7, <2>8, <2>9, <2>10, Frames
<1> QED BY <1>1, <1>2

LEMMA Invariance == Spec => []IInv
BY InitIInv, NextIInv, PTL DEF Spec

-----------------------------------------------------------------------------
\* Theorems

\* Every variable keeps its type; the place where main's loop stands, the count of
\* chunks done and the ids of the workers stay within their bounds.
THEOREM TypeCorrect == Spec => []TypeOK
<1>1. IInv => TypeOK
  <2> SUFFICES ASSUME IInv PROVE TypeOK
    OBVIOUS
  <2>1. main \in [pc : MainLabels, i : 0 .. MAX_CHUNKS, chunkCount : Int]
    BY JobAssumption DEF IInv, Types, Dispatched, MainState, N
  <2>2. ids \in Seq([worker : Workers, junk : Junk]) /\ Len(ids) <= min_workers
    BY DEF IInv, Types, Dispatched
  <2>3. progress \in 0 .. MAX_CHUNKS
    BY CountedChunks
  <2>4. /\ wh \in [Chunks -> [pc : {"none", "accept", "recv", "count", "notify"} \cup {"write"},
                             conn : BOOLEAN, peer : Chunks \cup {NoOne}]]
        /\ ch \in [Chunks -> [pc : {"none", "connect", "outputDir", "finished"} \cup {},
                             worker : Workers \cup {NoOne}]]
    <3>1. /\ Labels = {"none", "accept", "recv", "count", "notify"} \cup {"write"}
          /\ ChunkLabels = {"none", "connect", "outputDir", "finished"} \cup {}
      BY DEF Labels, ChunkLabels
    <3> QED BY <3>1 DEF IInv, Types, HandlerState, ChunkState
  <2>5. backlog \in Seq(Chunks)
    BY DEF IInv, Types
  <2>6. JobTypeOK({"write"}, {})
    BY <2>1, <2>2, <2>3, <2>4, <2>5 DEF JobTypeOK, MainLabels
  <2>7. fault \in {"none", "nullConnection", "unknownWorker", "badDelete"}
    BY DEF IInv, Types, Faults
  <2> QED BY <2>6, <2>7 DEF IInv, Types, TypeOK, Content
<1> QED BY <1>1, Invariance, PTL

\* No more chunks are decrypted than were saved, and all of them when their number
\* fits in half a char (loadSalts, JobManager::Decrypt).
THEOREM CountIsLoaded == Spec => []CountLoaded
<1>1. IInv => CountLoaded
  BY CountSurvives, JobAssumption DEF IInv, Types, Dispatched, CountLoaded, N
<1> QED BY <1>1, Invariance, PTL

\* A handler that accepted its own chunk handler writes its own chunk intact, with
\* the salt it was encrypted with, whatever the others do.
THEOREM OwnPlaceIsIntact == Spec => []OwnPlaceIntact
<1>1. IInv => OwnPlaceIntact
  <2> SUFFICES ASSUME IInv, NEW h \in Chunks, wh[h].peer = h, Written(h), cipher[h] = h
               PROVE  outputFile[h] = [chunk |-> h, intact |-> TRUE]
    BY DEF OwnPlaceIntact, Written
  <2>1. outputFile[h] = Decrypted(h) /\ ch[h].pc = "finished"
    BY DEF IInv, Output
  <2>2. salts[h] = cipher[h]
    BY <2>1 DEF IInv, Dispatched
  <2>3. (salts[h] = cipher[h]) = TRUE
    BY <2>2, Zenon
  <2>4. Decrypted(h) = [chunk |-> h, intact |-> TRUE]
    BY <2>3, Zenon DEF Decrypted
  <2> QED BY <2>1, <2>4
<1> QED BY <1>1, Invariance, PTL

\* The chunk in a place of the output file.
LEMMA Contents ==
  ASSUME IInv, NEW h \in Chunks
  PROVE  /\ Written(h) => /\ wh[h].peer \in Saved /\ cipher[wh[h].peer] \in Saved
                          /\ outputFile[h].chunk = cipher[wh[h].peer]
         /\ ~Written(h) => outputFile[h].chunk = -1
<1>1. CASE Written(h)
  <2>1. outputFile[h] = Decrypted(wh[h].peer) /\ wh[h].peer # NoOne /\ ch[wh[h].peer].pc = "finished"
    BY <1>1 DEF IInv, Output, Connections
  <2>2. wh[h].peer \in Chunks
    BY <2>1 DEF IInv, Types, HandlerState
  <2>3. wh[h].peer < main.i /\ main.i <= savedCount
    BY <2>1, <2>2 DEF IInv, Dispatched, Types, MainState, N, Chunks
  <2>4. wh[h].peer \in Saved
    BY <2>2, <2>3 DEF IInv, Types, MainState, Chunks, Saved
  <2>5. cipher[wh[h].peer] \in Saved
    BY <2>4 DEF IInv, Types
  <2> QED BY <1>1, <2>1, <2>4, <2>5 DEF Decrypted
<1>2. CASE ~Written(h)
  BY <1>2 DEF Written, Nothing
<1> QED BY <1>1, <1>2

\* What the job promises: every place of the output file is written once, no chunk
\* is written to two, and the file is closed when all are (WorkerHandler::handleWorker,
\* JobManager::Decrypt).
THEOREM RefinesTransfer == Spec => ImplementsTransfer
<1> DEFINE placed == [p \in 0 .. N - 1 |-> outputFile[p].chunk]
           finished == main.pc \in {"closed", "done"}
<1>1. Init => Transfer!Init
  <2> SUFFICES ASSUME Init PROVE Transfer!Init
    OBVIOUS
  <2>1. N \in Int /\ N <= MAX_CHUNKS /\ main.pc = "connect"
    <3>1. IInv
      BY InitIInv
    <3> QED BY <3>1, JobAssumption DEF IInv, Types, Dispatched, MainState, N, Init, JobInit, Started
  <2>2. \A p \in 0 .. N - 1 : outputFile[p].chunk = -1
    BY <2>1, JobAssumption DEF Init, Nothing, Chunks
  <2>3. placed = [p \in 0 .. N - 1 |-> Nothing.chunk]
    BY <2>2 DEF Nothing
  <2>4. \E n \in 0 .. MAX_CHUNKS : 0 .. N - 1 = 0 .. n - 1
    <3>1. CASE N >= 0
      BY <2>1, <3>1
    <3>2. CASE N < 0
      BY <2>1, <3>2, JobAssumption
    <3> QED BY <2>1, <3>1, <3>2
  <2> QED BY <2>1, <2>3, <2>4 DEF Transfer!Init, N
<1>2. IInv /\ [Next]_vars => [Transfer!Next]_<<placed, finished>>
  <2> SUFFICES ASSUME IInv, [Next]_vars PROVE [Transfer!Next]_<<placed, finished>>
    OBVIOUS
  <2> USE DEF finished
  <2>1. CASE UNCHANGED vars
    BY <2>1 DEF vars, jobVars, fileVars, N
  <2>2. CASE UNCHANGED outputFile /\ N' = N /\ finished' = finished
    BY <2>2
  <2>3. CASE CloseOutput /\ UNCHANGED fileVars /\ N' = N
    <3>1. ~finished /\ finished' /\ AllDone /\ UNCHANGED outputFile
      BY <2>3 DEF CloseOutput, Main, fileVars, IInv, Types, MainState, MainLabels
    <3>2. \A p \in 0 .. N - 1 : Written(p)
      BY <3>1, CountedChunks DEF Counted
    <3>3. \A p \in 0 .. N - 1 : p \in Chunks
      BY CountedChunks, <3>1 DEF Counted
    <3>4. \A p \in 0 .. N - 1 : placed[p] # Nothing.chunk
      BY <3>2, <3>3, Contents DEF Nothing, Saved
    <3>5. placed' = placed
      BY <2>3, <3>1
    <3> QED BY <3>1, <3>4, <3>5 DEF Transfer!Next, Transfer!Finish, Transfer!Places, N
  <2>4. ASSUME NEW h \in Chunks, Write(h), N' = N, UNCHANGED <<savedCount, cipher, salts>>
        PROVE  Transfer!Next
    <3> DEFINE chunk == cipher[wh[h].peer]
    <3>1. h \in 0 .. N - 1 /\ ~Written(h) /\ chunk \in Saved
      BY <2>4, Writes
    <3>2. ~AllDone
      BY <3>1, CountedChunks DEF Counted
    <3>3. ~finished /\ finished' = finished
      BY <2>4, <3>2 DEF Write, IInv, Counts
    <3>4. placed[h] = Nothing.chunk
      BY <3>1, Contents DEF Nothing
    <3>5. \A q \in 0 .. N - 1 : placed[q] # chunk
      <4> SUFFICES ASSUME NEW q \in 0 .. N - 1, outputFile[q].chunk = chunk PROVE FALSE
        OBVIOUS
      <4>1. q \in Chunks
        BY JobAssumption DEF IInv, Types, Dispatched, MainState, N, Chunks
      <4>2. /\ Written(q) /\ wh[q].peer \in Saved /\ cipher[wh[q].peer] = cipher[wh[h].peer]
            /\ wh[h].peer \in Saved
        BY <2>4, <3>1, <4>1, Contents, Writes DEF Saved
      <4>3. wh[q].peer = wh[h].peer /\ wh[h].peer # NoOne
        BY <4>2 DEF IInv, Connections, NoOne, Saved
      <4>4. q = h
        BY <4>1, <4>3 DEF IInv, Connections
      <4> QED BY <3>1, <4>2, <4>4
    <3>6. placed' = [placed EXCEPT ![h] = chunk]
      <4>1. outputFile' = [outputFile EXCEPT ![h] = Decrypted(wh[h].peer)] /\ outputFile \in [Chunks -> Content]
        BY <2>4, Writes DEF IInv, Types
      <4>2. \A q \in 0 .. N - 1 : q \in Chunks
        BY JobAssumption DEF IInv, Types, Dispatched, MainState, N, Chunks
      <4>3. \A q \in 0 .. N - 1 : outputFile'[q].chunk = IF q = h THEN chunk ELSE outputFile[q].chunk
        BY <4>1, <4>2 DEF Decrypted
      <4> QED BY <2>4, <4>3
    <3>7. chunk \in 0 .. MAX_CHUNKS - 1
      BY <3>1, JobAssumption DEF Saved, IInv, Types
    <3> HIDE DEF placed, finished, chunk
    <3>8. \E p \in 0 .. N - 1, d \in 0 .. MAX_CHUNKS - 1 :
            /\ ~finished /\ placed[p] = Nothing.chunk
            /\ \A q \in 0 .. N - 1 : placed[q] # d
            /\ placed' = [placed EXCEPT ![p] = d] /\ finished' = finished
      BY <3>1, <3>3, <3>4, <3>5, <3>6, <3>7
    <3> QED BY <3>8 DEF Transfer!Next, Transfer!Place, Transfer!Places, N, placed, finished
  <2>5. CASE Next
    <3>1. UNCHANGED <<savedCount, cipher, maps>> /\ N' = N
      BY <2>5, Constant DEF IInv, Types
    <3>2. CASE (EndLoop \/ TestFails \/ Block) /\ UNCHANGED <<salts, fileVars>>
      BY <2>2, <3>1, <3>2, MainGoto
      DEF EndLoop, LoopEnds, TestFails, Block, Main, MainMoves, MainLabels, IInv, fileVars
    <3>3. CASE DeleteClearText /\ UNCHANGED <<salts, fileVars>>
      BY <2>2, <3>1, <3>3, MainGoto DEF DeleteClearText, Main, MainMoves, MainLabels, IInv, fileVars
    <3>4. ASSUME NEW w \in Workers, NEW junk \in Junk, ConnectWorker(w, junk), UNCHANGED <<salts, fileVars>>
          PROVE  UNCHANGED outputFile /\ finished' = finished
      BY <3>4 DEF ConnectWorker, Main, IInv, Types, MainState, MainLabels, fileVars
    <3>5. CASE CreateHandler /\ UNCHANGED <<salts, fileVars>>
      BY <2>2, <3>1, <3>5, MainGoto DEF CreateHandler, Main, MainMoves, MainLabels, IInv, fileVars
    <3>6. CASE DecryptChunk /\ UNCHANGED fileVars
      BY <2>2, <3>1, <3>6
      DEF DecryptChunk, ConstructAndSend, Main, IInv, Types, MainState, MainLabels, fileVars
    <3>7. ASSUME NEW h \in Chunks,
                 \/ (Accept(h) \/ CountChunk(h) \/ NotifyAll(h)) /\ UNCHANGED <<salts, fileVars>>
                 \/ Seek(h) /\ UNCHANGED salts
                 \/ (Connect(h) \/ SendClearText(h)) /\ UNCHANGED <<salts, fileVars>>
          PROVE  UNCHANGED outputFile /\ finished' = finished
      <4>1. UNCHANGED outputFile
        BY <3>7 DEF Seek, fileVars
      <4>2. main' = main \/ (main.pc = "blocked" /\ main' = [main EXCEPT !.pc = "test"])
        BY <3>7 DEF Accept, CountChunk, NotifyAll, Seek, Connect, SendClearText, Reply
      <4>3. main' = main \/ (main.pc = "blocked" /\ main'.pc = "test")
        BY <4>2, MainGoto DEF MainMoves, MainLabels, IInv
      <4> QED BY <4>1, <4>3
    <3>8. CASE UNCHANGED <<main, ids, maps, progress, wh, ch, net, salts, fileVars>>
      BY <2>2, <3>1, <3>8 DEF fileVars
    <3> QED BY <2>2, <2>3, <2>4, <2>5, <3>1, <3>2, <3>3, <3>4, <3>5, <3>6, <3>7, <3>8, Frames
  <2> QED BY <2>1, <2>5
<1> QED BY <1>1, <1>2, Invariance, PTL DEF Spec, ImplementsTransfer, Transfer!Spec, N

-----------------------------------------------------------------------------
\* Looking workers up.

\* Every worker connects once, and before the loop starts.
Identified ==
  /\ \A j, k \in 1 .. Len(ids) : ids[j].worker = ids[k].worker => j = k
  /\ main.pc # "connect" => Len(ids) = min_workers
  /\ fault = "unknownWorker" => main.pc = "loop" /\ main.i < N /\ ~Registered(Line(main.i))

LEMMA Elements ==
  ASSUME NEW S, NEW s \in Seq(S)
  PROVE  DOMAIN s = 1 .. Len(s) /\ \A k \in 1 .. Len(s) : s[k] \in S
OBVIOUS

LEMMA UnknownWorkerOnly ==
  ASSUME Next
  PROVE  fault = "none" /\ (UnknownWorker \/ fault' # "unknownWorker")
<1>1. fault = "none"
  BY DEF Next, JobManager, WorkerHandler, ChunkHandler, ConnectWorker, CreateHandler, DecryptChunk,
     ConstructAndSend, EndLoop, LoopEnds, JobManagerWait, TestFails, Block, CloseOutput, DeleteClearText,
     UnknownWorker, HandlerStep, Accept, NullConnection, CountChunk, NotifyAll, Seek, Gets, Write,
     Connect, SendClearText, HasReceived, Main, At, ChunkAt
<1>2. UnknownWorker \/ fault' # "unknownWorker"
  BY <1>1 DEF Next, JobManager, WorkerHandler, ChunkHandler, ConnectWorker, CreateHandler, DecryptChunk,
     ConstructAndSend, EndLoop, JobManagerWait, TestFails, Block, CloseOutput, DeleteClearText,
     HandlerStep, Accept, NullConnection, Fault, CountChunk, NotifyAll, Seek, Write,
     Connect, SendClearText, Reply
<1> QED BY <1>1, <1>2

LEMMA IdentifiedStep == IInv /\ Identified /\ [Next]_vars => Identified'
<1> SUFFICES ASSUME IInv, Identified, [Next]_vars PROVE Identified'
  OBVIOUS
<1>1. CASE UNCHANGED vars
  BY <1>1 DEF vars, jobVars, Identified, Registered, Line, N
<1>2. CASE Next
  <2>1. UNCHANGED <<savedCount, cipher, maps>> /\ N' = N
    BY <1>2, Constant DEF IInv, Types
  <2>2. ASSUME NEW w \in Workers, NEW junk \in Junk, ConnectWorker(w, junk)
        PROVE  Identified'
    <3>1. /\ \A k \in 1 .. Len(ids) : ids[k].worker # w
          /\ ids \in Seq([worker : Workers, junk : Junk])
          /\ ids' = Append(ids, [worker |-> w, junk |-> junk])
          /\ fault' # "unknownWorker" /\ main \in MainState
          /\ main' = [main EXCEPT !.pc = IF Len(ids') = min_workers THEN "loop" ELSE "connect"]
      BY <2>2 DEF ConnectWorker, Main, IInv, Types
    <3>2. main'.pc # "connect" => Len(ids') = min_workers
      BY <3>1 DEF MainState
    <3>3. \A j, k \in 1 .. Len(ids') : ids'[j].worker = ids'[k].worker => j = k
      <4>1. /\ Len(ids') = Len(ids) + 1 /\ Len(ids) \in Nat /\ ids'[Len(ids) + 1].worker = w
            /\ \A k \in 1 .. Len(ids) : ids'[k] = ids[k]
        BY <3>1
      <4> QED BY <3>1, <4>1 DEF Identified
    <3> QED BY <3>1, <3>2, <3>3 DEF Identified
  <2>3. CASE UnknownWorker
    BY <2>1, <2>3 DEF UnknownWorker, Fault, Main, Identified, Registered, Line, N
  <2>4. CASE /\ fault' # "unknownWorker" /\ UNCHANGED ids
             /\ main.pc = "connect" => main'.pc = "connect"
    BY <2>4 DEF Identified
  <2>5. \/ \E w \in Workers, junk \in Junk : ConnectWorker(w, junk)
        \/ UNCHANGED ids /\ (main.pc = "connect" => main'.pc = "connect")
    BY <1>2, Frames DEF CreateHandler, DecryptChunk, ConstructAndSend, EndLoop, LoopEnds, TestFails,
       Block, CloseOutput, DeleteClearText, Main, Accept, CountChunk, NotifyAll, Seek, Write, Connect,
       SendClearText, Reply
  <2> QED BY <1>2, <2>2, <2>3, <2>4, <2>5, UnknownWorkerOnly
<1> QED BY <1>1, <1>2

\* Main fails to find a worker only when the byte that follows its id is not the one
\* that was saved with it: each of the workers has connected (JobManager::Decrypt).
THEOREM LookupFailsOnJunk == Spec => []LookupFails
<1>1. Init => Identified
  BY JobAssumption DEF Init, JobInit, Started, Identified
<1>2. IInv /\ Identified => LookupFails
  <2> SUFFICES ASSUME IInv, Identified, fault = "unknownWorker"
               PROVE  main.i < savedCount /\ JunkDiffers(main.i)
    BY DEF LookupFails
  <2> DEFINE w == Line(main.i).worker
  <2>0. /\ \A k \in 1 .. Len(ids) : ids[k].worker \in Workers /\ ids[k] \in [worker : Workers, junk : Junk]
        /\ DOMAIN ids = 1 .. Len(ids)
    <3>1. ids \in Seq([worker : Workers, junk : Junk])
      BY DEF IInv, Types
    <3>2. DOMAIN ids = 1 .. Len(ids) /\ \A k \in 1 .. Len(ids) : ids[k] \in [worker : Workers, junk : Junk]
      BY <3>1, Elements
    <3> QED BY <3>2
  <2>1. main.i < N /\ main.i \in Saved /\ Len(ids) = min_workers
    BY CurrentChunk DEF IInv, Identified
  <2>2. w \in Workers
    <3>1. main.i \in DOMAIN maps /\ maps[main.i].worker = main.i % min_workers
      BY <2>1 DEF IInv, Types
    <3>2. main.i % min_workers \in Workers
      BY JobAssumption DEF IInv, Types, MainState, Workers
    <3> QED BY <3>1, <3>2 DEF Line
  <2> HIDE DEF w
  <2>3. \E k \in 1 .. min_workers : ids[k].worker = w
    <3> SUFFICES ASSUME \A k \in 1 .. min_workers : ids[k].worker # w
                 PROVE  FALSE
      OBVIOUS
    <3> DEFINE S == 1 .. min_workers
               T == Workers \ {w}
               f == [k \in S |-> ids[k].worker]
    <3>1. f \in [S -> T]
      <4>1. \A k \in S : ids[k].worker \in Workers
        BY <2>0, <2>1
      <4> QED BY <4>1
    <3>2. IsFiniteSet(S) /\ Cardinality(S) = min_workers
      BY JobAssumption, FS_Interval
    <3>3. IsFiniteSet(Workers) /\ Cardinality(Workers) = min_workers
      BY JobAssumption, FS_Interval DEF Workers
    <3>4. IsFiniteSet(T) /\ Cardinality(T) = min_workers - 1
      BY <2>2, <3>3, FS_RemoveElement
    <3>5. Cardinality(T) < Cardinality(S)
      BY <3>2, <3>4, JobAssumption
    <3> HIDE DEF S, T, f
    <3>6. PICK j \in S, k \in S : j # k /\ f[j] = f[k]
      BY <3>1, <3>2, <3>4, <3>5, FS_PigeonHole
    <3> QED BY <2>1, <3>6 DEF S, f, Identified
  <2>4. PICK k \in 1 .. Len(ids) : ids[k].worker = w
    BY <2>1, <2>3
  <2>5. ids[k] # Line(main.i) /\ k \in DOMAIN ids
    BY <2>0 DEF Identified, Registered
  <2>6. ids[k] \in [worker : Workers, junk : Junk] /\ Line(main.i) = maps[main.i]
    <3>1. main.i \in DOMAIN maps
      BY <2>1 DEF IInv, Types
    <3> QED BY <2>0, <3>1 DEF Line
  <2>7. maps[main.i] = [worker |-> w, junk |-> maps[main.i].junk]
    <3>1. w = maps[main.i].worker
      BY <2>6 DEF w
    <3> QED BY <2>1, <3>1 DEF IInv, Types
  <2>8. ids[k].junk # Line(main.i).junk
    <3> SUFFICES ASSUME ids[k].junk = maps[main.i].junk PROVE FALSE
      BY <2>6
    <3>1. ids[k] = [worker |-> ids[k].worker, junk |-> ids[k].junk]
      BY <2>6
    <3>2. ids[k] = maps[main.i]
      BY <2>4, <2>7, <3>1
    <3> QED BY <2>5, <2>6, <3>2
  <2>9. main.i < savedCount
    BY <2>1, JobAssumption DEF Saved, IInv, Types
  <2> QED BY <2>4, <2>5, <2>8, <2>9 DEF JunkDiffers, w
<1> QED BY <1>1, <1>2, IdentifiedStep, Invariance, PTL DEF Spec
==============================================================================
