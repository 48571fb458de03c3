-------------------------- MODULE KpmUpload_proofs --------------------------
(***************************************************************************)
(* Theorems about KpmUpload for every file size, number of workers and     *)
(* number of attempts: type correctness for every user, and the content of *)
(* the target for a user who waits for the workers of a failed upload.     *)
(***************************************************************************)
EXTENDS KpmUpload, TLAPS

Phase == {"unused", "running", "combining", "dropping", "cleaning", "done", "failed"}

----------------------------------------------------------------------------
(* Type correctness.                                                       *)

\* A worker that works on a chunk works on one of its file.
ChunkInFile ==
    \A p \in Worker : at[p] \in {"read", "write"} =>
        chunk[p] < taken[p[1]] /\ taken[p[1]] <= size[p[1]]

\* No worker takes a chunk past the end, or before its upload begins.
Untouched ==
    /\ \A a \in 1 .. Attempts : /\ taken[a] <= size[a]
                                /\ a > now => taken[a] = 0 /\ aborted[a] = FALSE
    /\ \A p \in Worker : p[1] > now => at[p] = "gone"

TypeInv == TypeOK /\ ChunkInFile /\ Untouched

LEMMA TypeInit == Init => TypeInv
  BY SizeAssumption DEF Worker, Init, TypeInv, TypeOK, ChunkInFile, Untouched, Index, Chunk

\* A working worker's chunk and its file.
LEMMA MineIsChunk ==
    ASSUME TypeInv, NEW p \in Worker, at[p] \in {"read", "write"}
    PROVE  /\ p[1] \in 1 .. Attempts
           /\ chunk[p] \in Index
           /\ Mine(p) \in Chunk
  <1>1. p[1] \in 1 .. Attempts
    BY DEF Worker
  <1>2. chunk[p] \in Nat /\ chunk[p] < taken[p[1]] /\ taken[p[1]] <= size[p[1]]
    BY DEF TypeInv, TypeOK, ChunkInFile
  <1>3. size[p[1]] \in 0 .. MaxChunks /\ taken[p[1]] \in 0 .. MaxChunks
    BY <1>1 DEF TypeInv, TypeOK
  <1>4. chunk[p] \in Index
    BY <1>2, <1>3, SizeAssumption DEF Index
  <1> QED
    BY <1>1, <1>4 DEF Mine, Chunk

LEMMA TypeBegin ==
    ASSUME TypeInv, NEW n \in 0 .. MaxChunks, Begin(n) PROVE TypeInv'
  <1>1. now + 1 \in 1 .. Attempts /\ now' = now + 1 /\ now \in Nat
    BY SizeAssumption DEF TypeInv, TypeOK, Begin
  <1>2. TypeOK'
    <2>1. size' = [size EXCEPT ![now + 1] = n]
          /\ phase' = [phase EXCEPT ![now + 1] = "running"]
          /\ part' = [i \in Index |-> None] /\ child' = {}
          /\ UNCHANGED <<taken, aborted, chunk>>
      BY <1>1 DEF Begin, NoParts
    <2>2. at' \in [Worker -> {"take", "read", "write", "gone"}]
      BY DEF TypeInv, TypeOK, Begin
    <2> QED
      BY <1>1, <2>1, <2>2 DEF TypeInv, TypeOK
  <1>3. ASSUME NEW p \in Worker
        PROVE  /\ p[1] \in 1 .. Attempts
               /\ at'[p] \in {"take", at[p]}
               /\ p[1] > now + 1 => at'[p] = "gone"
               /\ at'[p] \in {"read", "write"} => p[1] <= now
    <2>1. p[1] \in 1 .. Attempts /\ p[1] \in Nat
      BY DEF Worker
    <2>2. at'[p] = IF p[1] = now + 1 /\ p[2] <= n THEN "take" ELSE at[p]
      BY <1>1 DEF Begin
    <2>3. p[1] > now => at[p] = "gone"
      BY DEF TypeInv, Untouched
    <2> QED
      BY <1>1, <2>1, <2>2, <2>3
  <1>4. ASSUME NEW a \in 1 .. Attempts
        PROVE  /\ taken'[a] = taken[a]
               /\ taken'[a] <= size'[a]
               /\ a > now' => taken'[a] = 0 /\ aborted'[a] = FALSE
               /\ a # now + 1 => size'[a] = size[a]
    <2>1. taken[a] <= size[a] /\ (a > now => taken[a] = 0 /\ aborted[a] = FALSE)
      BY DEF TypeInv, Untouched
    <2>2. size' = [size EXCEPT ![now + 1] = n] /\ taken' = taken /\ aborted' = aborted
      BY <1>1 DEF Begin
    <2>3. size[a] \in Nat /\ taken[a] \in Nat /\ n \in Nat
      BY DEF TypeInv, TypeOK
    <2>4. size'[a] = IF a = now + 1 THEN n ELSE size[a]
      BY <2>2 DEF TypeInv, TypeOK
    <2> QED
      BY <1>1, <2>1, <2>2, <2>3, <2>4
  <1>5. Untouched'
    <2>1. \A a \in 1 .. Attempts :
             taken'[a] <= size'[a] /\ (a > now' => taken'[a] = 0 /\ aborted'[a] = FALSE)
      BY <1>4
    <2>2. \A p \in Worker : p[1] > now' => at'[p] = "gone"
      BY <1>1, <1>3
    <2> QED
      BY <2>1, <2>2 DEF Untouched
  <1>6. ASSUME NEW p \in Worker, at'[p] \in {"read", "write"}
        PROVE  chunk'[p] < taken'[p[1]] /\ taken'[p[1]] <= size'[p[1]]
    <2>1. p[1] \in 1 .. Attempts /\ p[1] <= now /\ at[p] = at'[p]
      BY <1>3, <1>6
    <2>2. chunk[p] < taken[p[1]] /\ taken[p[1]] <= size[p[1]]
      BY <1>6, <2>1 DEF TypeInv, ChunkInFile
    <2>3. p[1] # now + 1
      BY <1>1, <2>1
    <2>4. taken'[p[1]] = taken[p[1]] /\ size'[p[1]] = size[p[1]]
      BY <1>4, <2>1, <2>3
    <2> QED
      BY <2>2, <2>4 DEF Begin
  <1> QED
    BY <1>2, <1>5, <1>6 DEF TypeInv, ChunkInFile

LEMMA TypeTake ==
    ASSUME TypeInv, NEW p \in Worker, Take(p) PROVE TypeInv'
  <1>1. p[1] \in 1 .. Attempts
    BY DEF Worker
  <1>2. taken[p[1]] \in 0 .. MaxChunks /\ size[p[1]] \in 0 .. MaxChunks
    BY <1>1 DEF TypeInv, TypeOK
  <1>3. CASE taken[p[1]] < size[p[1]] /\ ~aborted[p[1]]
    <2>0. /\ at' = [at EXCEPT ![p] = "read"]
          /\ chunk' = [chunk EXCEPT ![p] = taken[p[1]]]
          /\ taken' = [taken EXCEPT ![p[1]] = taken[p[1]] + 1]
          /\ UNCHANGED <<now, size, phase, aborted, part, child>>
          /\ at[p] = "take"
      BY <1>3 DEF Take, files
    <2>1. TypeOK'
      <3>1. taken[p[1]] \in Nat /\ taken[p[1]] + 1 \in 0 .. MaxChunks
        BY <1>2, <1>3, SizeAssumption
      <3>2. taken' \in [1 .. Attempts -> 0 .. MaxChunks]
        BY <1>1, <2>0, <3>1 DEF TypeInv, TypeOK
      <3>3. chunk' \in [Worker -> Nat]
        BY <2>0, <3>1 DEF TypeInv, TypeOK
      <3>4. at' \in [Worker -> {"take", "read", "write", "gone"}]
        BY <2>0 DEF TypeInv, TypeOK
      <3> QED
        BY <2>0, <3>2, <3>3, <3>4 DEF TypeInv, TypeOK
    <2>2. Untouched'
      <3>1. p[1] <= now
        <4>1. p[1] > now => at[p] = "gone"
          BY DEF TypeInv, Untouched
        <4>2. now \in Nat /\ p[1] \in Nat
          BY <1>1 DEF TypeInv, TypeOK
        <4> QED
          BY <2>0, <4>1, <4>2
      <3>2. ASSUME NEW a \in 1 .. Attempts
            PROVE  taken'[a] <= size[a] /\ (a > now => taken'[a] = 0 /\ aborted[a] = FALSE)
        BY <1>1, <1>2, <1>3, <2>0, <3>1, SizeAssumption DEF TypeInv, TypeOK, Untouched
      <3>3. ASSUME NEW q \in Worker, q[1] > now PROVE at'[q] = "gone"
        BY <2>0, <3>1, <3>3 DEF TypeInv, TypeOK, Untouched
      <3> QED
        BY <2>0, <3>2, <3>3 DEF Untouched
    <2>3. ASSUME NEW q \in Worker, at'[q] \in {"read", "write"}
          PROVE  chunk'[q] < taken'[q[1]] /\ taken'[q[1]] <= size'[q[1]]
      <3>1. q[1] \in 1 .. Attempts
        BY DEF Worker
      <3>2. taken[q[1]] \in Nat /\ size[q[1]] \in Nat /\ chunk[q] \in Nat
        BY <3>1 DEF TypeInv, TypeOK
      <3>3. taken' = [taken EXCEPT ![p[1]] = @ + 1] /\ size' = size
            /\ chunk' = [chunk EXCEPT ![p] = taken[p[1]]]
            /\ at' = [at EXCEPT ![p] = "read"]
        BY <1>3 DEF Take
      <3>4. CASE q = p
        BY <1>1, <1>2, <1>3, <3>3, <3>4 DEF TypeInv, TypeOK
      <3>5. CASE q # p
        <4>1. chunk'[q] = chunk[q] /\ at'[q] = at[q]
          BY <3>3, <3>5 DEF TypeInv, TypeOK
        <4>2. chunk[q] < taken[q[1]] /\ taken[q[1]] <= size[q[1]]
          BY <2>3, <4>1 DEF TypeInv, ChunkInFile
        <4>3. taken'[q[1]] = IF q[1] = p[1] THEN taken[p[1]] + 1 ELSE taken[q[1]]
          BY <1>1, <3>1, <3>3 DEF TypeInv, TypeOK
        <4> QED
          BY <1>2, <1>3, <3>2, <3>3, <4>1, <4>2, <4>3
      <3> QED
        BY <3>4, <3>5
    <2> QED
      BY <2>1, <2>2, <2>3 DEF TypeInv, ChunkInFile
  <1>4. CASE ~(taken[p[1]] < size[p[1]] /\ ~aborted[p[1]])
    <2>1. at' = [at EXCEPT ![p] = "gone"] /\ UNCHANGED <<chunk, taken, upload, files>>
      BY <1>4 DEF Take, upload
    <2> QED
      BY <2>1 DEF TypeInv, TypeOK, ChunkInFile, Untouched, upload, files
  <1> QED
    BY <1>3, <1>4

\* The steps of a worker that gives its chunk up, or writes it.
LEMMA TypeWork ==
    ASSUME TypeInv, NEW p \in Worker,
           ReadFails(p) \/ Spawn(p) \/ Wrote(p) \/ WriteFails(p) \/ TimesOut(p)
    PROVE  TypeInv'
  <1>1. at[p] \in {"read", "write"}
    BY DEF ReadFails, Spawn, Wrote, WriteFails, TimesOut
  <1>2. p[1] \in 1 .. Attempts /\ chunk[p] \in Index /\ Mine(p) \in Chunk
    BY <1>1, MineIsChunk
  <1>3. UNCHANGED <<now, size, taken, aborted, chunk, target>>
    BY DEF ReadFails, Spawn, Wrote, WriteFails, TimesOut, upload, files
  <1>4. \/ at' = [at EXCEPT ![p] = "gone"]
        \/ at' = [at EXCEPT ![p] = "take"]
        \/ at[p] = "read" /\ at' = [at EXCEPT ![p] = "write"]
    BY DEF ReadFails, Spawn, Wrote, WriteFails, TimesOut
  <1>5. phase' = phase \/ Reject(p[1])
    BY DEF ReadFails, Spawn, Wrote, WriteFails, TimesOut, upload
  <1>6. phase' \in [1 .. Attempts -> Phase]
    BY <1>2, <1>5 DEF TypeInv, TypeOK, Reject, Phase
  <1>7. child' \subseteq Chunk
    BY <1>2 DEF ReadFails, Spawn, Wrote, WriteFails, TimesOut, files, TypeInv, TypeOK
  <1>8. part' \in [Index -> Chunk \cup {None, Torn}]
    BY <1>2 DEF ReadFails, Spawn, Wrote, WriteFails, TimesOut, files, TypeInv, TypeOK
  <1>9. at' \in [Worker -> {"take", "read", "write", "gone"}]
    BY <1>4 DEF TypeInv, TypeOK
  <1>10. TypeOK'
    BY <1>3, <1>6, <1>7, <1>8, <1>9 DEF TypeInv, TypeOK, Phase
  <1>11. ChunkInFile' /\ Untouched'
    BY <1>1, <1>3, <1>4 DEF TypeInv, TypeOK, ChunkInFile, Untouched
  <1> QED
    BY <1>10, <1>11 DEF TypeInv

LEMMA TypeOrphan ==
    ASSUME TypeInv, NEW c \in Chunk, OrphanWrites(c) PROVE TypeInv'
  BY DEF TypeInv, TypeOK, ChunkInFile, Untouched, OrphanWrites, upload, workers, Chunk

LEMMA TypeCancel == ASSUME TypeInv, Cancel PROVE TypeInv'
  <1>1. now \in 1 .. Attempts
    BY SizeAssumption DEF TypeInv, TypeOK, Cancel
  <1>2. /\ at' \in [Worker -> {"take", "read", "write", "gone"}]
        /\ \A p \in Worker : at'[p] \in {at[p], "gone"}
    BY DEF TypeInv, TypeOK, Cancel
  <1>3. child' \subseteq Chunk
    BY DEF TypeInv, TypeOK, Cancel
  <1>4. phase' \in [1 .. Attempts -> Phase]
    BY <1>1 DEF TypeInv, TypeOK, Cancel, Phase
  <1>5. aborted' = [aborted EXCEPT ![now] = TRUE]
        /\ UNCHANGED <<now, size, taken, chunk, part>>
    BY DEF Cancel
  <1>6. TypeOK'
    BY <1>1, <1>2, <1>3, <1>4, <1>5 DEF TypeInv, TypeOK, Phase
  <1>7. ChunkInFile'
    BY <1>2, <1>5 DEF TypeInv, ChunkInFile
  <1>8. Untouched'
    BY <1>1, <1>2, <1>5, SizeAssumption DEF TypeInv, TypeOK, Untouched
  <1> QED
    BY <1>6, <1>7, <1>8 DEF TypeInv

LEMMA TypeUpload ==
    ASSUME TypeInv, Join \/ Combine \/ Drop \/ CombineFails \/ Clean PROVE TypeInv'
  <1>1. now \in 1 .. Attempts
    BY SizeAssumption DEF TypeInv, TypeOK, Join, Combine, Drop, CombineFails, Clean
  <1>2. UNCHANGED <<now, size, taken, aborted, workers>>
    BY DEF Join, Combine, Drop, CombineFails, Clean
  <1>3. phase' \in [1 .. Attempts -> Phase]
    BY <1>1 DEF TypeInv, TypeOK, Join, Combine, Drop, CombineFails, Clean, Phase
  <1>4. part' \in [Index -> Chunk \cup {None, Torn}] /\ child' \subseteq Chunk
    BY DEF TypeInv, TypeOK, Join, Combine, Drop, CombineFails, Clean, NoParts
  <1> QED
    BY <1>2, <1>3, <1>4 DEF TypeInv, TypeOK, ChunkInFile, Untouched, workers, Phase

LEMMA TypeNext == TypeInv /\ [Next]_vars => TypeInv'
  <1>1. TypeInv /\ UNCHANGED vars => TypeInv'
    BY DEF TypeInv, TypeOK, ChunkInFile, Untouched, vars, upload, workers, files
  <1> QED
    BY <1>1, TypeBegin, TypeTake, TypeWork, TypeOrphan, TypeCancel, TypeUpload DEF Next

\* Type correctness of an upload, patient user or not: every worker writes a
\* part of its own file, and no chunk past the end is ever taken.
THEOREM TypeCorrect == Spec => []TypeOK
  <1>1. TypeInv => TypeOK
    BY DEF TypeInv
  <1> QED
    BY <1>1, TypeInit, TypeNext, PTL DEF Spec

----------------------------------------------------------------------------
(* The content of the target, for a patient user.                          *)

Running == now > 0 /\ phase[now] = "running" /\ aborted[now] = FALSE
Merging == now > 0 /\ phase[now] \in {"combining", "dropping"}
Works(p) == at[p] \in {"read", "write"}

\* Only the attempt under way has workers, and no two work on one chunk.
Alone == \A p \in Worker : p[1] # now => at[p] = "gone"
Distinct == \A p, q \in Worker : Works(p) /\ Works(q) /\ p # q => chunk[p] # chunk[q]

\* While nothing has failed, the processes are those the workers wait for.
Owned == Running =>
    /\ \A p \in Worker : at[p] = "write" => Mine(p) \in child
    /\ \A c \in child : \E p \in Worker : at[p] = "write" /\ Mine(p) = c

\* While nothing has failed, a chunk that was taken is written or worked on,
\* and a worker ends when all are taken.
Filled == Running => \A i \in Index :
    /\ i < taken[now] => \/ part[i] = <<now, i>>
                         \/ \E p \in Worker : Works(p) /\ chunk[p] = i
    /\ i >= taken[now] => part[i] = None
Finished == Running => \A p \in Worker :
    p[1] = now /\ at[p] = "gone" /\ p[2] <= size[now] => taken[now] = size[now]

\* The merge reads parts that nobody writes.
Joined == Merging =>
    /\ child = {}
    /\ \A p \in Worker : at[p] = "gone"
    /\ \A i \in Index : part[i] = IF i < size[now] THEN <<now, i>> ELSE None

Whole == [i \in 0 .. size[now] - 1 |-> <<now, i>>]

Made == now > 0 /\ phase[now] \in {"dropping", "done"} => target = Whole

Parts == Alone /\ Distinct /\ Owned /\ Filled /\ Finished /\ Joined /\ Made

\* A worker that works, and its attempt.
LEMMA WorkerOfNow ==
    ASSUME TypeInv, Parts, NEW p \in Worker, at[p] # "gone"
    PROVE  /\ p[1] = now /\ now \in 1 .. Attempts /\ ~Merging
           /\ now > 0 /\ taken[now] \in Nat /\ size[now] \in 0 .. MaxChunks
           /\ taken[now] <= size[now]
           /\ Works(p) => chunk[p] \in Index /\ chunk[p] < taken[now] /\ Mine(p) \in Chunk
  <1>1. p[1] = now
    BY DEF Parts, Alone
  <1>2. now \in 1 .. Attempts
    BY <1>1 DEF Worker
  <1>3. ~Merging
    BY DEF Parts, Joined
  <1>4. taken[now] \in Nat /\ size[now] \in 0 .. MaxChunks /\ taken[now] <= size[now]
    BY <1>2 DEF TypeInv, TypeOK, Untouched
  <1>5. ASSUME Works(p) PROVE chunk[p] \in Index /\ chunk[p] < taken[now] /\ Mine(p) \in Chunk
    BY <1>1, <1>5, MineIsChunk DEF Works, TypeInv, ChunkInFile
  <1> QED
    BY <1>1, <1>2, <1>3, <1>4, <1>5

\* A step that ends in a phase where nothing is claimed of the parts, or with
\* the upload aborted, keeps what is left.
LEMMA PartsStopped ==
    ASSUME TypeInv, Parts, now' = now, chunk' = chunk,
           \A p \in Worker : at'[p] \in {at[p], "gone"},
           ~Running', ~Merging', Made'
    PROVE  Parts'
  <1>1. Alone'
    BY DEF Parts, Alone
  <1>2. Distinct'
    BY DEF Parts, Distinct, Works
  <1> QED
    BY <1>1, <1>2 DEF Parts, Owned, Filled, Finished, Joined

LEMMA PartsInit == Init => Parts
  BY DEF Init, Parts, Alone, Distinct, Owned, Filled, Finished, Joined, Made, Running,
         Merging, Works

LEMMA PartsBegin ==
    ASSUME TypeInv, Parts, Patient, NEW n \in 0 .. MaxChunks, Begin(n) PROVE Parts'
  <1>1. now + 1 \in 1 .. Attempts /\ now' = now + 1 /\ now \in Nat
    BY SizeAssumption DEF TypeInv, TypeOK, Begin
  <1>2. /\ child' = {} /\ \A i \in Index : part'[i] = None
        /\ phase'[now'] = "running" /\ size'[now'] = n
        /\ chunk' = chunk /\ taken'[now'] = 0
    BY <1>1 DEF Begin, NoParts, TypeInv, TypeOK, Untouched
  <1>3. ASSUME NEW p \in Worker
        PROVE  at'[p] = IF p[1] = now' /\ p[2] <= n THEN "take" ELSE "gone"
    BY <1>3 DEF Begin, Quiet
  <1>4. Alone' /\ Distinct'
    BY <1>3 DEF Alone, Distinct, Works
  <1>5. Owned' /\ Filled'
    BY <1>2, <1>3 DEF Owned, Filled, Index
  <1>6. Finished'
    BY <1>2, <1>3 DEF Finished
  <1>7. Joined' /\ Made'
    BY <1>2 DEF Joined, Made, Merging
  <1> QED
    BY <1>4, <1>5, <1>6, <1>7 DEF Parts

LEMMA PartsTake ==
    ASSUME TypeInv, Parts, NEW p \in Worker, Take(p) PROVE Parts'
  <1>1. at[p] = "take" /\ UNCHANGED <<now, size, phase, aborted, part, child, target>>
    BY DEF Take, files
  <1>2. /\ p[1] = now /\ now \in 1 .. Attempts /\ ~Merging /\ now > 0
        /\ taken[now] \in Nat /\ size[now] \in 0 .. MaxChunks /\ taken[now] <= size[now]
    BY <1>1, WorkerOfNow
  <1>3. Joined' /\ Made'
    BY <1>1, <1>2 DEF Parts, Joined, Made, Merging, Whole
  <1>4. CASE taken[now] < size[now] /\ ~aborted[now]
    <2>1. /\ at' = [at EXCEPT ![p] = "read"]
          /\ chunk' = [chunk EXCEPT ![p] = taken[now]]
          /\ taken' = [taken EXCEPT ![now] = taken[now] + 1]
      BY <1>2, <1>4 DEF Take
    <2>2. ASSUME NEW q \in Worker
          PROVE  /\ at'[q] = IF q = p THEN "read" ELSE at[q]
                 /\ chunk'[q] = IF q = p THEN taken[now] ELSE chunk[q]
                 /\ Works(q) => chunk[q] \in Nat /\ chunk[q] < taken[now]
      BY <2>1, WorkerOfNow DEF TypeInv, TypeOK, Works
    <2>3. taken'[now] = taken[now] + 1
      BY <1>2, <2>1 DEF TypeInv, TypeOK
    <2>4. Alone'
      BY <1>1, <1>2, <2>2 DEF Parts, Alone
    <2>5. Distinct'
      <3>1. ASSUME NEW q \in Worker, NEW r \in Worker, Works(q)', Works(r)', q # r
            PROVE  chunk'[q] # chunk'[r]
        <4>1. CASE q = p
          BY <1>2, <2>2, <3>1, <4>1 DEF Works
        <4>2. CASE r = p
          BY <1>2, <2>2, <3>1, <4>2 DEF Works
        <4>3. CASE q # p /\ r # p
          BY <2>2, <3>1, <4>3 DEF Works, Parts, Distinct
        <4> QED
          BY <4>1, <4>2, <4>3
      <3> QED
        BY <3>1 DEF Distinct
    <2>6. Owned'
      <3>1. \A q \in Worker : at'[q] = "write" <=> at[q] = "write" /\ q # p
        BY <2>2
      <3>2. \A q \in Worker : q # p => Mine(q)' = Mine(q)
        BY <2>2 DEF Mine
      <3> QED
        BY <1>1, <3>1, <3>2 DEF Parts, Owned, Running
    <2>7. Filled'
      <3>1. ASSUME Running, NEW i \in Index
            PROVE  /\ i < taken[now] + 1 =>
                        part[i] = <<now, i>> \/ \E q \in Worker : Works(q)' /\ chunk'[q] = i
                   /\ i >= taken[now] + 1 => part[i] = None
        <4>1. i \in Nat
          BY SizeAssumption DEF Index
        <4>2. CASE i = taken[now]
          BY <1>2, <2>2, <4>1, <4>2 DEF Works
        <4>3. CASE i # taken[now]
          <5>1. i < taken[now] + 1 => i < taken[now]
            BY <1>2, <4>1, <4>3
          <5>2. i >= taken[now] + 1 => i >= taken[now]
            BY <1>2, <4>1
          <5>3. \A q \in Worker : Works(q) => Works(q)' /\ chunk'[q] = chunk[q]
            BY <1>1, <2>2 DEF Works
          <5> QED
            BY <3>1, <5>1, <5>2, <5>3 DEF Parts, Filled
        <4> QED
          BY <4>2, <4>3
      <3> QED
        BY <1>1, <2>3, <3>1 DEF Filled, Running
    <2>8. Finished'
      <3>1. ASSUME Running, NEW q \in Worker, q[1] = now, at'[q] = "gone", q[2] <= size[now]
            PROVE  FALSE
        BY <1>2, <1>4, <2>2, <3>1 DEF Parts, Finished
      <3> QED
        BY <1>1, <3>1 DEF Finished, Running
    <2> QED
      BY <1>3, <2>4, <2>5, <2>6, <2>7, <2>8 DEF Parts
  <1>5. CASE ~(taken[now] < size[now] /\ ~aborted[now])
    <2>1. at' = [at EXCEPT ![p] = "gone"] /\ UNCHANGED <<chunk, taken>>
      BY <1>2, <1>5 DEF Take
    <2>2. \A q \in Worker : /\ at'[q] = IF q = p THEN "gone" ELSE at[q]
                            /\ Works(q)' <=> Works(q)
                            /\ at'[q] = "write" <=> at[q] = "write"
                            /\ Mine(q)' = Mine(q)
      BY <1>1, <2>1 DEF TypeInv, TypeOK, Works, Mine
    <2>3. Alone' /\ Distinct'
      BY <1>1, <2>1, <2>2 DEF Parts, Alone, Distinct
    <2>4. Owned' /\ Filled'
      BY <1>1, <2>1, <2>2 DEF Parts, Owned, Filled, Running
    <2>5. Running => taken[now] = size[now]
      BY <1>2, <1>5 DEF Running
    <2>6. Finished'
      BY <1>1, <2>1, <2>5 DEF Finished, Running
    <2> QED
      BY <1>3, <2>3, <2>4, <2>6 DEF Parts
  <1> QED
    BY <1>4, <1>5

\* A worker that gives up: the upload is rejected if it ran.
LEMMA PartsFails ==
    ASSUME TypeInv, Parts, NEW p \in Worker,
           \/ ReadFails(p) \/ WriteFails(p) \/ TimesOut(p)
           \/ Spawn(p) /\ aborted[p[1]]
    PROVE  Parts'
  <1>1. at[p] \in {"read", "write"} /\ at' = [at EXCEPT ![p] = "gone"] /\ Reject(p[1])
    BY DEF ReadFails, WriteFails, TimesOut, Spawn
  <1>2. UNCHANGED <<now, size, taken, aborted, chunk, target>>
    BY DEF ReadFails, WriteFails, TimesOut, Spawn, files
  <1>3. p[1] = now /\ now \in 1 .. Attempts /\ ~Merging /\ now > 0
    BY <1>1, WorkerOfNow
  <1>4. phase'[now] = IF phase[now] = "running" THEN "cleaning" ELSE phase[now]
    BY <1>1, <1>3 DEF Reject, TypeInv, TypeOK
  <1>5. ~Running' /\ ~Merging' /\ Made'
    BY <1>2, <1>3, <1>4 DEF Running, Merging, Parts, Made, Whole
  <1>6. \A q \in Worker : at'[q] \in {at[q], "gone"}
    BY <1>1 DEF TypeInv, TypeOK
  <1> QED
    BY <1>2, <1>5, <1>6, PartsStopped

LEMMA PartsSpawn ==
    ASSUME TypeInv, Parts, NEW p \in Worker, Spawn(p), ~aborted[p[1]] PROVE Parts'
  <1>1. /\ at[p] = "read" /\ at' = [at EXCEPT ![p] = "write"]
        /\ part' = [part EXCEPT ![chunk[p]] = Torn]
        /\ child' = child \cup {Mine(p)}
        /\ UNCHANGED <<now, size, phase, taken, aborted, chunk, target>>
    BY DEF Spawn
  <1>2. /\ p[1] = now /\ ~Merging /\ taken[now] \in Nat
        /\ chunk[p] \in Index /\ chunk[p] < taken[now]
    BY <1>1, WorkerOfNow DEF Works
  <1>3. \A q \in Worker : /\ at'[q] = IF q = p THEN "write" ELSE at[q]
                          /\ Works(q)' <=> Works(q)
                          /\ Mine(q)' = Mine(q)
    BY <1>1 DEF TypeInv, TypeOK, Works, Mine
  <1>4. Alone' /\ Distinct'
    BY <1>1, <1>2, <1>3 DEF Parts, Alone, Distinct
  <1>5. Owned'
    BY <1>1, <1>3 DEF Parts, Owned, Running
  <1>6. Filled'
    <2>1. ASSUME Running, NEW i \in Index
          PROVE  /\ i < taken[now] => \/ part'[i] = <<now, i>>
                                      \/ \E q \in Worker : Works(q) /\ chunk[q] = i
                 /\ i >= taken[now] => part'[i] = None
      <3>1. i \in Nat /\ chunk[p] \in Nat
        BY <1>2, SizeAssumption DEF Index
      <3>2. CASE i = chunk[p]
        BY <1>1, <1>2, <3>1, <3>2 DEF Works
      <3>3. CASE i # chunk[p]
        <4>1. part'[i] = part[i]
          BY <1>1, <3>3 DEF TypeInv, TypeOK
        <4> QED
          BY <2>1, <4>1 DEF Parts, Filled
      <3> QED
        BY <3>2, <3>3
    <2> QED
      BY <1>1, <1>3, <2>1 DEF Filled, Running
  <1>7. Finished'
    BY <1>1, <1>3 DEF Parts, Finished, Running
  <1>8. Joined' /\ Made'
    BY <1>1, <1>2 DEF Parts, Joined, Made, Merging, Whole
  <1> QED
    BY <1>4, <1>5, <1>6, <1>7, <1>8 DEF Parts

LEMMA PartsWrote ==
    ASSUME TypeInv, Parts, NEW p \in Worker, Wrote(p) PROVE Parts'
  <1>1. /\ at[p] = "write" /\ at' = [at EXCEPT ![p] = "take"]
        /\ child' = child \ {Mine(p)}
        /\ UNCHANGED <<now, size, phase, taken, aborted, chunk, target>>
        /\ part' = IF Mine(p) \in child THEN [part EXCEPT ![chunk[p]] = Mine(p)] ELSE part
    BY DEF Wrote, upload
  <1>2. /\ p[1] = now /\ ~Merging /\ taken[now] \in Nat
        /\ chunk[p] \in Index /\ chunk[p] < taken[now]
    BY <1>1, WorkerOfNow DEF Works
  <1>3. \A q \in Worker : /\ at'[q] = IF q = p THEN "take" ELSE at[q]
                          /\ Works(q)' <=> Works(q) /\ q # p
                          /\ Mine(q)' = Mine(q)
    BY <1>1 DEF TypeInv, TypeOK, Works, Mine
  <1>4. Alone' /\ Distinct'
    BY <1>1, <1>2, <1>3 DEF Parts, Alone, Distinct
  <1>5. Owned'
    <2>1. ASSUME NEW q \in Worker, at[q] = "write", q # p PROVE Mine(q) # Mine(p)
      BY <1>1, <2>1 DEF Parts, Distinct, Works, Mine
    <2> QED
      BY <1>1, <1>3, <2>1 DEF Parts, Owned, Running
  <1>6. Filled'
    <2>1. ASSUME Running, NEW i \in Index
          PROVE  /\ i < taken[now] => \/ part'[i] = <<now, i>>
                                      \/ \E q \in Worker : Works(q) /\ q # p /\ chunk[q] = i
                 /\ i >= taken[now] => part'[i] = None
      <3>1. i \in Nat /\ chunk[p] \in Nat
        BY <1>2, SizeAssumption DEF Index
      <3>2. part' = [part EXCEPT ![chunk[p]] = <<now, chunk[p]>>]
        BY <1>1, <1>2, <2>1 DEF Parts, Owned, Mine
      <3>3. CASE i = chunk[p]
        BY <1>2, <3>1, <3>2, <3>3 DEF TypeInv, TypeOK
      <3>4. CASE i # chunk[p]
        <4>1. part'[i] = part[i]
          BY <3>2, <3>4 DEF TypeInv, TypeOK
        <4> QED
          BY <2>1, <3>4, <4>1 DEF Parts, Filled
      <3> QED
        BY <3>3, <3>4
    <2> QED
      BY <1>1, <1>3, <2>1 DEF Filled, Running
  <1>7. Finished'
    BY <1>1, <1>3 DEF Parts, Finished, Running
  <1>8. Joined' /\ Made'
    BY <1>1, <1>2 DEF Parts, Joined, Made, Merging, Whole
  <1> QED
    BY <1>4, <1>5, <1>6, <1>7, <1>8 DEF Parts

LEMMA PartsOrphan ==
    ASSUME TypeInv, Parts, NEW c \in Chunk, OrphanWrites(c) PROVE Parts'
  <1>1. /\ c \in child /\ \A p \in Worker : at[p] = "write" => Mine(p) # c
        /\ UNCHANGED <<now, size, phase, taken, aborted, at, chunk, target>>
    BY DEF OrphanWrites, upload, workers
  <1>2. ~Running /\ ~Merging
    BY <1>1 DEF Parts, Owned, Joined
  <1>3. ~Running' /\ ~Merging' /\ Made'
    BY <1>1, <1>2 DEF Running, Merging, Parts, Made, Whole
  <1> QED
    BY <1>1, <1>3, PartsStopped

LEMMA PartsCancel == ASSUME TypeInv, Parts, Cancel PROVE Parts'
  <1>1. now \in 1 .. Attempts /\ now' = now /\ now > 0 /\ chunk' = chunk
    BY SizeAssumption DEF TypeInv, TypeOK, Cancel
  <1>2. aborted'[now] = TRUE
    BY <1>1 DEF TypeInv, TypeOK, Cancel
  <1>3. \/ phase'[now] = "cleaning"
        \/ phase'[now] = "running"
    BY <1>1 DEF TypeInv, TypeOK, Cancel
  <1>4. \A p \in Worker : at'[p] \in {at[p], "gone"}
    BY DEF Cancel
  <1>5. ~Running' /\ ~Merging' /\ Made'
    BY <1>1, <1>2, <1>3 DEF Running, Merging, Made
  <1> QED
    BY <1>1, <1>4, <1>5, PartsStopped

LEMMA PartsJoin == ASSUME TypeInv, Parts, Join PROVE Parts'
  <1>1. /\ now \in 1 .. Attempts /\ now' = now /\ now > 0 /\ phase[now] = "running"
        /\ UNCHANGED <<size, taken, aborted, at, chunk, part, child>>
        /\ size[now] \in 0 .. MaxChunks
    BY SizeAssumption DEF TypeInv, TypeOK, Join, workers
  <1>2. \A p \in Worker : at[p] = "gone"
    BY <1>1 DEF Join, Parts, Alone
  <1>3. CASE aborted[now]
    <2>1. phase'[now] = "cleaning"
      BY <1>1, <1>3 DEF Join, TypeInv, TypeOK
    <2>2. ~Running' /\ ~Merging' /\ Made'
      BY <1>1, <2>1 DEF Running, Merging, Made
    <2> QED
      BY <1>1, <2>2, PartsStopped
  <1>4. CASE ~aborted[now] /\ size[now] = 0
    <2>1. phase'[now] = "done" /\ target' = <<>>
      BY <1>1, <1>4 DEF Join, TypeInv, TypeOK
    <2>2. Whole' = <<>>
      BY <1>1, <1>4 DEF Whole
    <2>3. ~Running' /\ ~Merging' /\ Made'
      BY <1>1, <2>1, <2>2 DEF Running, Merging, Made
    <2> QED
      BY <1>1, <2>3, PartsStopped
  <1>5. CASE ~aborted[now] /\ size[now] # 0
    <2>1. phase'[now] = "combining" /\ target' = target
      BY <1>1, <1>5 DEF Join, TypeInv, TypeOK
    <2>2. Running
      BY <1>1, <1>5 DEF Running, TypeInv, TypeOK
    <2>3. child = {}
      BY <1>2, <2>2 DEF Parts, Owned
    <2>4. taken[now] = size[now]
      <3>1. <<now, 1>> \in Worker
        BY <1>1, SizeAssumption DEF Worker
      <3>2. 1 <= size[now]
        BY <1>1, <1>5, SizeAssumption
      <3> QED
        BY <1>2, <2>2, <3>1, <3>2 DEF Parts, Finished
    <2>5. ASSUME NEW i \in Index
          PROVE  part[i] = IF i < size[now] THEN <<now, i>> ELSE None
      <3>1. i \in Nat /\ size[now] \in Nat
        BY <1>1, SizeAssumption DEF Index
      <3>2. ~ \E p \in Worker : Works(p) /\ chunk[p] = i
        BY <1>2 DEF Works
      <3> QED
        BY <2>2, <2>4, <3>1, <3>2 DEF Parts, Filled
    <2>6. Joined'
      BY <1>1, <1>2, <2>3, <2>5 DEF Joined
    <2>7. ~Running' /\ Made'
      BY <1>1, <2>1 DEF Running, Made
    <2>8. Alone' /\ Distinct'
      BY <1>1 DEF Parts, Alone, Distinct, Works
    <2> QED
      BY <2>6, <2>7, <2>8 DEF Parts, Owned, Filled, Finished
  <1> QED
    BY <1>3, <1>4, <1>5

\* What the merge makes of the parts.
LEMMA PartsCombine == ASSUME TypeInv, Parts, Combine PROVE Parts'
  <1>1. /\ now \in 1 .. Attempts /\ now' = now /\ now > 0 /\ phase[now] = "combining"
        /\ UNCHANGED <<size, taken, aborted, at, chunk, part, child>>
        /\ size[now] \in 0 .. MaxChunks
    BY SizeAssumption DEF TypeInv, TypeOK, Combine, workers
  <1>2. phase'[now] = "dropping"
    BY <1>1 DEF Combine, TypeInv, TypeOK
  <1>3. \A i \in Index : part[i] = IF i < size[now] THEN <<now, i>> ELSE None
    BY <1>1 DEF Parts, Joined, Merging
  <1>4. \A i \in Index : <<now, i>> # None
    BY <1>1, FileAssumption, SizeAssumption DEF Index
  <1>5. {j \in Index : part[j] # None} = 0 .. size[now] - 1
    <2>1. ASSUME NEW j PROVE j \in Index /\ part[j] # None <=> j \in 0 .. size[now] - 1
      <3>1. j \in Index /\ j < size[now] <=> j \in 0 .. size[now] - 1
        BY <1>1, SizeAssumption DEF Index
      <3> QED
        BY <1>3, <1>4, <3>1
    <2> QED
      BY <2>1
  <1>6. \A i \in 0 .. size[now] - 1 : part[i] = <<now, i>>
    <2>1. ASSUME NEW i \in 0 .. size[now] - 1 PROVE i \in Index /\ i < size[now]
      BY <1>1, SizeAssumption DEF Index
    <2> QED
      BY <1>3, <2>1
  <1>7. target' = [i \in 0 .. size[now] - 1 |-> part[i]]
    BY <1>5 DEF Combine
  <1>8. Made'
    BY <1>1, <1>6, <1>7 DEF Made, Whole
  <1>9. Joined' /\ ~Running'
    BY <1>1, <1>2 DEF Parts, Joined, Merging, Running
  <1>10. Alone' /\ Distinct'
    BY <1>1 DEF Parts, Alone, Distinct, Works
  <1> QED
    BY <1>8, <1>9, <1>10 DEF Parts, Owned, Filled, Finished

LEMMA PartsEnds ==
    ASSUME TypeInv, Parts, Drop \/ CombineFails \/ Clean PROVE Parts'
  <1>1. /\ now \in 1 .. Attempts /\ now' = now /\ now > 0
        /\ UNCHANGED <<size, at, chunk>>
    BY SizeAssumption DEF TypeInv, TypeOK, Drop, CombineFails, Clean, workers
  <1>2. \/ phase'[now] = "done" /\ phase[now] = "dropping" /\ target' = target
        \/ phase'[now] \in {"cleaning", "failed"}
    BY <1>1 DEF TypeInv, TypeOK, Drop, CombineFails, Clean
  <1>3. ~Running' /\ ~Merging' /\ Made'
    BY <1>1, <1>2 DEF Running, Merging, Made, Parts, Whole
  <1> QED
    BY <1>1, <1>3, PartsStopped

LEMMA PartsNext == TypeInv /\ Parts /\ Patient /\ [Next]_vars => Parts'
  <1> SUFFICES ASSUME TypeInv, Parts, Patient, [Next]_vars PROVE Parts'
    OBVIOUS
  <1>1. CASE UNCHANGED vars
    BY <1>1 DEF Parts, Alone, Distinct, Owned, Filled, Finished, Joined, Made, Running,
                Merging, Works, Mine, Whole, vars, upload, workers, files
  <1>2. ASSUME NEW n \in 0 .. MaxChunks, Begin(n) PROVE Parts'
    BY <1>2, PartsBegin
  <1>3. ASSUME NEW p \in Worker, \/ Take(p) \/ ReadFails(p) \/ Spawn(p) \/ Wrote(p)
                                 \/ WriteFails(p) \/ TimesOut(p)
        PROVE  Parts'
    BY <1>3, PartsTake, PartsFails, PartsSpawn, PartsWrote
  <1>4. ASSUME NEW c \in Chunk, OrphanWrites(c) PROVE Parts'
    BY <1>4, PartsOrphan
  <1>5. CASE Cancel \/ Join \/ Combine \/ Drop \/ CombineFails \/ Clean
    BY <1>5, PartsCancel, PartsJoin, PartsCombine, PartsEnds
  <1> QED
    BY <1>1, <1>2, <1>3, <1>4, <1>5 DEF Next

\* An upload that resolves leaves the user's file, whatever its size, the
\* number of workers and the attempts before it, when the user waits for the
\* workers of a failed attempt (kpm.js:585-662).
THEOREM WholeFile == ASSUME Patient PROVE Spec => []WholeWhenDone
  <1>1. TypeInv /\ Parts => WholeWhenDone
    BY DEF Parts, Made, Whole, WholeWhenDone
  <1>2. TypeInv /\ Parts /\ [Next]_vars => TypeInv' /\ Parts'
    BY Patient, TypeNext, PartsNext
  <1> QED
    BY <1>1, <1>2, TypeInit, PartsInit, PTL DEF Spec
============================================================================
