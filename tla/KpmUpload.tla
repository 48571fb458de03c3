----------------------------- MODULE KpmUpload -----------------------------
(***************************************************************************)
(* uploadFile of the WebUI: a KPM is cut into chunks, a pool of workers    *)
(* writes each one to its own part file with a `base64 -d` process, and    *)
(* one `cat` makes the target of the parts.  A write may fail or hang, a   *)
(* hung one is timed out, and the user may cancel.                         *)
(*                                                                         *)
(* The first failure rejects the upload while the other workers go on, and *)
(* a killed process may still be writing: attempts that follow each other  *)
(* on one file name share the part files with them.  A Patient user starts *)
(* the next attempt when they are gone.                                    *)
(***************************************************************************)
EXTENDS Naturals

CONSTANTS MaxChunks,    \* bound on the chunks of a file
          Concurrency,  \* workers of an upload, 8 in the code
          Attempts,     \* bound on the uploads of one file name
          Patient,      \* does a user wait for what a failed upload left running
          None,         \* no file
          Torn          \* a file that is not written to its end

ASSUME SizeAssumption ==
    /\ MaxChunks \in Nat
    /\ Concurrency \in Nat \ {0}
    /\ Attempts \in Nat
    /\ Patient \in BOOLEAN
ASSUME FileAssumption ==
    /\ None # Torn
    /\ {None, Torn} \cap ((1 .. Attempts) \X Nat) = {}

Index == 0 .. MaxChunks - 1
Worker == (1 .. Attempts) \X (1 .. Concurrency)
Chunk == (1 .. Attempts) \X Index

VARIABLES
    now,      \* the attempt under way or the last one, 0 before the first
    size,     \* by attempt: its totalChunks
    phase,    \* by attempt: where uploadFile is
    taken,    \* by attempt: nextChunkIdx
    aborted,  \* by attempt: has its AbortController fired
    at,       \* by worker: its next step
    chunk,    \* by worker: the index it works on
    part,     \* <target>.part<index>, by index
    child,    \* the chunks whose base64 process can still write its part
    target    \* the content of the target, by index

upload == <<now, size, phase, taken, aborted>>
workers == <<at, chunk>>
files == <<part, child, target>>
vars == <<upload, workers, files>>

Init ==
    /\ now = 0
    /\ size = [a \in 1 .. Attempts |-> 0]
    /\ phase = [a \in 1 .. Attempts |-> "unused"]
    /\ taken = [a \in 1 .. Attempts |-> 0]
    /\ aborted = [a \in 1 .. Attempts |-> FALSE]
    /\ at = [p \in Worker |-> "gone"]
    /\ chunk = [p \in Worker |-> 0]
    /\ part = [i \in Index |-> None]
    /\ child = {}
    /\ target = None

NoParts == [i \in Index |-> None]

Settled == {"done", "failed"}

Quiet == child = {} /\ \A p \in Worker : at[p] = "gone"

\* loadKpmFile and installKpmZip: rm -rf tmp/*, then the workers.
Begin(n) ==
    /\ now < Attempts
    /\ now > 0 => phase[now] \in Settled
    /\ Patient => Quiet
    /\ now' = now + 1
    /\ size' = [size EXCEPT ![now'] = n]
    /\ phase' = [phase EXCEPT ![now'] = "running"]
    /\ at' = [p \in Worker |->
                IF p[1] = now' /\ p[2] <= n THEN "take" ELSE at[p]]
    /\ part' = NoParts
    /\ child' = {}
    /\ target' = None
    /\ UNCHANGED <<taken, aborted, chunk>>

----------------------------------------------------------------------------
(* A worker.                                                               *)

\* Promise.all rejects at the first error; later ones change nothing.
Reject(a) ==
    phase' = [phase EXCEPT ![a] = IF @ = "running" THEN "cleaning" ELSE @]

\* Mutant: an off-by-one in the bound of the loop.
Take_PastEnd(p) ==
    LET a == p[1] IN
    /\ at[p] = "take"
    /\ IF taken[a] <= size[a] /\ ~aborted[a]
       THEN /\ at' = [at EXCEPT ![p] = "read"]
            /\ chunk' = [chunk EXCEPT ![p] = taken[a]]
            /\ taken' = [taken EXCEPT ![a] = @ + 1]
       ELSE at' = [at EXCEPT ![p] = "gone"] /\ UNCHANGED <<chunk, taken>>
    /\ UNCHANGED <<now, size, phase, aborted, files>>

\* nextChunkIdx++ and the FileReader; a worker ends when no chunk is left.
Take(p) ==
    LET a == p[1] IN
    /\ at[p] = "take"
    /\ IF taken[a] < size[a] /\ ~aborted[a]
       THEN /\ at' = [at EXCEPT ![p] = "read"]
            /\ chunk' = [chunk EXCEPT ![p] = taken[a]]
            /\ taken' = [taken EXCEPT ![a] = @ + 1]
       ELSE at' = [at EXCEPT ![p] = "gone"] /\ UNCHANGED <<chunk, taken>>
    /\ UNCHANGED <<now, size, phase, aborted, files>>

\* reader.onerror, or a chunk that is not canonical base64.
ReadFails(p) ==
    /\ at[p] = "read"
    /\ at' = [at EXCEPT ![p] = "gone"]
    /\ Reject(p[1])
    /\ UNCHANGED <<now, size, taken, aborted, chunk, files>>

Mine(p) == <<p[1], chunk[p]>>

\* base64 -d > part: the shell makes the file, and after an abort the process
\* is killed at once, which it may survive.
Spawn(p) ==
    /\ at[p] = "read"
    /\ part' = [part EXCEPT ![chunk[p]] = Torn]
    /\ IF aborted[p[1]]
       THEN /\ at' = [at EXCEPT ![p] = "gone"]
            /\ child' \in {child, child \cup {Mine(p)}}
            /\ Reject(p[1])
       ELSE /\ at' = [at EXCEPT ![p] = "write"]
            /\ child' = child \cup {Mine(p)}
            /\ UNCHANGED phase
    /\ UNCHANGED <<now, size, taken, aborted, chunk, target>>

\* The process ends well; its file may have been removed under it.
Wrote(p) ==
    /\ at[p] = "write"
    /\ part' = IF Mine(p) \in child
               THEN [part EXCEPT ![chunk[p]] = Mine(p)] ELSE part
    /\ child' = child \ {Mine(p)}
    /\ at' = [at EXCEPT ![p] = "take"]
    /\ UNCHANGED <<upload, chunk, target>>

\* Mutant: the exit status of the process is not looked at.
WriteFails_Ignored(p) ==
    /\ at[p] = "write"
    /\ child' = child \ {Mine(p)}
    /\ at' = [at EXCEPT ![p] = "take"]
    /\ UNCHANGED <<upload, chunk, part, target>>

WriteFails(p) ==
    /\ at[p] = "write"
    /\ child' = child \ {Mine(p)}
    /\ at' = [at EXCEPT ![p] = "gone"]
    /\ Reject(p[1])
    /\ UNCHANGED <<now, size, taken, aborted, chunk, part, target>>

\* Mutant: the write has no timer.
TimesOut_Never(p) == at[p] = "write" /\ UNCHANGED vars

\* CHUNK_TIMEOUT_MS: the process is killed, which it may survive.
TimesOut(p) ==
    /\ at[p] = "write"
    /\ child' \in {child, child \ {Mine(p)}}
    /\ at' = [at EXCEPT ![p] = "gone"]
    /\ Reject(p[1])
    /\ UNCHANGED <<now, size, taken, aborted, chunk, part, target>>

\* A process that survived its kill writes its part after all.
OrphanWrites(c) ==
    /\ c \in child
    /\ \A p \in Worker : at[p] = "write" => Mine(p) # c
    /\ part' = [part EXCEPT ![c[2]] = c]
    /\ child' = child \ {c}
    /\ UNCHANGED <<upload, workers, target>>

----------------------------------------------------------------------------
(* The upload.                                                             *)

\* The cancel button: processes that run are killed, and their workers throw.
Cancel ==
    /\ now > 0 /\ phase[now] \in {"running", "combining", "dropping"}
    /\ ~aborted[now]
    /\ aborted' = [aborted EXCEPT ![now] = TRUE]
    /\ LET hit == {p \in Worker : p[1] = now /\ at[p] = "write"} IN
       /\ at' = [p \in Worker |-> IF p \in hit THEN "gone" ELSE at[p]]
       /\ child' \in {child, child \ {Mine(p) : p \in hit}}
       /\ phase' = IF hit # {} \/ phase[now] # "running"
                   THEN [phase EXCEPT ![now] = "cleaning"] ELSE phase
    /\ target' \in IF phase[now] = "running" THEN {target} ELSE {target, Torn}
    /\ UNCHANGED <<now, size, taken, chunk, part>>

\* Every worker has ended and none has thrown.
Join ==
    /\ now > 0 /\ phase[now] = "running"
    /\ \A p \in Worker : p[1] = now => at[p] = "gone"
    /\ IF aborted[now] THEN phase' = [phase EXCEPT ![now] = "cleaning"] /\ UNCHANGED target
       ELSE IF size[now] = 0
       THEN phase' = [phase EXCEPT ![now] = "done"] /\ target' = <<>>
       ELSE phase' = [phase EXCEPT ![now] = "combining"] /\ UNCHANGED target
    /\ UNCHANGED <<now, size, taken, aborted, workers, part, child>>

\* cat target.part* > target: every part there is, in the order of its index.
Combine ==
    /\ now > 0 /\ phase[now] = "combining"
    /\ phase' = [phase EXCEPT ![now] = "dropping"]
    /\ target' = [i \in {j \in Index : part[j] # None} |-> part[i]]
    /\ UNCHANGED <<now, size, taken, aborted, workers, part, child>>

\* && rm -f target.part*
Drop ==
    /\ now > 0 /\ phase[now] = "dropping"
    /\ phase' = [phase EXCEPT ![now] = "done"]
    /\ part' = NoParts
    /\ child' = {}
    /\ UNCHANGED <<now, size, taken, aborted, workers, target>>

\* The merge fails, or COMBINE_TIMEOUT_MS passes.
CombineFails ==
    /\ now > 0 /\ phase[now] \in {"combining", "dropping"}
    /\ phase' = [phase EXCEPT ![now] = "cleaning"]
    /\ target' \in {target, Torn}
    /\ UNCHANGED <<now, size, taken, aborted, workers, part, child>>

\* The catch block: rm -f target.part*, then the error goes to the caller.
Clean ==
    /\ now > 0 /\ phase[now] = "cleaning"
    /\ phase' = [phase EXCEPT ![now] = "failed"]
    /\ part' = NoParts
    /\ child' = {}
    /\ UNCHANGED <<now, size, taken, aborted, workers, target>>

Next ==
    \/ \E n \in 0 .. MaxChunks : Begin(n)
    \/ \E p \in Worker : \/ Take(p) \/ ReadFails(p) \/ Spawn(p) \/ Wrote(p)
                         \/ WriteFails(p) \/ TimesOut(p)
    \/ \E c \in Chunk : OrphanWrites(c)
    \/ Cancel \/ Join \/ Combine \/ Drop \/ CombineFails \/ Clean

\* JavaScript's event loop runs what is ready, the FileReader and `rm` end,
\* and timers fire.  A write and a merge need not end by themselves.
Fairness ==
    /\ \A p \in Worker : WF_vars(Take(p)) /\ WF_vars(Spawn(p)) /\ WF_vars(TimesOut(p))
    /\ WF_vars(Join) /\ WF_vars(CombineFails) /\ WF_vars(Clean)

Spec == Init /\ [][Next]_vars /\ Fairness

----------------------------------------------------------------------------
(* Properties.                                                             *)

TypeOK ==
    /\ now \in 0 .. Attempts
    /\ size \in [1 .. Attempts -> 0 .. MaxChunks]
    /\ phase \in [1 .. Attempts -> {"unused", "running", "combining", "dropping",
                                    "cleaning", "done", "failed"}]
    /\ taken \in [1 .. Attempts -> 0 .. MaxChunks]
    /\ aborted \in [1 .. Attempts -> BOOLEAN]
    /\ at \in [Worker -> {"take", "read", "write", "gone"}]
    /\ chunk \in [Worker -> Nat]
    /\ part \in [Index -> Chunk \cup {None, Torn}]
    /\ child \subseteq Chunk

\* A resolved upload has left the file the user chose, each chunk once, whole
\* and in its place, whatever order the workers wrote in and whatever earlier
\* attempts on the same name left half-done (kpm.js:585-662).
WholeWhenDone ==
    now > 0 /\ phase[now] = "done" =>
        target = [i \in 0 .. size[now] - 1 |-> <<now, i>>]

\* An upload ends, although a write or the merge may hang (kpm.js:547-580).
Settles ==
    \A a \in 1 .. Attempts : phase[a] = "running" ~> phase[a] \in Settled
============================================================================
