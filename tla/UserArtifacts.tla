--------------------------- MODULE UserArtifacts ---------------------------
(***************************************************************************)
(* The user artifacts of the host orchestrator                             *)
(* (host_orchestrator/orchestrator/userartifacts.go): a file is uploaded   *)
(* in chunks, by requests that run at once, possibly to several            *)
(* orchestrators that share RootDir; it is published by a rename when its  *)
(* checksum matches, and extracted once.  One checksum is modelled, the    *)
(* one of the file whose Size bytes are all "good".                        *)
(***************************************************************************)
EXTENDS ChunkState, Sequences

CONSTANTS Orchestrators,  \* processes that share RootDir
          Uploads,        \* requests that upload a chunk
          Extractions,    \* requests that extract the artifact
          Names,          \* file names that uploads give
          Size,           \* the size of the file with that checksum
          Jobs,           \* per upload: what it may carry, and to whom
          MaxRestarts,    \* bound: how often orchestrators are restarted
          None

(* UserArtifactChunk; all its bytes are what they should be, or none is.   *)
Chunk == [name : Names, offset : Nat, size : Nat, fileSize : Nat, byte : {"good", "bad"}]

ChunkStates == [fileSize : Nat, ups : SUBSET Nat, downs : SUBSET Nat]

Byte == {"good", "bad", "hole"}

ASSUME ArtifactsAssumption ==
    /\ Size \in Nat /\ MaxRestarts \in Nat
    /\ None \notin Orchestrators \cup Uploads
    /\ None \notin Seq(Byte) /\ None \notin ChunkStates
    /\ \A u \in Uploads : \A j \in Jobs[u] :
          /\ j \in [o : Orchestrators, c : Chunk]
          /\ j.c.offset + j.c.size <= j.c.fileSize

VARIABLES root,       \* the orchestrator whose directory became RootDir/checksum
          dir,        \* the files in the directory WorkDir/checksum of each
          cs,         \* chunkStates
          covered,    \* the bytes that were reported to it (history)
          readers,    \* holders of the RWMutex: uploads that read-locked it
          writer,     \* and the one that locked it
          at,         \* where an upload is
          job,        \* the orchestrator and the chunk of an upload
          pos,        \* bytes it has written
          extracted,  \* whether the directory of the extracted files exists
          ex,         \* where an extraction is
          broken,     \* orchestrators that had a write or a move fail (history)
          restarts    \* how often an orchestrator was restarted (bound)

vars == <<root, dir, cs, covered, readers, writer, at, job, pos, extracted, ex, broken, restarts>>

File == Seq(Byte) \cup {None}

TypeOK ==
    /\ root \in Orchestrators \cup {None}
    /\ dir \in [Orchestrators -> [Names -> File]]
    /\ cs \in [Orchestrators -> ChunkStates \cup {None}]
    /\ covered \in [Orchestrators -> SUBSET Nat]
    /\ readers \in [Orchestrators -> SUBSET Uploads]
    /\ writer \in [Orchestrators -> Uploads \cup {None}]
    /\ at \in [Uploads -> {"idle", "rlock", "write", "ask", "lock", "move",
                           "ok", "conflict", "error", "lost"}]
    /\ job \in [Uploads -> [o : Orchestrators, c : Chunk] \cup {None}]
    /\ pos \in [Uploads -> Nat]
    /\ extracted \in BOOLEAN
    /\ ex \in [Extractions -> {"idle", "extract", "ok", "conflict", "error"}]
    /\ broken \subseteq Orchestrators
    /\ restarts \in 0..MaxRestarts

Init ==
    /\ root = None
    /\ dir = [o \in Orchestrators |-> [n \in Names |-> None]]
    /\ cs = [o \in Orchestrators |-> None]
    /\ covered = [o \in Orchestrators |-> {}]
    /\ readers = [o \in Orchestrators |-> {}] /\ writer = [o \in Orchestrators |-> None]
    /\ at = [u \in Uploads |-> "idle"] /\ job = [u \in Uploads |-> None]
    /\ pos = [u \in Uploads |-> 0]
    /\ extracted = FALSE /\ ex = [e \in Extractions |-> "idle"]
    /\ broken = {} /\ restarts = 0

Goto(u, where) == at' = [at EXCEPT ![u] = where]

RUnlock(u) == readers' = [readers EXCEPT ![job[u].o] = @ \ {u}]

Unlock(u) == writer' = [writer EXCEPT ![job[u].o] = None]

-----------------------------------------------------------------------------
(* UpdateArtifact, for a chunk that passes the checks of its numbers       *)

UpdateArtifact(u) ==
    /\ at[u] = "idle"
    /\ \E j \in Jobs[u] : job' = [job EXCEPT ![u] = j]
    /\ Goto(u, "rlock")
    /\ UNCHANGED <<root, dir, cs, covered, readers, writer, pos, extracted, ex, broken, restarts>>

WriteChunkUnlocked(u) ==
    LET o == job[u].o  n == job[u].c.name IN
    /\ at[u] = "rlock"
    /\ \/ /\ root # None
          /\ Goto(u, "conflict")
          /\ UNCHANGED dir
       \/ /\ root = None
          /\ dir' = IF dir[o][n] = None THEN [dir EXCEPT ![o][n] = <<>>] ELSE dir
          /\ Goto(u, "write")
    /\ UNCHANGED <<root, cs, covered, readers, writer, job, pos, extracted, ex, broken, restarts>>

(* writeChunkAndUpdateState: an artifact that is published is left alone;  *)
(* otherwise the working directory and the file are made if need be.       *)
WriteChunkStarts(u) ==
    LET o == job[u].o  n == job[u].c.name IN
    /\ at[u] = "rlock" /\ writer[o] = None
    /\ \/ /\ root # None
          /\ Goto(u, "conflict")
          /\ UNCHANGED <<dir, readers>>
       \/ /\ root = None
          /\ readers' = [readers EXCEPT ![o] = @ \cup {u}]
          /\ dir' = IF dir[o][n] = None THEN [dir EXCEPT ![o][n] = <<>>] ELSE dir
          /\ Goto(u, "write")
    /\ UNCHANGED <<root, cs, covered, writer, job, pos, extracted, ex, broken, restarts>>

(* Byte i of a file: a write past its end leaves a hole.                   *)
Put(file, i, b) ==
    [j \in 1..(IF Len(file) > i THEN Len(file) ELSE i) |->
        IF j = i THEN b ELSE IF j <= Len(file) THEN file[j] ELSE "hole"]

(* writeChunk; the file is where its directory is.                         *)
WriteChunk(u) ==
    LET o == job[u].o  c == job[u].c IN
    /\ at[u] = "write" /\ pos[u] < c.size
    /\ dir' = [dir EXCEPT ![o][c.name] = Put(@, c.offset + pos[u] + 1, c.byte)]
    /\ pos' = [pos EXCEPT ![u] = @ + 1]
    /\ UNCHANGED <<root, cs, covered, readers, writer, at, job, extracted, ex, broken, restarts>>

WriteChunkFails(u) ==
    /\ at[u] = "write"
    /\ Goto(u, "error")
    /\ RUnlock(u)
    /\ broken' = broken \cup {job[u].o}
    /\ UNCHANGED <<root, dir, cs, covered, writer, job, pos, extracted, ex, restarts>>

(* getChunkState, with the file size of the chunk that comes first; an     *)
(* error of Update is ignored.                                             *)
UpdateState(u) ==
    LET o == job[u].o  c == job[u].c
        state == IF cs[o] = None THEN NewChunkState(c.fileSize) ELSE cs[o]
        end == c.offset + c.size
        valid == InRange(state, c.offset, end)
    IN
    /\ at[u] = "write" /\ pos[u] = c.size
    /\ cs' = [cs EXCEPT ![o] = IF valid THEN Update(state, c.offset, end) ELSE state]
    /\ covered' = IF valid THEN [covered EXCEPT ![o] = @ \cup c.offset .. (end - 1)] ELSE covered
    /\ Goto(u, "ask")
    /\ UNCHANGED <<root, dir, readers, writer, job, pos, extracted, ex, broken, restarts>>

AskCompletedOnly(u) ==
    /\ at[u] = "ask"
    /\ Goto(u, "ok")
    /\ RUnlock(u)
    /\ UNCHANGED <<root, dir, cs, covered, writer, job, pos, extracted, ex, broken, restarts>>

AskCompletedKeepsLock(u) ==
    /\ at[u] = "ask"
    /\ Goto(u, IF IsCompleted(cs[job[u].o]) THEN "lock" ELSE "ok")
    /\ UNCHANGED <<root, dir, cs, covered, readers, writer, job, pos, extracted, ex, broken, restarts>>

AskCompleted(u) ==
    /\ at[u] = "ask"
    /\ Goto(u, IF IsCompleted(cs[job[u].o]) THEN "lock" ELSE "ok")
    /\ RUnlock(u)
    /\ UNCHANGED <<root, dir, cs, covered, writer, job, pos, extracted, ex, broken, restarts>>

Genuine(file) == file # None /\ Len(file) = Size /\ \A i \in 1..Size : file[i] = "good"

(* validateChecksum *)
Matches(u) ==
    LET file == dir[job[u].o][job[u].c.name] IN
    Genuine(file) /\ job[u].c.fileSize = Len(file)

(* moveArtifactIfNeeded, up to the rename.                                 *)
MoveArtifactStarts(u) ==
    LET o == job[u].o IN
    /\ at[u] = "lock" /\ writer[o] = None /\ readers[o] = {}
    /\ IF root = None /\ Matches(u)
       THEN Goto(u, "move") /\ writer' = [writer EXCEPT ![o] = u]
       ELSE Goto(u, "ok") /\ UNCHANGED writer
    /\ UNCHANGED <<root, dir, cs, covered, readers, job, pos, extracted, ex, broken, restarts>>

MoveArtifactOver(u) ==
    LET o == job[u].o IN
    /\ at[u] = "move"
    /\ root' = o
    /\ cs' = [cs EXCEPT ![o] = None]
    /\ covered' = [covered EXCEPT ![o] = {}]
    /\ Goto(u, "ok")
    /\ Unlock(u)
    /\ UNCHANGED <<dir, readers, job, pos, extracted, ex, broken, restarts>>

(* The rename fails if another orchestrator published the artifact.        *)
MoveArtifact(u) ==
    LET o == job[u].o IN
    /\ at[u] = "move"
    /\ \/ /\ root = None
          /\ root' = o
          /\ cs' = [cs EXCEPT ![o] = None]
          /\ covered' = [covered EXCEPT ![o] = {}]
          /\ Goto(u, "ok")
       \/ /\ root # None
          /\ Goto(u, "error")
          /\ UNCHANGED <<root, cs, covered>>
    /\ Unlock(u)
    /\ UNCHANGED <<dir, readers, job, pos, extracted, ex, broken, restarts>>

(* The directory cannot be looked up, the file not be read, or the rename  *)
(* fails for another reason.                                               *)
MoveArtifactFails(u) ==
    LET o == job[u].o IN
    /\ at[u] = "move" \/ (at[u] = "lock" /\ writer[o] = None /\ readers[o] = {})
    /\ Goto(u, "error")
    /\ Unlock(u)
    /\ broken' = broken \cup {o}
    /\ UNCHANGED <<root, dir, cs, covered, readers, job, pos, extracted, ex, restarts>>

-----------------------------------------------------------------------------
(* ExtractArtifact *)

Files(o) == {n \in Names : dir[o][n] # None}

ExtractStarts(e) ==
    /\ ex[e] = "idle"
    /\ \/ extracted /\ ex' = [ex EXCEPT ![e] = "conflict"]
       \/ /\ ~extracted
          /\ ex' = [ex EXCEPT ![e] =
                IF root # None /\ \E n \in Names : Files(root) = {n} THEN "extract" ELSE "error"]
    /\ UNCHANGED <<root, dir, cs, covered, readers, writer, at, job, pos, extracted, broken, restarts>>

(* The files are unpacked in a directory of their own, which gets its name *)
(* when all is done.                                                       *)
ExtractEnds(e) ==
    /\ ex[e] = "extract"
    /\ \/ ~extracted /\ extracted' = TRUE /\ ex' = [ex EXCEPT ![e] = "ok"]
       \/ ex' = [ex EXCEPT ![e] = "error"] /\ UNCHANGED extracted
    /\ UNCHANGED <<root, dir, cs, covered, readers, writer, at, job, pos, broken, restarts>>

-----------------------------------------------------------------------------
Active == {"rlock", "write", "ask", "lock", "move"}

(* The process dies; the next one starts with a working directory of its   *)
(* own and empty maps.                                                     *)
Restart(o) ==
    /\ restarts < MaxRestarts
    /\ restarts' = restarts + 1
    /\ at' = [u \in Uploads |-> IF at[u] \in Active /\ job[u].o = o THEN "lost" ELSE at[u]]
    /\ dir' = IF root = o THEN dir ELSE [dir EXCEPT ![o] = [n \in Names |-> None]]
    /\ cs' = [cs EXCEPT ![o] = None] /\ covered' = [covered EXCEPT ![o] = {}]
    /\ readers' = [readers EXCEPT ![o] = {}] /\ writer' = [writer EXCEPT ![o] = None]
    /\ UNCHANGED <<root, job, pos, extracted, ex, broken>>

UploadStep(u) ==
    \/ WriteChunkStarts(u) \/ WriteChunk(u) \/ WriteChunkFails(u) \/ UpdateState(u)
    \/ AskCompleted(u) \/ MoveArtifactStarts(u) \/ MoveArtifact(u) \/ MoveArtifactFails(u)

Next ==
    \/ \E u \in Uploads : UpdateArtifact(u) \/ UploadStep(u)
    \/ \E e \in Extractions : ExtractStarts(e) \/ ExtractEnds(e)
    \/ \E o \in Orchestrators : Restart(o)

(* A request that was taken up is worked on.                               *)
Fairness == \A u \in Uploads : WF_vars(UploadStep(u))

Spec == Init /\ [][Next]_vars /\ Fairness

-----------------------------------------------------------------------------
(* Properties *)

(* What is published under a checksum has it, for good: no upload that     *)
(* overlaps, comes late or hits another orchestrator spoils it.            *)
PublishedIsGenuine == root # None => \E n \in Names : Genuine(dir[root][n])

(* "After Host Orchestrator moves user artifacts from the working          *)
(* directory into here, it becomes immutable."                             *)
PublishedIsImmutable == [][root # None => root' = root /\ dir'[root] = dir[root]]_vars

(* IsCompleted says that the upload is complete exactly when every byte of *)
(* the file was reported, in whatever order and however overlapping.       *)
CompletedIsExact ==
    \A o \in Orchestrators : cs[o] # None =>
        (IsCompleted(cs[o]) <=> cs[o].fileSize > 0 /\ covered[o] = 0 .. (cs[o].fileSize - 1))

WholeAt(o) ==
    /\ \E n \in Names : Genuine(dir[o][n])
    /\ cs[o] # None /\ cs[o].fileSize = Size /\ covered[o] = 0 .. (Size - 1)

(* When all requests are over, a file that is all there is published: the  *)
(* last of several requests that complete it at once does not miss it.     *)
(* (A write that failed half way may have made it whole unnoticed, and     *)
(* nobody tries again after a look-up, a read or a rename that failed.     *)
(* With uploads that disagree on the size of the file it depends on which  *)
(* comes first: the proof assumes that they agree.)                        *)
WholeIsPublished ==
    (\A u \in Uploads : at[u] \notin Active)
        => \A o \in Orchestrators \ broken : WholeAt(o) => root # None

(* Every request ends: the two locks of one request never wait on each     *)
(* other.                                                                  *)
UploadsEnd == \A u \in Uploads : at[u] \in Active ~> at[u] \notin Active
=============================================================================
