-------------------------- MODULE MCUserArtifacts --------------------------
(* A file of three bytes, three uploads, two orchestrators.                *)
EXTENDS UserArtifacts, TLC

CONSTANTS o1, o2, u1, u2, u3

ChunkFor(o, name, offset, size, fileSize, byte) ==
    [o |-> o, c |-> [name |-> name, offset |-> offset, size |-> size,
                     fileSize |-> fileSize, byte |-> byte]]

Good(o, offset, size) == ChunkFor(o, "a", offset, size, 3, "good")

(* Chunks that overlap, the whole file to both orchestrators, a chunk with *)
(* wrong bytes, one with a wrong file size and one with another name.      *)
MCJobs ==
    (u1 :> {Good(o1, 0, 2), Good(o1, 0, 3)}) @@
    (u2 :> {Good(o1, 1, 2), Good(o2, 0, 3), ChunkFor(o1, "a", 0, 1, 2, "good")}) @@
    (u3 :> {Good(o1, 2, 1), ChunkFor(o1, "a", 1, 1, 3, "bad"),
            ChunkFor(o1, "b", 0, 1, 3, "good")})
=============================================================================
