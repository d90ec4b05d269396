------------------------------ MODULE MCFiles ------------------------------
(***************************************************************************)
(* Instances of the way from a file to a disk block: reading a FAT file    *)
(* and the buffer cache. `part' chooses which component a behaviour        *)
(* exercises; the others rest, the cache in its initial state.             *)
(***************************************************************************)
EXTENDS Bcache, TLC

bvars == vars
VARIABLES fileSize, chain, size, offset0, currentCluster, offset, currentPosition, buf,
          f_pc, stolen, failed, sectBuf
fvars == <<fileSize, chain, size, offset0, currentCluster, offset, currentPosition, buf,
          f_pc, stolen, failed, sectBuf>>
VARIABLE part

(* Bcache: three buffers, three readable blocks and one on a drive that cannot be read *)
\* Callers and readable blocks are interchangeable.
Alike == Permutations(Callers) \cup Permutations(Blocks)

(* FatRead: files of up to three clusters of two two-byte sectors *)
F == INSTANCE FatRead WITH bytesPerSector <- 2, sectorsPerCluster <- 2,
       Clusters <- {2, 3, 5}, CHAIN_END <- 6, END_OF_CHAIN <- 7, MaxSize <- 10, pc <- f_pc

BRests == Init
FRests ==
    /\ fileSize = 0 /\ chain = 0 /\ size = 0 /\ offset0 = 0 /\ currentCluster = 0
    /\ offset = 0 /\ currentPosition = 0 /\ buf = 0 /\ f_pc = 0 /\ stolen = 0
    /\ failed = 0 /\ sectBuf = 0

AllInit ==
    \/ part = "cache" /\ Init /\ FRests
    \/ part = "fat" /\ F!Init /\ BRests
AllNext ==
    \/ part = "cache" /\ Next /\ UNCHANGED <<part, fvars>>
    \/ part = "fat" /\ F!Next /\ UNCHANGED <<part, bvars>>
AllSpec == AllInit /\ [][AllNext]_<<part, bvars, fvars>>

(* fat_read returns the bytes asked for in order; the excess is what FatRead!ReadCorrect
   says: the rest of the last cluster when the request passes the end of the file, and a
   byte for each sector of a cluster. *)
ReadCorrect == part = "fat" => F!ReadCorrect
=============================================================================
