------------------------------ MODULE FatRead -------------------------------
(***************************************************************************)
(* Reading a file of a FAT32 volume: fat_read and fat32_next_cluster,      *)
(* src/modules/fat/file.c. A byte of the disk is named by its place in the *)
(* file, so that a read is right when it returns consecutive places.       *)
(*                                                                         *)
(* The reader may be preempted at any point. It uses a sector of the file  *)
(* allocation table after it has released the cache's buffer of it, and by *)
(* then the buffer may hold another sector.  A read of the disk that fails *)
(* leaves the sector's buffer on the stack as it was, and goes unnoticed.  *)
(***************************************************************************)
EXTENDS Integers, Sequences, FiniteSets, FiniteSetsExt, SequencesExt

CONSTANTS
    bytesPerSector, sectorsPerCluster,
    Clusters,          \* numbers of the clusters of the volume
    CHAIN_END,         \* entries from here on end a chain: 0x0FFFFF6
    END_OF_CHAIN,      \* what mkfs writes at the end of a chain
    MaxSize            \* bound: bytes in the file, requested, and skipped

clusterSize == bytesPerSector * sectorsPerCluster

VARIABLES
    fileSize, chain,   \* the file: its size and its clusters
    size, offset0,     \* the request
    currentCluster, offset, currentPosition,
    buf,               \* the places copied so far; bytesRead is its length
    sectBuf,           \* the place of the first byte it holds, or UNKNOWN
    pc,
    stolen,            \* a table entry was read from a buffer of another sector
    failed             \* a read of the disk has failed; bound: at most one does

file == <<fileSize, chain, size, offset0>>
vars == <<file, currentCluster, offset, currentPosition, buf, sectBuf, pc, stolen, failed>>

UNKNOWN == -1

bytesRead == Len(buf)

\* An empty file has no cluster, and firstCluster 0.
Chains(bytes) ==
    LET n == (bytes + clusterSize - 1) \div clusterSize
    IN  {c \in [1..n -> Clusters] : IsInjective(c)}

Init ==
    /\ fileSize \in 0..MaxSize /\ chain \in Chains(fileSize)
    /\ size \in 0..MaxSize /\ offset0 \in 0..MaxSize
    /\ currentCluster = IF chain = <<>> THEN 0 ELSE chain[1]
    /\ offset = offset0 /\ currentPosition = 0 /\ buf = <<>>
    /\ sectBuf = UNKNOWN /\ pc = "start" /\ stolen = FALSE /\ failed = FALSE

\* The entry of a cluster in the allocation table: the file's chain, and other
\* files of one cluster.
Entry(c) ==
    IF \E i \in 1..(Len(chain) - 1) : chain[i] = c
    THEN chain[(CHOOSE i \in 1..(Len(chain) - 1) : chain[i] = c) + 1]
    ELSE END_OF_CHAIN

\* The place in the file of the first byte of sector i of cluster c.
Place(c, i) ==
    IF c \in ToSet(chain)
    THEN ((CHOOSE j \in DOMAIN chain : chain[j] = c) - 1) * clusterSize + i * bytesPerSector
    ELSE UNKNOWN

\* A variant: the end of the request is not looked at.
EnoughAtFileEnd(bytes) == bytes >= fileSize

\* A sector has been copied far enough.
Enough(bytes) == bytes >= fileSize \/ bytes > size

\* One pass of the loop over the bytes of a sector, on what the loop changes:
\* how far the file has been skipped, the bytes copied, and the break.
CopySector(s, sect) ==
    LET Byte(t, k) ==
            IF t.break THEN t
            ELSE IF t.position < t.offset THEN [t EXCEPT !.position = @ + 1]
            ELSE [position |-> t.position + 1, offset |-> t.offset + 1,
                  buf |-> Append(t.buf, IF sect = UNKNOWN THEN UNKNOWN ELSE sect + k),
                  break |-> Enough(Len(t.buf) + 1)]
    IN  FoldLeft(Byte, [s EXCEPT !.break = FALSE], [k \in 1..bytesPerSector |-> k - 1])

\* What the buffer holds for each sector in turn, when the reads of bad fail.
Sectors(bad) ==
    LET held[i \in 0..sectorsPerCluster] ==
            IF i = 0 THEN sectBuf
            ELSE IF i - 1 \in bad THEN held[i - 1] ELSE Place(currentCluster, i - 1)
    IN  [i \in 1..sectorsPerCluster |-> held[i]]

CopyCluster(sectors) ==
    FoldLeft(CopySector,
             [position |-> currentPosition, offset |-> offset, buf |-> buf, break |-> FALSE],
             sectors)

Start ==
    /\ pc = "start"
    /\ pc' = IF offset >= fileSize THEN "done" ELSE "loop"
    /\ UNCHANGED <<file, currentCluster, offset, currentPosition, buf, sectBuf, stolen, failed>>

\* The loop's condition and the copying of one cluster.
fat_read ==
    /\ pc = "loop"
    /\ IF bytesRead < size /\ currentCluster # 0 /\ bytesRead # fileSize
       THEN \E bad \in {{}} \cup {{i} : i \in 0..(sectorsPerCluster - 1)} :
              /\ bad # {} => ~failed
              /\ failed' = (failed \/ bad # {})
              /\ LET s == CopyCluster(Sectors(bad))
                 IN  offset' = s.offset /\ currentPosition' = s.position /\ buf' = s.buf
              /\ sectBuf' = Sectors(bad)[sectorsPerCluster]
              /\ pc' = "next"
       ELSE pc' = "done" /\ UNCHANGED <<offset, currentPosition, buf, sectBuf, failed>>
    /\ UNCHANGED <<file, currentCluster, stolen>>

\* The entry is tested while the buffer is held and read again after. Between
\* the two another reader may take the buffer over. A table sector that cannot
\* be read ends the chain.
fat32_next_cluster ==
    /\ pc = "next"
    /\ pc' = "loop"
    /\ \/ /\ currentCluster' = IF Entry(currentCluster) >= CHAIN_END THEN 0
                               ELSE Entry(currentCluster)
          /\ UNCHANGED <<stolen, failed>>
       \/ /\ Entry(currentCluster) < CHAIN_END
          /\ currentCluster' \in Clusters \cup {0}
          /\ stolen' = TRUE /\ UNCHANGED failed
       \/ /\ ~failed /\ failed' = TRUE
          /\ currentCluster' = 0 /\ UNCHANGED stolen
    /\ UNCHANGED <<file, offset, currentPosition, buf, sectBuf>>

Done == pc = "done" /\ UNCHANGED vars

Next == Start \/ fat_read \/ fat32_next_cluster \/ Done

Spec == Init /\ [][Next]_vars

----------------------------------------------------------------------------
\* Properties.

\* The bytes asked for: from the offset to the end of the request or of the file.
Asked == IF offset0 >= fileSize THEN 0 ELSE Min({size, fileSize - offset0})

\* The end of the file stops fat_read only when as many bytes were copied as the file
\* has.  A request that starts inside the file and passes its end therefore goes on
\* into the rest of the last cluster.
PassesEnd == 0 < offset0 /\ offset0 < fileSize /\ fileSize < offset0 + size

Wanted ==
    IF PassesEnd THEN Min({size, fileSize, Len(chain) * clusterSize - offset0}) ELSE Asked

\* A read that ends with no failing disk and its table entries intact has copied the
\* bytes asked for, in order.  It copies more than those: the rest of the last cluster
\* when the request passes the end of the file (PassesEnd), and then at most a byte for
\* each sector of a cluster, since the break leaves the loop over one sector only, and
\* a byte late.  All of them are bytes of the file's own clusters, each copied once,
\* and never more than sectorsPerCluster lie past the caller's buffer, failures or not.
ReadCorrect ==
    /\ pc = "done" /\ ~stolen /\ ~failed =>
         bytesRead >= Asked /\ \A j \in 1..Asked : buf[j] = offset0 + j - 1
    /\ ~stolen => bytesRead <= Wanted + sectorsPerCluster
    /\ ~stolen /\ ~failed =>
         /\ \A j \in 1..bytesRead : buf[j] \in offset0 .. (Len(chain) * clusterSize - 1)
         /\ \A j \in 2..bytesRead : buf[j - 1] < buf[j]
    /\ bytesRead <= size + sectorsPerCluster
=============================================================================
