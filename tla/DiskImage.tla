------------------------------ MODULE DiskImage ------------------------------
(***************************************************************************)
(* What a host reads from the virtual disk (vd_read_block), a FAT16 volume *)
(* computed sector by sector, and the way of the welcome page into it: the *)
(* generator compresses the page at build time (generator/main.c), the ROM *)
(* decompresses it into the sector and puts its serial number into it.     *)
(*                                                                         *)
(* A sector is a record of the fields that are not zero.  A text is a      *)
(* sequence of letters, among them PlaceHolder for the twelve characters   *)
(* that the serial number replaces.                                        *)
(***************************************************************************)
EXTENDS Integers, Sequences, FiniteSets

CONSTANTS
    Texts,          \* the pages to try
    PlaceHolder, Serial,
    MaxMatch, Window    \* of the compression: 127 and 255

VolumeSize  == 128 * 1024 * 1024
ClusterSize == 4096
SectorSize  == 512

ASSUME CompressionAssumption == MaxMatch \in Nat /\ Window \in Nat
\* Where the serial number belongs.
SerialPlaces(text) == {i \in 1..Len(text) : text[i] = PlaceHolder}

\* A page is a text that fits in a sector.  Like welcome.html it has two places
\* for the serial number, and something after the last of them.
ASSUME TextsAssumption ==
    \A text \in Texts :
        /\ text \in Seq({text[i] : i \in DOMAIN text}) /\ Len(text) <= SectorSize
        /\ \E i, j \in 1..(Len(text) - 1) : i < j /\ SerialPlaces(text) = {i, j}

SectorCount == VolumeSize \div SectorSize
VolumeSectorCount == SectorCount - 1
ClusterCount == VolumeSize \div ClusterSize
ClusterSectors == ClusterSize \div SectorSize
FatCount == 2
MaxRootDirectoryEntries == 512
RootDirectorySectors == (MaxRootDirectoryEntries * 32) \div SectorSize

SectorsPerFat == (2 * (ClusterCount + SectorSize - 1)) \div SectorSize

-----------------------------------------------------------------------------
(***************************************************************************)
(* The compression.  A compressed text is a sequence of letters and of     *)
(* copies of what came before.                                             *)
(***************************************************************************)

Copy(len, off)  == [letter |-> PlaceHolder, len |-> len, off |-> off]
Literal(letter) == [letter |-> letter, len |-> 0, off |-> 0]

Larger(a, b)  == IF a > b THEN a ELSE b
Smaller(a, b) == IF a < b THEN a ELSE b

\* The matches that compress looks for at a position: at least three letters
\* that occur before it, where they may overlap with themselves.
Matches(src, to) ==
    {m \in (3..Smaller(MaxMatch, Len(src) - to)) \X (Larger(0, to - Window)..(to - 1)) :
        \A i \in 1..m[1] : src[to + i] = src[m[2] + i]}

\* The longest match, and the first of its length.
Best(src, to) ==
    CHOOSE m \in Matches(src, to) : \A n \in Matches(src, to) :
        m[1] > n[1] \/ (m[1] = n[1] /\ m[2] <= n[2])

\* A turn of the loop: a copy if there is a match, then the letter after it.
After(src, to) == IF Matches(src, to) = {} THEN to ELSE to + Best(src, to)[1]
Symbols(src, to) ==
    (IF Matches(src, to) = {} THEN <<>>
     ELSE LET best == Best(src, to) IN <<Copy(best[1], to - best[2])>>)
    \o (IF After(src, to) = Len(src) THEN <<>> ELSE <<Literal(src[After(src, to) + 1])>>)

compress(src) ==
    LET from[to \in 0..(Len(src) + 1)] ==
            IF to >= Len(src) THEN <<>> ELSE Symbols(src, to) \o from[After(src, to) + 1]
    IN from[0]

\* Mutant of CopyBytes: the copied bytes are all read before one is written, as
\* by a memcpy of words.
CopyBytesAtOnce(buf, c) ==
    buf \o [i \in 1..c.len |->
              IF Len(buf) - c.off + i \in 1..Len(buf) THEN buf[Len(buf) - c.off + i]
              ELSE PlaceHolder]

\* The copy loop of poor_mans_text_decompress, byte by byte: it reads what it
\* has just written when a match overlaps with itself.
CopyBytes(buf, c) ==
    LET out[i \in 0..c.len] ==
            IF i = 0 THEN buf
            ELSE Append(out[i - 1], out[i - 1][Len(buf) - c.off + i])
    IN out[c.len]

Expand(buf, c) == IF c.len > 0 THEN CopyBytes(buf, c) ELSE Append(buf, c.letter)

\* The loop of the source takes at least one turn; compressed pages are not empty.
poor_mans_text_decompress(data) ==
    LET buf[i \in 0..Len(data)] == IF i = 0 THEN <<>> ELSE Expand(buf[i - 1], data[i])
    IN buf[Len(data)]

\* The places the generator's search finds, which stops short of one at the very
\* end of the page.
OffsetsFound(src) == {i \in 1..(Len(src) - 1) : src[i] = PlaceHolder}

First(places) == CHOOSE i \in places : \A j \in places : i <= j

\* welcome_html_version_offset_1 and _2: the first two that were found, and the
\* only two the ROM fills in.
VersionOffset1(src) == First(OffsetsFound(src))
VersionOffset2(src) == First(OffsetsFound(src) \ {VersionOffset1(src)})

\* The page as it is written into its sector.
WelcomePage(text) ==
    [poor_mans_text_decompress(compress(text)) EXCEPT
        ![VersionOffset1(text)] = Serial, ![VersionOffset2(text)] = Serial]

-----------------------------------------------------------------------------
(***************************************************************************)
(* The sectors.                                                            *)
(***************************************************************************)

Zero == [kind |-> "zero"]

Mbr == [kind |-> "mbr", type |-> "PT_FAT16_LBA", start |-> 1, count |-> SectorCount - 1]

BootSector ==
    [kind |-> "boot", bytes_per_sector |-> 512, sectors_per_cluster |-> ClusterSectors,
     reserved |-> 1, fats |-> FatCount, root_entries |-> MaxRootDirectoryEntries,
     sectors |-> VolumeSectorCount, sectors_per_fat |-> SectorsPerFat]

\* The first entries are the media type and a mark, then the two files end in
\* their first cluster.
FatSector == [kind |-> "fat", entries |-> <<16^4 - 8, 16^4 - 1, 16^4 - 1, 16^4 - 1>>]

DirEntry(name, cluster, size) == [name |-> name, cluster_lo |-> cluster, size |-> size]

RootSector(text) ==
    [kind |-> "dir", entries |-> <<DirEntry("INDEX   HTM", 2, Len(text)),
                                   DirEntry("INFO_UF2TXT", 3, 62)>>]

File(content) == [kind |-> "file", content |-> content]

DataSector(lba, text) ==
    LET cluster == lba \div ClusterSectors
    IN IF lba % ClusterSectors # 0 THEN Zero
       ELSE IF cluster = 0 THEN File(WelcomePage(text))
       ELSE IF cluster = 1 THEN File(<<"info_uf2_txt">>)
       ELSE Zero

\* After the partition table and the boot sector, the copies of the FAT, the
\* root directory and the clusters follow one another.
vd_read_block(lba, text) ==
    LET fat  == lba - 2
        root == fat - SectorsPerFat * FatCount
        data == root - RootDirectorySectors
    IN IF lba = 0 THEN Mbr
       ELSE IF lba = 1 THEN BootSector
       ELSE IF root < 0 THEN (IF fat % SectorsPerFat = 0 THEN FatSector ELSE Zero)
       ELSE IF data < 0 THEN (IF root = 0 THEN RootSector(text) ELSE Zero)
       ELSE DataSector(data, text)

-----------------------------------------------------------------------------
(***************************************************************************)
(* A host, which goes by what the sectors say.                             *)
(***************************************************************************)

Start  == vd_read_block(0, <<>>).start
Volume == vd_read_block(Start, <<>>)

FatStart(k) == Start + Volume.reserved + k * Volume.sectors_per_fat
RootStart   == FatStart(Volume.fats)
DataStart   == RootStart + (Volume.root_entries * 32) \div Volume.bytes_per_sector
Clusters    == (Start + Volume.sectors - DataStart) \div Volume.sectors_per_cluster
ClusterStart(c) == DataStart + (c - 2) * Volume.sectors_per_cluster

\* What the k-th FAT says of a cluster.
FatEntry(k, c) ==
    LET sector == vd_read_block(FatStart(k) + (2 * c) \div Volume.bytes_per_sector, <<>>)
        entry  == c % (Volume.bytes_per_sector \div 2)
    IN IF sector.kind = "fat" /\ entry < Len(sector.entries) THEN sector.entries[entry + 1]
       ELSE 0

EndOfChain(v) == v >= 16^4 - 8

\* The volume is one of FAT16, and its parts lie one after another in the
\* partition, with room in the FATs for every cluster.
VolumeIsSound ==
    /\ Volume.kind = "boot"
    /\ Volume.sectors = vd_read_block(0, <<>>).count
    /\ Clusters \in 4085..65524
    /\ 2 * (Clusters + 2) <= Volume.sectors_per_fat * Volume.bytes_per_sector
    /\ Start + Volume.sectors <= SectorCount
    /\ \A k \in 0..(Volume.fats - 1) : vd_read_block(FatStart(k), <<>>).kind = "fat"

Entries(text) ==
    LET root == vd_read_block(RootStart, text)
    IN {root.entries[i] : i \in 1..Len(root.entries)}

ContentOf(f, text) ==
    IF f.name = "INFO_UF2TXT" THEN <<"info_uf2_txt">>
    ELSE [i \in 1..Len(text) |-> IF i \in SerialPlaces(text) THEN Serial ELSE text[i]]

\* A file is in a cluster of its own that either FAT marks as the last, and the
\* rest of the cluster is empty.
FileIsSound(f, text) ==
    LET sector(n) == vd_read_block(ClusterStart(f.cluster_lo) + n, text)
    IN /\ f.cluster_lo \in 2..(Clusters + 1)
       /\ f.size <= Volume.bytes_per_sector
       /\ \A k \in 0..(Volume.fats - 1) : EndOfChain(FatEntry(k, f.cluster_lo))
       /\ sector(0) = File(ContentOf(f, text))
       /\ \A n \in 1..(Volume.sectors_per_cluster - 1) : sector(n) = Zero
       /\ \A g \in Entries(text) \ {f} : g.cluster_lo # f.cluster_lo

\* A host that follows partition table, boot sector, FAT and directory finds two
\* sound files and no cluster in use but theirs; a page of two places is what the
\* generator was given, with the serial number in both (vd_read_block, compress,
\* poor_mans_text_decompress, the offsets of the generator's main).
HostFindsFiles ==
    /\ VolumeIsSound
    /\ \A text \in Texts : \A f \in Entries(text) : FileIsSound(f, text)
    /\ \A k \in 0..(Volume.fats - 1), c \in 2..(Clusters + 1) :
          FatEntry(k, c) # 0 <=> \E f \in Entries(<<>>) : f.cluster_lo = c

=============================================================================
