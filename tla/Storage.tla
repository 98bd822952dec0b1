------------------------------ MODULE Storage ------------------------------
(***************************************************************************)
(* The disk and what a boot does to it: disk_init (drivers/disk.c),        *)
(* partition_init (drivers/partition.c), and kernel_main's mount of the    *)
(* first partition, which formats it when there is no MesaFS on it         *)
(* (kernel.c, drivers/mesafs.c).  After the boot nothing writes to the     *)
(* disk: mesafs_write returns -1.                                          *)
(*                                                                         *)
(* The disk is an array of sectors; a sector holds what the code tells     *)
(* apart.  Sector writes are atomic and each is a step, and power may fail *)
(* between any two of them; a later boot finds what was written.           *)
(*                                                                         *)
(* An operator whose comment begins with "Fault:" is a plausible mistake   *)
(* in the definition after it; substituting it must break a property.      *)
(***************************************************************************)
EXTENDS Integers

CONSTANTS DiskSizes,        \* sectors of the disks tried; 0: no disk answers
          VirtualSectors,   \* DISK_TOTAL_SECTORS: 32768
          HeapSectors,      \* KHEAP_SIZE in sectors: 8192
          LbaStart,         \* lba_start of the first partition: 2048
          DefaultSectors,   \* num_sectors of the default one: 16384
          PartSizes,        \* num_sectors of the partitions tried
          BlockSectors,     \* sectors of a block: 8
          MetaBlocks,       \* blocks reserved for metadata: 10
          MaxCrashes        \* bound on power failures

ASSUME StorageAssumption ==
    /\ DiskSizes \subseteq Nat /\ PartSizes \subseteq Nat
    /\ {VirtualSectors, HeapSectors, DefaultSectors, MaxCrashes} \subseteq Nat
    /\ {LbaStart, BlockSectors, MetaBlocks} \subseteq Nat \ {0}
    /\ VirtualSectors > HeapSectors
    /\ MetaBlocks >= 3                      \* superblock, inodes, directory
    /\ BlockSectors < LbaStart + DefaultSectors

VARIABLES
    size,       \* sectors the drive has
    disk,       \* their contents
    atPowerOn,  \* history: the contents when this boot began
    boot,       \* how far the boot has come
    sectors,    \* disk_total_sectors
    part,       \* partition_get(0): a partition entry or none
    nextWrite,  \* sectors mesafs_format has written
    fs,         \* mounted_fs: total_blocks of its superblock, 0 for NULL
    crashes     \* power failures so far

storageVars == <<size, disk, atPowerOn, boot, sectors, part, nextWrite, fs, crashes>>

SectorNumbers == 0..(2 * LbaStart + DefaultSectors)   \* the ones the model looks at

\* What a sector holds; the number is what stands where a superblock has
\* its total_blocks.
Junk == <<"junk", 1>>
Zero == <<"zero", 0>>
Mbr(type, n) == <<"mbr", type, n>>         \* signature and first entry
Superblock(blocks) == <<"superblock", blocks>>
RootInSlot0 == <<"inodes", 0>>             \* the root inode, then zeros
NoPart == <<"none", 0>>

IsMbr(c) == c[1] = "mbr"
IsSuperblock(c) == c[1] = "superblock"

Layouts ==                                 \* the first sectors of the disks tried
    {Junk} \cup {Mbr(type, n) : type \in {"MESAFS", "FAT16"}, n \in PartSizes}

BootInit ==
    /\ size \in DiskSizes
    /\ \E first \in Layouts : disk = [s \in SectorNumbers |-> IF s = 0 THEN first ELSE Junk]
    /\ atPowerOn = disk
    /\ boot = "disk"
    /\ sectors = 0
    /\ part = NoPart
    /\ nextWrite = 0
    /\ fs = 0
    /\ crashes = 0

-----------------------------------------------------------------------------
(* Sectors *)

\* disk_read_sector and disk_write_sector return 0.
Readable(lba) == lba < sectors

-----------------------------------------------------------------------------
(* disk_init and partition_init *)

\* disk_init: ata_identify finds the drive and its size.  Without a drive
\* the fallback asks the kernel heap for a virtual disk of VirtualSectors,
\* kmalloc returns NULL, and the disk has no sectors.
DiskInit ==
    /\ boot = "disk"
    /\ sectors' = size
    /\ boot' = "mbr"
    /\ UNCHANGED <<size, disk, atPowerOn, part, nextWrite, fs, crashes>>

\* partition_read_mbr returns 0
MbrIsValid == Readable(0) /\ IsMbr(disk[0])

\* The valid table is listed; empty entries are not, and the others are
\* FAT partitions that this model does not look at.
ReadTable ==
    /\ boot = "mbr"
    /\ MbrIsValid
    /\ part' = <<disk[0][2], disk[0][3]>>
    /\ boot' = "mount"
    /\ UNCHANGED <<size, disk, atPowerOn, sectors, nextWrite, fs, crashes>>

\* Fault: any read of sector 0 is followed by the default table.
WriteDefaultTable_Always ==
    /\ boot = "mbr"
    /\ Readable(0)
    /\ disk' = [disk EXCEPT ![0] = Mbr("MESAFS", DefaultSectors)]
    /\ part' = <<"MESAFS", DefaultSectors>>
    /\ boot' = "mount"
    /\ UNCHANGED <<size, atPowerOn, sectors, nextWrite, fs, crashes>>

\* No valid table: one with a MesaFS partition is written and listed.
WriteDefaultTable ==
    /\ boot = "mbr"
    /\ ~MbrIsValid
    /\ Readable(0)
    /\ disk' = [disk EXCEPT ![0] = Mbr("MESAFS", DefaultSectors)]
    /\ part' = <<"MESAFS", DefaultSectors>>
    /\ boot' = "mount"
    /\ UNCHANGED <<size, atPowerOn, sectors, nextWrite, fs, crashes>>

\* The default table cannot be written: no partition is listed.
NoTable ==
    /\ boot = "mbr"
    /\ ~Readable(0)
    /\ boot' = "mount"
    /\ UNCHANGED <<size, disk, atPowerOn, sectors, part, nextWrite, fs, crashes>>

-----------------------------------------------------------------------------
(* kernel_main: mount, or format and mount *)

HasMesaFS == part[1] = "MESAFS"
MountPoints == {"mount", "remount"}

\* Fault: the magic number is looked for in the sector behind the superblock.
SuperblockIsValid_NextSector == Readable(LbaStart) /\ IsSuperblock(disk[LbaStart + 1])

\* mesafs_mount reads the superblock and finds its magic number.
SuperblockIsValid == Readable(LbaStart) /\ IsSuperblock(disk[LbaStart])

NoPartition ==
    /\ boot = "mount"
    /\ ~HasMesaFS
    /\ boot' = "up"
    /\ UNCHANGED <<size, disk, atPowerOn, sectors, part, nextWrite, fs, crashes>>

\* mesafs_mount takes total_blocks from the superblock it found.
Mount ==
    /\ boot \in MountPoints
    /\ HasMesaFS
    /\ SuperblockIsValid
    /\ fs' = disk[LbaStart][2]
    /\ boot' = "up"
    /\ UNCHANGED <<size, disk, atPowerOn, sectors, part, nextWrite, crashes>>

Blocks == part[2] \div BlockSectors

\* Fault: no lower limit on the partition's size.
BigEnough_Always == TRUE

\* mesafs_format: fewer than 10 blocks are refused.
BigEnough == Blocks >= MetaBlocks

\* The first mount failed: mesafs_format begins or refuses.
MountFails ==
    /\ boot = "mount"
    /\ HasMesaFS
    /\ ~SuperblockIsValid
    /\ boot' = IF BigEnough THEN "format" ELSE "up"
    /\ nextWrite' = 0
    /\ UNCHANGED <<size, disk, atPowerOn, sectors, part, fs, crashes>>

\* The sectors mesafs_format writes, in its order: the superblock, the inode
\* block behind it, and the root directory's block one SECTOR further on.
FormatLba(k) ==
    CASE k = 0 -> LbaStart
      [] k \in 1..BlockSectors -> LbaStart + k
      [] OTHER -> LbaStart + 1 + (k - BlockSectors)
FormatData(k) ==
    CASE k = 0 -> Superblock(Blocks)
      [] k = 1 -> RootInSlot0
      [] OTHER -> Zero
FormatWrites == 1 + 2 * BlockSectors

FormatWrite ==
    /\ boot = "format"
    /\ nextWrite < FormatWrites
    /\ Readable(FormatLba(nextWrite))
    /\ disk' = [disk EXCEPT ![FormatLba(nextWrite)] = FormatData(nextWrite)]
    /\ nextWrite' = nextWrite + 1
    /\ UNCHANGED <<size, atPowerOn, boot, sectors, part, fs, crashes>>

\* Fault: the result of mesafs_format is not looked at.
FormatFails_Ignored ==
    /\ boot = "format"
    /\ nextWrite < FormatWrites
    /\ ~Readable(FormatLba(nextWrite))
    /\ boot' = "remount"
    /\ UNCHANGED <<size, disk, atPowerOn, sectors, part, nextWrite, fs, crashes>>

\* A write beyond the end of the disk: the format fails and nothing is mounted.
FormatFails ==
    /\ boot = "format"
    /\ nextWrite < FormatWrites
    /\ ~Readable(FormatLba(nextWrite))
    /\ boot' = "up"
    /\ UNCHANGED <<size, disk, atPowerOn, sectors, part, nextWrite, fs, crashes>>

\* Fault: the boot formats again instead of mounting what it formatted.
FormatDone_Again ==
    /\ boot = "format"
    /\ nextWrite = FormatWrites
    /\ nextWrite' = 0
    /\ UNCHANGED <<size, disk, atPowerOn, boot, sectors, part, fs, crashes>>

FormatDone ==
    /\ boot = "format"
    /\ nextWrite = FormatWrites
    /\ boot' = "remount"
    /\ UNCHANGED <<size, disk, atPowerOn, sectors, part, nextWrite, fs, crashes>>

-----------------------------------------------------------------------------
(* Power *)

\* Power fails, or the machine is switched off, and a new boot begins.
Restart ==
    /\ crashes < MaxCrashes
    /\ crashes' = crashes + 1
    /\ atPowerOn' = disk
    /\ boot' = "disk"
    /\ sectors' = 0
    /\ part' = NoPart
    /\ nextWrite' = 0
    /\ fs' = 0
    /\ UNCHANGED <<size, disk>>

BootStep ==
    \/ DiskInit \/ ReadTable \/ WriteDefaultTable \/ NoTable
    \/ NoPartition \/ Mount \/ MountFails \/ FormatWrite \/ FormatFails \/ FormatDone

BootNext == BootStep \/ Restart

\* The boot is sequential code; the drive is assumed to answer, for the loop
\* in ata_wait_data that waits for DRQ has no limit.
BootFairness == WF_storageVars(BootStep)

BootSpec == BootInit /\ [][BootNext]_storageVars /\ BootFairness

-----------------------------------------------------------------------------
(* Properties *)

SectorContents == {Junk, Zero, RootInSlot0}
    \cup {Mbr(t, n) : t \in {"MESAFS", "FAT16"}, n \in PartSizes \cup {DefaultSectors}}
    \cup {Superblock(n \div BlockSectors) : n \in PartSizes \cup {DefaultSectors}}

\* Sectors hold what the code writes, and a mounted file system has as many
\* blocks as a partition that was large enough to format.
StorageTypeOK ==
    /\ size \in DiskSizes
    /\ disk \in [SectorNumbers -> SectorContents]
    /\ atPowerOn \in [SectorNumbers -> SectorContents]
    /\ boot \in {"disk", "mbr", "mount", "format", "remount", "up"}
    /\ sectors \in DiskSizes \cup {0}
    /\ part \in {NoPart} \cup {<<t, n>> : t \in {"MESAFS", "FAT16"},
                                          n \in PartSizes \cup {DefaultSectors}}
    /\ nextWrite \in 0..FormatWrites
    /\ fs = 0 \/ fs >= MetaBlocks
    /\ crashes \in 0..MaxCrashes

\* A boot that finds a valid partition table keeps it, and with MesaFS on its
\* first partition it writes nothing at all: no sequence of failures and
\* restarts makes the kernel format what it could have mounted.
FoundDataAreKept ==
    IsMbr(atPowerOn[0]) =>
      /\ disk[0] = atPowerOn[0]
      /\ size > LbaStart /\ IsSuperblock(atPowerOn[LbaStart]) => disk = atPowerOn

\* The state is well formed, and a boot changes sector 0 and sectors of the
\* partition it formats, and nothing else: the data behind a small partition
\* are safe.
WritesStayInsideThePartition ==
    StorageTypeOK /\ \A s \in SectorNumbers \ {0} : disk[s] # atPowerOn[s] =>
      HasMesaFS /\ s >= LbaStart /\ s < LbaStart + part[2]

\* A boot that had to format mounts only what it formatted to the end: every
\* sector of the inode block and of the directory block was written.
FreshMountIsComplete ==
    fs > 0 /\ ~IsSuperblock(atPowerOn[LbaStart]) =>
      \A k \in 0..(FormatWrites - 1) : disk[FormatLba(k)] # Junk

\* Every boot comes to its end, mounted or not, unless power fails.
BootFinishes == \A n \in 0..MaxCrashes : crashes = n ~> (boot = "up" \/ crashes > n)
=============================================================================
