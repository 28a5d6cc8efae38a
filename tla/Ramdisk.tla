------------------------------ MODULE Ramdisk ------------------------------
(***************************************************************************)
(* The RAM disk: EvtDeviceAdd reads its parameters from the registry,      *)
(* allocates the image and formats it; reads and writes are checked and    *)
(* copied, one request at a time (the queue dispatches sequentially).  The *)
(* layout that RamdiskFormatDisk computes is modelled with the numbers of  *)
(* the code; the image that requests copy to and from has RamUnits units,  *)
(* UnitsPerSector of them to a sector.                                     *)
(***************************************************************************)
LOCAL INSTANCE Integers
LOCAL INSTANCE Sequences

CONSTANTS
  Registry,        \* the parameters to try: [size, root, spc]
  RamUnits,        \* DiskSize, in units of the image
  UnitsPerSector,  \* BytesPerSector, in the same units
  RamClients,      \* the threads that use the disk
  NoClient         \* none of them

ASSUME RamAssumption ==
  /\ RamUnits \in Nat /\ UnitsPerSector \in Nat \ {0}
  /\ NoClient \notin RamClients

VARIABLES
  ramCopy,     \* LyyRamdisk or PRamdisk, or the bug check of either
  ramImage,    \* DiskImage, empty if the allocation failed
  ramSector,   \* BytesPerSector of DiskGeometry: 0 until the disk is formatted
  ramReq,      \* ramReq[c]: the request of client c
  ramServing,  \* the client whose request the queue has dispatched
  ramMemory    \* history: the image after the requests completed so far

ramVars == <<ramCopy, ramImage, ramSector, ramReq, ramServing, ramMemory>>

Units == 0 .. RamUnits - 1
NoRequest == [op |-> "none", off |-> 0, len |-> 0, done |-> 0, ok |-> FALSE, data |-> <<>>]

RamTypeOK ==
  /\ ramCopy \in {"none", "LyyRamdisk", "PRamdisk", "bugcheck"}
  /\ ramImage = <<>> \/ DOMAIN ramImage = Units
  /\ ramSector \in {0, UnitsPerSector}
  /\ ramServing \in RamClients \cup {NoClient}

RamInit ==
  /\ ramCopy = "none"
  /\ ramImage = <<>> /\ ramMemory = <<>>
  /\ ramSector = 0
  /\ ramReq = [c \in RamClients |-> NoRequest]
  /\ ramServing = NoClient

-----------------------------------------------------------------------------
(***************************************************************************)
(* RamdiskFormatDisk.                                                      *)
(***************************************************************************)

USHORT(n) == n % 2^16

\* Root directory entries are rounded up to whole sectors of 16.
RootDirEntries(root) == ((root + 15) \div 16) * 16

\* Mutant of SectorsFor: the sector count is rounded down.
SectorsForDown(type, entries) ==
  IF type = 16 THEN (entries * 2) \div 512 ELSE ((entries * 3 + 1) \div 2) \div 512

\* How many sectors a FAT of so many entries of 12 or 16 bits fills.
SectorsFor(type, entries) ==
  IF type = 16 THEN (entries * 2 + 511) \div 512 ELSE ((entries * 3 + 1) \div 2 + 511) \div 512

\* FAT entries before the FAT itself is taken into account, then with as many
\* more entries as it has sectors.
FatLayout(sectors, root, spc) ==
  LET first == USHORT((sectors - 1 - root \div 16) \div spc + 2)
      type  == IF first > 4087 THEN 16 ELSE 12
  IN  [type |-> type,
       fatSectors |-> SectorsFor(type, USHORT(first + SectorsFor(type, first)))]

\* The boot sector, as far as a file system reads the layout from it, and how
\* many bytes are written at the start of the FAT: PRamdisk writes three of
\* them, also when the two entries that they reserve have 16 bits.
BootSector(p) ==
  LET sectors == USHORT(p.size \div 512)
      root    == USHORT(RootDirEntries(p.root))
      spc     == p.spc % 256
      fat     == FatLayout(sectors, root, spc)
  IN  [type |-> fat.type, fatSectors |-> fat.fatSectors, sectors |-> sectors,
       rootSectors |-> root \div 16, spc |-> spc, size |-> p.size \div 512,
       reserved |-> 3]

FormatDiskP(p) == BootSector(p)

FormatDiskLyy(p) ==
  LET boot == BootSector(p)
  IN  [boot EXCEPT !.reserved = IF boot.type = 16 THEN 4 ELSE 3]

-----------------------------------------------------------------------------
\* RamdiskQueryDiskRegParameters takes the parameters from the registry, or
\* all of them from the defaults: any of Registry, for the layout.
LayoutsLyy == {FormatDiskLyy(p) : p \in Registry}
LayoutsP == {FormatDiskP(p) : p \in Registry}

\* EvtDeviceAdd when the image can be allocated: it is zeroed and formatted.
AddFormatted ==
  /\ ramImage' = [u \in Units |-> "0"]
  /\ ramMemory' = ramImage'
  /\ ramSector' = UnitsPerSector

\* When it cannot, the device is there all the same (status is still that of
\* WdfIoQueueCreate), with no image and no geometry.
AddStarved == UNCHANGED <<ramImage, ramMemory, ramSector>>

DeviceAddLyy ==
  /\ ramCopy = "none"
  /\ ramCopy' = "LyyRamdisk"
  /\ AddFormatted \/ AddStarved
  /\ UNCHANGED <<ramReq, ramServing>>

DeviceAddP ==
  /\ ramCopy = "none"
  /\ ramCopy' = "PRamdisk"
  /\ AddFormatted \/ AddStarved
  /\ UNCHANGED <<ramReq, ramServing>>

\* A client sends a request; a device control has neither offset nor length.
Send(c, op, off, len) ==
  /\ ramCopy \in {"LyyRamdisk", "PRamdisk"}
  /\ ramReq[c].op = "none"
  /\ ramReq' = [ramReq EXCEPT ![c] = [op |-> op, off |-> off, len |-> len, done |-> 0,
                                     ok |-> FALSE, data |-> <<>>]]
  /\ UNCHANGED <<ramCopy, ramImage, ramSector, ramServing, ramMemory>>

\* RamdiskCheckParameters.  Length & (BytesPerSector - 1) is Length itself
\* when BytesPerSector is 0.
CheckParameters(off, len) ==
  /\ len <= RamUnits
  /\ off >= 0 /\ off <= RamUnits - len
  /\ IF ramSector = 0 THEN len = 0 ELSE len % ramSector = 0

\* Mutant of MayDispatch: the queue is parallel.
MayDispatchAny(c) == TRUE

\* WdfIoQueueDispatchSequential.
MayDispatch(c) == ramServing = NoClient

\* EvtIoRead and EvtIoWrite up to the copy; a request with bad parameters, or
\* whose memory cannot be had, is completed with an error.
Dispatch(c) ==
  /\ ramReq[c].op \in {"read", "write"} /\ ~ramReq[c].ok
  /\ MayDispatch(c)
  /\ \/ /\ CheckParameters(ramReq[c].off, ramReq[c].len)
        /\ ramServing' = c
        /\ ramReq' = [ramReq EXCEPT ![c].ok = TRUE]
     \/ ramReq' = [ramReq EXCEPT ![c] = NoRequest] /\ UNCHANGED ramServing
  /\ UNCHANGED <<ramCopy, ramImage, ramSector, ramMemory>>

Copying(c, op) ==
  ramReq[c].op = op /\ ramReq[c].ok /\ ramReq[c].done < ramReq[c].len

\* WdfMemoryCopyFromBuffer: the next unit of a read.
EvtIoRead(c) ==
  /\ Copying(c, "read")
  /\ ramReq' = [ramReq EXCEPT ![c].done = @ + 1,
       ![c].data = Append(@, ramImage[ramReq[c].off + ramReq[c].done])]
  /\ UNCHANGED <<ramCopy, ramImage, ramSector, ramServing, ramMemory>>

\* WdfMemoryCopyToBuffer: the next unit of a write.
EvtIoWrite(c) ==
  /\ Copying(c, "write")
  /\ ramReq' = [ramReq EXCEPT ![c].done = @ + 1]
  /\ ramImage' = [ramImage EXCEPT ![ramReq[c].off + ramReq[c].done] = c]
  /\ UNCHANGED <<ramCopy, ramSector, ramServing, ramMemory>>

\* WdfRequestCompleteWithInformation: the queue may dispatch the next one.
Complete(c) ==
  /\ ramReq[c].ok /\ ramReq[c].done = ramReq[c].len
  /\ ramReq' = [ramReq EXCEPT ![c] = NoRequest]
  /\ ramServing' = NoClient
  /\ ramMemory' = IF ramReq[c].op = "write"
                  THEN [u \in DOMAIN ramMemory |->
                          IF u \in ramReq[c].off .. ramReq[c].off + ramReq[c].len - 1
                          THEN c ELSE ramMemory[u]]
                  ELSE ramMemory
  /\ UNCHANGED <<ramCopy, ramImage, ramSector>>

\* EvtIoDeviceControl: the request is completed at once, whatever the code.
\* The partition information is read from the boot sector in the image, and
\* there may be no image.
DeviceControl(c) ==
  /\ ramReq[c].op \in {"partition", "control"}
  /\ MayDispatch(c)
  /\ ramReq' = [ramReq EXCEPT ![c] = NoRequest]
  /\ IF ramReq[c].op = "partition" /\ ramImage = <<>>
     THEN ramCopy' = "bugcheck" ELSE UNCHANGED ramCopy
  /\ UNCHANGED <<ramImage, ramSector, ramServing, ramMemory>>

\* RamdiskEvtDeviceContextCleanup: the framework has emptied the queue; the
\* image is freed and the extension goes with the device.
Cleanup ==
  /\ ramReq = [c \in RamClients |-> NoRequest]
  /\ ramCopy' = "none" /\ ramImage' = <<>> /\ ramMemory' = <<>> /\ ramSector' = 0
  /\ UNCHANGED <<ramReq, ramServing>>

\* The callbacks of the two copies.
CheckLyyRamdisk(c) == ramCopy = "LyyRamdisk" /\ Dispatch(c)
CheckPRamdisk(c) == ramCopy = "PRamdisk" /\ Dispatch(c)
ReadLyyRamdisk(c) == ramCopy = "LyyRamdisk" /\ (EvtIoRead(c) \/ Complete(c))
ReadPRamdisk(c) == ramCopy = "PRamdisk" /\ (EvtIoRead(c) \/ Complete(c))
WriteLyyRamdisk(c) == ramCopy = "LyyRamdisk" /\ EvtIoWrite(c)
WritePRamdisk(c) == ramCopy = "PRamdisk" /\ EvtIoWrite(c)
ControlLyyRamdisk(c) == ramCopy = "LyyRamdisk" /\ DeviceControl(c)
ControlPRamdisk(c) == ramCopy = "PRamdisk" /\ DeviceControl(c)
CleanupLyyRamdisk == ramCopy = "LyyRamdisk" /\ Cleanup
CleanupPRamdisk == ramCopy = "PRamdisk" /\ Cleanup

Callbacks(c) ==
  \/ CheckLyyRamdisk(c) \/ ReadLyyRamdisk(c) \/ WriteLyyRamdisk(c) \/ ControlLyyRamdisk(c)
  \/ CheckPRamdisk(c) \/ ReadPRamdisk(c) \/ WritePRamdisk(c) \/ ControlPRamdisk(c)

RamNext ==
  \/ DeviceAddLyy \/ DeviceAddP \/ CleanupLyyRamdisk \/ CleanupPRamdisk
  \/ \E c \in RamClients :
       \/ \E op \in {"read", "write"}, off \in -1 .. RamUnits, len \in 0 .. RamUnits + 1 :
            Send(c, op, off, len)
       \/ Send(c, "partition", 0, 0) \/ Send(c, "control", 0, 0)
       \/ Callbacks(c)

RamSpec == RamInit /\ [][RamNext]_ramVars

-----------------------------------------------------------------------------
(***************************************************************************)
(* Properties.                                                             *)
(***************************************************************************)

\* What a file system makes of the boot sector: the clusters of the data area.
Clusters(f) == (f.sectors - 1 - f.fatSectors - f.rootSectors) \div f.spc

Fits(f) ==
  /\ Clusters(f) > 0 /\ f.sectors = f.size
  /\ (Clusters(f) + 2) * f.type <= f.fatSectors * 512 * 8
  /\ Clusters(f) >= 4085 => f.type = 16
  /\ Clusters(f) + f.fatSectors < 4085 => f.type = 12

LayoutsFit ==
  /\ \A f \in LayoutsLyy \cup LayoutsP : Fits(f)
  /\ \A f \in LayoutsLyy : f.reserved * 8 >= 2 * f.type

\* The FAT has room for every cluster of the data area, the whole disk is
\* described, and the type written into the boot sector is the one a file
\* system derives from the number of clusters (16 from 4085 on), but for the
\* few sizes at which the sectors of the FAT itself, which lines 317-319 count
\* as data, make the difference.  The two reserved entries of the FAT are
\* written as a whole (not so in PRamdisk, which has no line 381).
RamdiskLayoutFits == ramSector # 0 => LayoutsFit

\* A copy stays within the image, also when there is none.
RamdiskStaysInside ==
  \A c \in RamClients :
    ramReq[c].ok /\ ramReq[c].len > 0 =>
      ramReq[c].off .. ramReq[c].off + ramReq[c].len - 1 \subseteq DOMAIN ramImage

\* A read returns what the completed writes have left, never a part of a
\* write under way.
RamdiskReadsWhole ==
  \A c \in RamClients : \A k \in 1 .. Len(ramReq[c].data) :
    ramReq[c].data[k] = ramMemory[ramReq[c].off + k - 1]

\* The RAM disk is laid out so that a file system finds room in its FAT, copies
\* stay in the image, also when there is none, and are not interleaved.
RamdiskServes == RamdiskLayoutFits /\ RamdiskStaysInside /\ RamdiskReadsWhole

-----------------------------------------------------------------------------
(***************************************************************************)
(* What makes the properties hold for any sizes.                           *)
(***************************************************************************)

\* Parameters for which no 16-bit quantity of the boot sector overflows and the
\* type of the FAT is right: up to 65535 sectors (65000 if a cluster is one
\* sector), at least five and two clusters beside the root directory, up to 13
\* sectors to a cluster.  With 14 or more a disk of 4085 clusters gets a FAT of
\* 12 bits.
RegistryInRange ==
  \A p \in Registry :
    /\ p.size \in Nat /\ p.root \in Nat /\ p.spc \in Nat \ {0}
    /\ p.root <= 65520 /\ p.spc <= 13
    /\ p.size \div 512 <= 65535
    /\ p.spc = 1 => p.size \div 512 <= 65000
    /\ p.size \div 512 >= 5 + (p.root + 15) \div 16 + 2 * p.spc

Contents == RamClients \cup {"0"}

Requests ==
  [op : {"none", "read", "write", "partition", "control"},
   off : Int, len : Nat, done : Nat, ok : BOOLEAN, data : Seq(Contents)]

\* A request is at rest until the queue has dispatched it; a read has then
\* copied what is in the memory, as far as it has got.
RequestInv(c) ==
  LET r == ramReq[c] IN
  /\ r \in Requests
  /\ r.ok <=> ramServing = c
  /\ ~r.ok => r.done = 0 /\ r.data = <<>>
  /\ r.ok => r.op \in {"read", "write"} /\ CheckParameters(r.off, r.len) /\ r.done <= r.len
  /\ r.ok /\ r.op = "read" => /\ Len(r.data) = r.done
                              /\ \A k \in 1 .. r.done : r.data[k] = ramMemory[r.off + k - 1]
  /\ r.op = "write" => r.data = <<>>

\* The image is the memory, but for what the write under way has copied.
ImageInv ==
  \A u \in DOMAIN ramMemory :
    ramImage[u] = IF /\ ramServing # NoClient
                     /\ ramReq[ramServing].op = "write"
                     /\ u - ramReq[ramServing].off \in 0 .. ramReq[ramServing].done - 1
                  THEN ramServing ELSE ramMemory[u]

RamInv ==
  /\ RamTypeOK
  /\ \/ ramSector = 0 /\ ramImage = <<>> /\ ramMemory = <<>>
     \/ /\ ramSector = UnitsPerSector
        /\ ramImage \in [Units -> Contents] /\ ramMemory \in [Units -> Contents]
  /\ DOMAIN ramReq = RamClients
  /\ \A c \in RamClients : RequestInv(c)
  /\ ramCopy = "none" => ramServing = NoClient /\ ramSector = 0
  /\ ImageInv
=============================================================================
