------------------------------ MODULE RamDisk ------------------------------
(***************************************************************************)
(* The RAM disk of bestio/ramdisk.c with its backup: vrd_make_request      *)
(* calls the hook before it copies the data (line 61), and the copy that   *)
(* the hook queues holds addresses in the RAM disk, not data, so the       *)
(* backup thread saves what the RAM disk holds when the thread gets there. *)
(*                                                                         *)
(* As in BackupQueue, the calls that this commit comments out are taken to *)
(* be made, where they stand.  A bio that is read changes nothing here.    *)
(***************************************************************************)
EXTENDS BackupQueue

CONSTANTS
  Sectors,    \* VRD_SECTOR_TOTAL
  Writes      \* <<bi_sector, sectors>> of the bios that are submitted

ASSUME DiskAssumption ==
  /\ Sectors \in Nat \ {0}
  /\ Writes \subseteq Nat \X (Nat \ {0})

Sector == 0..(Sectors - 1)

VARIABLES
  disk,       \* device.data: how many writes sector s has seen
  image,      \* which of them the backup device holds, -1 for none
  hook,       \* vrd_hook_request
  request,    \* where vrd_make_request is, in each context that writes
  extent,     \* the sectors of the copy of each bio
  page,       \* the contents of its pages
  filled,     \* the sector that bestio_q_bio copies next
  missed,     \* sectors whose last write has not been read by the thread
  lost,       \* bios for which there were no pages
  freed       \* whether vrd_exit has freed device.data

diskvars == <<disk, image, hook, request, extent, page, filled, missed, lost,
              freed>>
allvars  == <<vars, diskvars>>

\* bio = 0: the hook was the default one.
NoRequest == [next |-> 0, end |-> 0, bio |-> 0]
NoExtent  == [first |-> 0, end |-> 0]
NoPages   == [s \in Sector |-> -1]

Version == Nat \cup {-1}

DiskTypeOK ==
  /\ disk \in [Sector -> Nat]
  /\ image \in [Sector -> Version]
  /\ hook \in {"default", "backup"}
  /\ request \in [Writer -> [next : 0..Sectors, end : 0..Sectors,
                             bio : Bio \cup {0}]]
  /\ extent \in [Bio -> [first : 0..Sectors, end : 0..Sectors]]
  /\ page \in [Bio -> [Sector -> Version]]
  /\ filled \in 0..Sectors
  /\ missed \in SUBSET Sector
  /\ lost \in SUBSET Bio
  /\ freed \in BOOLEAN

\* vrd_init, and backup_init up to the thread: whoever opens the disk at once
\* still finds the default hook.
DiskInit ==
  /\ Init
  /\ disk = [s \in Sector |-> 0]
  /\ image = NoPages
  /\ hook = "default"
  /\ request = [w \in Writer |-> NoRequest]
  /\ extent = [b \in Bio |-> NoExtent]
  /\ page = [b \in Bio |-> NoPages]
  /\ filled = 0
  /\ missed = {}
  /\ lost = {}
  /\ freed = FALSE

\* The thread is yet to copy sector s for bio b.
Unread(b, s) ==
  \/ \E j \in 1..Len(queue) : queue[j] = b
  \/ thread.pc \in {"unlock", "copy"} /\ thread.bio = b /\ filled <= s

-----------------------------------------------------------------------------
(* vrd_make_request                                                        *)

Busy(w) == request[w].next < request[w].end

\* Mutant of Fits: the end of the bio is not looked at.
FitsStart(first, size) == first <= Sectors

\* A bio that ends behind the disk is failed (line 55) and nothing happens.
Fits(first, size) == first + size <= Sectors

Enter(w, first, size, bio) ==
  /\ ~ Busy(w)
  /\ Fits(first, size)
  /\ request' = [request EXCEPT ![w] =
                   [next |-> first, end |-> first + size, bio |-> bio]]

\* The hook makes a copy of the bio, which WriterStep then queues.
RequestHooked(w, first, size) ==
  /\ hook = "backup"
  /\ Enter(w, first, size, made + 1)
  /\ CloneBio(w)
  /\ extent' = [extent EXCEPT ![made + 1] =
                  [first |-> first, end |-> first + size]]
  /\ UNCHANGED <<disk, image, hook, page, filled, missed, lost, freed>>

\* Bound: only until a sector has been written.
RequestUnhooked(w, first, size) ==
  /\ hook = "default"
  /\ \A s \in Sector : disk[s] = 0
  /\ Enter(w, first, size, 0)
  /\ UNCHANGED <<vars, disk, image, hook, extent, page, filled, missed, lost,
                 freed>>

\* The steps inside the hook.
InHook(w) == WriterStep(w) /\ UNCHANGED diskvars

\* The hook has returned: one sector goes into the RAM disk.  If the thread
\* has been here before, it has saved the old contents.
CopyIn(w) ==
  /\ Busy(w)
  /\ writer[w].pc = "idle"
  /\ LET s == request[w].next IN
     /\ disk' = [disk EXCEPT ![s] = @ + 1]
     /\ request' = [request EXCEPT ![w] =
                      IF s + 1 = @.end THEN NoRequest
                      ELSE [next |-> s + 1, end |-> @.end, bio |-> @.bio]]
     /\ missed' = IF Unread(request[w].bio, s) THEN missed
                  ELSE missed \cup {s}
  /\ UNCHANGED <<vars, image, hook, extent, page, filled, lost, freed>>

\* vrd_set_hook_request(bestio_backup_bio), at the end of backup_init.
SetHook ==
  /\ hook = "default"
  /\ hook' = "backup"
  /\ UNCHANGED <<vars, disk, image, request, extent, page, filled, missed,
                 lost, freed>>

-----------------------------------------------------------------------------
(* The thread                                                              *)

\* list_del, and the first address of the bio that the thread has taken.
TakeBio ==
  /\ ListEmpty
  /\ filled' = IF queue = <<>> THEN filled ELSE extent[Head(queue)].first
  /\ UNCHANGED <<disk, image, hook, request, extent, page, missed, lost,
                 freed>>

\* One turn of bestio_q_bio's loop: alloc_page and memcpy.
CopyOut ==
  /\ thread.pc = "copy"
  /\ filled < extent[thread.bio].end
  /\ page' = [page EXCEPT ![thread.bio][filled] = disk[filled]]
  /\ filled' = filled + 1
  /\ missed' = missed \ {filled}
  /\ UNCHANGED <<vars, disk, image, hook, request, extent, lost, freed>>

SubmitCopy ==
  /\ thread.pc = "copy"
  /\ filled = extent[thread.bio].end
  /\ SubmitBio
  /\ UNCHANGED diskvars

Covered(b) == {s \in Sector : extent[b].first <= s /\ s < extent[b].end}

\* The pages that were filled already are not submitted either.
PageAllocFails ==
  /\ thread.pc = "copy"
  /\ filled < extent[thread.bio].end
  /\ AllocFails
  /\ missed' = missed \cup Covered(thread.bio)
  /\ lost' = lost \cup {thread.bio}
  /\ page' = [page EXCEPT ![thread.bio] = NoPages]
  /\ extent' = [extent EXCEPT ![thread.bio] = NoExtent]
  /\ UNCHANGED <<disk, image, hook, request, filled, freed>>

ThreadElse ==
  /\ \/ ThreadStarts \/ ThreadDown \/ ThreadUp \/ WaitEvent \/ ClearBit
     \/ Completed \/ ShouldStop
  /\ UNCHANGED diskvars

\* The device has the pages of bio b; bestio_backup_end_request frees them and
\* the bio.
WriteDone(b) ==
  /\ EndRequest(b)
  /\ image' = [s \in Sector |-> IF s \in Covered(b) THEN page[b][s]
                                ELSE image[s]]
  /\ page' = [page EXCEPT ![b] = NoPages]
  /\ extent' = [extent EXCEPT ![b] = NoExtent]
  /\ UNCHANGED <<disk, hook, request, filled, missed, lost, freed>>

-----------------------------------------------------------------------------
(* my_exit: backup_exit, then vrd_exit.                                    *)

StopBackup ==
  /\ hook = "backup"
  /\ \A w \in Writer : ~ Busy(w)
  /\ KthreadStop
  /\ UNCHANGED diskvars

EndBackup == ClearQueue /\ UNCHANGED diskvars

\* Mutant of VrdExit: the memory is freed before the backup has ended.
VrdExitFirst ==
  /\ module # "live" /\ ~ freed
  /\ freed' = TRUE
  /\ UNCHANGED <<vars, disk, image, hook, request, extent, page, filled,
                 missed, lost>>

VrdExit ==
  /\ module = "gone" /\ ~ freed
  /\ freed' = TRUE
  /\ UNCHANGED <<vars, disk, image, hook, request, extent, page, filled,
                 missed, lost>>

-----------------------------------------------------------------------------
RequestStep(w) == InHook(w) \/ CopyIn(w)

DiskThreadStep ==
  TakeBio \/ CopyOut \/ SubmitCopy \/ PageAllocFails \/ ThreadElse

DiskTimeOut == TimeOut /\ UNCHANGED diskvars

DiskDevice == \E b \in Bio : WriteDone(b)

DiskNext ==
  \/ \E w \in Writer :
       \/ \E b \in Writes :
            RequestHooked(w, b[1], b[2]) \/ RequestUnhooked(w, b[1], b[2])
       \/ RequestStep(w)
  \/ SetHook
  \/ DiskThreadStep \/ DiskTimeOut \/ DiskDevice
  \/ StopBackup \/ EndBackup \/ VrdExit

DiskSpec == DiskInit /\ [][DiskNext]_allvars

\* Processors, the device and rmmod go on.  The time-out is sure to come only
\* when the module is being removed, so that it is of no help before.
DiskFairness ==
  /\ \A w \in Writer : WF_allvars(RequestStep(w))
  /\ WF_allvars(DiskThreadStep)
  /\ WF_allvars(DiskDevice)
  /\ WF_allvars(EndBackup)
  /\ WF_allvars(module # "live" /\ DiskTimeOut)

DiskFairSpec == DiskSpec /\ DiskFairness

-----------------------------------------------------------------------------
\* Nothing is on its way from a context to the RAM disk or to the device.
Quiet ==
  /\ module = "live"
  /\ queue = <<>> /\ inflight = {}
  /\ thread.pc \notin {"unlock", "copy", "complete"}
  /\ \A w \in Writer : ~ Busy(w)

\* When all is quiet the backup holds what the RAM disk holds, but for sectors
\* whose last write the hook did not see (backup_init sets it after add_disk),
\* was overtaken by the thread (the hook comes before the copy, line 61) or
\* found no memory.  Two writes of one sector may be queued in one order and
\* copied in the other: that the copy holds addresses makes up for it.
BackupAgrees ==
  Quiet => \A s \in Sector : disk[s] > 0 => image[s] = disk[s] \/ s \in missed

\* A sector of the backup never returns to an older content: each copy is
\* read after the one before it has been written (wait_for_completion).
ImageNeverGoesBack ==
  [][\A s \in Sector : image'[s] >= image[s]]_allvars

\* Nobody copies to or from the memory that vrd_exit has freed.
FreedIsUnused ==
  freed => thread.pc = "exited" /\ \A w \in Writer : ~ Busy(w)

\* A queued bio is written, or found no memory, or the module is removed, even
\* if the time-out of the wait never comes.
HookedIsWritten ==
  \A b \in Bio :
    (\E j \in 1..Len(queue) : queue[j] = b)
      ~> \/ \E j \in 1..Len(written) : written[j] = b
         \/ b \in lost
         \/ module # "live"
=============================================================================
