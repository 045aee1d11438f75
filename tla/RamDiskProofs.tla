--------------------------- MODULE RamDiskProofs ---------------------------
(***************************************************************************)
(* Theorems about RamDisk, for any number of contexts, bios and sectors:   *)
(* its backup never goes back, and differs from the RAM disk, when all is  *)
(* quiet, only where a write was missed.                                   *)
(***************************************************************************)
EXTENDS RamDisk, BackupProofs

(* The variables of the queue, which RamDisk extends.                      *)

\* Every step of the RAM disk is a step of the backup, or none.
LEMMA StepQueue == [DiskNext]_allvars => [Next]_vars
<1> SUFFICES ASSUME [DiskNext]_allvars PROVE [Next]_vars
  OBVIOUS
<1>1. ASSUME NEW w \in Writer, NEW b \in Writes,
             \/ RequestHooked(w, b[1], b[2]) \/ RequestUnhooked(w, b[1], b[2])
             \/ RequestStep(w)
      PROVE  [Next]_vars
  BY <1>1 DEF RequestHooked, RequestUnhooked, RequestStep, InHook, CopyIn, Next
<1>2. ASSUME NEW w \in Writer, RequestStep(w) PROVE [Next]_vars
  BY <1>2 DEF RequestStep, InHook, CopyIn, Next
<1>3. CASE SetHook BY <1>3 DEF SetHook
<1>4. CASE DiskThreadStep
  BY <1>4 DEF DiskThreadStep, TakeBio, CopyOut, SubmitCopy, PageAllocFails,
     ThreadElse, Next, ThreadStep
<1>5. CASE DiskTimeOut BY <1>5 DEF DiskTimeOut, Next
<1>6. CASE DiskDevice BY <1>6 DEF DiskDevice, WriteDone, Next, Device
<1>7. CASE StopBackup \/ EndBackup \/ VrdExit
  BY <1>7 DEF StopBackup, EndBackup, VrdExit, Next
<1>8. CASE UNCHANGED allvars BY <1>8 DEF allvars
<1> QED BY <1>1, <1>2, <1>3, <1>4, <1>5, <1>6, <1>7, <1>8 DEF DiskNext

\* What is proved of the queue holds here.
LEMMA QueueInvariance == DiskSpec => [](IInv /\ Once)
<1>1. DiskInit => Init BY DEF DiskInit
<1>2. DiskSpec => Spec BY <1>1, StepQueue, PTL DEF DiskSpec, Spec
<1> QED BY <1>2, BackupInvariance, OnceInvariance, PTL

-----------------------------------------------------------------------------
(* What bounds and connects the variables of the RAM disk.                 *)

\* The bio is on its way to the thread, or the thread has it and copies.
Awaited(b) ==
  \/ \E w \in Writer : InHand(w) /\ writer[w].bio = b
  \/ In(b, queue)
  \/ Held /\ thread.bio = b

\* The copy of a bio that is on its way ends where the bio does, and the bio
\* itself is not behind the point where vrd_make_request is.
Requested ==
  /\ \A b \in Bio : extent[b].first <= extent[b].end
  /\ \A w \in Writer : request[w].bio <= made
  /\ \A w \in Writer : Busy(w) /\ Awaited(request[w].bio) =>
       /\ extent[request[w].bio].end = request[w].end
       /\ extent[request[w].bio].first <= request[w].next

\* The thread copies inside the bio.
Copying ==
  Held => extent[thread.bio].first <= filled /\ filled <= extent[thread.bio].end

\* The RAM disk is never behind its backup, nor behind a page that was copied
\* from it; a page on its way to the device is not behind what is there.
Contents ==
  /\ \A s \in Sector : image[s] <= disk[s]
  /\ \A b \in Bio, s \in Sector : page[b][s] <= disk[s]
  /\ Held => \A s \in Covered(thread.bio) :
                s < filled => image[s] <= page[thread.bio][s]
  /\ \A b \in inflight : \A s \in Covered(b) : image[s] <= page[b][s]

\* While the backup is there, a sector that was not missed is up to date on the
\* device, in a page on its way there, or yet to be copied.
UpToDate(s) ==
  \/ image[s] = disk[s]
  \/ \E b \in Bio : s \in Covered(b) /\ Unread(b, s)
  \/ /\ Held /\ s \in Covered(thread.bio) /\ s < filled
     /\ page[thread.bio][s] = disk[s]
  \/ \E b \in inflight : s \in Covered(b) /\ page[b][s] = disk[s]

Saved ==
  module # "gone" =>
    \A s \in Sector : disk[s] > 0 => s \in missed \/ UpToDate(s)

\* The module is removed when nobody uses the disk any more, the thread first.
Removed ==
  /\ module # "live" => hook = "backup" /\ \A w \in Writer : ~ Busy(w)
  /\ module = "gone" => thread.pc = "exited"
  /\ freed => module = "gone"

DInv == DiskTypeOK /\ Requested /\ Copying /\ Contents /\ Saved /\ Removed

QInv == IInv /\ Once

\* The arithmetic of sectors and of the bios that are submitted.
LEMMA SectorFacts ==
  /\ Sectors \in Nat /\ Sectors > 0 /\ Bio \subseteq Nat \ {0}
  /\ Sector \subseteq Nat /\ \A s \in Nat : s \in Sector <=> s < Sectors
  /\ \A b \in Writes : b[1] \in Nat /\ b[2] \in Nat /\ b[2] > 0
BY DiskAssumption, BackupAssumption DEF Sector, Bio

\* A bio is nowhere twice, and known to the counter.
LEMMA PlaceFacts ==
  ASSUME QInv
  PROVE  /\ made \in Nat /\ made <= MaxBios
         /\ \A b : Awaited(b) => b \in Bio /\ b <= made /\ b \notin inflight
         /\ Held => thread.bio \in Bio /\ inflight = {}
         /\ inflight # {} => inflight = {thread.bio} /\ ~ Held
         /\ inflight \subseteq Bio
<1> USE DEF QInv, IInv, TypeOK
<1>1. made \in Nat /\ made <= MaxBios BY BackupAssumption
<1>2. ASSUME NEW b, Awaited(b)
      PROVE  b \in Bio /\ b <= made /\ b \notin inflight
  <2>1. CASE \E w \in Writer : InHand(w) /\ writer[w].bio = b
    BY <2>1 DEF Once, HandOnce, Holding, InHand
  <2>2. CASE In(b, queue) BY <2>2 DEF Once, QueueOnce, In
  <2>3. CASE Held /\ thread.bio = b
    BY <2>3 DEF Once, DeviceOnce, Holding, Held
  <2> QED BY <1>2, <2>1, <2>2, <2>3 DEF Awaited
<1>3. Held => thread.bio \in Bio /\ inflight = {}
  BY DEF Holding, Held, Waited
<1>4. inflight # {} => inflight = {thread.bio} /\ ~ Held BY DEF Waited, Held
<1> QED BY <1>1, <1>2, <1>3, <1>4

-----------------------------------------------------------------------------
(* What the steps do to the places of the bios.                            *)

\* The steps that leave the thread's bio and the device alone.
CalmStep ==
  \/ \E w \in Writer : InHook(w)
  \/ SetHook \/ ThreadElse \/ DiskTimeOut
  \/ StopBackup \/ EndBackup \/ VrdExit \/ UNCHANGED allvars

\* They move bios at most from a writer to the list, until EndBackup.
LEMMA CalmPlaces ==
  ASSUME QInv, CalmStep
  PROVE  /\ UNCHANGED <<inflight, made, disk, image, request, extent, page,
                         filled, missed>>
         /\ Held' <=> Held
         /\ Held => thread'.bio = thread.bio
         /\ \A b : Awaited(b)' => Awaited(b)
         /\ module' # "gone" => module # "gone" /\ \A b : In(b, queue) => In(b, queue')
<1> USE DEF diskvars
<1>1. ASSUME NEW w \in Writer, ListAddTail(w), UNCHANGED diskvars
      PROVE  /\ UNCHANGED <<inflight, made, thread, module>>
             /\ \A b : Awaited(b)' => Awaited(b)
             /\ \A b : In(b, queue) => In(b, queue')
  <2>1. queue \in Seq(Bio) /\ writer[w].bio \in Bio /\ InHand(w)
    BY <1>1 DEF QInv, IInv, TypeOK, Holding, ListAddTail, WriterGoes, InHand
  <2>2. \A b : In(b, queue') <=> In(b, queue) \/ b = writer[w].bio
    BY <1>1, <2>1, InAppend DEF ListAddTail
  <2>3. \A v \in Writer : InHand(v)' => InHand(v) /\ writer'[v].bio = writer[v].bio
    BY <1>1 DEF ListAddTail, WriterGoes, InHand, QInv, IInv, TypeOK
  <2> QED BY <1>1, <2>1, <2>2, <2>3 DEF ListAddTail, Awaited, Held
<1>2. ASSUME NEW w \in Writer,
             WriterDown(w) \/ WriterUp(w) \/ TestAndSetBit(w) \/ WakeUp(w)
      PROVE  /\ UNCHANGED <<inflight, made, queue, module>>
             /\ Held' <=> Held
             /\ thread'.bio = thread.bio
             /\ \A v \in Writer :
                  InHand(v)' => InHand(v) /\ writer'[v].bio = writer[v].bio
  BY <1>2 DEF WriterDown, WriterUp, TestAndSetBit, WakeUp, WriterGoes, InHand,
     Held, QInv, IInv, TypeOK
<1>3. ASSUME NEW w \in Writer, InHook(w)
      PROVE  /\ UNCHANGED <<inflight, made, module>>
             /\ Held' <=> Held
             /\ Held => thread'.bio = thread.bio
             /\ \A b : Awaited(b)' => Awaited(b)
             /\ \A b : In(b, queue) => In(b, queue')
  <2>1. CASE ListAddTail(w) BY <1>1, <1>3, <2>1 DEF InHook, Held
  <2>2. CASE WriterDown(w) \/ WriterUp(w) \/ TestAndSetBit(w) \/ WakeUp(w)
    BY <1>2, <2>2 DEF Awaited
  <2> QED BY <1>3, <2>1, <2>2 DEF InHook, WriterStep
<1>4. CASE ThreadElse \/ DiskTimeOut
  <2>1. /\ UNCHANGED <<inflight, made, queue, writer, module>>
        /\ Held' <=> Held
        /\ thread'.bio = thread.bio
    BY <1>4 DEF ThreadElse, DiskTimeOut, ThreadStarts, ThreadDown, ThreadUp,
       WaitEvent, ClearBit, Completed, ShouldStop, TimeOut, ThreadGoes, Held,
       QInv, IInv, TypeOK
  <2> QED BY <1>4, <2>1 DEF Awaited, InHand, ThreadElse, DiskTimeOut
<1>5. CASE SetHook \/ StopBackup \/ VrdExit \/ UNCHANGED allvars
  <2>1. /\ UNCHANGED <<inflight, made, queue, writer, thread, disk, image,
                       request, extent, page, filled, missed>>
        /\ module' # "gone" => module # "gone"
    BY <1>5 DEF SetHook, StopBackup, VrdExit, KthreadStop, vars, allvars
  <2> QED BY <2>1 DEF Awaited, Held, InHand
<1>6. CASE EndBackup
  <2>1. /\ UNCHANGED <<inflight, made, writer, thread>> /\ queue' = <<>>
        /\ module' = "gone" /\ UNCHANGED diskvars
    BY <1>6 DEF EndBackup, ClearQueue
  <2>2. \A b : ~ In(b, queue') BY <2>1, InEmpty
  <2> QED BY <2>1, <2>2 DEF Awaited, Held, InHand
<1> QED BY <1>3, <1>4, <1>5, <1>6 DEF CalmStep, InHook, ThreadElse, DiskTimeOut

\* The others are these.
LEMMA DiskSteps ==
  ASSUME [DiskNext]_allvars
  PROVE  \/ CalmStep
         \/ \E w \in Writer, b \in Writes :
              RequestHooked(w, b[1], b[2]) \/ RequestUnhooked(w, b[1], b[2])
         \/ \E w \in Writer : CopyIn(w)
         \/ TakeBio \/ CopyOut \/ SubmitCopy \/ PageAllocFails
         \/ \E b \in Bio : WriteDone(b)
BY DEF DiskNext, RequestStep, DiskThreadStep, DiskDevice, CalmStep

\* A bio that the hook copies is a new one, and no step makes another.
LEMMA HookedPlaces ==
  ASSUME QInv, NEW w \in Writer, NEW f, NEW n, RequestHooked(w, f, n)
  PROVE  /\ made' = made + 1 /\ made + 1 \in Bio /\ module = "live"
         /\ UNCHANGED <<inflight, thread, queue, module>>
         /\ Held' <=> Held
         /\ \A b : Awaited(b)' => Awaited(b) \/ b = made + 1
         /\ ~ Awaited(made + 1) /\ made + 1 \notin inflight
<1>1. /\ made' = made + 1 /\ made < MaxBios /\ module = "live"
      /\ UNCHANGED <<inflight, thread, queue, module>>
      /\ writer' = [writer EXCEPT ![w] = [pc |-> "down", bio |-> made + 1]]
  BY DEF RequestHooked, CloneBio
<1>2. made + 1 \in Bio BY <1>1, PlaceFacts, BackupAssumption DEF Bio
<1>3. ~ Awaited(made + 1) /\ made + 1 \notin inflight
  <2>1. ~ (made + 1 <= made) BY PlaceFacts
  <2>2. \A b \in inflight : b <= made BY DEF QInv, Once, DeviceOnce
  <2> QED BY <2>1, <2>2, PlaceFacts
<1>4. \A v \in Writer : InHand(v)' => \/ InHand(v) /\ writer'[v] = writer[v]
                                    \/ writer'[v].bio = made + 1
  BY <1>1 DEF InHand, QInv, IInv, TypeOK
<1>5. \A b : Awaited(b)' => Awaited(b) \/ b = made + 1
  BY <1>1, <1>4 DEF Awaited, Held
<1> QED BY <1>1, <1>2, <1>3, <1>5 DEF Held

\* The copies into the RAM disk, and requests without the hook, move no bio.
LEMMA UnhookedPlaces ==
  ASSUME UNCHANGED vars
  PROVE  /\ UNCHANGED <<inflight, made, thread, queue, module>>
         /\ Held' <=> Held
         /\ \A b : Awaited(b)' <=> Awaited(b)
BY DEF vars, Held, Awaited, InHand

\* The thread takes the first bio of the list.
LEMMA TakePlaces ==
  ASSUME QInv, TakeBio
  PROVE  /\ UNCHANGED <<inflight, made, module>> /\ ~ Held
         /\ \A b : Awaited(b)' => Awaited(b)
         /\ queue = <<>> => UNCHANGED queue /\ ~ Held'
         /\ queue # <<>> =>
              /\ Held' /\ thread'.bio = Head(queue) /\ Head(queue) \in Bio
              /\ filled' = extent[Head(queue)].first
              /\ \A b : In(b, queue) => In(b, queue') \/ b = Head(queue)
<1>1. /\ UNCHANGED <<inflight, made, module, writer>>
      /\ thread.pc = "look" /\ ~ Held
  BY DEF TakeBio, ListEmpty, Held
<1>2. CASE queue = <<>>
  <2>1. UNCHANGED queue /\ thread' = [thread EXCEPT !.pc = "release"]
    BY <1>2 DEF TakeBio, ListEmpty
  <2>2. ~ Held' BY <2>1 DEF Held, QInv, IInv, TypeOK
  <2> QED BY <1>1, <1>2, <2>1, <2>2 DEF Awaited, InHand
<1>3. CASE queue # <<>>
  <2>1. /\ thread' = [pc |-> "unlock", bio |-> Head(queue)]
        /\ queue' = Tail(queue)
        /\ filled' = extent[Head(queue)].first
    BY <1>3 DEF TakeBio, ListEmpty, ListDel
  <2>2. queue \in Seq(Bio) /\ Distinct(queue)
    BY DEF QInv, IInv, TypeOK, Once, QueueOnce
  <2>3. /\ Head(queue) \in Bio /\ In(Head(queue), queue)
        /\ \A b : In(b, Tail(queue)) => In(b, queue)
    BY <1>3, <2>2, DistinctTail
  <2>4. \A b : In(b, queue) => In(b, Tail(queue)) \/ b = Head(queue)
    <3> SUFFICES ASSUME NEW j \in 1..Len(queue), queue[j] # Head(queue)
                 PROVE  In(queue[j], Tail(queue))
      BY DEF In
    <3>1. j # 1 /\ Len(queue) \in Nat BY <1>3, <2>2
    <3>2. /\ j - 1 \in 1..Len(Tail(queue)) /\ Tail(queue)[j - 1] = queue[j]
      BY <1>3, <2>2, <3>1
    <3> QED BY <3>2 DEF In
  <2>5. Held' /\ thread'.bio = Head(queue) BY <2>1 DEF Held
  <2> QED BY <1>1, <1>3, <2>1, <2>3, <2>4, <2>5 DEF Awaited, InHand
<1> QED BY <1>2, <1>3

\* The bio that the thread submits goes to the device.
LEMMA SubmitPlaces ==
  ASSUME QInv, SubmitCopy
  PROVE  /\ UNCHANGED <<made, module, queue>> /\ UNCHANGED diskvars
         /\ inflight' = {thread.bio} /\ thread.bio \in Bio
         /\ filled = extent[thread.bio].end
         /\ Held /\ ~ Held'
         /\ \A b : Awaited(b)' => Awaited(b)
<1>1. /\ UNCHANGED <<made, module, queue, writer>> /\ UNCHANGED diskvars
      /\ inflight' = inflight \cup {thread.bio}
      /\ filled = extent[thread.bio].end
      /\ Held /\ ~ Held'
  BY DEF SubmitCopy, SubmitBio, AfterSubmit, ThreadGoes, Held, QInv, IInv, TypeOK
<1>2. thread.bio \in Bio /\ inflight = {} BY <1>1, PlaceFacts
<1> QED BY <1>1, <1>2 DEF Awaited, InHand

\* A bio without pages is gone.
LEMMA LosePlaces ==
  ASSUME QInv, PageAllocFails
  PROVE  /\ UNCHANGED <<made, module, queue, inflight>>
         /\ inflight = {} /\ thread.bio \in Bio
         /\ Held /\ ~ Held'
         /\ \A b : Awaited(b)' => Awaited(b) /\ b # thread.bio
<1>1. /\ UNCHANGED <<made, module, queue, writer, inflight>>
      /\ Held /\ ~ Held'
  BY DEF PageAllocFails, AllocFails, ThreadGoes, Held, QInv, IInv, TypeOK
<1>2. thread.bio \in Bio /\ inflight = {} BY <1>1, PlaceFacts
<1>3. /\ ~ In(thread.bio, queue)
      /\ \A w \in Writer : InHand(w) => writer[w].bio # thread.bio
  BY <1>1 DEF QInv, Once, QueueOnce, HandOnce
<1> QED BY <1>1, <1>2, <1>3 DEF Awaited, InHand

\* Nor is one that the device has completed anywhere else.
LEMMA DonePlaces ==
  ASSUME QInv, NEW b \in Bio, WriteDone(b)
  PROVE  /\ UNCHANGED <<made, module, queue, thread>>
         /\ inflight = {b} /\ inflight' = {} /\ ~ Held /\ ~ Held'
         /\ ~ Awaited(b) /\ \A c : Awaited(c)' => Awaited(c)
<1>1. /\ UNCHANGED <<made, module, queue, writer, thread>>
      /\ b \in inflight /\ inflight' = inflight \ {b}
  BY DEF WriteDone, EndRequest
<1> QED BY <1>1, PlaceFacts DEF Awaited, InHand, Held

-----------------------------------------------------------------------------
(* The parts of the invariant.                                             *)

\* vrd_init and backup_init establish it.
LEMMA InitDisk == DiskInit => DInv
<1> SUFFICES ASSUME DiskInit PROVE DInv
  OBVIOUS
<1> USE DEF DiskInit
<1>1. DiskTypeOK
  <2>1. 0 \in 0..Sectors BY SectorFacts
  <2>2. request \in [Writer -> [next : 0..Sectors, end : 0..Sectors,
                               bio : Bio \cup {0}]]
    BY <2>1 DEF NoRequest
  <2>3. extent \in [Bio -> [first : 0..Sectors, end : 0..Sectors]]
    BY <2>1 DEF NoExtent
  <2>4. NoPages \in [Sector -> Version] BY DEF NoPages, Version
  <2> QED BY <2>1, <2>2, <2>3, <2>4 DEF DiskTypeOK
<1>2. ~ Held /\ made = 0 /\ inflight = {} /\ module = "live"
  BY DEF Init, Held
<1>3. Requested /\ Copying
  BY <1>2 DEF Requested, Copying, Busy, NoRequest, NoExtent
<1>4. Contents BY <1>2 DEF Contents, NoPages
<1>5. Saved /\ Removed BY <1>2 DEF Saved, Removed
<1> QED BY <1>1, <1>3, <1>4, <1>5 DEF DInv

\* A step keeps the types.
LEMMA DiskTypesKept ==
  QInv /\ DInv /\ [DiskNext]_allvars => DiskTypeOK'
<1> SUFFICES ASSUME QInv, DInv, [DiskNext]_allvars PROVE DiskTypeOK'
  OBVIOUS
<1> USE DEF DInv, DiskTypeOK
<1>1. CASE CalmStep
  <2>1. hook' \in {"default", "backup"} /\ lost' = lost /\ freed' \in BOOLEAN
    BY <1>1 DEF CalmStep, InHook, SetHook, ThreadElse, DiskTimeOut, StopBackup,
       EndBackup, VrdExit, diskvars, allvars
  <2> QED BY <1>1, <2>1, CalmPlaces
<1>2. ASSUME NEW w \in Writer, NEW b \in Writes,
             Enter(w, b[1], b[2], made + 1) \/ Enter(w, b[1], b[2], 0),
             made + 1 \in Bio \/ Enter(w, b[1], b[2], 0)
      PROVE  /\ request' \in [Writer -> [next : 0..Sectors, end : 0..Sectors,
                                         bio : Bio \cup {0}]]
             /\ b[1] \in 0..Sectors /\ b[1] + b[2] \in 0..Sectors
  <2>1. b[1] \in 0..Sectors /\ b[1] + b[2] \in 0..Sectors
    BY <1>2, SectorFacts DEF Enter, Fits
  <2> QED BY <1>2, <2>1 DEF Enter
<1>3. ASSUME NEW w \in Writer, NEW b \in Writes,
             RequestHooked(w, b[1], b[2])
      PROVE  DiskTypeOK'
  <2>1. made + 1 \in Bio BY <1>3, HookedPlaces
  <2> QED BY <1>2, <1>3, <2>1 DEF RequestHooked
<1>4. ASSUME NEW w \in Writer, NEW b \in Writes,
             RequestUnhooked(w, b[1], b[2])
      PROVE  DiskTypeOK'
  BY <1>2, <1>4 DEF RequestUnhooked
<1>5. ASSUME NEW w \in Writer, CopyIn(w) PROVE DiskTypeOK'
  <2> DEFINE t == request[w].next
  <2>1. t \in Sector /\ t + 1 \in 0..Sectors
    BY <1>5, SectorFacts DEF CopyIn, Busy
  <2>2. disk' \in [Sector -> Nat] BY <1>5, <2>1 DEF CopyIn
  <2>3. request' \in [Writer -> [next : 0..Sectors, end : 0..Sectors,
                                bio : Bio \cup {0}]]
    <3>1. NoRequest \in [next : 0..Sectors, end : 0..Sectors, bio : Bio \cup {0}]
      BY SectorFacts DEF NoRequest
    <3> QED BY <1>5, <2>1, <3>1 DEF CopyIn
  <2>4. missed' \in SUBSET Sector BY <1>5, <2>1 DEF CopyIn
  <2> QED BY <1>5, <2>2, <2>3, <2>4 DEF CopyIn
<1>6. CASE TakeBio
  <2>1. filled' \in 0..Sectors BY <1>6, TakePlaces DEF TakeBio
  <2> QED BY <1>6, <2>1 DEF TakeBio
<1>7. CASE CopyOut
  <2>1. thread.bio \in Bio BY <1>7, PlaceFacts DEF CopyOut, Held
  <2>2. filled \in Sector /\ filled + 1 \in 0..Sectors
    <3>1. extent[thread.bio].end \in 0..Sectors BY <2>1
    <3>2. filled \in Nat /\ filled < extent[thread.bio].end
      BY <1>7 DEF CopyOut
    <3> QED BY <3>1, <3>2, SectorFacts
  <2>3. disk[filled] \in Version BY <2>2 DEF Version
  <2>4. page' \in [Bio -> [Sector -> Version]] BY <1>7, <2>1, <2>2, <2>3 DEF CopyOut
  <2> QED BY <1>7, <2>2, <2>4 DEF CopyOut
<1>8. CASE SubmitCopy BY <1>8, SubmitPlaces DEF diskvars
<1>9. NoPages \in [Sector -> Version]
      /\ NoExtent \in [first : 0..Sectors, end : 0..Sectors]
  BY SectorFacts DEF NoPages, NoExtent, Version
<1>10. CASE PageAllocFails
  <2>1. thread.bio \in Bio BY <1>10, LosePlaces
  <2> QED BY <1>9, <1>10, <2>1 DEF PageAllocFails, Covered
<1>11. ASSUME NEW b \in Bio, WriteDone(b) PROVE DiskTypeOK'
  BY <1>9, <1>11 DEF WriteDone
<1> QED
  BY <1>1, <1>3, <1>4, <1>5, <1>6, <1>7, <1>8, <1>10, <1>11, DiskSteps

\* A step keeps what is known of the requests and of the copying.
LEMMA RequestsKept ==
  QInv /\ DInv /\ [DiskNext]_allvars => Requested' /\ Copying'
<1> SUFFICES ASSUME QInv, DInv, [DiskNext]_allvars
             PROVE  Requested' /\ Copying'
  OBVIOUS
<1> USE DEF DInv, DiskTypeOK, Requested, Copying, Busy
<1>1. CASE CalmStep BY <1>1, CalmPlaces
<1>2. ASSUME NEW w \in Writer, NEW b \in Writes,
             RequestHooked(w, b[1], b[2])
      PROVE  Requested' /\ Copying'
  <2>1. /\ extent' = [extent EXCEPT ![made + 1] =
                        [first |-> b[1], end |-> b[1] + b[2]]]
        /\ request' = [request EXCEPT ![w] =
                        [next |-> b[1], end |-> b[1] + b[2], bio |-> made + 1]]
        /\ filled' = filled
    BY <1>2 DEF RequestHooked, Enter
  <2>2. /\ \A c \in Bio \ {made + 1} : extent'[c] = extent[c]
        /\ extent'[made + 1].first = b[1]
        /\ extent'[made + 1].end = b[1] + b[2]
    BY <1>2, <2>1, HookedPlaces
  <2>3. /\ \A v \in Writer \ {w} : request'[v] = request[v]
        /\ request'[w].next = b[1] /\ request'[w].end = b[1] + b[2]
        /\ request'[w].bio = made + 1
    BY <2>1
  <2>4. \A c \in Bio : extent'[c].first <= extent'[c].end
    BY <2>2, SectorFacts
  <2>5. \A v \in Writer : request'[v].bio <= made'
    <3>1. \A v \in Writer : request[v].bio \in Int
      <4>1. \A v \in Writer : request[v].bio \in Bio \cup {0} OBVIOUS
      <4>2. \A c \in Bio \cup {0} : c \in Int BY ONLY SectorFacts
      <4> QED BY ONLY <4>1, <4>2
    <3> QED BY <1>2, <2>3, <3>1, HookedPlaces, PlaceFacts
  <2>6. ASSUME NEW v \in Writer, Busy(v)', Awaited(request[v].bio)'
        PROVE  /\ extent'[request'[v].bio].end = request'[v].end
               /\ extent'[request'[v].bio].first <= request'[v].next
    <3>1. CASE v = w BY <2>2, <2>3, <3>1, SectorFacts
    <3>2. CASE v # w
      <4>1. request[v].bio # made + 1
        <5>1. request[v].bio <= made /\ made \in Nat BY PlaceFacts
        <5> QED BY <5>1
      <4>2. Awaited(request[v].bio) /\ request[v].bio \in Bio
        BY <1>2, <2>3, <2>6, <3>2, <4>1, HookedPlaces, PlaceFacts
      <4> QED BY <2>2, <2>3, <2>6, <3>2, <4>1, <4>2
    <3> QED BY <3>1, <3>2
  <2>7. Copying'
    <3>1. Held => thread.bio \in Bio /\ thread.bio # made + 1
      BY <1>2, HookedPlaces, PlaceFacts DEF Awaited
    <3> QED BY <1>2, <2>1, <2>2, <3>1, HookedPlaces
  <2> QED BY <2>4, <2>5, <2>6, <2>7
<1>3. ASSUME NEW w \in Writer, NEW b \in Writes,
             RequestUnhooked(w, b[1], b[2])
      PROVE  Requested' /\ Copying'
  <2>1. /\ request' = [request EXCEPT ![w] =
                        [next |-> b[1], end |-> b[1] + b[2], bio |-> 0]]
        /\ UNCHANGED <<extent, filled>> /\ UNCHANGED vars
    BY <1>3 DEF RequestUnhooked, Enter
  <2>2. ~ Awaited(0) BY PlaceFacts, SectorFacts
  <2>3. made \in Nat BY PlaceFacts
  <2> QED BY <2>1, <2>2, <2>3, UnhookedPlaces
<1>4. ASSUME NEW w \in Writer, CopyIn(w) PROVE Requested' /\ Copying'
  <2>1. /\ UNCHANGED <<extent, filled>> /\ UNCHANGED vars
        /\ \A v \in Writer \ {w} : request'[v] = request[v]
        /\ \/ request'[w] = NoRequest
           \/ request'[w] = [next |-> request[w].next + 1,
                             end |-> request[w].end, bio |-> request[w].bio]
        /\ Busy(w)
    BY <1>4 DEF CopyIn
  <2>2. made \in Nat BY PlaceFacts
  <2>3. CASE request'[w] = NoRequest
    <3>1. request'[w].next = 0 /\ request'[w].end = 0 /\ request'[w].bio = 0
      BY <2>3 DEF NoRequest
    <3>2. \A v \in Writer : request'[v].bio <= made'
      <4> SUFFICES ASSUME NEW v \in Writer PROVE request'[v].bio <= made'
        OBVIOUS
      <4>1. CASE v = w BY <2>1, <2>2, <3>1, <4>1, UnhookedPlaces
      <4>2. CASE v # w BY <2>1, <4>2, UnhookedPlaces
      <4> QED BY <4>1, <4>2
    <3>3. \A v \in Writer : Busy(v)' => v # w BY <3>1
    <3> QED BY <2>1, <3>2, <3>3, UnhookedPlaces
  <2>4. CASE request'[w] = [next |-> request[w].next + 1,
                            end |-> request[w].end, bio |-> request[w].bio]
    <3>1. /\ request'[w].next = request[w].next + 1
          /\ request'[w].end = request[w].end /\ request'[w].bio = request[w].bio
      BY <2>4
    <3>2. ASSUME Awaited(request[w].bio)
          PROVE  /\ extent[request[w].bio].end = request[w].end
                 /\ extent[request[w].bio].first <= request[w].next + 1
      <4>1. request[w].bio \in Bio BY <3>2, PlaceFacts
      <4> QED BY <2>1, <3>2, <4>1
    <3> QED BY <2>1, <3>1, <3>2, UnhookedPlaces
  <2> QED BY <2>1, <2>3, <2>4
<1>5. CASE TakeBio
  <2>1. UNCHANGED <<request, extent>> /\ (queue = <<>> => filled' = filled)
    BY <1>5 DEF TakeBio
  <2> QED BY <1>5, <2>1, TakePlaces
<1>6. CASE CopyOut
  <2>1. UNCHANGED vars /\ UNCHANGED <<request, extent>> /\ filled' = filled + 1
        /\ Held /\ filled < extent[thread.bio].end
    BY <1>6 DEF CopyOut, Held
  <2>2. Requested' BY <2>1, UnhookedPlaces
  <2>3. thread.bio \in Bio BY <2>1, PlaceFacts
  <2>4. extent[thread.bio].first \in Nat /\ extent[thread.bio].end \in Nat
    BY <2>3
  <2>5. Copying' BY <2>1, <2>4, UnhookedPlaces
  <2> QED BY <2>2, <2>5
<1>7. CASE SubmitCopy BY <1>7, SubmitPlaces DEF diskvars
<1>8. CASE PageAllocFails
  <2>1. /\ UNCHANGED request
        /\ \A c \in Bio \ {thread.bio} : extent'[c] = extent[c]
        /\ extent'[thread.bio] = [first |-> 0, end |-> 0]
    BY <1>8, LosePlaces DEF PageAllocFails, NoExtent
  <2>2. \A c \in Bio : extent'[c].first <= extent'[c].end
    <3> SUFFICES ASSUME NEW c \in Bio PROVE extent'[c].first <= extent'[c].end
      OBVIOUS
    <3>1. CASE c = thread.bio BY <2>1, <3>1
    <3>2. CASE c # thread.bio BY <2>1, <3>2
    <3> QED BY <3>1, <3>2
  <2>3. \A v \in Writer : Awaited(request[v].bio)' =>
          Awaited(request[v].bio) /\ request[v].bio # thread.bio
    BY <1>8, <2>1, LosePlaces
  <2>4. \A v \in Writer : Awaited(request[v].bio) => request[v].bio \in Bio
    BY PlaceFacts
  <2> QED BY <1>8, <2>1, <2>2, <2>3, <2>4, LosePlaces
<1>9. ASSUME NEW b \in Bio, WriteDone(b) PROVE Requested' /\ Copying'
  <2>1. /\ UNCHANGED request
        /\ \A c \in Bio \ {b} : extent'[c] = extent[c]
        /\ extent'[b] = [first |-> 0, end |-> 0]
    BY <1>9 DEF WriteDone, NoExtent
  <2>2. \A c \in Bio : extent'[c].first <= extent'[c].end
    <3> SUFFICES ASSUME NEW c \in Bio PROVE extent'[c].first <= extent'[c].end
      OBVIOUS
    <3>1. CASE c = b BY <2>1, <3>1
    <3>2. CASE c # b BY <2>1, <3>2
    <3> QED BY <3>1, <3>2
  <2>3. \A v \in Writer : Awaited(request[v].bio)' =>
          Awaited(request[v].bio) /\ request[v].bio # b
    BY <1>9, <2>1, DonePlaces
  <2>4. \A v \in Writer : Awaited(request[v].bio) => request[v].bio \in Bio
    BY PlaceFacts
  <2> QED BY <1>9, <2>1, <2>2, <2>3, <2>4, DonePlaces
<1> QED
  BY <1>1, <1>2, <1>3, <1>4, <1>5, <1>6, <1>7, <1>8, <1>9, DiskSteps

\* A new bio changes the extent of no bio that is in the thread's hands or at
\* the device.
LEMMA HookedCovered ==
  ASSUME QInv, DInv, NEW w \in Writer, NEW f, NEW n, RequestHooked(w, f, n)
  PROVE  /\ \A b \in Bio : b # made + 1 => Covered(b)' = Covered(b)
         /\ Held => thread.bio # made + 1
         /\ made + 1 \notin inflight
         /\ \A b, s : Unread(b, s) => b # made + 1
<1>1. \A b \in Bio : b # made + 1 => extent'[b] = extent[b]
  BY DEF RequestHooked, DInv, DiskTypeOK
<1>2. \A b \in Bio : b # made + 1 => Covered(b)' = Covered(b)
  BY <1>1 DEF Covered
<1>3. \A b, s : Unread(b, s) => Awaited(b)
  BY DEF Unread, Awaited, In, Held
<1>4. Held => Awaited(thread.bio) BY DEF Awaited
<1> QED BY <1>2, <1>3, <1>4, HookedPlaces

\* A page that is freed is behind everything.
LEMMA EmptyPages == \A s \in Sector : NoPages[s] = -1
BY DEF NoPages

\* A step keeps the contents in order.
LEMMA ContentsKept ==
  QInv /\ DInv /\ [DiskNext]_allvars => Contents'
<1> SUFFICES ASSUME QInv, DInv, [DiskNext]_allvars PROVE Contents'
  OBVIOUS
<1> USE DEF DInv, DiskTypeOK, Contents
<1>0. \A v \in Version : v \in Int /\ v >= -1 BY DEF Version
<1>1. CASE CalmStep
  BY <1>1, CalmPlaces DEF Covered
<1>2. ASSUME NEW w \in Writer, NEW b \in Writes,
             RequestHooked(w, b[1], b[2])
      PROVE  Contents'
  <2>1. UNCHANGED <<disk, image, page, filled>> BY <1>2 DEF RequestHooked
  <2>2. Held => thread.bio \in Bio BY PlaceFacts
  <2>3. inflight \subseteq Bio BY PlaceFacts
  <2>4. UNCHANGED <<inflight, thread>> /\ (Held' <=> Held)
    BY <1>2, HookedPlaces
  <2>5. Held => Covered(thread.bio)' = Covered(thread.bio)
    BY <1>2, <2>2, <2>4, HookedCovered
  <2>6. \A c \in inflight : Covered(c)' = Covered(c)
    BY <1>2, <2>3, HookedCovered
  <2>7. Held' => \A s \in Covered(thread.bio)' :
                   s < filled' => image'[s] <= page'[thread'.bio][s]
    BY <2>1, <2>4, <2>5
  <2>8. \A c \in inflight' : \A s \in Covered(c)' : image'[s] <= page'[c][s]
    BY <2>1, <2>4, <2>6
  <2> QED BY <2>1, <2>7, <2>8
<1>3. ASSUME NEW w \in Writer, NEW b \in Writes,
             RequestUnhooked(w, b[1], b[2])
      PROVE  Contents'
  BY <1>3, UnhookedPlaces DEF RequestUnhooked, Covered
<1>4. ASSUME NEW w \in Writer, CopyIn(w) PROVE Contents'
  <2>1. UNCHANGED <<image, page, filled, extent>> /\ UNCHANGED vars
    BY <1>4 DEF CopyIn
  <2>2. \A s \in Sector : disk'[s] \in Int /\ disk[s] <= disk'[s]
    BY <1>4 DEF CopyIn
  <2>3. /\ \A s \in Sector : image[s] \in Int /\ disk[s] \in Int
        /\ \A b \in Bio, s \in Sector : page[b][s] \in Int
    BY <1>0
  <2>4. \A s \in Sector : image'[s] <= disk'[s] BY <2>1, <2>2, <2>3
  <2>5. \A b \in Bio, s \in Sector : page'[b][s] <= disk'[s]
    BY <2>1, <2>2, <2>3
  <2> QED BY <2>1, <2>4, <2>5, UnhookedPlaces DEF Covered
<1>5. CASE TakeBio
  <2>1. UNCHANGED <<disk, image, page, extent>> BY <1>5 DEF TakeBio
  <2>2. ASSUME Held'
        PROVE  \A s \in Covered(thread'.bio) : ~ (s < filled')
    <3>1. /\ thread'.bio \in Bio /\ filled' = extent[thread'.bio].first
      BY <1>5, <2>2, TakePlaces
    <3> QED BY <3>1, SectorFacts DEF Covered
  <2> QED BY <1>5, <2>1, <2>2, TakePlaces DEF Covered
<1>6. CASE CopyOut
  <2> DEFINE b == thread.bio
  <2>1. /\ UNCHANGED vars /\ UNCHANGED <<disk, image, extent>>
        /\ filled' = filled + 1 /\ Held /\ filled < extent[b].end
        /\ page' = [page EXCEPT ![b][filled] = disk[filled]]
    BY <1>6 DEF CopyOut, Held
  <2>2. b \in Bio /\ inflight = {} BY <2>1, PlaceFacts
  <2>3. filled \in Sector
    <3>1. extent[b].end \in 0..Sectors BY <2>2
    <3> QED BY <2>1, <3>1, SectorFacts
  <2>4. /\ page'[b][filled] = disk[filled]
        /\ \A s \in Sector : s # filled => page'[b][s] = page[b][s]
        /\ \A c \in Bio : c # b => page'[c] = page[c]
    BY <2>1, <2>2, <2>3
  <2>5. \A c \in Bio, s \in Sector : page'[c][s] <= disk[s]
    <3> SUFFICES ASSUME NEW c \in Bio, NEW s \in Sector
                 PROVE  page'[c][s] <= disk[s]
      OBVIOUS
    <3>1. CASE c = b /\ s = filled BY <2>3, <2>4, <3>1
    <3>2. CASE c = b /\ s # filled BY <2>4, <3>2
    <3>3. CASE c # b BY <2>4, <3>3
    <3> QED BY <3>1, <3>2, <3>3
  <2>6. ASSUME NEW s \in Covered(b), s < filled + 1
        PROVE  image[s] <= page'[b][s]
    <3>1. s \in Sector /\ s \in Nat BY SectorFacts DEF Covered
    <3>2. CASE s = filled BY <2>4, <3>1, <3>2
    <3>3. CASE s # filled
      <4>1. s < filled BY <2>6, <3>1, <3>3, SectorFacts
      <4> QED BY <2>1, <2>4, <3>1, <3>3, <4>1
    <3> QED BY <3>2, <3>3
  <2>7. Covered(b)' = Covered(b) BY <2>1 DEF Covered, vars
  <2>8. Held' /\ thread' = thread /\ inflight' = {}
    BY <2>1, <2>2 DEF vars, Held
  <2> QED BY <2>1, <2>5, <2>6, <2>7, <2>8
<1>7. CASE SubmitCopy
  <2>1. /\ UNCHANGED diskvars /\ inflight' = {thread.bio} /\ ~ Held' /\ Held
        /\ filled = extent[thread.bio].end
    BY <1>7, SubmitPlaces
  <2>2. \A b \in Bio : Covered(b)' = Covered(b) /\ page'[b] = page[b]
    BY <2>1 DEF diskvars, Covered
  <2>3. thread.bio \in Bio BY <2>1, PlaceFacts
  <2>4. \A s \in Covered(thread.bio) : s < filled
    BY <2>1 DEF Covered
  <2> QED BY <2>1, <2>2, <2>3, <2>4 DEF diskvars
<1>8. CASE PageAllocFails
  <2>1. /\ UNCHANGED <<disk, image>>
        /\ page' = [page EXCEPT ![thread.bio] = NoPages]
        /\ thread.bio \in Bio /\ ~ Held' /\ inflight' = {}
    BY <1>8, LosePlaces DEF PageAllocFails
  <2>2. \A c \in Bio, s \in Sector : page'[c][s] <= disk[s]
    <3> SUFFICES ASSUME NEW c \in Bio, NEW s \in Sector
                 PROVE  page'[c][s] <= disk[s]
      OBVIOUS
    <3>1. disk[s] \in Nat OBVIOUS
    <3>2. CASE c = thread.bio BY <2>1, <3>1, <3>2, EmptyPages
    <3>3. CASE c # thread.bio BY <2>1, <3>3
    <3> QED BY <3>2, <3>3
  <2> QED BY <2>1, <2>2
<1>9. ASSUME NEW b \in Bio, WriteDone(b) PROVE Contents'
  <2>1. /\ UNCHANGED disk
        /\ page' = [page EXCEPT ![b] = NoPages]
        /\ image' = [s \in Sector |-> IF s \in Covered(b) THEN page[b][s]
                                      ELSE image[s]]
        /\ ~ Held' /\ inflight' = {}
    BY <1>9, DonePlaces DEF WriteDone
  <2>2. \A c \in Bio, s \in Sector : page'[c][s] <= disk[s]
    <3> SUFFICES ASSUME NEW c \in Bio, NEW s \in Sector
                 PROVE  page'[c][s] <= disk[s]
      OBVIOUS
    <3>1. disk[s] \in Nat OBVIOUS
    <3>2. CASE c = b BY <2>1, <3>1, <3>2, EmptyPages
    <3>3. CASE c # b BY <2>1, <3>3
    <3> QED BY <3>2, <3>3
  <2>3. \A s \in Sector : image'[s] <= disk[s] BY <2>1
  <2> QED BY <2>1, <2>2, <2>3
<1> QED
  BY <1>1, <1>2, <1>3, <1>4, <1>5, <1>6, <1>7, <1>8, <1>9, DiskSteps

\* A step keeps the backup up to date, but for what is missed.
LEMMA SavedKept ==
  QInv /\ DInv /\ [DiskNext]_allvars => Saved'
<1> SUFFICES ASSUME QInv, DInv, [DiskNext]_allvars, module' # "gone",
                    NEW s \in Sector, disk'[s] > 0, s \notin missed'
             PROVE  UpToDate(s)'
  BY DEF Saved
<1> USE DEF DInv, DiskTypeOK, UpToDate
<1>0. \A b, t : Unread(b, t) <=> In(b, queue) \/ (Held /\ thread.bio = b /\ filled <= t)
  BY DEF Unread, In, Held
<1>00. \A b, t : Unread(b, t)' <=>
         In(b, queue') \/ (Held' /\ thread'.bio = b /\ filled' <= t)
  BY DEF Unread, In, Held
<1>a. \A b, t : Unread(b, t) => b \in Bio
  BY <1>0, PlaceFacts DEF Awaited
<1>b. ASSUME module # "gone", disk'[s] = disk[s], s \notin missed
      PROVE  UpToDate(s)
  BY <1>b DEF Saved
<1>1. CASE CalmStep
  <2>1. UpToDate(s) BY <1>1, <1>b, CalmPlaces
  <2>2. \A b : Unread(b, s) => Unread(b, s)'
    BY <1>0, <1>00, <1>1, CalmPlaces
  <2>3. \A b \in Bio : Covered(b)' = Covered(b)
    BY <1>1, CalmPlaces DEF Covered
  <2>4. Held => thread.bio \in Bio BY PlaceFacts
  <2>5. inflight \subseteq Bio BY PlaceFacts
  <2> QED BY <1>1, <2>1, <2>2, <2>3, <2>4, <2>5, CalmPlaces
<1>2. ASSUME NEW w \in Writer, NEW b \in Writes,
             RequestHooked(w, b[1], b[2])
      PROVE  UpToDate(s)'
  <2>1. /\ UNCHANGED <<disk, image, page, filled, missed>>
        /\ UNCHANGED <<inflight, thread, queue, module>>
        /\ Held' <=> Held
    BY <1>2, HookedPlaces DEF RequestHooked
  <2>2. UpToDate(s) BY <1>b, <2>1
  <2>3. \A c \in Bio : Unread(c, s) => Unread(c, s)' /\ Covered(c)' = Covered(c)
    BY <1>0, <1>00, <1>2, <2>1, HookedCovered
  <2>4. Held => Covered(thread.bio)' = Covered(thread.bio)
    BY <1>2, <2>1, HookedCovered, PlaceFacts
  <2>5. \A c \in inflight : Covered(c)' = Covered(c)
    BY <1>2, HookedCovered, PlaceFacts
  <2> QED BY <2>1, <2>2, <2>3, <2>4, <2>5
<1>3. ASSUME NEW w \in Writer, NEW b \in Writes,
             RequestUnhooked(w, b[1], b[2])
      PROVE  UpToDate(s)'
  <2>1. UNCHANGED <<disk, image, page, filled, missed, extent>> /\ UNCHANGED vars
    BY <1>3 DEF RequestUnhooked
  <2>2. UpToDate(s) BY <1>b, <2>1, UnhookedPlaces
  <2> QED BY <2>1, <2>2 DEF Unread, Held, Covered, vars
<1>4. ASSUME NEW w \in Writer, CopyIn(w) PROVE UpToDate(s)'
  <2> DEFINE t == request[w].next
  <2> DEFINE b == request[w].bio
  <2>1. /\ UNCHANGED <<image, page, filled, extent>> /\ UNCHANGED vars
        /\ Busy(w)
        /\ disk' = [disk EXCEPT ![t] = @ + 1]
        /\ missed' = IF Unread(b, t) THEN missed ELSE missed \cup {t}
    BY <1>4 DEF CopyIn
  <2>2. CASE s = t
    <3>1. Unread(b, t) /\ b \in Bio BY <1>a, <2>1, <2>2
    <3>2. extent[b].end = request[w].end /\ extent[b].first <= t
      BY <1>0, <2>1, <3>1 DEF Requested, Awaited
    <3>3. s \in Covered(b) BY <2>1, <2>2, <3>2 DEF Covered, Busy
    <3>4. Unread(b, s) BY <2>2, <3>1
    <3> HIDE DEF b
    <3>5. UNCHANGED <<thread, queue, filled, extent>> BY <2>1 DEF vars
    <3>6. \A c \in Bio : Covered(c)' = Covered(c) BY <3>5 DEF Covered
    <3>7. \A c \in Bio : Unread(c, s) => Unread(c, s)'
      BY <3>5, <1>0, <1>00 DEF Held
    <3>8. \E c \in Bio : s \in Covered(c) /\ Unread(c, s)
      BY <3>1, <3>3, <3>4
    <3> QED BY <3>6, <3>7, <3>8
  <2>3. CASE s # t
    <3>1. disk'[s] = disk[s] /\ s \notin missed BY <2>1, <2>3
    <3>2. UpToDate(s) BY <1>b, <2>1, <3>1, UnhookedPlaces
    <3> QED BY <2>1, <3>1, <3>2 DEF Unread, Held, Covered, vars
  <2> QED BY <2>2, <2>3
<1>5. CASE TakeBio
  <2>1. UNCHANGED <<disk, image, page, extent, missed>> BY <1>5 DEF TakeBio
  <2>2. UpToDate(s) /\ ~ Held BY <1>b, <1>5, <2>1, TakePlaces
  <2>3. \A b \in Bio : Covered(b)' = Covered(b) BY <2>1 DEF Covered
  <2>4. ASSUME NEW b \in Bio, s \in Covered(b), Unread(b, s)
        PROVE  Unread(b, s)'
    <3>1. In(b, queue) BY <1>0, <2>2, <2>4
    <3>2. queue # <<>> BY <3>1, InEmpty
    <3>3. CASE In(b, queue') BY <1>00, <3>3
    <3>4. CASE b = Head(queue)
      <4>1. Held' /\ thread'.bio = b /\ filled' = extent[b].first
        BY <1>5, <3>2, <3>4, TakePlaces
      <4>2. extent[b].first <= s BY <2>4 DEF Covered
      <4> QED BY <1>00, <4>1, <4>2
    <3> QED BY <1>5, <3>1, <3>2, <3>3, <3>4, TakePlaces
  <2>5. inflight' = inflight /\ inflight \subseteq Bio
    BY <1>5, TakePlaces, PlaceFacts
  <2> QED BY <2>1, <2>2, <2>3, <2>4, <2>5
<1>6. CASE CopyOut
  <2> DEFINE b == thread.bio
  <2>1. /\ UNCHANGED vars /\ UNCHANGED <<disk, image, extent>>
        /\ filled' = filled + 1 /\ Held /\ filled < extent[b].end
        /\ page' = [page EXCEPT ![b][filled] = disk[filled]]
        /\ missed' = missed \ {filled}
    BY <1>6 DEF CopyOut, Held
  <2>2. b \in Bio /\ inflight = {} BY <2>1, PlaceFacts
  <2>3. \A c \in Bio : Covered(c)' = Covered(c) BY <2>1 DEF Covered
  <2>4. Held' /\ thread' = thread /\ queue' = queue BY <2>1 DEF vars, Held
  <2>5. s \in Nat /\ filled \in Nat BY SectorFacts
  <2>6. CASE s = filled
    <3>1. extent[b].first <= s BY <2>1, <2>6 DEF Copying
    <3>2. s \in Covered(b) BY <2>1, <2>6, <3>1 DEF Covered
    <3>3. page'[b][s] = disk[s] BY <2>1, <2>2, <2>6
    <3> QED BY <2>1, <2>2, <2>3, <2>4, <2>5, <2>6, <3>2, <3>3
  <2>7. CASE s # filled
    <3>1. UpToDate(s) BY <1>b, <2>1, <2>7 DEF vars
    <3>2. page'[b][s] = page[b][s] BY <2>1, <2>2, <2>7
    <3>3. \A c \in Bio : Unread(c, s) => Unread(c, s)'
      BY <1>0, <1>00, <2>1, <2>4, <2>5, <2>7
    <3>4. s < filled => s < filled' BY <2>1, <2>5
    <3> QED BY <2>1, <2>2, <2>3, <2>4, <3>1, <3>2, <3>3, <3>4
  <2> QED BY <2>6, <2>7
<1>7. CASE SubmitCopy
  <2>1. /\ UNCHANGED <<made, module, queue>> /\ UNCHANGED diskvars
        /\ inflight' = {thread.bio} /\ thread.bio \in Bio
        /\ filled = extent[thread.bio].end
        /\ Held
    BY <1>7, SubmitPlaces
  <2>2. UpToDate(s) /\ inflight = {} BY <1>b, <2>1, PlaceFacts DEF diskvars
  <2>3. \A c \in Bio : Covered(c)' = Covered(c)
    BY <2>1 DEF Covered, diskvars
  <2>4. s \in Covered(thread.bio) => s < filled /\ ~ (filled <= s)
    BY <2>1, SectorFacts DEF Covered
  <2>5. \A c \in Bio : s \in Covered(c) /\ Unread(c, s) => Unread(c, s)'
    BY <1>0, <1>00, <2>1, <2>4
  <2> QED BY <2>1, <2>2, <2>3, <2>5 DEF diskvars
<1>8. CASE PageAllocFails
  <2> DEFINE b == thread.bio
  <2>1. /\ UNCHANGED <<disk, image, queue, module>> /\ inflight = {}
        /\ b \in Bio /\ Held
        /\ missed' = missed \cup Covered(b)
        /\ \A c \in Bio \ {b} : extent'[c] = extent[c]
    BY <1>8, LosePlaces DEF PageAllocFails
  <2>2. UpToDate(s) /\ s \notin Covered(b) BY <1>b, <2>1
  <2>3. CASE image[s] = disk[s] BY <2>1, <2>3
  <2>4. ASSUME NEW c \in Bio, s \in Covered(c), Unread(c, s) PROVE UpToDate(s)'
    <3>1. c # b BY <2>2, <2>4
    <3>2. Unread(c, s)' BY <1>0, <1>00, <2>1, <2>4, <3>1
    <3>3. Covered(c)' = Covered(c) BY <2>1, <3>1 DEF Covered
    <3> QED BY <2>4, <3>2, <3>3
  <2> QED BY <2>1, <2>2, <2>3, <2>4
<1>9. ASSUME NEW b \in Bio, WriteDone(b) PROVE UpToDate(s)'
  <2>1. /\ UNCHANGED <<disk, missed, queue, thread, module>> /\ inflight = {b}
        /\ ~ Held /\ ~ Awaited(b)
        /\ \A c \in Bio \ {b} : extent'[c] = extent[c]
        /\ image'[s] = IF s \in Covered(b) THEN page[b][s] ELSE image[s]
    BY <1>9, DonePlaces DEF WriteDone
  <2>2. UpToDate(s) BY <1>b, <2>1
  <2>3. image[s] \in Int /\ page[b][s] \in Int /\ disk[s] \in Int
    BY DEF Version
  <2>4. CASE s \in Covered(b) /\ (image[s] = disk[s] \/ page[b][s] = disk[s])
    <3>1. image[s] <= page[b][s] /\ page[b][s] <= disk[s]
      BY <2>1, <2>4 DEF Contents
    <3>2. page[b][s] = disk[s] BY ONLY <2>3, <2>4, <3>1
    <3>3. image'[s] = disk'[s] BY <2>1, <2>4, <3>2
    <3> QED BY <3>3
  <2>5. CASE s \notin Covered(b) /\ image[s] = disk[s] BY <2>1, <2>5
  <2>6. ASSUME NEW c \in Bio, s \in Covered(c), Unread(c, s) PROVE UpToDate(s)'
    <3>1. In(c, queue) /\ c # b BY <1>0, <2>1, <2>6 DEF Awaited
    <3>2. Unread(c, s)' BY <1>00, <2>1, <3>1
    <3>3. Covered(c)' = Covered(c) BY <2>1, <3>1 DEF Covered
    <3> QED BY <2>6, <3>2, <3>3
  <2> QED BY <2>1, <2>2, <2>4, <2>5, <2>6
<1> QED
  BY <1>1, <1>2, <1>3, <1>4, <1>5, <1>6, <1>7, <1>8, <1>9, DiskSteps

\* A step keeps the order of the removal.
LEMMA RemovalKept ==
  QInv /\ DInv /\ [DiskNext]_allvars => Removed'
<1> SUFFICES ASSUME QInv, DInv, [DiskNext]_allvars PROVE Removed'
  OBVIOUS
<1> USE DEF DInv, Removed, Busy
<1>1. ASSUME NEW w \in Writer, InHook(w) PROVE Removed'
  BY <1>1 DEF InHook, diskvars, WriterStep, WriterDown, ListAddTail, WriterUp,
     TestAndSetBit, WakeUp
<1>2. CASE SetHook BY <1>2 DEF SetHook, vars
<1>3. CASE ThreadElse \/ DiskTimeOut
  BY <1>3 DEF ThreadElse, DiskTimeOut, diskvars, ThreadStarts, ThreadDown,
     ThreadUp, WaitEvent, ClearBit, Completed, ShouldStop, TimeOut, ThreadGoes
<1>4. CASE StopBackup BY <1>4 DEF StopBackup, KthreadStop, diskvars
<1>5. CASE EndBackup BY <1>5 DEF EndBackup, ClearQueue, diskvars
<1>6. CASE VrdExit BY <1>6 DEF VrdExit, vars
<1>7. CASE UNCHANGED allvars BY <1>7 DEF allvars, vars, diskvars
<1>8. ASSUME NEW w \in Writer, NEW b \in Writes,
             RequestHooked(w, b[1], b[2]) \/ RequestUnhooked(w, b[1], b[2])
      PROVE  Removed'
  BY <1>8 DEF RequestHooked, RequestUnhooked, CloneBio, vars
<1>9. ASSUME NEW w \in Writer, CopyIn(w) PROVE Removed'
  BY <1>9 DEF CopyIn, vars
<1>10. CASE TakeBio \/ CopyOut \/ SubmitCopy \/ PageAllocFails
  BY <1>10 DEF TakeBio, ListEmpty, CopyOut, SubmitCopy, SubmitBio,
     PageAllocFails, AllocFails, ThreadGoes, vars, diskvars
<1>11. ASSUME NEW b \in Bio, WriteDone(b) PROVE Removed'
  BY <1>11 DEF WriteDone, EndRequest
<1> QED
  BY <1>1, <1>2, <1>3, <1>4, <1>5, <1>6, <1>7, <1>8, <1>9, <1>10, <1>11,
     DiskSteps
  DEF CalmStep

-----------------------------------------------------------------------------
\* DInv holds of every reachable state.
THEOREM DiskInvariance == DiskSpec => [](QInv /\ DInv)
<1>1. QInv /\ DInv /\ [DiskNext]_allvars => DInv'
  BY DiskTypesKept, RequestsKept, ContentsKept, SavedKept, RemovalKept
  DEF DInv
<1>2. DiskSpec => []QInv BY QueueInvariance DEF QInv
<1> QED BY InitDisk, <1>1, <1>2, PTL DEF DiskSpec

\* The variables of the RAM disk keep their shapes.
THEOREM DiskTypes == DiskSpec => []DiskTypeOK
<1>1. DInv => DiskTypeOK BY DEF DInv
<1> QED BY DiskInvariance, <1>1, PTL

\* When all is quiet the backup differs from the RAM disk only where a write was
\* not seen, was overtaken, or found no memory.
THEOREM DiskAgrees == DiskSpec => []BackupAgrees
<1>1. QInv /\ DInv => BackupAgrees
  <2> SUFFICES ASSUME QInv, DInv, Quiet, NEW s \in Sector, disk[s] > 0
               PROVE  image[s] = disk[s] \/ s \in missed
    BY DEF BackupAgrees
  <2>1. module # "gone" /\ queue = <<>> /\ inflight = {} /\ ~ Held
    BY DEF Quiet, Held
  <2>2. \A b : ~ Unread(b, s)
    BY <2>1, InEmpty DEF Unread, In, Held
  <2> QED BY <2>1, <2>2 DEF DInv, Saved, UpToDate
<1> QED BY DiskInvariance, <1>1, PTL

\* The backup never goes back.
THEOREM DiskForward == DiskSpec => ImageNeverGoesBack
<1>1. QInv /\ DInv /\ [DiskNext]_allvars =>
        [\A s \in Sector : image'[s] >= image[s]]_allvars
  <2> SUFFICES ASSUME QInv, DInv, [DiskNext]_allvars, NEW s \in Sector
               PROVE  image'[s] >= image[s]
    OBVIOUS
  <2>1. image[s] \in Int BY DEF DInv, DiskTypeOK, Version
  <2>2. ASSUME NEW b \in Bio, WriteDone(b) PROVE image'[s] >= image[s]
    <3>1. b \in inflight
          /\ image'[s] = IF s \in Covered(b) THEN page[b][s] ELSE image[s]
      BY <2>2, DonePlaces DEF WriteDone
    <3>2. page[b][s] \in Int BY DEF DInv, DiskTypeOK, Version
    <3> QED BY <2>1, <3>1, <3>2 DEF DInv, Contents
  <2>3. CASE CalmStep BY <2>1, <2>3, CalmPlaces
  <2>4. ASSUME ~ (\E b \in Bio : WriteDone(b)), ~ CalmStep
        PROVE  image' = image
    BY <2>4, DiskSteps DEF RequestHooked, RequestUnhooked, CopyIn, TakeBio,
       CopyOut, SubmitCopy, PageAllocFails, diskvars
  <2> QED BY <2>1, <2>2, <2>3, <2>4
<1> QED BY DiskInvariance, <1>1, PTL DEF DiskSpec, ImageNeverGoesBack

\* The memory of the RAM disk is freed behind everybody who copies.
THEOREM DiskFreed == DiskSpec => []FreedIsUnused
<1>1. DInv => FreedIsUnused BY DEF DInv, Removed, FreedIsUnused
<1> QED BY DiskInvariance, <1>1, PTL
=============================================================================
