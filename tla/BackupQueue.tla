---------------------------- MODULE BackupQueue ----------------------------
(***************************************************************************)
(* The backup of the RAM disk, bestio/main.c: contexts that submit bios    *)
(* call the hook bestio_backup_bio, which queues a copy, and the thread    *)
(* bestio_backup_thread writes the copies to the backup device.            *)
(*                                                                         *)
(* The module is what the code does once backup_init has run; at this      *)
(* commit my_init and my_exit have the calls commented out.  A read bio    *)
(* leaves the hook at once and changes nothing.                            *)
(***************************************************************************)
EXTENDS Integers, Sequences

CONSTANTS
  Writer,         \* contexts that submit write bios
  Thread,         \* the backup thread
  Nobody,
  MaxBios,        \* bound on the bios submitted in a behaviour
  AllocMayFail    \* whether alloc_page may return NULL

ASSUME BackupAssumption ==
  /\ Thread \notin Writer
  /\ Nobody \notin Writer \cup {Thread}
  /\ MaxBios \in Nat
  /\ AllocMayFail \in BOOLEAN

Bio == 1..MaxBios

VARIABLES
  q_sem_mutex,        \* who holds the semaphore
  queue,              \* backup.queue
  bestio_condition,   \* the wake-up bit
  writer,             \* [pc, bio] of each submitting context
  thread,             \* [pc, bio] of the backup thread
  made,               \* bios submitted so far
  inflight,           \* at the backup device
  written,            \* completed by the backup device, in this order
  module              \* loaded, in kthread_stop, or removed

vars == <<q_sem_mutex, queue, bestio_condition, writer, thread, made,
          inflight, written, module>>

WriterPc == {"idle", "down", "add", "up", "set", "wake"}

\* release and wait: on the way to wait_event with the queue found empty.
ThreadPc == {"new", "down", "look", "release", "wait", "asleep", "clear",
             "unlock", "copy", "complete", "stop?", "exited"}

TypeOK ==
  /\ q_sem_mutex \in Writer \cup {Thread, Nobody}
  /\ queue \in Seq(Bio)
  /\ bestio_condition \in BOOLEAN
  /\ writer \in [Writer -> [pc : WriterPc, bio : Bio \cup {0}]]
  /\ thread \in [pc : ThreadPc, bio : Bio \cup {0}]
  /\ made \in 0..MaxBios
  /\ inflight \in SUBSET Bio
  /\ written \in Seq(Bio)
  /\ module \in {"live", "stopping", "gone"}

\* backup_init
Init ==
  /\ q_sem_mutex = Nobody
  /\ queue = <<>>
  /\ bestio_condition = FALSE
  /\ writer = [w \in Writer |-> [pc |-> "idle", bio |-> 0]]
  /\ thread = [pc |-> "new", bio |-> 0]
  /\ made = 0
  /\ inflight = {}
  /\ written = <<>>
  /\ module = "live"

-----------------------------------------------------------------------------
(* bestio_backup_bio                                                       *)

WriterGoes(w, from, to) ==
  /\ writer[w].pc = from
  /\ writer' = [writer EXCEPT ![w].pc = to]

\* The copy of the bio and its list entry are made before the lock is taken.
\* The disk is not open any more when the module is removed.
CloneBio(w) ==
  /\ module = "live"
  /\ writer[w].pc = "idle"
  /\ made < MaxBios
  /\ made' = made + 1
  /\ writer' = [writer EXCEPT ![w] = [pc |-> "down", bio |-> made + 1]]
  /\ UNCHANGED <<q_sem_mutex, queue, bestio_condition, thread, inflight,
                 written, module>>

\* Mutant of Lock: nobody waits for the semaphore.
LockFree(p) == q_sem_mutex' = p

\* down(&backup.q_sem_mutex)
Lock(p) == q_sem_mutex = Nobody /\ q_sem_mutex' = p

WriterDown(w) ==
  /\ WriterGoes(w, "down", "add")
  /\ Lock(w)
  /\ UNCHANGED <<queue, bestio_condition, thread, made, inflight, written,
                 module>>

\* Mutant of ListAddTail: q_data->bio is not assigned.
ListAddTailUnset(w) ==
  /\ WriterGoes(w, "add", "up")
  /\ queue' = Append(queue, 0)
  /\ UNCHANGED <<q_sem_mutex, bestio_condition, thread, made, inflight,
                 written, module>>

ListAddTail(w) ==
  /\ WriterGoes(w, "add", "up")
  /\ queue' = Append(queue, writer[w].bio)
  /\ UNCHANGED <<q_sem_mutex, bestio_condition, thread, made, inflight,
                 written, module>>

WriterUp(w) ==
  /\ WriterGoes(w, "up", "set")
  /\ q_sem_mutex' = Nobody
  /\ UNCHANGED <<queue, bestio_condition, thread, made, inflight, written,
                 module>>

\* Mutant of TestAndSetBit: wakes when the bit was set already.
TestAndSetBitInverted(w) ==
  /\ WriterGoes(w, "set", IF bestio_condition THEN "wake" ELSE "idle")
  /\ bestio_condition' = TRUE
  /\ UNCHANGED <<q_sem_mutex, queue, thread, made, inflight, written, module>>

\* Only the context that finds the bit clear wakes the thread.
TestAndSetBit(w) ==
  /\ WriterGoes(w, "set", IF bestio_condition THEN "idle" ELSE "wake")
  /\ bestio_condition' = TRUE
  /\ UNCHANGED <<q_sem_mutex, queue, thread, made, inflight, written, module>>

\* wake_up_interruptible: wait_event tests the condition again and returns
\* only when it holds.
WakeUp(w) ==
  /\ WriterGoes(w, "wake", "idle")
  /\ thread' = IF thread.pc = "asleep" /\ bestio_condition
               THEN [thread EXCEPT !.pc = "clear"] ELSE thread
  /\ UNCHANGED <<q_sem_mutex, queue, bestio_condition, made, inflight,
                 written, module>>

-----------------------------------------------------------------------------
(* bestio_backup_thread                                                    *)

ThreadGoes(from, to) ==
  /\ thread.pc = from
  /\ thread' = [thread EXCEPT !.pc = to]

\* A thread that is stopped before it has run does not call its function.
ThreadStarts ==
  /\ ThreadGoes("new", IF module = "live" THEN "down" ELSE "exited")
  /\ UNCHANGED <<q_sem_mutex, queue, bestio_condition, writer, made, inflight,
                 written, module>>

ThreadDown ==
  /\ ThreadGoes("down", "look")
  /\ Lock(Thread)
  /\ UNCHANGED <<queue, bestio_condition, writer, made, inflight, written,
                 module>>

\* Mutant of ListDel: the entry stays in the list.
ListDelForgotten(q) == q

\* list_for_each_entry_safe stops at the first entry, which is removed.
ListDel(q) == Tail(q)

ListEmpty ==
  /\ thread.pc = "look"
  /\ IF queue = <<>>
     THEN thread' = [thread EXCEPT !.pc = "release"] /\ UNCHANGED queue
     ELSE /\ thread' = [pc |-> "unlock", bio |-> Head(queue)]
          /\ queue' = ListDel(queue)
  /\ UNCHANGED <<q_sem_mutex, bestio_condition, writer, made, inflight,
                 written, module>>

ThreadUp ==
  /\ ThreadGoes("release", "wait") \/ ThreadGoes("unlock", "copy")
  /\ q_sem_mutex' = Nobody
  /\ UNCHANGED <<queue, bestio_condition, writer, made, inflight, written,
                 module>>

\* Mutant of WaitEvent: the bit is cleared before the wait, not after it.
WaitEventCleared ==
  /\ ThreadGoes("wait", "asleep")
  /\ bestio_condition' = FALSE
  /\ UNCHANGED <<q_sem_mutex, queue, writer, made, inflight, written, module>>

\* wait_event_interruptible_timeout does not sleep when the bit is set.
WaitEvent ==
  /\ ThreadGoes("wait", IF bestio_condition THEN "clear" ELSE "asleep")
  /\ UNCHANGED <<q_sem_mutex, queue, bestio_condition, writer, made, inflight,
                 written, module>>

\* Mutant of TimeOut: wait_event_interruptible, without a time-out.
TimeOutNever == FALSE

\* HZ has passed, or a signal is pending.
TimeOut ==
  /\ ThreadGoes("asleep", "clear")
  /\ UNCHANGED <<q_sem_mutex, queue, bestio_condition, writer, made, inflight,
                 written, module>>

ClearBit ==
  /\ ThreadGoes("clear", "stop?")
  /\ bestio_condition' = FALSE
  /\ UNCHANGED <<q_sem_mutex, queue, writer, made, inflight, written, module>>

\* Mutant of AfterSubmit: no wait_for_completion.
AfterSubmitNoWait == "stop?"

AfterSubmit == "complete"

\* bestio_q_bio up to submit_bio.
SubmitBio ==
  /\ ThreadGoes("copy", AfterSubmit)
  /\ inflight' = inflight \cup {thread.bio}
  /\ UNCHANGED <<q_sem_mutex, queue, bestio_condition, writer, made, written,
                 module>>

\* bestio_q_bio returns 1, which its caller does not look at: the bio is lost.
AllocFails ==
  /\ AllocMayFail
  /\ ThreadGoes("copy", "stop?")
  /\ UNCHANGED <<q_sem_mutex, queue, bestio_condition, writer, made, inflight,
                 written, module>>

\* The device is done with a bio and calls bestio_backup_end_request.  Bios
\* that are at the device together may complete in any order.
EndRequest(b) ==
  /\ b \in inflight
  /\ inflight' = inflight \ {b}
  /\ written' = Append(written, b)
  /\ UNCHANGED <<q_sem_mutex, queue, bestio_condition, writer, thread, made,
                 module>>

\* wait_for_completion returns.
Completed ==
  /\ ThreadGoes("complete", "stop?")
  /\ thread.bio \notin inflight
  /\ UNCHANGED <<q_sem_mutex, queue, bestio_condition, writer, made, inflight,
                 written, module>>

ShouldStop ==
  /\ ThreadGoes("stop?", IF module = "live" THEN "down" ELSE "exited")
  /\ UNCHANGED <<q_sem_mutex, queue, bestio_condition, writer, made, inflight,
                 written, module>>

-----------------------------------------------------------------------------
(* backup_exit: rmmod waits until nobody uses the disk.                    *)

\* kthread_stop also wakes the thread, but wait_event finds its condition
\* unchanged and sleeps on until the time is up.
KthreadStop ==
  /\ module = "live"
  /\ \A w \in Writer : writer[w].pc = "idle"
  /\ module' = "stopping"
  /\ UNCHANGED <<q_sem_mutex, queue, bestio_condition, writer, thread, made,
                 inflight, written>>

\* backup_clear_queue frees what is still queued.
ClearQueue ==
  /\ module = "stopping"
  /\ thread.pc = "exited"
  /\ module' = "gone"
  /\ queue' = <<>>
  /\ UNCHANGED <<q_sem_mutex, bestio_condition, writer, thread, made,
                 inflight, written>>

-----------------------------------------------------------------------------
WriterStep(w) ==
  \/ WriterDown(w) \/ ListAddTail(w) \/ WriterUp(w)
  \/ TestAndSetBit(w) \/ WakeUp(w)

ThreadStep ==
  \/ ThreadStarts \/ ThreadDown \/ ListEmpty \/ ThreadUp \/ WaitEvent
  \/ ClearBit \/ SubmitBio \/ AllocFails \/ Completed \/ ShouldStop

Device == \E b \in Bio : EndRequest(b)

Next ==
  \/ \E w \in Writer : CloneBio(w) \/ WriterStep(w)
  \/ ThreadStep \/ TimeOut \/ Device
  \/ KthreadStop \/ ClearQueue

Spec == Init /\ [][Next]_vars

-----------------------------------------------------------------------------
\* The list is touched only between down() and up(): the writer that is about
\* to link an entry, or has, and the thread that is about to look at the list,
\* or has, exclude one another.
OneAtTheQueue ==
  LET Inside == {w \in Writer : writer[w].pc \in {"add", "up"}} IN
  /\ \A v, w \in Inside : v = w
  /\ thread.pc \in {"look", "release", "unlock"} => Inside = {}

\* The thread does not sleep over a queued bio (until its time-out) unless a
\* writer is still on its way to waking it: clear_bit after the wait (line 169)
\* and test_and_set_bit after the list_add (line 98) leave no gap.
NoMissedWakeup ==
  thread.pc = "asleep" /\ queue # <<>> =>
    \E w \in Writer : writer[w].pc \in {"up", "set", "wake"}

\* A bio is at one place only, and reaches the backup device at most once.
WrittenOnce ==
  LET held == IF thread.pc \in {"unlock", "copy"} THEN <<thread.bio>> ELSE <<>>
      all  == written \o held \o queue
  IN  /\ \A j, k \in 1..Len(all) : all[j] = all[k] => j = k
      /\ \A j \in 1..Len(all) : all[j] \notin inflight

\* The bio that the thread has taken from the list, until the device has
\* completed it, and the list are what BackupLog calls pending.
taken == IF thread.pc \in {"unlock", "copy"} \/ inflight # {}
         THEN <<thread.bio>> ELSE <<>>

pending == taken \o queue

Log == INSTANCE BackupLog
         WITH Bio <- Bio, pending <- pending, written <- written

\* The threads implement the log: bios complete in the order in which they were
\* linked into the list, although the device keeps no order of its own; it is
\* wait_for_completion (line 148) that never leaves two of them at the device.
ImplementsLog == Log!LogSpec

\* rmmod ends, which it owes to the time-out: kthread_stop does not end a wait.
RemovalEnds == module = "stopping" ~> module = "gone"
=============================================================================
