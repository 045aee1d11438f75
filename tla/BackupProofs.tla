---------------------------- MODULE BackupProofs ----------------------------
(***************************************************************************)
(* Theorems about BackupQueue, for any number of writers and bios: the     *)
(* lock is one, no wake-up is missed, and the threads implement BackupLog. *)
(***************************************************************************)
EXTENDS BackupQueue, TLAPS

\* Whoever is between down() and up() holds the semaphore.
Locked ==
  /\ \A w \in Writer : writer[w].pc \in {"add", "up"} => q_sem_mutex = w
  /\ thread.pc \in {"look", "release", "unlock"} => q_sem_mutex = Thread

\* A bio in somebody's hands is one that was submitted.
Holding ==
  /\ \A w \in Writer : writer[w].pc \in {"down", "add"} => writer[w].bio \in Bio
  /\ thread.pc \in {"unlock", "copy"} => thread.bio \in Bio

\* The thread found the list empty, and still holds the semaphore.
FoundEmpty == thread.pc = "release" => queue = <<>>

\* About to wait, or asleep, with the bit clear: a bio in the queue is one whose
\* writer has not set the bit yet.
BitComes ==
  thread.pc \in {"wait", "asleep"} /\ queue # <<>> /\ ~ bestio_condition =>
    \E w \in Writer : writer[w].pc \in {"up", "set"}

\* Asleep with the bit set: the writer that set it has not called wake_up yet.
WakeComes ==
  thread.pc = "asleep" /\ bestio_condition =>
    \E w \in Writer : writer[w].pc = "wake"

\* Only the bio that the thread waits for is at the device.
Waited == inflight # {} => inflight = {thread.bio} /\ thread.pc = "complete"

IInv == /\ TypeOK /\ Locked /\ Holding /\ FoundEmpty
        /\ BitComes /\ WakeComes /\ Waited

-----------------------------------------------------------------------------
\* The thread's state before any bio: backup_init establishes the invariant.
LEMMA InitInvariant == Init => IInv
<1> SUFFICES ASSUME Init PROVE IInv
  OBVIOUS
<1>1. TypeOK
  <2>1. queue \in Seq(Bio) /\ written \in Seq(Bio) BY DEF Init
  <2>2. made \in 0..MaxBios BY BackupAssumption DEF Init
  <2>3. writer \in [Writer -> [pc : WriterPc, bio : Bio \cup {0}]]
    BY DEF Init, WriterPc
  <2>4. thread \in [pc : ThreadPc, bio : Bio \cup {0}]
    BY DEF Init, ThreadPc
  <2> QED BY <2>1, <2>2, <2>3, <2>4 DEF Init, TypeOK
<1>2. Locked /\ Holding /\ FoundEmpty
  BY DEF Init, Locked, Holding, FoundEmpty
<1>3. BitComes /\ WakeComes /\ Waited
  BY DEF Init, BitComes, WakeComes, Waited
<1> QED BY <1>1, <1>2, <1>3 DEF IInv

\* A step keeps the types, the semaphore, and the bios in hand.
LEMMA LockInvariant ==
  IInv /\ [Next]_vars => TypeOK' /\ Locked' /\ Holding'
<1> SUFFICES ASSUME IInv, [Next]_vars PROVE TypeOK' /\ Locked' /\ Holding'
  OBVIOUS
<1> USE BackupAssumption DEF IInv, TypeOK, Locked, Holding, Bio, WriterPc,
                             ThreadPc, WriterGoes, ThreadGoes, Lock
<1>1. ASSUME NEW w \in Writer, CloneBio(w) PROVE TypeOK' /\ Locked' /\ Holding'
  BY <1>1 DEF CloneBio
<1>2. ASSUME NEW w \in Writer, WriterDown(w)
      PROVE  TypeOK' /\ Locked' /\ Holding'
  BY <1>2 DEF WriterDown
<1>3. ASSUME NEW w \in Writer, ListAddTail(w)
      PROVE  TypeOK' /\ Locked' /\ Holding'
  BY <1>3 DEF ListAddTail
<1>4. ASSUME NEW w \in Writer, WriterUp(w) PROVE TypeOK' /\ Locked' /\ Holding'
  BY <1>4 DEF WriterUp
<1>5. ASSUME NEW w \in Writer, TestAndSetBit(w)
      PROVE  TypeOK' /\ Locked' /\ Holding'
  BY <1>5 DEF TestAndSetBit
<1>6. ASSUME NEW w \in Writer, WakeUp(w) PROVE TypeOK' /\ Locked' /\ Holding'
  BY <1>6 DEF WakeUp
<1>7. CASE ThreadStarts BY <1>7 DEF ThreadStarts
<1>8. CASE ThreadDown BY <1>8 DEF ThreadDown
<1>9. CASE ListEmpty
  <2>1. CASE queue = <<>> BY <1>9, <2>1 DEF ListEmpty
  <2>2. CASE queue # <<>>
    <3>1. Head(queue) \in 1..MaxBios /\ Tail(queue) \in Seq(1..MaxBios)
      BY <2>2
    <3>2. /\ thread' = [pc |-> "unlock", bio |-> Head(queue)]
          /\ queue' = Tail(queue)
          /\ UNCHANGED <<q_sem_mutex, bestio_condition, writer, made,
                         inflight, written, module>>
      BY <1>9, <2>2 DEF ListEmpty, ListDel
    <3> QED BY <1>9, <3>1, <3>2 DEF ListEmpty
  <2> QED BY <2>1, <2>2
<1>10. CASE ThreadUp BY <1>10 DEF ThreadUp
<1>11. CASE WaitEvent BY <1>11 DEF WaitEvent
<1>12. CASE ClearBit BY <1>12 DEF ClearBit
<1>13. CASE SubmitBio BY <1>13 DEF SubmitBio, AfterSubmit
<1>14. CASE AllocFails BY <1>14 DEF AllocFails
<1>15. CASE Completed BY <1>15 DEF Completed
<1>16. CASE ShouldStop BY <1>16 DEF ShouldStop
<1>17. CASE TimeOut BY <1>17 DEF TimeOut
<1>18. ASSUME NEW b \in Bio, EndRequest(b) PROVE TypeOK' /\ Locked' /\ Holding'
  BY <1>18 DEF EndRequest
<1>19. CASE KthreadStop BY <1>19 DEF KthreadStop
<1>20. CASE ClearQueue BY <1>20 DEF ClearQueue
<1>21. CASE UNCHANGED vars BY <1>21 DEF vars
<1> QED
  BY <1>1, <1>2, <1>3, <1>4, <1>5, <1>6, <1>7, <1>8, <1>9, <1>10, <1>11,
     <1>12, <1>13, <1>14, <1>15, <1>16, <1>17, <1>18, <1>19, <1>20, <1>21
  DEF Next, WriterStep, ThreadStep, Device

\* A step keeps what is known of an empty list and of the wake-ups.
LEMMA WakeInvariant ==
  IInv /\ [Next]_vars => FoundEmpty' /\ BitComes' /\ WakeComes'
<1> SUFFICES ASSUME IInv, [Next]_vars
             PROVE  FoundEmpty' /\ BitComes' /\ WakeComes'
  OBVIOUS
<1> USE BackupAssumption DEF IInv, TypeOK, Locked, FoundEmpty, BitComes,
                             WakeComes, WriterGoes, ThreadGoes
<1>1. ASSUME NEW w \in Writer, CloneBio(w)
      PROVE  FoundEmpty' /\ BitComes' /\ WakeComes'
  BY <1>1 DEF CloneBio
<1>2. ASSUME NEW w \in Writer, WriterDown(w)
      PROVE  FoundEmpty' /\ BitComes' /\ WakeComes'
  BY <1>2 DEF WriterDown
<1>3. ASSUME NEW w \in Writer, ListAddTail(w)
      PROVE  FoundEmpty' /\ BitComes' /\ WakeComes'
  BY <1>3 DEF ListAddTail
<1>4. ASSUME NEW w \in Writer, WriterUp(w)
      PROVE  FoundEmpty' /\ BitComes' /\ WakeComes'
  BY <1>4 DEF WriterUp
<1>5. ASSUME NEW w \in Writer, TestAndSetBit(w)
      PROVE  FoundEmpty' /\ BitComes' /\ WakeComes'
  BY <1>5 DEF TestAndSetBit
<1>6. ASSUME NEW w \in Writer, WakeUp(w)
      PROVE  FoundEmpty' /\ BitComes' /\ WakeComes'
  BY <1>6 DEF WakeUp
<1>7. CASE ThreadStarts BY <1>7 DEF ThreadStarts
<1>8. CASE ThreadDown BY <1>8 DEF ThreadDown
<1>9. CASE ListEmpty BY <1>9 DEF ListEmpty, ListDel
<1>10. CASE ThreadUp BY <1>10 DEF ThreadUp
<1>11. CASE WaitEvent BY <1>11 DEF WaitEvent
<1>12. CASE ClearBit BY <1>12 DEF ClearBit
<1>13. CASE SubmitBio BY <1>13 DEF SubmitBio, AfterSubmit
<1>14. CASE AllocFails BY <1>14 DEF AllocFails
<1>15. CASE Completed BY <1>15 DEF Completed
<1>16. CASE ShouldStop BY <1>16 DEF ShouldStop
<1>17. CASE TimeOut BY <1>17 DEF TimeOut
<1>18. ASSUME NEW b \in Bio, EndRequest(b)
       PROVE  FoundEmpty' /\ BitComes' /\ WakeComes'
  BY <1>18 DEF EndRequest
<1>19. CASE KthreadStop BY <1>19 DEF KthreadStop
<1>20. CASE ClearQueue BY <1>20 DEF ClearQueue
<1>21. CASE UNCHANGED vars BY <1>21 DEF vars
<1> QED
  BY <1>1, <1>2, <1>3, <1>4, <1>5, <1>6, <1>7, <1>8, <1>9, <1>10, <1>11,
     <1>12, <1>13, <1>14, <1>15, <1>16, <1>17, <1>18, <1>19, <1>20, <1>21
  DEF Next, WriterStep, ThreadStep, Device

\* A step keeps the device to one bio, the one that the thread waits for.
LEMMA DeviceInvariant == IInv /\ [Next]_vars => Waited'
<1> SUFFICES ASSUME IInv, [Next]_vars PROVE Waited'
  OBVIOUS
<1> USE DEF IInv, TypeOK, Waited, ThreadGoes
<1>1. ASSUME NEW w \in Writer, CloneBio(w) \/ WriterStep(w) PROVE Waited'
  BY <1>1 DEF CloneBio, WriterStep, WriterDown, ListAddTail, WriterUp,
              TestAndSetBit, WakeUp
<1>2. CASE SubmitBio BY <1>2 DEF SubmitBio, AfterSubmit
<1>3. CASE ThreadStep
  BY <1>2, <1>3 DEF ThreadStep, ThreadStarts, ThreadDown, ListEmpty, ThreadUp,
     WaitEvent, ClearBit, AllocFails, Completed, ShouldStop
<1>4. CASE TimeOut \/ KthreadStop \/ ClearQueue
  BY <1>4 DEF TimeOut, KthreadStop, ClearQueue
<1>5. CASE Device BY <1>5 DEF Device, EndRequest
<1>6. CASE UNCHANGED vars BY <1>6 DEF vars
<1> QED BY <1>1, <1>3, <1>4, <1>5, <1>6 DEF Next

\* IInv holds of every reachable state, for any number of writers and bios.
THEOREM BackupInvariance == Spec => []IInv
<1>1. IInv /\ [Next]_vars => IInv'
  BY LockInvariant, WakeInvariant, DeviceInvariant DEF IInv
<1> QED BY InitInvariant, <1>1, PTL DEF Spec

\* The variables of the backup keep their shapes.
THEOREM BackupTypes == Spec => []TypeOK
<1>1. IInv => TypeOK BY DEF IInv
<1> QED BY BackupInvariance, <1>1, PTL

\* One context at a time is at the list: q_sem_mutex does its work.
THEOREM BackupExclusion == Spec => []OneAtTheQueue
<1>1. IInv => OneAtTheQueue
  BY BackupAssumption DEF IInv, Locked, OneAtTheQueue
<1> QED BY BackupInvariance, <1>1, PTL

\* The thread never sleeps over a bio whose writer has done its part.
THEOREM NoWakeupMissed == Spec => []NoMissedWakeup
<1>1. IInv => NoMissedWakeup
  BY DEF IInv, BitComes, WakeComes, NoMissedWakeup
<1> QED BY BackupInvariance, <1>1, PTL

-----------------------------------------------------------------------------
(* No bio is at two places.                                                *)

In(b, q) == \E j \in 1..Len(q) : q[j] = b

Distinct(q) == \A j, k \in 1..Len(q) : q[j] = q[k] => j = k

\* What is in a longer sequence is in the shorter one or is the new element.
LEMMA InAppend ==
  ASSUME NEW S, NEW q \in Seq(S), NEW c \in S
  PROVE  \A b : In(b, Append(q, c)) <=> In(b, q) \/ b = c
<1>1. Append(q, c) \in Seq(S) /\ Len(Append(q, c)) = Len(q) + 1 OBVIOUS
<1>2. /\ \A j \in 1..Len(q) : Append(q, c)[j] = q[j]
      /\ Append(q, c)[Len(q) + 1] = c
  OBVIOUS
<1>3. ASSUME NEW b, In(b, Append(q, c)) PROVE In(b, q) \/ b = c
  <2>1. PICK j \in 1..(Len(q) + 1) : Append(q, c)[j] = b BY <1>1, <1>3 DEF In
  <2>2. CASE j = Len(q) + 1 BY <1>2, <2>1, <2>2
  <2>3. CASE j # Len(q) + 1 BY <1>2, <2>1, <2>3 DEF In
  <2> QED BY <2>2, <2>3
<1>4. ASSUME NEW b, In(b, q) PROVE In(b, Append(q, c))
  <2>1. PICK j \in 1..Len(q) : q[j] = b BY <1>4 DEF In
  <2>2. j \in 1..Len(Append(q, c)) /\ Append(q, c)[j] = b
    BY <1>1, <1>2, <2>1
  <2> QED BY <2>2 DEF In
<1>5. In(c, Append(q, c))
  <2>1. Len(q) + 1 \in 1..Len(Append(q, c)) BY <1>1
  <2> QED BY <1>2, <2>1 DEF In
<1> QED BY <1>3, <1>4, <1>5

\* A new element at the end leaves the elements distinct.
LEMMA DistinctAppend ==
  ASSUME NEW S, NEW q \in Seq(S), NEW c \in S, Distinct(q), ~ In(c, q)
  PROVE  Distinct(Append(q, c))
<1>1. Len(Append(q, c)) = Len(q) + 1 /\ Len(q) \in Nat OBVIOUS
<1>2. /\ \A j \in 1..Len(q) : Append(q, c)[j] = q[j]
      /\ Append(q, c)[Len(q) + 1] = c
  OBVIOUS
<1> SUFFICES ASSUME NEW j \in 1..(Len(q) + 1), NEW k \in 1..(Len(q) + 1),
                    Append(q, c)[j] = Append(q, c)[k]
             PROVE  j = k
  BY <1>1 DEF Distinct
<1>3. CASE j = Len(q) + 1 /\ k # Len(q) + 1 BY <1>1, <1>2, <1>3 DEF In
<1>4. CASE j # Len(q) + 1 /\ k = Len(q) + 1 BY <1>1, <1>2, <1>4 DEF In
<1>5. CASE j # Len(q) + 1 /\ k # Len(q) + 1
  BY <1>1, <1>2, <1>5 DEF Distinct
<1> QED BY <1>3, <1>4, <1>5

\* Without its first element a sequence of distinct elements does not hold it.
LEMMA DistinctTail ==
  ASSUME NEW S, NEW q \in Seq(S), q # <<>>, Distinct(q)
  PROVE  /\ Head(q) \in S /\ Tail(q) \in Seq(S)
         /\ Distinct(Tail(q)) /\ ~ In(Head(q), Tail(q)) /\ In(Head(q), q)
         /\ \A b : In(b, Tail(q)) => In(b, q)
<1>1. /\ Len(q) \in Nat \ {0} /\ Len(Tail(q)) = Len(q) - 1
      /\ Head(q) = q[1] /\ Head(q) \in S /\ Tail(q) \in Seq(S)
  OBVIOUS
<1>2. \A j \in 1..(Len(q) - 1) : Tail(q)[j] = q[j + 1] OBVIOUS
<1>3. \A j \in 1..(Len(q) - 1) : j + 1 \in 1..Len(q) BY <1>1
<1>4. 1 \in 1..Len(q) BY <1>1
<1>5. Distinct(Tail(q))
  <2> SUFFICES ASSUME NEW j \in 1..(Len(q) - 1), NEW k \in 1..(Len(q) - 1),
                      Tail(q)[j] = Tail(q)[k]
               PROVE  j = k
    BY <1>1 DEF Distinct
  <2>1. j + 1 = k + 1 BY <1>2, <1>3 DEF Distinct
  <2> QED BY <2>1
<1>6. ~ In(Head(q), Tail(q))
  <2> SUFFICES ASSUME NEW j \in 1..(Len(q) - 1), Tail(q)[j] = q[1]
               PROVE  FALSE
    BY <1>1 DEF In
  <2>1. j + 1 = 1 BY <1>2, <1>3, <1>4 DEF Distinct
  <2> QED BY <2>1
<1>7. In(Head(q), q) BY <1>1, <1>4 DEF In
<1>8. ASSUME NEW b, In(b, Tail(q)) PROVE In(b, q)
  <2>1. PICK j \in 1..(Len(q) - 1) : Tail(q)[j] = b BY <1>1, <1>8 DEF In
  <2> QED BY <1>2, <1>3, <2>1 DEF In
<1> QED BY <1>1, <1>5, <1>6, <1>7, <1>8

\* Sequences of distinct elements that share none: so is their concatenation.
LEMMA DistinctConcat ==
  ASSUME NEW S, NEW p \in Seq(S), NEW q \in Seq(S), Distinct(p), Distinct(q),
         \A b : ~ (In(b, p) /\ In(b, q))
  PROVE  /\ p \o q \in Seq(S) /\ Distinct(p \o q)
         /\ \A b : In(b, p \o q) => In(b, p) \/ In(b, q)
<1>1. /\ p \o q \in Seq(S) /\ Len(p \o q) = Len(p) + Len(q)
      /\ Len(p) \in Nat /\ Len(q) \in Nat
  OBVIOUS
<1>2. \A j \in 1..Len(p \o q) :
        (p \o q)[j] = IF j <= Len(p) THEN p[j] ELSE q[j - Len(p)]
  OBVIOUS
<1>3. ASSUME NEW j \in 1..Len(p \o q)
      PROVE  \/ j \in 1..Len(p) /\ (p \o q)[j] = p[j]
             \/ j - Len(p) \in 1..Len(q) /\ (p \o q)[j] = q[j - Len(p)]
  BY <1>1, <1>2
<1>4. ASSUME NEW j \in 1..Len(p \o q), NEW k \in 1..Len(p \o q),
             (p \o q)[j] = (p \o q)[k]
      PROVE  j = k
  <2>1. CASE j \in 1..Len(p) /\ (p \o q)[j] = p[j]
    <3>1. ~ (k - Len(p) \in 1..Len(q) /\ (p \o q)[k] = q[k - Len(p)])
      BY <1>4, <2>1 DEF In
    <3>2. k \in 1..Len(p) /\ (p \o q)[k] = p[k] BY <1>3, <3>1
    <3> QED BY <1>4, <2>1, <3>2 DEF Distinct
  <2>2. CASE j - Len(p) \in 1..Len(q) /\ (p \o q)[j] = q[j - Len(p)]
    <3>1. ~ (k \in 1..Len(p) /\ (p \o q)[k] = p[k])
      BY <1>4, <2>2 DEF In
    <3>2. k - Len(p) \in 1..Len(q) /\ (p \o q)[k] = q[k - Len(p)]
      BY <1>3, <3>1
    <3>3. j - Len(p) = k - Len(p) BY <1>4, <2>2, <3>2 DEF Distinct
    <3> QED BY <1>1, <3>3
  <2> QED BY <1>3, <2>1, <2>2
<1>5. ASSUME NEW b, In(b, p \o q) PROVE In(b, p) \/ In(b, q)
  BY <1>3, <1>5 DEF In
<1> QED BY <1>1, <1>4, <1>5 DEF Distinct

InHand(w) == writer[w].pc \in {"down", "add"}

Held == thread.pc \in {"unlock", "copy"}

\* A bio that was submitted is at most at one of its places: with the writer
\* that brings it, in the list, with the thread, at the device, written.
HandOnce ==
  /\ \A w \in Writer : InHand(w) =>
       /\ writer[w].bio <= made
       /\ ~ In(writer[w].bio, queue) /\ ~ In(writer[w].bio, written)
       /\ writer[w].bio \notin inflight
       /\ ~ (Held /\ thread.bio = writer[w].bio)
  /\ \A v, w \in Writer :
       InHand(v) /\ InHand(w) /\ writer[v].bio = writer[w].bio => v = w

QueueOnce ==
  /\ Distinct(queue)
  /\ \A b : In(b, queue) =>
       /\ b <= made /\ ~ In(b, written) /\ b \notin inflight
       /\ ~ (Held /\ thread.bio = b)

DeviceOnce ==
  /\ Held => /\ thread.bio <= made /\ ~ In(thread.bio, written)
             /\ thread.bio \notin inflight
  /\ \A b \in inflight : b <= made /\ ~ In(b, written)
  /\ Distinct(written)
  /\ \A b : In(b, written) => b <= made

Once == HandOnce /\ QueueOnce /\ DeviceOnce

\* Nothing is in the empty sequence.
LEMMA InEmpty == Distinct(<<>>) /\ \A b : ~ In(b, <<>>)
  BY DEF Distinct, In

\* Each action takes a bio from one place to the next, or lets it go.
LEMMA OnceInvariant == IInv /\ Once /\ [Next]_vars => Once'
<1> SUFFICES ASSUME IInv, Once, [Next]_vars PROVE Once'
  OBVIOUS
<1> USE DEF IInv, TypeOK, Once, HandOnce, QueueOnce, DeviceOnce, InHand, Held,
            WriterGoes, ThreadGoes
<1>0. made \in Nat BY BackupAssumption
<1>1. ASSUME NEW w \in Writer, CloneBio(w) PROVE Once'
  <2>1. /\ writer'[w] = [pc |-> "down", bio |-> made + 1]
        /\ \A v \in Writer \ {w} : writer'[v] = writer[v]
        /\ made' = made + 1
        /\ UNCHANGED <<queue, thread, inflight, written>>
    BY <1>1 DEF CloneBio
  <2>2. /\ \A b : In(b, queue) \/ In(b, written) => b \in Int /\ b <= made
        /\ \A b \in inflight : b \in Int /\ b <= made
        /\ thread.bio \in Int
        /\ \A v \in Writer : writer[v].bio \in Int
    <3>1. \A b : In(b, queue) \/ In(b, written) => b \in Bio BY DEF In
    <3>2. thread.bio \in Bio \cup {0} OBVIOUS
    <3>3. \A v \in Writer : writer[v].bio \in Bio \cup {0} OBVIOUS
    <3>4. Bio \subseteq Int BY DEF Bio
    <3>5. \A b : In(b, queue) \/ In(b, written) => b <= made BY DEF Once
    <3>6. \A b \in inflight : b \in Bio /\ b <= made OBVIOUS
    <3>7. 0 \in Int OBVIOUS
    <3> QED BY ONLY <3>1, <3>2, <3>3, <3>4, <3>5, <3>6, <3>7
  <2>3. HandOnce'
    <3>1. ASSUME NEW v \in Writer, InHand(v)'
          PROVE  /\ writer'[v].bio <= made'
                 /\ ~ In(writer'[v].bio, queue) /\ ~ In(writer'[v].bio, written)
                 /\ writer'[v].bio \notin inflight
                 /\ ~ (Held /\ thread.bio = writer'[v].bio)
      <4>1. CASE v = w BY <1>0, <2>1, <2>2, <4>1
      <4>2. CASE v # w BY <1>0, <2>1, <2>2, <3>1, <4>2
      <4> QED BY <4>1, <4>2
    <3>2. ASSUME NEW u \in Writer, NEW v \in Writer, InHand(u)', InHand(v)',
                 writer'[u].bio = writer'[v].bio
          PROVE  u = v
      <4>1. \A x \in Writer \ {w} : InHand(x)' => writer'[x].bio # made + 1
        BY <1>0, <2>1, <2>2
      <4>2. CASE u = w \/ v = w BY <2>1, <3>2, <4>1, <4>2
      <4>3. CASE u # w /\ v # w BY <2>1, <3>2, <4>3
      <4> QED BY <4>2, <4>3
    <3> QED BY <2>1, <3>1, <3>2
  <2>4. QueueOnce' BY <1>0, <2>1, <2>2
  <2>5. DeviceOnce' BY <1>0, <2>1, <2>2
  <2> QED BY <2>3, <2>4, <2>5
<1>2. ASSUME NEW w \in Writer,
             WriterDown(w) \/ WriterUp(w) \/ TestAndSetBit(w)
      PROVE  Once'
  <2>1. /\ writer'[w].bio = writer[w].bio
        /\ writer'[w].pc \in {"down", "add"} => writer[w].pc \in {"down", "add"}
        /\ \A v \in Writer \ {w} : writer'[v] = writer[v]
        /\ UNCHANGED <<made, queue, thread, inflight, written>>
    BY <1>2 DEF WriterDown, WriterUp, TestAndSetBit
  <2> QED BY <2>1
<1>3. ASSUME NEW w \in Writer, WakeUp(w) PROVE Once'
  BY <1>3 DEF WakeUp
<1>4. ASSUME NEW w \in Writer, ListAddTail(w) PROVE Once'
  <2> DEFINE b == writer[w].bio
  <2>1. b \in Bio /\ queue \in Seq(Bio) BY <1>4 DEF ListAddTail, Holding
  <2>2. Distinct(queue') BY <1>4, <2>1, DistinctAppend DEF ListAddTail
  <2>3. \A c : In(c, queue') <=> In(c, queue) \/ c = b
    BY <1>4, <2>1, InAppend DEF ListAddTail
  <2> QED BY <1>4, <2>2, <2>3 DEF ListAddTail
<1>5. CASE ListEmpty
  <2>1. CASE queue = <<>> BY <1>5, <2>1 DEF ListEmpty
  <2>2. CASE queue # <<>>
    <3>1. /\ thread' = [pc |-> "unlock", bio |-> Head(queue)]
          /\ queue' = Tail(queue)
          /\ UNCHANGED <<writer, made, inflight, written>>
      BY <1>5, <2>2 DEF ListEmpty, ListDel
    <3>2. /\ Distinct(queue') /\ ~ In(Head(queue), queue')
          /\ In(Head(queue), queue)
          /\ \A b : In(b, queue') => In(b, queue)
      BY <2>2, <3>1, DistinctTail
    <3> QED BY <3>1, <3>2
  <2> QED BY <2>1, <2>2
<1>6. CASE SubmitBio BY <1>6 DEF SubmitBio, AfterSubmit
<1>7. ASSUME NEW b \in Bio, EndRequest(b) PROVE Once'
  <2>1. Distinct(written') BY <1>7, DistinctAppend DEF EndRequest
  <2>2. \A c : In(c, written') <=> In(c, written) \/ c = b
    BY <1>7, InAppend DEF EndRequest
  <2> QED BY <1>7, <2>1, <2>2 DEF EndRequest
<1>8. CASE ClearQueue BY <1>8, InEmpty DEF ClearQueue
<1>9. CASE ThreadStarts \/ ThreadDown \/ ThreadUp \/ WaitEvent \/ ClearBit
           \/ AllocFails \/ Completed \/ ShouldStop \/ TimeOut \/ KthreadStop
  BY <1>9 DEF ThreadStarts, ThreadDown, ThreadUp, WaitEvent, ClearBit,
     AllocFails, Completed, ShouldStop, TimeOut, KthreadStop
<1>10. CASE UNCHANGED vars BY <1>10 DEF vars
<1> QED
  BY <1>1, <1>2, <1>3, <1>4, <1>5, <1>6, <1>7, <1>8, <1>9, <1>10
  DEF Next, WriterStep, ThreadStep, Device

\* Once holds of every reachable state.
THEOREM OnceInvariance == Spec => []Once
<1>1. Init => Once
  BY InEmpty DEF Init, Once, HandOnce, QueueOnce, DeviceOnce, InHand, Held
<1> QED BY BackupInvariance, <1>1, OnceInvariant, PTL DEF Spec

\* A bio is written at most once, and is nowhere else when it has been.
THEOREM BackupOnce == Spec => []WrittenOnce
<1>1. IInv /\ Once => WrittenOnce
  <2> SUFFICES ASSUME IInv, Once PROVE WrittenOnce
    OBVIOUS
  <2> DEFINE held == IF Held THEN <<thread.bio>> ELSE <<>>
  <2>1. held \in Seq(Bio) /\ queue \in Seq(Bio) /\ written \in Seq(Bio)
    <3>1. Held => thread.bio \in Bio BY DEF IInv, Holding, Held
    <3> QED BY <3>1 DEF IInv, TypeOK
  <2>2. Distinct(held) /\ \A b : In(b, held) <=> Held /\ b = thread.bio
    BY DEF Distinct, In
  <2>3. /\ written \o held \in Seq(Bio) /\ Distinct(written \o held)
        /\ \A b : In(b, written \o held) => In(b, written) \/ In(b, held)
    <3>1. \A b : ~ (In(b, written) /\ In(b, held))
      BY <2>2 DEF Once, DeviceOnce
    <3>2. Distinct(written) BY DEF Once, DeviceOnce
    <3> HIDE DEF held
    <3> QED BY <2>1, <2>2, <3>1, <3>2, DistinctConcat
  <2>4. /\ Distinct(written \o held \o queue)
        /\ \A b : In(b, written \o held \o queue) =>
             In(b, written) \/ In(b, held) \/ In(b, queue)
    <3>1. \A b : ~ (In(b, written \o held) /\ In(b, queue))
      BY <2>2, <2>3 DEF Once, QueueOnce
    <3>2. Distinct(queue) BY DEF Once, QueueOnce
    <3> HIDE DEF held
    <3> QED BY <2>1, <2>3, <3>1, <3>2, DistinctConcat
  <2>5. \A b : In(b, written \o held \o queue) => b \notin inflight
    BY <2>2, <2>4 DEF Once, QueueOnce, DeviceOnce
  <2> QED BY <2>4, <2>5 DEF WrittenOnce, Distinct, In, Held
<1> QED BY BackupInvariance, OnceInvariance, <1>1, PTL

-----------------------------------------------------------------------------
(* The refinement.                                                         *)

\* The sequences of at most one element.
LEMMA Short ==
  ASSUME NEW S, NEW x \in S PROVE <<x>> \in Seq(S) /\ <<>> \in Seq(S)
  OBVIOUS

\* Appending to the second of two sequences appends to their concatenation.
LEMMA AppendRight ==
  ASSUME NEW S, NEW T, NEW p \in Seq(S), NEW q \in Seq(T), NEW b \in T
  PROVE  p \o Append(q, b) = Append(p \o q, b)
  OBVIOUS

\* A sequence that begins with x: what is first and what follows.
LEMMA HeadTail ==
  ASSUME NEW S, NEW x \in S, NEW q \in Seq(S)
  PROVE  /\ <<x>> \o q # <<>>
         /\ Head(<<x>> \o q) = x
         /\ Tail(<<x>> \o q) = q
  OBVIOUS

\* Nothing before a sequence leaves it as it is.
LEMMA EmptyLeft == ASSUME NEW S, NEW q \in Seq(S) PROVE <<>> \o q = q
  OBVIOUS

\* A sequence that is not empty is its first element and the rest.
LEMMA Rejoin ==
  ASSUME NEW S, NEW q \in Seq(S), q # <<>>
  PROVE  <<Head(q)>> \o Tail(q) = q
  OBVIOUS

\* Every step of the threads is a step of the log, or changes nothing in it.
LEMMA StepLog == IInv /\ [Next]_vars => [Log!LogNext]_(Log!logvars)
<1> SUFFICES ASSUME IInv, [Next]_vars PROVE [Log!LogNext]_(Log!logvars)
  OBVIOUS
<1> USE DEF IInv, TypeOK, ThreadGoes, WriterGoes
<1>1. ASSUME NEW w \in Writer, ListAddTail(w) PROVE Log!LogNext
  <2>1. writer[w].bio \in Bio
    BY <1>1 DEF ListAddTail, Holding
  <2>2. taken \in Seq(Bio \cup {0})
    <3>1. thread.bio \in Bio \cup {0} OBVIOUS
    <3>2. taken = <<thread.bio>> \/ taken = <<>> BY ONLY TRUE DEF taken
    <3> QED BY ONLY <3>1, <3>2, Short
  <2>3. taken' = taken BY <1>1 DEF ListAddTail, taken
  <2>4. taken \o Append(queue, writer[w].bio) = Append(pending, writer[w].bio)
    <3>1. queue \in Seq(Bio) OBVIOUS
    <3> QED BY ONLY <2>1, <2>2, <3>1, AppendRight DEF pending
  <2>5. Log!AcceptBio(writer[w].bio)
    BY <1>1, <2>3, <2>4 DEF ListAddTail, pending, Log!AcceptBio
  <2> QED BY <2>1, <2>5 DEF Log!LogNext
<1>2. ASSUME NEW w \in Writer, CloneBio(w) \/ WriterDown(w) \/ WriterUp(w)
                               \/ TestAndSetBit(w) \/ WakeUp(w)
      PROVE  UNCHANGED <<pending, written>>
  BY <1>2 DEF taken, pending, CloneBio, WriterDown, WriterUp, TestAndSetBit,
              WakeUp
<1>3. CASE ListEmpty
  <2>1. inflight = {} BY <1>3 DEF ListEmpty, Waited
  <2>2. taken = <<>> BY <1>3, <2>1 DEF ListEmpty, taken
  <2>3. CASE queue = <<>>
    BY <1>3, <2>1, <2>2, <2>3 DEF ListEmpty, taken, pending, Log!logvars
  <2>4. CASE queue # <<>>
    <3>1. /\ thread' = [pc |-> "unlock", bio |-> Head(queue)]
          /\ queue' = Tail(queue) /\ UNCHANGED written
      BY <1>3, <2>4 DEF ListEmpty, ListDel
    <3>2. taken' = <<Head(queue)>> BY <3>1 DEF taken
    <3>3. queue \in Seq(Bio) OBVIOUS
    <3>4. <<Head(queue)>> \o Tail(queue) = queue
      BY ONLY <3>3, <2>4, Rejoin
    <3>5. <<>> \o queue = queue BY ONLY <3>3, EmptyLeft
    <3>6. pending' = pending
      BY ONLY <2>2, <3>1, <3>2, <3>4, <3>5 DEF pending
    <3> QED BY <3>1, <3>6 DEF Log!logvars
  <2> QED BY <2>3, <2>4
<1>4. CASE AllocFails
  <2>1. inflight = {} /\ thread.bio \in Bio /\ queue \in Seq(Bio)
    BY <1>4 DEF AllocFails, Waited, Holding
  <2>2. taken = <<thread.bio>> /\ taken' = <<>>
    BY <1>4, <2>1 DEF AllocFails, taken
  <2>3. queue' = queue /\ written' = written BY <1>4 DEF AllocFails
  <2>4. pending # <<>> /\ Tail(pending) = queue
    BY ONLY <2>1, <2>2, HeadTail DEF pending
  <2>5. pending' = queue BY ONLY <2>1, <2>2, <2>3, EmptyLeft DEF pending
  <2> QED BY <2>3, <2>4, <2>5 DEF Log!LogNext, Log!LoseBio
<1>5. ASSUME NEW b \in Bio, EndRequest(b) PROVE Log!LogNext
  <2>1. inflight = {b} /\ thread.bio = b /\ thread.pc = "complete"
    BY <1>5 DEF EndRequest, Waited
  <2>2. /\ inflight' = {} /\ thread' = thread /\ queue' = queue
        /\ written' = Append(written, b)
    BY <1>5, <2>1 DEF EndRequest
  <2>3. taken = <<b>> /\ taken' = <<>> BY <2>1, <2>2 DEF taken
  <2>4. queue \in Seq(Bio) OBVIOUS
  <2>5. pending # <<>> /\ Head(pending) = b /\ Tail(pending) = queue
    BY ONLY <2>3, <2>4, b \in Bio, HeadTail DEF pending
  <2>6. pending' = queue BY ONLY <2>2, <2>3, <2>4, EmptyLeft DEF pending
  <2> QED BY <2>2, <2>5, <2>6 DEF Log!LogNext, Log!WriteBio
<1>6. CASE ClearQueue
  <2>1. inflight = {} BY <1>6 DEF ClearQueue, Waited
  <2>2. taken' = <<>> /\ queue' = <<>> /\ UNCHANGED written
    BY <1>6, <2>1 DEF ClearQueue, taken
  <2>3. pending' = <<>>
    BY ONLY <2>2, EmptyLeft, <<>> \in Seq(Bio) DEF pending
  <2> QED BY <2>2, <2>3 DEF Log!LogNext, Log!Discard
<1>7. CASE SubmitBio
  BY <1>7 DEF SubmitBio, AfterSubmit, taken, pending, Log!logvars
<1>8. CASE ThreadStarts \/ ThreadDown \/ ThreadUp \/ WaitEvent \/ ClearBit
           \/ Completed \/ ShouldStop \/ TimeOut \/ KthreadStop
  BY <1>8 DEF ThreadStarts, ThreadDown, ThreadUp, WaitEvent, ClearBit,
     Completed, ShouldStop, TimeOut, KthreadStop, taken, pending, Log!logvars
<1>9. CASE UNCHANGED vars BY <1>9 DEF vars, taken, pending, Log!logvars
<1> QED
  BY <1>1, <1>2, <1>3, <1>4, <1>5, <1>6, <1>7, <1>8, <1>9
  DEF Next, WriterStep, ThreadStep, Device, Log!logvars

\* The queue, the lock, the thread and the device together implement the log:
\* bios are written in the order in which they were queued.
THEOREM BackupRefinement == Spec => ImplementsLog
<1>1. Init => Log!LogInit
  BY EmptyLeft DEF Init, Log!LogInit, taken, pending
<1> QED
  BY BackupInvariance, <1>1, StepLog, PTL DEF Spec, ImplementsLog, Log!LogSpec
=============================================================================
