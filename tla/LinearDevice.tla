---------------------------- MODULE LinearDevice ----------------------------
(***************************************************************************)
(* The module vrd_2018_04_18.c: the RAM disk of this host and the network  *)
(* block device of its peer as one disk, the second behind the first.      *)
(*                                                                         *)
(* device_make_request runs in every context that submits a bio, several   *)
(* at once.  Its cursor lh is a global variable that nothing protects, and *)
(* every lh-> of the loop is a read of it: another context may have moved  *)
(* it since the last one.  Each read, and each store, is a step.           *)
(***************************************************************************)
EXTENDS Integers

CONSTANTS
  Submitter,   \* contexts that submit bios
  dev_size,    \* sectors of jcm_list (entry 1) and of back_list (entry 2)
  MaxSectors,  \* bound on the length of a bio
  UintRange,   \* 2^32: total_size is an unsigned int, in bytes
  Address      \* root_device.gd, taken for a number of sectors

ASSUME LinearAssumption ==
  /\ dev_size \in [1..2 -> Nat \ {0}]
  /\ MaxSectors \in Nat
  /\ UintRange \in Nat \ {0}
  /\ Address \in Nat \ {0}

Sectors == dev_size[1] + dev_size[2]

DEVICE_SECTOR_SIZE == 512

\* device_init
total_size == (Sectors * DEVICE_SECTOR_SIZE) % UintRange

\* Entry 0 is the head of total_list, which is in root_device and no device.
Entry == 0..2

\* Mutant of NextEntry: the list is not circular.
NextEntryOpen(l) == l + 1

NextEntry(l) == (l + 1) % 3

Before(l) == IF l = 2 THEN dev_size[1] ELSE 0

\* lh->dev_size, which for the head of the list is the pointer before it.
Size(l) == IF l = 0 THEN Address ELSE dev_size[l]

VARIABLES
  lh,    \* the global cursor
  ctx    \* what each context does with its bio

vars == <<lh, ctx>>

\* A bio is the sectors from "at" on; "home" is where they were in the disk
\* before any remapping, which no code looks at.
Bio == [at : Int, len : Nat, home : Int]

\* A request handed to generic_make_request, for the device of an entry.
Sent == [dev : Entry, sector : Int, len : Nat, home : Int]

Pc == {"idle", "store", "loop", "test", "behind", "before", "within", "send",
       "split", "rest", "front", "advance",
       "done", "refused", "dropped", "oops"}

\* next is the entry that the next store gives lh.
Context == [pc : Pc, next : Entry, before : Nat, bio : Bio, split : Bio,
            whole : Bio, sent : SUBSET Sent]

NoBio == [at |-> 0, len |-> 0, home |-> 0]

TypeOK == lh \in Entry /\ ctx \in [Submitter -> Context]

Init ==
  /\ lh = 0
  /\ ctx = [p \in Submitter |->
       [ pc |-> "idle", next |-> 0, before |-> 0, bio |-> NoBio,
         split |-> NoBio, whole |-> NoBio, sent |-> {} ]]

-----------------------------------------------------------------------------
Refused(s, n) == (s + n) * DEVICE_SECTOR_SIZE > total_size

\* A bio of n sectors from s on: refused beyond the end of the disk, else the
\* loop starts at the first entry.  A context that died submits nothing.
Submit(p, s, n) ==
  LET bio == [at |-> s, len |-> n, home |-> s]
      c   == [ctx[p] EXCEPT !.whole = bio, !.sent = {}]
  IN
  /\ ctx[p].pc \in {"idle", "done", "refused", "dropped"}
  /\ ctx' = [ctx EXCEPT ![p] =
       IF Refused(s, n)
       THEN [c EXCEPT !.pc = "refused"]
       ELSE [c EXCEPT !.pc = "store", !.next = 1, !.before = 0, !.bio = bio]]
  /\ UNCHANGED lh

Store(p) ==
  /\ ctx[p].pc = "store"
  /\ lh' = ctx[p].next
  /\ ctx' = [ctx EXCEPT ![p].pc = "loop"]

\* Reading lh, p goes from "at" to d.
Reads(p, at, d) ==
  /\ ctx[p].pc = at
  /\ ctx' = [ctx EXCEPT ![p] = d]
  /\ UNCHANGED lh

Goes(p, to) == [ctx[p] EXCEPT !.pc = to]

\* At the head of the list the loop ends, and the function returns with the
\* bio where it is.
Loop(p) == Reads(p, "loop", Goes(p, IF lh = 0 THEN "dropped" ELSE "test"))

\* Where the device of lh ends, for p.
End(p) == Size(lh) + ctx[p].before

\* Mutant of Behind: the first sector behind a device is taken for its own.
BehindLate(p) == ctx[p].bio.at > End(p)

\* The bio begins behind the device of lh.
Behind(p) == ctx[p].bio.at >= End(p)

Select(p) == Reads(p, "test", Goes(p, IF Behind(p) THEN "behind" ELSE "before"))

\* before_sector += lh->dev_size
Skip(p, at) ==
  Reads(p, at, [Goes(p, "advance") EXCEPT !.before = @ + Size(lh)])

\* The comparison of the "else if": when it fails, too, the loop goes on.
SelectAgain(p) ==
  Reads(p, "before",
        Goes(p, IF ctx[p].bio.at < End(p) THEN "within" ELSE "advance"))

Crosses(p) == ctx[p].bio.at + ctx[p].bio.len > End(p)

CheckEnd(p) == Reads(p, "within", Goes(p, IF Crosses(p) THEN "split" ELSE "send"))

\* Mutant of ToDevice: the sector is not made relative to the device.
ToDeviceUnmoved(c, dev) ==
  [dev |-> dev, sector |-> c.bio.at, len |-> c.bio.len, home |-> c.bio.home]

ToDevice(c, dev) ==
  [dev |-> dev, sector |-> c.bio.at - c.before, len |-> c.bio.len,
   home |-> c.bio.home]

\* generic_make_request to lh->bdev, a wild pointer for the head of the list.
HandOn(p, at, d) ==
  Reads(p, at, IF lh = 0 THEN Goes(p, "oops")
               ELSE [d EXCEPT !.sent = @ \cup {ToDevice(ctx[p], lh)}])

Send(p) == HandOn(p, "send", Goes(p, "done"))

\* bio_split(bio, lh->dev_size+before_sector) returns the FIRST sectors and
\* leaves the others in bio; it is a BUG to ask for as many as there are.
Split(p) ==
  LET b == ctx[p].bio
      n == End(p)
      rest == [at |-> b.at + n, len |-> b.len - n, home |-> b.home + n]
  IN  Reads(p, "split",
        IF n >= b.len THEN Goes(p, "oops")
        ELSE [Goes(p, "rest") EXCEPT !.bio = rest,
                                     !.split = [b EXCEPT !.len = n]])

\* What is left in bio goes to the device, the loop goes on with the first.
SendRest(p) ==
  HandOn(p, "rest", [Goes(p, "front") EXCEPT !.bio = ctx[p].split])

\* "continue": the entry after that of lh.
Advance(p) == Reads(p, "advance", [Goes(p, "store") EXCEPT !.next = NextEntry(lh)])

Next ==
  \E p \in Submitter :
    \/ \E s \in 0..(Sectors - 1), n \in 1..MaxSectors : Submit(p, s, n)
    \/ Store(p) \/ Loop(p)
    \/ Select(p) \/ Skip(p, "behind") \/ SelectAgain(p) \/ CheckEnd(p)
    \/ Send(p)
    \/ Split(p) \/ SendRest(p) \/ Skip(p, "front")
    \/ Advance(p)

Spec == Init /\ [][Next]_vars

-----------------------------------------------------------------------------
\* The request lies within its device, which would refuse it otherwise.
Within(r) == r.dev # 0 /\ 0 <= r.sector /\ r.sector + r.len <= dev_size[r.dev]

\* The bio is one of the disk and of a single device.
OnEntry(b, l) ==
  Before(l) <= b.home /\ b.home + b.len <= Before(l) + dev_size[l]

\* The one request that the bio should become.
Right(b, l) ==
  [dev |-> l, sector |-> b.home - Before(l), len |-> b.len, home |-> b.home]

Returned(p) == ctx[p].pc \in {"done", "refused", "dropped", "oops"}

\* Nobody else has submitted a bio.
Alone(p) == \A q \in Submitter : q = p \/ ctx[q].pc = "idle"

\* As long as one context submits, no sector of a bio reaches a sector of a
\* device other than its own: a bio across the boundary, whose halves are
\* exchanged (lines 60-65), stops the context or is sent beyond the ends of the
\* devices, and corrupts nothing.
RightSector ==
  \A p \in Submitter : Alone(p) =>
    \A r \in ctx[p].sent :
      Within(r) => r.sector + Before(r.dev) = r.home

\* The bio of p, if it is one of a single device, reached that device at the
\* right sector, once: it was not refused, dropped or sent elsewhere.
Selected(p) ==
  \A l \in 1..2 : Returned(p) /\ OnEntry(ctx[p].whole, l) =>
                    ctx[p].sent = {Right(ctx[p].whole, l)}

\* What the comment "select device" (line 49) says of every bio.
SelectsDevice == \A p \in Submitter : Selected(p)

\* It is so as long as one context submits.
SelectsAlone == \A p \in Submitter : Alone(p) => Selected(p)
=============================================================================
