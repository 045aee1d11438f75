---------------------------- MODULE LinearProofs ----------------------------
(***************************************************************************)
(* Theorems about LinearDevice, for devices of any size that together fit  *)
(* an unsigned int: the types with any number of submitting contexts, and  *)
(* what a single one may rely on.                                          *)
(***************************************************************************)
EXTENDS LinearDevice, TLAPS

\* The size of the disk in bytes is not truncated.
NoOverflow == Sectors * DEVICE_SECTOR_SIZE < UintRange

\* The sizes and the fields that the comparisons use.
LEMMA Sizes ==
  /\ dev_size[1] \in Nat /\ dev_size[1] > 0
  /\ dev_size[2] \in Nat /\ dev_size[2] > 0
  /\ Sectors = dev_size[1] + dev_size[2]
  BY LinearAssumption DEF Sectors

LEMMA Fields ==
  ASSUME NEW c \in Context
  PROVE  /\ c.pc \in Pc /\ c.next \in Entry /\ c.before \in Nat
         /\ c.bio \in Bio /\ c.split \in Bio /\ c.whole \in Bio
         /\ c.sent \in SUBSET Sent
         /\ c.bio.at \in Int /\ c.bio.len \in Nat /\ c.bio.home \in Int
         /\ c.whole.at \in Int /\ c.whole.len \in Nat /\ c.whole.home \in Int
  BY DEF Context, Bio

\* A bio of the disk is accepted, and only that.
LEMMA RefusedBeyond ==
  ASSUME NoOverflow, NEW s \in Nat, NEW n \in Nat
  PROVE  Refused(s, n) <=> s + n > Sectors
<1>1. Sectors \in Nat BY LinearAssumption DEF Sectors
<1>2. total_size = Sectors * 512
  BY <1>1, LinearAssumption DEF NoOverflow, total_size, DEVICE_SECTOR_SIZE
<1> QED BY <1>1, <1>2 DEF Refused, DEVICE_SECTOR_SIZE

-----------------------------------------------------------------------------
(* What each step does to the fields of the context that takes it.          *)

LEMMA GoesFields ==
  ASSUME NEW p \in Submitter, ctx[p] \in Context, NEW to
  PROVE  LET c == ctx[p]
             d == Goes(p, to)
         IN  /\ d.pc = to /\ d.next = c.next /\ d.before = c.before
             /\ d.bio = c.bio /\ d.split = c.split /\ d.whole = c.whole
             /\ d.sent = c.sent
             /\ to \in Pc => d \in Context
  BY DEF Goes, Context

LEMMA SubmitFields ==
  ASSUME TypeOK, NEW p \in Submitter, NEW s \in 0..(Sectors - 1),
         NEW n \in 1..MaxSectors, Submit(p, s, n)
  PROVE  LET bio == [at |-> s, len |-> n, home |-> s]
             d   == ctx'[p]
         IN  /\ s \in Nat /\ n \in Nat /\ n > 0 /\ bio \in Bio
             /\ d \in Context /\ lh' = lh
             /\ ctx' = [ctx EXCEPT ![p] = d]
             /\ d.whole = bio /\ d.sent = {}
             /\ IF Refused(s, n) THEN d.pc = "refused"
                ELSE d.pc = "store" /\ d.next = 1 /\ d.before = 0 /\ d.bio = bio
<1> DEFINE bio == [at |-> s, len |-> n, home |-> s]
           c == [ctx[p] EXCEPT !.whole = bio, !.sent = {}]
           begun == [c EXCEPT !.pc = "store", !.next = 1, !.before = 0,
                              !.bio = bio]
           refused == [c EXCEPT !.pc = "refused"]
<1>1. s \in Nat /\ n \in Nat /\ n > 0 BY Sizes, LinearAssumption
<1>2. bio \in Bio BY <1>1 DEF Bio
<1>3. ctx \in [Submitter -> Context] /\ ctx[p] \in Context BY DEF TypeOK
<1>4. /\ ctx' = [ctx EXCEPT ![p] = IF Refused(s, n) THEN refused ELSE begun]
      /\ lh' = lh
  BY DEF Submit
<1>5. ctx'[p] = IF Refused(s, n) THEN refused ELSE begun BY <1>3, <1>4
<1> HIDE DEF bio
<1>6. c \in Context /\ c.whole = bio /\ c.sent = {}
  BY <1>2, <1>3 DEF Context
<1> HIDE DEF c
<1>7. /\ begun \in Context /\ begun.whole = bio /\ begun.sent = {}
      /\ begun.pc = "store" /\ begun.next = 1 /\ begun.before = 0
      /\ begun.bio = bio
  <2>1. 1 \in Entry /\ 0 \in Nat /\ "store" \in Pc BY DEF Entry, Pc
  <2> QED BY <1>2, <1>6, <2>1 DEF Context
<1>8. /\ refused \in Context /\ refused.whole = bio /\ refused.sent = {}
      /\ refused.pc = "refused"
  BY <1>6 DEF Context, Pc
<1> HIDE DEF begun, refused
<1>9. ctx' = [ctx EXCEPT ![p] = ctx'[p]] BY <1>4, <1>5
<1>10. CASE Refused(s, n)
  <2>1. ctx'[p] = refused BY <1>5, <1>10
  <2> QED BY <1>1, <1>2, <1>4, <1>8, <1>9, <1>10, <2>1 DEF bio
<1>11. CASE ~ Refused(s, n)
  <2>1. ctx'[p] = begun BY <1>5, <1>11
  <2> QED BY <1>1, <1>2, <1>4, <1>7, <1>9, <1>11, <2>1 DEF bio
<1> QED BY <1>10, <1>11

\* Everything but the program counter stays.
Same(d, c) ==
  /\ d.next = c.next /\ d.before = c.before /\ d.bio = c.bio
  /\ d.split = c.split /\ d.whole = c.whole /\ d.sent = c.sent

\* p moves, and nobody else.
Moves(p) ==
  /\ ctx[p] \in Context /\ ctx'[p] \in Context
  /\ ctx' = [ctx EXCEPT ![p] = ctx'[p]]
  /\ lh \in Entry /\ lh' \in Entry

LEMMA ReadsMoves ==
  ASSUME TypeOK, NEW p \in Submitter, NEW at, NEW d \in Context, Reads(p, at, d)
  PROVE  Moves(p) /\ lh' = lh /\ ctx[p].pc = at /\ ctx'[p] = d
  BY DEF TypeOK, Reads, Moves

\* A step that only reads lh and goes on.
LEMMA ReadsGoes ==
  ASSUME TypeOK, NEW p \in Submitter, NEW at, NEW to \in Pc,
         Reads(p, at, Goes(p, to))
  PROVE  /\ Moves(p) /\ lh' = lh /\ ctx[p].pc = at
         /\ ctx'[p].pc = to /\ Same(ctx'[p], ctx[p])
<1>1. ctx[p] \in Context BY DEF TypeOK
<1>2. Goes(p, to).pc = to /\ Same(Goes(p, to), ctx[p]) /\ Goes(p, to) \in Context
  BY <1>1, GoesFields DEF Same
<1> QED BY <1>2, ReadsMoves

LEMMA StoreFields ==
  ASSUME TypeOK, NEW p \in Submitter, Store(p)
  PROVE  /\ Moves(p) /\ lh' = ctx[p].next /\ ctx[p].pc = "store"
         /\ ctx'[p].pc = "loop" /\ Same(ctx'[p], ctx[p])
<1>1. ctx[p] \in Context /\ lh \in Entry /\ ctx \in [Submitter -> Context]
  BY DEF TypeOK
<1>2. lh' \in Entry BY <1>1, Fields DEF Store
<1>3. "loop" \in Pc BY DEF Pc
<1>4. ctx'[p] = [ctx[p] EXCEPT !.pc = "loop"] BY <1>1 DEF Store
<1>5. ctx'[p] \in Context BY <1>1, <1>3, <1>4 DEF Context
<1>6. ctx' = [ctx EXCEPT ![p] = ctx'[p]] BY <1>1, <1>4 DEF Store
<1>7. ctx'[p].pc = "loop" /\ Same(ctx'[p], ctx[p])
  BY <1>1, <1>4 DEF Same, Context
<1> QED BY <1>1, <1>2, <1>5, <1>6, <1>7 DEF Moves, Store

LEMMA LoopFields ==
  ASSUME TypeOK, NEW p \in Submitter, Loop(p)
  PROVE  /\ Moves(p) /\ lh' = lh /\ ctx[p].pc = "loop"
         /\ ctx'[p].pc = (IF lh = 0 THEN "dropped" ELSE "test")
         /\ Same(ctx'[p], ctx[p])
<1>1. (IF lh = 0 THEN "dropped" ELSE "test") \in Pc BY DEF Pc
<1> QED BY <1>1, ReadsGoes DEF Loop

LEMMA SelectFields ==
  ASSUME TypeOK, NEW p \in Submitter, Select(p)
  PROVE  /\ Moves(p) /\ lh' = lh /\ ctx[p].pc = "test"
         /\ ctx'[p].pc = (IF Behind(p) THEN "behind" ELSE "before")
         /\ Same(ctx'[p], ctx[p])
<1>1. (IF Behind(p) THEN "behind" ELSE "before") \in Pc BY DEF Pc
<1> QED BY <1>1, ReadsGoes DEF Select

LEMMA SelectAgainFields ==
  ASSUME TypeOK, NEW p \in Submitter, SelectAgain(p)
  PROVE  /\ Moves(p) /\ lh' = lh /\ ctx[p].pc = "before"
         /\ ctx'[p].pc =
              (IF ctx[p].bio.at < End(p) THEN "within" ELSE "advance")
         /\ Same(ctx'[p], ctx[p])
<1>1. (IF ctx[p].bio.at < End(p) THEN "within" ELSE "advance") \in Pc BY DEF Pc
<1> QED BY <1>1, ReadsGoes DEF SelectAgain

LEMMA CheckEndFields ==
  ASSUME TypeOK, NEW p \in Submitter, CheckEnd(p)
  PROVE  /\ Moves(p) /\ lh' = lh /\ ctx[p].pc = "within"
         /\ ctx'[p].pc = (IF Crosses(p) THEN "split" ELSE "send")
         /\ Same(ctx'[p], ctx[p])
<1>1. (IF Crosses(p) THEN "split" ELSE "send") \in Pc BY DEF Pc
<1> QED BY <1>1, ReadsGoes DEF CheckEnd

LEMMA EndNat ==
  ASSUME TypeOK, NEW p \in Submitter
  PROVE  /\ Size(lh) \in Nat /\ Size(lh) > 0 /\ End(p) \in Nat
         /\ End(p) = Size(lh) + ctx[p].before
<1>1. lh \in Entry /\ ctx[p].before \in Nat BY Fields DEF TypeOK
<1>2. Size(lh) \in Nat /\ Size(lh) > 0
  BY <1>1, Sizes, LinearAssumption DEF Size, Entry
<1> QED BY <1>1, <1>2 DEF End

LEMMA SkipFields ==
  ASSUME TypeOK, NEW p \in Submitter, NEW at, Skip(p, at)
  PROVE  LET d == ctx'[p]
             c == ctx[p]
         IN  /\ Moves(p) /\ lh' = lh /\ c.pc = at
             /\ d.pc = "advance" /\ d.before = c.before + Size(lh)
             /\ d.bio = c.bio /\ d.whole = c.whole /\ d.sent = c.sent
<1> DEFINE g == Goes(p, "advance")
           d == [g EXCEPT !.before = @ + Size(lh)]
<1>1. ctx[p] \in Context BY DEF TypeOK
<1>2. g \in Context /\ g.pc = "advance" /\ Same(g, ctx[p])
  BY <1>1, GoesFields DEF Same, Pc
<1> HIDE DEF g
<1>3. g.before + Size(lh) \in Nat BY <1>2, Fields, EndNat
<1>4. /\ d \in Context /\ d.pc = "advance" /\ d.before = g.before + Size(lh)
      /\ d.bio = g.bio /\ d.whole = g.whole /\ d.sent = g.sent
  BY <1>2, <1>3 DEF Context
<1>5. Reads(p, at, d) BY DEF Skip, g
<1> HIDE DEF d
<1>6. Moves(p) /\ lh' = lh /\ ctx[p].pc = at /\ ctx'[p] = d
  BY <1>4, <1>5, ReadsMoves
<1> QED BY <1>2, <1>4, <1>6 DEF Same

LEMMA AdvanceFields ==
  ASSUME TypeOK, NEW p \in Submitter, Advance(p)
  PROVE  LET d == ctx'[p]
             c == ctx[p]
         IN  /\ Moves(p) /\ lh' = lh /\ c.pc = "advance"
             /\ d.pc = "store" /\ d.next = (IF lh = 2 THEN 0 ELSE lh + 1)
             /\ d.before = c.before
             /\ d.bio = c.bio /\ d.whole = c.whole /\ d.sent = c.sent
<1> DEFINE g == Goes(p, "store")
           d == [g EXCEPT !.next = NextEntry(lh)]
<1>1. ctx[p] \in Context /\ lh \in Entry BY DEF TypeOK
<1>2. g \in Context /\ g.pc = "store" /\ Same(g, ctx[p])
  BY <1>1, GoesFields DEF Same, Pc
<1> HIDE DEF g
<1>3. NextEntry(lh) \in Entry /\ NextEntry(lh) = (IF lh = 2 THEN 0 ELSE lh + 1)
  BY <1>1 DEF NextEntry, Entry
<1>4. /\ d \in Context /\ d.pc = "store" /\ d.next = NextEntry(lh)
      /\ d.before = g.before
      /\ d.bio = g.bio /\ d.whole = g.whole /\ d.sent = g.sent
  BY <1>2, <1>3 DEF Context
<1>5. Reads(p, "advance", d) BY DEF Advance, g
<1> HIDE DEF d
<1>6. Moves(p) /\ lh' = lh /\ ctx[p].pc = "advance" /\ ctx'[p] = d
  BY <1>4, <1>5, ReadsMoves
<1> QED BY <1>2, <1>3, <1>4, <1>6 DEF Same

LEMMA SentTypes ==
  ASSUME NEW c \in Context, NEW l \in Entry
  PROVE  ToDevice(c, l) \in Sent
  BY Fields DEF ToDevice, Sent, Bio

\* A request goes to the device of lh, unless that is the head of the list.
LEMMA HandOnFields ==
  ASSUME TypeOK, NEW p \in Submitter, NEW at, NEW d \in Context,
         d.sent = ctx[p].sent, d.whole = ctx[p].whole, HandOn(p, at, d)
  PROVE  LET e == ctx'[p]
             c == ctx[p]
         IN  /\ Moves(p) /\ lh' = lh /\ c.pc = at
             /\ lh = 0 => e.pc = "oops" /\ Same(e, c)
             /\ lh # 0 => /\ e.pc = d.pc /\ e.next = d.next
                          /\ e.before = d.before /\ e.bio = d.bio
                          /\ e.split = d.split /\ e.whole = c.whole
                          /\ e.sent = c.sent \cup {ToDevice(c, lh)}
<1>1. ctx[p] \in Context /\ lh \in Entry BY DEF TypeOK
<1>2. CASE lh = 0
  <2>1. Reads(p, at, Goes(p, "oops")) BY <1>2 DEF HandOn
  <2>2. "oops" \in Pc BY DEF Pc
  <2> QED BY <1>2, <2>1, <2>2, ReadsGoes
<1>3. CASE lh # 0
  <2> DEFINE r == ToDevice(ctx[p], lh)
             e == [d EXCEPT !.sent = @ \cup {r}]
  <2>1. r \in Sent BY <1>1, SentTypes
  <2> HIDE DEF r
  <2>2. d.sent \cup {r} \in SUBSET Sent BY <2>1, Fields
  <2>3. /\ e \in Context /\ e.pc = d.pc /\ e.next = d.next
        /\ e.before = d.before /\ e.bio = d.bio /\ e.split = d.split
        /\ e.whole = d.whole /\ e.sent = d.sent \cup {r}
    BY <2>2 DEF Context
  <2>4. Reads(p, at, e) BY <1>3 DEF HandOn, r
  <2> HIDE DEF e
  <2>5. Moves(p) /\ lh' = lh /\ ctx[p].pc = at /\ ctx'[p] = e
    BY <2>3, <2>4, ReadsMoves
  <2> QED BY <1>3, <2>3, <2>5 DEF r
<1> QED BY <1>2, <1>3

LEMMA SendFields ==
  ASSUME TypeOK, NEW p \in Submitter, Send(p)
  PROVE  LET e == ctx'[p]
             c == ctx[p]
         IN  /\ Moves(p) /\ lh' = lh /\ c.pc = "send"
             /\ lh = 0 => e.pc = "oops" /\ Same(e, c)
             /\ lh # 0 => /\ e.pc = "done" /\ e.whole = c.whole
                          /\ e.sent = c.sent \cup {ToDevice(c, lh)}
<1> DEFINE d == Goes(p, "done")
<1>1. ctx[p] \in Context BY DEF TypeOK
<1>2. /\ d \in Context /\ d.pc = "done" /\ d.sent = ctx[p].sent
      /\ d.whole = ctx[p].whole
  BY <1>1, GoesFields DEF Pc
<1>3. HandOn(p, "send", d) BY DEF Send
<1> HIDE DEF d
<1> QED BY <1>2, <1>3, HandOnFields

LEMMA SendRestFields ==
  ASSUME TypeOK, NEW p \in Submitter, SendRest(p)
  PROVE  LET e == ctx'[p]
             c == ctx[p]
         IN  /\ Moves(p) /\ lh' = lh /\ c.pc = "rest"
             /\ lh = 0 => e.pc = "oops" /\ Same(e, c)
             /\ lh # 0 => /\ e.pc = "front" /\ e.before = c.before
                          /\ e.bio = c.split /\ e.whole = c.whole
                          /\ e.sent = c.sent \cup {ToDevice(c, lh)}
<1> DEFINE g == Goes(p, "front")
           d == [g EXCEPT !.bio = ctx[p].split]
<1>1. ctx[p] \in Context BY DEF TypeOK
<1>2. /\ g \in Context /\ g.pc = "front" /\ Same(g, ctx[p])
  BY <1>1, GoesFields DEF Same, Pc
<1> HIDE DEF g
<1>3. ctx[p].split \in Bio BY <1>1, Fields
<1>4. /\ d \in Context /\ d.pc = "front" /\ d.before = g.before
      /\ d.bio = ctx[p].split /\ d.whole = g.whole /\ d.sent = g.sent
  BY <1>2, <1>3 DEF Context
<1>5. HandOn(p, "rest", d) BY DEF SendRest, g
<1> HIDE DEF d
<1> QED BY <1>2, <1>4, <1>5, HandOnFields DEF Same

LEMMA SplitFields ==
  ASSUME TypeOK, NEW p \in Submitter, Split(p)
  PROVE  LET d == ctx'[p]
             c == ctx[p]
             n == End(p)
         IN  /\ Moves(p) /\ lh' = lh /\ c.pc = "split"
             /\ n >= c.bio.len => d.pc = "oops" /\ Same(d, c)
             /\ n < c.bio.len =>
                  /\ d.pc = "rest" /\ d.before = c.before
                  /\ d.bio.at = c.bio.at + n /\ d.bio.len = c.bio.len - n
                  /\ d.split.at = c.bio.at /\ d.split.len = n
                  /\ d.whole = c.whole /\ d.sent = c.sent
<1> DEFINE b == ctx[p].bio
           n == End(p)
           rest == [at |-> b.at + n, len |-> b.len - n, home |-> b.home + n]
           first == [b EXCEPT !.len = n]
           g == Goes(p, "rest")
           d == [g EXCEPT !.bio = rest, !.split = first]
<1>1. ctx[p] \in Context /\ n \in Nat /\ b \in Bio BY EndNat, Fields DEF TypeOK
<1>2. b.at \in Int /\ b.len \in Nat /\ b.home \in Int BY <1>1 DEF Bio
<1>3. CASE n >= b.len
  <2>1. Reads(p, "split", Goes(p, "oops")) BY <1>3 DEF Split
  <2>2. "oops" \in Pc BY DEF Pc
  <2> QED BY <1>1, <1>2, <1>3, <2>1, <2>2, ReadsGoes
<1>4. CASE n < b.len
  <2>1. /\ rest \in Bio /\ rest.at = b.at + n /\ rest.len = b.len - n
    BY <1>1, <1>2, <1>4 DEF Bio
  <2>2. first \in Bio /\ first.at = b.at /\ first.len = n
    BY <1>1 DEF Bio
  <2>3. g \in Context /\ g.pc = "rest" /\ Same(g, ctx[p])
    BY <1>1, GoesFields DEF Same, Pc
  <2>4. Reads(p, "split", d) BY <1>1, <1>2, <1>4 DEF Split
  <2> HIDE DEF rest, first, g
  <2>5. /\ d \in Context /\ d.pc = "rest" /\ d.before = g.before
        /\ d.bio = rest /\ d.split = first
        /\ d.whole = g.whole /\ d.sent = g.sent
    BY <2>1, <2>2, <2>3 DEF Context
  <2> HIDE DEF d
  <2>6. Moves(p) /\ lh' = lh /\ ctx[p].pc = "split" /\ ctx'[p] = d
    BY <2>4, <2>5, ReadsMoves
  <2> QED BY <1>1, <1>2, <1>4, <2>1, <2>2, <2>3, <2>5, <2>6 DEF Same
<1> QED BY <1>1, <1>2, <1>3, <1>4

-----------------------------------------------------------------------------
(* The types.                                                                *)

Step(p) ==
  \/ \E s \in 0..(Sectors - 1), n \in 1..MaxSectors : Submit(p, s, n)
  \/ Store(p) \/ Loop(p)
  \/ Select(p) \/ Skip(p, "behind") \/ SelectAgain(p) \/ CheckEnd(p)
  \/ Send(p)
  \/ Split(p) \/ SendRest(p) \/ Skip(p, "front")
  \/ Advance(p)

\* A step moves one context, and never back to where it has submitted nothing.
LEMMA StepMoves ==
  ASSUME TypeOK, NEW p \in Submitter, Step(p)
  PROVE  Moves(p) /\ ctx'[p].pc # "idle"
<1>1. CASE \E s \in 0..(Sectors - 1), n \in 1..MaxSectors : Submit(p, s, n)
  BY <1>1, SubmitFields DEF Moves, TypeOK
<1>2. CASE Store(p) \/ Loop(p) \/ Select(p) \/ SelectAgain(p) \/ CheckEnd(p)
  BY <1>2, StoreFields, LoopFields, SelectFields, SelectAgainFields,
     CheckEndFields
<1>3. CASE Send(p) \/ SendRest(p) BY <1>3, SendFields, SendRestFields
<1>4. CASE Skip(p, "behind") \/ Skip(p, "front") BY <1>4, SkipFields
<1>5. CASE Split(p)
  <2>1. End(p) \in Nat /\ ctx[p].bio.len \in Nat BY EndNat, Fields DEF TypeOK
  <2> QED BY <1>5, <2>1, SplitFields
<1>6. CASE Advance(p) BY <1>6, AdvanceFields
<1> QED BY <1>1, <1>2, <1>3, <1>4, <1>5, <1>6 DEF Step

LEMMA TypesInductive ==
  /\ Init => TypeOK
  /\ TypeOK /\ [Next]_vars => TypeOK'
<1>1. Init => TypeOK
  BY DEF Init, TypeOK, Context, Pc, Bio, NoBio, Entry
<1>2. ASSUME TypeOK, [Next]_vars PROVE TypeOK'
  <2>1. CASE UNCHANGED vars BY <1>2, <2>1 DEF vars, TypeOK
  <2>2. CASE Next
    <3>1. PICK p \in Submitter : Step(p) BY <2>2 DEF Next, Step
    <3>2. Moves(p) BY <1>2, <3>1, StepMoves
    <3> QED BY <1>2, <3>2 DEF Moves, TypeOK
  <2> QED BY <1>2, <2>1, <2>2
<1> QED BY <1>1, <1>2

\* Every field of every context keeps its shape, for any number of contexts
\* and devices of any size.
THEOREM LinearTypes == Spec => []TypeOK
BY TypesInductive, PTL DEF Spec

-----------------------------------------------------------------------------
(* What a bio goes through when one context submits: c is that context, l    *)
(* the cursor, which nobody else moves.                                      *)

\* The bio is one of the disk; it begins in the second device, or crosses.
Accepted(b) ==
  /\ b.at = b.home /\ 0 <= b.at /\ b.len > 0
  /\ b.at + b.len <= dev_size[1] + dev_size[2]

OfSecond(b) == dev_size[1] <= b.at

Across(b) == b.at < dev_size[1] /\ dev_size[1] < b.at + b.len

Untouched(c) == c.bio = c.whole /\ c.sent = {}

\* Nothing sent lies within a device.
Outside(c) == \A r \in c.sent : ~ Within(r)

\* The bio is compared with the first device.
First(c, l) ==
  /\ Untouched(c) /\ c.before = 0
  /\ \/ c.pc = "store" /\ c.next = 1
     \/ c.pc \in {"loop", "test"} /\ l = 1
     \/ c.pc = "behind" /\ l = 1 /\ OfSecond(c.whole)
     \/ c.pc \in {"before", "within"} /\ l = 1 /\ ~ OfSecond(c.whole)
     \/ c.pc = "send" /\ l = 1 /\ c.whole.at + c.whole.len <= dev_size[1]
     \/ c.pc = "split" /\ l = 1 /\ Across(c.whole)

\* The bio is compared with the second device, in which it lies.
Second(c, l) ==
  /\ Untouched(c) /\ OfSecond(c.whole) /\ c.before = dev_size[1]
  /\ \/ c.pc = "advance" /\ l = 1
     \/ c.pc = "store" /\ c.next = 2
     \/ c.pc \in {"loop", "test", "before", "within", "send"} /\ l = 2

\* The bio reached its device.
Served(c) ==
  /\ c.pc = "done"
  /\ \/ /\ c.whole.at + c.whole.len <= dev_size[1]
        /\ c.sent = {Right(c.whole, 1)}
     \/ OfSecond(c.whole) /\ c.sent = {Right(c.whole, 2)}

\* The bio was split: its end is beyond the end of the device it is sent to,
\* its beginning before the beginning of the other.
Rest(c) ==
  /\ c.before = 0 /\ c.sent = {}
  /\ c.bio.at = c.whole.at + dev_size[1]
  /\ c.bio.len = c.whole.len - dev_size[1] /\ c.bio.len > 0
  /\ c.split.at = c.whole.at /\ c.split.len = dev_size[1]

Front(c) ==
  c.bio.at = c.whole.at /\ c.bio.len = dev_size[1] /\ Outside(c)

Halves(c, l) ==
  /\ Across(c.whole)
  /\ \/ c.pc = "rest" /\ l = 1 /\ Rest(c)
     \/ c.pc = "front" /\ l = 1 /\ c.before = 0 /\ Front(c)
     \/ c.pc = "advance" /\ l = 1 /\ c.before = dev_size[1] /\ Front(c)
     \/ c.pc = "store" /\ c.next = 2 /\ c.before = dev_size[1] /\ Front(c)
     \/ /\ c.pc \in {"loop", "test", "before", "within", "split", "send"}
        /\ l = 2 /\ c.before = dev_size[1] /\ Front(c)
     \/ c.pc \in {"done", "oops"} /\ Outside(c)

Course(c, l) ==
  \/ c.pc = "idle" /\ c.sent = {}
  \/ /\ c.pc = "refused" /\ c.sent = {}
     /\ c.whole.at = c.whole.home
     /\ c.whole.at + c.whole.len > dev_size[1] + dev_size[2]
  \/ Accepted(c.whole) /\ (First(c, l) \/ Second(c, l) \/ Served(c) \/ Halves(c, l))

CourseInv == \A p \in Submitter : Alone(p) => Course(ctx[p], lh)

LEMMA CourseSubmit ==
  ASSUME NoOverflow, TypeOK, NEW p \in Submitter, NEW s \in 0..(Sectors - 1),
         NEW n \in 1..MaxSectors, Submit(p, s, n)
  PROVE  Course(ctx'[p], lh')
<1> DEFINE bio == [at |-> s, len |-> n, home |-> s]
           d == ctx'[p]
<1>1. /\ s \in Nat /\ n \in Nat /\ n > 0
      /\ d.whole = bio /\ d.sent = {}
      /\ IF Refused(s, n) THEN d.pc = "refused"
         ELSE d.pc = "store" /\ d.next = 1 /\ d.before = 0 /\ d.bio = bio
  BY SubmitFields
<1>2. bio.at = s /\ bio.home = s /\ bio.len = n OBVIOUS
<1> HIDE DEF bio
<1>3. CASE Refused(s, n)
  <2>0. s + n > Sectors BY <1>1, <1>3, RefusedBeyond
  <2>1. s + n > dev_size[1] + dev_size[2] BY <2>0, Sizes
  <2> QED BY <1>1, <1>2, <1>3, <2>1 DEF Course
<1>4. CASE ~ Refused(s, n)
  <2>0. ~ (s + n > Sectors) BY <1>1, <1>4, RefusedBeyond
  <2>1. s + n <= dev_size[1] + dev_size[2] BY <1>1, <2>0, Sizes
  <2>2. Accepted(d.whole) BY <1>1, <1>2, <2>1 DEF Accepted
  <2>3. First(d, lh') BY <1>1, <1>4 DEF First, Untouched
  <2> QED BY <2>2, <2>3 DEF Course
<1> QED BY <1>3, <1>4

\* A step that changes the counter only, seen from each part of the course.
LEMMA SameParts ==
  ASSUME NEW c, NEW d, Same(d, c)
  PROVE  /\ Untouched(d) <=> Untouched(c)
         /\ Outside(d) <=> Outside(c)
         /\ Rest(d) <=> Rest(c)
         /\ Front(d) <=> Front(c)
         /\ d.whole = c.whole /\ d.before = c.before /\ d.next = c.next
         /\ d.sent = c.sent
  BY DEF Same, Untouched, Outside, Rest, Front

\* Where a context in the loop can be.
LEMMA Running ==
  ASSUME NEW c, NEW l, Course(c, l),
         c.pc \notin {"idle", "refused", "done", "oops"}
  PROVE  Accepted(c.whole) /\ (First(c, l) \/ Second(c, l) \/ Halves(c, l))
  BY DEF Course, Served

LEMMA CourseStore ==
  ASSUME TypeOK, NEW p \in Submitter, Course(ctx[p], lh), Store(p)
  PROVE  Course(ctx'[p], lh')
<1> DEFINE c == ctx[p]
           d == ctx'[p]
<1>1. lh' = c.next /\ c.pc = "store" /\ d.pc = "loop" /\ Same(d, c)
  BY StoreFields
<1> HIDE DEF c, d
<1>2. Accepted(c.whole) /\ (First(c, lh) \/ Second(c, lh) \/ Halves(c, lh))
  BY <1>1, Running DEF c
<1>3. First(c, lh) => First(d, lh') BY <1>1, SameParts DEF First
<1>4. Second(c, lh) => Second(d, lh') BY <1>1, SameParts DEF Second
<1>5. Halves(c, lh) => Halves(d, lh') BY <1>1, SameParts DEF Halves
<1> QED BY <1>1, <1>2, <1>3, <1>4, <1>5, SameParts DEF Course, c, d

LEMMA CourseLoop ==
  ASSUME TypeOK, NEW p \in Submitter, Course(ctx[p], lh), Loop(p)
  PROVE  Course(ctx'[p], lh')
<1> DEFINE c == ctx[p]
           d == ctx'[p]
<1>1. /\ lh' = lh /\ c.pc = "loop" /\ Same(d, c)
      /\ d.pc = (IF lh = 0 THEN "dropped" ELSE "test")
  BY LoopFields
<1> HIDE DEF c, d
<1>2. Accepted(c.whole) /\ (First(c, lh) \/ Second(c, lh) \/ Halves(c, lh))
  BY <1>1, Running DEF c
<1>3. First(c, lh) => First(d, lh') BY <1>1, SameParts DEF First
<1>4. Second(c, lh) => Second(d, lh') BY <1>1, SameParts DEF Second
<1>5. Halves(c, lh) => Halves(d, lh') BY <1>1, SameParts DEF Halves
<1> QED BY <1>1, <1>2, <1>3, <1>4, <1>5, SameParts DEF Course, c, d

\* What the comparisons say on each course.
LEMMA Compared ==
  ASSUME TypeOK, NEW p \in Submitter, Accepted(ctx[p].whole)
  PROVE  LET c == ctx[p]
         IN  /\ First(c, lh) /\ lh = 1 =>
                  /\ Behind(p) <=> OfSecond(c.whole)
                  /\ c.bio.at < End(p) <=> ~ OfSecond(c.whole)
                  /\ Crosses(p) <=> dev_size[1] < c.whole.at + c.whole.len
             /\ Second(c, lh) /\ lh = 2 =>
                  ~ Behind(p) /\ c.bio.at < End(p) /\ ~ Crosses(p)
             /\ Across(c.whole) /\ Front(c) /\ lh = 2 /\ c.before = dev_size[1] =>
                  ~ Behind(p) /\ c.bio.at < End(p)
<1>1. ctx[p] \in Context BY DEF TypeOK
<1>2. /\ Size(1) = dev_size[1] /\ Size(2) = dev_size[2] BY DEF Size
<1> QED
  BY <1>1, <1>2, Fields, Sizes
     DEF First, Second, Untouched, Accepted, OfSecond, Across, Front, Behind,
         Crosses, End

LEMMA CourseSelect ==
  ASSUME TypeOK, NEW p \in Submitter, Course(ctx[p], lh),
         \/ Select(p) \/ SelectAgain(p) \/ CheckEnd(p)
  PROVE  Course(ctx'[p], lh')
<1> DEFINE c == ctx[p]
           d == ctx'[p]
<1>1. /\ lh' = lh /\ Same(d, c)
      /\ \/ /\ c.pc = "test"
            /\ d.pc = (IF Behind(p) THEN "behind" ELSE "before")
         \/ /\ c.pc = "before"
            /\ d.pc = (IF c.bio.at < End(p) THEN "within" ELSE "advance")
         \/ /\ c.pc = "within"
            /\ d.pc = (IF Crosses(p) THEN "split" ELSE "send")
  BY SelectFields, SelectAgainFields, CheckEndFields
<1>2. c \in Context BY DEF TypeOK
<1>3. Accepted(c.whole) /\ (First(c, lh) \/ Second(c, lh) \/ Halves(c, lh))
  BY <1>1, Running
<1>4. /\ First(c, lh) /\ lh = 1 =>
           /\ Behind(p) <=> OfSecond(c.whole)
           /\ c.bio.at < End(p) <=> ~ OfSecond(c.whole)
           /\ Crosses(p) <=> dev_size[1] < c.whole.at + c.whole.len
      /\ Second(c, lh) /\ lh = 2 =>
           ~ Behind(p) /\ c.bio.at < End(p) /\ ~ Crosses(p)
      /\ Across(c.whole) /\ Front(c) /\ lh = 2 /\ c.before = dev_size[1] =>
           ~ Behind(p) /\ c.bio.at < End(p)
  BY <1>3, Compared
<1> HIDE DEF c, d
<1>5. /\ c.whole.at \in Int /\ c.whole.len \in Nat BY <1>2, Fields
<1>6. CASE First(c, lh)
  <2>1. lh = 1 BY <1>1, <1>6 DEF First
  <2>2. First(d, lh')
    BY <1>1, <1>3, <1>4, <1>5, <1>6, <2>1, Sizes, SameParts
       DEF First, Across, OfSecond
  <2> QED BY <1>1, <1>3, <2>2, SameParts DEF Course, d
<1>7. CASE Second(c, lh)
  <2>1. lh = 2 BY <1>1, <1>7 DEF Second
  <2>2. Second(d, lh')
    BY <1>1, <1>4, <1>7, <2>1, SameParts DEF Second
  <2> QED BY <1>1, <1>3, <2>2, SameParts DEF Course, d
<1>8. CASE Halves(c, lh)
  <2>1. lh = 2 /\ c.before = dev_size[1] /\ Front(c) /\ Across(c.whole)
    BY <1>1, <1>8 DEF Halves
  <2>2. Halves(d, lh')
    BY <1>1, <1>4, <2>1, SameParts DEF Halves
  <2> QED BY <1>1, <1>3, <2>2, SameParts DEF Course, d
<1> QED BY <1>3, <1>6, <1>7, <1>8

LEMMA CourseSkip ==
  ASSUME TypeOK, NEW p \in Submitter, Course(ctx[p], lh),
         Skip(p, "behind") \/ Skip(p, "front")
  PROVE  Course(ctx'[p], lh')
<1> DEFINE c == ctx[p]
           d == ctx'[p]
<1>1. /\ lh' = lh /\ c.pc \in {"behind", "front"}
      /\ d.pc = "advance" /\ d.before = c.before + Size(lh)
      /\ d.bio = c.bio /\ d.whole = c.whole /\ d.sent = c.sent
  BY SkipFields
<1> HIDE DEF c, d
<1>2. Accepted(c.whole) /\ (First(c, lh) \/ Second(c, lh) \/ Halves(c, lh))
  BY <1>1, Running DEF c
<1>3. lh = 1 => Size(lh) = dev_size[1] BY DEF Size
<1>4. First(c, lh) => Second(d, lh')
  BY <1>1, <1>3, Sizes DEF First, Second, Untouched
<1>5. ~ Second(c, lh) BY <1>1 DEF Second
<1>6. Halves(c, lh) => Halves(d, lh')
  BY <1>1, <1>3, Sizes DEF Halves, Front, Outside
<1> QED BY <1>1, <1>2, <1>4, <1>5, <1>6 DEF Course, c, d

LEMMA CourseAdvance ==
  ASSUME TypeOK, NEW p \in Submitter, Course(ctx[p], lh), Advance(p)
  PROVE  Course(ctx'[p], lh')
<1> DEFINE c == ctx[p]
           d == ctx'[p]
<1>1. /\ c.pc = "advance" /\ d.pc = "store"
      /\ d.next = (IF lh = 2 THEN 0 ELSE lh + 1) /\ d.before = c.before
      /\ d.bio = c.bio /\ d.whole = c.whole /\ d.sent = c.sent
  BY AdvanceFields
<1> HIDE DEF c, d
<1>2. Accepted(c.whole) /\ (First(c, lh) \/ Second(c, lh) \/ Halves(c, lh))
  BY <1>1, Running DEF c
<1>3. ~ First(c, lh) BY <1>1 DEF First
<1>4. Second(c, lh) => Second(d, lh') BY <1>1 DEF Second, Untouched
<1>5. Halves(c, lh) => Halves(d, lh') BY <1>1 DEF Halves, Front, Outside
<1> QED BY <1>1, <1>2, <1>3, <1>4, <1>5 DEF Course, c, d

LEMMA Requests ==
  ASSUME NEW c, NEW l
  PROVE  LET r == ToDevice(c, l)
         IN  /\ r.dev = l /\ r.sector = c.bio.at - c.before
             /\ r.len = c.bio.len /\ r.home = c.bio.home
             /\ r = [dev |-> l, sector |-> c.bio.at - c.before,
                     len |-> c.bio.len, home |-> c.bio.home]
  BY DEF ToDevice

\* A bio of one device reaches that device.
LEMMA CourseSend ==
  ASSUME TypeOK, NEW p \in Submitter, Course(ctx[p], lh), Send(p)
  PROVE  Course(ctx'[p], lh')
<1> DEFINE c == ctx[p]
           d == ctx'[p]
           r == ToDevice(c, lh)
<1>1. /\ lh' = lh /\ c.pc = "send"
      /\ lh # 0 => d.pc = "done" /\ d.whole = c.whole /\ d.sent = c.sent \cup {r}
  BY SendFields
<1>2. c \in Context BY DEF TypeOK
<1>3. /\ r.dev = lh /\ r.sector = c.bio.at - c.before /\ r.len = c.bio.len
      /\ r = [dev |-> lh, sector |-> c.bio.at - c.before,
              len |-> c.bio.len, home |-> c.bio.home]
  BY Requests
<1> HIDE DEF c, d, r
<1>4. Accepted(c.whole) /\ (First(c, lh) \/ Second(c, lh) \/ Halves(c, lh))
  BY <1>1, Running DEF c
<1>5. c.whole.at \in Int /\ c.whole.len \in Nat /\ c.bio.len \in Nat
  BY <1>2, Fields
<1>6. CASE First(c, lh)
  <2>1. /\ lh = 1 /\ c.bio = c.whole /\ c.sent = {} /\ c.before = 0
        /\ c.whole.at + c.whole.len <= dev_size[1]
    BY <1>1, <1>6 DEF First, Untouched
  <2>2. r = Right(c.whole, 1)
    BY <1>3, <1>4, <1>5, <2>1 DEF Right, Before, Accepted
  <2>3. Served(d) BY <1>1, <2>1, <2>2 DEF Served
  <2> QED BY <1>1, <1>4, <2>1, <2>3 DEF Course, d
<1>7. CASE Second(c, lh)
  <2>1. /\ lh = 2 /\ c.bio = c.whole /\ c.sent = {} /\ c.before = dev_size[1]
        /\ OfSecond(c.whole)
    BY <1>1, <1>7 DEF Second, Untouched
  <2>2. r = Right(c.whole, 2)
    BY <1>3, <1>4, <2>1 DEF Right, Before, Accepted
  <2>3. Served(d) BY <1>1, <2>1, <2>2 DEF Served
  <2> QED BY <1>1, <1>4, <2>1, <2>3 DEF Course, d
<1>8. CASE Halves(c, lh)
  <2>1. lh = 2 /\ c.before = dev_size[1] /\ Front(c) /\ Across(c.whole)
    BY <1>1, <1>8 DEF Halves
  <2>2. ~ Within(r)
    BY <1>3, <1>5, <2>1, Sizes DEF Across, Front, Within
  <2>3. Halves(d, lh')
    BY <1>1, <2>1, <2>2 DEF Halves, Front, Outside
  <2> QED BY <1>1, <1>4, <2>1, <2>3 DEF Course, d
<1> QED BY <1>4, <1>6, <1>7, <1>8

\* bio_split(bio, lh->dev_size+before_sector): the first sectors, as many as
\* the first device has, are kept back.
LEMMA CourseSplit ==
  ASSUME TypeOK, NEW p \in Submitter, Course(ctx[p], lh), Split(p)
  PROVE  Course(ctx'[p], lh')
<1> DEFINE c == ctx[p]
           d == ctx'[p]
           n == End(p)
<1>1. /\ lh' = lh /\ c.pc = "split"
      /\ n >= c.bio.len => d.pc = "oops" /\ Same(d, c)
      /\ n < c.bio.len =>
           /\ d.pc = "rest" /\ d.before = c.before
           /\ d.bio.at = c.bio.at + n /\ d.bio.len = c.bio.len - n
           /\ d.split.at = c.bio.at /\ d.split.len = n
           /\ d.whole = c.whole /\ d.sent = c.sent
  BY SplitFields
<1>2. /\ c \in Context /\ n \in Nat /\ n = Size(lh) + c.before
  BY EndNat DEF TypeOK
<1> HIDE DEF c, d, n
<1>3. Accepted(c.whole) /\ (First(c, lh) \/ Halves(c, lh))
  BY <1>1, Running DEF c, Second
<1>4. c.bio.len \in Nat /\ c.whole.len \in Nat BY <1>2, Fields
<1>5. /\ Across(c.whole)
      /\ \/ lh = 1 /\ c.before = 0 /\ Untouched(c)
         \/ lh = 2 /\ c.before = dev_size[1] /\ Front(c)
  BY <1>1, <1>3 DEF First, Halves
<1>6. Size(1) = dev_size[1] /\ Size(2) = dev_size[2] BY DEF Size
<1>7. CASE n >= c.bio.len
  <2>1. Outside(c) BY <1>5 DEF Untouched, Front, Outside
  <2>2. Halves(d, lh') BY <1>1, <1>5, <1>7, <2>1, SameParts DEF Halves
  <2> QED BY <1>1, <1>3, <1>7, <2>2, SameParts DEF Course, d
<1>8. CASE n < c.bio.len
  <2>1. lh = 1 /\ c.before = 0 /\ Untouched(c)
    BY <1>2, <1>5, <1>6, <1>8, Sizes DEF Front
  <2>2. n = dev_size[1] BY <1>2, <1>6, <2>1, Sizes
  <2>3. Rest(d)
    BY <1>1, <1>4, <1>8, <2>1, <2>2, Sizes DEF Rest, Untouched
  <2>4. Halves(d, lh') BY <1>1, <1>5, <1>8, <2>1, <2>3 DEF Halves
  <2> QED BY <1>1, <1>3, <1>8, <2>4 DEF Course, d
<1> QED BY <1>2, <1>4, <1>7, <1>8

\* What bio_split left is sent beyond the end of the first device.
LEMMA CourseSendRest ==
  ASSUME TypeOK, NEW p \in Submitter, Course(ctx[p], lh), SendRest(p)
  PROVE  Course(ctx'[p], lh')
<1> DEFINE c == ctx[p]
           d == ctx'[p]
           r == ToDevice(c, lh)
<1>1. /\ lh' = lh /\ c.pc = "rest"
      /\ lh # 0 => /\ d.pc = "front" /\ d.before = c.before
                   /\ d.bio = c.split /\ d.whole = c.whole
                   /\ d.sent = c.sent \cup {r}
  BY SendRestFields
<1>2. c \in Context BY DEF TypeOK
<1>3. r.dev = lh /\ r.sector = c.bio.at - c.before /\ r.len = c.bio.len
  BY Requests
<1> HIDE DEF c, d, r
<1>4. Accepted(c.whole) /\ Across(c.whole) /\ lh = 1 /\ Rest(c)
  BY <1>1, Running DEF c, First, Second, Halves
<1>5. c.whole.at \in Int /\ c.whole.len \in Nat BY <1>2, Fields
<1>6. ~ Within(r)
  BY <1>3, <1>4, <1>5, Sizes DEF Accepted, Rest, Within
<1>7. Halves(d, lh') BY <1>1, <1>4, <1>6 DEF Halves, Rest, Front, Outside
<1> QED BY <1>1, <1>4, <1>7 DEF Course, d

LEMMA CourseStep ==
  ASSUME NoOverflow, TypeOK, NEW p \in Submitter, Course(ctx[p], lh), Step(p)
  PROVE  Course(ctx'[p], lh')
  BY CourseSubmit, CourseStore, CourseLoop, CourseSelect, CourseSkip,
     CourseAdvance, CourseSend, CourseSplit, CourseSendRest DEF Step

LEMMA CourseInductive ==
  ASSUME NoOverflow
  PROVE  /\ Init => CourseInv
         /\ TypeOK /\ CourseInv /\ [Next]_vars => CourseInv'
<1>1. Init => CourseInv
  <2> SUFFICES ASSUME Init, NEW p \in Submitter PROVE Course(ctx[p], lh)
    BY DEF CourseInv
  <2>1. ctx[p].pc = "idle" /\ ctx[p].sent = {} BY DEF Init
  <2> QED BY <2>1 DEF Course
<1>2. ASSUME TypeOK, CourseInv, [Next]_vars PROVE CourseInv'
  <2>1. CASE UNCHANGED vars BY <1>2, <2>1 DEF vars, CourseInv, Alone
  <2>2. ASSUME Next PROVE CourseInv'
    <3>1. PICK p \in Submitter : Step(p) BY <2>2 DEF Next, Step
    <3>2. Alone(p) => Course(ctx'[p], lh')
      BY <1>2, <3>1, CourseStep DEF CourseInv
    <3>3. Moves(p) /\ ctx'[p].pc # "idle" BY <1>2, <3>1, StepMoves
    <3>4. \A q \in Submitter : q # p => ctx'[q] = ctx[q]
      BY <1>2, <3>3 DEF Moves, TypeOK
    <3>5. ASSUME NEW q \in Submitter, Alone(q)' PROVE Course(ctx'[q], lh')
      <4>1. q = p BY <3>3, <3>5 DEF Alone
      <4>2. Alone(p) BY <3>4, <3>5, <4>1 DEF Alone
      <4> QED BY <3>2, <4>1, <4>2
    <3> QED BY <3>5 DEF CourseInv
  <2> QED BY <1>2, <2>1, <2>2
<1> QED BY <1>1, <1>2

\* As long as one context submits, no sector of a bio reaches a sector of a
\* device other than its own, and a bio of one device reaches that device once,
\* at the right sector, when the size of the disk is not truncated.
THEOREM AloneSafe == NoOverflow /\ Spec => [](RightSector /\ SelectsAlone)
<1>1. ASSUME TypeOK, CourseInv PROVE RightSector /\ SelectsAlone
  <2>1. ASSUME NEW p \in Submitter, Alone(p), NEW r \in ctx[p].sent, Within(r)
        PROVE  r.sector + Before(r.dev) = r.home
    <3>1. ctx[p] \in Context /\ Course(ctx[p], lh)
      BY <1>1, <2>1 DEF TypeOK, CourseInv
    <3>2. Served(ctx[p])
      BY <2>1, <3>1 DEF Course, First, Second, Halves, Rest, Untouched, Front,
         Outside
    <3>3. r = Right(ctx[p].whole, 1) \/ r = Right(ctx[p].whole, 2)
      BY <2>1, <3>2 DEF Served
    <3> QED BY <3>1, <3>3, Fields, Sizes DEF Right, Before
  <2>2. ASSUME NEW p \in Submitter, Alone(p), NEW l \in 1..2, Returned(p),
               OnEntry(ctx[p].whole, l)
        PROVE  ctx[p].sent = {Right(ctx[p].whole, l)}
    <3>1. ctx[p] \in Context /\ Course(ctx[p], lh)
      BY <1>1, <2>2 DEF TypeOK, CourseInv
    <3>2. l = 1 \/ l = 2 OBVIOUS
    <3>3. Accepted(ctx[p].whole) /\ (Served(ctx[p]) \/ Across(ctx[p].whole))
      BY <2>2, <3>1, <3>2, Fields, Sizes
         DEF Returned, Course, First, Second, Halves, OnEntry, Before
    <3>4. ~ Across(ctx[p].whole)
      BY <2>2, <3>1, <3>2, <3>3, Fields, Sizes
         DEF Across, Accepted, OnEntry, Before
    <3> QED
      BY <2>2, <3>1, <3>2, <3>3, <3>4, Fields, Sizes
         DEF Served, OfSecond, Accepted, OnEntry, Before
  <2> QED BY <2>1, <2>2 DEF RightSector, SelectsAlone, Selected
<1>2. CASE NoOverflow
  <2>1. Init => CourseInv BY <1>2, CourseInductive
  <2>2. TypeOK /\ CourseInv /\ [Next]_vars => CourseInv'
    BY <1>2, CourseInductive
  <2>3. TypeOK /\ CourseInv => RightSector /\ SelectsAlone BY <1>1
  <2> QED BY <2>1, <2>2, <2>3, TypesInductive, PTL DEF Spec
<1>3. CASE ~ NoOverflow BY <1>3
<1> QED BY <1>2, <1>3

\* As long as one context submits, a bio of one device reaches that device, once
\* and at the right sector.
THEOREM AloneSelected == NoOverflow /\ Spec => []SelectsAlone
BY AloneSafe, PTL
=============================================================================
