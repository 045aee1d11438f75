----------------------------- MODULE BackupLog -----------------------------
(***************************************************************************)
(* What the backup of bestio promises, whatever threads and locks it uses: *)
(* the bios it accepts reach the backup device one after the other, in the *)
(* order in which they were accepted.  One may be lost when there is no    *)
(* memory for its pages, and the rest when the module is removed.          *)
(***************************************************************************)
EXTENDS Sequences

CONSTANT Bio

VARIABLES
  pending,   \* accepted, not yet on the backup device
  written    \* in the order in which the device completed them

logvars == <<pending, written>>

LogInit == pending = <<>> /\ written = <<>>

AcceptBio(b) == pending' = Append(pending, b) /\ UNCHANGED written

WriteBio ==
  /\ pending # <<>>
  /\ written' = Append(written, Head(pending))
  /\ pending' = Tail(pending)

LoseBio == pending # <<>> /\ pending' = Tail(pending) /\ UNCHANGED written

Discard == pending' = <<>> /\ UNCHANGED written

LogNext == (\E b \in Bio : AcceptBio(b)) \/ WriteBio \/ LoseBio \/ Discard

LogSpec == LogInit /\ [][LogNext]_logvars
=============================================================================
