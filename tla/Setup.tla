------------------------------- MODULE Setup -------------------------------
(***************************************************************************)
(* What a setup promises, whatever messages, crashes and retries it takes: *)
(* first every host gets its ramdisk, then a coordinator puts them         *)
(* together, and only then is a client told of success.  Nothing is taken  *)
(* back.                                                                   *)
(***************************************************************************)
CONSTANTS Server, SetupClient

VARIABLES
  prepared,    \* hosts with a ramdisk
  assembled,   \* hosts that have attached the ramdisks of all the others and
               \* made the disk of them
  told         \* clients that read "success"

setupvars == <<prepared, assembled, told>>

SetupInit == prepared = {} /\ assembled = {} /\ told = {}

PrepareHost(n) ==
  /\ prepared' = prepared \cup {n}
  /\ UNCHANGED <<assembled, told>>

AssembleDisk(n) ==
  /\ prepared = Server
  /\ assembled' = assembled \cup {n}
  /\ UNCHANGED <<prepared, told>>

TellClient(c) ==
  /\ assembled # {}
  /\ told' = told \cup {c}
  /\ UNCHANGED <<prepared, assembled>>

SetupNext ==
  \/ \E n \in Server : PrepareHost(n) \/ AssembleDisk(n)
  \/ \E c \in SetupClient : TellClient(c)

SetupSpec == SetupInit /\ [][SetupNext]_setupvars
=============================================================================
