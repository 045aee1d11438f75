------------------------------ MODULE Sockets ------------------------------
(***************************************************************************)
(* The kernel side of the controllers' conversations: TCP connections and  *)
(* the descriptor table of every controller process.  None of this is code *)
(* of the repository; it is what jcm_controller.c and the clients rely on  *)
(* when they call socket, connect, accept, read, write, open and close.    *)
(*                                                                         *)
(* The whole kernel state is one record w, and every call is an operator   *)
(* from w to w, so that a handler making several calls composes them.      *)
(*                                                                         *)
(* Connection k has two ends: k for the process that called connect and -k *)
(* for the process whose listening socket it reached.  A descriptor holds  *)
(* an end, or one of the three markers Free, File and Unconnected.         *)
(*                                                                         *)
(* No descriptor is opened close-on-exec: a program that the controller    *)
(* starts with system() and that stays holds them all, too, and with them  *)
(* the connections and the listening socket, which then outlive it.        *)
(***************************************************************************)
EXTENDS Integers, Sequences, FiniteSets

CONSTANTS
  Server,     \* the hosts of server_config, one controller process each
  MaxConns,   \* bound on the connections opened in a behaviour
  MaxFd       \* descriptors a controller may hold besides 0-2 and serv_sock

ASSUME BoundsAssumption == MaxConns \in Nat /\ MaxFd \in Nat

Conn == 1..MaxConns
End  == (-MaxConns..MaxConns) \ {0}
Fd   == 1..MaxFd

NoFd        == 0                 \* descriptor 0, what client_sock starts as
Free        == 0                 \* the descriptor is closed
File        == MaxConns + 1      \* an open file that nobody closed
Unconnected == MaxConns + 2      \* a socket whose connect failed

Slot == End \cup {Free, File, Unconnected}

Kernel(Msg) ==
  [ inq     : [End -> Seq(Msg)],                  \* received, not yet read
    open    : [End -> BOOLEAN],                   \* the end is held open
    err     : [End -> {"none", "reset", "pipe"}], \* pending socket error
    backlog : [Server -> Seq(Conn)],              \* connected, not accepted
    kept    : SUBSET End,                         \* daemons hold them, too
    heirs   : SUBSET Server,                      \* so, the listening socket
    fdt     : [Server -> [Fd -> Slot]],
    made    : 0..MaxConns ]

Boot ==
  [ inq     |-> [e \in End |-> <<>>],
    open    |-> [e \in End |-> FALSE],
    err     |-> [e \in End |-> "none"],
    backlog |-> [n \in Server |-> <<>>],
    kept    |-> {},
    heirs   |-> {},
    fdt     |-> [n \in Server |-> [f \in Fd |-> Free]],
    made    |-> 0 ]

-----------------------------------------------------------------------------
(* Descriptors: a new one is always the lowest that is free.               *)

IsLowestFree(w, n, f) ==
  w.fdt[n][f] = Free /\ \A g \in 1..(f - 1) : w.fdt[n][g] # Free

HasFd(w, n) == \E f \in Fd : IsLowestFree(w, n, f)

LowestFd(w, n) == CHOOSE f \in Fd : IsLowestFree(w, n, f)

\* socket() or open(): occupy the lowest free descriptor with s.
Take(w, n, s) ==
  IF HasFd(w, n) THEN [w EXCEPT !.fdt[n][LowestFd(w, n)] = s] ELSE w

\* The ends of connections that the process of n holds.
Held(w, n) == {w.fdt[n][f] : f \in Fd} \cap End

\* A program started by n stays, and never closes what it got from n.
Inherit(w, n) ==
  [w EXCEPT !.kept = @ \cup Held(w, n), !.heirs = @ \cup {n}]

-----------------------------------------------------------------------------
(* Connections.                                                            *)

\* connect() to the listening socket of n succeeds without n's cooperation.
Connect(w, n) ==
  LET k == w.made + 1 IN
  [w EXCEPT !.made = k,
            !.open = [e \in End |-> e \in {k, -k} \/ w.open[e]],
            !.backlog[n] = Append(@, k)]

\* accept() on the listening socket of n.
Accept(w, n) ==
  [w EXCEPT !.fdt[n][LowestFd(w, n)] = -Head(w.backlog[n]),
            !.backlog[n] = Tail(@)]

\* The other end will not answer any more: read() returns 0 or -1.
Hung(w, e) == ~ w.open[-e] \/ w.err[e] # "none"

Readable(w, e) == w.inq[e] # <<>> \/ Hung(w, e)

\* read() returns everything that is there; an error is reported once.
Drain(w, e) ==
  [w EXCEPT !.inq[e] = <<>>,
            !.err[e] = IF w.inq[e] = <<>> /\ @ = "reset" THEN "pipe" ELSE @]

\* write(): the first write to an end that has gone provokes a reset, ...
Write(w, e, m) ==
  IF w.open[-e]
  THEN [w EXCEPT !.inq[-e] = Append(@, m)]
  ELSE [w EXCEPT !.err[e] = "pipe"]

\* ... and the next one raises SIGPIPE, which ends the process.  So does a
\* write after a reset, once the reset has been reported.
Sigpipe(w, e) == w.err[e] = "pipe"

\* The last close() of an end.  With unread data, or when it is the listener's
\* and was never accepted, it resets.
CloseEnds(w, E, unaccepted) ==
  [w EXCEPT
     !.inq  = [e \in End |-> IF e \in E THEN <<>> ELSE w.inq[e]],
     !.open = [e \in End |-> e \notin E /\ w.open[e]],
     !.err  = [e \in End |->
                 IF /\ -e \in E
                    /\ w.open[e]
                    /\ w.inq[-e] # <<>> \/ -e \in unaccepted
                 THEN "reset" ELSE w.err[e]]]

\* close() of a descriptor is felt at the other end unless a daemon has it, too.
Close(w, n, f) ==
  LET v == CloseEnds(w, ({w.fdt[n][f]} \cap End) \ w.kept, {})
  IN  [v EXCEPT !.fdt[n][f] = Free]

\* Connections that the listening socket of n has and its last close() ends.
Waiting(w, n) ==
  IF n \in w.heirs THEN {} ELSE {-w.backlog[n][i] : i \in 1..Len(w.backlog[n])}

\* The process of n ends: every descriptor and the listening socket close.
Exit(w, n) ==
  LET v == CloseEnds(w, (Held(w, n) \ w.kept) \cup Waiting(w, n), Waiting(w, n))
  IN  [v EXCEPT !.fdt[n] = [f \in Fd |-> Free],
                !.backlog[n] = IF n \in w.heirs THEN @ ELSE <<>>]
=============================================================================
